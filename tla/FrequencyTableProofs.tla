------------------------ MODULE FrequencyTableProofs -------------------------
(***************************************************************************)
(* What save_freq writes, load_freq reads back, for any table; and the     *)
(* invariants of FrequencyTable, for any shells, children, words and any   *)
(* capacity.                                                               *)
(***************************************************************************)
EXTENDS FrequencyTable, SequenceTheorems, WellFoundedInduction, TLAPS

-----------------------------------------------------------------------------
(* Induction on sets of numbers.                                           *)

LEMMA Least ==
  ASSUME NEW T \in SUBSET Nat, T # {}
  PROVE  \E x \in T : \A y \in T : x <= y
<1>1. PICK x \in T : \A y \in T : ~ (<<y, x>> \in OpToRel(<, Nat))
  BY NatLessThanWellFounded, WFMin, Zenon
<1>2. \A m, n \in Nat : <<m, n>> \in OpToRel(<, Nat) <=> m < n
  BY DEF OpToRel
<1>3. \A y \in T : ~(y < x)
  BY <1>1, <1>2
<1>4. QED
  BY <1>3

LEMMA NatSetInduction ==
  ASSUME NEW T, 0 \in T, \A n \in Nat : n \in T => n + 1 \in T
  PROVE  Nat \subseteq T
<1>1. SUFFICES ASSUME Nat \ T # {} PROVE FALSE
  OBVIOUS
<1>2. PICK x \in Nat \ T : \A y \in Nat \ T : x <= y
  BY <1>1, Least
<1>3. x - 1 \in Nat /\ ~(x <= x - 1) /\ (x - 1) + 1 = x
  BY <1>2
<1>4. QED
  BY <1>2, <1>3

LEMMA ForwardRecursion ==
  ASSUME NEW n \in Nat, NEW s
  PROVE  \E f : f = [i \in 1 .. n |-> IF i = 1 THEN s[i] ELSE f[i - 1] \o s[i]]
<1> DEFINE At(f, i) == IF i = 1 THEN s[i] ELSE f[i - 1] \o s[i]
           Upto(f, g, k) == f = [i \in 1 .. n |-> IF i <= k THEN At(g, i) ELSE <<>>]
           T == {k \in Nat : \E f : Upto(f, f, k)}
<1>1. 0 \in T
  <2>1. \A i \in 1 .. n : ~(i <= 0)
    OBVIOUS
  <2> DEFINE f == [i \in 1 .. n |-> <<>>]
  <2>2. Upto(f, f, 0)
    BY <2>1, Zenon
  <2>3. QED
    BY <2>2
<1>2. ASSUME NEW k \in Nat, k \in T PROVE k + 1 \in T
  <2>1. PICK f : Upto(f, f, k)
    BY <1>2
  <2> DEFINE g == [i \in 1 .. n |-> IF i <= k + 1 THEN At(f, i) ELSE <<>>]
  <2>2. /\ g = [i \in 1 .. n |-> IF i <= k + 1 THEN At(f, i) ELSE <<>>]
        /\ \A i \in 1 .. n : i <= k + 1 => g[i] = At(f, i)
    BY Zenon
  <2> HIDE DEF g
  <2>3. ASSUME NEW i \in 1 .. n, i <= k + 1 PROVE At(g, i) = At(f, i)
    <3>1. CASE i # 1
      <4>1. i - 1 \in 1 .. n /\ i - 1 <= k /\ i - 1 <= k + 1
        BY <2>3, <3>1
      <4>2. f[i - 1] = At(f, i - 1) /\ g[i - 1] = At(f, i - 1)
        BY <2>1, <2>2, <4>1, Zenon
      <4>3. QED
        BY <4>2, Zenon
    <3>2. QED
      BY <3>1, Zenon
  <2>4. Upto(g, g, k + 1)
    BY <2>2, <2>3, ZenonT(30)
  <2>5. k + 1 \in Nat
    OBVIOUS
  <2>6. QED
    BY <2>4, <2>5, Zenon
<1>3. n \in T
  BY <1>1, <1>2, NatSetInduction, Zenon
<1>4. PICK f : Upto(f, f, n)
  BY <1>3
<1>5. \A i \in 1 .. n : i <= n
  OBVIOUS
<1>6. f = [i \in 1 .. n |-> At(f, i)]
  BY <1>4, <1>5, Zenon
<1>7. QED
  BY <1>6
-----------------------------------------------------------------------------
(* What is written.                                                        *)

LEMMA Parameters ==
  /\ Shells \cap Children = {} /\ Exit \in Words /\ Junk \notin Words
  /\ Spaced \subseteq Long /\ Long \subseteq Words
  /\ Defaults \in Seq(Words \ Spaced) /\ IsInjective(Defaults)
  /\ Capacity \in Nat /\ Len(Defaults) <= Capacity
  /\ NoFile \notin Seq(Cells)
BY FrequencyAssumption, Zenon

LEMMA CellType ==
  ASSUME NEW kind \in {"word", "rest", "number"}, NEW w \in Words \cup {Junk}, NEW n \in Nat
  PROVE  /\ Cell(kind, w, n) \in Cells
         /\ Cell(kind, w, n).kind = kind
         /\ Cell(kind, w, n).word = w
         /\ Cell(kind, w, n).number = n
BY DEF Cell, Cells

LEMMA OneMore ==
  ASSUME NEW S, NEW s \in Seq(S), NEW e \in S
  PROVE  /\ s \o <<e>> \in Seq(S)
         /\ Len(s \o <<e>>) = Len(s) + 1
         /\ (s \o <<e>>)[Len(s) + 1] = e
         /\ \A i \in 1 .. Len(s) : (s \o <<e>>)[i] = s[i]
<1>1. <<e>> \in Seq(S) /\ Len(<<e>>) = 1 /\ <<e>>[1] = e /\ Len(s) \in Nat
  BY LenProperties
<1>2. QED
  BY <1>1, ConcatProperties

LEMMA LineShape ==
  ASSUME NEW e \in Entry
  PROVE  /\ Line(e) \in Seq(Cells)
         /\ Len(Line(e)) = IF e.command \in Long THEN 3 ELSE 2
         /\ Line(e)[1] = Cell("word", e.command, 0)
         /\ e.command \in Long => Line(e)[2] = Cell("rest", e.command, 0)
         /\ Line(e)[Len(Line(e))] = Cell("number", Junk, e.count)
<1> DEFINE a == Cell("word", e.command, 0)
           b == Cell("rest", e.command, 0)
           c == Cell("number", Junk, e.count)
<1>1. a \in Cells /\ b \in Cells /\ c \in Cells
  BY CellType DEF Entry
<1>2. Line(e) = <<a>> \o (IF e.command \in Long THEN <<b>> ELSE <<>>) \o <<c>>
  BY DEF Line
<1> HIDE DEF a, b, c
<1>3. <<a>> \in Seq(Cells) /\ Len(<<a>>) = 1 /\ <<a>>[1] = a
  BY <1>1
<1>4. CASE e.command \in Long
  <2> DEFINE w == <<a>> \o <<b>>
  <2>1. Line(e) = w \o <<c>>
    BY <1>2, <1>4, Zenon
  <2>2. w \in Seq(Cells) /\ Len(w) = 2 /\ w[1] = a /\ w[2] = b
    BY <1>1, <1>3, OneMore
  <2> HIDE DEF w
  <2>3. /\ w \o <<c>> \in Seq(Cells) /\ Len(w \o <<c>>) = 3
        /\ (w \o <<c>>)[1] = a /\ (w \o <<c>>)[2] = b /\ (w \o <<c>>)[3] = c
    <3>1. 1 \in 1 .. Len(w) /\ 2 \in 1 .. Len(w) /\ Len(w) + 1 = 3
      BY <2>2
    <3>2. w \o <<c>> \in Seq(Cells)
      BY <1>1, <2>2, OneMore
    <3>3. Len(w \o <<c>>) = Len(w) + 1
      BY <1>1, <2>2, OneMore
    <3>4. (w \o <<c>>)[1] = w[1]
      BY <1>1, <2>2, <3>1, OneMore
    <3>5. (w \o <<c>>)[2] = w[2]
      BY <1>1, <2>2, <3>1, OneMore
    <3>6. (w \o <<c>>)[Len(w) + 1] = c
      BY <1>1, <2>2, OneMore
    <3>7. QED
      BY <2>2, <3>1, <3>2, <3>3, <3>4, <3>5, <3>6
  <2>4. QED
    BY <1>4, <2>1, <2>3 DEF a, b, c
<1>5. CASE e.command \notin Long
  <2>1. Line(e) = <<a>> \o <<>> \o <<c>>
    BY <1>2, <1>5, Zenon
  <2>2. Line(e) = <<a>> \o <<c>>
    BY <1>3, <2>1, ConcatEmptySeq
  <2>3. /\ <<a>> \o <<c>> \in Seq(Cells) /\ Len(<<a>> \o <<c>>) = 2
        /\ (<<a>> \o <<c>>)[1] = a /\ (<<a>> \o <<c>>)[2] = c
    BY <1>1, <1>3, OneMore
  <2>4. QED
    BY <1>5, <2>2, <2>3 DEF a, b, c
<1>6. QED
  BY <1>4, <1>5

(* Written puts one line behind the other.                                 *)
LEMMA WrittenByLines ==
  ASSUME NEW t \in Seq(Entry)
  PROVE  \E upto \in [0 .. Len(t) -> Seq(Cells)] :
           /\ upto[0] = <<>>
           /\ \A i \in 1 .. Len(t) : upto[i] = upto[i - 1] \o Line(t[i])
           /\ Written(t) = upto[Len(t)]
<1> DEFINE n == Len(t)
           lines == [i \in DOMAIN t |-> Line(t[i])]
<1>1. n \in Nat /\ DOMAIN t = 1 .. n
  BY LenProperties
<1>2. \A i \in 1 .. n : t[i] \in Entry /\ Line(t[i]) \in Seq(Cells)
  BY ElementOfSeq, LineShape
<1>3. lines \in Seq(Seq(Cells)) /\ Len(lines) = n /\ \A i \in 1 .. n : lines[i] = Line(t[i])
  BY <1>1, <1>2
<1>4. Written(t) = FlattenSeq(lines)
  BY DEF Written
<1> HIDE DEF n, lines
<1>5. CASE n = 0
  <2>1. lines = <<>>
    BY <1>3, <1>5
  <2>2. Written(t) = <<>>
    BY <1>4, <2>1 DEF FlattenSeq
  <2> DEFINE upto == [i \in 0 .. n |-> <<>>]
  <2>3. upto \in [0 .. n -> Seq(Cells)] /\ upto[0] = <<>> /\ upto[n] = <<>>
    BY <1>1, <1>5
  <2>4. \A i \in 1 .. n : FALSE
    BY <1>5
  <2>5. QED
    BY <2>2, <2>3, <2>4, Zenon DEF n
<1>6. CASE n # 0
  <2> DEFINE flatten == CHOOSE f : f = [i \in 1 .. n |-> IF i = 1 THEN lines[i] ELSE f[i - 1] \o lines[i]]
  <2>1. Written(t) = flatten[n]
    BY <1>3, <1>4, <1>6, Zenon DEF FlattenSeq
  <2>2. \E f : f = [i \in 1 .. n |-> IF i = 1 THEN lines[i] ELSE f[i - 1] \o lines[i]]
    BY <1>1, ForwardRecursion, Zenon
  <2>3. flatten = [i \in 1 .. n |-> IF i = 1 THEN lines[i] ELSE flatten[i - 1] \o lines[i]]
    BY <2>2, Zenon
  <2> HIDE DEF flatten
  <2> DEFINE upto == [i \in 0 .. n |-> IF i = 0 THEN <<>> ELSE flatten[i]]
  <2>4. upto[0] = <<>> /\ upto[n] = Written(t)
    BY <1>1, <1>6, <2>1
  <2>5. ASSUME NEW i \in 1 .. n PROVE upto[i] = upto[i - 1] \o Line(t[i])
    <3>1. i # 0 /\ i \in 0 .. n /\ i - 1 \in 0 .. n /\ (i = 1 => i - 1 = 0) /\ (i # 1 => i - 1 # 0)
      BY <1>1
    <3>2. CASE i = 1
      <4>1. upto[i] = Line(t[i]) /\ upto[i - 1] = <<>>
        BY <1>3, <2>3, <3>1, <3>2, Zenon
      <4>2. QED
        BY <1>2, <4>1, ConcatEmptySeq
    <3>3. CASE i # 1
      <4>1. upto[i] = flatten[i] /\ upto[i - 1] = flatten[i - 1]
        BY <3>1, <3>3, Zenon
      <4>2. QED
        BY <1>3, <2>3, <3>3, <4>1, Zenon
    <3>4. QED
      BY <3>2, <3>3
  <2>6. upto = [i \in 0 .. n |-> upto[i]]
    OBVIOUS
  <2> HIDE DEF upto
  <2>7. \A k \in Nat : k \in {i \in Nat : i <= n => upto[i] \in Seq(Cells)}
    <3> DEFINE T == {i \in Nat : i <= n => upto[i] \in Seq(Cells)}
    <3>1. 0 \in T
      BY <2>4, EmptySeq
    <3>2. ASSUME NEW k \in Nat, k \in T PROVE k + 1 \in T
      <4>1. CASE k + 1 <= n
        <5>1. k + 1 \in 1 .. n /\ (k + 1) - 1 = k /\ k <= n
          BY <1>1, <4>1
        <5>2. upto[k + 1] = upto[k] \o Line(t[k + 1]) /\ upto[k] \in Seq(Cells)
          BY <2>5, <3>2, <5>1
        <5>3. upto[k + 1] \in Seq(Cells)
          BY <1>2, <5>1, <5>2, ConcatProperties
        <5>4. QED
          BY <4>1, <5>3
      <4>2. QED
        BY <4>1
    <3>3. QED
      BY <3>1, <3>2, NatSetInduction
  <2>8. upto \in [0 .. n -> Seq(Cells)]
    BY <1>1, <2>6, <2>7
  <2>9. QED
    BY <2>4, <2>5, <2>8, Zenon DEF n
<1>7. QED
  BY <1>5, <1>6

(* What was written first stays where it is.                               *)
LEMMA LinesStay ==
  ASSUME NEW t \in Seq(Entry), NEW upto \in [0 .. Len(t) -> Seq(Cells)],
         \A i \in 1 .. Len(t) : upto[i] = upto[i - 1] \o Line(t[i])
  PROVE  \A i, j \in 0 .. Len(t) : i <= j =>
           /\ Len(upto[i]) <= Len(upto[j])
           /\ \A k \in 1 .. Len(upto[i]) : upto[j][k] = upto[i][k]
<1> DEFINE n == Len(t)
           Stays(i, j) == /\ Len(upto[i]) <= Len(upto[j])
                          /\ \A k \in 1 .. Len(upto[i]) : upto[j][k] = upto[i][k]
<1>1. n \in Nat
  BY LenProperties
<1>2. \A i \in 0 .. n : upto[i] \in Seq(Cells) /\ Len(upto[i]) \in Nat
  BY LenProperties
<1>3. SUFFICES ASSUME NEW i \in 0 .. n PROVE \A j \in 0 .. n : i <= j => Stays(i, j)
  BY Zenon
<1> DEFINE T == {d \in Nat : i + d <= n => Stays(i, i + d)}
<1>4. 0 \in T
  BY <1>1, <1>2
<1>5. ASSUME NEW d \in Nat, d \in T PROVE d + 1 \in T
  <2>1. SUFFICES ASSUME i + (d + 1) <= n PROVE Stays(i, i + (d + 1))
    OBVIOUS
  <2> DEFINE j == i + d
  <2>2. j \in 0 .. n /\ j + 1 \in 1 .. n /\ (j + 1) - 1 = j /\ i + (d + 1) = j + 1 /\ j <= n
    BY <1>1, <2>1
  <2>3. Stays(i, j)
    BY <1>5, <2>2
  <2> HIDE DEF j
  <2>4. t[j + 1] \in Entry
    BY <2>2, ElementOfSeq
  <2>5. upto[j + 1] = upto[j] \o Line(t[j + 1]) /\ Line(t[j + 1]) \in Seq(Cells)
    BY <2>2, <2>4, LineShape
  <2>6. Stays(j, j + 1)
    BY <1>2, <2>2, <2>5, ConcatProperties, LenProperties
  <2>7. Len(upto[i]) \in Nat /\ Len(upto[j]) \in Nat /\ Len(upto[j + 1]) \in Nat
    BY <1>2, <2>2
  <2>8. Stays(i, j + 1)
    BY <2>3, <2>6, <2>7
  <2>9. QED
    BY <2>2, <2>8
<1>6. \A d \in Nat : d \in T
  BY <1>4, <1>5, NatSetInduction
<1>7. SUFFICES ASSUME NEW j \in 0 .. n, i <= j PROVE Stays(i, j)
  OBVIOUS
<1>8. j - i \in Nat /\ i + (j - i) = j /\ j <= n
  BY <1>1, <1>7
<1>9. QED
  BY <1>6, <1>8

LEMMA LineInPlace ==
  ASSUME NEW t \in Seq(Entry), NEW upto \in [0 .. Len(t) -> Seq(Cells)],
         \A i \in 1 .. Len(t) : upto[i] = upto[i - 1] \o Line(t[i]),
         NEW i \in 1 .. Len(t)
  PROVE  /\ Len(upto[i - 1]) + Len(Line(t[i])) = Len(upto[i])
         /\ Len(upto[i - 1]) \in Nat
         /\ Len(upto[i]) <= Len(upto[Len(t)])
         /\ \A k \in 1 .. Len(Line(t[i])) :
              upto[Len(t)][Len(upto[i - 1]) + k] = Line(t[i])[k]
<1> DEFINE n == Len(t)
           a == upto[i - 1]
           l == Line(t[i])
<1>1. n \in Nat /\ i - 1 \in 0 .. n /\ i \in 0 .. n /\ n \in 0 .. n /\ i <= n
  BY LenProperties
<1>2. t[i] \in Entry /\ l \in Seq(Cells) /\ a \in Seq(Cells) /\ upto[i] = a \o l
  BY <1>1, ElementOfSeq, LineShape
<1>3. Len(upto[i]) <= Len(upto[n]) /\ \A k \in 1 .. Len(upto[i]) : upto[n][k] = upto[i][k]
  BY <1>1, LinesStay
<1> HIDE DEF n, a, l
<1>4. /\ Len(a) \in Nat /\ Len(l) \in Nat /\ Len(upto[i]) = Len(a) + Len(l)
      /\ \A k \in 1 .. Len(a) + Len(l) :
           upto[i][k] = IF k <= Len(a) THEN a[k] ELSE l[k - Len(a)]
  BY <1>2, LenProperties, ConcatProperties
<1>5. ASSUME NEW k \in 1 .. Len(l) PROVE upto[n][Len(a) + k] = l[k]
  <2>1. Len(a) + k \in 1 .. Len(a) + Len(l) /\ ~(Len(a) + k <= Len(a)) /\ (Len(a) + k) - Len(a) = k
    BY <1>4
  <2>2. QED
    BY <1>3, <1>4, <2>1
<1>6. QED
  BY <1>3, <1>4, <1>5 DEF n, a, l
-----------------------------------------------------------------------------
(* What is read.                                                           *)

LEMMA ScannedInside ==
  ASSUME NEW cells \in Seq(Cells), NEW i \in 1 .. Len(cells) + 1, Scanned(cells, i)
  PROVE  /\ i \in 1 .. Len(cells)
         /\ LastCell(cells, i) \in {i, i + 1}
         /\ LastCell(cells, i) + 1 \in 1 .. Len(cells)
         /\ LastCell(cells, i) + 2 \in i + 1 .. Len(cells) + 1
         /\ EntryAt(cells, i) \in Entry
<1>1. Len(cells) \in Nat /\ DOMAIN cells = 1 .. Len(cells)
  BY LenProperties
<1>2. LastCell(cells, i) \in {i, i + 1}
  BY DEF LastCell
<1>3. LastCell(cells, i) + 1 \in 1 .. Len(cells)
  BY <1>1 DEF Scanned, Is
<1>4. i \in 1 .. Len(cells) /\ LastCell(cells, i) + 2 \in i + 1 .. Len(cells) + 1
  BY <1>1, <1>2, <1>3
<1>5. cells[i] \in Cells /\ cells[LastCell(cells, i) + 1] \in Cells
  BY <1>3, <1>4, ElementOfSeq
<1>6. EntryAt(cells, i) \in Entry
  BY <1>5 DEF EntryAt, Entry, Cells
<1>7. QED
  BY <1>2, <1>3, <1>4, <1>6

(* The recursion of Scan is one: what is read from a cell onward depends   *)
(* on what is read from later ones.                                        *)
LEMMA ScanDefined ==
  ASSUME NEW cells \in Seq(Cells)
  PROVE  \E f : f = [i \in 1 .. Len(cells) + 1 |->
                     IF Scanned(cells, i)
                     THEN <<EntryAt(cells, i)>> \o f[LastCell(cells, i) + 2]
                     ELSE <<>>]
<1> DEFINE n == Len(cells) + 1
           next(i) == LastCell(cells, i) + 2
           At(f, i) == IF Scanned(cells, i) THEN <<EntryAt(cells, i)>> \o f[next(i)] ELSE <<>>
           Upto(f, g, k) == f = [i \in 1 .. n |-> IF i + k > n THEN At(g, i) ELSE <<>>]
           T == {k \in Nat : \E f : Upto(f, f, k)}
<1>1. n \in Nat /\ \A i \in 1 .. n : Scanned(cells, i) => next(i) \in i + 1 .. n
  BY ScannedInside, LenProperties
<1> HIDE DEF n, next
<1>2. 0 \in T
  <2>1. \A i \in 1 .. n : ~(i + 0 > n)
    BY <1>1
  <2> DEFINE f == [i \in 1 .. n |-> <<>>]
  <2>2. Upto(f, f, 0)
    BY <2>1, Zenon
  <2>3. QED
    BY <2>2
<1>3. ASSUME NEW k \in Nat, k \in T PROVE k + 1 \in T
  <2>1. PICK f : Upto(f, f, k)
    BY <1>3
  <2> DEFINE g == [i \in 1 .. n |-> IF i + (k + 1) > n THEN At(f, i) ELSE <<>>]
  <2>2. /\ g = [i \in 1 .. n |-> IF i + (k + 1) > n THEN At(f, i) ELSE <<>>]
        /\ \A i \in 1 .. n : i + (k + 1) > n => g[i] = At(f, i)
    BY Zenon
  <2> HIDE DEF g
  <2>3. ASSUME NEW i \in 1 .. n, i + (k + 1) > n PROVE At(g, i) = At(f, i)
    <3>1. CASE Scanned(cells, i)
      <4>1. next(i) \in 1 .. n /\ next(i) + k > n /\ next(i) + (k + 1) > n
        BY <1>1, <2>3, <3>1
      <4>2. f[next(i)] = At(f, next(i)) /\ g[next(i)] = At(f, next(i))
        BY <2>1, <2>2, <4>1, Zenon
      <4>3. QED
        BY <4>2, Zenon
    <3>2. QED
      BY <3>1, Zenon
  <2>4. Upto(g, g, k + 1)
    BY <2>2, <2>3, ZenonT(30)
  <2>5. k + 1 \in Nat
    OBVIOUS
  <2>6. QED
    BY <2>4, <2>5, Zenon
<1>4. n \in T
  BY <1>1, <1>2, <1>3, NatSetInduction, Zenon
<1>5. PICK f : Upto(f, f, n)
  BY <1>4
<1>6. \A i \in 1 .. n : i + n > n
  BY <1>1
<1>7. f = [i \in 1 .. n |-> At(f, i)]
  BY <1>5, <1>6, Zenon
<1>8. QED
  BY <1>7, Zenon DEF n, next

(* Scan reads a file from its end backwards.                               *)
LEMMA ScanRecursion ==
  ASSUME NEW cells \in Seq(Cells)
  PROVE  \E from :
           /\ Scan(cells) = from[1]
           /\ \A i \in 1 .. Len(cells) + 1 :
                from[i] = IF Scanned(cells, i)
                          THEN <<EntryAt(cells, i)>> \o from[LastCell(cells, i) + 2]
                          ELSE <<>>
<1> DEFINE n == Len(cells) + 1
           from == CHOOSE f : f = [i \in 1 .. n |->
                     IF Scanned(cells, i)
                     THEN <<EntryAt(cells, i)>> \o f[LastCell(cells, i) + 2]
                     ELSE <<>>]
<1>1. Scan(cells) = from[1]
  BY Zenon DEF Scan
<1>2. from = [i \in 1 .. n |-> IF Scanned(cells, i)
                               THEN <<EntryAt(cells, i)>> \o from[LastCell(cells, i) + 2]
                               ELSE <<>>]
  BY ScanDefined, Zenon
<1> HIDE DEF from
<1>3. QED
  BY <1>1, <1>2, Zenon DEF n

LEMMA ScanType ==
  ASSUME NEW cells \in Seq(Cells)
  PROVE  Scan(cells) \in Seq(Entry)
<1> DEFINE n == Len(cells) + 1
<1>1. n \in Nat \ {0}
  BY LenProperties
<1>2. PICK from :
        /\ Scan(cells) = from[1]
        /\ \A i \in 1 .. n : from[i] = IF Scanned(cells, i)
                                       THEN <<EntryAt(cells, i)>> \o from[LastCell(cells, i) + 2]
                                       ELSE <<>>
  BY ScanRecursion
<1>3. \A i \in 1 .. n : Scanned(cells, i) =>
        LastCell(cells, i) + 2 \in i + 1 .. n /\ EntryAt(cells, i) \in Entry
  BY ScannedInside
<1> HIDE DEF n
<1> DEFINE T == {k \in Nat : \A i \in 1 .. n : i + k > n => from[i] \in Seq(Entry)}
<1>4. 0 \in T
  <2>1. \A i \in 1 .. n : ~(i + 0 > n)
    BY <1>1
  <2>2. QED
    BY <2>1
<1>5. ASSUME NEW k \in Nat, k \in T PROVE k + 1 \in T
  <2>1. SUFFICES ASSUME NEW i \in 1 .. n, i + (k + 1) > n PROVE from[i] \in Seq(Entry)
    OBVIOUS
  <2>2. CASE Scanned(cells, i)
    <3> DEFINE j == LastCell(cells, i) + 2
    <3>1. j \in i + 1 .. n /\ EntryAt(cells, i) \in Entry
      BY <1>3, <2>2
    <3> HIDE DEF j
    <3>2. j \in 1 .. n /\ j + k > n
      BY <1>1, <2>1, <3>1
    <3>3. from[j] \in Seq(Entry)
      BY <1>5, <3>2
    <3>4. from[i] = <<EntryAt(cells, i)>> \o from[j]
      BY <1>2, <2>1, <2>2, Zenon DEF j
    <3>5. <<EntryAt(cells, i)>> \in Seq(Entry)
      BY <3>1
    <3>6. QED
      BY <3>3, <3>4, <3>5, ConcatProperties
  <2>3. CASE ~Scanned(cells, i)
    <3>1. from[i] = <<>>
      BY <1>2, <2>1, <2>3, Zenon
    <3>2. QED
      BY <3>1, EmptySeq
  <2>4. QED
    BY <2>2, <2>3
<1>6. n \in T
  BY <1>1, <1>4, <1>5, NatSetInduction
<1>7. 1 \in 1 .. n /\ 1 + n > n
  BY <1>1
<1>8. QED
  BY <1>2, <1>6, <1>7

(* A line is read as it was written, unless its word has a blank.          *)
LEMMA LineRead ==
  ASSUME NEW cells \in Seq(Cells), NEW e \in Entry, NEW p \in Nat,
         p + Len(Line(e)) <= Len(cells),
         \A k \in 1 .. Len(Line(e)) : cells[p + k] = Line(e)[k]
  PROVE  /\ Scanned(cells, p + 1) <=> e.command \notin Spaced
         /\ EntryAt(cells, p + 1) = e
         /\ LastCell(cells, p + 1) + 2 = p + Len(Line(e)) + 1
<1> DEFINE l == Line(e)
<1>1. /\ l[1] = Cell("word", e.command, 0)
      /\ l[Len(l)] = Cell("number", Junk, e.count)
      /\ Len(l) = IF e.command \in Long THEN 3 ELSE 2
      /\ e.command \in Long => l[2] = Cell("rest", e.command, 0)
  BY LineShape
<1>2. e.command \in Words \cup {Junk} /\ e.count \in Nat /\ e = [command |-> e.command, count |-> e.count]
  BY DEF Entry
<1>3. DOMAIN cells = 1 .. Len(cells) /\ Len(cells) \in Nat
  BY LenProperties
<1>4. p + Len(l) <= Len(cells) /\ \A k \in 1 .. Len(l) : cells[p + k] = l[k]
  OBVIOUS
<1> HIDE DEF l
<1>5. /\ cells[p + 1].kind = "word" /\ cells[p + 1].word = e.command
      /\ cells[p + Len(l)].kind = "number" /\ cells[p + Len(l)].number = e.count
      /\ e.command \in Long => cells[p + 2].kind = "rest"
  <2>1. 1 \in 1 .. Len(l) /\ Len(l) \in 1 .. Len(l) /\ 2 \in 1 .. Len(l)
    BY <1>1
  <2>2. /\ cells[p + 1] = l[1] /\ cells[p + Len(l)] = l[Len(l)] /\ cells[p + 2] = l[2]
    BY <1>4, <2>1
  <2>3. QED
    BY <1>1, <1>2, <2>2 DEF Cell
<1>6. LastCell(cells, p + 1) = p + Len(l) - 1
  <2>1. p + 2 \in DOMAIN cells /\ (p + 1) + 1 = p + 2
    BY <1>1, <1>3, <1>4
  <2>2. CASE e.command \in Long
    BY <1>1, <1>5, <2>1, <2>2 DEF LastCell, Is
  <2>3. CASE e.command \notin Long
    <3>1. cells[p + 2].kind = "number"
      BY <1>1, <1>5, <2>3
    <3>2. QED
      BY <1>1, <2>1, <2>3, <3>1 DEF LastCell, Is
  <2>4. QED
    BY <2>2, <2>3
<1>7. /\ p + 1 \in DOMAIN cells /\ p + Len(l) \in DOMAIN cells
      /\ LastCell(cells, p + 1) + 1 = p + Len(l)
      /\ LastCell(cells, p + 1) + 2 = p + Len(l) + 1
  BY <1>1, <1>3, <1>4, <1>6
<1>8. Scanned(cells, p + 1) <=> e.command \notin Spaced
  BY <1>5, <1>7 DEF Scanned, Is
<1>9. EntryAt(cells, p + 1) = e
  BY <1>2, <1>5, <1>7 DEF EntryAt, Is
<1>10. QED
  BY <1>7, <1>8, <1>9 DEF l

(* m lines come before the first word with a blank.                        *)
BeforeBlank(t, m) ==
  /\ m \in 0 .. Len(t)
  /\ \A i \in 1 .. m : t[i].command \notin Spaced
  /\ m < Len(t) => t[m + 1].command \in Spaced

LEMMA SomeBeforeBlank ==
  ASSUME NEW t \in Seq(Entry)
  PROVE  \E m \in 0 .. Len(t) : BeforeBlank(t, m)
<1> DEFINE n == Len(t)
           T == {i \in Nat : i \in 1 .. n /\ t[i].command \in Spaced}
<1>1. n \in Nat
  BY LenProperties
<1> HIDE DEF n
<1>2. CASE T = {}
  <2>1. n \in 0 .. n /\ ~(n < n) /\ \A i \in 1 .. n : t[i].command \notin Spaced
    BY <1>1, <1>2
  <2>2. QED
    BY <2>1 DEF BeforeBlank, n
<1>3. CASE T # {}
  <2>1. PICK x \in T : \A y \in T : x <= y
    BY <1>3, Least
  <2>2. /\ x - 1 \in 0 .. n /\ (x - 1) + 1 = x /\ x \in 1 .. n /\ t[x].command \in Spaced
        /\ \A i \in 1 .. x - 1 : i \in 1 .. n /\ ~(x <= i)
    BY <1>1, <2>1
  <2>3. \A i \in 1 .. x - 1 : t[i].command \notin Spaced
    BY <2>1, <2>2
  <2>4. BeforeBlank(t, x - 1)
    BY <2>2, <2>3 DEF BeforeBlank, n
  <2>5. QED
    BY <2>2, <2>4 DEF n
<1>4. QED
  BY <1>2, <1>3

(* save_freq and load_freq (new.c 147-181): what a table wrote is read     *)
(* back up to the first word with a blank, line by line, whatever the      *)
(* table holds.                                                            *)
THEOREM ReadBack ==
  ASSUME NEW t \in Seq(Entry), NEW m, BeforeBlank(t, m)
  PROVE  Scan(Written(t)) = SubSeq(t, 1, m)
<1> DEFINE n == Len(t)
<1>1. n \in Nat /\ m \in 0 .. n /\ \A i \in 1 .. n : t[i] \in Entry
  BY LenProperties, ElementOfSeq DEF BeforeBlank
<1>2. PICK upto \in [0 .. n -> Seq(Cells)] :
        /\ upto[0] = <<>>
        /\ \A i \in 1 .. n : upto[i] = upto[i - 1] \o Line(t[i])
        /\ Written(t) = upto[n]
  BY WrittenByLines
<1> DEFINE cells == upto[n]
           pos(i) == Len(upto[i]) + 1
<1>3. cells \in Seq(Cells) /\ Len(cells) \in Nat
  BY <1>1, <1>2, LenProperties
<1>4. PICK from :
        /\ Scan(cells) = from[1]
        /\ \A i \in 1 .. Len(cells) + 1 :
             from[i] = IF Scanned(cells, i)
                       THEN <<EntryAt(cells, i)>> \o from[LastCell(cells, i) + 2]
                       ELSE <<>>
  BY <1>3, ScanRecursion
<1> HIDE DEF cells
<1>5. ASSUME NEW i \in 1 .. n
      PROVE  /\ pos(i - 1) \in 1 .. Len(cells) + 1
             /\ Scanned(cells, pos(i - 1)) <=> t[i].command \notin Spaced
             /\ EntryAt(cells, pos(i - 1)) = t[i]
             /\ LastCell(cells, pos(i - 1)) + 2 = pos(i)
  <2>1. /\ Len(upto[i - 1]) + Len(Line(t[i])) = Len(upto[i])
        /\ Len(upto[i - 1]) \in Nat
        /\ Len(upto[i]) <= Len(cells)
        /\ \A k \in 1 .. Len(Line(t[i])) : cells[Len(upto[i - 1]) + k] = Line(t[i])[k]
    BY <1>2, LineInPlace DEF cells
  <2>2. t[i] \in Entry /\ Line(t[i]) \in Seq(Cells) /\ Len(Line(t[i])) \in Nat
    BY <1>1, LineShape, LenProperties
  <2> DEFINE p == Len(upto[i - 1])
  <2>3. /\ p \in Nat /\ p + Len(Line(t[i])) <= Len(cells)
        /\ \A k \in 1 .. Len(Line(t[i])) : cells[p + k] = Line(t[i])[k]
        /\ pos(i - 1) = p + 1 /\ pos(i) = p + Len(Line(t[i])) + 1
    BY <2>1
  <2> HIDE DEF p
  <2>4. /\ Scanned(cells, p + 1) <=> t[i].command \notin Spaced
        /\ EntryAt(cells, p + 1) = t[i]
        /\ LastCell(cells, p + 1) + 2 = p + Len(Line(t[i])) + 1
    BY <1>3, <2>2, <2>3, LineRead
  <2>5. p + 1 \in 1 .. Len(cells) + 1
    BY <1>3, <2>2, <2>3
  <2>6. QED
    BY <2>3, <2>4, <2>5, Zenon
<1>6. ~Scanned(cells, Len(cells) + 1)
  <2>1. \A i \in 1 .. Len(cells) + 1 : Scanned(cells, i) => i \in 1 .. Len(cells)
    BY <1>3, ScannedInside
  <2>2. QED
    BY <1>3, <2>1
<1>7. from[pos(m)] = <<>>
  <2>1. pos(m) \in 1 .. Len(cells) + 1 /\ ~Scanned(cells, pos(m))
    <3>1. CASE m = n
      BY <1>3, <1>6, <3>1 DEF cells
    <3>2. CASE m # n
      <4>1. m + 1 \in 1 .. n /\ (m + 1) - 1 = m /\ m < n
        BY <1>1, <3>2
      <4>2. t[m + 1].command \in Spaced
        BY <4>1 DEF BeforeBlank
      <4>3. QED
        BY <1>5, <4>1, <4>2
    <3>3. QED
      BY <3>1, <3>2
  <2>2. QED
    BY <1>4, <2>1, Zenon
<1>8. ASSUME NEW i \in 1 .. m
      PROVE  from[pos(i - 1)] = <<t[i]>> \o from[pos(i)]
  <2>1. i \in 1 .. n /\ t[i].command \notin Spaced
    BY <1>1 DEF BeforeBlank
  <2>2. /\ pos(i - 1) \in 1 .. Len(cells) + 1
        /\ Scanned(cells, pos(i - 1))
        /\ EntryAt(cells, pos(i - 1)) = t[i]
        /\ LastCell(cells, pos(i - 1)) + 2 = pos(i)
    BY <1>5, <2>1, Zenon
  <2>3. QED
    BY <1>4, <2>2, Zenon
<1>9. pos(0) = 1
  BY <1>2
<1> HIDE DEF n, pos
<1> DEFINE T == {k \in Nat : \A i \in 0 .. m : i + k = m => from[pos(i)] = SubSeq(t, i + 1, m)}
<1>10. 0 \in T
  <2>1. SUFFICES ASSUME NEW i \in 0 .. m, i + 0 = m PROVE from[pos(i)] = SubSeq(t, i + 1, m)
    OBVIOUS
  <2>2. i = m /\ m \in Int /\ m + 1 \in Int /\ m < m + 1
    BY <1>1, <2>1
  <2>3. SubSeq(t, m + 1, m) = <<>>
    BY <2>2, SubSeqEmpty
  <2>4. QED
    BY <1>7, <2>2, <2>3
<1>11. ASSUME NEW k \in Nat, k \in T PROVE k + 1 \in T
  <2>1. SUFFICES ASSUME NEW i \in 0 .. m, i + (k + 1) = m PROVE from[pos(i)] = SubSeq(t, i + 1, m)
    OBVIOUS
  <2> DEFINE j == i + 1
  <2>2. j \in 1 .. m /\ j \in 0 .. m /\ j + k = m /\ j - 1 = i /\ j \in 1 .. n /\ m \in j .. n
    BY <1>1, <2>1
  <2> HIDE DEF j
  <2>3. from[pos(j)] = SubSeq(t, j + 1, m)
    BY <1>11, <2>2
  <2>4. from[pos(i)] = <<t[j]>> \o from[pos(j)]
    BY <1>8, <2>2
  <2>5. SubSeq(t, j, m) = <<t[j]>> \o SubSeq(t, j + 1, m)
    BY <2>2, SubSeqRecursiveFirst DEF n
  <2>6. QED
    BY <2>3, <2>4, <2>5 DEF j
<1>12. m \in T
  <2>1. m \in Nat
    BY <1>1
  <2>2. QED
    BY <1>10, <1>11, <2>1, NatSetInduction, Zenon
<1>13. 0 \in 0 .. m /\ 0 + m = m /\ 0 + 1 = 1
  BY <1>1
<1>14. from[1] = SubSeq(t, 1, m)
  BY <1>9, <1>12, <1>13
<1>15. QED
  BY <1>2, <1>4, <1>14 DEF cells
-----------------------------------------------------------------------------
(* Tables.                                                                 *)

Tables == {t \in Seq(Entry) : Len(t) <= Capacity}

Once(t) == \A i, j \in DOMAIN t : t[i].command = t[j].command => i = j

(* The table has every use that u tells of, but for words that came when   *)
(* it was full, and no word that load_freq would stop at.                  *)
Knows(t, u) ==
  /\ \A i \in DOMAIN t : t[i].command \notin Spaced
  /\ \A w \in Words : IF Find(t, w) # 0 THEN t[Find(t, w)].count = u[w]
                                        ELSE u[w] = 0 \/ Len(t) = Capacity

(* What load_freq makes of a file.                                         *)
Loaded(f) == IF f = NoFile THEN ByDefault ELSE FirstOnes(Scan(f))

(* What every table and file of a state satisfies; who saves has a file.   *)
TypeInv ==
  /\ file = NoFile \/ file \in Seq(Cells)
  /\ \A p \in Procs : proc[p] = "saving" => file \in Seq(Cells)
  /\ proc \in [Procs -> {"off", "up", "leaving", "saving"}]
  /\ freq_table \in [Procs -> Tables]
  /\ waits \in [Shells -> SUBSET Children]
  /\ \A s \in Shells : \A c \in waits[s] : proc[c] # "off"
  /\ \A s, t \in Shells : s # t => waits[s] \cap waits[t] = {}
  /\ uses \in [Words -> Nat]
  /\ mishap \in BOOLEAN /\ overlapped \in BOOLEAN

(* Two writers at once are the only way to a table with twins: whoever     *)
(* saves alone has the file empty.                                         *)
OnceInv ==
  ~overlapped =>
    /\ \A p \in Procs : Once(freq_table[p])
    /\ Once(load_freq)
    /\ \A p \in Procs : proc[p] = "saving" => file = <<>>
    /\ \A p, q \in Procs : proc[p] = "saving" /\ proc[q] = "saving" => p = q

(* Whatever children do to the file, the shell that outlives them writes   *)
(* it last, alone and from the beginning.                                  *)
OneShell == \A s, u \in Shells : proc[s] # "off" /\ proc[u] # "off" => s = u
Outlives ==
  \A c \in Children : proc[c] # "off" => \E s \in Shells : proc[s] \in {"up", "leaving"}
SavesAlone == \A s \in Shells : proc[s] = "saving" => file = <<>>
ShellKnows == \A s \in Shells : proc[s] # "off" => Knows(freq_table[s], uses)
FileKnows == (\A p \in Procs : proc[p] = "off") => Knows(load_freq, uses)

CountInv ==
  ~mishap => OneShell /\ Outlives /\ SavesAlone /\ ShellKnows /\ FileKnows
-----------------------------------------------------------------------------
(* Finding, counting, loading.                                             *)

LEMMA FindFirst ==
  ASSUME NEW t \in Seq(Entry), NEW w
  PROVE  \/ /\ Find(t, w) = 0
            /\ \A i \in 1 .. Len(t) : t[i].command # w
         \/ /\ Find(t, w) \in 1 .. Len(t)
            /\ t[Find(t, w)].command = w
            /\ \A i \in 1 .. Len(t) : t[i].command = w => Find(t, w) <= i
<1> DEFINE I == {i \in 1 .. Len(t) : t[i].command = w}
<1>1. Find(t, w) = IF I # {} THEN Min(I) ELSE 0
  BY DEF Find, SelectInSeq
<1>2. CASE I = {}
  BY <1>1, <1>2
<1>3. CASE I # {}
  <2>1. I \in SUBSET Nat
    OBVIOUS
  <2>2. \E x \in I : \A y \in I : x <= y
    BY <1>3, <2>1, Least
  <2>3. Min(I) \in I /\ \A y \in I : Min(I) <= y
    BY <2>2 DEF Min
  <2>4. QED
    BY <1>1, <1>3, <2>3
<1>4. QED
  BY <1>2, <1>3

(* The first entry is the one found, and there is no other way to be it.   *)
LEMMA FindUnique ==
  ASSUME NEW t \in Seq(Entry), NEW w, NEW i \in 1 .. Len(t), t[i].command = w,
         \A j \in 1 .. i - 1 : t[j].command # w
  PROVE  Find(t, w) = i
<1>1. Len(t) \in Nat
  BY LenProperties
<1>2. /\ Find(t, w) \in 1 .. Len(t) /\ t[Find(t, w)].command = w /\ Find(t, w) <= i
  BY FindFirst
<1>3. CASE Find(t, w) < i
  <2>1. Find(t, w) \in 1 .. i - 1
    BY <1>1, <1>2, <1>3
  <2>2. QED
    BY <1>2, <2>1
<1>4. QED
  BY <1>1, <1>2, <1>3

(* What an update does to a table.                                         *)
LEMMA UpdateCases ==
  ASSUME NEW t \in Tables, NEW w \in Words
  PROVE  \/ /\ Find(t, w) \in 1 .. Len(t)
            /\ update_freq(t, w) \in Seq(Entry)
            /\ Len(update_freq(t, w)) = Len(t)
            /\ \A i \in 1 .. Len(t) :
                 /\ update_freq(t, w)[i].command = t[i].command
                 /\ update_freq(t, w)[i].count =
                      t[i].count + (IF i = Find(t, w) THEN 1 ELSE 0)
         \/ /\ Find(t, w) = 0 /\ Len(t) < Capacity
            /\ update_freq(t, w) \in Seq(Entry)
            /\ Len(update_freq(t, w)) = Len(t) + 1
            /\ \A i \in 1 .. Len(t) : update_freq(t, w)[i] = t[i]
            /\ update_freq(t, w)[Len(t) + 1] = [command |-> w, count |-> 1]
         \/ /\ Find(t, w) = 0 /\ Len(t) = Capacity
            /\ update_freq(t, w) = t
<1> DEFINE f == Find(t, w)
           u == update_freq(t, w)
<1>1. t \in Seq(Entry) /\ Len(t) <= Capacity /\ Len(t) \in Nat /\ Capacity \in Nat
  BY LenProperties, Parameters DEF Tables
<1>2. f = 0 \/ (f \in 1 .. Len(t))
  BY <1>1, FindFirst, Zenon
<1>3. u = IF f # 0 THEN [t EXCEPT ![f].count = @ + 1]
          ELSE IF Len(t) < Capacity THEN Append(t, [command |-> w, count |-> 1])
          ELSE t
  BY DEF update_freq
<1> HIDE DEF f, u
<1>4. CASE f \in 1 .. Len(t)
  <2> DEFINE e == [t[f] EXCEPT !.count = @ + 1]
  <2>1. t[f] \in Entry
    BY <1>1, <1>4, ElementOfSeq
  <2>2. e \in Entry /\ e.command = t[f].command /\ e.count = t[f].count + 1
    BY <2>1 DEF Entry
  <2>3. f # 0
    BY <1>4
  <2>4. u = [t EXCEPT ![f] = e]
    BY <1>3, <2>3
  <2> HIDE DEF e
  <2>5. /\ u \in Seq(Entry) /\ Len(u) = Len(t)
        /\ \A j \in 1 .. Len(t) : u[j] = IF j = f THEN e ELSE t[j]
    BY <1>1, <1>4, <2>2, <2>4, ExceptSeq
  <2>6. ASSUME NEW i \in 1 .. Len(t) PROVE t[i].count \in Nat
    <3>1. t[i] \in Entry
      BY <1>1, ElementOfSeq
    <3>2. QED
      BY <3>1 DEF Entry
  <2>7. \A i \in 1 .. Len(t) :
          /\ u[i].command = t[i].command
          /\ u[i].count = t[i].count + (IF i = f THEN 1 ELSE 0)
    BY <2>2, <2>5, <2>6
  <2>8. QED
    BY <1>4, <2>5, <2>7, Zenon DEF f, u
<1>5. CASE f = 0 /\ Len(t) < Capacity
  <2> DEFINE e == [command |-> w, count |-> 1]
  <2>1. u = Append(t, e)
    BY <1>3, <1>5
  <2>2. e \in Entry
    BY DEF Entry
  <2> HIDE DEF e
  <2>3. /\ u \in Seq(Entry) /\ Len(u) = Len(t) + 1 /\ u[Len(t) + 1] = e
        /\ \A i \in 1 .. Len(t) : u[i] = t[i]
    BY <1>1, <2>1, <2>2
  <2>4. QED
    BY <1>5, <2>3, Zenon DEF f, u, e
<1>6. CASE f = 0 /\ ~(Len(t) < Capacity)
  <2>1. u = t /\ Len(t) = Capacity
    BY <1>1, <1>3, <1>6
  <2>2. QED
    BY <1>6, <2>1, Zenon DEF f, u
<1>7. QED
  BY <1>2, <1>4, <1>5, <1>6

LEMMA UpdateType ==
  ASSUME NEW t \in Tables, NEW w \in Words
  PROVE  update_freq(t, w) \in Tables
<1>1. t \in Seq(Entry) /\ Len(t) <= Capacity /\ Len(t) \in Nat /\ Capacity \in Nat
  BY LenProperties, Parameters DEF Tables
<1>2. /\ update_freq(t, w) \in Seq(Entry)
      /\ \/ Len(update_freq(t, w)) = Len(t)
         \/ Len(update_freq(t, w)) = Len(t) + 1 /\ Len(t) < Capacity
  BY <1>1, UpdateCases, Zenon
<1>3. QED
  BY <1>1, <1>2 DEF Tables

LEMMA UpdateOnce ==
  ASSUME NEW t \in Tables, NEW w \in Words, Once(t)
  PROVE  Once(update_freq(t, w))
<1> DEFINE u == update_freq(t, w)
<1>1. t \in Seq(Entry) /\ Len(t) \in Nat /\ DOMAIN t = 1 .. Len(t)
  BY LenProperties DEF Tables
<1>2. u \in Seq(Entry) /\ DOMAIN u = 1 .. Len(u)
  BY UpdateType, LenProperties DEF Tables
<1>3. CASE Len(u) = Len(t) /\ \A i \in 1 .. Len(t) : u[i].command = t[i].command
  BY <1>1, <1>2, <1>3 DEF Once
<1>4. CASE /\ Find(t, w) = 0 /\ Len(u) = Len(t) + 1
           /\ \A i \in 1 .. Len(t) : u[i] = t[i]
           /\ u[Len(t) + 1] = [command |-> w, count |-> 1]
  <2>1. \A i \in 1 .. Len(t) : t[i].command # w
    BY <1>1, <1>4, FindFirst
  <2>2. SUFFICES ASSUME NEW i \in 1 .. Len(t) + 1, NEW j \in 1 .. Len(t) + 1,
                        u[i].command = u[j].command
                 PROVE  i = j
    BY <1>2, <1>4 DEF Once
  <2>3. u[Len(t) + 1].command = w
    BY <1>4
  <2>4. \A k \in 1 .. Len(t) + 1 : k \in 1 .. Len(t) \/ k = Len(t) + 1
    BY <1>1
  <2>5. QED
    BY <1>1, <1>4, <2>1, <2>2, <2>3, <2>4 DEF Once
<1>5. CASE u = t
  BY <1>5
<1>6. QED
  BY <1>3, <1>4, <1>5, UpdateCases, Zenon

(* Counting keeps what is known; words with a blank aside.                 *)
LEMMA UpdateKnows ==
  ASSUME NEW t \in Tables, NEW w \in Words \ Spaced, NEW n \in [Words -> Nat], Knows(t, n)
  PROVE  Knows(update_freq(t, w), [n EXCEPT ![w] = @ + 1])
<1> DEFINE u == update_freq(t, w)
           m == [n EXCEPT ![w] = @ + 1]
<1>1. t \in Seq(Entry) /\ Len(t) \in Nat /\ DOMAIN t = 1 .. Len(t) /\ w \in Words
  BY LenProperties DEF Tables
<1>2. u \in Seq(Entry) /\ Len(u) \in Nat /\ DOMAIN u = 1 .. Len(u)
  BY <1>1, UpdateType, LenProperties DEF Tables
<1>3. \A v \in Words : m[v] = IF v = w THEN n[w] + 1 ELSE n[v]
  OBVIOUS
<1>4. \A v \in Words : n[v] \in Nat
  OBVIOUS
<1>5. \A i \in 1 .. Len(t) : t[i].command \notin Spaced
  BY <1>1 DEF Knows
<1>6. \A v \in Words : \/ Find(t, v) # 0 /\ t[Find(t, v)].count = n[v]
                       \/ Find(t, v) = 0 /\ (n[v] = 0 \/ Len(t) = Capacity)
  BY DEF Knows
<1> HIDE DEF u, m
<1>7. SUFFICES /\ \A i \in 1 .. Len(u) : u[i].command \notin Spaced
               /\ \A v \in Words : \/ Find(u, v) # 0 /\ u[Find(u, v)].count = m[v]
                                   \/ Find(u, v) = 0 /\ (m[v] = 0 \/ Len(u) = Capacity)
  BY <1>2 DEF Knows, u, m
<1>8. CASE /\ Find(t, w) \in 1 .. Len(t) /\ Len(u) = Len(t)
           /\ \A i \in 1 .. Len(t) :
                /\ u[i].command = t[i].command
                /\ u[i].count = t[i].count + (IF i = Find(t, w) THEN 1 ELSE 0)
  <2>1. \A i \in 1 .. Len(u) : u[i].command \notin Spaced
    BY <1>5, <1>8
  <2>2. ASSUME NEW v \in Words PROVE Find(u, v) = Find(t, v)
    <3>1. CASE Find(t, v) = 0
      <4>1. \A i \in 1 .. Len(u) : u[i].command # v
        BY <1>1, <1>8, <3>1, FindFirst
      <4>2. QED
        BY <1>2, <3>1, <4>1, FindFirst
    <3>2. CASE Find(t, v) # 0
      <4> DEFINE f == Find(t, v)
      <4>1. f \in 1 .. Len(t) /\ t[f].command = v /\ \A i \in 1 .. Len(t) : t[i].command = v => f <= i
        BY <1>1, <3>2, FindFirst
      <4> HIDE DEF f
      <4>2. f \in 1 .. Len(u) /\ u[f].command = v
        BY <1>8, <4>1
      <4>3. \A j \in 1 .. f - 1 : j \in 1 .. Len(t) /\ ~(f <= j)
        BY <1>1, <4>1
      <4>4. \A j \in 1 .. f - 1 : u[j].command # v
        BY <1>8, <4>1, <4>3
      <4>5. QED
        BY <1>2, <4>2, <4>4, FindUnique DEF f
    <3>3. QED
      BY <3>1, <3>2
  <2>3. ASSUME NEW v \in Words, Find(t, v) # 0 PROVE u[Find(t, v)].count = m[v]
    <3>1. /\ Find(t, v) \in 1 .. Len(t) /\ t[Find(t, v)].command = v
          /\ t[Find(t, v)].count = n[v] /\ t[Find(t, w)].command = w
      BY <1>1, <1>6, <1>8, <2>3, FindFirst
    <3>2. u[Find(t, v)].count = n[v] + (IF Find(t, v) = Find(t, w) THEN 1 ELSE 0)
      BY <1>8, <3>1
    <3>3. Find(t, v) = Find(t, w) <=> v = w
      BY <3>1
    <3>4. QED
      BY <1>3, <1>4, <3>2, <3>3
  <2>4. \A v \in Words : Find(t, v) = 0 => v # w
    BY <1>8
  <2>5. QED
    BY <1>3, <1>6, <1>8, <2>1, <2>2, <2>3, <2>4
<1>9. CASE /\ Find(t, w) = 0 /\ Len(t) < Capacity /\ Len(u) = Len(t) + 1
           /\ \A i \in 1 .. Len(t) : u[i] = t[i]
           /\ u[Len(t) + 1] = [command |-> w, count |-> 1]
  <2>1. u[Len(t) + 1].command = w /\ u[Len(t) + 1].count = 1
    BY <1>9
  <2>2. \A i \in 1 .. Len(u) : i \in 1 .. Len(t) \/ i = Len(t) + 1
    BY <1>1, <1>9
  <2>3. \A i \in 1 .. Len(u) : u[i].command \notin Spaced
    BY <1>5, <1>9, <2>1, <2>2
  <2>4. \A i \in 1 .. Len(t) : t[i].command # w
    BY <1>1, <1>9, FindFirst
  <2>5. Find(u, w) = Len(t) + 1
    <3>1. Len(t) + 1 \in 1 .. Len(u) /\ \A j \in 1 .. (Len(t) + 1) - 1 : j \in 1 .. Len(t)
      BY <1>1, <1>9
    <3>2. \A j \in 1 .. (Len(t) + 1) - 1 : u[j].command # w
      BY <1>9, <2>4, <3>1
    <3>3. QED
      BY <1>2, <2>1, <3>1, <3>2, FindUnique
  <2>6. ASSUME NEW v \in Words, v # w PROVE Find(u, v) = Find(t, v)
    <3>1. CASE Find(t, v) = 0
      <4>1. \A i \in 1 .. Len(t) : t[i].command # v
        BY <1>1, <3>1, FindFirst
      <4>2. \A i \in 1 .. Len(u) : u[i].command # v
        BY <1>9, <2>1, <2>2, <2>6, <4>1
      <4>3. QED
        BY <1>2, <3>1, <4>2, FindFirst
    <3>2. CASE Find(t, v) # 0
      <4> DEFINE f == Find(t, v)
      <4>1. f \in 1 .. Len(t) /\ t[f].command = v /\ \A i \in 1 .. Len(t) : t[i].command = v => f <= i
        BY <1>1, <3>2, FindFirst
      <4> HIDE DEF f
      <4>2. f \in 1 .. Len(u) /\ u[f].command = v
        BY <1>1, <1>9, <4>1
      <4>3. \A j \in 1 .. f - 1 : j \in 1 .. Len(t) /\ ~(f <= j)
        BY <1>1, <4>1
      <4>4. \A j \in 1 .. f - 1 : u[j].command # v
        BY <1>9, <4>1, <4>3
      <4>5. QED
        BY <1>2, <4>2, <4>4, FindUnique DEF f
    <3>3. QED
      BY <3>1, <3>2
  <2>7. ASSUME NEW v \in Words
        PROVE  \/ Find(u, v) # 0 /\ u[Find(u, v)].count = m[v]
               \/ Find(u, v) = 0 /\ (m[v] = 0 \/ Len(u) = Capacity)
    <3>1. CASE v = w
      <4>1. n[w] = 0 /\ m[w] = 1 /\ Len(t) + 1 # 0
        BY <1>1, <1>3, <1>6, <1>9
      <4>2. QED
        BY <2>1, <2>5, <3>1, <4>1
    <3>2. CASE v # w
      <4>1. Find(u, v) = Find(t, v) /\ m[v] = n[v] /\ Len(t) # Capacity
        BY <1>1, <1>3, <1>9, <2>6, <3>2
      <4>2. Find(t, v) # 0 => Find(t, v) \in 1 .. Len(t)
        BY <1>1, FindFirst
      <4>3. QED
        BY <1>6, <1>9, <4>1, <4>2
    <3>3. QED
      BY <3>1, <3>2
  <2>8. QED
    BY <2>3, <2>7
<1>10. CASE Find(t, w) = 0 /\ Len(t) = Capacity /\ u = t
  <2>1. ASSUME NEW v \in Words
        PROVE  \/ Find(u, v) # 0 /\ u[Find(u, v)].count = m[v]
               \/ Find(u, v) = 0 /\ (m[v] = 0 \/ Len(u) = Capacity)
    BY <1>3, <1>6, <1>10
  <2>2. QED
    BY <1>5, <1>10, <2>1
<1>11. QED
  BY <1>1, <1>8, <1>9, <1>10, UpdateCases, Zenon DEF u

FirstUses == [w \in Words |-> IF w \in Range(Defaults) THEN 1 ELSE 0]

LEMMA DefaultTable ==
  /\ ByDefault \in Tables /\ Once(ByDefault) /\ Knows(ByDefault, FirstUses)
<1> DEFINE d == ByDefault
<1>1. Defaults \in Seq(Words \ Spaced) /\ Len(Defaults) \in Nat /\ DOMAIN Defaults = 1 .. Len(Defaults)
  BY Parameters, LenProperties
<1>2. \A i \in 1 .. Len(Defaults) : Defaults[i] \in Words \ Spaced
  BY <1>1, ElementOfSeq
<1>3. /\ d = [i \in 1 .. Len(Defaults) |-> [command |-> Defaults[i], count |-> 1]]
  BY <1>1 DEF ByDefault
<1> HIDE DEF d
<1>4. \A i \in 1 .. Len(Defaults) :
        d[i] \in Entry /\ d[i].command = Defaults[i] /\ d[i].count = 1
  BY <1>2, <1>3 DEF Entry
<1>5. d \in Seq(Entry) /\ Len(d) = Len(Defaults) /\ DOMAIN d = 1 .. Len(Defaults)
  BY <1>1, <1>3, <1>4
<1>6. d \in Tables
  BY <1>5, Parameters DEF Tables
<1>7. Once(d)
  BY <1>1, <1>4, <1>5, Parameters DEF Once, IsInjective
<1>8. \A i \in DOMAIN d : d[i].command \notin Spaced
  BY <1>2, <1>4, <1>5
<1>9. ASSUME NEW w \in Words
      PROVE  IF Find(d, w) # 0 THEN d[Find(d, w)].count = FirstUses[w]
                               ELSE FirstUses[w] = 0 \/ Len(d) = Capacity
  <2>1. CASE Find(d, w) = 0
    <3>1. \A i \in 1 .. Len(Defaults) : Defaults[i] # w
      BY <1>4, <1>5, <2>1, FindFirst
    <3>2. w \notin Range(Defaults)
      BY <1>1, <3>1 DEF Range
    <3>3. QED
      BY <2>1, <3>2 DEF FirstUses
  <2>2. CASE Find(d, w) # 0
    <3>1. Find(d, w) \in 1 .. Len(Defaults) /\ d[Find(d, w)].command = w
      BY <1>5, <2>2, FindFirst
    <3>2. w \in Range(Defaults)
      BY <1>1, <1>4, <3>1 DEF Range
    <3>3. QED
      BY <1>4, <2>2, <3>1, <3>2 DEF FirstUses
  <2>3. QED
    BY <2>1, <2>2
<1>10. QED
  BY <1>6, <1>7, <1>8, <1>9 DEF Knows, d

LEMMA FirstOnesOfTable ==
  ASSUME NEW t \in Seq(Entry)
  PROVE  /\ FirstOnes(t) \in Tables
         /\ Len(t) <= Capacity => FirstOnes(t) = t
         /\ Once(t) => Once(FirstOnes(t))
<1>1. Len(t) \in Nat /\ Capacity \in Nat /\ DOMAIN t = 1 .. Len(t)
  BY Parameters, LenProperties
<1>2. CASE Len(t) <= Capacity
  BY <1>2 DEF FirstOnes, Tables
<1>3. CASE ~(Len(t) <= Capacity)
  <2> DEFINE u == SubSeq(t, 1, Capacity)
  <2>1. \A i \in 1 .. Capacity : t[i] \in Entry /\ i \in 1 .. Len(t)
    BY <1>1, <1>3, ElementOfSeq
  <2>2. 1 \in Int /\ Capacity \in Int /\ \A i \in 1 .. Capacity - 1 + 1 : 1 + i - 1 = i
    BY <1>1
  <2>3. /\ u \in Seq(Entry)
        /\ Len(u) = IF 1 <= Capacity THEN Capacity - 1 + 1 ELSE 0
        /\ \A i \in 1 .. Capacity - 1 + 1 : u[i] = t[1 + i - 1]
    BY <2>1, <2>2, SubSeqProperties
  <2>4. Len(u) = Capacity /\ \A i \in 1 .. Capacity : u[i] = t[i]
    BY <1>1, <2>2, <2>3
  <2>5. FirstOnes(t) = u
    BY <1>3 DEF FirstOnes
  <2> HIDE DEF u
  <2>6. DOMAIN u = 1 .. Capacity
    BY <2>3, <2>4, LenProperties
  <2>7. Once(t) => Once(u)
    BY <1>1, <2>1, <2>4, <2>6 DEF Once
  <2>8. u \in Tables
    BY <1>1, <2>3, <2>4 DEF Tables
  <2>9. QED
    BY <1>3, <2>5, <2>7, <2>8
<1>4. QED
  BY <1>2, <1>3

LEMMA LoadType ==
  ASSUME file = NoFile \/ file \in Seq(Cells)
  PROVE  load_freq \in Tables
<1>1. CASE file = NoFile
  BY <1>1, DefaultTable DEF load_freq
<1>2. CASE file # NoFile
  <2>1. Scan(file) \in Seq(Entry)
    BY <1>2, ScanType
  <2>2. QED
    BY <1>2, <2>1, FirstOnesOfTable DEF load_freq
<1>3. QED
  BY <1>1, <1>2

LEMMA WrittenType ==
  ASSUME NEW t \in Seq(Entry)
  PROVE  Written(t) \in Seq(Cells)
<1>1. Len(t) \in 0 .. Len(t)
  BY LenProperties
<1>2. QED
  BY <1>1, WrittenByLines

LEMMA OverType ==
  ASSUME NEW new \in Seq(Cells), NEW old \in Seq(Cells)
  PROVE  /\ Over(new, old) \in Seq(Cells)
         /\ old = <<>> => Over(new, old) = new
<1>1. Len(new) \in Nat /\ Len(old) \in Nat
  BY LenProperties
<1>2. \A i \in Len(new) + 1 .. Len(old) : old[i] \in Cells
  BY <1>1, ElementOfSeq
<1>3. SubSeq(old, Len(new) + 1, Len(old)) \in Seq(Cells)
  BY <1>1, <1>2, SubSeqProperties
<1>4. Over(new, old) \in Seq(Cells)
  BY <1>3, ConcatProperties DEF Over
<1>5. ASSUME old = <<>> PROVE Over(new, old) = new
  <2>1. Len(old) < Len(new) + 1 /\ Len(new) + 1 \in Int /\ Len(old) \in Int
    BY <1>1, <1>5
  <2>2. SubSeq(old, Len(new) + 1, Len(old)) = <<>>
    BY <2>1, SubSeqEmpty
  <2>3. QED
    BY <2>2, ConcatEmptySeq DEF Over
<1>6. QED
  BY <1>4, <1>5

(* A table without blanks comes back as it was saved.                      *)
THEOREM SavedIsLoaded ==
  ASSUME NEW t \in Tables, \A i \in DOMAIN t : t[i].command \notin Spaced
  PROVE  Loaded(Written(t)) = t
<1>1. t \in Seq(Entry) /\ Len(t) <= Capacity /\ Len(t) \in Nat /\ DOMAIN t = 1 .. Len(t)
  BY LenProperties DEF Tables
<1>2. BeforeBlank(t, Len(t))
  BY <1>1 DEF BeforeBlank
<1>3. Scan(Written(t)) = SubSeq(t, 1, Len(t))
  BY <1>1, <1>2, ReadBack
<1>4. SubSeq(t, 1, Len(t)) = t
  BY <1>1, SubSeqFull
<1>5. Written(t) # NoFile
  BY <1>1, WrittenType, Parameters
<1>6. QED
  BY <1>1, <1>3, <1>4, <1>5, FirstOnesOfTable DEF Loaded

(* A table without twins comes back without twins, blanks or not.          *)
LEMMA SavedOnce ==
  ASSUME NEW t \in Tables, Once(t)
  PROVE  Once(FirstOnes(Scan(Written(t))))
<1>1. t \in Seq(Entry) /\ Len(t) \in Nat /\ DOMAIN t = 1 .. Len(t)
  BY LenProperties DEF Tables
<1>2. PICK m \in 0 .. Len(t) : BeforeBlank(t, m)
  BY <1>1, SomeBeforeBlank
<1> DEFINE u == SubSeq(t, 1, m)
<1>3. Scan(Written(t)) = u
  BY <1>1, <1>2, ReadBack
<1>4. \A i \in 1 .. m : t[i] \in Entry /\ i \in 1 .. Len(t)
  BY <1>1, ElementOfSeq
<1>5. 1 \in Int /\ m \in Nat /\ \A i \in 1 .. m - 1 + 1 : 1 + i - 1 = i
  BY <1>1
<1>6. /\ u \in Seq(Entry)
      /\ Len(u) = IF 1 <= m THEN m - 1 + 1 ELSE 0
      /\ \A i \in 1 .. m - 1 + 1 : u[i] = t[1 + i - 1]
  BY <1>4, <1>5, SubSeqProperties
<1>7. Len(u) = m /\ \A i \in 1 .. m : u[i] = t[i]
  BY <1>5, <1>6
<1> HIDE DEF u
<1>8. DOMAIN u = 1 .. m
  BY <1>6, <1>7, LenProperties
<1>9. Once(u)
  BY <1>1, <1>4, <1>7, <1>8 DEF Once
<1>10. QED
  BY <1>3, <1>6, <1>9, FirstOnesOfTable

LEMMA EmptyFile ==
  /\ <<>> \in Seq(Cells) /\ Scan(<<>>) = <<>>
  /\ FirstOnes(<<>>) = <<>> /\ Once(<<>>)
<1>1. <<>> \in Seq(Cells) /\ Len(<<>>) = 0 /\ DOMAIN <<>> = {}
  BY EmptySeq
<1>2. ASSUME NEW cells \in Seq(Cells), cells = <<>> PROVE Scan(cells) = <<>>
  <2>1. 1 \in 1 .. Len(cells) + 1 /\ 1 \notin 1 .. Len(cells)
    BY <1>1, <1>2
  <2>2. ~Scanned(cells, 1)
    BY <2>1, ScannedInside
  <2>3. PICK from :
          /\ Scan(cells) = from[1]
          /\ \A i \in 1 .. Len(cells) + 1 :
               from[i] = IF Scanned(cells, i)
                         THEN <<EntryAt(cells, i)>> \o from[LastCell(cells, i) + 2]
                         ELSE <<>>
    BY ScanRecursion
  <2>4. QED
    BY <2>1, <2>2, <2>3, Zenon
<1>3. Scan(<<>>) = <<>>
  BY <1>1, <1>2
<1>4. FirstOnes(<<>>) = <<>>
  <2>1. 0 <= Capacity
    BY Parameters
  <2>2. QED
    BY <1>1, <2>1 DEF FirstOnes
<1>5. QED
  BY <1>1, <1>3, <1>4 DEF Once
-----------------------------------------------------------------------------
(* Types.                                                                  *)

LEMMA TablesOnly ==
  ASSUME NEW t \in Tables
  PROVE  t \in Seq(Entry) /\ Len(t) <= Capacity /\ Len(t) \in Nat
BY LenProperties DEF Tables

LEMMA InitType == Init => TypeInv
<1>1. <<>> \in Tables
  BY EmptySeq, Parameters DEF Tables
<1>2. SUFFICES ASSUME Init PROVE TypeInv
  OBVIOUS
<1>3. uses \in [Words -> Nat]
  BY <1>2 DEF Init
<1>4. /\ proc \in [Procs -> {"off", "up", "leaving", "saving"}]
      /\ \A p \in Procs : proc[p] # "saving"
      /\ freq_table \in [Procs -> Tables]
  BY <1>1, <1>2 DEF Init
<1>5. /\ waits \in [Shells -> SUBSET Children]
      /\ \A s \in Shells : waits[s] = {}
  BY <1>2 DEF Init
<1>6. file = NoFile /\ mishap \in BOOLEAN /\ overlapped \in BOOLEAN
  BY <1>2 DEF Init
<1>7. QED
  BY <1>3, <1>4, <1>5, <1>6 DEF TypeInv

LEMMA ForksType ==
  ASSUME TypeInv, NEW s \in Shells, NEW K \in SUBSET Idle, NEW t \in Tables, Forks(s, K, t)
  PROVE  /\ proc' \in [Procs -> {"off", "up", "leaving", "saving"}]
         /\ freq_table' \in [Procs -> Tables]
         /\ \A p \in Procs : proc'[p] = IF p \in K \cup {s} THEN "up" ELSE proc[p]
BY DEF TypeInv, Forks

LEMMA LoadedType == TypeInv => load_freq \in Tables
BY LoadType DEF TypeInv

LEMMA StartType ==
  ASSUME TypeInv, NEW s \in Shells, Start(s)
  PROVE  TypeInv'
<1>1. PICK K \in {{}} \cup {{c} : c \in Idle} : Forks(s, K, load_freq)
  BY DEF Start
<1>2. K \in SUBSET Idle
  BY <1>1
<1>3. /\ proc' \in [Procs -> {"off", "up", "leaving", "saving"}]
      /\ freq_table' \in [Procs -> Tables]
      /\ \A p \in Procs : proc'[p] = IF p \in K \cup {s} THEN "up" ELSE proc[p]
  BY <1>1, <1>2, ForksType, LoadedType
<1>4. UNCHANGED <<file, waits, uses, overlapped>> /\ mishap' \in BOOLEAN
  BY DEF Start, TypeInv
<1>5. Children \subseteq Procs
  BY DEF Procs
<1>6. \A p \in Procs : proc'[p] = "saving" => proc[p] = "saving"
  BY <1>3
<1>7. \A c \in Children : proc[c] # "off" => proc'[c] # "off"
  BY <1>3, <1>5
<1>8. QED
  BY <1>3, <1>4, <1>6, <1>7 DEF TypeInv

LEMMA UseType ==
  ASSUME TypeInv, NEW s \in Shells, NEW w \in Words, Use(s, w)
  PROVE  TypeInv'
<1>1. freq_table[s] \in Tables /\ s \in Procs /\ Children \subseteq Procs
  BY DEF TypeInv, Procs
<1>2. update_freq(freq_table[s], w) \in Tables
  BY <1>1, UpdateType
<1>3. UNCHANGED <<file, overlapped>> /\ mishap' \in BOOLEAN /\ uses' \in [Words -> Nat]
  BY DEF Use, TypeInv
<1>4. CASE w = Exit
  <2>1. /\ proc' = [proc EXCEPT ![s] = "leaving"]
        /\ freq_table' = [freq_table EXCEPT ![s] = update_freq(@, w)]
        /\ UNCHANGED waits
    BY <1>4 DEF Use
  <2>2. /\ proc' \in [Procs -> {"off", "up", "leaving", "saving"}]
        /\ freq_table' \in [Procs -> Tables]
        /\ \A p \in Procs : proc'[p] = "saving" => proc[p] = "saving"
        /\ \A c \in Children : proc[c] # "off" => proc'[c] # "off"
    BY <1>1, <1>2, <2>1 DEF TypeInv
  <2>3. QED
    BY <1>3, <2>1, <2>2 DEF TypeInv
<1>5. CASE w # Exit
  <2> PICK K \in SUBSET Idle : \E waited \in SUBSET K :
          /\ Forks(s, K, update_freq(freq_table[s], w))
          /\ waits' = [waits EXCEPT ![s] = waited]
    BY <1>5, Zenon DEF Use
  <2>1. PICK waited \in SUBSET K :
          /\ Forks(s, K, update_freq(freq_table[s], w))
          /\ waits' = [waits EXCEPT ![s] = waited]
    OBVIOUS
  <2>2. /\ proc' \in [Procs -> {"off", "up", "leaving", "saving"}]
        /\ freq_table' \in [Procs -> Tables]
        /\ \A p \in Procs : proc'[p] = IF p \in K \cup {s} THEN "up" ELSE proc[p]
    BY <1>2, <2>1, ForksType
  <2>3. \A p \in Procs : proc'[p] = "saving" => proc[p] = "saving"
    BY <2>2
  <2>4. \A c \in Children : proc[c] # "off" => proc'[c] # "off"
    BY <1>1, <2>2
  <2>5. \A c \in K : c \in Children /\ proc[c] = "off" /\ proc'[c] # "off"
    BY <1>1, <2>2 DEF Idle
  <2>6. waits' \in [Shells -> SUBSET Children] /\ \A t \in Shells : waits'[t] = IF t = s THEN waited ELSE waits[t]
    BY <2>1, <2>5 DEF TypeInv
  <2>7. \A t \in Shells : \A c \in waits'[t] : proc'[c] # "off"
    BY <2>4, <2>5, <2>6 DEF TypeInv
  <2>8. \A t, u \in Shells : t # u => waits'[t] \cap waits'[u] = {}
    BY <2>5, <2>6 DEF TypeInv
  <2>9. QED
    BY <1>3, <2>2, <2>3, <2>6, <2>7, <2>8 DEF TypeInv
<1>6. QED
  BY <1>4, <1>5

LEMMA OpenType ==
  ASSUME TypeInv, NEW p \in Procs, Open(p)
  PROVE  TypeInv'
<1>1. /\ proc' = [proc EXCEPT ![p] = "saving"] /\ file' = <<>>
      /\ UNCHANGED <<freq_table, waits, uses>>
      /\ mishap' \in BOOLEAN /\ overlapped' \in BOOLEAN
  BY DEF Open, TypeInv
<1>2. file' \in Seq(Cells)
  BY <1>1, EmptyFile
<1>3. /\ proc' \in [Procs -> {"off", "up", "leaving", "saving"}]
      /\ \A q \in Procs : proc[q] # "off" => proc'[q] # "off"
  BY <1>1 DEF TypeInv
<1>4. Children \subseteq Procs
  BY DEF Procs
<1>5. QED
  BY <1>1, <1>2, <1>3, <1>4 DEF TypeInv

LEMMA EndsType ==
  ASSUME TypeInv, NEW p \in Procs, Ends(p)
  PROVE  /\ proc' \in [Procs -> {"off", "up", "leaving", "saving"}]
         /\ \A q \in Procs : proc'[q] = IF q = p THEN "off" ELSE proc[q]
         /\ freq_table' \in [Procs -> Tables]
         /\ \A q \in Procs : freq_table'[q] = IF q = p THEN <<>> ELSE freq_table[q]
         /\ waits' \in [Shells -> SUBSET Children]
         /\ \A s \in Shells : \A c \in waits'[s] : proc'[c] # "off"
         /\ \A s, t \in Shells : s # t => waits'[s] \cap waits'[t] = {}
<1>1. <<>> \in Tables
  BY EmptySeq, Parameters DEF Tables
<1>2. /\ proc' = [proc EXCEPT ![p] = "off"]
      /\ freq_table' = [freq_table EXCEPT ![p] = <<>>]
      /\ waits' = [s \in Shells |-> IF s = p THEN {} ELSE waits[s] \ {p}]
  BY DEF Ends
<1>3. /\ proc' \in [Procs -> {"off", "up", "leaving", "saving"}]
      /\ \A q \in Procs : proc'[q] = IF q = p THEN "off" ELSE proc[q]
  BY <1>2 DEF TypeInv
<1>4. /\ freq_table' \in [Procs -> Tables]
      /\ \A q \in Procs : freq_table'[q] = IF q = p THEN <<>> ELSE freq_table[q]
  BY <1>1, <1>2 DEF TypeInv
<1>5. /\ waits' \in [Shells -> SUBSET Children]
      /\ \A s \in Shells : waits'[s] \subseteq waits[s] \ {p}
  BY <1>2 DEF TypeInv
<1>6. Children \subseteq Procs
  BY DEF Procs
<1>7. \A s \in Shells : \A c \in waits'[s] : proc'[c] # "off"
  BY <1>3, <1>5, <1>6 DEF TypeInv
<1>8. \A s, t \in Shells : s # t => waits'[s] \cap waits'[t] = {}
  BY <1>5 DEF TypeInv
<1>9. QED
  BY <1>3, <1>4, <1>5, <1>7, <1>8

LEMMA CloseType ==
  ASSUME TypeInv, NEW p \in Procs, Close(p)
  PROVE  TypeInv'
<1>1. /\ proc[p] = "saving" /\ Ends(p)
      /\ file' = Over(Written(freq_table[p]), file)
      /\ UNCHANGED <<uses, mishap, overlapped>>
  BY DEF Close
<1>2. file \in Seq(Cells) /\ freq_table[p] \in Seq(Entry)
  BY <1>1, TablesOnly DEF TypeInv
<1>3. file' \in Seq(Cells)
  BY <1>1, <1>2, WrittenType, OverType
<1>4. QED
  BY <1>1, <1>3, EndsType DEF TypeInv

LEMMA KillType ==
  ASSUME TypeInv, NEW p \in Procs, Kill(p)
  PROVE  TypeInv'
<1>1. Ends(p) /\ mishap' \in BOOLEAN /\ UNCHANGED <<file, uses, overlapped>>
  BY DEF Kill, TypeInv
<1>2. \A q \in Procs : proc'[q] = "saving" => proc[q] = "saving"
  BY <1>1, EndsType
<1>3. QED
  BY <1>1, <1>2, EndsType DEF TypeInv

LEMMA StepType == TypeInv /\ [Next]_vars => TypeInv'
<1>1. SUFFICES ASSUME TypeInv, [Next]_vars PROVE TypeInv'
  OBVIOUS
<1>2. CASE UNCHANGED vars
  BY <1>1, <1>2 DEF vars, TypeInv
<1>3. QED
  BY <1>1, <1>2, StartType, UseType, OpenType, CloseType, KillType DEF Next

LEMMA AlwaysTyped == Spec => []TypeInv
<1>1. QED
  BY InitType, StepType, PTL DEF Spec

(* Every table fits its array of 1000 entries (new.c 114, 140, 162), with  *)
(* whatever a file that was cut or written over is read as; a shell waits  *)
(* for children that run, and no two for the same.                         *)
THEOREM TypeCorrect == Spec => []TypeOK
<1>1. TypeInv => TypeOK
  <2>1. SUFFICES ASSUME TypeInv PROVE TypeOK
    OBVIOUS
  <2>2. \A p \in Procs : freq_table[p] \in Seq(Entry) /\ Len(freq_table[p]) <= Capacity
    BY <2>1, TablesOnly DEF TypeInv
  <2>3. \A s \in Shells : waits[s] \subseteq {c \in Children : proc[c] # "off"}
    BY <2>1 DEF TypeInv
  <2>4. QED
    BY <2>1, <2>2, <2>3 DEF TypeInv, TypeOK
<1>2. QED
  BY AlwaysTyped, <1>1, PTL
-----------------------------------------------------------------------------
(* No twins.                                                               *)

(* What OnceInv says, apart from its premise.                              *)
OnceState ==
  /\ \A p \in Procs : Once(freq_table[p])
  /\ Once(load_freq)
  /\ \A p \in Procs : proc[p] = "saving" => file = <<>>
  /\ \A p, q \in Procs : proc[p] = "saving" /\ proc[q] = "saving" => p = q

LEMMA ForksEffect ==
  ASSUME TypeInv, NEW s, NEW K, NEW t, Forks(s, K, t)
  PROVE  /\ \A p \in Procs : proc'[p] = IF p \in K \cup {s} THEN "up" ELSE proc[p]
         /\ \A p \in Procs : freq_table'[p] = IF p \in K \cup {s} THEN t ELSE freq_table[p]
BY DEF Forks

LEMMA SameFile == file' = file => load_freq' = load_freq
BY DEF load_freq

LEMMA InitOnce == Init => OnceInv
<1>1. SUFFICES ASSUME Init PROVE OnceState
  BY DEF OnceInv, OnceState
<1>2. load_freq = ByDefault
  BY <1>1 DEF Init, load_freq
<1>3. \A p \in Procs : freq_table[p] = <<>> /\ proc[p] = "off"
  BY <1>1 DEF Init
<1>4. QED
  BY <1>2, <1>3, DefaultTable, EmptyFile DEF OnceState

(* Processes that start or go on forking have the table of their parent.   *)
LEMMA ForkOnce ==
  ASSUME TypeInv, OnceState, NEW s \in Shells, NEW K \in SUBSET Idle, NEW t, Once(t),
         Forks(s, K, t), file' = file
  PROVE  OnceState'
<1>1. \A p \in Procs : Once(freq_table'[p])
  BY ForksEffect DEF OnceState
<1>2. \A p \in Procs : proc'[p] = "saving" => proc[p] = "saving"
  BY ForksEffect
<1>3. Once(load_freq')
  BY SameFile DEF OnceState
<1>4. QED
  BY <1>1, <1>2, <1>3 DEF OnceState

LEMMA StartOnce ==
  ASSUME TypeInv, OnceState, NEW s \in Shells, Start(s)
  PROVE  OnceState'
<1>1. PICK K \in {{}} \cup {{c} : c \in Idle} : Forks(s, K, load_freq)
  BY DEF Start
<1>2. K \in SUBSET Idle /\ file' = file /\ Once(load_freq)
  BY <1>1 DEF Start, OnceState
<1>3. QED
  BY <1>1, <1>2, ForkOnce

LEMMA UseOnce ==
  ASSUME TypeInv, OnceState, NEW s \in Shells, NEW w \in Words, Use(s, w)
  PROVE  OnceState'
<1>1. /\ s \in Procs /\ freq_table[s] \in Tables /\ Once(freq_table[s]) /\ file' = file
  BY DEF TypeInv, OnceState, Procs, Use
<1>2. Once(update_freq(freq_table[s], w))
  BY <1>1, UpdateOnce
<1>3. CASE w = Exit
  <2>1. /\ proc' = [proc EXCEPT ![s] = "leaving"]
        /\ freq_table' = [freq_table EXCEPT ![s] = update_freq(@, w)]
    BY <1>3 DEF Use
  <2>2. \A p \in Procs : proc'[p] = "saving" => proc[p] = "saving"
    BY <1>1, <2>1 DEF TypeInv
  <2>3. \A p \in Procs : freq_table'[p] = IF p = s THEN update_freq(freq_table[s], w) ELSE freq_table[p]
    BY <1>1, <2>1 DEF TypeInv
  <2>4. \A p \in Procs : Once(freq_table'[p])
    BY <1>2, <2>3 DEF OnceState
  <2>5. Once(load_freq')
    BY <1>1, SameFile DEF OnceState
  <2>6. QED
    BY <1>1, <2>2, <2>4, <2>5 DEF OnceState
<1>4. CASE w # Exit
  <2>1. PICK K \in SUBSET Idle : Forks(s, K, update_freq(freq_table[s], w))
    BY <1>4, Zenon DEF Use
  <2>2. QED
    BY <1>1, <1>2, <2>1, ForkOnce
<1>5. QED
  BY <1>3, <1>4

LEMMA OpenOnce ==
  ASSUME TypeInv, OnceState, NEW p \in Procs, Open(p), ~overlapped'
  PROVE  OnceState'
<1>1. /\ proc' = [proc EXCEPT ![p] = "saving"] /\ file' = <<>> /\ freq_table' = freq_table
      /\ \A q \in Procs : proc[q] # "saving"
  BY DEF Open
<1>2. \A q \in Procs : proc'[q] = "saving" => q = p
  BY <1>1 DEF TypeInv
<1>3. load_freq' \in {ByDefault, <<>>}
  BY <1>1, EmptyFile DEF load_freq, FirstOnes
<1>4. Once(load_freq')
  BY <1>3, DefaultTable, EmptyFile
<1>5. QED
  BY <1>1, <1>2, <1>4 DEF OnceState

LEMMA CloseOnce ==
  ASSUME TypeInv, OnceState, NEW p \in Procs, Close(p)
  PROVE  OnceState'
<1>1. /\ proc[p] = "saving" /\ Ends(p)
      /\ file' = Over(Written(freq_table[p]), file)
  BY DEF Close
<1>2. file = <<>> /\ freq_table[p] \in Tables /\ Once(freq_table[p])
  BY <1>1 DEF OnceState, TypeInv
<1>3. file' = Written(freq_table[p])
  BY <1>1, <1>2, EmptyFile, OverType, WrittenType, TablesOnly
<1>4. \A q \in Procs : proc'[q] # "saving"
  BY <1>1, EndsType DEF OnceState
<1>5. \A q \in Procs : Once(freq_table'[q])
  BY <1>1, EndsType, EmptyFile DEF OnceState
<1>6. load_freq' = IF file' = NoFile THEN ByDefault ELSE FirstOnes(Scan(file'))
  BY DEF load_freq
<1>7. Once(load_freq')
  BY <1>2, <1>3, <1>6, DefaultTable, SavedOnce
<1>8. QED
  BY <1>4, <1>5, <1>7 DEF OnceState

LEMMA KillOnce ==
  ASSUME TypeInv, OnceState, NEW p \in Procs, Kill(p)
  PROVE  OnceState'
<1>1. Ends(p) /\ file' = file
  BY DEF Kill
<1>2. \A q \in Procs : proc'[q] = "saving" => proc[q] = "saving"
  BY <1>1, EndsType
<1>3. \A q \in Procs : Once(freq_table'[q])
  BY <1>1, EndsType, EmptyFile DEF OnceState
<1>4. Once(load_freq')
  BY <1>1, SameFile DEF OnceState
<1>5. QED
  BY <1>1, <1>2, <1>3, <1>4 DEF OnceState

LEMMA StepOnce == TypeInv /\ OnceInv /\ [Next]_vars => OnceInv'
<1>1. SUFFICES ASSUME TypeInv, OnceInv, [Next]_vars, ~overlapped' PROVE OnceState'
  BY DEF OnceInv, OnceState
<1>2. ~overlapped
  BY <1>1 DEF Next, vars, Start, Use, Open, Close, Kill
<1>3. OnceState
  BY <1>1, <1>2 DEF OnceInv, OnceState
<1>4. CASE UNCHANGED vars
  <2>1. load_freq' = load_freq
    BY <1>4, SameFile DEF vars
  <2>2. QED
    BY <1>3, <1>4, <2>1 DEF vars, OnceState
<1>5. QED
  BY <1>1, <1>3, <1>4, StartOnce, UseOnce, OpenOnce, CloseOnce, KillOnce DEF Next

(* No table holds a word twice, whatever shells and children do in         *)
(* whatever order, as long as no two had the file open for writing at the  *)
(* same time: update_freq counts in the first entry of a word and          *)
(* compare_freq sorts by the last.                                         *)
THEOREM OnceCorrect == Spec => []EachOnce
<1>1. Spec => []OnceInv
  BY InitOnce, AlwaysTyped, StepOnce, PTL DEF Spec
<1>2. OnceInv => EachOnce
  BY DEF OnceInv, EachOnce, Once
<1>3. QED
  BY <1>1, <1>2, PTL
-----------------------------------------------------------------------------
(* No use is lost.                                                         *)

CountState == OneShell /\ Outlives /\ SavesAlone /\ ShellKnows /\ FileKnows

LEMMA Apart ==
  /\ Shells \subseteq Procs /\ Children \subseteq Procs
  /\ \A s \in Shells : s \notin Children
BY Parameters DEF Procs

LEMMA InitCount == Init => CountInv
<1>1. SUFFICES ASSUME Init PROVE CountState
  BY DEF CountInv, CountState
<1>2. load_freq = ByDefault /\ uses = FirstUses
  BY <1>1 DEF Init, load_freq, FirstUses
<1>3. \A p \in Procs : proc[p] = "off"
  BY <1>1 DEF Init
<1>4. OneShell /\ Outlives /\ SavesAlone /\ ShellKnows
  BY <1>3, Apart DEF OneShell, Outlives, SavesAlone, ShellKnows
<1>5. FileKnows
  BY <1>2, DefaultTable DEF FileKnows
<1>6. QED
  BY <1>4, <1>5 DEF CountState

LEMMA StartCount ==
  ASSUME TypeInv, CountState, NEW s \in Shells, Start(s), ~mishap'
  PROVE  CountState'
<1>1. PICK K \in {{}} \cup {{c} : c \in Idle} : Forks(s, K, load_freq)
  BY DEF Start
<1>2. K \in SUBSET Idle /\ K \subseteq Children
  BY <1>1 DEF Idle
<1>3. uses' = uses /\ \A p \in Procs : proc[p] = "off"
  BY DEF Start
<1>4. \A p \in Procs : proc'[p] = IF p \in K \cup {s} THEN "up" ELSE "off"
  BY <1>1, <1>3, ForksEffect
<1>5. freq_table'[s] = load_freq /\ Knows(load_freq, uses)
  BY <1>1, <1>3, Apart, ForksEffect DEF CountState, FileKnows
<1>6. \A u \in Shells : proc'[u] = IF u = s THEN "up" ELSE "off"
  BY <1>2, <1>4, Apart
<1>7. OneShell' /\ SavesAlone'
  BY <1>6 DEF OneShell, SavesAlone
<1>8. Outlives'
  BY <1>6 DEF Outlives
<1>9. ShellKnows'
  BY <1>3, <1>5, <1>6 DEF ShellKnows
<1>10. FileKnows'
  BY <1>6, Apart DEF FileKnows
<1>11. QED
  BY <1>7, <1>8, <1>9, <1>10 DEF CountState

LEMMA UseCount ==
  ASSUME TypeInv, CountState, NEW s \in Shells, NEW w \in Words, Use(s, w), ~mishap'
  PROVE  CountState'
<1>1. /\ proc[s] = "up" /\ uses' = [uses EXCEPT ![w] = @ + 1]
      /\ file' = file /\ w \in Words \ Spaced
  BY DEF Use
<1>2. freq_table[s] \in Tables /\ uses \in [Words -> Nat] /\ Knows(freq_table[s], uses)
  BY <1>1, Apart DEF TypeInv, CountState, ShellKnows
<1>3. Knows(update_freq(freq_table[s], w), uses')
  BY <1>1, <1>2, UpdateKnows
<1>4. \A u \in Shells \ {s} : proc[u] = "off"
  BY <1>1 DEF CountState, OneShell
<1>5. SUFFICES /\ proc'[s] \in {"up", "leaving"}
               /\ \A u \in Shells \ {s} : proc'[u] = "off"
               /\ freq_table'[s] = update_freq(freq_table[s], w)
  <2>1. OneShell' /\ SavesAlone'
    BY <1>5 DEF OneShell, SavesAlone
  <2>2. Outlives'
    BY <1>5 DEF Outlives
  <2>3. ShellKnows'
    BY <1>3, <1>5 DEF ShellKnows
  <2>4. FileKnows'
    BY <1>5, Apart DEF FileKnows
  <2>5. QED
    BY <2>1, <2>2, <2>3, <2>4 DEF CountState
<1>6. CASE w = Exit
  <2>1. /\ proc' = [proc EXCEPT ![s] = "leaving"]
        /\ freq_table' = [freq_table EXCEPT ![s] = update_freq(@, w)]
    BY <1>6 DEF Use
  <2>2. QED
    BY <1>4, <2>1, Apart DEF TypeInv
<1>7. CASE w # Exit
  <2>1. PICK K \in SUBSET Idle : Forks(s, K, update_freq(freq_table[s], w))
    BY <1>7, Zenon DEF Use
  <2>2. K \subseteq Children
    BY <2>1 DEF Idle
  <2>3. /\ \A p \in Procs : proc'[p] = IF p \in K \cup {s} THEN "up" ELSE proc[p]
        /\ freq_table'[s] = update_freq(freq_table[s], w)
    BY <2>1, Apart, ForksEffect
  <2>4. QED
    BY <1>4, <2>2, <2>3, Apart
<1>8. QED
  BY <1>6, <1>7

(* A child may open the file at any time; the shell opens it when it is    *)
(* the last one.                                                           *)
LEMMA OpenCount ==
  ASSUME TypeInv, CountState, NEW p \in Procs, Open(p), ~mishap'
  PROVE  CountState'
<1>1. /\ Leaves(p) /\ proc' = [proc EXCEPT ![p] = "saving"] /\ file' = <<>>
      /\ freq_table' = freq_table /\ uses' = uses
      /\ p \in Shells => \A q \in Procs \ {p} : proc[q] = "off"
  BY DEF Open
<1>2. \A q \in Procs : proc'[q] = IF q = p THEN "saving" ELSE proc[q]
  BY <1>1 DEF TypeInv
<1>3. proc[p] # "off"
  BY <1>1 DEF Leaves
<1>4. OneShell'
  BY <1>2, <1>3, Apart DEF CountState, OneShell
<1>5. Outlives'
  <2>1. CASE p \in Shells
    BY <1>1, <1>2, <2>1, Apart DEF Outlives
  <2>2. CASE p \notin Shells
    <3>1. p \in Children /\ \A s \in Shells : proc'[s] = proc[s]
      BY <1>2, <2>2, Apart DEF Procs
    <3>2. PICK s \in Shells : proc[s] \in {"up", "leaving"}
      BY <1>3, <3>1 DEF CountState, Outlives
    <3>3. QED
      BY <3>1, <3>2 DEF Outlives
  <2>3. QED
    BY <2>1, <2>2
<1>6. SavesAlone'
  BY <1>1 DEF SavesAlone
<1>7. ShellKnows'
  BY <1>1, <1>2, <1>3, Apart DEF CountState, ShellKnows
<1>8. FileKnows'
  BY <1>2 DEF FileKnows
<1>9. QED
  BY <1>4, <1>5, <1>6, <1>7, <1>8 DEF CountState

(* When a child ends, its shell is still there.                            *)
LEMMA ChildEndsCount ==
  ASSUME TypeInv, CountState, NEW p \in Procs \ Shells, proc[p] # "off", Ends(p), uses' = uses
  PROVE  CountState'
<1>1. /\ \A q \in Procs : proc'[q] = IF q = p THEN "off" ELSE proc[q]
      /\ \A q \in Procs : freq_table'[q] = IF q = p THEN <<>> ELSE freq_table[q]
  BY EndsType
<1>2. \A s \in Shells : proc'[s] = proc[s] /\ freq_table'[s] = freq_table[s]
  BY <1>1, Apart
<1>3. PICK s \in Shells : proc[s] \in {"up", "leaving"}
  BY DEF CountState, Outlives, Procs
<1>4. \A u \in Shells : proc[u] # "saving"
  BY <1>3 DEF CountState, OneShell
<1>5. OneShell' /\ SavesAlone'
  BY <1>2, <1>4 DEF CountState, OneShell, SavesAlone
<1>6. Outlives'
  BY <1>2, <1>3 DEF Outlives
<1>7. ShellKnows'
  BY <1>2 DEF CountState, ShellKnows
<1>8. FileKnows'
  BY <1>2, <1>3, Apart DEF FileKnows
<1>9. QED
  BY <1>5, <1>6, <1>7, <1>8 DEF CountState

LEMMA CloseCount ==
  ASSUME TypeInv, CountState, NEW p \in Procs, Close(p)
  PROVE  CountState'
<1>1. /\ proc[p] = "saving" /\ Ends(p) /\ uses' = uses
      /\ file' = Over(Written(freq_table[p]), file)
  BY DEF Close
<1>2. CASE p \notin Shells
  BY <1>1, <1>2, ChildEndsCount
<1>3. CASE p \in Shells
  <2>1. file = <<>> /\ freq_table[p] \in Tables /\ Knows(freq_table[p], uses)
    BY <1>1, <1>3 DEF CountState, SavesAlone, ShellKnows, TypeInv
  <2>2. file' = Written(freq_table[p])
    BY <1>1, <2>1, EmptyFile, OverType, WrittenType, TablesOnly
  <2>3. \A i \in DOMAIN freq_table[p] : freq_table[p][i].command \notin Spaced
    BY <2>1 DEF Knows
  <2>4. Loaded(Written(freq_table[p])) = freq_table[p]
    BY <2>1, <2>3, SavedIsLoaded
  <2>5. load_freq' = Loaded(file')
    BY DEF load_freq, Loaded
  <2>6. FileKnows'
    BY <1>1, <2>1, <2>2, <2>4, <2>5 DEF FileKnows
  <2>7. \A s \in Shells : proc[s] # "off" => s = p
    BY <1>1, <1>3 DEF CountState, OneShell
  <2>8. \A c \in Children : proc[c] = "off"
    BY <1>1, <2>7 DEF CountState, Outlives
  <2>9. \A q \in Procs : proc'[q] = "off"
    BY <1>1, <2>7, <2>8, EndsType DEF Procs
  <2>10. OneShell' /\ Outlives' /\ SavesAlone' /\ ShellKnows'
    BY <2>9, Apart DEF OneShell, Outlives, SavesAlone, ShellKnows
  <2>11. QED
    BY <2>6, <2>10 DEF CountState
<1>4. QED
  BY <1>2, <1>3

LEMMA KillCount ==
  ASSUME TypeInv, CountState, NEW p \in Procs, Kill(p), ~mishap'
  PROVE  CountState'
<1>1. proc[p] # "off" /\ Ends(p) /\ uses' = uses /\ p \notin Shells
  BY DEF Kill
<1>2. QED
  BY <1>1, ChildEndsCount

LEMMA StepCount == TypeInv /\ CountInv /\ [Next]_vars => CountInv'
<1>1. SUFFICES ASSUME TypeInv, CountInv, [Next]_vars, ~mishap' PROVE CountState'
  BY DEF CountInv, CountState
<1>2. ~mishap
  BY <1>1 DEF Next, vars, Start, Use, Open, Close, Kill
<1>3. CountState
  BY <1>1, <1>2 DEF CountInv, CountState
<1>4. CASE UNCHANGED vars
  <2>1. load_freq' = load_freq
    BY <1>4, SameFile DEF vars
  <2>2. QED
    BY <1>3, <1>4, <2>1
       DEF vars, CountState, OneShell, Outlives, SavesAlone, ShellKnows, FileKnows
<1>5. QED
  BY <1>1, <1>3, <1>4, StartCount, UseCount, OpenCount, CloseCount, KillCount DEF Next

(* As long as shells run one after the other, each leaves by exit after    *)
(* its children and no word has a blank, a running shell has every use     *)
(* there ever was, of every word there was room for, though children       *)
(* write old tables over the file meanwhile, at once or half.              *)
THEOREM CountsCorrect == Spec => []CountsKept
<1>1. Spec => []CountInv
  BY InitCount, AlwaysTyped, StepCount, PTL DEF Spec
<1>2. CountInv => CountsKept
  <2>1. SUFFICES ASSUME CountInv, ~mishap, NEW s \in Shells, NEW w \in Words, proc[s] = "up"
                 PROVE  LET n == CountOf(freq_table[s], w)
                        IN  n = uses[w] \/ (n = 0 /\ Len(freq_table[s]) = Capacity)
    BY DEF CountsKept
  <2>2. Knows(freq_table[s], uses)
    BY <2>1 DEF CountInv, ShellKnows
  <2>3. QED
    BY <2>2 DEF Knows, CountOf
<1>3. QED
  BY <1>1, <1>2, PTL
=============================================================================
