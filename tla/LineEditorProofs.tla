-------------------------- MODULE LineEditorProofs --------------------------
(***************************************************************************)
(* Invariance proofs for LineEditor: for any commands, files, size of the  *)
(* history, keys and notices, the terminal shows the line, ghosts complete *)
(* it, and the arrows show what was entered.                               *)
(***************************************************************************)
EXTENDS LineEditor, SequenceTheorems, TLAPS

Screen == [column : Nat, cells : Seq(Chars \X BOOLEAN)]
-----------------------------------------------------------------------------
(* Lines and their suggestions.                                            *)

LEMMA Parameters ==
  /\ history_size \in Nat \ {0} /\ None \notin Line
  /\ Keys \subseteq Chars /\ Stray \subseteq Line
BY EditorAssumption, Zenon

LEMMA BlankIsCell == Blank \in Chars \X BOOLEAN
BY EditorAssumption DEF Blank

LEMMA SliceOfLine ==
  ASSUME NEW s \in Line, NEW m \in Int, NEW n \in Int, 1 <= m, n <= Len(s)
  PROVE  /\ SubSeq(s, m, n) \in Line
         /\ Len(SubSeq(s, m, n)) = IF m <= n THEN n - m + 1 ELSE 0
         /\ \A i \in 1 .. n - m + 1 : SubSeq(s, m, n)[i] = s[m + i - 1]
<1>1. Len(s) \in Nat
  BY LenProperties DEF Line
<1>2. \A i \in m .. n : s[i] \in Chars
  BY <1>1, ElementOfSeq DEF Line
<1>3. QED
  BY <1>2, SubSeqProperties DEF Line

LEMMA RestsAreLines ==
  ASSUME NEW p \in Line, NEW names \in SUBSET Line
  PROVE  Rests(p, names) \subseteq Line
<1>1. SUFFICES ASSUME NEW n \in names PROVE SubSeq(n, Len(p) + 1, Len(n)) \in Line
  BY DEF Rests
<1>2. Len(p) \in Nat /\ Len(n) \in Nat /\ n \in Line
  BY LenProperties DEF Line
<1>3. QED
  BY <1>2, SliceOfLine

LEMMA StartsInLine ==
  ASSUME NEW s \in Line, NEW c, NEW n \in Starts(s, c)
  PROVE  SubSeq(s, n + 1, Len(s)) \in Line
<1>1. n \in 0 .. Len(s) /\ Len(s) \in Nat
  BY LenProperties DEF Starts, Line
<1>2. n + 1 \in Int /\ 1 <= n + 1 /\ Len(s) \in Int /\ Len(s) <= Len(s)
  BY <1>1
<1>3. QED
  BY <1>2, SliceOfLine

LEMMA SuggestionsAreLines ==
  ASSUME NEW s \in Line
  PROVE  Suggestions(s) \subseteq Line
<1>1. show_ghost(s) \subseteq Line
  BY RestsAreLines, EditorAssumption DEF show_ghost
<1>2. ASSUME NEW dir, NEW base \in Line PROVE Entries(dir, base) \subseteq Line
  <2> DEFINE Name(e) == IF e.is_dir THEN Append(e.name, "/") ELSE e.name
             found == {e \in Listing[dir] : IsStrictPrefix(base, e.name)}
  <2>1. CASE dir \notin DOMAIN Listing
    BY <2>1 DEF Entries
  <2>2. CASE dir \in DOMAIN Listing
    <3>1. \A e \in found : e.name \in Line
      BY <2>2, EditorAssumption
    <3>2. \A e \in found : Name(e) \in Line
      BY <3>1, AppendProperties, EditorAssumption DEF Line
    <3>3. {Name(e) : e \in found} \subseteq Line
      BY <3>2
    <3>4. Rests(base, {Name(e) : e \in found}) \subseteq Line
      BY <3>3, RestsAreLines
    <3>5. QED
      BY <2>2, <3>4 DEF Entries
  <2>3. QED
    BY <2>1, <2>2
<1>3. ASSUME NEW word \in Line PROVE PathGhosts(word) \subseteq Line
  BY <1>2, StartsInLine DEF PathGhosts
<1>4. show_path_ghost(s) \subseteq Line
  BY <1>3, StartsInLine DEF show_path_ghost
<1>5. QED
  BY <1>1, <1>4 DEF Suggestions

(* A key inserted at the end of the line.                                  *)
LEMMA InsertAtEnd ==
  ASSUME NEW s \in Line, NEW c \in Chars
  PROVE  InsertAt(s, Len(s) + 1, c) = Append(s, c)
<1>1. Len(s) \in Nat
  BY LenProperties DEF Line
<1>2. SubSeq(s, 1, Len(s)) = s
  BY SubSeqFull DEF Line
<1>3. SubSeq(s, Len(s) + 1, Len(s)) = <<>>
  BY <1>1, SubSeqEmpty
<1>4. s \o <<c>> = Append(s, c)
  BY AppendIsConcat DEF Line
<1>5. Append(s, c) \o <<>> = Append(s, c)
  BY AppendProperties, ConcatEmptySeq DEF Line
<1>6. (Len(s) + 1) - 1 = Len(s)
  BY <1>1
<1>7. InsertAt(s, Len(s) + 1, c) = (SubSeq(s, 1, (Len(s) + 1) - 1) \o <<c>>) \o SubSeq(s, Len(s) + 1, Len(s))
  BY DEF InsertAt
<1>8. SubSeq(s, 1, (Len(s) + 1) - 1) = s
  BY <1>2, <1>6
<1>9. QED
  BY <1>3, <1>4, <1>5, <1>7, <1>8

LEMMA InsertIsLine ==
  ASSUME NEW s \in Line, NEW c \in Chars, NEW k \in 0 .. Len(s)
  PROVE  InsertAt(s, k + 1, c) \in Line /\ Len(InsertAt(s, k + 1, c)) = Len(s) + 1
<1>1. Len(s) \in Nat
  BY LenProperties DEF Line
<1> DEFINE a == SubSeq(s, 1, k)
           b == SubSeq(s, k + 1, Len(s))
<1>2. a \in Line /\ Len(a) = k
  BY <1>1, SliceOfLine
<1>3. b \in Line /\ Len(b) = Len(s) - k
  BY <1>1, SliceOfLine
<1>4. <<c>> \in Line /\ Len(<<c>>) = 1
  BY DEF Line
<1> HIDE DEF a, b
<1>5. a \o <<c>> \in Line /\ Len(a \o <<c>>) = k + 1
  BY <1>2, <1>4, ConcatProperties DEF Line
<1>6. (a \o <<c>>) \o b \in Line /\ Len((a \o <<c>>) \o b) = Len(s) + 1
  BY <1>1, <1>3, <1>5, ConcatProperties DEF Line
<1>7. (k + 1) - 1 = k
  OBVIOUS
<1>8. InsertAt(s, k + 1, c) = (a \o <<c>>) \o b
  BY <1>7, Zenon DEF InsertAt, a, b
<1>9. QED
  BY <1>6, <1>8

LEMMA RemoveIsLine ==
  ASSUME NEW s \in Line, NEW i \in 1 .. Len(s)
  PROVE  RemoveAt(s, i) \in Line /\ Len(RemoveAt(s, i)) = Len(s) - 1
<1>1. Len(s) \in Nat
  BY LenProperties DEF Line
<1> DEFINE a == SubSeq(s, 1, i - 1)
           b == SubSeq(s, i + 1, Len(s))
<1>2. a \in Line /\ Len(a) = i - 1
  <2>1. i - 1 \in Int /\ i - 1 <= Len(s) /\ 1 \in Int /\ 1 <= 1
    BY <1>1
  <2>2. a \in Line /\ Len(a) = IF 1 <= i - 1 THEN i - 1 - 1 + 1 ELSE 0
    BY <2>1, SliceOfLine
  <2>3. QED
    BY <2>2
<1>3. b \in Line /\ Len(b) = Len(s) - i
  BY <1>1, SliceOfLine
<1> HIDE DEF a, b
<1>4. a \o b \in Line /\ Len(a \o b) = Len(a) + Len(b)
  BY <1>2, <1>3, ConcatProperties DEF Line
<1>5. RemoveAt(s, i) = a \o b
  BY Zenon DEF RemoveAt, a, b
<1>6. QED
  BY <1>1, <1>2, <1>3, <1>4, <1>5
-----------------------------------------------------------------------------
(* The terminal.                                                           *)

(* Cell i of a terminal that shows line b and after it ghost g.            *)
LineCell(b, g, i) ==
  IF i \in 1 .. Len(b) THEN <<b[i], FALSE>>
  ELSE IF i - Len(b) \in 1 .. Len(g) THEN <<g[i - Len(b)], TRUE>> ELSE Blank

Shows(cells, b, g) ==
  /\ cells \in Seq(Chars \X BOOLEAN)
  /\ Len(cells) >= Len(b)
  /\ \A i \in Nat \ {0} : Cell(cells, i) = LineCell(b, g, i)

LEMMA PlainAndDim ==
  ASSUME NEW s \in Line
  PROVE  /\ Plain(s) \in Seq(Chars \X BOOLEAN) /\ Len(Plain(s)) = Len(s)
         /\ \A i \in 1 .. Len(s) : Plain(s)[i] = <<s[i], FALSE>>
         /\ Dim(s) \in Seq(Chars \X BOOLEAN) /\ Len(Dim(s)) = Len(s)
         /\ \A i \in 1 .. Len(s) : Dim(s)[i] = <<s[i], TRUE>>
<1>1. Len(s) \in Nat /\ DOMAIN s = 1 .. Len(s) /\ \A i \in 1 .. Len(s) : s[i] \in Chars
  BY LenProperties, ElementOfSeq DEF Line
<1>2. \A i \in 1 .. Len(s) : <<s[i], FALSE>> \in Chars \X BOOLEAN /\ <<s[i], TRUE>> \in Chars \X BOOLEAN
  BY <1>1
<1>3. /\ Plain(s) = [i \in 1 .. Len(s) |-> <<s[i], FALSE>>]
      /\ Dim(s) = [i \in 1 .. Len(s) |-> <<s[i], TRUE>>]
  BY <1>1 DEF Plain, Dim
<1>4. /\ Plain(s) \in [1 .. Len(s) -> Chars \X BOOLEAN]
      /\ Dim(s) \in [1 .. Len(s) -> Chars \X BOOLEAN]
  <2>1. Plain(s) \in [1 .. Len(s) -> Chars \X BOOLEAN]
    BY ONLY <1>2, <1>3, ZenonT(30)
  <2>2. Dim(s) \in [1 .. Len(s) -> Chars \X BOOLEAN]
    BY ONLY <1>2, <1>3, ZenonT(30)
  <2>3. QED
    BY <2>1, <2>2
<1>5. ASSUME NEW S, NEW n \in Nat, NEW f \in [1 .. n -> S] PROVE f \in Seq(S) /\ Len(f) = n
  <2>1. f \in Seq(S) /\ DOMAIN f = 1 .. n
    OBVIOUS
  <2>2. QED
    BY <2>1, LenProperties
<1>6. Plain(s) \in Seq(Chars \X BOOLEAN) /\ Len(Plain(s)) = Len(s)
  BY <1>1, <1>4, <1>5
<1>7. Dim(s) \in Seq(Chars \X BOOLEAN) /\ Len(Dim(s)) = Len(s)
  BY <1>1, <1>4, <1>5
<1>8. \A i \in 1 .. Len(s) : Plain(s)[i] = <<s[i], FALSE>> /\ Dim(s)[i] = <<s[i], TRUE>>
  BY <1>3
<1>9. QED
  BY <1>6, <1>7, <1>8

(* Printing changes the cells it is printed on.                            *)
LEMMA PutCells ==
  ASSUME NEW scr \in Screen, NEW new \in Seq(Chars \X BOOLEAN), scr.column <= Len(scr.cells)
  PROVE  /\ Put(scr, new) \in Screen
         /\ Put(scr, new).column = scr.column + Len(new)
         /\ Len(Put(scr, new).cells) >= Len(scr.cells)
         /\ Len(Put(scr, new).cells) >= scr.column + Len(new)
         /\ \A i \in Nat \ {0} :
              Cell(Put(scr, new).cells, i) = IF i > scr.column /\ i <= scr.column + Len(new)
                                             THEN new[i - scr.column] ELSE Cell(scr.cells, i)
<1> DEFINE cs == scr.cells
           k == scr.column
           n == Len(new)
           a == SubSeq(cs, 1, k)
           t == SubSeq(cs, k + n + 1, Len(cs))
<1>1. /\ cs \in Seq(Chars \X BOOLEAN) /\ k \in Nat /\ n \in Nat /\ Len(cs) \in Nat /\ k <= Len(cs)
      /\ DOMAIN cs = 1 .. Len(cs) /\ \A i \in 1 .. Len(cs) : cs[i] \in Chars \X BOOLEAN
  BY LenProperties, ElementOfSeq DEF Screen
<1> HIDE DEF cs, k, n
<1>2. a \in Seq(Chars \X BOOLEAN) /\ Len(a) = k /\ \A i \in 1 .. k : a[i] = cs[i]
  <2>1. \A i \in 1 .. k : cs[i] \in Chars \X BOOLEAN
    BY <1>1
  <2>2. /\ a \in Seq(Chars \X BOOLEAN) /\ Len(a) = (IF 1 <= k THEN k - 1 + 1 ELSE 0)
        /\ \A i \in 1 .. k - 1 + 1 : a[i] = cs[1 + i - 1]
    BY <1>1, <2>1, SubSeqProperties
  <2>3. QED
    BY <1>1, <2>2
<1>3. /\ t \in Seq(Chars \X BOOLEAN)
      /\ Len(t) = IF k + n + 1 <= Len(cs) THEN Len(cs) - (k + n) ELSE 0
      /\ \A i \in 1 .. Len(cs) - (k + n) : t[i] = cs[k + n + i]
  <2>1. \A i \in k + n + 1 .. Len(cs) : cs[i] \in Chars \X BOOLEAN
    BY <1>1
  <2>2. /\ t \in Seq(Chars \X BOOLEAN)
        /\ Len(t) = (IF k + n + 1 <= Len(cs) THEN Len(cs) - (k + n + 1) + 1 ELSE 0)
        /\ \A i \in 1 .. Len(cs) - (k + n + 1) + 1 : t[i] = cs[k + n + 1 + i - 1]
    BY <1>1, <2>1, SubSeqProperties
  <2>3. QED
    BY <1>1, <2>2
<1> HIDE DEF a, t
<1>4. /\ a \o new \in Seq(Chars \X BOOLEAN) /\ Len(a \o new) = k + n
      /\ \A i \in 1 .. k + n : (a \o new)[i] = IF i <= k THEN a[i] ELSE new[i - k]
  <2>1. Len(new) = n
    BY DEF n
  <2>2. /\ a \o new \in Seq(Chars \X BOOLEAN) /\ Len(a \o new) = Len(a) + Len(new)
        /\ \A i \in 1 .. Len(a) + Len(new) : (a \o new)[i] = IF i <= Len(a) THEN a[i] ELSE new[i - Len(a)]
    BY <1>2, ConcatProperties
  <2>3. QED
    BY <1>2, <2>1, <2>2
<1> DEFINE put == (a \o new) \o t
<1>5. /\ put \in Seq(Chars \X BOOLEAN) /\ Len(put) = k + n + Len(t)
      /\ \A i \in 1 .. k + n + Len(t) : put[i] = IF i <= k + n THEN (a \o new)[i] ELSE t[i - (k + n)]
  BY <1>3, <1>4, ConcatProperties, SMTT(30)
<1>6. Len(t) \in Nat /\ DOMAIN put = 1 .. Len(put)
  BY <1>3, <1>5, LenProperties
<1> HIDE DEF put
<1>7. \A i \in Nat \ {0} : Cell(put, i) = IF i > k /\ i <= k + n THEN new[i - k] ELSE Cell(cs, i)
  <2>1. SUFFICES ASSUME NEW i \in Nat \ {0}
                 PROVE  Cell(put, i) = IF i > k /\ i <= k + n THEN new[i - k] ELSE Cell(cs, i)
    OBVIOUS
  <2>2. CASE i <= k
    <3>1. i \in 1 .. k /\ i \in 1 .. Len(cs) /\ i \in 1 .. k + n /\ i \in 1 .. k + n + Len(t)
      BY <1>1, <1>6, <2>2
    <3>2. put[i] = cs[i]
      BY <1>2, <1>4, <1>5, <2>2, <3>1
    <3>3. QED
      BY <1>1, <1>5, <1>6, <2>2, <3>1, <3>2 DEF Cell
  <2>3. CASE i > k /\ i <= k + n
    <3>1. i \in 1 .. k + n /\ i \in 1 .. k + n + Len(t)
      BY <1>1, <1>6, <2>3
    <3>2. put[i] = new[i - k]
      <4>1. put[i] = (a \o new)[i]
        BY <1>5, <2>3, <3>1
      <4>2. ~(i <= k)
        BY <1>1, <2>3
      <4>3. (a \o new)[i] = new[i - k]
        BY <1>4, <3>1, <4>2
      <4>4. QED
        BY <4>1, <4>3
    <3>3. QED
      BY <1>1, <1>5, <1>6, <2>3, <3>1, <3>2 DEF Cell
  <2>4. CASE i > k + n /\ i <= Len(cs)
    <3>1. /\ i \in 1 .. Len(cs) /\ i \in 1 .. k + n + Len(t)
          /\ i - (k + n) \in 1 .. Len(cs) - (k + n) /\ ~(i <= k + n)
      <4>1. k \in Nat /\ n \in Nat /\ Len(cs) \in Nat /\ k + n + 1 <= Len(cs)
        BY <1>1, <2>4
      <4>2. Len(t) = Len(cs) - (k + n)
        BY ONLY <1>3, <4>1
      <4>3. QED
        BY ONLY <2>4, <4>1, <4>2, i \in Nat \ {0}
    <3>2. put[i] = t[i - (k + n)]
      BY ONLY <1>5, <3>1
    <3>3. t[i - (k + n)] = cs[k + n + (i - (k + n))]
      BY <1>3, <3>1
    <3>4. k + n + (i - (k + n)) = i
      BY <1>1
    <3>5. QED
      BY <1>1, <1>5, <1>6, <2>4, <3>1, <3>2, <3>3, <3>4 DEF Cell
  <2>5. CASE i > k + n /\ i > Len(cs)
    <3>0. i > k + n + Len(t)
      <4>1. CASE k + n + 1 <= Len(cs)
        BY <1>1, <1>3, <2>5, <4>1
      <4>2. CASE ~(k + n + 1 <= Len(cs))
        BY <1>1, <1>3, <2>5, <4>2
      <4>3. QED
        BY <4>1, <4>2
    <3>1. i \notin 1 .. Len(cs) /\ i \notin 1 .. k + n + Len(t)
      BY <1>1, <1>6, <2>5, <3>0
    <3>2. QED
      BY <1>1, <1>5, <1>6, <2>5, <3>1 DEF Cell
  <2>6. QED
    BY <1>1, <2>2, <2>3, <2>4, <2>5
<1>8. Put(scr, new) = [column |-> k + n, cells |-> put]
  BY DEF Put, put, a, t, k, n, cs
<1>9. Len(put) >= Len(cs) /\ Len(put) >= k + n
  BY <1>1, <1>3, <1>5
<1>10. QED
  BY <1>1, <1>5, <1>7, <1>8, <1>9 DEF Screen, k, n, cs
-----------------------------------------------------------------------------
(* The slots of the ring.                                                  *)

LEMMA DivMod ==
  ASSUME NEW a \in Nat, NEW m \in Nat \ {0}
  PROVE  \E q \in Nat : a = m * q + (a % m) /\ a % m \in 0 .. m - 1
<1>1. a % m \in 0 .. m - 1
  OBVIOUS
<1>2. a \div m \in Int /\ a = m * (a \div m) + (a % m)
  OBVIOUS
<1>3. a \div m >= 0
  <2>1. SUFFICES ASSUME a \div m <= -1 PROVE FALSE
    BY <1>2
  <2>2. m * (a \div m) <= -m
    BY <1>2, <2>1
  <2>3. QED
    BY <1>1, <1>2, <2>2
<1>4. a \div m \in Nat
  BY <1>2, <1>3
<1>5. QED
  BY <1>1, <1>2, <1>4, Zenon

LEMMA SlotOfSmall ==
  ASSUME NEW a \in Nat, NEW m \in Nat \ {0}
  PROVE  /\ a % m \in 0 .. m - 1 /\ a % m <= a
         /\ a < m => a % m = a
<1>1. PICK q \in Nat : a = m * q + (a % m) /\ a % m \in 0 .. m - 1
  BY DivMod
<1>2. m * q >= 0
  BY <1>1
<1>3. CASE q = 0
  BY <1>1, <1>3
<1>4. CASE q >= 1
  <2>1. m * q >= m
    BY <1>4
  <2>2. QED
    BY <1>1, <2>1
<1>5. QED
  BY <1>1, <1>3, <1>4

LEMMA SlotsDiffer ==
  ASSUME NEW a \in Nat, NEW b \in Nat, NEW m \in Nat \ {0}, a < b, b - a < m
  PROVE  a % m # b % m
<1>1. PICK p \in Nat : a = m * p + (a % m)
  BY DivMod
<1>2. PICK q \in Nat : b = m * q + (b % m)
  BY DivMod
<1>3. SUFFICES ASSUME a % m = b % m PROVE FALSE
  OBVIOUS
<1>4. b - a = m * (q - p)
  BY <1>1, <1>2, <1>3
<1>5. q - p >= 1
  BY <1>4
<1>6. m * (q - p) >= m
  BY <1>5
<1>7. QED
  BY <1>4, <1>6
-----------------------------------------------------------------------------
(* The history.                                                            *)

HistoryInv ==
  /\ history \in [0 .. history_size - 1 -> Line \cup {None}]
  /\ entered \in Seq(Line)
  /\ history_count = Len(entered) /\ history_index \in 0 .. history_count
  /\ RingKeepsLast

LineInv ==
  /\ {reading, alive, flag, recalled, stale} \subseteq BOOLEAN
  /\ {buffer, ghost, saved_buffer, typed} \subseteq Line
  /\ cursor \in 0 .. Len(buffer)
  /\ ghost # <<>> => cursor = Len(buffer)

Typing    == \E c \in Keys : Type(c)
Keystroke == Typing \/ Backspace \/ Interrupt \/ NoMore \/ Left \/ Right \/ Tab

(* A line goes into the ring.                                              *)
LEMMA RingStep ==
  ASSUME HistoryInv, buffer \in Line,
         history' = [history EXCEPT ![Slot] = buffer],
         history_count' = history_count + 1,
         entered' = Append(entered, buffer),
         history_index' = history_count'
  PROVE  HistoryInv'
<1>1. /\ entered \in Seq(Line) /\ history_count = Len(entered) /\ history_count \in Nat
      /\ history \in [0 .. history_size - 1 -> Line \cup {None}] /\ history_size \in Nat \ {0}
  BY Parameters, LenProperties DEF HistoryInv
<1>2. /\ entered' \in Seq(Line) /\ Len(entered') = history_count + 1
      /\ entered'[history_count + 1] = buffer
      /\ \A k \in 1 .. history_count : entered'[k] = entered[k]
  BY <1>1, AppendProperties
<1>3. /\ Slot \in 0 .. history_size - 1 /\ Slot <= history_count
      /\ history_count < history_size => Slot = history_count
  BY <1>1, SlotOfSmall DEF Slot
<1>4. /\ history' \in [0 .. history_size - 1 -> Line \cup {None}]
      /\ \A i \in 0 .. history_size - 1 : history'[i] = IF i = Slot THEN buffer ELSE history[i]
  BY <1>1, <1>3
<1>5. ASSUME NEW k \in 1 .. history_count', k > history_count' - history_size
      PROVE  history'[(k - 1) % history_size] = entered'[k]
  <2>0. k \in Nat /\ k - 1 \in Nat
    BY <1>1
  <2>1. k - 1 \in Nat /\ (k - 1) % history_size \in 0 .. history_size - 1
    BY <1>1, <2>0, SlotOfSmall
  <2>2. CASE k = history_count + 1
    <3>1. k - 1 = history_count
      BY <1>1, <2>2
    <3>2. QED
      BY <1>2, <1>4, <2>1, <2>2, <3>1 DEF Slot
  <2>3. CASE k # history_count + 1
    <3>1. /\ k \in 1 .. history_count /\ k > history_count - history_size
          /\ k - 1 < history_count /\ history_count - (k - 1) < history_size
      BY <1>1, <1>5, <2>3
    <3>2. (k - 1) % history_size # Slot
      BY <1>1, <2>1, <3>1, SlotsDiffer DEF Slot
    <3>3. history[(k - 1) % history_size] = entered[k]
      BY <3>1 DEF HistoryInv, RingKeepsLast
    <3>4. QED
      BY <1>2, <1>4, <2>1, <3>1, <3>2, <3>3
  <2>4. QED
    BY <2>2, <2>3
<1>6. ASSUME NEW i \in DOMAIN history'
      PROVE  history'[i] = None <=> i >= history_count'
  <2>1. i \in 0 .. history_size - 1 /\ (history[i] = None <=> i >= history_count)
    BY <1>1, <1>4 DEF HistoryInv, RingKeepsLast
  <2>2. CASE i = Slot
    <3>1. history'[i] = buffer /\ buffer # None
      BY <1>4, <2>1, <2>2, Parameters
    <3>2. QED
      BY <1>1, <1>3, <2>2, <3>1
  <2>3. CASE i # Slot
    <3>1. history'[i] = history[i]
      BY <1>4, <2>1, <2>3
    <3>2. i # history_count
      BY <1>1, <1>3, <2>1, <2>3
    <3>3. QED
      BY <1>1, <2>1, <3>1, <3>2
  <2>4. QED
    BY <2>2, <2>3
<1>7. RingKeepsLast'
  BY <1>5, <1>6 DEF RingKeepsLast
<1>8. QED
  BY <1>1, <1>2, <1>4, <1>7 DEF HistoryInv

(* What an arrow to line i of the history may do.                          *)
LEMMA RecallCases ==
  ASSUME HistoryInv, NEW i \in Nat, i < history_count, Recall(i)
  PROVE  \/ \E s \in Line : Show(s) /\ (history_count <= history_size => s = entered[i + 1])
         \/ /\ history_count > history_size
            /\ alive' = FALSE
            /\ UNCHANGED <<buffer, cursor, screen, recalled, ghosts>>
<1>1. /\ history_count \in Nat /\ history_size \in Nat \ {0}
      /\ history \in [0 .. history_size - 1 -> Line \cup {None}] /\ None \notin Line /\ Stray \subseteq Line
  BY Parameters, LenProperties DEF HistoryInv
<1>2. CASE i < history_size /\ Show(history[i])
  <2>1. i \in 0 .. history_size - 1
    BY <1>1, <1>2
  <2>2. history[i] \in Line
    <3>1. history[i] # None
      BY <1>1, <2>1 DEF HistoryInv, RingKeepsLast
    <3>2. QED
      BY <1>1, <2>1, <3>1
  <2>3. ASSUME history_count <= history_size PROVE history[i] = entered[i + 1]
    <3>1. i + 1 \in 1 .. history_count /\ i + 1 > history_count - history_size /\ (i + 1) - 1 = i
      BY <1>1, <2>3
    <3>2. i % history_size = i
      BY <1>1, <1>2, SlotOfSmall
    <3>3. history[((i + 1) - 1) % history_size] = entered[i + 1]
      BY <3>1 DEF HistoryInv, RingKeepsLast
    <3>4. QED
      BY <3>1, <3>2, <3>3
  <2>4. QED
    BY <1>2, <2>2, <2>3
<1>3. CASE i >= history_size /\ \E s \in Stray : Show(s)
  <2>1. history_count > history_size
    BY <1>1, <1>3
  <2>2. PICK s \in Stray : Show(s)
    BY <1>3
  <2>3. s \in Line /\ ~(history_count <= history_size)
    BY <1>1, <2>1
  <2>4. QED
    BY <2>2, <2>3
<1>4. CASE i >= history_size /\ alive' = FALSE /\ UNCHANGED <<buffer, cursor, screen, recalled, ghosts>>
  <2>1. history_count > history_size
    BY <1>1, <1>4
  <2>2. QED
    BY <1>4, <2>1
<1>5. QED
  BY <1>2, <1>3, <1>4 DEF Recall

(* An arrow up or down, and the line it leaves below the history.          *)
LEMMA ArrowCases ==
  ASSUME HistoryInv, Up \/ Down
  PROVE  /\ history_index' \in 0 .. history_count
         /\ UNCHANGED <<ring, typed, flag>> /\ alive /\ reading'= FALSE
         /\ \/ /\ Up /\ history_index' = history_index - 1 /\ history_index' < history_count
               /\ saved_buffer' = Saved
            \/ Down /\ history_index' = history_index + 1 /\ saved_buffer' = saved_buffer
         /\ \/ history_index' = history_count /\ Show(saved_buffer) /\ Down
            \/ /\ history_index' < history_count
               /\ \E s \in Line : Show(s) /\ (history_count <= history_size => s = entered[history_index' + 1])
            \/ /\ history_index' < history_count
               /\ history_count > history_size
               /\ alive' = FALSE
               /\ UNCHANGED <<buffer, cursor, screen, recalled, ghosts>>
<1>1. history_count \in Nat /\ history_index \in 0 .. history_count
  BY LenProperties DEF HistoryInv
<1>2. CASE Up
  <2>1. history_index' \in Nat /\ history_index' < history_count /\ history_index' = history_index - 1
    BY <1>1, <1>2 DEF Up
  <2>2. Recall(history_index') /\ saved_buffer' = Saved /\ Arrow
    BY <1>2 DEF Up
  <2>3. UNCHANGED <<ring, typed, flag>> /\ alive /\ reading' = FALSE
    BY <2>2 DEF Arrow
  <2>4. \/ \E s \in Line : Show(s) /\ (history_count <= history_size => s = entered[history_index' + 1])
        \/ /\ history_count > history_size
           /\ alive' = FALSE
           /\ UNCHANGED <<buffer, cursor, screen, recalled, ghosts>>
    BY <2>1, <2>2, RecallCases
  <2>5. history_index' \in 0 .. history_count
    BY <1>1, <2>1
  <2>6. QED
    BY <1>2, <2>1, <2>2, <2>3, <2>4, <2>5
<1>3. CASE Down
  <2>1. /\ history_index' = history_index + 1 /\ history_index' \in Nat /\ history_index' <= history_count
        /\ history_index' # history_count => history_index' < history_count
    BY <1>1, <1>3 DEF Down
  <2>2. /\ history_index' = history_count => Show(saved_buffer)
        /\ history_index' # history_count => Recall(history_index')
        /\ saved_buffer' = saved_buffer /\ Arrow
    BY <1>3 DEF Down
  <2>3. UNCHANGED <<ring, typed, flag>> /\ alive /\ reading' = FALSE
    BY <2>2 DEF Arrow
  <2>4. history_index' # history_count =>
        \/ \E s \in Line : Show(s) /\ (history_count <= history_size => s = entered[history_index' + 1])
        \/ /\ history_count > history_size
           /\ alive' = FALSE
           /\ UNCHANGED <<buffer, cursor, screen, recalled, ghosts>>
    BY <2>1, <2>2, RecallCases
  <2>5. history_index' \in 0 .. history_count
    BY <1>1, <2>1
  <2>6. QED
    BY <1>3, <2>1, <2>2, <2>3, <2>4, <2>5
<1>4. QED
  BY <1>2, <1>3

LEMMA NextHistory == HistoryInv /\ LineInv /\ [Next]_vars => HistoryInv'
<1>1. SUFFICES ASSUME HistoryInv, LineInv, [Next]_vars PROVE HistoryInv'
  OBVIOUS
<1>2. ASSUME UNCHANGED <<ring, history_index>> PROVE HistoryInv'
  BY <1>1, <1>2 DEF HistoryInv, RingKeepsLast, ring
<1>3. CASE Up \/ Down
  <2>1. UNCHANGED ring /\ history_index' \in 0 .. history_count
    BY <1>1, <1>3, ArrowCases
  <2>2. QED
    BY <1>1, <2>1 DEF HistoryInv, RingKeepsLast, ring
<1>4. CASE Enter
  <2>1. CASE buffer = <<>>
    <3>1. UNCHANGED ring /\ history_index' = history_count'
      BY <1>4, <2>1 DEF Enter
    <3>2. history_count \in Nat /\ history_count' = history_count
      BY <1>1, <3>1, LenProperties DEF HistoryInv, ring
    <3>3. QED
      BY <1>1, <3>1, <3>2 DEF HistoryInv, RingKeepsLast, ring
  <2>2. CASE buffer # <<>>
    <3>1. /\ history' = [history EXCEPT ![Slot] = buffer] /\ history_count' = history_count + 1
          /\ entered' = Append(entered, buffer) /\ history_index' = history_count'
      BY <1>4, <2>2 DEF Enter
    <3>2. QED
      BY <1>1, <3>1, RingStep DEF LineInv
  <2>3. QED
    BY <2>1, <2>2
<1>5. CASE UNCHANGED vars
  BY <1>2, <1>5 DEF vars
<1>6. CASE JobDone \/ Top
  BY <1>2, <1>6 DEF JobDone, Top
<1>7. CASE Keystroke
  BY <1>2, <1>7 DEF Keystroke, Typing, Type, Backspace, Interrupt, NoMore, Left, Right, Tab, Edit, Unedited
<1>8. QED
  BY <1>1, <1>3, <1>4, <1>5, <1>6, <1>7 DEF Next, Keystroke, Typing
-----------------------------------------------------------------------------
(* The line.                                                               *)

(* The new ghost belongs to the line.                                      *)
LEMMA SuggestLine ==
  ASSUME NEW s \in Line, NEW scr, Suggest(s, scr)
  PROVE  ghost' \in Line /\ stale' = FALSE
<1>1. <<>> \in Line
  BY DEF Line
<1>2. QED
  BY <1>1, SuggestionsAreLines DEF Suggest

(* What an edit leaves of the invariant to be shown.                       *)
LEMMA EditLine ==
  ASSUME LineInv, NEW s \in Line, Edit(s), Key
  PROVE  /\ buffer' = s /\ recalled' = FALSE
         /\ {buffer', saved_buffer', typed'} \subseteq Line
         /\ {reading', alive', flag', recalled'} \subseteq BOOLEAN
BY DEF LineInv, Edit, Key

LEMMA UneditedLine ==
  ASSUME LineInv, Unedited, Key
  PROVE  /\ UNCHANGED buffer
         /\ {buffer', saved_buffer', typed'} \subseteq Line
         /\ {reading', alive', flag', recalled'} \subseteq BOOLEAN
BY DEF LineInv, Unedited, Key

LEMMA GhostHeadTail ==
  ASSUME NEW g \in Line, g # <<>>
  PROVE  /\ Head(g) \in Chars /\ Tail(g) \in Line /\ Len(g) \in Nat \ {0}
         /\ Len(Tail(g)) = Len(g) - 1 /\ Head(g) = g[1]
         /\ \A i \in 1 .. Len(g) - 1 : Tail(g)[i] = g[i + 1]
<1>1. Len(g) \in Nat \ {0}
  BY LenProperties, EmptySeq DEF Line
<1>2. QED
  BY <1>1, HeadTailProperties DEF Line

LEMMA TypeLine ==
  ASSUME HistoryInv, LineInv, NEW c \in Keys, Type(c)
  PROVE  /\ LineInv' /\ buffer' = InsertAt(buffer, cursor + 1, c)
         /\ cursor' = cursor + 1 /\ Len(buffer') = Len(buffer) + 1
<1>1. buffer \in Line /\ cursor \in 0 .. Len(buffer) /\ Len(buffer) \in Nat /\ c \in Chars
  BY Parameters, LenProperties DEF LineInv, Line
<1> DEFINE s == InsertAt(buffer, cursor + 1, c)
<1>2. s \in Line /\ Len(s) = Len(buffer) + 1
  BY <1>1, InsertIsLine
<1>3. Edit(s) /\ Key /\ cursor' = cursor + 1
  BY DEF Type
<1> HIDE DEF s
<1>4. /\ buffer' = s /\ recalled' = FALSE
      /\ {buffer', saved_buffer', typed'} \subseteq Line
      /\ {reading', alive', flag', recalled'} \subseteq BOOLEAN
  BY <1>2, <1>3, EditLine
<1>5. cursor' \in 0 .. Len(buffer')
  BY <1>1, <1>2, <1>3, <1>4
<1>6. ghost' \in Line /\ stale' = FALSE /\ (ghost' # <<>> => cursor' = Len(buffer'))
  <2>1. CASE ghost' = <<>> /\ stale' = FALSE
    BY <2>1 DEF Line
  <2>2. CASE cursor = Len(buffer) /\ Suggest(buffer', Put(WithoutGhost(screen), Plain(<<c>>)))
    BY <1>1, <1>2, <1>3, <1>4, <2>2, SuggestLine
  <2>3. QED
    BY <2>1, <2>2 DEF Type
<1>7. LineInv'
  BY <1>4, <1>5, <1>6 DEF LineInv
<1>8. QED
  BY <1>2, <1>3, <1>4, <1>7 DEF s

LEMMA BackspaceLine ==
  ASSUME HistoryInv, LineInv, Backspace
  PROVE  LineInv'
<1>0. <<>> \in Line
  BY DEF Line
<1>1. buffer \in Line /\ cursor \in 0 .. Len(buffer) /\ Len(buffer) \in Nat /\ Key
  BY LenProperties DEF LineInv, Line, Backspace
<1>2. CASE cursor = 0 /\ ghost' = NoGhost /\ stale' = FALSE /\ UNCHANGED cursor /\ Unedited
  <2>1. ghost' = <<>> /\ ghost' \in Line /\ stale' \in BOOLEAN
    BY <1>0, <1>2 DEF NoGhost
  <2>2. QED
    BY <1>1, <1>2, <2>1, UneditedLine DEF LineInv
<1>3. CASE cursor > 0 /\ cursor' = cursor - 1 /\ Edit(RemoveAt(buffer, cursor))
  <2> DEFINE s == RemoveAt(buffer, cursor)
  <2>1. s \in Line /\ Len(s) = Len(buffer) - 1
    BY <1>1, <1>3, RemoveIsLine
  <2>2. /\ buffer' = s
        /\ {buffer', saved_buffer', typed'} \subseteq Line
        /\ {reading', alive', flag', recalled'} \subseteq BOOLEAN
    BY <1>1, <1>3, <2>1, EditLine
  <2> HIDE DEF s
  <2>3. cursor' \in 0 .. Len(buffer')
    BY <1>1, <1>3, <2>1, <2>2
  <2>4. \/ cursor' = Len(buffer') /\ Suggest(buffer', Back(Repaint(buffer'), Len(buffer') - cursor'))
        \/ ghost' = NoGhost /\ stale' = FALSE
    BY <1>3 DEF Backspace
  <2>5. ghost' \in Line /\ stale' \in BOOLEAN /\ (ghost' # <<>> => cursor' = Len(buffer'))
    <3>1. CASE cursor' = Len(buffer') /\ Suggest(buffer', Back(Repaint(buffer'), Len(buffer') - cursor'))
      BY <2>1, <2>2, <3>1, SuggestLine
    <3>2. CASE ghost' = NoGhost /\ stale' = FALSE
      BY <1>0, <3>2 DEF NoGhost
    <3>3. QED
      BY <2>4, <3>1, <3>2
  <2>6. QED
    BY <2>2, <2>3, <2>5 DEF LineInv
<1>4. QED
  BY <1>2, <1>3 DEF Backspace

LEMMA MovesLine ==
  ASSUME HistoryInv, LineInv, Left \/ Right \/ Tab
  PROVE  LineInv'
<1>1. /\ buffer \in Line /\ ghost \in Line /\ cursor \in 0 .. Len(buffer) /\ Len(buffer) \in Nat
      /\ ghost # <<>> => cursor = Len(buffer)
      /\ stale \in BOOLEAN /\ <<>> \in Line
  BY LenProperties DEF LineInv, Line
<1>2. CASE Left
  <2>1. cursor' \in 0 .. Len(buffer)
    BY <1>1, <1>2 DEF Left, OneLeft
  <2>2. ghost' = <<>> /\ stale' = FALSE /\ Unedited /\ Key
    BY <1>2 DEF Left
  <2>3. QED
    BY <1>1, <2>1, <2>2, UneditedLine DEF LineInv
<1>3. CASE Right
  <2>1. CASE ghost = <<>>
    <3>1. Unedited /\ Key /\ UNCHANGED <<ghost, stale>> /\ cursor' \in 0 .. Len(buffer)
      BY <1>1, <1>3, <2>1 DEF Right, ghosts
    <3>2. QED
      BY <1>1, <2>1, <3>1, UneditedLine DEF LineInv
  <2>2. CASE ghost # <<>>
    <3> DEFINE s == Append(buffer, Head(ghost))
    <3>1. s \in Line /\ Len(s) = Len(buffer) + 1
      BY <1>1, <2>2, GhostHeadTail, AppendProperties DEF Line
    <3>2. Edit(s) /\ Key /\ cursor' = cursor + 1 /\ ghost' = Tail(ghost) /\ UNCHANGED stale
      BY <1>3, <2>2 DEF Right
    <3> HIDE DEF s
    <3>3. /\ buffer' = s
          /\ {buffer', saved_buffer', typed'} \subseteq Line
          /\ {reading', alive', flag', recalled'} \subseteq BOOLEAN
      BY <3>1, <3>2, EditLine
    <3>4. ghost' \in Line
      BY <1>1, <2>2, <3>2, GhostHeadTail
    <3>5. cursor' = Len(buffer') /\ cursor' \in 0 .. Len(buffer')
      BY <1>1, <2>2, <3>1, <3>2, <3>3
    <3>6. QED
      BY <1>1, <3>2, <3>3, <3>4, <3>5 DEF LineInv
  <2>3. QED
    BY <2>1, <2>2
<1>4. CASE Tab
  <2>1. CASE ghost = <<>>
    <3>1. Unedited /\ Key /\ UNCHANGED <<ghost, stale, cursor>>
      BY <1>4, <2>1 DEF Tab, ghosts
    <3>2. QED
      BY <1>1, <2>1, <3>1, UneditedLine DEF LineInv
  <2>2. CASE ghost # <<>>
    <3> DEFINE s == buffer \o ghost
    <3>1. s \in Line
      BY <1>1, ConcatProperties DEF Line
    <3>2. Edit(s) /\ Key /\ cursor' = Len(buffer') /\ ghost' = <<>> /\ stale' = FALSE
      BY <1>4, <2>2 DEF Tab
    <3> HIDE DEF s
    <3>3. /\ buffer' = s
          /\ {buffer', saved_buffer', typed'} \subseteq Line
          /\ {reading', alive', flag', recalled'} \subseteq BOOLEAN
      BY <3>1, <3>2, EditLine
    <3>4. cursor' \in 0 .. Len(buffer')
      BY <3>1, <3>2, <3>3, LenProperties DEF Line
    <3>5. QED
      BY <1>1, <3>2, <3>3, <3>4 DEF LineInv
  <2>3. QED
    BY <2>1, <2>2
<1>5. QED
  BY <1>2, <1>3, <1>4

LEMMA ArrowLine ==
  ASSUME HistoryInv, LineInv, Up \/ Down
  PROVE  LineInv'
<1>1. /\ {buffer, saved_buffer, typed, ghost} \subseteq Line /\ cursor \in 0 .. Len(buffer)
      /\ {alive, flag, recalled, stale} \subseteq BOOLEAN
      /\ ghost # <<>> => cursor = Len(buffer)
  BY DEF LineInv
<1>2. UNCHANGED <<typed, flag>> /\ reading' = FALSE
  BY ArrowCases
<1>3. saved_buffer' \in Line
  BY <1>1, ArrowCases DEF Saved
<1>4. ASSUME NEW s \in Line, Show(s)
      PROVE  /\ buffer' \in Line /\ cursor' = Len(buffer') /\ cursor' \in 0 .. Len(buffer')
             /\ ghost' \in Line /\ {alive', recalled', stale'} \subseteq BOOLEAN
  BY <1>1, <1>4, LenProperties DEF Show, Line
<1>5. CASE \E s \in Line : Show(s)
  BY <1>2, <1>3, <1>4, <1>5, <1>1 DEF LineInv
<1>6. CASE alive' = FALSE /\ UNCHANGED <<buffer, cursor, screen, recalled, ghosts>>
  BY <1>1, <1>2, <1>3, <1>6 DEF LineInv, ghosts
<1>7. (\E s \in Line : Show(s)) \/ (alive' = FALSE /\ UNCHANGED <<buffer, cursor, screen, recalled, ghosts>>)
  BY <1>1, ArrowCases
<1>8. QED
  BY <1>5, <1>6, <1>7

LEMMA NextLine == HistoryInv /\ LineInv /\ [Next]_vars => LineInv'
<1>1. SUFFICES ASSUME HistoryInv, LineInv, [Next]_vars PROVE LineInv'
  OBVIOUS
<1>2. <<>> \in Line /\ Len(<<>>) = 0
  BY DEF Line
<1>3. CASE JobDone \/ Top
  <2>1. /\ UNCHANGED <<alive, buffer, cursor, saved_buffer, typed, recalled, ghost, stale>>
        /\ {reading', flag'} \subseteq BOOLEAN
    BY <1>1, <1>3 DEF JobDone, Top, ghosts, LineInv
  <2>2. QED
    BY <1>1, <2>1 DEF LineInv
<1>4. CASE Typing
  BY <1>1, <1>4, TypeLine DEF Typing
<1>5. CASE Interrupt
  <2>1. Edit(<<>>) /\ Key /\ cursor' = 0 /\ ghost' = <<>> /\ stale' = FALSE
    BY <1>5 DEF Interrupt
  <2>2. /\ buffer' = <<>>
        /\ {buffer', saved_buffer', typed'} \subseteq Line
        /\ {reading', alive', flag', recalled'} \subseteq BOOLEAN
    BY <1>1, <1>2, <2>1, EditLine
  <2>3. cursor' \in 0 .. Len(buffer')
    BY <1>2, <2>1, <2>2
  <2>4. QED
    BY <1>2, <2>1, <2>2, <2>3 DEF LineInv
<1>6. CASE NoMore
  <2>1. Unedited /\ Key /\ UNCHANGED <<cursor, ghost, stale>>
    BY <1>6 DEF NoMore, ghosts
  <2>2. QED
    BY <1>1, <2>1, UneditedLine DEF LineInv
<1>7. CASE Enter
  <2>1. /\ buffer' = <<>> /\ cursor' = 0 /\ ghost' = <<>> /\ saved_buffer' = <<>>
        /\ typed' = <<>> /\ recalled' = FALSE /\ stale' = FALSE
        /\ reading' = FALSE /\ UNCHANGED <<alive, flag>>
    BY <1>7 DEF Enter, Key
  <2>2. {buffer', ghost', saved_buffer', typed'} \subseteq Line
    BY <1>2, <2>1
  <2>3. {reading', alive', flag', recalled', stale'} \subseteq BOOLEAN
    BY <1>1, <2>1 DEF LineInv
  <2>4. cursor' \in 0 .. Len(buffer')
    BY <1>2, <2>1
  <2>5. QED
    BY <2>1, <2>2, <2>3, <2>4 DEF LineInv
<1>8. CASE UNCHANGED vars
  BY <1>1, <1>8 DEF vars, ghosts, LineInv
<1>9. QED
  BY <1>1, <1>3, <1>4, <1>5, <1>6, <1>7, <1>8, BackspaceLine, MovesLine, ArrowLine DEF Next, Typing
-----------------------------------------------------------------------------
(* What the arrows show.                                                   *)

BelowInv ==
  /\ history_index = history_count => buffer = typed
  /\ history_index < history_count => saved_buffer = typed
  /\ ArrowsRecall

LEMMA NextBelow == HistoryInv /\ LineInv /\ BelowInv /\ [Next]_vars => BelowInv'
<1>1. SUFFICES ASSUME HistoryInv, LineInv, BelowInv, [Next]_vars PROVE BelowInv'
  OBVIOUS
<1>2. /\ history_count \in Nat /\ history_index \in 0 .. history_count
      /\ entered \in Seq(Line) /\ history_count = Len(entered) /\ typed \in Line
      /\ history_size \in Nat
  BY <1>1, LenProperties, Parameters DEF HistoryInv, LineInv
<1>3. ASSUME UNCHANGED <<buffer, typed, recalled, saved_buffer, history_index, ring>> PROVE BelowInv'
  BY <1>1, <1>3 DEF BelowInv, ArrowsRecall, ring
<1>4. ASSUME NEW s, Edit(s) PROVE BelowInv'
  <2>1. /\ buffer' = s /\ typed' = (IF history_index = history_count THEN s ELSE typed)
        /\ recalled' = FALSE /\ UNCHANGED <<saved_buffer, history_index, history_count>>
    BY <1>4 DEF Edit, ring
  <2>2. ArrowsRecall'
    BY <2>1 DEF ArrowsRecall
  <2>3. QED
    BY <1>1, <1>2, <2>1, <2>2 DEF BelowInv
<1>5. CASE Up \/ Down
  <2>1. /\ history_index' \in 0 .. history_count
        /\ UNCHANGED <<history_count, entered, typed>>
    BY <1>1, <1>5, ArrowCases DEF ring
  <2>2. ASSUME history_index' < history_count PROVE saved_buffer' = typed'
    <3>1. CASE Up
      <4>1. saved_buffer' = Saved
        BY <3>1 DEF Up
      <4>2. Saved = typed
        BY <1>1, <1>2 DEF Saved, BelowInv
      <4>3. QED
        BY <2>1, <4>1, <4>2
    <3>2. CASE Down
      <4>1. history_index < history_count /\ saved_buffer' = saved_buffer
        BY <1>2, <3>2 DEF Down
      <4>2. QED
        BY <1>1, <2>1, <4>1 DEF BelowInv
    <3>3. QED
      BY <1>5, <3>1, <3>2
  <2>3. CASE history_index' = history_count /\ Show(saved_buffer) /\ Down
    <3>1. saved_buffer = typed /\ buffer' = typed
      BY <1>1, <1>2, <2>3 DEF Down, BelowInv, Show
    <3>2. Append(entered, typed)[history_index' + 1] = typed
      BY <1>2, <2>3, AppendProperties
    <3>3. ArrowsRecall'
      BY <2>1, <3>1, <3>2 DEF ArrowsRecall
    <3>4. QED
      BY <1>2, <2>1, <2>3, <3>1, <3>3 DEF BelowInv
  <2>4. CASE /\ history_index' < history_count
             /\ \E s \in Line : Show(s) /\ (history_count <= history_size => s = entered[history_index' + 1])
    <3>1. PICK s \in Line : Show(s) /\ (history_count <= history_size => s = entered[history_index' + 1])
      BY <2>4
    <3>2. history_index' + 1 \in 1 .. Len(entered) /\ history_index' # history_count
      <4>1. history_index' < history_count
        BY <2>4
      <4>2. history_index' \in Nat /\ history_count \in Nat
        BY <1>2, <2>1
      <4>3. \A i, n \in Nat : i < n => i + 1 \in 1 .. n /\ i # n
        OBVIOUS
      <4>4. QED
        BY <1>2, <4>1, <4>2, <4>3
    <3>3. Append(entered, typed)[history_index' + 1] = entered[history_index' + 1]
      BY <1>2, <3>2, AppendProperties
    <3>4. ArrowsRecall'
      BY <2>1, <3>1, <3>3 DEF ArrowsRecall, Show
    <3>5. QED
      BY <2>1, <2>2, <2>4, <3>2, <3>4 DEF BelowInv
  <2>5. CASE /\ history_index' < history_count /\ history_count > history_size
    <3>1. ArrowsRecall'
      BY <1>2, <2>1, <2>5 DEF ArrowsRecall
    <3>2. history_index' # history_count
      BY <1>2, <2>1, <2>5
    <3>3. QED
      BY <2>1, <2>2, <2>5, <3>1, <3>2 DEF BelowInv
  <2>6. QED
    BY <1>1, <1>5, <2>3, <2>4, <2>5, ArrowCases
<1>6. CASE Enter
  <2>1. /\ history_index' = history_count' /\ buffer' = <<>> /\ typed' = <<>> /\ recalled' = FALSE
    BY <1>6 DEF Enter
  <2>2. ~(history_index' < history_count')
    <3>1. history_count' \in Nat
      BY <1>1, <1>2, NextHistory, LenProperties DEF HistoryInv
    <3>2. QED
      BY <2>1, <3>1
  <2>3. QED
    BY <2>1, <2>2 DEF BelowInv, ArrowsRecall
<1>7. CASE JobDone \/ Top \/ UNCHANGED vars
  BY <1>3, <1>7 DEF JobDone, Top, vars
<1>8. CASE Keystroke
  BY <1>3, <1>4, <1>8 DEF Keystroke, Typing, Type, Backspace, Interrupt, NoMore, Left, Right, Tab, Unedited
<1>9. QED
  BY <1>1, <1>5, <1>6, <1>7, <1>8 DEF Next, Keystroke, Typing
-----------------------------------------------------------------------------
(* What the terminal shows.                                                *)

LEMMA EmptyLine == <<>> \in Line /\ Len(<<>>) = 0
BY DEF Line

LEMMA RepaintShows ==
  ASSUME NEW s \in Line
  PROVE  /\ Repaint(s) \in Screen /\ Repaint(s).column = Len(s)
         /\ Shows(Repaint(s).cells, s, <<>>)
<1> DEFINE p == Plain(s)
<1>1. /\ p \in Seq(Chars \X BOOLEAN) /\ Len(p) = Len(s) /\ Len(s) \in Nat
      /\ DOMAIN p = 1 .. Len(s) /\ \A i \in 1 .. Len(s) : p[i] = <<s[i], FALSE>>
  BY PlainAndDim, LenProperties DEF Line
<1>2. Repaint(s) = [column |-> Len(s), cells |-> p]
  BY DEF Repaint
<1> HIDE DEF p
<1>3. ASSUME NEW i \in Nat \ {0} PROVE Cell(p, i) = LineCell(s, <<>>, i)
  <2>1. i - Len(s) \notin 1 .. Len(<<>>)
    BY <1>1, EmptyLine
  <2>2. QED
    BY <1>1, <2>1 DEF Cell, LineCell
<1>4. QED
  BY <1>1, <1>2, <1>3 DEF Screen, Shows

LEMMA BackKeeps ==
  ASSUME NEW scr \in Screen, NEW n \in Int, scr.column - n >= 0
  PROVE  /\ Back(scr, n) \in Screen /\ Back(scr, n).cells = scr.cells
         /\ Back(scr, n).column = scr.column - n
BY DEF Back, Screen

LEMMA SuggestingShows ==
  ASSUME NEW scr \in Screen, NEW s \in Line, NEW g \in Line,
         scr.column = Len(s), Shows(scr.cells, s, <<>>)
  PROVE  /\ Suggesting(scr, g) \in Screen /\ Suggesting(scr, g).column = Len(s)
         /\ Shows(Suggesting(scr, g).cells, s, g)
<1> DEFINE put == Put(scr, Dim(g))
<1>1. Len(s) \in Nat /\ Len(g) \in Nat
  BY LenProperties DEF Line
<1>2. /\ Dim(g) \in Seq(Chars \X BOOLEAN) /\ Len(Dim(g)) = Len(g)
      /\ \A i \in 1 .. Len(g) : Dim(g)[i] = <<g[i], TRUE>>
  BY PlainAndDim
<1>3. Len(scr.cells) >= Len(s) /\ Len(scr.cells) \in Nat
  BY LenProperties DEF Shows
<1>4. /\ put \in Screen /\ put.column = Len(s) + Len(g) /\ Len(put.cells) >= Len(scr.cells)
      /\ \A i \in Nat \ {0} : Cell(put.cells, i) = IF i > Len(s) /\ i <= Len(s) + Len(g)
                                                   THEN Dim(g)[i - Len(s)] ELSE Cell(scr.cells, i)
  <2>1. scr.column <= Len(scr.cells)
    BY <1>3
  <2> DEFINE new == Dim(g)
  <2>2. new \in Seq(Chars \X BOOLEAN) /\ Len(new) = Len(g)
    BY <1>2
  <2> HIDE DEF new
  <2>3. /\ Put(scr, new) \in Screen /\ Put(scr, new).column = scr.column + Len(new)
        /\ Len(Put(scr, new).cells) >= Len(scr.cells)
        /\ Len(Put(scr, new).cells) >= scr.column + Len(new)
        /\ \A i \in Nat \ {0} : Cell(Put(scr, new).cells, i) =
                                  IF i > scr.column /\ i <= scr.column + Len(new)
                                  THEN new[i - scr.column] ELSE Cell(scr.cells, i)
    BY <2>1, <2>2, PutCells
  <2>4. QED
    BY <2>2, <2>3 DEF new
<1>5. Suggesting(scr, g) = Back(put, Len(g))
  BY DEF Suggesting
<1> HIDE DEF put
<1>6. /\ Suggesting(scr, g) \in Screen /\ Suggesting(scr, g).column = Len(s)
      /\ Suggesting(scr, g).cells = put.cells
  <2>1. put.column - Len(g) >= 0 /\ put.column - Len(g) = Len(s) /\ Len(g) \in Int
    BY <1>1, <1>4
  <2>2. QED
    BY <1>4, <1>5, <2>1, BackKeeps
<1>7. ASSUME NEW i \in Nat \ {0} PROVE Cell(put.cells, i) = LineCell(s, g, i)
  <2>1. Cell(scr.cells, i) = LineCell(s, <<>>, i)
    BY DEF Shows
  <2>2. CASE i > Len(s) /\ i <= Len(s) + Len(g)
    <3>1. i - Len(s) \in 1 .. Len(g) /\ i \notin 1 .. Len(s)
      BY <1>1, <2>2
    <3>2. Cell(put.cells, i) = Dim(g)[i - Len(s)]
      BY <1>4, <2>2
    <3>3. QED
      BY <1>2, <3>1, <3>2 DEF LineCell
  <2>3. CASE ~(i > Len(s) /\ i <= Len(s) + Len(g))
    <3>1. Cell(put.cells, i) = LineCell(s, <<>>, i)
      BY <1>4, <2>1, <2>3
    <3>2. i - Len(s) \notin 1 .. Len(g) /\ i - Len(s) \notin 1 .. Len(<<>>)
      BY <1>1, <2>3, EmptyLine
    <3>3. QED
      BY <3>1, <3>2 DEF LineCell
  <2>4. QED
    BY <2>2, <2>3
<1>8. put.cells \in Seq(Chars \X BOOLEAN) /\ Len(put.cells) >= Len(s)
  <2>1. put.cells \in Seq(Chars \X BOOLEAN)
    BY <1>4 DEF Screen
  <2>2. Len(put.cells) \in Nat
    BY <2>1, LenProperties
  <2>3. QED
    BY <1>1, <1>3, <1>4, <2>1, <2>2
<1>9. QED
  BY <1>6, <1>7, <1>8 DEF Shows

LEMMA PrintShows ==
  ASSUME NEW scr \in Screen, NEW s \in Line, NEW c \in Chars,
         scr.column = Len(s), Shows(scr.cells, s, <<>>)
  PROVE  LET put == Put(scr, Plain(<<c>>)) IN
         put \in Screen /\ put.column = Len(s) + 1 /\ Shows(put.cells, Append(s, c), <<>>)
<1> DEFINE put == Put(scr, Plain(<<c>>))
           e   == Append(s, c)
<1>1. /\ Len(s) \in Nat /\ Len(e) = Len(s) + 1 /\ e[Len(s) + 1] = c
      /\ \A i \in 1 .. Len(s) : e[i] = s[i]
  BY LenProperties, AppendProperties DEF Line
<1>2. Plain(<<c>>) \in Seq(Chars \X BOOLEAN) /\ Len(Plain(<<c>>)) = 1 /\ Plain(<<c>>)[1] = <<c, FALSE>>
  <2>1. <<c>> \in Line /\ Len(<<c>>) = 1 /\ <<c>>[1] = c
    BY DEF Line
  <2> DEFINE w == <<c>>
  <2>2. w \in Line /\ Len(w) = 1 /\ w[1] = c
    BY <2>1
  <2> HIDE DEF w
  <2>3. /\ Plain(w) \in Seq(Chars \X BOOLEAN) /\ Len(Plain(w)) = Len(w)
        /\ \A i \in 1 .. Len(w) : Plain(w)[i] = <<w[i], FALSE>>
    BY <2>2, PlainAndDim
  <2>4. 1 \in 1 .. Len(w)
    BY <2>2
  <2>5. Plain(w)[1] = <<c, FALSE>> /\ Len(Plain(w)) = 1
    BY <2>2, <2>3, <2>4
  <2>6. QED
    BY <2>3, <2>5 DEF w
<1>3. Len(scr.cells) >= Len(s) /\ Len(scr.cells) \in Nat
  BY LenProperties DEF Shows
<1>4. /\ put \in Screen /\ put.column = Len(s) + 1 /\ Len(put.cells) >= put.column
      /\ \A i \in Nat \ {0} : Cell(put.cells, i) = IF i > Len(s) /\ i <= Len(s) + 1
                                                   THEN Plain(<<c>>)[i - Len(s)] ELSE Cell(scr.cells, i)
  <2>1. scr.column <= Len(scr.cells)
    BY <1>3
  <2> DEFINE new == Plain(<<c>>)
  <2>2. new \in Seq(Chars \X BOOLEAN) /\ Len(new) = 1
    BY <1>2
  <2> HIDE DEF new
  <2>3. /\ Put(scr, new) \in Screen /\ Put(scr, new).column = scr.column + Len(new)
        /\ Len(Put(scr, new).cells) >= Len(scr.cells)
        /\ Len(Put(scr, new).cells) >= scr.column + Len(new)
        /\ \A i \in Nat \ {0} : Cell(Put(scr, new).cells, i) =
                                  IF i > scr.column /\ i <= scr.column + Len(new)
                                  THEN new[i - scr.column] ELSE Cell(scr.cells, i)
    BY <2>1, <2>2, PutCells
  <2>4. QED
    BY <2>2, <2>3 DEF new
<1> HIDE DEF put, e
<1>5. ASSUME NEW i \in Nat \ {0} PROVE Cell(put.cells, i) = LineCell(e, <<>>, i)
  <2>1. Cell(scr.cells, i) = LineCell(s, <<>>, i)
    BY DEF Shows
  <2>2. CASE i = Len(s) + 1
    <3>1. Cell(put.cells, i) = <<c, FALSE>>
      <4>1. i - Len(s) = 1 /\ i > Len(s) /\ i <= Len(s) + 1
        BY <1>1, <2>2
      <4>2. QED
        BY <1>2, <1>4, <4>1
    <3>2. i \in 1 .. Len(e)
      BY <1>1, <2>2
    <3>3. QED
      BY <1>1, <2>2, <3>1, <3>2 DEF LineCell
  <2>3. CASE i \in 1 .. Len(s)
    <3>1. Cell(put.cells, i) = LineCell(s, <<>>, i)
      BY <1>1, <1>4, <2>1, <2>3
    <3>2. i \in 1 .. Len(e)
      BY <1>1, <2>3
    <3>3. QED
      BY <1>1, <2>3, <3>1, <3>2 DEF LineCell
  <2>4. CASE i > Len(s) + 1
    <3>1. Cell(put.cells, i) = LineCell(s, <<>>, i)
      BY <1>1, <1>4, <2>1, <2>4
    <3>2. i \notin 1 .. Len(e) /\ i \notin 1 .. Len(s)
      BY <1>1, <2>4
    <3>3. i - Len(e) \notin 1 .. Len(<<>>) /\ i - Len(s) \notin 1 .. Len(<<>>)
      BY <1>1, EmptyLine
    <3>4. QED
      BY <3>1, <3>2, <3>3 DEF LineCell
  <2>5. QED
    BY <1>1, <2>2, <2>3, <2>4
<1>6. put.cells \in Seq(Chars \X BOOLEAN) /\ Len(put.cells) >= Len(e)
  BY <1>1, <1>4 DEF Screen
<1>7. QED
  BY <1>4, <1>5, <1>6 DEF Shows, put, e

ScreenInv ==
  /\ screen \in Screen /\ screen.column = cursor
  /\ \E g \in {<<>>, ghost} : Shows(screen.cells, buffer, g)
  /\ buffer = <<>> => Shows(screen.cells, buffer, <<>>)

(* Blanks over a ghost leave nothing of it.                                *)
LEMMA EraseShows ==
  ASSUME LineInv, ScreenInv
  PROVE  /\ WithoutGhost(screen) \in Screen /\ WithoutGhost(screen).column = cursor
         /\ Shows(WithoutGhost(screen).cells, buffer, <<>>)
<1> DEFINE n    == Len(ghost)
           new  == Blanks(n)
           put  == Put(screen, new)
<1>1. /\ buffer \in Line /\ ghost \in Line /\ cursor \in 0 .. Len(buffer)
      /\ n \in Nat /\ Len(buffer) \in Nat
      /\ n > 0 => cursor = Len(buffer)
  BY LenProperties, EmptyLine DEF LineInv, Line
<1>2. PICK g \in {<<>>, ghost} : Shows(screen.cells, buffer, g)
  BY DEF ScreenInv
<1>3. /\ screen \in Screen /\ screen.column = cursor
      /\ Len(screen.cells) >= Len(buffer) /\ Len(screen.cells) \in Nat
  BY <1>2, LenProperties DEF ScreenInv, Shows
<1>4. new \in Seq(Chars \X BOOLEAN) /\ Len(new) = n /\ \A i \in 1 .. n : new[i] = Blank
  <2>1. new = [i \in 1 .. n |-> Blank]
    BY DEF Blanks
  <2>2. new \in [1 .. n -> Chars \X BOOLEAN]
    BY <2>1, BlankIsCell
  <2>3. new \in Seq(Chars \X BOOLEAN) /\ DOMAIN new = 1 .. n
    BY <1>1, <2>2
  <2>4. Len(new) = n
    BY <1>1, <2>3, LenProperties
  <2>5. QED
    BY <2>1, <2>3, <2>4
<1> HIDE DEF new
<1>5. /\ put \in Screen /\ put.column = screen.column + Len(new)
      /\ Len(put.cells) >= Len(screen.cells)
      /\ \A i \in Nat \ {0} : Cell(put.cells, i) =
                                IF i > screen.column /\ i <= screen.column + Len(new)
                                THEN new[i - screen.column] ELSE Cell(screen.cells, i)
  <2>1. screen.column <= Len(screen.cells)
    BY <1>1, <1>3
  <2>2. QED
    BY <1>3, <1>4, <2>1, PutCells
<1>6. WithoutGhost(screen) = Back(put, n)
  BY DEF WithoutGhost, new
<1> HIDE DEF put, n
<1>7. /\ WithoutGhost(screen) \in Screen /\ WithoutGhost(screen).column = cursor
      /\ WithoutGhost(screen).cells = put.cells
  <2>1. put.column - n >= 0 /\ put.column - n = cursor /\ n \in Int
    BY <1>1, <1>3, <1>4, <1>5
  <2>2. QED
    BY <1>5, <1>6, <2>1, BackKeeps
<1>8. ASSUME NEW i \in Nat \ {0} PROVE Cell(put.cells, i) = LineCell(buffer, <<>>, i)
  <2>1. Cell(screen.cells, i) = LineCell(buffer, g, i)
    BY <1>2 DEF Shows
  <2>2. i - Len(buffer) \notin 1 .. Len(<<>>)
    BY <1>1, EmptyLine
  <2>3. CASE i > cursor /\ i <= cursor + n
    <3>1. cursor = Len(buffer) /\ i - cursor \in 1 .. n /\ i \notin 1 .. Len(buffer)
      BY <1>1, <2>3
    <3>2. Cell(put.cells, i) = Blank
      BY <1>3, <1>4, <1>5, <2>3, <3>1
    <3>3. QED
      BY <2>2, <3>1, <3>2 DEF LineCell
  <2>4. CASE ~(i > cursor /\ i <= cursor + n)
    <3>1. Cell(put.cells, i) = LineCell(buffer, g, i)
      BY <1>3, <1>4, <1>5, <2>1, <2>4
    <3>2. i \in 1 .. Len(buffer) \/ i - Len(buffer) \notin 1 .. Len(g)
      <4>1. CASE g = <<>>
        BY <2>2, <4>1
      <4>2. CASE g = ghost /\ g # <<>>
        <5>1. Len(g) = n /\ cursor = Len(buffer)
          BY <1>1, <4>2 DEF LineInv, n
        <5>2. QED
          BY <1>1, <2>4, <5>1
      <4>3. QED
        BY <4>1, <4>2
    <3>3. QED
      BY <2>2, <3>1, <3>2 DEF LineCell
  <2>5. QED
    BY <2>3, <2>4
<1>9. put.cells \in Seq(Chars \X BOOLEAN) /\ Len(put.cells) >= Len(buffer)
  <2>1. put.cells \in Seq(Chars \X BOOLEAN)
    BY <1>5 DEF Screen
  <2>2. Len(put.cells) \in Nat
    BY <2>1, LenProperties
  <2>3. QED
    BY <1>1, <1>3, <1>5, <2>1, <2>2
<1>10. QED
  BY <1>7, <1>8, <1>9 DEF Shows

(* A line painted again with the cursor in it.                             *)
LEMMA RepaintInv ==
  ASSUME NEW s \in Line, NEW k \in 0 .. Len(s)
  PROVE  LET scr == Back(Repaint(s), Len(s) - k) IN
         scr \in Screen /\ scr.column = k /\ Shows(scr.cells, s, <<>>)
<1>1. /\ Repaint(s) \in Screen /\ Repaint(s).column = Len(s) /\ Shows(Repaint(s).cells, s, <<>>)
      /\ Len(s) \in Nat
  BY RepaintShows, LenProperties DEF Line
<1>2. Len(s) - k \in Int /\ Repaint(s).column - (Len(s) - k) >= 0 /\ Repaint(s).column - (Len(s) - k) = k
  BY <1>1
<1>3. QED
  BY <1>1, <1>2, BackKeeps

(* A line without a ghost, and one with its ghost looked up anew.          *)
LEMMA BareInv ==
  ASSUME screen' \in Screen, screen'.column = cursor', Shows(screen'.cells, buffer', <<>>)
  PROVE  ScreenInv'
BY DEF ScreenInv, Shows, Cell, LineCell, Screen

LEMMA SuggestInv ==
  ASSUME NEW scr \in Screen, NEW s \in Line, Suggest(s, scr), buffer' = s, s # <<>>,
         cursor' = Len(s), scr.column = Len(s), Shows(scr.cells, s, <<>>)
  PROVE  ScreenInv'
<1>1. ghost' \in Line /\ screen' = Suggesting(scr, ghost')
  BY SuggestLine DEF Suggest
<1>2. screen' \in Screen /\ screen'.column = Len(s) /\ Shows(screen'.cells, s, ghost')
  BY <1>1, SuggestingShows
<1>3. QED
  BY <1>2 DEF ScreenInv, Shows, Cell, LineCell, Screen

(* A cleared line.                                                         *)
LEMMA ClearedInv ==
  ASSUME NEW s \in Line, buffer' = s, cursor' = Len(s), screen' = Repaint(s)
  PROVE  ScreenInv'
BY RepaintShows, BareInv

(* Nothing of the ghost is on the terminal when there is none.             *)
LEMMA ShowsBare ==
  ASSUME LineInv, ScreenInv, ghost = <<>> \/ cursor = 0
  PROVE  Shows(screen.cells, buffer, <<>>)
<1>1. CASE ghost = <<>>
  BY <1>1 DEF ScreenInv
<1>2. CASE ghost # <<>>
  <2>1. Len(buffer) = 0 /\ buffer \in Line
    BY <1>2 DEF LineInv
  <2>2. buffer = <<>>
    BY <2>1, EmptySeq DEF Line
  <2>3. QED
    BY <2>2 DEF ScreenInv
<1>3. QED
  BY <1>1, <1>2

LEMMA TypeScreen ==
  ASSUME HistoryInv, LineInv, ScreenInv, NEW c \in Keys, Type(c)
  PROVE  ScreenInv'
<1>1. /\ buffer \in Line /\ cursor \in 0 .. Len(buffer) /\ Len(buffer) \in Nat /\ c \in Chars
  BY Parameters, LenProperties DEF LineInv, Line
<1>2. /\ LineInv' /\ buffer' = InsertAt(buffer, cursor + 1, c)
      /\ cursor' = cursor + 1 /\ Len(buffer') = Len(buffer) + 1
  BY TypeLine
<1>3. CASE cursor < Len(buffer) /\ screen' = Back(Repaint(buffer'), Len(buffer') - cursor')
  <2>1. buffer' \in Line /\ cursor' \in 0 .. Len(buffer')
    BY <1>2 DEF LineInv
  <2>2. QED
    BY <1>3, <2>1, RepaintInv, BareInv
<1>4. CASE cursor = Len(buffer) /\ Suggest(buffer', Put(WithoutGhost(screen), Plain(<<c>>)))
  <2> DEFINE old == WithoutGhost(screen)
             scr == Put(old, Plain(<<c>>))
             e   == Append(buffer, c)
  <2>1. old \in Screen /\ old.column = Len(buffer) /\ Shows(old.cells, buffer, <<>>)
    BY <1>4, EraseShows
  <2> HIDE DEF old
  <2>2. scr \in Screen /\ scr.column = Len(buffer) + 1 /\ Shows(scr.cells, e, <<>>)
    BY <1>1, <2>1, PrintShows
  <2>3. e \in Line /\ Len(e) = Len(buffer) + 1 /\ e # <<>>
    BY <1>1, AppendProperties DEF Line
  <2>4. buffer' = e /\ cursor' = Len(e)
    BY <1>1, <1>2, <1>4, <2>3, InsertAtEnd
  <2>5. Suggest(e, scr)
    BY <1>4, <2>4 DEF old
  <2> HIDE DEF scr, e
  <2>6. QED
    BY <2>2, <2>3, <2>4, <2>5, <1>1, SuggestInv
<1>5. QED
  BY <1>3, <1>4 DEF Type

LEMMA BackspaceScreen ==
  ASSUME HistoryInv, LineInv, ScreenInv, Backspace
  PROVE  ScreenInv'
<1>1. buffer \in Line /\ cursor \in 0 .. Len(buffer) /\ Len(buffer) \in Nat
  BY LenProperties DEF LineInv, Line
<1>2. CASE cursor = 0 /\ UNCHANGED <<cursor, screen>> /\ Unedited
  BY <1>2, ShowsBare, BareInv DEF ScreenInv, Unedited
<1>3. CASE cursor > 0 /\ cursor' = cursor - 1 /\ Edit(RemoveAt(buffer, cursor))
  <2> DEFINE s   == RemoveAt(buffer, cursor)
             scr == Back(Repaint(s), Len(s) - cursor')
  <2>1. s \in Line /\ Len(s) = Len(buffer) - 1
    BY <1>1, <1>3, RemoveIsLine
  <2>2. buffer' = s
    BY <1>3 DEF Edit
  <2>3. \/ cursor' = Len(buffer') /\ cursor' > 0 /\ Suggest(buffer', Back(Repaint(buffer'), Len(buffer') - cursor'))
        \/ screen' = Back(Repaint(buffer'), Len(buffer') - cursor')
    BY <1>3 DEF Backspace
  <2>4. cursor' \in 0 .. Len(s)
    BY <1>1, <1>3, <2>1
  <2>5. \/ cursor' = Len(s) /\ cursor' > 0 /\ Suggest(s, scr)
        \/ screen' = scr
    BY <2>2, <2>3
  <2> HIDE DEF s
  <2>6. scr \in Screen /\ scr.column = cursor' /\ Shows(scr.cells, s, <<>>)
    BY <2>1, <2>4, RepaintInv
  <2> HIDE DEF scr
  <2>7. CASE screen' = scr
    BY <2>2, <2>6, <2>7, BareInv
  <2>8. CASE cursor' = Len(s) /\ cursor' > 0 /\ Suggest(s, scr)
    <3>1. s # <<>>
      BY <2>8, EmptyLine
    <3>2. QED
      BY <2>1, <2>2, <2>6, <2>8, <3>1, SuggestInv
  <2>9. QED
    BY <2>5, <2>7, <2>8
<1>4. QED
  BY <1>2, <1>3 DEF Backspace

LEMMA MovesScreen ==
  ASSUME HistoryInv, LineInv, ScreenInv, Left \/ Right \/ Tab
  PROVE  ScreenInv'
<1>1. /\ buffer \in Line /\ ghost \in Line /\ cursor \in 0 .. Len(buffer) /\ Len(buffer) \in Nat
      /\ ghost # <<>> => cursor = Len(buffer)
      /\ screen \in Screen /\ screen.column = cursor
  BY LenProperties DEF LineInv, Line, ScreenInv
<1>2. CASE Left
  <2> DEFINE old == WithoutGhost(screen)
  <2>1. old \in Screen /\ old.column = cursor /\ Shows(old.cells, buffer, <<>>)
    BY EraseShows
  <2>2. screen' = Back(old, cursor - cursor') /\ buffer' = buffer /\ cursor' = OneLeft
    BY <1>2 DEF Left, Unedited
  <2> HIDE DEF old
  <2>3. cursor' \in Nat /\ cursor - cursor' \in Int /\ cursor - (cursor - cursor') = cursor'
    BY <1>1, <2>2 DEF OneLeft
  <2>4. screen' \in Screen /\ screen'.cells = old.cells /\ screen'.column = cursor'
    BY <2>1, <2>2, <2>3, BackKeeps
  <2>5. QED
    BY <2>1, <2>2, <2>4, BareInv
<1>3. CASE Right
  <2>1. CASE ghost = <<>>
    <3>1. /\ screen' = Back(screen, cursor - cursor') /\ buffer' = buffer
          /\ cursor' = IF cursor < Len(buffer) THEN cursor + 1 ELSE cursor
      BY <1>3, <2>1 DEF Right, Unedited
    <3>2. cursor' \in Nat /\ cursor - cursor' \in Int /\ cursor - (cursor - cursor') = cursor'
      BY <1>1, <3>1
    <3>3. screen' \in Screen /\ screen'.cells = screen.cells /\ screen'.column = cursor'
      BY <1>1, <3>1, <3>2, BackKeeps
    <3>4. QED
      BY <2>1, <3>1, <3>3, ShowsBare, BareInv
  <2>2. CASE ghost # <<>>
    <3> DEFINE s == Append(buffer, Head(ghost))
    <3>1. s \in Line /\ Len(s) = Len(buffer) + 1 /\ s # <<>>
      BY <1>1, <2>2, GhostHeadTail, AppendProperties DEF Line
    <3>2. /\ buffer' = s /\ cursor' = cursor + 1 /\ ghost' = Tail(ghost)
          /\ screen' = Suggesting(Repaint(s), ghost')
      BY <1>3, <2>2 DEF Right, Edit
    <3> HIDE DEF s
    <3>3. ghost' \in Line /\ cursor' = Len(s)
      BY <1>1, <2>2, <3>1, <3>2, GhostHeadTail
    <3>4. screen' \in Screen /\ screen'.column = Len(s) /\ Shows(screen'.cells, s, ghost')
      BY <3>1, <3>2, <3>3, RepaintShows, SuggestingShows
    <3>5. QED
      BY <3>1, <3>2, <3>3, <3>4 DEF ScreenInv, Shows, Cell, LineCell, Screen
  <2>3. QED
    BY <2>1, <2>2
<1>4. CASE Tab
  <2>1. CASE ghost = <<>>
    BY <1>4, <2>1 DEF Tab, Unedited, ghosts, ScreenInv, Shows, Cell, LineCell, Screen
  <2>2. CASE ghost # <<>>
    <3>1. buffer \o ghost \in Line
      BY <1>1, ConcatProperties DEF Line
    <3>2. buffer' = buffer \o ghost /\ cursor' = Len(buffer') /\ screen' = Repaint(buffer')
      BY <1>4, <2>2 DEF Tab, Edit
    <3>3. QED
      BY <3>1, <3>2, ClearedInv
  <2>3. QED
    BY <2>1, <2>2
<1>5. QED
  BY <1>2, <1>3, <1>4

LEMMA NextScreen == HistoryInv /\ LineInv /\ ScreenInv /\ [Next]_vars => ScreenInv'
<1>1. SUFFICES ASSUME HistoryInv, LineInv, ScreenInv, [Next]_vars PROVE ScreenInv'
  OBVIOUS
<1>2. ASSUME UNCHANGED <<buffer, cursor, screen, ghost>> PROVE ScreenInv'
  BY <1>1, <1>2 DEF ScreenInv, Shows, Cell, LineCell, Screen
<1>3. CASE JobDone \/ NoMore \/ UNCHANGED vars
  BY <1>2, <1>3 DEF JobDone, NoMore, Unedited, ghosts, vars
<1>4. CASE Top
  <2>1. CASE flag
    <3>1. screen' = Back(Repaint(buffer), Len(buffer) - cursor) /\ UNCHANGED <<buffer, cursor>>
      BY <1>4, <2>1 DEF Top, Notice
    <3>2. buffer \in Line /\ cursor \in 0 .. Len(buffer)
      BY <1>1 DEF LineInv
    <3>3. QED
      BY <3>1, <3>2, RepaintInv, BareInv
  <2>2. CASE ~flag
    BY <1>2, <1>4, <2>2 DEF Top, ghosts
  <2>3. QED
    BY <2>1, <2>2
<1>5. CASE Interrupt
  <2>1. buffer' = <<>> /\ cursor' = 0 /\ screen' = Repaint(<<>>)
    BY <1>5 DEF Interrupt, Edit
  <2>2. QED
    BY <2>1, EmptyLine, ClearedInv
<1>6. CASE Enter
  <2>1. buffer' = <<>> /\ cursor' = 0 /\ screen' = Repaint(<<>>)
    BY <1>6 DEF Enter
  <2>2. QED
    BY <2>1, EmptyLine, ClearedInv
<1>7. CASE Up \/ Down
  <2>1. (\E s \in Line : Show(s)) \/ UNCHANGED <<buffer, cursor, screen, ghost>>
    BY <1>1, <1>7, ArrowCases DEF LineInv, ghosts
  <2>2. ASSUME NEW s \in Line, Show(s) PROVE ScreenInv'
    BY <2>2, ClearedInv DEF Show
  <2>3. QED
    BY <1>2, <2>1, <2>2
<1>8. QED
  BY <1>1, <1>3, <1>4, <1>5, <1>6, <1>7, TypeScreen, BackspaceScreen, MovesScreen DEF Next
-----------------------------------------------------------------------------
(* What a ghost completes.                                                 *)

Completed(b, g) ==
  \E n \in 1 .. Len(b) : SubSeq(b, n + 1, Len(b)) \o g \in Suggestions(SubSeq(b, 1, n))

LEMMA SuggestCompletes ==
  ASSUME NEW s \in Line, NEW scr, s # <<>>, Suggest(s, scr)
  PROVE  ghost' # <<>> => Completed(s, ghost')
<1>1. SUFFICES ASSUME ghost' # <<>> PROVE Completed(s, ghost')
  OBVIOUS
<1>2. ghost' \in Suggestions(s) /\ ghost' \in Line
  BY <1>1, SuggestLine DEF Suggest
<1>3. Len(s) \in Nat /\ Len(s) \in 1 .. Len(s)
  BY LenProperties, EmptySeq DEF Line
<1>4. SubSeq(s, 1, Len(s)) = s
  BY SubSeqFull DEF Line
<1>5. SubSeq(s, Len(s) + 1, Len(s)) = <<>>
  BY <1>3, SubSeqEmpty
<1>6. <<>> \o ghost' = ghost'
  BY <1>2, ConcatEmptySeq DEF Line
<1>7. SubSeq(s, Len(s) + 1, Len(s)) \o ghost' \in Suggestions(SubSeq(s, 1, Len(s)))
  BY <1>2, <1>4, <1>5, <1>6
<1>8. QED
  BY <1>3, <1>7 DEF Completed

(* A character taken from the ghost leaves what it completes.              *)
LEMMA TakeOne ==
  ASSUME NEW b \in Line, NEW g \in Line, g # <<>>, Completed(b, g)
  PROVE  Completed(Append(b, Head(g)), Tail(g))
<1> DEFINE e == Append(b, Head(g))
           t == Tail(g)
<1>1. PICK n \in 1 .. Len(b) : SubSeq(b, n + 1, Len(b)) \o g \in Suggestions(SubSeq(b, 1, n))
  BY DEF Completed
<1>2. /\ Len(b) \in Nat /\ n \in Nat /\ 1 <= n /\ n <= Len(b)
      /\ Len(g) \in Nat \ {0} /\ t \in Line /\ Len(t) = Len(g) - 1
      /\ Head(g) = g[1] /\ Head(g) \in Chars
      /\ \A i \in 1 .. Len(g) - 1 : t[i] = g[i + 1]
  BY <1>1, GhostHeadTail, LenProperties DEF Line
<1>3. e \in Line /\ Len(e) = Len(b) + 1 /\ e[Len(b) + 1] = g[1] /\ \A i \in 1 .. Len(b) : e[i] = b[i]
  BY <1>2, AppendProperties DEF Line
<1> HIDE DEF e, t
<1> DEFINE p  == SubSeq(b, 1, n)
           p2 == SubSeq(e, 1, n)
           r  == SubSeq(b, n + 1, Len(b))
           r2 == SubSeq(e, n + 1, Len(e))
<1>4. /\ p \in Line /\ Len(p) = n /\ \A i \in 1 .. n : p[i] = b[i]
      /\ p2 \in Line /\ Len(p2) = n /\ \A i \in 1 .. n : p2[i] = e[i]
  <2>1. n \in Int /\ 1 \in Int /\ 1 <= 1 /\ n <= Len(b) /\ n <= Len(e) /\ n - 1 + 1 = n
    BY <1>2, <1>3
  <2>2. p \in Line /\ Len(p) = n /\ \A i \in 1 .. n - 1 + 1 : p[i] = b[1 + i - 1]
    BY <1>2, <2>1, SliceOfLine
  <2>3. p2 \in Line /\ Len(p2) = n /\ \A i \in 1 .. n - 1 + 1 : p2[i] = e[1 + i - 1]
    BY <1>2, <1>3, <2>1, SliceOfLine
  <2>4. QED
    BY <1>2, <2>2, <2>3
<1>5. /\ r \in Line /\ Len(r) = Len(b) - n /\ \A i \in 1 .. Len(b) - n : r[i] = b[n + i]
      /\ r2 \in Line /\ Len(r2) = Len(b) + 1 - n /\ \A i \in 1 .. Len(b) + 1 - n : r2[i] = e[n + i]
  <2>1. n + 1 \in Int /\ 1 <= n + 1 /\ Len(b) \in Int /\ Len(e) \in Int /\ Len(b) <= Len(b) /\ Len(e) <= Len(e)
    BY <1>2, <1>3
  <2>2. /\ r \in Line /\ Len(r) = (IF n + 1 <= Len(b) THEN Len(b) - (n + 1) + 1 ELSE 0)
        /\ \A i \in 1 .. Len(b) - (n + 1) + 1 : r[i] = b[n + 1 + i - 1]
    BY <2>1, SliceOfLine
  <2>3. /\ r2 \in Line /\ Len(r2) = (IF n + 1 <= Len(e) THEN Len(e) - (n + 1) + 1 ELSE 0)
        /\ \A i \in 1 .. Len(e) - (n + 1) + 1 : r2[i] = e[n + 1 + i - 1]
    BY <1>3, <2>1, SliceOfLine
  <2>4. QED
    BY <1>2, <1>3, <2>2, <2>3
<1> HIDE DEF p, p2, r, r2
<1>6. p2 = p
  <2>1. \A i \in 1 .. n : p2[i] = p[i]
    BY <1>2, <1>3, <1>4
  <2>2. QED
    BY <1>4, <2>1, SeqEqual DEF Line
<1>7. r2 \o t = r \o g
  <2>1. /\ r \o g \in Line /\ Len(r \o g) = Len(r) + Len(g)
        /\ \A i \in 1 .. Len(r) + Len(g) : (r \o g)[i] = IF i <= Len(r) THEN r[i] ELSE g[i - Len(r)]
    BY <1>5, ConcatProperties DEF Line
  <2>2. /\ r2 \o t \in Line /\ Len(r2 \o t) = Len(r2) + Len(t)
        /\ \A i \in 1 .. Len(r2) + Len(t) : (r2 \o t)[i] = IF i <= Len(r2) THEN r2[i] ELSE t[i - Len(r2)]
    BY <1>2, <1>5, ConcatProperties, ZenonT(30) DEF Line
  <2>3. Len(r2) + Len(t) = Len(r) + Len(g) /\ Len(r2) = Len(r) + 1 /\ Len(r) \in Nat
    BY <1>2, <1>5
  <2> DEFINE x == r \o g
             y == r2 \o t
  <2> HIDE DEF x, y
  <2>4. ASSUME NEW i \in 1 .. Len(r) + Len(g) PROVE y[i] = x[i]
    <3>1. /\ x[i] = IF i <= Len(r) THEN r[i] ELSE g[i - Len(r)]
          /\ y[i] = IF i <= Len(r2) THEN r2[i] ELSE t[i - Len(r2)]
      BY <2>1, <2>2, <2>3 DEF x, y
    <3>2. CASE i <= Len(r)
      <4>1. i \in 1 .. Len(b) - n /\ i \in 1 .. Len(b) + 1 - n /\ n + i \in 1 .. Len(b) /\ i <= Len(r2)
        BY <1>2, <1>5, <2>3, <3>2
      <4>2. r[i] = b[n + i] /\ r2[i] = e[n + i] /\ e[n + i] = b[n + i]
        BY <1>3, <1>5, <4>1
      <4>3. QED
        BY <3>1, <3>2, <4>1, <4>2
    <3>3. CASE i = Len(r) + 1
      <4>1. /\ i \in 1 .. Len(b) + 1 - n /\ n + i = Len(b) + 1 /\ i - Len(r) = 1
            /\ ~(i <= Len(r)) /\ i <= Len(r2)
        BY <1>2, <1>5, <2>3, <3>3
      <4>2. r2[i] = e[Len(b) + 1]
        BY <1>5, <4>1
      <4>3. QED
        BY <1>3, <3>1, <4>1, <4>2
    <3>4. CASE i > Len(r) + 1
      <4>1. /\ i - Len(r2) \in 1 .. Len(g) - 1 /\ (i - Len(r2)) + 1 = i - Len(r)
            /\ ~(i <= Len(r)) /\ ~(i <= Len(r2))
        BY <1>2, <2>3, <3>4
      <4>2. t[i - Len(r2)] = g[i - Len(r)]
        BY <1>2, <4>1
      <4>3. QED
        BY <3>1, <4>1, <4>2
    <3>5. QED
      BY <2>3, <3>2, <3>3, <3>4
  <2>5. x \in Seq(Chars) /\ y \in Seq(Chars) /\ Len(x) = Len(y) /\ Len(x) = Len(r) + Len(g)
    BY <2>1, <2>2, <2>3 DEF x, y, Line
  <2>6. x = y
    BY <2>4, <2>5, SeqEqual
  <2>7. QED
    BY <2>6 DEF x, y
<1>8. n \in 1 .. Len(e)
  BY <1>2, <1>3
<1>9. r2 \o t \in Suggestions(p2)
  BY <1>1, <1>6, <1>7 DEF p, r
<1>10. QED
  BY <1>8, <1>9 DEF Completed, p2, r2, e, t

LEMMA NextGhost == HistoryInv /\ LineInv /\ GhostFits /\ [Next]_vars => GhostFits'
<1>1. SUFFICES ASSUME HistoryInv, LineInv, GhostFits, [Next]_vars PROVE GhostFits'
  OBVIOUS
<1>2. /\ buffer \in Line /\ ghost \in Line /\ cursor \in 0 .. Len(buffer) /\ Len(buffer) \in Nat
      /\ ghost # <<>> => cursor = Len(buffer) /\ (stale \/ Completed(buffer, ghost))
  BY <1>1, LenProperties DEF LineInv, Line, GhostFits, Completes, Completed
<1>3. LineInv'
  BY <1>1, NextLine
<1>4. SUFFICES ASSUME ghost' # <<>> PROVE stale' \/ Completed(buffer', ghost')
  BY <1>3 DEF GhostFits, Completes, Completed, LineInv
<1>5. ASSUME UNCHANGED <<buffer, ghost, stale>> PROVE stale' \/ Completed(buffer', ghost')
  BY <1>2, <1>4, <1>5
<1>6. ASSUME NEW scr, Suggest(buffer', scr), buffer' # <<>> PROVE stale' \/ Completed(buffer', ghost')
  <2> DEFINE s == buffer'
  <2>1. s \in Line
    BY <1>3 DEF LineInv
  <2>2. Suggest(s, scr) /\ s # <<>>
    BY <1>6
  <2> HIDE DEF s
  <2>3. Completed(s, ghost')
    BY <1>4, <2>1, <2>2, SuggestCompletes
  <2>4. QED
    BY <2>3 DEF s
<1>7. CASE Typing
  <2>1. PICK c \in Keys : Type(c)
    BY <1>7 DEF Typing
  <2>2. Len(buffer') = Len(buffer) + 1
    BY <1>1, <2>1, TypeLine
  <2>3. buffer' # <<>>
    BY <1>2, <2>2, EmptyLine
  <2>4. Suggest(buffer', Put(WithoutGhost(screen), Plain(<<c>>)))
    BY <1>4, <2>1 DEF Type
  <2>5. QED
    BY <1>6, <2>3, <2>4
<1>8. CASE Backspace
  <2>1. /\ cursor' = Len(buffer') /\ cursor' > 0
        /\ Suggest(buffer', Back(Repaint(buffer'), Len(buffer') - cursor'))
    BY <1>4, <1>8 DEF Backspace, NoGhost
  <2>2. buffer' # <<>>
    BY <2>1, EmptyLine
  <2>3. QED
    BY <1>6, <2>1, <2>2
<1>9. CASE Right
  <2>1. CASE ghost = <<>>
    BY <1>4, <1>9, <2>1 DEF Right, ghosts
  <2>2. CASE ghost # <<>>
    <3>1. buffer' = Append(buffer, Head(ghost)) /\ ghost' = Tail(ghost) /\ stale' = stale
      BY <1>9, <2>2 DEF Right, Edit
    <3>2. QED
      BY <1>2, <2>2, <3>1, TakeOne
  <2>3. QED
    BY <2>1, <2>2
<1>10. CASE Up \/ Down
  <2>1. (\E s \in Line : Show(s)) \/ UNCHANGED <<buffer, ghost, stale>>
    BY <1>1, <1>10, ArrowCases DEF LineInv, ghosts
  <2>2. QED
    BY <1>5, <2>1 DEF Show
<1>11. CASE Interrupt \/ Left \/ Enter
  BY <1>4, <1>11 DEF Interrupt, Left, Enter
<1>12. CASE Tab
  BY <1>4, <1>12 DEF Tab, ghosts
<1>13. CASE NoMore \/ JobDone \/ Top \/ UNCHANGED vars
  BY <1>5, <1>13 DEF NoMore, Unedited, JobDone, Top, ghosts, vars
<1>14. QED
  BY <1>1, <1>7, <1>8, <1>9, <1>10, <1>11, <1>12, <1>13 DEF Next, Typing
-----------------------------------------------------------------------------
(* The theorems.                                                           *)

EditorInv == HistoryInv /\ LineInv /\ BelowInv /\ ScreenInv /\ GhostFits

LEMMA InitInv == Init => EditorInv
<1>1. SUFFICES ASSUME Init PROVE EditorInv
  OBVIOUS
<1>2. <<>> \in Line /\ Len(<<>>) = 0 /\ entered = <<>> /\ history_count = 0 /\ history_index = 0
  BY <1>1, EmptyLine DEF Init
<1>3. /\ history \in [0 .. history_size - 1 -> Line \cup {None}]
      /\ DOMAIN history = 0 .. history_size - 1 /\ \A i \in DOMAIN history : history[i] = None
  BY <1>1 DEF Init
<1>4. RingKeepsLast
  <2>1. \A i \in DOMAIN history : i >= history_count
    BY <1>2, <1>3, Parameters
  <2>2. QED
    BY <1>2, <1>3, <2>1 DEF RingKeepsLast
<1>5. HistoryInv
  <2>1. entered \in Seq(Line)
    BY <1>2
  <2>2. QED
    BY <1>2, <1>3, <1>4, <2>1 DEF HistoryInv
<1>6. LineInv
  <2>1. /\ reading = FALSE /\ alive = TRUE /\ flag = FALSE /\ recalled = FALSE /\ stale = FALSE
        /\ buffer = <<>> /\ ghost = <<>> /\ saved_buffer = <<>> /\ typed = <<>> /\ cursor = 0
    BY <1>1 DEF Init
  <2>2. {buffer, ghost, saved_buffer, typed} \subseteq Line /\ cursor \in 0 .. Len(buffer)
    BY <1>2, <2>1
  <2>3. {reading, alive, flag, recalled, stale} \subseteq BOOLEAN
    BY <2>1
  <2>4. QED
    BY <2>1, <2>2, <2>3 DEF LineInv
<1>7. BelowInv
  BY <1>1 DEF Init, BelowInv, ArrowsRecall
<1>8. ScreenInv
  BY <1>1, <1>2, RepaintShows DEF Init, ScreenInv
<1>9. GhostFits
  BY <1>1 DEF Init, GhostFits
<1>10. QED
  BY <1>5, <1>6, <1>7, <1>8, <1>9 DEF EditorInv

(* Every step of the editor keeps the invariant.                           *)
THEOREM EditorCorrect == Spec => []EditorInv
<1>1. EditorInv /\ [Next]_vars => EditorInv'
  BY NextHistory, NextLine, NextBelow, NextScreen, NextGhost DEF EditorInv
<1>2. QED
  BY InitInv, <1>1, PTL DEF Spec

(* Every variable has its type, the cursor stays in the line.              *)
THEOREM TypeCorrect == Spec => []TypeOK
<1>1. EditorInv => TypeOK
  <2>1. SUFFICES ASSUME EditorInv PROVE TypeOK
    OBVIOUS
  <2>2. screen.cells \in Seq(Chars \X BOOLEAN) /\ screen.column \in Nat
    BY <2>1 DEF EditorInv, ScreenInv, Screen
  <2>3. QED
    BY <2>1, <2>2 DEF EditorInv, LineInv, HistoryInv, TypeOK
<1>2. QED
  BY EditorCorrect, <1>1, PTL

(* The ring holds the last lines entered, each in its slot.                *)
THEOREM RingCorrect == Spec => []RingKeepsLast
<1>1. EditorInv => RingKeepsLast
  BY DEF EditorInv, HistoryInv
<1>2. QED
  BY EditorCorrect, <1>1, PTL

(* Until the ring wraps, the arrows show the lines entered, and below them *)
(* the line that was being typed.                                          *)
THEOREM ArrowsCorrect == Spec => []ArrowsRecall
<1>1. EditorInv => ArrowsRecall
  BY DEF EditorInv, BelowInv
<1>2. QED
  BY EditorCorrect, <1>1, PTL

(* A ghost stands at the end of the line and completes it, unless an arrow *)
(* has exchanged the line under it.                                        *)
THEOREM GhostCorrect == Spec => []GhostFits
<1>1. EditorInv => GhostFits
  BY DEF EditorInv
<1>2. QED
  BY EditorCorrect, <1>1, PTL

(* The terminal shows the line, the cursor and at most the ghost.          *)
THEOREM ScreenCorrect == Spec => []ScreenShowsLine
<1>1. ASSUME NEW b \in Line, NEW g \in Line, NEW i \in Nat \ {0}
      PROVE  Cell(Plain(b) \o Dim(g), i) = LineCell(b, g, i)
  <2> DEFINE p == Plain(b)
             d == Dim(g)
  <2>1. /\ p \in Seq(Chars \X BOOLEAN) /\ Len(p) = Len(b) /\ \A k \in 1 .. Len(b) : p[k] = <<b[k], FALSE>>
        /\ d \in Seq(Chars \X BOOLEAN) /\ Len(d) = Len(g) /\ \A k \in 1 .. Len(g) : d[k] = <<g[k], TRUE>>
        /\ Len(b) \in Nat /\ Len(g) \in Nat
    BY PlainAndDim, LenProperties DEF Line
  <2> HIDE DEF p, d
  <2>2. /\ p \o d \in Seq(Chars \X BOOLEAN) /\ Len(p \o d) = Len(p) + Len(d)
        /\ \A k \in 1 .. Len(p) + Len(d) : (p \o d)[k] = IF k <= Len(p) THEN p[k] ELSE d[k - Len(p)]
    BY <2>1, ConcatProperties, ZenonT(30)
  <2> DEFINE l == p \o d
  <2>3. DOMAIN l = 1 .. Len(b) + Len(g)
    BY <2>1, <2>2, LenProperties
  <2>4. \A k \in 1 .. Len(b) + Len(g) : l[k] = IF k <= Len(b) THEN p[k] ELSE d[k - Len(b)]
    BY <2>1, <2>2
  <2> HIDE DEF l
  <2>5. CASE i \in 1 .. Len(b)
    <3>1. i \in 1 .. Len(b) + Len(g) /\ i <= Len(b)
      BY <2>1, <2>5
    <3>2. l[i] = <<b[i], FALSE>>
      BY <2>1, <2>4, <2>5, <3>1
    <3>3. Cell(l, i) = LineCell(b, g, i)
      BY <2>3, <2>5, <3>1, <3>2 DEF Cell, LineCell
    <3>4. QED
      BY <3>3 DEF l, p, d
  <2>6. CASE i > Len(b) /\ i <= Len(b) + Len(g)
    <3>1. i - Len(b) \in 1 .. Len(g) /\ i \notin 1 .. Len(b) /\ i \in 1 .. Len(b) + Len(g) /\ ~(i <= Len(b))
      BY <2>1, <2>6
    <3>2. l[i] = <<g[i - Len(b)], TRUE>>
      BY <2>1, <2>4, <3>1
    <3>3. Cell(l, i) = LineCell(b, g, i)
      BY <2>3, <3>1, <3>2 DEF Cell, LineCell
    <3>4. QED
      BY <3>3 DEF l, p, d
  <2>7. CASE i > Len(b) + Len(g)
    <3>1. i - Len(b) \notin 1 .. Len(g) /\ i \notin 1 .. Len(b) /\ i \notin 1 .. Len(b) + Len(g)
      BY <2>1, <2>7
    <3>2. Cell(l, i) = LineCell(b, g, i)
      BY <2>3, <3>1 DEF Cell, LineCell
    <3>3. QED
      BY <3>2 DEF l, p, d
  <2>8. QED
    BY <2>1, <2>5, <2>6, <2>7
<1>2. EditorInv => ScreenShowsLine
  <2>1. SUFFICES ASSUME EditorInv PROVE ScreenShowsLine
    OBVIOUS
  <2>2. buffer \in Line /\ ghost \in Line /\ screen.column = cursor
    BY <2>1 DEF EditorInv, LineInv, ScreenInv
  <2>3. PICK g \in {<<>>, ghost} : Shows(screen.cells, buffer, g)
    BY <2>1 DEF EditorInv, ScreenInv
  <2>4. g \in Line
    BY <2>2, EmptyLine
  <2> DEFINE line == Plain(buffer) \o Dim(g)
  <2>5. ASSUME NEW i \in 1 .. Len(line) + Len(screen.cells)
        PROVE  Cell(screen.cells, i) = Cell(line, i)
    <3>1. i \in Nat \ {0}
      OBVIOUS
    <3>2. Cell(line, i) = LineCell(buffer, g, i)
      BY <1>1, <2>2, <2>4, <3>1
    <3>3. Cell(screen.cells, i) = LineCell(buffer, g, i)
      BY <2>3, <3>1 DEF Shows
    <3>4. QED
      BY <3>2, <3>3
  <2>6. QED
    BY <2>2, <2>5 DEF ScreenShowsLine
<1>3. QED
  BY EditorCorrect, <1>2, PTL
=============================================================================
