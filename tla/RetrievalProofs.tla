--------------------------- MODULE RetrievalProofs ---------------------------
(***************************************************************************)
(* What a prompt is told, for every table, limit and threshold: the        *)
(* invariant of the two loops of retrieve_and_compress_context, and the    *)
(* properties of Retrieval that follow from it.                            *)
(***************************************************************************)
EXTENDS Retrieval, FiniteSetTheorems, TLAPS

LEMMA Prefixed ==
  ASSUME NEW S, NEW e \in S, NEW q \in Seq(S)
  PROVE  /\ <<e>> \o q \in Seq(S) /\ Len(<<e>> \o q) = Len(q) + 1 /\ (<<e>> \o q)[1] = e
         /\ \A i \in 1 .. Len(q) : (<<e>> \o q)[i + 1] = q[i]
         /\ SubSeq(<<e>> \o q, 2, Len(q) + 1) = q
OBVIOUS

LEMMA TrimOne ==
  ASSUME NEW S, NEW s \in Seq(S), NEW tag, Len(s) >= 1, s[1] = tag, Len(s) > 1 => s[2] # tag
  PROVE  trim_start_matches(s, tag) = SubSeq(s, 2, Len(s))
<1> DEFINE Copies(n) == /\ \A i \in 1 .. n : s[i] = tag
                        /\ n < Len(s) => s[n + 1] # tag
<1>1. Len(s) \in Nat /\ 1 \in 0 .. Len(s) /\ Copies(1)
  OBVIOUS
<1>2. \A n \in 0 .. Len(s) : Copies(n) => n = 1
  <2>1. ASSUME NEW n \in 0 .. Len(s), Copies(n), n # 1 PROVE FALSE
    <3>1. CASE n = 0
      BY <1>1, <2>1, <3>1
    <3>2. CASE n > 1
      BY <1>1, <2>1, <3>2
    <3>3. QED
      BY <2>1, <3>1, <3>2
  <2>2. QED
    BY <2>1
<1> DEFINE copies == CHOOSE n \in 0 .. Len(s) : Copies(n)
<1>3. trim_start_matches(s, tag) = SubSeq(s, copies + 1, Len(s))
  BY Zenon DEF trim_start_matches
<1>4. copies = 1
  BY <1>1, <1>2
<1> HIDE DEF copies
<1>5. QED
  BY <1>3, <1>4

(* A rule of a directory is read as it was written (memory_types.rs): an   *)
(* absolute path does not begin with the tag that trim_start_matches       *)
(* strips.                                                                 *)
THEOREM ScopeReadAsWritten ==
  ASSUME NEW path \in Seq(Strings), path = <<>> \/ path[1] # "Project:"
  PROVE  scope_from_str(scope_to_string(Project(path))) = Project(path)
<1>1. PICK s : s = <<"Project:">> \o path
  OBVIOUS
<1>2. /\ s \in Seq(Strings) /\ Len(s) = Len(path) + 1 /\ s[1] = "Project:"
      /\ \A i \in 1 .. Len(path) : s[i + 1] = path[i]
      /\ SubSeq(s, 2, Len(path) + 1) = path
  <2>1. "Project:" \in Strings
    BY RetrievalAssumption
  <2> DEFINE t == <<"Project:">> \o path
  <2>2. /\ t \in Seq(Strings) /\ Len(t) = Len(path) + 1 /\ t[1] = "Project:"
        /\ \A i \in 1 .. Len(path) : t[i + 1] = path[i]
        /\ SubSeq(t, 2, Len(path) + 1) = path
    BY ONLY <2>1, path \in Seq(Strings), Prefixed, ZenonT(30)
  <2>3. QED
    BY ONLY <1>1, <2>2, ZenonT(30)
<1>3. Len(path) \in Nat /\ s # <<>> /\ (Len(s) > 1 => s[2] # "Project:")
  <2>1. Len(path) \in Nat /\ Len(s) >= 1 /\ (Len(s) > 1 => path # <<>> /\ 1 \in 1 .. Len(path))
    BY <1>2
  <2>2. QED
    BY <1>2, <2>1
<1>4. trim_start_matches(s, "Project:") = path
  <2>1. Len(s) >= 1
    BY <1>2, <1>3
  <2>2. trim_start_matches(s, "Project:") = SubSeq(s, 2, Len(s))
    BY <1>2, <1>3, <2>1, TrimOne
  <2>3. QED
    BY <1>2, <2>2
<1>5. scope_to_string(Project(path)) = s
  BY <1>1 DEF scope_to_string, Project
<1>6. QED
  BY <1>2, <1>3, <1>4, <1>5 DEF scope_from_str

LEMMA ScopeWritten ==
  ASSUME NEW path \in Seq(Strings)
  PROVE  scope_to_string(Project(path)) \in Seq(Strings)
<1>1. scope_to_string(Project(path)) = <<"Project:">> \o path
  BY DEF scope_to_string, Project
<1>2. "Project:" \in Strings
  BY RetrievalAssumption
<1>3. QED
  BY <1>1, <1>2, Prefixed, ZenonT(30)
-----------------------------------------------------------------------------
(* The invariant of the loops.                                             *)

Scored == Range(scored_candidates)
Found  == Range(raw_candidates)

(* Nothing is kept between requests.                                       *)
Fresh ==
  /\ next = 1
  /\ similarity = <<>> /\ raw_candidates = <<>>
  /\ scored_candidates = <<>> /\ deduplicated = <<>>

FoundOK == Found # Rows => /\ Len(raw_candidates) = Limit
                           /\ \A r \in Rows \ Found, f \in Found : ~Above(similarity[r], similarity[f])

ScoreLoop ==
  /\ deduplicated = <<>>
  /\ next <= Len(raw_candidates) + 1 /\ Len(scored_candidates) <= next - 1
  /\ \A j \in 1 .. next - 1 : Qualifies(raw_candidates[j]) => raw_candidates[j] \in Scored

(* Behind `next`, everything is offered or said by something offered that  *)
(* weighs no less; before it, nothing weighs more than what is offered.    *)
Told(r) == r \in Offered \/ \E o \in Offered : AtLeast(o, r) /\ Twin(Memory(o), Memory(r))

OfferLoop ==
  /\ \A r \in Found : Qualifies(r) => r \in Scored
  /\ \A i, j \in DOMAIN scored_candidates : i < j => AtLeast(scored_candidates[i], scored_candidates[j])
  /\ next <= Len(scored_candidates) + 1
  /\ Offered \subseteq Scored
  /\ \A j \in 1 .. next - 1 : Told(scored_candidates[j])
  /\ \A o \in Offered, j \in next .. Len(scored_candidates) : AtLeast(o, scored_candidates[j])
  /\ \A i, j \in DOMAIN deduplicated : i < j => AtLeast(deduplicated[i], deduplicated[j])

LoopInv ==
  /\ TypeOK
  /\ pc \in {"idle", "failed"} => Fresh
  /\ \A r \in Scored : Qualifies(r)
  /\ pc \in {"score", "offer", "done"} => FoundOK
  /\ pc = "score" => ScoreLoop
  /\ pc \in {"offer", "done"} => OfferLoop
  /\ NoTwins
  /\ pc = "done" => next > Len(scored_candidates) \/ Full
-----------------------------------------------------------------------------
LEMMA ScoreType ==
  ASSUME TypeOK, NEW r \in Rows
  PROVE  final_score(r) \in Int \cup {NaN}
<1>1. table[r] \in Row /\ similarity[r] \in Nat \cup {NaN}
  BY RetrievalAssumption DEF TypeOK, Rows
<1>2. Memory(r).utility_score \in Int
  BY <1>1 DEF Memory, Fetched, Row
<1>3. QED
  BY <1>1, <1>2 DEF final_score

LEMMA QualifyingScore ==
  ASSUME TypeOK, NEW r \in Rows, Qualifies(r)
  PROVE  final_score(r) \in Int /\ final_score(r) > 5 /\ ~Foreign(Memory(r))
BY ScoreType DEF Qualifies

LEMMA Init_Loop == Init => LoopInv
<1> SUFFICES ASSUME Init PROVE LoopInv
  OBVIOUS
<1>1. TypeOK
  BY RetrievalAssumption DEF Init, TypeOK, Rows
<1>2. QED
  BY <1>1 DEF Init, LoopInv, Fresh, NoTwins, Scored, Range

(* Rows are never rewritten: what a step that keeps the search does not    *)
(* touch weighs and says the same afterwards.                              *)
LEMMA SameMemories ==
  ASSUME TypeOK, UNCHANGED search, \A r \in Rows : table'[r] = table[r]
  PROVE  \A r \in Rows : /\ Memory(r)' = Memory(r)
                         /\ final_score(r)' = final_score(r)
                         /\ Qualifies(r)' = Qualifies(r)
<1>1. ASSUME NEW r \in Rows PROVE Memory(r)' = Memory(r)
  BY <1>1 DEF Memory
<1>2. ASSUME NEW r \in Rows
      PROVE  final_score(r)' = final_score(r) /\ Qualifies(r)' = Qualifies(r)
  <2>1. Memory(r)' = Memory(r) /\ similarity' = similarity
    BY <1>1 DEF search
  <2>2. final_score(r)' = final_score(r)
    BY <2>1 DEF final_score, Own
  <2>3. QED
    BY <2>1, <2>2 DEF Qualifies, Foreign
<1>3. QED
  BY <1>1, <1>2

LEMMA OfferKept ==
  ASSUME TypeOK, OfferLoop, UNCHANGED <<search, next, scored_candidates, deduplicated>>,
         \A r \in Rows : table'[r] = table[r]
  PROVE  OfferLoop'
<1>1. Scored' = Scored /\ Found' = Found /\ Offered' = Offered /\ Rows' = Rows
  BY DEF search, Scored, Found, Offered, Rows
<1>2. Scored \subseteq Rows /\ Found \subseteq Rows /\ Offered \subseteq Rows
  BY DEF TypeOK, Scored, Found, Offered, Range
<1>3. \A r \in Rows : Memory(r)' = Memory(r) /\ final_score(r)' = final_score(r)
                      /\ Qualifies(r)' = Qualifies(r)
  BY SameMemories
<1>4. /\ \A j \in DOMAIN scored_candidates : scored_candidates[j] \in Rows
      /\ \A j \in DOMAIN deduplicated : deduplicated[j] \in Rows
  BY DEF TypeOK
<1>5. \A a, b \in Rows : AtLeast(a, b)' = AtLeast(a, b)
  BY <1>3 DEF AtLeast
<1>6. \A r \in Rows : Told(r)' = Told(r)
  BY <1>1, <1>2, <1>3, <1>5 DEF Told
<1>7. DOMAIN scored_candidates = 1 .. Len(scored_candidates) /\ next \in Nat \ {0}
      /\ Len(scored_candidates) \in Nat
  BY RetrievalAssumption DEF TypeOK
<1>8. (/\ \A r \in Found : Qualifies(r) => r \in Scored
       /\ \A i, j \in DOMAIN scored_candidates :
            i < j => AtLeast(scored_candidates[i], scored_candidates[j]))'
  BY <1>1, <1>2, <1>3, <1>4, <1>5 DEF OfferLoop
<1>9. (/\ next <= Len(scored_candidates) + 1
       /\ Offered \subseteq Scored
       /\ \A j \in 1 .. next - 1 : Told(scored_candidates[j]))'
  BY <1>1, <1>4, <1>6, <1>7 DEF OfferLoop
<1>10. (\A i, j \in DOMAIN deduplicated : i < j => AtLeast(deduplicated[i], deduplicated[j]))'
  BY <1>4, <1>5 DEF OfferLoop
<1>11. (\A o \in Offered, j \in next .. Len(scored_candidates) : AtLeast(o, scored_candidates[j]))'
  <2>1. ASSUME NEW o \in Offered, NEW j \in next .. Len(scored_candidates)
        PROVE  AtLeast(o, scored_candidates[j])'
    <3>1. j \in 1 .. Len(scored_candidates)
      BY <1>7, <2>1
    <3>2. o \in Rows /\ scored_candidates[j] \in Rows /\ AtLeast(o, scored_candidates[j])
      BY <1>2, <1>4, <1>7, <3>1 DEF OfferLoop
    <3>3. QED
      BY <1>5, <3>2
  <2>2. QED
    BY <1>1, <2>1
<1>12. QED
  BY <1>8, <1>9, <1>10, <1>11 DEF OfferLoop

(* The invariant but for the types survives a step that leaves the loops   *)
(* alone.                                                                  *)
LEMMA LoopKept ==
  ASSUME LoopInv, TypeOK', UNCHANGED <<search, pc, next, scored_candidates, deduplicated>>,
         \A r \in Rows : table'[r] = table[r]
  PROVE  LoopInv'
<1>1. Scored' = Scored /\ Found' = Found /\ Offered' = Offered /\ Rows' = Rows
  BY DEF search, Scored, Found, Offered, Rows
<1>2. Scored \subseteq Rows /\ Found \subseteq Rows /\ Offered \subseteq Rows
  BY DEF LoopInv, TypeOK, Scored, Found, Offered, Range
<1>3. \A r \in Rows : Memory(r)' = Memory(r) /\ final_score(r)' = final_score(r)
                      /\ Qualifies(r)' = Qualifies(r)
  BY SameMemories DEF LoopInv
<1>4. (pc \in {"idle", "failed"} => Fresh)'
  BY DEF LoopInv, Fresh, search
<1>5. (\A r \in Scored : Qualifies(r))'
  BY <1>1, <1>2, <1>3 DEF LoopInv
<1>6. (pc \in {"score", "offer", "done"} => FoundOK)'
  BY <1>1 DEF LoopInv, FoundOK, search, Above
<1>7. (pc = "score" => ScoreLoop)'
  <2>1. \A j \in 1 .. Len(raw_candidates) : raw_candidates[j] \in Rows
    BY DEF LoopInv, TypeOK
  <2>2. QED
    BY <1>1, <1>3, <2>1 DEF LoopInv, TypeOK, ScoreLoop, search
<1>8. (pc \in {"offer", "done"} => OfferLoop)'
  BY OfferKept DEF LoopInv
<1>9. NoTwins'
  BY <1>2, <1>3 DEF LoopInv, NoTwins, Offered, Range
<1>10. (pc = "done" => next > Len(scored_candidates) \/ Full)'
  BY DEF LoopInv, Full
<1>11. QED
  BY <1>4, <1>5, <1>6, <1>7, <1>8, <1>9, <1>10 DEF LoopInv

LEMMA LearnLoop ==
  ASSUME LoopInv, NEW content \in Rules, NEW dir \in Dirs, Learn(content, dir)
  PROVE  LoopInv'
<1> DEFINE row == add_memory_vector(MemoryEntity(content, Project(dir), "ErrorFix"))
<1>1. row \in Row
  <2>1. row = [content |-> content, scope |-> scope_to_string(Project(dir)),
               mem_type |-> "ErrorFix", utility_score |-> 0]
    BY DEF add_memory_vector, MemoryEntity
  <2>2. content \in Strings /\ "ErrorFix" \in Strings /\ scope_to_string(Project(dir)) \in Seq(Strings)
    BY ScopeWritten, RetrievalAssumption DEF Types
  <2>3. QED
    BY <2>1, <2>2 DEF Row
<1>2. table' = Append(table, row) /\ Len(table) < MaxRows /\ table \in Seq(Row)
  BY DEF Learn, LoopInv, TypeOK
<1> HIDE DEF row
<1>3. table' \in Seq(Row) /\ Len(table') = Len(table) + 1
      /\ \A r \in DOMAIN table : r \in DOMAIN table' /\ table'[r] = table[r]
  BY <1>1, <1>2
<1>4. UNCHANGED <<search, pc, next, scored_candidates, deduplicated>>
  BY DEF Learn
<1>5. Rows' = Rows /\ Rows \subseteq DOMAIN table
  BY <1>4 DEF search, Rows, LoopInv, TypeOK
<1>6. TypeOK'
  BY <1>2, <1>3, <1>4, <1>5, RetrievalAssumption DEF LoopInv, TypeOK, search
<1>7. QED
  BY <1>3, <1>4, <1>5, <1>6, LoopKept

LEMMA SearchLoop ==
  ASSUME LoopInv, Search
  PROVE  LoopInv'
<1>1. Fresh /\ TypeOK /\ pc = "idle"
  BY DEF LoopInv, Search
<1>2. PICK rows \in SUBSET DOMAIN table :
        /\ Nearest(rows, similarity')
        /\ raw_candidates' \in Bijection(1 .. Cardinality(rows), rows)
  BY DEF Search
<1>3. UNCHANGED <<table, next, scored_candidates, deduplicated>> /\ pc' = "score"
      /\ similarity' \in [DOMAIN table -> Similarities]
  BY DEF Search
<1>4. Rows' = DOMAIN table /\ DOMAIN table = 1 .. Len(table) /\ Len(table) \in Nat
  BY <1>1, <1>3 DEF Rows, TypeOK
<1>5. Cardinality(rows) \in Nat
  <2>1. IsFiniteSet(DOMAIN table)
    BY <1>4, FS_Interval
  <2>2. IsFiniteSet(rows)
    BY <2>1, FS_Subset
  <2>3. QED
    BY <2>2, FS_CardinalityType
<1>6. /\ raw_candidates' \in [1 .. Cardinality(rows) -> rows]
      /\ \A r \in rows : \E i \in 1 .. Cardinality(rows) : raw_candidates'[i] = r
  BY <1>2 DEF Bijection, Injection, Surjection
<1>7. /\ raw_candidates' \in Seq(rows) /\ Len(raw_candidates') = Cardinality(rows)
      /\ Cardinality(rows) <= Limit
      /\ rows # DOMAIN table => Cardinality(rows) = Limit
  BY <1>2, <1>3, <1>5, <1>6 DEF Nearest
<1>8. Found' = rows
  BY <1>6 DEF Found, Range
<1>9. TypeOK'
  <2>1. raw_candidates' \in Seq(Rows')
    BY <1>2, <1>4, <1>7
  <2>2. QED
    BY <1>1, <1>3, <1>4, <1>7, <2>1, RetrievalAssumption DEF TypeOK, Rows, Fresh
<1>10. FoundOK'
  <2>1. similarity' \in [DOMAIN table -> Similarities] /\ DOMAIN similarity' = DOMAIN table
    BY <1>3
  <2>2. \A near \in rows, far \in DOMAIN table \ rows : ~Above(similarity'[far], similarity'[near])
    BY <1>2, <2>1 DEF Nearest
  <2>3. QED
    BY <1>4, <1>7, <1>8, <2>2 DEF FoundOK, Above
<1>11. ScoreLoop' /\ (\A r \in Scored : Qualifies(r))' /\ NoTwins'
  <2>1. next' = 1 /\ scored_candidates' = <<>> /\ deduplicated' = <<>> /\ Len(raw_candidates') \in Nat
    BY <1>1, <1>3, <1>5, <1>7 DEF Fresh
  <2>2. Scored' = {}
    BY <2>1 DEF Scored, Range
  <2>3. QED
    BY <2>1, <2>2 DEF ScoreLoop, NoTwins
<1>12. QED
  BY <1>3, <1>9, <1>10, <1>11 DEF LoopInv

(* A step of a loop that keeps the search, hence the scores.               *)
LEMMA ScoresKept ==
  ASSUME LoopInv, UNCHANGED <<table, search>>
  PROVE  /\ Rows' = Rows /\ Found' = Found /\ raw_candidates' = raw_candidates
         /\ FoundOK => FoundOK'
         /\ \A r \in Rows : /\ Memory(r)' = Memory(r) /\ final_score(r)' = final_score(r)
                            /\ Qualifies(r)' = Qualifies(r)
<1>1. Rows' = Rows /\ Found' = Found /\ raw_candidates' = raw_candidates /\ similarity' = similarity
  BY DEF search, Rows, Found
<1>2. FoundOK => FoundOK'
  BY <1>1 DEF FoundOK, Above
<1>3. QED
  BY <1>1, <1>2, SameMemories DEF LoopInv

LEMMA Appended ==
  ASSUME NEW S, NEW s \in Seq(S), NEW e \in S
  PROVE  /\ Append(s, e) \in Seq(S) /\ Len(Append(s, e)) = Len(s) + 1 /\ Len(s) \in Nat
         /\ DOMAIN s = 1 .. Len(s) /\ DOMAIN Append(s, e) = 1 .. Len(s) + 1
         /\ \A i \in 1 .. Len(s) : Append(s, e)[i] = s[i]
         /\ Append(s, e)[Len(s) + 1] = e
         /\ Range(Append(s, e)) = Range(s) \cup {e}
<1>1. /\ Append(s, e) \in Seq(S) /\ Len(Append(s, e)) = Len(s) + 1 /\ Len(s) \in Nat
      /\ DOMAIN s = 1 .. Len(s) /\ DOMAIN Append(s, e) = 1 .. Len(s) + 1
      /\ \A i \in 1 .. Len(s) : Append(s, e)[i] = s[i]
      /\ Append(s, e)[Len(s) + 1] = e
  OBVIOUS
<1>2. Range(Append(s, e)) \subseteq Range(s) \cup {e}
  <2>1. ASSUME NEW i \in 1 .. Len(s) + 1 PROVE Append(s, e)[i] \in Range(s) \cup {e}
    <3>1. CASE i = Len(s) + 1
      BY <1>1, <3>1
    <3>2. CASE i # Len(s) + 1
      BY <1>1, <2>1, <3>2 DEF Range
    <3>3. QED
      BY <3>1, <3>2
  <2>2. QED
    BY <1>1, <2>1 DEF Range
<1>3. Range(s) \cup {e} \subseteq Range(Append(s, e))
  <2>1. e \in Range(Append(s, e))
    BY <1>1 DEF Range
  <2>2. Range(s) \subseteq Range(Append(s, e))
    BY <1>1 DEF Range
  <2>3. QED
    BY <2>1, <2>2
<1>4. QED
  BY <1>1, <1>2, <1>3
-----------------------------------------------------------------------------
LEMMA ScoreLoopStep ==
  ASSUME LoopInv, ScoreCandidate
  PROVE  LoopInv'
<1> DEFINE r == raw_candidates[next]
<1>1. TypeOK /\ ScoreLoop /\ FoundOK /\ pc = "score" /\ next \in Nat /\ next <= Len(raw_candidates)
  BY DEF LoopInv, TypeOK, ScoreCandidate
<1>2. UNCHANGED <<table, pc, search, deduplicated>> /\ next' = next + 1
  BY DEF ScoreCandidate
<1>3. /\ FoundOK' /\ Rows' = Rows /\ raw_candidates' = raw_candidates
      /\ \A s \in Rows : Qualifies(s)' = Qualifies(s)
  BY <1>1, <1>2, ScoresKept
<1>4. r \in Rows /\ scored_candidates \in Seq(Rows) /\ Len(raw_candidates) \in Nat
      /\ \A j \in 1 .. Len(raw_candidates) : raw_candidates[j] \in Rows
  BY <1>1 DEF TypeOK
<1>5. scored_candidates' = IF Qualifies(r) THEN Append(scored_candidates, r) ELSE scored_candidates
  BY DEF ScoreCandidate
<1> HIDE DEF r
<1>6. /\ scored_candidates' \in Seq(Rows) /\ Len(scored_candidates') <= Len(scored_candidates) + 1
      /\ Len(scored_candidates) \in Nat /\ Len(scored_candidates') \in Nat
      /\ Scored' = IF Qualifies(r) THEN Scored \cup {r} ELSE Scored
  <2>1. CASE Qualifies(r)
    <3>1. scored_candidates' = Append(scored_candidates, r)
      BY <1>5, <2>1
    <3>2. QED
      BY <1>4, <2>1, <3>1, Appended DEF Scored
  <2>2. CASE ~Qualifies(r)
    BY <1>4, <1>5, <2>2 DEF Scored
  <2>3. QED
    BY <2>1, <2>2
<1>7. TypeOK'
  <2>1. next' \in 1 .. Limit + 1 /\ Len(scored_candidates') <= Len(raw_candidates')
    <3>1. /\ Len(raw_candidates) <= Limit /\ Limit \in Nat /\ next \in Nat /\ 1 <= next
          /\ Len(scored_candidates) <= next - 1
      BY <1>1, RetrievalAssumption DEF TypeOK, ScoreLoop
    <3>2. next + 1 \in 1 .. Limit + 1
      BY <1>1, <1>4, <3>1
    <3>3. Len(scored_candidates') <= Len(raw_candidates)
      BY <1>1, <1>4, <1>6, <3>1
    <3>4. QED
      BY <1>2, <1>3, <3>2, <3>3
  <2>2. QED
    BY <1>1, <1>2, <1>3, <1>6, <2>1 DEF TypeOK, search
<1>8. (\A s \in Scored : Qualifies(s))'
  <2>1. Scored \subseteq Rows /\ \A s \in Scored : Qualifies(s)
    BY <1>4 DEF LoopInv, Scored, Range
  <2>2. QED
    BY <1>3, <1>4, <1>6, <2>1
<1>9. ScoreLoop'
  <2>1. ASSUME NEW j \in 1 .. next, Qualifies(raw_candidates[j])
        PROVE  raw_candidates[j] \in Scored'
    <3>1. CASE j = next
      BY <1>6, <2>1, <3>1 DEF r
    <3>2. CASE j # next
      BY <1>1, <1>6, <2>1, <3>2 DEF ScoreLoop
    <3>3. QED
      BY <3>1, <3>2
  <2>2. next' - 1 = next
    BY <1>1, <1>2
  <2>3. \A j \in 1 .. next : raw_candidates[j] \in Rows
    BY <1>1, <1>4
  <2>4. QED
    BY <1>1, <1>2, <1>3, <1>4, <1>6, <2>1, <2>2, <2>3 DEF ScoreLoop
<1>10. NoTwins'
  BY <1>1, <1>2 DEF ScoreLoop, NoTwins
<1>11. QED
  BY <1>1, <1>2, <1>3, <1>7, <1>8, <1>9, <1>10 DEF LoopInv

LEMMA RankStep ==
  ASSUME LoopInv, Rank
  PROVE  LoopInv'
<1>1. TypeOK /\ ScoreLoop /\ FoundOK /\ pc = "score" /\ next > Len(raw_candidates) /\ next \in Nat
      /\ (\A r \in Scored : Qualifies(r))
  BY DEF LoopInv, TypeOK, Rank
<1>2. UNCHANGED <<table, search, deduplicated>> /\ next' = 1 /\ pc' = "offer"
      /\ scored_candidates' \in [DOMAIN scored_candidates -> Range(scored_candidates)]
      /\ Sorted(scored_candidates', scored_candidates)
  BY DEF Rank
<1>3. /\ FoundOK' /\ Rows' = Rows /\ raw_candidates' = raw_candidates /\ Found' = Found
      /\ \A s \in Rows : Qualifies(s)' = Qualifies(s) /\ final_score(s)' = final_score(s)
  BY <1>1, <1>2, ScoresKept
<1>4. /\ Len(scored_candidates) \in Nat /\ DOMAIN scored_candidates = 1 .. Len(scored_candidates)
      /\ Scored \subseteq Rows
  BY <1>1 DEF TypeOK, Scored, Range
<1>5. PICK p \in Bijection(DOMAIN scored_candidates, DOMAIN scored_candidates) :
        /\ scored_candidates' = [i \in DOMAIN scored_candidates |-> scored_candidates[p[i]]]
        /\ \A i, j \in DOMAIN scored_candidates :
             i < j => AtLeast(scored_candidates'[i], scored_candidates'[j])
  BY <1>2 DEF Sorted
<1>6. /\ \A i \in DOMAIN scored_candidates : p[i] \in DOMAIN scored_candidates
      /\ \A j \in DOMAIN scored_candidates : \E i \in DOMAIN scored_candidates : p[i] = j
  BY <1>5 DEF Bijection, Injection, Surjection
<1>7. Scored' = Scored
  BY <1>5, <1>6 DEF Scored, Range
<1>8. /\ scored_candidates' \in Seq(Rows) /\ Len(scored_candidates') = Len(scored_candidates)
      /\ DOMAIN scored_candidates' = DOMAIN scored_candidates
      /\ \A i \in DOMAIN scored_candidates : scored_candidates'[i] \in Rows
  BY <1>2, <1>4 DEF Scored
<1>9. TypeOK'
  BY <1>1, <1>2, <1>3, <1>8, RetrievalAssumption DEF TypeOK, search
<1>10. (\A s \in Scored : Qualifies(s))'
  BY <1>1, <1>3, <1>4, <1>7
<1>11. OfferLoop'
  <2>1. (\A r \in Found : Qualifies(r) => r \in Scored)'
    <3>1. ASSUME NEW r \in Found, Qualifies(r) PROVE r \in Scored
      <4>1. PICK j \in DOMAIN raw_candidates : r = raw_candidates[j]
        BY DEF Found, Range
      <4>2. j \in 1 .. next - 1
        BY <1>1 DEF TypeOK
      <4>3. QED
        BY <1>1, <3>1, <4>1, <4>2 DEF ScoreLoop
    <3>2. Found \subseteq Rows
      BY <1>1 DEF TypeOK, Found, Range
    <3>3. QED
      BY <1>3, <1>7, <3>1, <3>2
  <2>2. (\A i, j \in DOMAIN scored_candidates :
           i < j => AtLeast(scored_candidates[i], scored_candidates[j]))'
    BY <1>3, <1>5, <1>8 DEF AtLeast
  <2>3. Offered' = {} /\ deduplicated' = <<>>
    BY <1>1, <1>2 DEF ScoreLoop, Offered, Range
  <2>4. next' - 1 = 0 /\ next' <= Len(scored_candidates') + 1
    BY <1>2, <1>4, <1>8
  <2>5. QED
    BY <1>2, <2>1, <2>2, <2>3, <2>4 DEF OfferLoop
<1>12. NoTwins'
  BY <1>1, <1>2 DEF ScoreLoop, NoTwins
<1>13. QED
  BY <1>2, <1>3, <1>9, <1>10, <1>11, <1>12 DEF LoopInv

LEMMA QuietSteps ==
  ASSUME LoopInv, SearchFails \/ Compress \/ Prompt
  PROVE  LoopInv'
<1>1. CASE SearchFails
  <2>1. TypeOK'
    BY <1>1, RetrievalAssumption DEF LoopInv, SearchFails, TypeOK, search, Rows
  <2>2. Fresh' /\ pc' = "failed"
    BY <1>1 DEF LoopInv, SearchFails, Fresh, search
  <2>3. QED
    BY <2>1, <2>2 DEF LoopInv, Fresh, NoTwins, Scored, Range
<1>2. CASE Compress
  <2>1. UNCHANGED <<table, search, next, scored_candidates, deduplicated>> /\ pc = "offer" /\ pc' = "done"
        /\ (next > Len(scored_candidates) \/ Full)
    BY <1>2 DEF Compress
  <2>2. TypeOK' /\ OfferLoop /\ FoundOK
    BY <2>1 DEF LoopInv, TypeOK, search, Rows
  <2>3. /\ FoundOK' /\ Rows' = Rows /\ Found' = Found
        /\ \A s \in Rows : /\ Memory(s)' = Memory(s) /\ final_score(s)' = final_score(s)
                           /\ Qualifies(s)' = Qualifies(s)
    BY <2>1, <2>2, ScoresKept
  <2>4. /\ \A r \in Scored : Qualifies(r)
        /\ Scored \subseteq Rows /\ Found \subseteq Rows /\ Offered \subseteq Rows
        /\ \A j \in DOMAIN scored_candidates : scored_candidates[j] \in Rows
        /\ \A j \in DOMAIN deduplicated : deduplicated[j] \in Rows
        /\ Scored' = Scored /\ Offered' = Offered
        /\ DOMAIN scored_candidates = 1 .. Len(scored_candidates) /\ next \in Nat
        /\ Len(scored_candidates) \in Nat
    BY <2>1 DEF LoopInv, TypeOK, Scored, Found, Offered, Range
  <2>5. OfferLoop'
    BY <2>1, <2>2, OfferKept DEF LoopInv
  <2>6. NoTwins' /\ (\A r \in Scored : Qualifies(r))'
    BY <2>1, <2>3, <2>4 DEF LoopInv, NoTwins
  <2>7. QED
    BY <2>1, <2>2, <2>3, <2>5, <2>6 DEF LoopInv, Full
<1>3. CASE Prompt
  <2>1. TypeOK'
    BY <1>3, RetrievalAssumption DEF LoopInv, Prompt, TypeOK, Rows
  <2>2. Fresh' /\ pc' = "idle"
    BY <1>3 DEF Prompt, Fresh
  <2>3. QED
    BY <2>1, <2>2 DEF LoopInv, Fresh, NoTwins, Scored, Range
<1>4. QED
  BY <1>1, <1>2, <1>3

LEMMA OfferStep ==
  ASSUME LoopInv, OfferCandidate
  PROVE  LoopInv'
<1> DEFINE r == scored_candidates[next]
<1>1. /\ TypeOK /\ OfferLoop /\ FoundOK /\ NoTwins /\ pc = "offer" /\ ~Full
      /\ next \in Nat \ {0} /\ next <= Len(scored_candidates) /\ (\A s \in Scored : Qualifies(s))
  BY RetrievalAssumption DEF LoopInv, TypeOK, OfferCandidate
<1>2. UNCHANGED <<table, pc, search, scored_candidates>> /\ next' = next + 1
      /\ deduplicated' = IF is_duplicate(r) THEN deduplicated ELSE Append(deduplicated, r)
  BY DEF OfferCandidate
<1>3. /\ FoundOK' /\ Rows' = Rows /\ Found' = Found /\ Scored' = Scored
      /\ raw_candidates' = raw_candidates
      /\ \A s \in Rows : /\ Memory(s)' = Memory(s) /\ final_score(s)' = final_score(s)
                         /\ Qualifies(s)' = Qualifies(s)
  BY <1>1, <1>2, ScoresKept DEF Scored
<1>4. /\ Len(scored_candidates) \in Nat /\ DOMAIN scored_candidates = 1 .. Len(scored_candidates)
      /\ \A j \in 1 .. Len(scored_candidates) : scored_candidates[j] \in Rows
      /\ Scored \subseteq Rows /\ Found \subseteq Rows
  BY <1>1 DEF TypeOK, Scored, Found, Range
<1>5. /\ deduplicated \in Seq(Rows) /\ Len(deduplicated) \in Nat
      /\ DOMAIN deduplicated = 1 .. Len(deduplicated)
      /\ \A j \in 1 .. Len(deduplicated) : deduplicated[j] \in Rows
      /\ Offered \subseteq Rows
  BY <1>1 DEF TypeOK, Offered, Range
<1>6. r \in Rows /\ r \in Scored
  BY <1>1, <1>4 DEF Scored, Range
<1>7. \A a, b \in Rows : AtLeast(a, b)' = AtLeast(a, b)
  BY <1>3 DEF AtLeast
<1>8. Len(deduplicated) < Keep
  BY <1>1, <1>5, RetrievalAssumption DEF Full
<1>9. AtLeast(r, r) /\ \A j \in next + 1 .. Len(scored_candidates) : AtLeast(r, scored_candidates[j])
  <2>1. final_score(r) \in Int
    BY <1>1, <1>6, QualifyingScore
  <2>2. \A j \in next + 1 .. Len(scored_candidates) : AtLeast(scored_candidates[next], scored_candidates[j])
    BY <1>1, <1>4 DEF OfferLoop
  <2>3. QED
    BY <2>1, <2>2 DEF AtLeast
<1>10. /\ next' - 1 = next /\ next' <= Len(scored_candidates') + 1 /\ next' \in 1 .. Limit + 1
       /\ next' .. Len(scored_candidates') = next + 1 .. Len(scored_candidates)
  BY <1>1, <1>2, <1>4, RetrievalAssumption DEF TypeOK
<1>11. \A o \in Offered : AtLeast(o, r)
  BY <1>1, <1>4 DEF OfferLoop
<1>12. ASSUME Offered \subseteq Offered', r \in Offered' \/ is_duplicate(r)
       PROVE  \A j \in 1 .. next : Told(scored_candidates[j])'
  <2>1. ASSUME NEW j \in 1 .. next PROVE Told(scored_candidates[j])'
    <3>1. scored_candidates[j] \in Rows
      BY <1>1, <1>4, <2>1
    <3>2. ASSUME NEW s \in Rows, Told(s) PROVE Told(s)'
      BY <1>3, <1>5, <1>7, <1>12, <3>2 DEF Told
    <3>3. CASE j < next
      <4>1. Told(scored_candidates[j])
        BY <1>1, <2>1, <3>3 DEF OfferLoop
      <4>2. QED
        BY <1>2, <3>1, <3>2, <4>1
    <3>4. CASE j = next /\ r \in Offered'
      BY <1>2, <3>4 DEF Told
    <3>5. CASE j = next /\ is_duplicate(r)
      <4>1. PICK i \in DOMAIN deduplicated : Twin(Memory(deduplicated[i]), Memory(r))
        BY <3>5 DEF is_duplicate
      <4>2. deduplicated[i] \in Offered
        BY <4>1 DEF Offered, Range
      <4>3. Told(r)
        BY <1>11, <4>1, <4>2 DEF Told
      <4>4. QED
        BY <1>2, <1>6, <3>2, <3>5, <4>3
    <3>6. QED
      BY <1>12, <2>1, <3>3, <3>4, <3>5, <1>1
  <2>2. QED
    BY <2>1
<1> HIDE DEF r
<1>13. CASE is_duplicate(r)
  <2>1. deduplicated' = deduplicated /\ Offered' = Offered
    BY <1>2, <1>13 DEF Offered
  <2>2. TypeOK'
    BY <1>1, <1>2, <1>3, <1>10, <2>1 DEF TypeOK, search
  <2>3. \A j \in 1 .. next : Told(scored_candidates[j])'
    BY <1>12, <1>13, <2>1
  <2>4. OfferLoop'
    <3>1. (\A s \in Found : Qualifies(s) => s \in Scored)'
      BY <1>1, <1>3, <1>4 DEF OfferLoop
    <3>2. (\A i, j \in DOMAIN scored_candidates :
             i < j => AtLeast(scored_candidates[i], scored_candidates[j]))'
      BY <1>1, <1>2, <1>4, <1>7 DEF OfferLoop
    <3>3. (Offered \subseteq Scored)'
      BY <1>1, <1>3, <2>1 DEF OfferLoop
    <3>4. (\A j \in 1 .. next - 1 : Told(scored_candidates[j]))'
      BY <1>2, <1>10, <2>3
    <3>5. (\A o \in Offered, j \in next .. Len(scored_candidates) : AtLeast(o, scored_candidates[j]))'
      <4>1. ASSUME NEW o \in Offered, NEW j \in next + 1 .. Len(scored_candidates)
            PROVE  AtLeast(o, scored_candidates[j])'
        <5>1. AtLeast(o, scored_candidates[j]) /\ j \in 1 .. Len(scored_candidates)
          BY <1>1, <1>4, <4>1 DEF OfferLoop
        <5>2. QED
          BY <1>2, <1>4, <1>5, <1>7, <5>1
      <4>2. QED
        BY <1>2, <1>10, <2>1, <4>1
    <3>6. (\A i, j \in DOMAIN deduplicated : i < j => AtLeast(deduplicated[i], deduplicated[j]))'
      BY <1>1, <1>5, <1>7, <2>1 DEF OfferLoop
    <3>7. QED
      BY <1>10, <3>1, <3>2, <3>3, <3>4, <3>5, <3>6 DEF OfferLoop
  <2>5. NoTwins'
    BY <1>1, <1>3, <1>5, <2>1 DEF NoTwins
  <2>6. QED
    BY <1>1, <1>2, <1>3, <1>4, <2>2, <2>4, <2>5 DEF LoopInv
<1>14. CASE ~is_duplicate(r)
  <2>1. deduplicated' = Append(deduplicated, r)
    BY <1>2, <1>14
  <2>2. /\ deduplicated' \in Seq(Rows) /\ Len(deduplicated') = Len(deduplicated) + 1
        /\ DOMAIN deduplicated' = 1 .. Len(deduplicated) + 1
        /\ \A i \in 1 .. Len(deduplicated) : deduplicated'[i] = deduplicated[i]
        /\ deduplicated'[Len(deduplicated) + 1] = r
        /\ Offered' = Offered \cup {r}
    BY <1>5, <1>6, <2>1, Appended DEF Offered
  <2>3. TypeOK'
    <3>1. deduplicated' \in Seq(Rows') /\ Len(deduplicated') <= Keep
      BY <1>3, <1>5, <1>8, <2>2, RetrievalAssumption
    <3>2. QED
      BY <1>1, <1>2, <1>3, <1>10, <3>1 DEF TypeOK, search
  <2>4. \A j \in 1 .. next : Told(scored_candidates[j])'
    BY <1>12, <2>2
  <2>5. OfferLoop'
    <3>1. (\A s \in Found : Qualifies(s) => s \in Scored)'
      BY <1>1, <1>3, <1>4 DEF OfferLoop
    <3>2. (\A i, j \in DOMAIN scored_candidates :
             i < j => AtLeast(scored_candidates[i], scored_candidates[j]))'
      BY <1>1, <1>2, <1>4, <1>7 DEF OfferLoop
    <3>3. (Offered \subseteq Scored)'
      BY <1>1, <1>3, <1>6, <2>2 DEF OfferLoop
    <3>4. (\A j \in 1 .. next - 1 : Told(scored_candidates[j]))'
      BY <1>2, <1>10, <2>4
    <3>5. (\A o \in Offered, j \in next .. Len(scored_candidates) : AtLeast(o, scored_candidates[j]))'
      <4>1. ASSUME NEW o \in Offered \cup {r}, NEW j \in next + 1 .. Len(scored_candidates)
            PROVE  AtLeast(o, scored_candidates[j])'
        <5>1. o \in Rows /\ AtLeast(o, scored_candidates[j]) /\ j \in 1 .. Len(scored_candidates)
          BY <1>1, <1>4, <1>5, <1>6, <1>9, <4>1 DEF OfferLoop
        <5>2. QED
          BY <1>2, <1>4, <1>7, <5>1
      <4>2. QED
        BY <1>2, <1>10, <2>2, <4>1
    <3>6. (\A i, j \in DOMAIN deduplicated : i < j => AtLeast(deduplicated[i], deduplicated[j]))'
      <4>1. ASSUME NEW i \in 1 .. Len(deduplicated) + 1, NEW j \in 1 .. Len(deduplicated) + 1, i < j
            PROVE  AtLeast(deduplicated[i], deduplicated[j])'
        <5>1. i \in 1 .. Len(deduplicated) /\ deduplicated[i] \in Offered /\ deduplicated[i] \in Rows
          BY <1>5, <4>1 DEF Offered, Range
        <5>2. CASE j = Len(deduplicated) + 1
          BY <1>6, <1>7, <1>11, <2>2, <5>1, <5>2
        <5>3. CASE j # Len(deduplicated) + 1
          <6>1. j \in 1 .. Len(deduplicated) /\ deduplicated[j] \in Rows
            BY <1>5, <4>1, <5>3
          <6>2. AtLeast(deduplicated[i], deduplicated[j])
            BY <1>1, <1>5, <4>1, <5>1, <6>1 DEF OfferLoop
          <6>3. QED
            BY <1>7, <2>2, <5>1, <6>1, <6>2
        <5>4. QED
          BY <5>2, <5>3
      <4>2. QED
        BY <2>2, <4>1
    <3>7. QED
      BY <1>10, <3>1, <3>2, <3>3, <3>4, <3>5, <3>6 DEF OfferLoop
  <2>6. NoTwins'
    <3>1. ASSUME NEW i \in 1 .. Len(deduplicated) + 1, NEW j \in 1 .. Len(deduplicated) + 1, i < j
          PROVE  ~Twin(Memory(deduplicated[i]), Memory(deduplicated[j]))'
      <4>1. i \in 1 .. Len(deduplicated) /\ deduplicated[i] \in Rows
        BY <1>5, <3>1
      <4>2. CASE j = Len(deduplicated) + 1
        <5>1. ~Twin(Memory(deduplicated[i]), Memory(r))
          BY <1>5, <1>14, <4>1 DEF is_duplicate
        <5>2. QED
          BY <1>3, <1>6, <2>2, <4>1, <4>2, <5>1
      <4>3. CASE j # Len(deduplicated) + 1
        <5>1. j \in 1 .. Len(deduplicated) /\ deduplicated[j] \in Rows
          BY <1>5, <3>1, <4>3
        <5>2. ~Twin(Memory(deduplicated[i]), Memory(deduplicated[j]))
          BY <1>1, <1>5, <3>1, <4>1, <5>1 DEF NoTwins
        <5>3. QED
          BY <1>3, <2>2, <4>1, <5>1, <5>2
      <4>4. QED
        BY <4>2, <4>3
    <3>2. QED
      BY <2>2, <3>1 DEF NoTwins
  <2>7. QED
    BY <1>1, <1>2, <1>3, <1>4, <2>3, <2>5, <2>6 DEF LoopInv
<1>15. QED
  BY <1>13, <1>14
-----------------------------------------------------------------------------
LEMMA LoopStep == LoopInv /\ [Next]_vars => LoopInv'
<1> SUFFICES ASSUME LoopInv, [Next]_vars PROVE LoopInv'
  OBVIOUS
<1>1. CASE \E content \in Rules, dir \in Dirs : Learn(content, dir)
  BY <1>1, LearnLoop
<1>2. CASE Retrieve
  BY <1>2, SearchLoop, ScoreLoopStep, RankStep, OfferStep, QuietSteps DEF Retrieve
<1>3. CASE UNCHANGED vars
  <2>1. TypeOK'
    BY <1>3 DEF vars, search, LoopInv, TypeOK, Rows
  <2>2. QED
    BY <1>3, <2>1, LoopKept DEF vars, LoopInv, TypeOK
<1>4. QED
  BY <1>1, <1>2, <1>3 DEF Next

LEMMA LoopInvariant == Spec => []LoopInv
BY Init_Loop, LoopStep, PTL DEF Spec

(* The loops stay inside the rows that were found and the context inside   *)
(* its limit, whatever the limits are.                                     *)
THEOREM TypeCorrect == Spec => []TypeOK
<1>1. LoopInv => TypeOK
  BY DEF LoopInv
<1>2. QED
  BY <1>1, LoopInvariant, PTL

(* No NaN reaches the sort: a comparison with NaN is false, so the row is  *)
(* dropped before partial_cmp(..).unwrap() could panic on it.              *)
THEOREM SortTotal == Spec => []SortIsTotal
<1>1. LoopInv => SortIsTotal
  <2>1. ASSUME LoopInv, NEW i \in DOMAIN scored_candidates
        PROVE  final_score(scored_candidates[i]) # NaN
    BY <2>1 DEF LoopInv, Qualifies, Scored, Range
  <2>2. QED
    BY <2>1 DEF SortIsTotal
<1>2. QED
  BY <1>1, LoopInvariant, PTL

(* A prompt says nothing twice.                                            *)
THEOREM NoTwinsCorrect == Spec => []NoTwins
<1>1. LoopInv => NoTwins
  BY DEF LoopInv
<1>2. QED
  BY <1>1, LoopInvariant, PTL

(* Nothing worth telling is lost but to a limit or to a twin that weighs   *)
(* no less.                                                                *)
THEOREM NothingLostCorrect == Spec => []NothingLost
<1>1. LoopInv => NothingLost
  <2> SUFFICES ASSUME LoopInv, pc = "done", NEW r \in Rows, Qualifies(r)
               PROVE  r \in Offered \/ Excused(r)
    BY DEF NothingLost
  <2>1. TypeOK /\ FoundOK /\ OfferLoop /\ (next > Len(scored_candidates) \/ Full)
    BY DEF LoopInv
  <2>2. CASE r \notin Found
    BY <2>1, <2>2 DEF FoundOK, Found, Range, Excused
  <2>3. CASE r \in Found
    <3>1. PICK j \in DOMAIN scored_candidates : r = scored_candidates[j]
      BY <2>1, <2>3 DEF OfferLoop, Scored, Range
    <3>2. j \in 1 .. Len(scored_candidates) /\ Len(scored_candidates) \in Nat /\ next \in Nat
      BY <2>1, <3>1 DEF TypeOK
    <3>3. CASE j < next
      <4>1. Told(r)
        BY <2>1, <3>1, <3>2, <3>3 DEF OfferLoop
      <4>2. QED
        BY <4>1 DEF Told, AtLeast, Excused
    <3>4. CASE j >= next
      <4>1. Len(deduplicated) = Keep
        <5>1. Len(deduplicated) <= Keep /\ Len(deduplicated) \in Nat
          BY <2>1 DEF TypeOK
        <5>2. Keep \in Nat
          BY RetrievalAssumption
        <5>3. Len(deduplicated) >= Keep
          BY ONLY <2>1, <3>2, <3>4 DEF Full
        <5>4. QED
          BY <5>1, <5>2, <5>3
      <4>2. \A o \in Offered : AtLeast(o, r)
        BY <2>1, <3>1, <3>2, <3>4 DEF OfferLoop
      <4>3. QED
        BY <4>1, <4>2 DEF AtLeast, Excused
    <3>5. QED
      BY <3>2, <3>3, <3>4
  <2>4. QED
    BY <2>2, <2>3
<1>2. QED
  BY <1>1, LoopInvariant, PTL

(* A rule of a directory passes the scope filter there and nowhere else,   *)
(* and there its bonus is enough to pass the threshold, if directories are *)
(* paths that ScopeReadAsWritten reads back.                               *)
THEOREM RulesAtHomeCorrect ==
  ASSUME \A dir \in Dirs : dir = <<>> \/ dir[1] # "Project:"
  PROVE  Spec => []RulesAtHome
<1>1. LoopInv /\ NothingLost => RulesAtHome
  <2> SUFFICES ASSUME LoopInv, NothingLost, NEW r \in Rows, NEW dir \in Dirs,
                      table[r].scope = scope_to_string(Project(dir))
               PROVE  /\ r \in Offered => dir = Cwd
                      /\ ( /\ pc = "done" /\ dir = Cwd /\ similarity[r] # NaN /\ similarity[r] > 0
                           /\ table[r].utility_score >= 0 )
                         => r \in Offered \/ Excused(r)
    BY DEF RulesAtHome
  <2>1. Memory(r).scope = Project(dir) /\ Memory(r).utility_score = table[r].utility_score
        /\ Memory(r).supersedes_id = None
    <3>1. dir \in Seq(Strings)
      BY RetrievalAssumption
    <3>2. scope_from_str(table[r].scope) = Project(dir)
      BY <3>1, ScopeReadAsWritten
    <3>3. QED
      BY <3>2 DEF Memory, Fetched
  <2>2. ASSUME r \in Offered PROVE dir = Cwd
    <3>1. Offered \subseteq Scored
      <4>1. CASE pc \in {"offer", "done"}
        BY <4>1 DEF LoopInv, OfferLoop
      <4>2. CASE pc \in {"idle", "failed", "score"}
        BY <4>2 DEF LoopInv, Fresh, ScoreLoop, Offered, Range
      <4>3. QED
        BY <4>1, <4>2 DEF LoopInv, TypeOK
    <3>2. ~Foreign(Memory(r))
      BY <2>2, <3>1 DEF LoopInv, Qualifies
    <3>3. QED
      BY <2>1, <3>2 DEF Foreign, Project
  <2>3. ASSUME pc = "done", dir = Cwd, similarity[r] # NaN, similarity[r] > 0,
               table[r].utility_score >= 0
        PROVE  r \in Offered \/ Excused(r)
    <3>1. similarity[r] \in Nat /\ table[r].utility_score \in Int /\ NaN \notin Int
      <4>1. table[r] \in Row /\ similarity[r] \in Nat \cup {NaN}
        BY RetrievalAssumption DEF LoopInv, TypeOK, Rows
      <4>2. QED
        BY <2>3, <4>1, RetrievalAssumption DEF Row
    <3>2. ~Foreign(Memory(r)) /\ Own(Memory(r))
      BY <2>1, <2>3 DEF Foreign, Own, Project
    <3>3. final_score(r) = similarity[r] + 5 + table[r].utility_score
      BY <2>1, <2>3, <3>1, <3>2 DEF final_score
    <3>4. Qualifies(r)
      BY <2>3, <3>1, <3>2, <3>3 DEF Qualifies
    <3>5. QED
      BY <2>3, <3>4 DEF NothingLost
  <2>4. QED
    BY <2>2, <2>3
<1>2. QED
  BY <1>1, LoopInvariant, NothingLostCorrect, PTL
=============================================================================
