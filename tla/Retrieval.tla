------------------------------ MODULE Retrieval ------------------------------
(***************************************************************************)
(* How what was learned reaches a prompt: the consolidator commits rules   *)
(* to LanceDB while a connection retrieves the context of its request      *)
(* (memory_manager.rs): the nearest rows, scored one by one, sorted, and   *)
(* deduplicated down to a handful.  Similarities and scores are in tenths; *)
(* a string is a sequence of pieces, its tags single pieces.               *)
(***************************************************************************)
EXTENDS Integers, Sequences, FiniteSets, Functions

CONSTANTS
  Strings,       (* the pieces strings are made of                      *)
  Tables,        (* what the table may hold when the daemon opens it     *)
  Rules,         (* contents the consolidator may learn                  *)
  Dirs,          (* directories shells work in                           *)
  Cwd,           (* the directory the daemon works in                    *)
  Contains,      (* <<a, b>>: a contains the first ten characters of b,  *)
                 (* and there are some                                   *)
  Similarities,  (* 1 / (1 + distance), in tenths, or NaN                *)
  NaN,
  None,          (* Option::None                                         *)
  Limit,         (* rows a search returns: 30                            *)
  Keep,          (* memories a prompt takes: 5                           *)
  MaxRows        (* bound: rows in the table                             *)

Types == {"Fact", "Preference", "Rule", "Experience", "ErrorFix", "Workflow"}

(* A row of LanceDB (get_schema), but for its vector and its birthday.     *)
Row == [content : Strings, scope : Seq(Strings), mem_type : Strings, utility_score : Int]

ASSUME RetrievalAssumption ==
  /\ Types \cup {"Global", "Project:", "Session:"} \subseteq Strings
  /\ Limit \in Nat \ {0} /\ Keep \in Nat \ {0} /\ MaxRows \in Nat
  /\ NaN \notin Int /\ Similarities \subseteq Nat \cup {NaN}
  /\ Tables \subseteq Seq(Row) /\ \A t \in Tables : Len(t) <= MaxRows
  /\ Rules \subseteq Strings /\ Dirs \subseteq Seq(Strings)

VARIABLES
  table,         (* the rows of LanceDB, oldest first                    *)
  pc,            (* of retrieve_and_compress_context                     *)
  similarity,    (* of the rows to the request, when it searched         *)
  raw_candidates, next,   (* rows found, and the next one to look at     *)
  scored_candidates, deduplicated

search == <<similarity, raw_candidates>>
vars   == <<table, pc, search, next, scored_candidates, deduplicated>>
-----------------------------------------------------------------------------
(* memory_types.rs: what a memory is and how it is written down.           *)

Global        == [kind |-> "Global", name |-> <<>>]
Project(path) == [kind |-> "Project", name |-> path]

scope_to_string(scope) ==
  CASE scope.kind = "Global"  -> <<"Global">>
    [] scope.kind = "Project" -> <<"Project:">> \o scope.name
    [] scope.kind = "Session" -> <<"Session:">> \o scope.name

(* All leading copies of the tag go.                                       *)
trim_start_matches(s, tag) ==
  LET copies == CHOOSE n \in 0 .. Len(s) :
                  /\ \A i \in 1 .. n : s[i] = tag
                  /\ n < Len(s) => s[n + 1] # tag
  IN  SubSeq(s, copies + 1, Len(s))

TagKept(s) == IF s # <<>> /\ s[1] = "Project:" THEN Project(s) ELSE Global
scope_from_str(s) ==
  CASE s # <<>> /\ s[1] = "Project:" -> Project(trim_start_matches(s, "Project:"))
    [] s # <<>> /\ s[1] = "Session:" ->
         [kind |-> "Session", name |-> trim_start_matches(s, "Session:")]
    [] OTHER -> Global

type_from_str(s) == IF s \in Types THEN s ELSE "Fact"

MemoryEntity(content, scope, mem_type) ==
  [content |-> content, scope |-> scope, mem_type |-> mem_type,
   utility_score |-> 0, supersedes_id |-> None]

(* vector_store.rs: a row has no column for supersedes_id ...              *)
add_memory_vector(m) ==
  [content |-> m.content, scope |-> scope_to_string(m.scope), mem_type |-> m.mem_type,
   utility_score |-> m.utility_score]

(* ... so fetch_raw_candidates finds none.                                 *)
Fetched(row) ==
  [content |-> row.content, scope |-> scope_from_str(row.scope),
   mem_type |-> type_from_str(row.mem_type),
   utility_score |-> row.utility_score, supersedes_id |-> None]

Memory(r) == Fetched(table[r])
-----------------------------------------------------------------------------
Init ==
  /\ table \in Tables
  /\ pc = "idle"
  /\ similarity = <<>> /\ raw_candidates = <<>> /\ next = 1
  /\ scored_candidates = <<>> /\ deduplicated = <<>>

(* consolidator.rs: a rule of the directory its fix ran in is committed.   *)
Learn(content, dir) ==
  /\ Len(table) < MaxRows
  /\ table' = Append(table, add_memory_vector(MemoryEntity(content, Project(dir), "ErrorFix")))
  /\ UNCHANGED <<pc, search, next, scored_candidates, deduplicated>>
-----------------------------------------------------------------------------
(* A request looks for its context.                                        *)

Above(a, b) == a # NaN /\ b # NaN /\ a > b

(* LanceDB: Limit rows, in some order, none of the others nearer.          *)
Nearest(rows, sim) ==
  /\ rows \subseteq DOMAIN sim
  /\ Cardinality(rows) <= Limit
  /\ rows # DOMAIN sim => Cardinality(rows) = Limit
  /\ \A near \in rows, far \in DOMAIN sim \ rows : ~Above(sim[far], sim[near])

Search ==
  /\ pc = "idle"
  /\ similarity' \in [DOMAIN table -> Similarities]
  /\ \E rows \in SUBSET DOMAIN table :
       /\ Nearest(rows, similarity')
       /\ raw_candidates' \in Bijection(1 .. Cardinality(rows), rows)
  /\ pc' = "score"
  /\ UNCHANGED <<table, next, scored_candidates, deduplicated>>

(* The embedding or the search fails: unwrap_or_default, no context.       *)
SearchFails ==
  /\ pc = "idle"
  /\ pc' = "failed"
  /\ UNCHANGED <<table, search, next, scored_candidates, deduplicated>>

Foreign(m) == m.scope.kind = "Project" /\ m.scope.name # Cwd
Own(m)     == m.scope.kind = "Project" /\ m.scope.name = Cwd

final_score(r) ==
  IF similarity[r] = NaN THEN NaN
  ELSE similarity[r]
       + (IF Own(Memory(r)) THEN 5 ELSE 0)
       + Memory(r).utility_score
       - (IF Memory(r).supersedes_id # None THEN 100 ELSE 0)

Qualifies(r) == ~Foreign(Memory(r)) /\ final_score(r) # NaN /\ final_score(r) > 5

ScoreCandidate ==
  /\ pc = "score" /\ next <= Len(raw_candidates)
  /\ scored_candidates' = IF Qualifies(raw_candidates[next])
                          THEN Append(scored_candidates, raw_candidates[next])
                          ELSE scored_candidates
  /\ next' = next + 1
  /\ UNCHANGED <<table, pc, search, deduplicated>>

(* sort_by: highest score first, equals in the order they were found.      *)
LowerOrSame(a, b) == final_score(a) <= final_score(b)
AtLeast(a, b)     == final_score(a) >= final_score(b)

Sorted(s, unsorted) ==
  \E p \in Bijection(DOMAIN unsorted, DOMAIN unsorted) :
    /\ s = [i \in DOMAIN unsorted |-> unsorted[p[i]]]
    /\ \A i, j \in DOMAIN unsorted :
         i < j => AtLeast(s[i], s[j]) /\ (AtLeast(s[j], s[i]) => p[i] < p[j])

Rank ==
  /\ pc = "score" /\ next > Len(raw_candidates)
  /\ scored_candidates' \in {s \in [DOMAIN scored_candidates -> Range(scored_candidates)] :
                               Sorted(s, scored_candidates)}
  /\ pc' = "offer" /\ next' = 1
  /\ UNCHANGED <<table, search, deduplicated>>

(* `memory` says what `existing` says already.                             *)
Twin(existing, memory) ==
  /\ existing.mem_type = memory.mem_type
  /\ <<existing.content, memory.content>> \in Contains

is_duplicate(r) == \E i \in DOMAIN deduplicated : Twin(Memory(deduplicated[i]), Memory(r))

FullLate == Len(deduplicated) > Keep
Full     == Len(deduplicated) >= Keep

OfferCandidate ==
  /\ pc = "offer" /\ next <= Len(scored_candidates) /\ ~Full
  /\ deduplicated' = IF is_duplicate(scored_candidates[next]) THEN deduplicated
                     ELSE Append(deduplicated, scored_candidates[next])
  /\ next' = next + 1
  /\ UNCHANGED <<table, pc, search, scored_candidates>>

Compress ==
  /\ pc = "offer" /\ (next > Len(scored_candidates) \/ Full)
  /\ pc' = "done"
  /\ UNCHANGED <<table, search, next, scored_candidates, deduplicated>>

(* The context is in the prompt; the next request starts over.             *)
Prompt ==
  /\ pc \in {"done", "failed"}
  /\ pc' = "idle"
  /\ similarity' = <<>> /\ raw_candidates' = <<>> /\ next' = 1
  /\ scored_candidates' = <<>> /\ deduplicated' = <<>>
  /\ UNCHANGED table

Retrieve == Search \/ SearchFails \/ ScoreCandidate \/ Rank \/ OfferCandidate \/ Compress \/ Prompt

Next ==
  \/ \E content \in Rules, dir \in Dirs : Learn(content, dir)
  \/ Retrieve

Spec == Init /\ [][Next]_vars
-----------------------------------------------------------------------------
(* Properties.                                                             *)

(* Every variable has its type: candidates and context are rows the search *)
(* saw, the loops stay inside them, and the context inside its limit.      *)
Rows == DOMAIN similarity
TypeOK ==
  /\ pc \in {"idle", "score", "offer", "done", "failed"}
  /\ table \in Seq(Row) /\ Len(table) <= MaxRows
  /\ similarity \in [Rows -> Similarities] /\ Rows \subseteq DOMAIN table
  /\ raw_candidates \in Seq(Rows) /\ Len(raw_candidates) <= Limit
  /\ scored_candidates \in Seq(Rows) /\ Len(scored_candidates) <= Len(raw_candidates)
  /\ deduplicated \in Seq(Rows) /\ Len(deduplicated) <= Keep
  /\ next \in 1 .. Limit + 1

Offered == Range(deduplicated)

(* Why a row may be left out: as near a Limit of other rows is, a memory   *)
(* that weighs no less says it already, or the prompt is full of such.     *)
Excused(r) ==
  \/ /\ Len(raw_candidates) = Limit
     /\ \A i \in DOMAIN raw_candidates : ~Above(similarity[r], similarity[raw_candidates[i]])
  \/ \E o \in Offered : final_score(o) >= final_score(r) /\ Twin(Memory(o), Memory(r))
  \/ Len(deduplicated) = Keep /\ \A o \in Offered : final_score(o) >= final_score(r)

(* Nothing worth telling is lost on the way: a row of this directory or of *)
(* all, and of enough weight when the search began, is in the prompt or    *)
(* excused, whatever is committed meanwhile.                               *)
NothingLost ==
  pc = "done" => \A r \in Rows : Qualifies(r) => r \in Offered \/ Excused(r)

(* A rule learned in a directory is told in no other one; in its own it is *)
(* told or excused, however far it is from the request, if nothing was     *)
(* held against it.  The daemon's directory stands for the user's, and the *)
(* rule goes through a row of the table and back.                          *)
RulesAtHome ==
  \A r \in Rows, dir \in Dirs : table[r].scope = scope_to_string(Project(dir)) =>
    /\ r \in Offered => dir = Cwd
    /\ ( /\ pc = "done" /\ dir = Cwd /\ similarity[r] # NaN /\ similarity[r] > 0
         /\ table[r].utility_score >= 0 )
       => r \in Offered \/ Excused(r)

(* A prompt says nothing twice.  Every rule of the consolidator begins     *)
(* "When command", twelve characters: one of them is all a prompt takes.   *)
NoTwins ==
  \A i, j \in DOMAIN deduplicated :
    i < j => ~Twin(Memory(deduplicated[i]), Memory(deduplicated[j]))

(* partial_cmp(..).unwrap() never meets a NaN.                             *)
SortIsTotal == \A i \in DOMAIN scored_candidates : final_score(scored_candidates[i]) # NaN
=============================================================================
