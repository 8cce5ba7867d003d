--------------------------- MODULE FrequencyTable ----------------------------
(***************************************************************************)
(* How often a command was used (new.c): every shell loads ~/.aish_freq    *)
(* when it starts, counts the first word of each line, and writes the      *)
(* table back when it leaves.  So does, through atexit, every child that   *)
(* ends in exit() instead of another program: it writes the table as it    *)
(* was at the fork.                                                        *)
(*                                                                         *)
(* A file is a sequence of cells, one or two for a word and one for its    *)
(* count; a table that fits a buffer is read and written in one step.      *)
(***************************************************************************)
EXTENDS Naturals, SequencesExt

CONSTANTS
  Shells, Children,
  Words,        (* what a line may begin with                            *)
  Exit,         (* the builtin that ends the shell                       *)
  Long,         (* words of two cells, the others have one               *)
  Spaced,       (* long words with a blank, which a variable may hold    *)
  Junk,         (* any word that nobody typed                            *)
  Defaults,     (* load_freq: the table when there is no file            *)
  NoFile,
  Capacity,     (* length of freq_table, 1000                            *)
  MaxStarts,    (* bound: shells started                                 *)
  MaxUses       (* bound: words counted, the defaults included           *)

Procs == Shells \cup Children

Cells == [kind : {"word", "rest", "number"}, word : Words \cup {Junk}, number : Nat]

ASSUME FrequencyAssumption ==
  /\ Shells \cap Children = {}
  /\ Exit \in Words /\ Junk \notin Words
  /\ Spaced \subseteq Long /\ Long \subseteq Words
  /\ Defaults \in Seq(Words \ Spaced) /\ IsInjective(Defaults)
  /\ Capacity \in Nat /\ Len(Defaults) <= Capacity
  /\ NoFile \notin Seq(Cells)

VARIABLES
  file,         (* ~/.aish_freq                                          *)
  proc,         (* where a process is                                    *)
  freq_table,   (* its table                                             *)
  waits,        (* the children a shell waits for                        *)
  starts,
  uses,         (* history: how often each word was used                 *)
  mishap,       (* history: see CountsKept                               *)
  overlapped    (* history: the file was opened for writing twice        *)

vars == <<file, proc, freq_table, waits, starts, uses, mishap, overlapped>>

Entry == [command : Words \cup {Junk}, count : Nat]

Init ==
  /\ file = NoFile
  /\ proc = [p \in Procs |-> "off"]
  /\ freq_table = [p \in Procs |-> <<>>]
  /\ waits = [s \in Shells |-> {}]
  /\ starts = 0
  /\ uses = [w \in Words |-> IF w \in Range(Defaults) THEN 1 ELSE 0]
  /\ mishap = FALSE /\ overlapped = FALSE
-----------------------------------------------------------------------------
(* The file.                                                               *)

Cell(kind, w, n) == [kind |-> kind, word |-> w, number |-> n]

Line(e) == <<Cell("word", e.command, 0)>>
             \o (IF e.command \in Long THEN <<Cell("rest", e.command, 0)>> ELSE <<>>)
             \o <<Cell("number", Junk, e.count)>>

Written(t) == FlattenSeq([i \in DOMAIN t |-> Line(t[i])])

(* A write that starts at the beginning leaves the end of a longer one.    *)
Over(new, old) == new \o SubSeq(old, Len(new) + 1, Len(old))

Is(cells, i, kind) == i \in DOMAIN cells /\ cells[i].kind = kind

(* fscanf: a word up to its last cell, then a number, or it fails.  The    *)
(* end of a line that was cut is a word of its own.                        *)
LastCell(cells, i) == IF Is(cells, i + 1, "rest") THEN i + 1 ELSE i
Scanned(cells, i) ==
  /\ Is(cells, LastCell(cells, i) + 1, "number")
  /\ ~(Is(cells, i, "word") /\ cells[i].word \in Spaced)

EntryAt(cells, i) ==
  [command |-> IF Is(cells, i, "word") THEN cells[i].word ELSE Junk,
   count |-> cells[LastCell(cells, i) + 1].number]

Scan(cells) ==
  LET from[i \in 1 .. Len(cells) + 1] ==
        IF Scanned(cells, i)
        THEN <<EntryAt(cells, i)>> \o from[LastCell(cells, i) + 2]
        ELSE <<>>
  IN  from[1]

FirstOnes(t) == IF Len(t) <= Capacity THEN t ELSE SubSeq(t, 1, Capacity)

ByDefault == [i \in DOMAIN Defaults |-> [command |-> Defaults[i], count |-> 1]]

LoadOnDefaults ==
  FirstOnes(ByDefault \o (IF file = NoFile THEN <<>> ELSE Scan(file)))

load_freq == IF file = NoFile THEN ByDefault ELSE FirstOnes(Scan(file))
-----------------------------------------------------------------------------
(* Counting.                                                               *)

Find(t, w) == SelectInSeq(t, LAMBDA e : e.command = w)

FullFirst(t, w) ==
  LET i == Find(t, w)
  IN  IF Len(t) = Capacity THEN t
      ELSE IF i # 0 THEN [t EXCEPT ![i].count = @ + 1]
      ELSE Append(t, [command |-> w, count |-> 1])

Unlimited(t, w) ==
  LET i == Find(t, w)
  IN  IF i # 0 THEN [t EXCEPT ![i].count = @ + 1]
      ELSE Append(t, [command |-> w, count |-> 1])

update_freq(t, w) ==
  LET i == Find(t, w)
  IN  IF i # 0 THEN [t EXCEPT ![i].count = @ + 1]
      ELSE IF Len(t) < Capacity THEN Append(t, [command |-> w, count |-> 1])
      ELSE t

(* Children that will end in exit(): their command was not found, or they  *)
(* are the right side of a pipeline, or the daemon that was not installed. *)
Idle == {c \in Children : proc[c] = "off"}
Forks(s, K, t) ==
  /\ proc' = [p \in Procs |-> IF p \in K \cup {s} THEN "up" ELSE proc[p]]
  /\ freq_table' = [p \in Procs |-> IF p \in K \cup {s} THEN t ELSE freq_table[p]]

AllUses == FoldFunction(+, 0, uses)

Start(s) ==
  /\ proc[s] = "off" /\ starts < MaxStarts
  /\ \E K \in {{}} \cup {{c} : c \in Idle} : Forks(s, K, load_freq)
  /\ starts' = starts + 1
  /\ mishap' = (mishap \/ \E p \in Procs : proc[p] # "off")
  /\ UNCHANGED <<file, waits, uses, overlapped>>

(* lsh_execute counts a line before it runs it.                            *)
Use(s, w) ==
  /\ proc[s] = "up" /\ waits[s] = {} /\ AllUses < MaxUses
  /\ IF w = Exit
     THEN /\ proc' = [proc EXCEPT ![s] = "leaving"]
          /\ freq_table' = [freq_table EXCEPT ![s] = update_freq(@, w)]
          /\ UNCHANGED waits
     ELSE \E K \in SUBSET Idle : \E waited \in SUBSET K :
          /\ Forks(s, K, update_freq(freq_table[s], w))
          /\ waits' = [waits EXCEPT ![s] = waited]
  /\ uses' = [uses EXCEPT ![w] = @ + 1]
  /\ mishap' = (mishap \/ w \in Spaced)
  /\ UNCHANGED <<file, starts, overlapped>>

(* save_freq: fopen empties the file, fclose writes the buffer.            *)
Leaves(p) == IF p \in Shells THEN proc[p] = "leaving" ELSE proc[p] = "up"

Open(p) ==
  /\ Leaves(p)
  /\ proc' = [proc EXCEPT ![p] = "saving"]
  /\ file' = <<>>
  /\ overlapped' = (overlapped \/ \E q \in Procs : proc[q] = "saving")
  /\ mishap' = (mishap \/ (p \in Shells /\ \E q \in Procs \ {p} : proc[q] # "off"))
  /\ UNCHANGED <<freq_table, waits, starts, uses>>

Ends(p) ==
  /\ proc' = [proc EXCEPT ![p] = "off"]
  /\ freq_table' = [freq_table EXCEPT ![p] = <<>>]
  /\ waits' = [s \in Shells |-> IF s = p THEN {} ELSE waits[s] \ {p}]

Close(p) ==
  /\ proc[p] = "saving"
  /\ Ends(p)
  /\ file' = Over(Written(freq_table[p]), file)
  /\ UNCHANGED <<starts, uses, mishap, overlapped>>

(* A closed terminal, a signal: nothing is saved.                          *)
Kill(p) ==
  /\ proc[p] # "off"
  /\ Ends(p)
  /\ mishap' = (mishap \/ p \in Shells)
  /\ UNCHANGED <<file, starts, uses, overlapped>>

Next ==
  \/ \E s \in Shells : Start(s)
  \/ \E s \in Shells, w \in Words : Use(s, w)
  \/ \E p \in Procs : Open(p)
  \/ \E p \in Procs : Close(p)
  \/ \E p \in Procs : Kill(p)

Spec == Init /\ [][Next]_vars
-----------------------------------------------------------------------------
(* The table fits its array, and a shell waits for its own children only.  *)
TypeOK ==
  /\ file = NoFile \/ file \in Seq(Cells)
  /\ proc \in [Procs -> {"off", "up", "leaving", "saving"}]
  /\ \A p \in Procs : /\ freq_table[p] \in Seq(Entry)
                      /\ Len(freq_table[p]) <= Capacity
  /\ \A s \in Shells : waits[s] \subseteq {c \in Children : proc[c] # "off"}
  /\ \A s, t \in Shells : s # t => waits[s] \cap waits[t] = {}

CountOf(t, w) == LET i == Find(t, w) IN IF i = 0 THEN 0 ELSE t[i].count

(* save_freq and load_freq (new.c 147-181): as long as shells run one      *)
(* after the other, each outlives its children and leaves by exit, and no  *)
(* word has a blank, a shell knows every use there ever was, whatever its  *)
(* children wrote over the file meanwhile.  A word is missing only when    *)
(* the table was full.                                                     *)
CountsKept ==
  ~mishap =>
    \A s \in Shells, w \in Words :
      proc[s] = "up" =>
        LET n == CountOf(freq_table[s], w)
        IN  n = uses[w] \/ (n = 0 /\ Len(freq_table[s]) = Capacity)

(* update_freq counts the first entry of a word, compare_freq (new.c       *)
(* 118-131) goes by the last: no table has two, however many shells and    *)
(* children take turns, are killed in the middle or read half a file,      *)
(* unless two of them had the file open for writing at once.               *)
EachOnce ==
  ~overlapped =>
    \A p \in Procs : \A i, j \in DOMAIN freq_table[p] :
      freq_table[p][i].command = freq_table[p][j].command => i = j
=============================================================================
