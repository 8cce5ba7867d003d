----------------------------- MODULE LineEditor -----------------------------
(***************************************************************************)
(* The line editor of the shell (new.c): lsh_read_line_raw reads keys into *)
(* buffer, suggests the rest of a word as a dim ghost, walks the history   *)
(* with the arrows and repaints what changed; lsh_loop puts every line     *)
(* into the ring history.  A line is a sequence of characters, position    *)
(* its length.  A cell of the terminal is a character and whether it is    *)
(* dim; lines do not wrap.                                                 *)
(***************************************************************************)
EXTENDS Integers, SequencesExt

CONSTANTS
  Chars,         (* characters of a line                                 *)
  Keys,          (* those the user types                                 *)
  Words,         (* the commands in the trie                             *)
  Listing,       (* what opendir finds: path -> set of entries           *)
  Stray,         (* lines a read past the end of history may yield       *)
  None,          (* an empty slot of history                             *)
  history_size,
  MaxLine,       (* bound: characters of a line                          *)
  MaxEntered,    (* bound: characters of a line that is entered          *)
  MaxLines       (* bound: lines entered                                 *)

Line == Seq(Chars)

ASSUME EditorAssumption ==
  /\ Words \subseteq Line /\ Stray \subseteq Line /\ None \notin Line
  /\ Keys \subseteq Chars /\ {" ", "/"} \subseteq Chars
  /\ history_size \in Nat \ {0} /\ {MaxLine, MaxEntered, MaxLines} \subseteq Nat
  /\ \A path \in DOMAIN Listing : Listing[path] \subseteq [name : Line, is_dir : BOOLEAN]

VARIABLES
  reading,       (* in getchar                                           *)
  alive,         (* the shell has not crashed                            *)
  flag,          (* a background job is done (sigchld_handler)           *)
  buffer, cursor, ghost, saved_buffer, history_index,
  history, history_count,
  screen,        (* the cells of the prompt's line, and the column       *)
  entered,       (* all lines entered                                    *)
  typed,         (* the line that waits below the history                *)
  recalled,      (* the line is as the last arrow left it                *)
  stale          (* an arrow has moved since the ghost was looked up     *)

ring  == <<history, history_count, entered>>
ghosts == <<ghost, stale>>
vars  == <<reading, alive, flag, buffer, cursor, saved_buffer, history_index, ring, screen,
           typed, recalled, ghosts>>
-----------------------------------------------------------------------------
(* The terminal.                                                           *)

Blank    == <<" ", FALSE>>
Plain(s) == [i \in DOMAIN s |-> <<s[i], FALSE>>]
Dim(s)   == [i \in DOMAIN s |-> <<s[i], TRUE>>]
Blanks(n) == [i \in 1 .. n |-> Blank]

(* Cell i, also beyond what was ever written.                              *)
Cell(cells, i) == IF i \in DOMAIN cells THEN cells[i] ELSE Blank

(* Printing overwrites cells and moves the column.                         *)
Put(scr, new) ==
  [column |-> scr.column + Len(new),
   cells  |-> LET tail == SubSeq(scr.cells, scr.column + Len(new) + 1, Len(scr.cells)) IN
              SubSeq(scr.cells, 1, scr.column) \o new \o tail]

Back(scr, n) == [scr EXCEPT !.column = @ - n]

(* "\r\033[K", the prompt and the line: also a new prompt on a new line.   *)
Repaint(s) == [column |-> Len(s), cells |-> Plain(s)]

Suggesting(scr, g)      == Back(Put(scr, Dim(g)), Len(g))
WithoutGhost(scr) == Back(Put(scr, Blanks(Len(ghost))), Len(ghost))
-----------------------------------------------------------------------------
(* Suggestions.                                                            *)

(* What is missing to complete prefix to one of names.                     *)
Rests(prefix, names) ==
  {SubSeq(name, Len(prefix) + 1, Len(name)) : name \in {n \in names : IsPrefix(prefix, n)}}

(* show_ghost takes the most used of the commands found, which may be the  *)
(* prefix itself: any of them.                                             *)
show_ghost(prefix) == Rests(prefix, Words)

(* Where the part behind the last c starts.                                *)
Starts(s, c) ==
  {n \in 0 .. Len(s) : (n > 0 => s[n] = c) /\ \A i \in n + 1 .. Len(s) : s[i] # c}

(* The first entry of dir that readdir returns: any.                       *)
Entries(dir, base) ==
  IF dir \notin DOMAIN Listing THEN {}
  ELSE Rests(base, {IF e.is_dir THEN Append(e.name, "/") ELSE e.name :
                      e \in {e \in Listing[dir] : IsStrictPrefix(base, e.name)}})

(* The last word, up to its last slash the path of a directory.            *)
PathGhosts(word) ==
  UNION {Entries(IF n = 1 THEN <<"/">> ELSE SubSeq(word, 1, n - 1), SubSeq(word, n + 1, Len(word))) :
           n \in Starts(word, "/")}
show_path_ghost(s) == UNION {PathGhosts(SubSeq(s, n + 1, Len(s))) : n \in Starts(s, " ")}

Suggestions(s) == IF Contains(s, " ") THEN show_path_ghost(s) ELSE show_ghost(s)

(* Look up a new ghost and paint it.                                       *)
Suggest(s, scr) ==
  /\ ghost' \in IF Suggestions(s) = {} THEN {<<>>} ELSE Suggestions(s)
  /\ screen' = Suggesting(scr, ghost')
  /\ stale' = FALSE
-----------------------------------------------------------------------------
Init ==
  /\ reading = FALSE /\ alive = TRUE /\ flag = FALSE
  /\ buffer = <<>> /\ cursor = 0 /\ ghost = <<>> /\ saved_buffer = <<>>
  /\ history_index = 0
  /\ history = [i \in 0 .. history_size - 1 |-> None] /\ history_count = 0
  /\ screen = Repaint(<<>>)
  /\ entered = <<>> /\ typed = <<>> /\ recalled = FALSE /\ stale = FALSE

(* sigchld_handler.                                                        *)
JobDone ==
  /\ alive /\ ~flag
  /\ flag' = TRUE
  /\ UNCHANGED <<reading, alive, buffer, cursor, saved_buffer, history_index, ring, screen,
                 typed, recalled, ghosts>>

(* The top of the loop: after a notice the line is painted again, but not  *)
(* its ghost.                                                              *)
NoticeAtEnd == Repaint(buffer)
Notice      == Back(Repaint(buffer), Len(buffer) - cursor)
Top ==
  /\ alive /\ ~reading
  /\ reading' = TRUE
  /\ flag' = FALSE
  /\ screen' = IF flag THEN Notice ELSE screen
  /\ UNCHANGED <<alive, buffer, cursor, saved_buffer, history_index, ring, typed, recalled, ghosts>>

(* A key was read.                                                         *)
Key == alive /\ reading /\ reading' = FALSE /\ UNCHANGED <<alive, flag>>

(* The line becomes s by an edit.                                          *)
Edit(s) ==
  /\ Len(s) <= MaxLine
  /\ buffer' = s
  /\ typed' = IF history_index = history_count THEN s ELSE typed
  /\ recalled' = FALSE
  /\ UNCHANGED <<saved_buffer, history_index, ring>>

Unedited == UNCHANGED <<buffer, typed, recalled, saved_buffer, history_index, ring>>

(* Any character.                                                          *)
Type(c) ==
  /\ Key
  /\ cursor' = cursor + 1
  /\ Edit(InsertAt(buffer, cursor + 1, c))
  /\ \/ /\ cursor < Len(buffer)
        /\ ghost' = <<>> /\ stale' = FALSE
        /\ screen' = Back(Repaint(buffer'), Len(buffer') - cursor')
     \/ /\ cursor = Len(buffer)
        /\ Suggest(buffer', Put(WithoutGhost(screen), Plain(<<c>>)))

KeptGhost == ghost
NoGhost   == <<>>
Backspace ==
  /\ Key
  /\ \/ /\ cursor = 0
        /\ ghost' = NoGhost /\ stale' = FALSE
        /\ UNCHANGED <<cursor, screen>> /\ Unedited
     \/ /\ cursor > 0
        /\ cursor' = cursor - 1
        /\ Edit(RemoveAt(buffer, cursor))
        /\ LET scr == Back(Repaint(buffer'), Len(buffer') - cursor') IN
             IF cursor' = Len(buffer') /\ cursor' > 0 THEN Suggest(buffer', scr)
             ELSE ghost' = NoGhost /\ stale' = FALSE /\ screen' = scr

(* ^C does not leave the history.                                          *)
Interrupt ==
  /\ Key
  /\ Edit(<<>>)
  /\ cursor' = 0 /\ ghost' = <<>> /\ stale' = FALSE
  /\ screen' = Repaint(<<>>)

(* The arrows leave the ghost alone.                                       *)
Show(s) ==
  /\ buffer' = s /\ cursor' = Len(s)
  /\ screen' = Repaint(s)
  /\ recalled' = TRUE /\ stale' = TRUE
  /\ UNCHANGED <<alive, ghost>>

(* Past the end of history lies some other variable of the program.        *)
Recall(i) ==
  \/ i < history_size /\ Show(history[i])
  \/ i >= history_size /\ \E s \in Stray : Show(s)
  \/ /\ i >= history_size
     /\ alive' = FALSE
     /\ UNCHANGED <<buffer, cursor, screen, recalled, ghosts>>

Arrow == alive /\ reading /\ reading' = FALSE /\ UNCHANGED <<flag, ring, typed>>

SavedAlways == buffer
Saved       == IF history_index = history_count THEN buffer ELSE saved_buffer
Up ==
  /\ Arrow /\ history_index > 0
  /\ saved_buffer' = Saved
  /\ history_index' = history_index - 1
  /\ Recall(history_index')

Down ==
  /\ Arrow /\ history_index < history_count
  /\ history_index' = history_index + 1
  /\ IF history_index' = history_count THEN Show(saved_buffer) ELSE Recall(history_index')
  /\ UNCHANGED saved_buffer

(* There is nothing further up or down.                                    *)
NoMore ==
  /\ Key
  /\ history_index = 0 \/ history_index = history_count
  /\ UNCHANGED <<cursor, screen, ghosts>> /\ Unedited

Leftmost == cursor - 1
OneLeft  == IF cursor > 0 THEN cursor - 1 ELSE 0
Left ==
  /\ Key
  /\ ghost' = <<>> /\ stale' = FALSE
  /\ cursor' = OneLeft
  /\ screen' = Back(WithoutGhost(screen), cursor - cursor')
  /\ Unedited

(* With a ghost, its first character; else one to the right.               *)
Right ==
  /\ Key
  /\ \/ /\ ghost # <<>>
        /\ cursor' = cursor + 1
        /\ Edit(Append(buffer, Head(ghost)))
        /\ ghost' = Tail(ghost)
        /\ screen' = Suggesting(Repaint(buffer'), ghost')
        /\ UNCHANGED stale
     \/ /\ ghost = <<>>
        /\ cursor' = IF cursor < Len(buffer) THEN cursor + 1 ELSE cursor
        /\ screen' = Back(screen, cursor - cursor')
        /\ UNCHANGED ghosts /\ Unedited

Tab ==
  /\ Key
  /\ \/ /\ ghost # <<>>
        /\ Edit(buffer \o ghost)
        /\ cursor' = Len(buffer')
        /\ ghost' = <<>> /\ stale' = FALSE
        /\ screen' = Repaint(buffer')
     \/ /\ ghost = <<>>
        /\ UNCHANGED <<cursor, screen, ghosts>> /\ Unedited

(* The slot a line goes to.                                                *)
Slot == history_count % history_size

(* Enter, lsh_loop and the prompt of the next line.  An empty line is not  *)
(* kept.                                                                   *)
Enter ==
  /\ Key
  /\ buffer = <<>> \/ (Len(entered) < MaxLines /\ Len(buffer) <= MaxEntered)
  /\ IF buffer = <<>> THEN UNCHANGED ring
     ELSE /\ history' = [history EXCEPT ![Slot] = buffer]
          /\ history_count' = history_count + 1
          /\ entered' = Append(entered, buffer)
  /\ history_index' = history_count'
  /\ buffer' = <<>> /\ cursor' = 0 /\ ghost' = <<>> /\ saved_buffer' = <<>>
  /\ screen' = Repaint(<<>>)
  /\ typed' = <<>> /\ recalled' = FALSE /\ stale' = FALSE

Next ==
  \/ JobDone \/ Top
  \/ \E c \in Keys : Type(c)
  \/ Backspace \/ Interrupt \/ Up \/ Down \/ NoMore \/ Left \/ Right \/ Tab \/ Enter

Spec == Init /\ [][Next]_vars
-----------------------------------------------------------------------------
(* Properties.                                                             *)

(* Every variable has its type; the cursor is in the line and the index    *)
(* among the lines entered.                                                *)
TypeOK ==
  /\ {reading, alive, flag, recalled, stale} \subseteq BOOLEAN
  /\ {buffer, ghost, saved_buffer, typed} \subseteq Line
  /\ cursor \in 0 .. Len(buffer)
  /\ history \in [0 .. history_size - 1 -> Line \cup {None}]
  /\ entered \in Seq(Line)
  /\ history_count = Len(entered) /\ history_index \in 0 .. history_count
  /\ screen.cells \in Seq(Chars \X BOOLEAN) /\ screen.column \in Nat

(* Keys, arrows and notices paint only what they change, or all; still the *)
(* terminal shows the line that Enter would run, the cursor where the next *)
(* key works, and after the line nothing but what Tab would insert.        *)
ScreenShowsLine ==
  /\ screen.column = cursor
  /\ \E shown \in {<<>>, ghost} :
       LET line == Plain(buffer) \o Dim(shown) IN
       \A i \in 1 .. Len(line) + Len(screen.cells) : Cell(screen.cells, i) = Cell(line, i)

(* Right and Tab append the ghost to the line wherever the cursor is: so   *)
(* it stands only at the end.  Unless an arrow exchanged the line under    *)
(* it, it completes the line to a suggestion.                              *)
Completes(g) == \E n \in 1 .. Len(buffer) : \E rest \in Suggestions(SubSeq(buffer, 1, n)) :
                  SubSeq(buffer, n + 1, Len(buffer)) \o g = rest
GhostFits ==
  ghost # <<>> => cursor = Len(buffer) /\ (stale \/ Completes(ghost))

(* As long as the ring has not wrapped, an arrow shows the line entered    *)
(* there, and below them all the line that was being typed.                *)
ArrowsRecall ==
  (recalled /\ history_count <= history_size) =>
    buffer = Append(entered, typed)[history_index + 1]

(* The ring holds the last lines entered, each once, in its slot.          *)
RingKeepsLast ==
  /\ \A k \in 1 .. history_count :
       k > history_count - history_size => history[(k - 1) % history_size] = entered[k]
  /\ \A i \in DOMAIN history : history[i] = None <=> i >= history_count
=============================================================================
