# Aish: specifications, model checking and proofs

`aish` is a shell in C (`new.c`, `ai.c`) with a Rust daemon behind it
(`ai_orchestrator`, on the library `memory_engine`) and a desktop widget
(`aish_widget`). This directory specifies its parts, checks them with TLC on
small instances and proves the most important properties with TLAPS for every
instance.

Paths and line numbers below are those of the repository's files (`src/` in
`PROJECT.json`).

## 1. Inventory

| Part | Where | State | Operations | What is hard |
|---|---|---|---|---|
| Job control | `new.c` 78-100, 443-596, 828-841 | `background_pids`, `background_count`, `flag`, `last_exit_status`, pipes | launch foreground, background, pipeline, `&&`/`\|\|`; reap; announce | a signal handler between any two steps, coalesced signals, reused process identifiers, three callers of `waitpid` |
| Episodic memory | `new.c` 621-698, `ai.c` 49-61, `ipc.rs`, `storage.rs`, `shared_types` | telemetry on disk (fjall) | report a line, persist it, list all in order | one task per report, random keys, one-second timestamps, a daemon that is down |
| Consolidator | `consolidator.rs` | `last_processed_timestamp`, rules in LanceDB | scan all windows, promote | rescans, late reports, lost state after a restart, dropped errors |
| Voice | `audio.rs` | `GENERATION`, three channels, the sink | speak, stop, synthesize, play, pace | check-then-act across threads, interruption at any point |
| Widget | `aish_widget/src/main.rs` | amplitude | receive, draw | the last packet must close the ring |
| Chat orchestrator | `main.rs` 92-437, `ai.c` 31-47, 63-159, 185-230, `new.c` 209-240 | task channel, token channels, loaded models, chat shells | connect, retrieve, infer, run a tool, answer, enter and exit chat | one worker for all clients, bounded channels both ways, rounds, clients that die or are interrupted, events on separate connections |
| Daemon life cycle | `new.c` 24-76, `main.rs` 46-73, 204-207 | sockets in `/tmp`, the daemon process | probe, unlink, fork, bind | two shells at once; the daemon dies with the shell that forked it |
| Line editor, history, completion | `new.c` 193-290, 700-779, 815-991, 1071-1095 | buffer, cursor, ghost, `history[100]`, trie | keys | buffer and ring bounds, a ghost and a notice over a line in the making |
| Command line | `new.c` 292-439, 603-619, 993-1069 | none | split, find operators, redirect, expand | pure functions with corner cases |
| Frequency table | `new.c` 118-181 | `freq_table[1000]`, `~/.aish_freq` | count, load, save | several writers, among them forked children, and a rewrite in place |
| Retrieval | `memory_manager.rs`, `memory_types.rs`, `vector_store.rs` | LanceDB | search, filter, score, sort, dedupe | directories of shells and of the daemon, prefixes, ties, limits before filters |
| NLP mode | `compress.c`, `ai.c` 161-183, `new.c` 663-682 | none | filter words, ask over two FIFOs | the server is not in the repository |

The shells talk to the daemon over two sockets: `/tmp/aish.sock` (a report for
every line, one way) and `/tmp/aish_chat.sock` (questions and chat-mode events).
In the daemon, connection tasks (tokio) share one worker thread that owns the
models, one voice pipeline and the two stores; the consolidator reads one store
and writes the other. The voice pipeline drives the widget over UDP.
What the consolidator learned, `Retrieval` brings into the next prompt.

What makes each part correct:

* job control: no command waits for ever, no finished job is forgotten, no
  process is mistaken for another, stderr reaches the assistant up to the
  capacity of its buffer;
* memory: rules rest on what was reported, once, and every fix that was reported
  is learned;
* voice: an interruption silences what is outdated, and only that;
* orchestrator: every request is answered if the tools end and the worker lives,
  in a form the shell understands, with bounded channels that never deadlock and
  models that stay while needed;
* daemon life cycle: shells share one daemon that keeps both its sockets, and
  nobody waits for a daemon that is gone;
* retrieval: what is worth telling reaches the prompt, once, and a rule is told
  where it was learned and nowhere else;
* line editor: the terminal shows the line that Enter will run, a ghost
  completes it, an arrow shows what was entered;
* frequency table: no use is lost, no command has two entries.

## 2. Modules

| Module | Models | Runs extend | Proofs |
|---|---|---|---|
| `JobControl` | `lsh_launch`, `sigchld_handler`, the notice of the key loop, the kernel's children | `MCJobControl` | `JobControlProofs` |
| `EpisodicMemory` | `lsh_execute`/`save_memory`, `ipc.rs`, `storage.rs`, `consolidator.rs` | `MCEpisodicMemory` | `EpisodicMemoryProofs` |
| `Retrieval` | `memory_manager.rs`, `memory_types.rs`, `vector_store.rs`, what the consolidator stores | `MCRetrieval` | `RetrievalProofs` |
| `ChatService` | nothing of the code: what the chat daemon promises | (by `Orchestrator`) | |
| `Orchestrator` | the connections and the worker of `main.rs`, the shells' side in `ai.c` | `MCOrchestrator` | `OrchestratorProofs` |
| `Audio` | `audio.rs`, the widget's receiving thread | `MCAudio` | `AudioProofs` |
| `DaemonLifecycle` | `start_ai_orchestrator`, the sockets of `main.rs` and `ipc.rs`, requests of `ai.c` | `MCDaemonLifecycle` | `DaemonLifecycleProofs` |
| `LineEditor` | `lsh_read_line_raw`, `show_ghost`, `show_path_ghost`, the history | `MCLineEditor` | `LineEditorProofs` |
| `FrequencyTable` | `load_freq`, `update_freq`, `save_freq`, `exit()` in forked children | `MCFrequencyTable` | `FrequencyTableProofs` |

Names follow the source where TLA+ allows. A few one-line operators that no
action uses stand next to the definition they vary (`NextSlotShort` by
`NextSlot`, `IfQuiet` by `Playable`, ...): they are the mutations of
`PROJECT.json` "mutants", each a plausible bug that a property must detect.

### JobControl

The shell is a program counter `pc` whose labels are the places where a signal
makes a difference; the handler is an index `hi` into `background_pids`. While
`hi > 0` the shell does not move (`At`), as a handler runs on the thread's own
stack. A process identifier is `free`, `running`, `stopped` or a `zombie`;
reaping frees it for the next `fork`. `add_background_pid` is two steps, the
increment and the store. The foreground loop alternates one `Poll` (one read, or
nothing when it times out or is interrupted) with one `waitpid`, and reads the
pipe until it is empty after the death (`DrainStderr`). `ForkMayFail` adds every
outcome of a failed `fork`. stderr is counted in bytes: a read takes what the pipe
holds, at most `ReadMax` (255), and `Appended` drops it *whole* when it does not
fit into `error_buf` (`ErrCap`, 8192, with a final NUL), while a later, smaller one
is still stored. So the text may have a hole. The buffer is used as a C string:
NUL bytes a command writes to stderr are not modelled. `&&` and `||` launch again from `done`,
without a look at `flag` in between. The daemon, also a child of the first
shell, is not in the table and not modelled here.

History variables: `missed` (jobs the last scan could not see because they were
not stored yet) and `owed` (a background job finished since the last notice).

### EpisodicMemory

`Execute` is the whole of `lsh_execute` for one line: run it, set
`last_exit_status` unless the line is of a kind that leaves it alone
(`Untracked`: builtins, pipelines, background jobs, chat), report with the
second it ended in. What becomes of a line is its `outcome`: `ok`, `err`, `killed`
by a signal, `stopped`, or `none` when the shell waited for nothing (also when
`fork` failed). `WEXITSTATUS` is taken of any of them (`new.c` 578): 0 for a
killed command, the number of the signal for a stopped one. `Persist` is the task of
one connection; `Drop` is its error paths, a report that cannot be parsed
(`ipc.rs` 56) or stored (40), which the shell does not hear of. `get_all_commands`
returns the stored reports by timestamp and, within a second, by random key (a
stable sort over an iteration in key order). A scan is one step per window,
because each promotion awaits LanceDB while reports keep arriving. `Crash` keeps
what is on disk, loses the rest, and a later daemon starts from there. `id`, `outcome`, `history` and `life` record what really
happened and are not read by any guard of the code's actions.

### Retrieval

One request at a time looks for its context while the consolidator goes on
committing rules (`Learn`). The search returns at most `Limit` rows, in some
order, none of the others nearer. Rows are scored one by one, sorted, and offered
until `Keep` are taken. Scores are in tenths, so that the code's floating
weights are integers. A string is a sequence of pieces whose tags (`Project:`,
...) are single pieces: `scope_to_string`, `scope_from_str` and the type
conversions are modelled by what they do, the removal of *all* leading tags
included. The daemon compares the directory of a rule (that of a shell) with its
own (`Cwd`); a scope that is not a project's, a session's included, passes the
filter everywhere (`memory_manager.rs` 32-36). The consolidator writes only rows of type `ErrorFix` in the scope
of a project with utility 0; what else may be in the table was there when the
daemon opened it (`Tables`). The rows have no column for `supersedes_id`, so the
penalty for it is never applied, and nothing calls the functions that reward or
penalize a memory.

### Orchestrator and ChatService

A request is a connection with the stages of its task: `reading`, `sending`,
`receiving`, `sleeping` (while the intro is spoken), `tool`, `ending`, `ended`.
Each round of an answer has its own token channel, which the model identifies
by the pair of request and round: `SenderAlive` is true while the task that owns
the sender is queued or worked on, `ReceiverAlive` while the connection is still
in that round. The worker holds the chunk it is about to send; `blocking_send`
waits for room. Sockets hold marks: the intro mark, text, the end mark.
A model that does not load stays `None` (`.ok()`, `main.rs` 112, 162): `Loaded` is
either outcome, so a shell may be registered in chat with no 7B model, and a
question without a model or a context has no text. The command of a tool is
waited for without a timeout (`main.rs` 401), so its end (`Tool`) is no step the
daemon owes. A panic kills the worker thread; its channel is closed, and a
question that has a task to send tries again for ever (`main.rs` 341-435), which
is `SendTask` with no room.
Retrieval happens inside `ReadRequest` and only delays the task. NLP mode is
shell mode here: it opens the same kinds of connection. `Interrupt` is the
`poll` of `ask_chat` (`ai.c` 152), which a signal ends and nothing restarts: the
shell closes its socket in the middle of the answer. `ask_ai` blocks in `recv`,
which is restarted.

`ChatService` is the abstract specification: a client asks and waits, or tells
something; only a client that waits is answered, with at most one announcement
of speech before everything else, and one end; only the end, its own death or
(with `MayHangUp`) an interruption makes it stop waiting. It has no channels,
rounds, tools, models or worker. `Orchestrator` gives the refinement mapping
(`alive`, `opened`, `transcript`) and `Service == INSTANCE ChatService WITH ...`;
`ServesAsPromised == Service!Spec` is checked and proved.

### Audio

One action per step that reads or writes shared state: `stop_speaking` is two
(`RaiseGeneration`, `StopSink`), the speaker thread two (`SpeakerCheck`,
`SpeakerAppend`), the telemetry thread one per 20 ms slice. Text, clip and
telemetry channels keep their generations. Amplitudes are 0 or 1.

### DaemonLifecycle

A shell boots at most one daemon, which the model names after it. A shell looks
whether the socket's file exists, connects, unlinks, forks, sleeps half a second
and goes on, each a step of its own; so are the daemon's `exists`, `remove_file`
and `bind` for each of its two sockets. A socket is the owner of a path name:
whoever removes and binds it takes it over, and the owner before keeps listening
on a socket nobody finds. `prctl` ties a daemon to its shell only if the shell
still lives (`orphan`). Every way a daemon fails before it looks at its sockets,
exec, models, a store another daemon holds, is `StartFails`. `overlapped` says that
a shell started while another start was going on, `mishap` that a shell left or
that a fork or a daemon's start failed; both are histories.

### LineEditor

A line, a ghost and the row of the terminal are sequences of characters; the
terminal has the cells behind the prompt and a cursor, and every `printf` of the
editor is its effect on them (`Put`, `Back`, `Repaint`). One action per key, the
ghost that follows it included; `JobDone` is the signal handler that sets `flag`
between any two keys, `Notice` the repaint at the top of the loop. Suggestions
are those of the trie below the first word, of a directory after it, and any of
them may come first. `history` is the ring of the code, `history_index` runs over
all lines: reads outside of the ring are `Stray`. `entered` and `typed` record
what was entered and what was typed below the history; `stale` that an arrow
exchanged the line under a ghost.

### FrequencyTable

Shells and children are processes with a table each; a child gets a copy when it
is forked and, if it ends in `exit()`, writes it (`atexit`). Such children are
commands that are not found, right sides of pipelines, and a daemon that is not
installed. `save_freq` is two steps: `fopen` empties the file, `fclose` writes
from its beginning, so that a shorter write leaves the end of a longer one. A
file is a sequence of cells, a word having one or two, which is enough for a cut
in the middle of a word, at a number, or at a line; `Scan` is what `fscanf` makes
of it. `uses`, `mishap` and `overlapped` are histories.

## 3. Runs

| Run | Question | Result |
|---|---|---|
| `jobs_safety` | type, slots, waits, wakeups, notices, stderr | holds |
| `jobs_liveness` | are jobs reaped and do commands return, also with failing forks | holds |
| `jobs_break_on_stop` | the foreground loop breaks only for a dead child | violated: it also breaks for a stopped one |
| `memory_safety` | promotion once per life, with the clock, and from what was waited for, under every adversity | holds |
| `memory_clean` | neighbours paired and every fix learned, with ordered reports, of which some are lost, and a restart | holds |
| `retrieval` | is what is worth telling told, and a rule at home and nowhere else | holds |
| `chat_safety` | type, no circular wait, shape of an answer, who keeps the 7B model, known chat shells, and all of it implements `ChatService` | holds |
| `chat_liveness` | every request is answered if tools end, but for questions left to a dead worker | holds |
| `audio` | type, backlog after an interruption, the ring, uninterrupted texts are heard | holds |
| `daemon` | one daemon with both its sockets, somebody serves, nobody waits for ever | holds |
| `editor` | does the terminal show the line, do ghosts complete it, do arrows recall | holds |
| `frequency` | are all uses counted, has no command two entries | holds |

The violated run is explained under "findings" in `PROJECT.json`. Where the
code falls short in ways the models show without a run of their own, the
properties say exactly how much holds:

* a job that dies between `fork` and the store of its slot stays a zombie without a
  notice until another child dies (`missed` in `NoLostWakeup` and `JobReaped`);
* a job reaped between the printed notice and `flag = 0` (`PrintNotice`,
  `ClearFlag`) is never announced; `NoSpuriousNotice` is only the other half;
* the reader of a background job's stderr is closed at once: the job dies of
  SIGPIPE at its first write to it (`BrokenStderr`);
* a pipeline whose `fork` failed waits for *any* child and may take a background
  job from the handler, or last as long as it: hence the theorems that assume forks
  succeed. `CommandReturns` is about waits for a child of one's own and does not
  say that such a pipeline returns;
* near its capacity `error_buf` loses reads and stores later ones:
  `StderrComplete` says that nothing is lost of a text that fits, and that of a
  longer one no byte is lost before the last `ReadMax` of the array;
* the slots of `background_pids` are never used again, over an array of 100;
* reports stored out of order may miss their scan for ever, and lines of the same
  second are ordered at random: hence `InOrder` and `Spaced` in `memory_clean`;
* a report that cannot be parsed or stored is lost, and the lines around it are
  then neighbours: `RulesPairNeighbours` says that a rule skips no line but
  such, `FixLearned` that a fix is learned unless it is one of them;
* builtins, pipelines, background jobs and chat report the status of an earlier
  line, a command killed by a signal reports 0, a stopped one a failure, and
  windows run over the lines of all shells: a rule may name a line whose own
  outcome was another, take a killed command for a fix, or pair two shells.
  `RulesRestOnFacts` says what is left of it;
* after a restart the consolidator promotes every rule of the past again:
  `PromotedOncePerLife` is per life of the daemon;
* all learned rules begin with "When command" and a duplicate is recognised by ten
  characters: at most one of them reaches a prompt (`NoTwins`; `Excused` in
  `NothingLost` and `RulesAtHome`);
* a rule counts only in the directory the daemon works in, which is that of
  whichever shell booted it; the limit on rows is applied before this filter, so
  rules of other directories crowd out those that apply (`Excused`);
* rows of a session, which nothing in this code writes but a table may hold, reach
  the prompts of every session: no property says otherwise;
* a text that finds its channel full is dropped: `UninterruptedIsHeard` starts
  from a queued text;
* after a panic of the worker, questions that are about to be sent loop for ever, and every
  later question does; `Answered` excludes them (`Retrying`) and nothing else;
* a tool that does not end keeps its connection, and, once the token channel is
  full, the worker and every other client: `Answered` assumes `ToolsEnd`;
* the events of one shell may overtake one another: `ChatShellsKnown` and
  `ModelKeptForChat` are stated for those that do not (`InOrder`);
* the speaker thread may append one clip after it was interrupted: `NoBacklog`
  says one, not none;
* an intro is stamped when it is spoken: a request interrupted before that still
  speaks (`Stamp`);
* a chat question loads the 7B model without registering its shell, and
  `mode shell` sends no event: the model may stay loaded with nobody in chat;
* a background job that ends during a chat answer cuts the answer off;
* the shell that booted the shared daemon takes it down when it leaves; a shell
  that dies before its child's `prctl` leaves an orphan. Starts that overlap may
  leave two daemons, of which one listens where nobody connects: `OneDaemon` and
  `BothSocketsKept` exclude them, `SomebodyServes` does not;
* the arrows leave the ghost of the line before, unseen, and Tab and the right
  arrow still append it (`stale`); `^C` does not leave the history, so that a
  discarded draft comes back; beyond `history_size` lines the arrows show other lines
  than those entered and then read outside of the array; `history` prints
  slots, no longer in order;
* shells that overlap overwrite each other's counts, a child left behind by its
  shell overwrites the newer ones, a shell that is killed saves nothing, one that
  starts between `fopen` and `fclose` reads an empty file and has not even the
  defaults; a first word with a blank (from a variable) ends every later load at
  its line, and what follows is lost. `CountsKept` excludes these, one by one:
  without any of its conditions TLC finds a count that is lost.

### Bounds

Every bound is a constant with a comment in its module.

* Jobs: three process identifiers allow a foreground command or a pipeline next
  to a background job and a reuse of an identifier; three launches allow two jobs
  and a command. Room for two bytes (`ErrCap = 3`, one for the NUL), reads of two and
  texts of up to four (two in `jobs_liveness`) fill the buffer, drop a read that does
  not fit, and store a smaller one after it.
* Memory: three lines are two overlapping windows; two seconds make a tie and a
  difference; two lives one restart. `memory_clean` leaves out what its conditions
  exclude (ties, failing saves) and the outcomes that report like others.
* Retrieval: a search for three rows and a prompt of two, over tables of up to
  four, let both limits bite; the tables hold a global memory and one that contains
  its beginning, one a penalty keeps under the threshold, one of a type that
  is gone; three similarities are one below, one above the threshold, and NaN.
* Chat: all channels of capacity one, so that every blocking send really blocks;
  two requests of two shells; two rounds, hence one tool call; four chunks a round
  cover text, the two `@@` of a call and text after it. Two requests are an enter and an exit,
  of one shell or of two. In
  `chat_liveness` two chunks are a tool call. Symmetry is used in safety runs only.
  Both chat runs have a `VIEW` (`MCOrchestrator`): `transcript` is a history no
  guard reads. `chat_liveness`, whose property does not read it, goes without;
  `chat_safety` forgets it for answers nobody waits for, to which nothing
  is added any more.
* Voice: two requests interrupt one another and the boot message; a text channel
  of one is full with one text; two slices let an interruption fall in a clip.
* Daemon: two shells over the sockets of a daemon of the past are every race of two
  starts, with a shell that leaves at any step. Three shells were checked once (9.5
  million states for the invariants; `SomebodyServes` without mishaps).
* Editor: a ring of two and three lines, so that it wraps; a line in the
  making has up to three characters, a letter, a blank, or what ghosts add, and is
  entered with one at most. Lines of six characters were checked once without a history.
* Frequency: three starts of two shells, with two children: the third reads what
  two saves left. A table of three words, one of them a default, and five to
  choose from fill it up. Two words of two cells with the same width are what
  it takes for a cut that makes a second entry.

Deadlock is checked for job control, where a key is always possible. The other
systems come to rest when their users have done all the bounds allow; there the
liveness runs say that nothing is left waiting.

### Fairness

* `JobControl`: weak fairness of the handler (the kernel delivers a pending
  signal, the handler terminates); strong fairness of the shell's own steps,
  because signals may interrupt it again and again but the handler always returns.
  None for children or the user. A run over `CommandReturns` therefore says:
  *once the child is dead*.
* `EpisodicMemory`: persistence and the consolidator, whose timer always ticks.
  A report on its way is stored or lost. `FixLearned` excludes the time the daemon is
  down and is checked where saves succeed; no restart has to happen.
* `Orchestrator`: each connection (tokio polls ready tasks), the worker thread,
  and a shell that waits for an answer reads it (`Read`). The commands of tools
  have no fairness: `Answered` names their end as its hypothesis (`ToolsEnd`). Panics,
  kills and interruptions may happen and need not. Models end their answer
  within `MaxChunks` (2048 tokens in the code) and stop calling tools after
  `MaxRounds` (an assumption: the code has no limit).
* `Audio`: each thread and the sound device, which, like the speech engine, is
  assumed to initialise (`audio.rs` 25-26, 98: otherwise nothing is ever heard).
* `DaemonLifecycle`: the steps of a start, of a daemon's tasks, of a request that
  was made, and a signal that was raised. Nobody has to start, ask, leave or fail.
* `Retrieval`, `LineEditor` and `FrequencyTable` have safety properties only:
  their loops end by themselves, and the rest is up to the user.

## 4. Proofs

`tlapm` checks every theorem from nothing but the named assumptions on constants
in the modules. The `THEOREM`s of `PROJECT.json` "theorems", by module:

* `JobControlProofs`. `TypeCorrect` by `TypeInv`, which adds to `TypeOK` that
  the shell holds a child wherever it is about to wait for one.
  `SlotsCorrect`, `ForegroundCorrect`, `WakeupsCorrect` and `NoticesCorrect`
  assume that forks do not fail, and need it: a pipeline that waits for -1 leaves
  slots stale. They come from one invariant, `JobsCore`: what the slots name,
  what the shell holds and who may reap it exclude each other, so only the handler
  reaps a registered job and only the shell its own children; a dead registered
  job has a signal pending, a scan on its way or is in `missed`; a raised flag is
  owed. The parts are inductive only together. `StderrCorrect` holds with failing
  forks too, for every capacity and size of a read: `StderrRead` says that what was
  read is stored to the last byte while it fits, and that from the first read
  dropped on less than a read is missing to a full buffer.
* `EpisodicMemoryProofs`. `PromotionOnce` and `PromotionFollowsTheClock`: the
  scan is sorted and holds each report once; what was promoted in this life is
  either behind the window or not newer than `last_processed_timestamp`. Late
  reports do not break this: they are missed, never doubled. `FactsCorrect`, by
  `FactInv`: every report on its way, stored or in a rule tells of a line that was
  executed with that status reported, and a status is that of the last line the
  shell waited for. `NeighboursPaired` assumes `InOrder` and `Spaced` only, with any
  number of crashes and lost reports; `PairInv` says that seconds then order lines as their
  numbers do and that what is stored is older than what is on its way, so that between
  two neighbours of a scan no report is left but those that were lost.
* `RetrievalProofs`. `LoopInv` has an invariant for each of the two loops: every
  row found and already looked at is scored if and only if it qualifies, and every
  scored row already offered is in the prompt or a twin of one there that weighs no
  less, and what is not yet offered weighs no more than what is there. The
  sort is any permutation in descending order.
  From it `NothingLostCorrect`, and two facts no run repeats:
  `NoTwinsCorrect` (no memory of a prompt repeats the beginning of an earlier one
  of its type) and `SortTotal` (`partial_cmp(..).unwrap()` never meets a NaN).
  `ScopeReadAsWritten`: a scope is read back as it was written, unless its name
  begins with its own tag; with it `RulesAtHomeCorrect`, for directories that do
  not, as no absolute path does.
* `OrchestratorProofs`. `TypeCorrect`; `NoDeadlock`: a task is queued or worked
  on for the round its connection is in only after the connection has sent it,
  so a connection in `sending` never has a live sender.
  `ServiceImplemented`: `Orchestrator` implements
  `ChatService`, for every number of shells and every capacity, with panics and
  interruptions. The step simulation needs `ServiceInv`: a shell waits for a
  request of its own that was opened; until the worker has sent an intro the
  connection has received and written nothing; an end mark in a socket is
  that of an answer that is over. `AnswerShapeCorrect` is then a fact of
  the abstract specification (`Service!Shape`) carried over by the refinement.
  `ChatShellsCorrect`, by `EventsInv`, assumes `InOrder`: events sent in
  order end in order, and the last one in the queue, or else what the worker
  knows, is what the shell told last. `ChatKeepsModel` follows from it: whoever
  told "entered" and has nothing on its way is still known when `ChatModeExit`
  looks whether anybody is left.
* `AudioProofs`. `BargeInLeavesNoBacklog`: of all clips from the speaker onward
  only the one held across the interruption can be outdated. `RingCorrect`: the
  last packet on the way, or the amplitude shown if there is none, is zero
  whenever the telemetry thread is idle.
* `DaemonLifecycleProofs`. `OneDaemonCorrect` and `BothSocketsKeptCorrect`, by
  `LifeInv`: while starts do not overlap, at most one daemon lives, a shell that
  starts is alone and finds a daemon that has its sockets or none, and what a task
  of the daemon saw of its path name still holds at its next step.
* `LineEditorProofs`. One invariant, `EditorInv`, for any alphabet, words,
  directories and ring size. `HistoryInv` relates the ring to all lines ever
  entered; a new line overwrites the oldest and no other, for which two lines less
  than `history_size` apart must differ in their slots (`SlotsDiffer`). `LineInv`
  bounds cursor and indices. `BelowInv` adds to what arrows show that below the history the line is what
  was typed, and anywhere else `saved_buffer` is: `ArrowsCorrect` needs it where
  an arrow comes back. `ScreenInv` says that the cells are the buffer followed by the ghost
  or by blanks: printing the rest of a line and stepping back as far, which most
  keys do, keeps it (`ScreenCorrect`). `GhostFits` is inductive, as taking one
  character of a ghost leaves a ghost of the longer line. `RingCorrect` is the
  part of `HistoryInv` about the ring.
* `FrequencyTableProofs`. `ReadBack`: what `load_freq` scans from the lines of a
  table are its entries up to the first word with a blank, where `%s` stops
  short; so `SavedIsLoaded`, a table without blanks is loaded as it was saved. Both
  are about recursive functions (`Scan`, `FlattenSeq`), and the library's
  induction theorems take an operator the provers cannot instantiate. `WFMin` takes
  a relation: every set of numbers has a least element (`Least`), hence induction
  over *sets* of numbers (`NatSetInduction`), with which the existence of
  each function, and then its values, follow.
  `TypeCorrect` by `TypeInv`, which adds that whoever saves has a file. `OnceCorrect`, by `OnceInv`: whoever saves alone has an empty file
  before it, and what is read from the file, whole or empty, has no twins. `CountsCorrect`, by
  `CountInv`: while there is no mishap one shell at a time is up (`OneShell`),
  children are up only while it is (`Outlives`), it saves alone (`SavesAlone`),
  its table knows all uses (`ShellKnows`) and, when nobody is up, so does the
  file (`FileKnows`). What children write before is of no consequence: the
  shell empties the file after them. Assumed: shells and children are different
  processes, the built-in defaults have no blanks and no twins and fit the array.

Only model-checked: the liveness properties, as fairness and `ENABLED` are beyond
the provers. Every invariant and every step property the passing runs check is stated
by a theorem.

## 5. Not modelled, and why

* **Command line** (`new.c` 292-439, 603-619, 993-1069): functions on strings,
  one character at a time, without state. A model would repeat them. Reading
  them shows some surprises: `&&` and `||` go by `last_exit_status`, which
  pipelines, background jobs and builtins do not set; `false && a || b` skips `b`
  too; builtins in a list are looked for as programs; an operator between quotes
  is an operator; `a >` passes `>` on.
* **Empty first words** (`new.c` 133): a command line whose first word is a variable
  set to the empty string is counted under an empty name, which ends a later
  load of `~/.aish_freq` as a blank does. Words in `FrequencyTable` are not empty.
* **How the bytes of an answer fall into reads** (`ai.c` 119): a mark that
  straddles two reads is not found. Marks are units here.
* **NLP mode** (`compress.c`, `ai.c` 161-183): a filter on words and an exchange with
  a server that is not in the repository.
* **Inference, embeddings, synthesis**: library code; the models take what they
  return, within a bound, as given.
* **`compare_freq`** and the order of `readdir`: `LineEditor` lets any suggestion
  come first.
* Drawing, prompts, colours, tables of tools, the log; `DeepThink`, which no
  client sends; words longer than 255 characters; the growth of the line buffer
  and lines that wrap; characters above 127.
* `memory_engine/src/main.rs`, a stand-alone start of the same store and socket
  without the consolidator, and the file named `'`, an old copy of `new.c`.

## 6. Running

```
tlc -workers 2 -config jobs_safety.cfg MCJobControl.tla
tlapm JobControlProofs.tla
```

With two workers `chat_safety`, `chat_liveness` and `editor` take two to four
minutes, `frequency` one to two, the others about one or less.
`OrchestratorProofs` and `LineEditorProofs` take several minutes each.
