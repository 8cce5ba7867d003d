----------------------------- MODULE JobControl -----------------------------
(***************************************************************************)
(* Job control of the C shell (new.c): lsh_launch forks foreground         *)
(* commands, background jobs and two-command pipelines; the SIGCHLD        *)
(* handler reaps background jobs between any two steps of the shell; the   *)
(* key loop announces finished jobs.                                       *)
(*                                                                         *)
(* The shell is one thread.  The signal handler interrupts it at any step  *)
(* boundary and runs to its end before the thread continues (hi > 0).      *)
(* Children run concurrently.  Process identifiers return to the free pool *)
(* as soon as a child is reaped, so a later fork may reuse them.           *)
(***************************************************************************)
EXTENDS Integers, Sequences, FiniteSets

CONSTANTS
  Pids,        (* process identifiers the kernel can hand out            *)
  NoPid,       (* the 0 of an empty slot and the -1 of a failed fork     *)
  ErrCap,      (* capacity of error_buf in bytes (8192)                  *)
  ReadMax,     (* bytes one read() of the stderr pipe takes at most (255) *)
  MaxErr,      (* bound: bytes one foreground command writes to stderr   *)
  MaxLaunch,   (* bound: commands started                                *)
  ForkMayFail  (* whether fork() can return -1                           *)

ASSUME JobControlAssumption ==
  /\ NoPid \notin Pids
  /\ ErrCap \in Nat \ {0} /\ ReadMax \in 1 .. ErrCap - 1
  /\ MaxErr \in Nat /\ MaxLaunch \in Nat
  /\ ForkMayFail \in BOOLEAN

VARIABLES
  (* kernel *)
  pstate,      (* life of each process identifier                        *)
  wstatus,     (* the wait status a dead child left behind               *)
  job,         (* what a child was started as                            *)
  sigchld,     (* a SIGCHLD is pending (standard signals do not queue)   *)
  (* shell *)
  background_pids,   (* its length is background_count                   *)
  flag,              (* a background job finished                        *)
  hi,                (* index the handler scans next, 0: not running     *)
  pc, pid, pid2,     (* where the shell is and the children it holds     *)
  stderr,            (* stderr pipe and error_buf of the foreground job  *)
  last_exit_status,
  result,            (* what the last foreground launch concluded        *)
  launches,
  (* history *)
  missed,            (* zombies whose slot the last scan could not see   *)
  owed               (* a background job finished since the last notice  *)

kernel == <<pstate, wstatus, job, sigchld, missed>>
table  == <<background_pids, flag, hi, owed>>
held   == <<pid, pid2, stderr, last_exit_status, result, launches>>
vars   == <<kernel, table, held, pc>>

Exits    == {"ok", "err"}
Deaths   == Exits \cup {"killed", "sigpipe"}
Statuses == Deaths \cup {"none", "stopped", "garbage"}
Labels   == {"top", "announce", "getchar", "count", "store", "poll", "wait",
             "drain", "fork2", "wait1", "wait2", "done"}

(* WEXITSTATUS of a wait status: the exit code, 0 for a death by signal,   *)
(* the signal number (not 0) for a stop; a status never written is any.    *)
WEXITSTATUS(s) ==
  CASE s = "err"     -> {1}
    [] s = "stopped" -> {19}
    [] s = "garbage" -> {0, 1}
    [] OTHER         -> {0}

NoErr    == [unread |-> 0, got |-> 0, all |-> 0]
NoResult == [how |-> "none", ask |-> FALSE, err |-> 0, all |-> 0]

Registered(p)  == \E i \in DOMAIN background_pids : background_pids[i] = p
Registering(p) == pc \in {"count", "store"} /\ pid = p
Unreaped       == {p \in Pids : pstate[p] # "free"}
(* The shell still holds stderr_pipe[0] of this child.                     *)
ReaderOpen(p)  == pid = p /\ pc \in {"count", "store", "poll", "wait", "drain"}

Init ==
  /\ pstate = [p \in Pids |-> "free"]
  /\ wstatus = [p \in Pids |-> "none"]
  /\ job = [p \in Pids |-> "none"]
  /\ sigchld = FALSE
  /\ background_pids = <<>>
  /\ flag = FALSE
  /\ hi = 0
  /\ pc = "top" /\ pid = NoPid /\ pid2 = NoPid
  /\ stderr = NoErr
  /\ last_exit_status = 0
  /\ result = NoResult
  /\ launches = 0
  /\ missed = {}
  /\ owed = FALSE
-----------------------------------------------------------------------------
(* Children and the kernel.                                                *)

Dies(p, s) ==
  /\ pstate' = [pstate EXCEPT ![p] = "zombie"]
  /\ wstatus' = [wstatus EXCEPT ![p] = s]
  /\ sigchld' = TRUE
  /\ UNCHANGED <<job, missed, table, held, pc>>

Exit(p) == pstate[p] = "running" /\ \E s \in Exits : Dies(p, s)

Kill(p) == pstate[p] \in {"running", "stopped"} /\ Dies(p, "killed")

(* A child writes a byte to its stderr pipe; the pipe of a job whose       *)
(* reader the shell has closed answers with SIGPIPE.                       *)
WriteStderr(p) ==
  /\ pstate[p] = "running" /\ job[p] = "fg" /\ ReaderOpen(p)
  /\ stderr.all < MaxErr
  /\ stderr' = [stderr EXCEPT !.unread = @ + 1, !.all = @ + 1]
  /\ UNCHANGED <<kernel, table, pc, pid, pid2, last_exit_status, result, launches>>

BrokenStderr(p) ==
  /\ pstate[p] = "running" /\ job[p] \in {"fg", "bg"} /\ ~ReaderOpen(p)
  /\ Dies(p, "sigpipe")

Stop(p) ==
  /\ pstate[p] = "running"
  /\ pstate' = [pstate EXCEPT ![p] = "stopped"]
  /\ sigchld' = TRUE
  /\ UNCHANGED <<wstatus, job, missed, table, held, pc>>

Continue(p) ==
  /\ pstate[p] = "stopped"
  /\ pstate' = [pstate EXCEPT ![p] = "running"]
  /\ sigchld' = TRUE
  /\ UNCHANGED <<wstatus, job, missed, table, held, pc>>

Fork(p, role) ==
  /\ pstate[p] = "free"
  /\ pstate' = [pstate EXCEPT ![p] = "running"]
  /\ job' = [job EXCEPT ![p] = role]
  /\ UNCHANGED <<wstatus, sigchld, missed>>

(* A successful waitpid(p): the zombie is gone, its identifier reusable.   *)
Reap(p) ==
  /\ pstate' = [pstate EXCEPT ![p] = "free"]
  /\ wstatus' = [wstatus EXCEPT ![p] = "none"]
  /\ job' = [job EXCEPT ![p] = "none"]
  /\ missed' = missed \ {p}
-----------------------------------------------------------------------------
(* sigchld_handler.                                                        *)

NextSlotShort(i) == IF i + 1 < Len(background_pids) THEN i + 1 ELSE 0
NextSlotLong(i)  == i + 1
NextSlot(i)      == IF i < Len(background_pids) THEN i + 1 ELSE 0

DeliverSigchld ==
  /\ sigchld /\ hi = 0
  /\ sigchld' = FALSE
  /\ hi' = NextSlot(0)
  /\ missed' = {p \in Pids : Registering(p) /\ pstate[p] = "zombie"}
  /\ UNCHANGED <<pstate, wstatus, job, background_pids, flag, owed, held, pc>>

NotCleared(i) == background_pids
Cleared(i)    == [background_pids EXCEPT ![i] = NoPid]

AlsoLive(p) == p # NoPid /\ pstate[p] \in {"running", "zombie"}
Done(p)     == p # NoPid /\ pstate[p] = "zombie"

ScanSlot ==
  /\ hi > 0
  /\ hi' = NextSlot(hi)
  /\ LET p == background_pids[hi] IN
       IF Done(p)
       THEN /\ Reap(p)
            /\ background_pids' = Cleared(hi)
            /\ flag' = TRUE
            /\ owed' = (owed \/ (job[p] = "bg" /\ pstate[p] = "zombie"))
       ELSE UNCHANGED <<pstate, wstatus, job, missed, background_pids, flag, owed>>
  /\ UNCHANGED <<sigchld, held, pc>>

Handler == DeliverSigchld \/ ScanSlot
-----------------------------------------------------------------------------
(* The shell thread.  It runs only while no handler is on its stack.       *)

At(label) == hi = 0 /\ pc = label

(* lsh_read_line_raw looks at flag before each getchar: the notice is      *)
(* printed first and the flag cleared after it.                            *)
PrintNotice ==
  /\ At("top") /\ flag
  /\ owed' = FALSE
  /\ pc' = "announce"
  /\ UNCHANGED <<kernel, background_pids, flag, hi, held>>

ClearFlag ==
  /\ At("announce")
  /\ flag' = FALSE
  /\ pc' = "getchar"
  /\ UNCHANGED <<kernel, background_pids, hi, owed, held>>

NoNotice ==
  /\ At("top") /\ ~flag
  /\ pc' = "getchar"
  /\ UNCHANGED <<kernel, table, held>>

(* A key that does not end the line goes round the loop.                   *)
Key ==
  /\ At("getchar")
  /\ pc' = "top"
  /\ UNCHANGED <<kernel, table, held>>

(* lsh_launch is called for a line, and again for the right operand of     *)
(* && and || without a look at flag in between ("done").                   *)
Launching ==
  /\ hi = 0 /\ pc \in {"getchar", "done"}
  /\ launches < MaxLaunch
  /\ launches' = launches + 1

EndOfLine ==
  /\ At("done")
  /\ pc' = "top"
  /\ UNCHANGED <<kernel, table, held>>

(* pid < 0: nothing is started and nothing said.                           *)
LaunchFails ==
  /\ Launching /\ ForkMayFail
  /\ pc' = "done"
  /\ UNCHANGED <<kernel, table, pid, pid2, stderr, last_exit_status, result>>

LaunchForeground ==
  /\ Launching
  /\ \E p \in Pids : Fork(p, "fg") /\ pid' = p
  /\ stderr' = NoErr
  /\ result' = NoResult
  /\ pc' = "poll"
  /\ UNCHANGED <<table, pid2, last_exit_status>>

(* What a read found is appended to error_buf whole, or not at all if it   *)
(* leaves no room for the final NUL; a later, smaller read may fit again.  *)
Appended(got, n) == IF got + n < ErrCap THEN got + n ELSE got

ReadStderr ==
  LET n == IF stderr.unread < ReadMax THEN stderr.unread ELSE ReadMax IN
    /\ stderr.unread > 0
    /\ stderr' = [stderr EXCEPT !.unread = @ - n, !.got = Appended(@, n)]

(* poll() with one read() of what it found; it returns without anything    *)
(* after 10 ms or when a signal interrupts it.                             *)
Poll ==
  /\ At("poll")
  /\ stderr' = stderr \/ ReadStderr
  /\ pc' = "wait"
  /\ UNCHANGED <<kernel, table, pid, pid2, last_exit_status, result, launches>>

(* waitpid(pid, WNOHANG | WUNTRACED) reports a dead or a stopped child, or *)
(* ECHILD if somebody else reaped it; status then keeps what was in it.    *)
WaitReportsNoEchild(p) == pstate[p] \in {"zombie", "stopped"}
WaitReports(p) == pstate[p] \in {"zombie", "stopped", "free"}
WaitedStatus(p) ==
  CASE pstate[p] = "zombie"  -> wstatus[p]
    [] pstate[p] = "stopped" -> "stopped"
    [] OTHER                 -> "garbage"

StillRunning ==
  /\ At("wait") /\ ~WaitReports(pid)
  /\ pc' = "poll"
  /\ UNCHANGED <<kernel, table, held>>

WaitReturns ==
  /\ At("wait") /\ WaitReports(pid)
  /\ result' = [NoResult EXCEPT !.how = WaitedStatus(pid)]
  /\ IF pstate[pid] = "zombie"
     THEN Reap(pid) /\ UNCHANGED sigchld
     ELSE UNCHANGED kernel
  /\ pc' = "drain"
  /\ UNCHANGED <<table, pid, pid2, stderr, last_exit_status, launches>>

(* What is left in the pipe is read without blocking until there is none.  *)
DrainStderr ==
  /\ At("drain")
  /\ ReadStderr
  /\ UNCHANGED <<kernel, table, pc, pid, pid2, last_exit_status, result, launches>>

NeverRead == TRUE
PipeEmpty == stderr.unread = 0

FinishForeground ==
  /\ At("drain") /\ PipeEmpty
  /\ last_exit_status' \in WEXITSTATUS(result.how)
  /\ result' = [result EXCEPT !.all = stderr.all, !.err = stderr.got,
                              !.ask = last_exit_status' # 0 /\ stderr.got > 0]
  /\ stderr' = NoErr
  /\ pid' = NoPid
  /\ pc' = "done"
  /\ UNCHANGED <<kernel, table, pid2, launches>>
-----------------------------------------------------------------------------
(* Background jobs.  add_background_pid stores through the index it has    *)
(* already incremented; a signal may arrive between fork() and either.     *)

LaunchBackground ==
  /\ Launching
  /\ \E p \in Pids : Fork(p, "bg") /\ pid' = p
  /\ pc' = "count"
  /\ UNCHANGED <<table, pid2, stderr, last_exit_status, result>>

CountJob ==
  /\ At("count")
  /\ background_pids' = Append(background_pids, NoPid)
  /\ pc' = "store"
  /\ UNCHANGED <<kernel, flag, hi, owed, held>>

(* The slot is filled, then stderr_pipe[0] closed.                         *)
StoreJob ==
  /\ At("store")
  /\ background_pids' = [background_pids EXCEPT ![Len(background_pids)] = pid]
  /\ pid' = NoPid
  /\ pc' = "done"
  /\ UNCHANGED <<kernel, flag, hi, owed, pid2, stderr, last_exit_status, result, launches>>
-----------------------------------------------------------------------------
(* Pipelines of two commands: fork both, then a blocking waitpid on each   *)
(* without a check of what fork() returned.  EnoughPids: a fork that finds *)
(* no identifier left is a failed one.                                     *)

EnoughPids ==
  ForkMayFail \/ \E p, q \in Pids : p # q /\ pstate[p] = "free" /\ pstate[q] = "free"

ForkFirst ==
  /\ Launching /\ EnoughPids
  /\ \/ \E p \in Pids : Fork(p, "pipe") /\ pid' = p
     \/ ForkMayFail /\ pid' = NoPid /\ UNCHANGED kernel
  /\ pc' = "fork2"
  /\ UNCHANGED <<table, pid2, stderr, last_exit_status, result>>

ForkSecond ==
  /\ At("fork2")
  /\ \/ \E p \in Pids : Fork(p, "pipe") /\ pid2' = p
     \/ ForkMayFail /\ pid2' = NoPid /\ UNCHANGED kernel
  /\ pc' = "wait1"
  /\ UNCHANGED <<table, pid, stderr, last_exit_status, result, launches>>

(* The children waitpid(q, NULL, 0) can report: q, or any for q = -1.      *)
Awaited(q) == IF q = NoPid THEN Unreaped ELSE {q} \cap Unreaped

(* waitpid returns with a dead child reaped, or at once when it has none   *)
(* to wait for.                                                            *)
WaitFor(q) ==
  \/ \E p \in Awaited(q) : pstate[p] = "zombie" /\ Reap(p) /\ UNCHANGED sigchld
  \/ Awaited(q) = {} /\ UNCHANGED kernel

WaitFirst ==
  /\ At("wait1")
  /\ WaitFor(pid)
  /\ pid' = NoPid
  /\ pc' = "wait2"
  /\ UNCHANGED <<table, pid2, stderr, last_exit_status, result, launches>>

WaitSecond ==
  /\ At("wait2")
  /\ WaitFor(pid2)
  /\ pid2' = NoPid
  /\ pc' = "done"
  /\ UNCHANGED <<table, pid, stderr, last_exit_status, result, launches>>
-----------------------------------------------------------------------------
Child(p) == Exit(p) \/ Kill(p) \/ WriteStderr(p) \/ BrokenStderr(p) \/ Stop(p) \/ Continue(p)

Launch == LaunchFails \/ LaunchForeground \/ LaunchBackground \/ ForkFirst

(* What the shell does on its own, without the user.                       *)
ShellStep ==
  \/ PrintNotice \/ ClearFlag \/ NoNotice
  \/ Poll \/ StillRunning \/ WaitReturns \/ DrainStderr \/ FinishForeground
  \/ CountJob \/ StoreJob
  \/ ForkSecond \/ WaitFirst \/ WaitSecond

Next ==
  \/ \E p \in Pids : Child(p)
  \/ Handler \/ ShellStep
  \/ Launch \/ EndOfLine \/ Key

Spec == Init /\ [][Next]_vars

(* The kernel delivers a pending signal and lets the handler finish; the   *)
(* thread runs whenever it is not interrupted, but signals may interrupt   *)
(* it for ever again, hence strong fairness.  The user and the children    *)
(* promise nothing.                                                        *)
FairSpec == Spec /\ WF_vars(Handler) /\ SF_vars(ShellStep)
-----------------------------------------------------------------------------
(* Properties.                                                             *)

(* Every variable has its type; the handler's index stays inside the part  *)
(* of background_pids that background_count covers.                        *)
TypeOK ==
  /\ pstate \in [Pids -> {"free", "running", "stopped", "zombie"}]
  /\ wstatus \in [Pids -> Deaths \cup {"none"}]
  /\ job \in [Pids -> {"none", "fg", "bg", "pipe"}]
  /\ sigchld \in BOOLEAN /\ flag \in BOOLEAN /\ owed \in BOOLEAN
  /\ background_pids \in Seq(Pids \cup {NoPid})
  /\ hi \in 0 .. Len(background_pids)
  /\ pc \in Labels
  /\ pid \in Pids \cup {NoPid} /\ pid2 \in Pids \cup {NoPid}
  /\ stderr \in [unread : Nat, got : Nat, all : Nat]
  /\ last_exit_status \in {0, 1, 19}
  /\ result \in [how : Statuses, ask : BOOLEAN, err : Nat, all : Nat]
  /\ launches \in Nat
  /\ missed \subseteq Pids

(* sigchld_handler: a slot that is not empty names one background job that *)
(* nobody has reaped yet, and no two slots the same one; so a process      *)
(* identifier the kernel hands out again is never taken for an old job.    *)
SlotsHoldUnreapedJobs ==
  \A i \in DOMAIN background_pids : background_pids[i] # NoPid =>
    /\ pstate[background_pids[i]] # "free"
    /\ job[background_pids[i]] = "bg"
    /\ \A j \in DOMAIN background_pids :
         background_pids[j] = background_pids[i] => i = j

(* The child lsh_launch waits for is its own and unreaped: the handler     *)
(* cannot reap it first ("Only reap explicitly registered background       *)
(* processes so foreground commands don't freeze!"), and no wait of the    *)
(* shell ends in ECHILD with a status nobody wrote.                        *)
WaitsForItsOwn ==
  /\ pc \in {"poll", "wait"} =>
       pid \in Pids /\ pstate[pid] # "free" /\ job[pid] = "fg"
  /\ pc \in {"fork2", "wait1"} =>
       pid \in Pids /\ pstate[pid] # "free" /\ job[pid] = "pipe"
  /\ pc \in {"wait1", "wait2"} =>
       pid2 \in Pids /\ pstate[pid2] # "free" /\ job[pid2] = "pipe" /\ pid2 # pid

(* One SIGCHLD may stand for many deaths, and a death may come while the   *)
(* handler is past the slot: still, a dead registered job is followed by a *)
(* pending signal or a scan yet to reach it, unless the last scan ran      *)
(* before the shell had stored the job.                                    *)
NoLostWakeup ==
  \A i \in DOMAIN background_pids :
    LET p == background_pids[i] IN
      (p # NoPid /\ pstate[p] = "zombie" /\ p \notin missed) => (sigchld \/ (0 < hi /\ hi <= i))

(* When the key loop is about to print "[done] background job finished", a *)
(* background job has finished since it last did.                          *)
NoSpuriousNotice == (flag /\ pc # "announce") => owed

(* However the writes, the polls and the death interleave, error_buf never *)
(* overflows and has every byte of a command whose stderr fits into it.  A *)
(* read that does not fit is dropped whole, so the text of a longer one    *)
(* has holes, but none before the last ReadMax bytes of the array; and a   *)
(* command that failed is put to ask_ai iff it wrote anything.             *)
StderrComplete ==
  (result.how # "none" /\ pc # "drain") =>
    /\ result.err < ErrCap
    /\ result.all < ErrCap => result.err = result.all
    /\ result.all >= ErrCap => result.err >= ErrCap - ReadMax
    /\ result.ask <=> (last_exit_status # 0 /\ result.all > 0)

(* A registered job that dies is reaped, unless the last scan missed it.   *)
JobReaped ==
  \A p \in Pids :
    (Registered(p) /\ pstate[p] = "zombie" /\ p \notin missed) ~> pstate[p] # "zombie"

(* lsh_launch returns once the command it runs is dead: a foreground       *)
(* child, or both members of a pipeline, whoever reaps them.               *)
Over(p) == p \in Pids /\ pstate[p] \in {"zombie", "free"}
CommandReturns ==
  /\ (pc \in {"poll", "wait", "drain"} /\ Over(pid)) ~> pc = "done"
  /\ (pc = "wait1" /\ Over(pid) /\ Over(pid2)) ~> pc = "done"
-----------------------------------------------------------------------------
(* What the documentation says and the code does not do.                   *)

(* "Only break when waitpid confirms process is actually dead!"            *)
BreaksOnlyWhenDead == result.how \in Deaths \cup {"none"}
=============================================================================
