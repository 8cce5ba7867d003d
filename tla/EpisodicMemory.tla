--------------------------- MODULE EpisodicMemory ---------------------------
(***************************************************************************)
(* How a command becomes a long-term rule: lsh_execute reports every line  *)
(* over /tmp/aish.sock (new.c save_memory, ai.c), one connection each; a   *)
(* task per connection persists it in fjall or drops it (ipc.rs,           *)
(* storage.rs); every 30 seconds the consolidator scans all of fjall in    *)
(* chronological order and promotes "failed, then succeeded" windows to    *)
(* LanceDB (consolidator.rs).  The daemon can die and be started again:    *)
(* fjall and LanceDB are on disk, everything else is lost.                 *)
(***************************************************************************)
EXTENDS Integers, Sequences, FiniteSets, Functions

CONSTANTS
  Sessions,     (* shells                                                *)
  Commands,     (* command lines                                         *)
  ReadOnly,     (* those llm_validate_causal_link rejects as a fix       *)
  Untracked,    (* those that leave last_exit_status alone: builtins,    *)
                (* pipelines, background jobs, chat messages             *)
  Outcomes,     (* bound: how the wait for a line's command may end      *)
  MaxCommands,  (* bound: lines executed                                 *)
  MaxTime,      (* bound: seconds, from 1                                *)
  MaxLives,     (* bound: times the daemon is started                    *)
  InOrder,      (* environment: connections are persisted as they came   *)
  MayDrop,      (* environment: a report cannot be parsed or stored      *)
  Spaced,       (* environment: no two lines end in the same second      *)
  SaveMayFail   (* environment: embedding or save_batch may fail         *)

ASSUME MemoryAssumption ==
  /\ ReadOnly \subseteq Commands /\ Untracked \subseteq Commands
  /\ Outcomes \subseteq {"ok", "err", "killed", "stopped", "none"}
  /\ MaxCommands \in Nat /\ MaxTime \in Nat \ {0} /\ MaxLives \in Nat \ {0}
  /\ {InOrder, Spaced, MayDrop, SaveMayFail} \subseteq BOOLEAN

VARIABLES
  now,          (* the second, as strftime prints it                     *)
  last_exit_status,  (* of each shell                                    *)
  history,      (* every line executed, with what really came of it      *)
  inflight,     (* telemetry written to the socket, not yet persisted    *)
  fjall,        (* telemetry on disk, under its random key               *)
  up, life,     (* is the daemon running, and how often was it started   *)
  scan, window, (* the consolidator's commands and its next window       *)
  last_processed_timestamp,  (* 0 for the empty string                   *)
  lancedb       (* the rules promoted                                    *)

shells  == <<now, last_exit_status, history>>
scanner == <<scan, window, last_processed_timestamp>>
vars    == <<shells, inflight, fjall, up, life, scanner, lancedb>>

Telemetry == [id : 1 .. MaxCommands, session_id : Sessions, raw_command : Commands,
              exit_code : {0, 1, 19}, outcome : Outcomes, start_timestamp : 1 .. MaxTime]

(* Telemetry under its command_id, a UUID of no relation to the rest.      *)
Stored == [log : Telemetry, key : 1 .. MaxCommands]

Init ==
  /\ now = 1
  /\ last_exit_status = [s \in Sessions |-> 0]
  /\ history = <<>>
  /\ inflight = {} /\ fjall = {}
  /\ up = TRUE /\ life = 1
  /\ scan = <<>> /\ window = 0
  /\ last_processed_timestamp = 0
  /\ lancedb = <<>>
-----------------------------------------------------------------------------
(* The shells.                                                             *)

Second ==
  /\ now < MaxTime
  /\ now' = now + 1
  /\ UNCHANGED <<last_exit_status, history, inflight, fjall, up, life, scanner, lancedb>>

SecondIsFree ==
  Spaced => \A i \in DOMAIN history : history[i].start_timestamp # now

(* lsh_launch takes WEXITSTATUS of whatever status waitpid left: the exit  *)
(* code, 0 for a command killed by a signal, the signal number for one     *)
(* that was only stopped.                                                  *)
RawStatus(outcome) ==
  CASE outcome = "err" -> 256 [] outcome = "stopped" -> 4991 [] outcome = "killed" -> 9 [] OTHER -> 0
WEXITSTATUS(outcome) ==
  CASE outcome = "err" -> 1 [] outcome = "stopped" -> 19 [] OTHER -> 0

(* lsh_execute: run the line, then report it with the time it ended at and *)
(* whatever last_exit_status holds: a line without a wait ("none", also    *)
(* that of a command whose fork failed) leaves it alone.  With no daemon   *)
(* to connect to, the report is dropped.                                   *)
Execute(s, c, outcome) ==
  /\ Len(history) < MaxCommands /\ SecondIsFree
  /\ c \in Untracked => outcome = "none"
  /\ last_exit_status' =
       IF outcome = "none" THEN last_exit_status
       ELSE [last_exit_status EXCEPT ![s] = WEXITSTATUS(outcome)]
  /\ LET log == [id |-> Len(history) + 1, session_id |-> s, raw_command |-> c,
                 exit_code |-> last_exit_status'[s], outcome |-> outcome,
                 start_timestamp |-> now] IN
       /\ history' = Append(history, log)
       /\ inflight' = IF up THEN inflight \cup {log} ELSE inflight
  /\ UNCHANGED <<now, fjall, up, life, scanner, lancedb>>
-----------------------------------------------------------------------------
(* ipc.rs: the task of a connection persists its telemetry.  It prints an  *)
(* error and forgets it when the JSON does not parse (json_escape leaves   *)
(* control characters and bytes that are no UTF-8, the directory is not    *)
(* escaped at all) or when fjall fails.                                    *)

Persist(log, key) ==
  /\ up /\ log \in inflight
  /\ InOrder => \A other \in inflight : log.id <= other.id
  /\ \A r \in fjall : r.key # key
  /\ inflight' = inflight \ {log}
  /\ fjall' = fjall \cup {[log |-> log, key |-> key]}
  /\ UNCHANGED <<shells, up, life, scanner, lancedb>>

Drop(log) ==
  /\ MayDrop
  /\ up /\ log \in inflight
  /\ inflight' = inflight \ {log}
  /\ UNCHANGED <<shells, fjall, up, life, scanner, lancedb>>
-----------------------------------------------------------------------------
(* The consolidator.                                                       *)

(* get_all_commands: key order, then a stable sort on the timestamp.       *)
ByKey(a, b)  == a.key < b.key
Before(a, b) ==
  \/ a.log.start_timestamp < b.log.start_timestamp
  \/ a.log.start_timestamp = b.log.start_timestamp /\ a.key < b.key

Chronological(s) ==
  /\ s \in Bijection(1 .. Cardinality(fjall), fjall)
  /\ \A i, j \in DOMAIN s : i < j => Before(s[i], s[j])

get_all_commands == {s \in [1 .. Cardinality(fjall) -> fjall] : Chronological(s)}

(* interval.tick(): fewer than two commands are left for the next time.    *)
StartScan ==
  /\ up /\ window = 0
  /\ Cardinality(fjall) >= 2
  /\ scan' \in get_all_commands
  /\ window' = 1
  /\ UNCHANGED <<shells, inflight, fjall, up, life, last_processed_timestamp, lancedb>>

FreshPrev(prev, curr)  == prev.log.start_timestamp > last_processed_timestamp
FreshAgain(prev, curr) == curr.log.start_timestamp >= last_processed_timestamp
Fresh(prev, curr)      == curr.log.start_timestamp > last_processed_timestamp

AnyTrigger(prev, curr) == prev.log.exit_code # 0 \/ curr.log.exit_code = 0
Trigger(prev, curr) == prev.log.exit_code # 0 /\ curr.log.exit_code = 0

llm_validate_causal_link(failed_cmd, candidate_fix) ==
  candidate_fix \notin ReadOnly /\ failed_cmd # candidate_fix

Promotes(prev, curr) ==
  /\ Fresh(prev, curr)
  /\ Trigger(prev, curr)
  /\ llm_validate_causal_link(prev.log.raw_command, curr.log.raw_command)

(* One pass of the loop over windows(2).  The result of save_batch is      *)
(* dropped.                                                                *)
ScanWindow ==
  /\ up /\ 0 < window /\ window < Len(scan)
  /\ LET prev == scan[window]
         curr == scan[window + 1] IN
       \/ /\ Promotes(prev, curr)
          /\ lancedb' = Append(lancedb, [prev |-> prev, curr |-> curr, life |-> life])
       \/ /\ Promotes(prev, curr) => SaveMayFail
          /\ UNCHANGED lancedb
  /\ window' = window + 1
  /\ UNCHANGED <<shells, inflight, fjall, up, life, scan, last_processed_timestamp>>

FinishScan ==
  /\ up /\ window > 0 /\ window = Len(scan)
  /\ last_processed_timestamp' = scan[window].log.start_timestamp
  /\ scan' = <<>> /\ window' = 0
  /\ UNCHANGED <<shells, inflight, fjall, up, life, lancedb>>
-----------------------------------------------------------------------------
Crash ==
  /\ up
  /\ up' = FALSE
  /\ inflight' = {}
  /\ scan' = <<>> /\ window' = 0 /\ last_processed_timestamp' = 0
  /\ UNCHANGED <<shells, fjall, life, lancedb>>

Restart ==
  /\ ~up /\ life < MaxLives
  /\ up' = TRUE
  /\ life' = life + 1
  /\ UNCHANGED <<shells, inflight, fjall, scanner, lancedb>>

PersistAny == \E log \in inflight, key \in 1 .. MaxCommands : Persist(log, key)
DropAny == \E log \in inflight : Drop(log)
Consolidator == StartScan \/ ScanWindow \/ FinishScan
Stops == life < MaxLives /\ Crash

Next ==
  \/ Second
  \/ \E s \in Sessions, c \in Commands, outcome \in Outcomes : Execute(s, c, outcome)
  \/ PersistAny \/ DropAny
  \/ Consolidator
  \/ Stops \/ Restart

Spec == Init /\ [][Next]_vars

(* The daemon's tasks run while it is up; users, clock and crashes owe     *)
(* nothing.                                                                *)
FairSpec == Spec /\ WF_vars(PersistAny \/ DropAny) /\ WF_vars(Consolidator)
-----------------------------------------------------------------------------
(* Properties.                                                             *)

(* Every variable has its type; the consolidator's window is inside its    *)
(* commands, and a scan is running only while the daemon is.               *)
TypeOK ==
  /\ now \in 1 .. MaxTime
  /\ last_exit_status \in [Sessions -> {0, 1, 19}]
  /\ history \in Seq(Telemetry)
  /\ inflight \subseteq Telemetry
  /\ fjall \subseteq Stored
  /\ up \in BOOLEAN /\ life \in 1 .. MaxLives
  /\ scan \in Seq(Stored)
  /\ window \in 0 .. Len(scan)
  /\ window > 0 => up
  /\ last_processed_timestamp \in 0 .. MaxTime
  /\ lancedb \in Seq([prev : Stored, curr : Stored, life : 1 .. MaxLives])

(* The consolidator rescans all of fjall every 30 seconds, yet in one life *)
(* of the daemon no command is promoted as a fix twice.                    *)
PromotedOncePerLife ==
  \A i, j \in DOMAIN lancedb :
    (lancedb[i].curr = lancedb[j].curr /\ lancedb[i].life = lancedb[j].life) => i = j

(* A rule never runs against the clock: its fix did not end in an earlier  *)
(* second than its failure, whatever order the reports were stored in.     *)
RulesFollowTheClock ==
  \A i \in DOMAIN lancedb :
    lancedb[i].prev.log.start_timestamp <= lancedb[i].curr.log.start_timestamp

(* save_memory reports the status of an earlier line for every line that   *)
(* sets none, and WEXITSTATUS is 0 for a command killed by a signal.  What *)
(* a rule rests on is this much: the last line up to its failure that the  *)
(* same shell really waited for had failed or was stopped, and the last    *)
(* one up to its fix, if any, had not: it had succeeded or was killed.     *)
Waited(log) == {i \in 1 .. log.id :
  history[i].session_id = log.session_id /\ history[i].outcome # "none"}
Known(log)  == IF Waited(log) = {} THEN "none"
               ELSE history[CHOOSE i \in Waited(log) : \A j \in Waited(log) : j <= i].outcome
RulesRestOnFacts ==
  \A i \in DOMAIN lancedb :
    /\ Known(lancedb[i].prev.log) \in {"err", "stopped"}
    /\ Known(lancedb[i].curr.log) \in {"ok", "killed", "none"}

(* The lines whose report has not been lost: to a daemon that was down or  *)
(* died, or to ipc.rs.                                                     *)
Reported == inflight \cup {r.log : r \in fjall}

(* When the lines end in distinct seconds and their reports arrive in      *)
(* order, a rule pairs a line with the very next one, but for those whose  *)
(* report was lost: the consolidator skips no line it could know of.       *)
RulesPairNeighbours ==
  \A i \in DOMAIN lancedb :
    LET a == lancedb[i].prev.log.id
        b == lancedb[i].curr.log.id IN
      a < b /\ \A log \in Reported : ~(a < log.id /\ log.id < b)

(* Under the same conditions, and with saves that do not fail, the daemon  *)
(* learns every fix two reports it has not lost tell of, unless it goes    *)
(* down: also one whose failure the previous scan had already processed,   *)
(* and one that a daemon which died had not got to.                        *)
IsFix(a, b) ==
  /\ a.session_id = b.session_id
  /\ a.exit_code # 0 /\ b.exit_code = 0
  /\ llm_validate_causal_link(a.raw_command, b.raw_command)
Lost(k) == k \in DOMAIN history /\ history[k] \notin Reported
FixLearned ==
  \A k \in 1 .. MaxCommands - 1 :
    (k < Len(history) /\ IsFix(history[k], history[k + 1])) ~>
      \/ \E i \in DOMAIN lancedb : lancedb[i].curr.log.id = k + 1
      \/ ~up
      \/ Lost(k) \/ Lost(k + 1)
=============================================================================
