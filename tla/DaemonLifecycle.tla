--------------------------- MODULE DaemonLifecycle ---------------------------
(***************************************************************************)
(* How the shells share one daemon: start_ai_orchestrator (new.c) probes   *)
(* the chat socket, removes it when nobody listens and forks a daemon that *)
(* dies with its shell; the daemon (main.rs, ipc.rs) replaces both sockets *)
(* by its own, by path name; requests (ai.c) connect to whoever owns the   *)
(* name.  A shell boots at most one daemon, named after it here.           *)
(***************************************************************************)
EXTENDS Naturals, FiniteSets

CONSTANTS
  Shells,
  None,         (* no such file                                          *)
  Old           (* a daemon of the past, whose sockets are still there   *)

ASSUME LifecycleAssumption == None \notin Shells /\ Old \notin Shells /\ None # Old

Paths == {"chat", "ipc"}     (* /tmp/aish_chat.sock and /tmp/aish.sock   *)

VARIABLES
  shell,        (* where a shell is in start_ai_orchestrator             *)
  daemon,       (* the daemon it booted                                  *)
  task,         (* the daemon's tasks that set up its sockets            *)
  sock,         (* who bound the socket of a path name                   *)
  to, writes,   (* a request: the daemon it went to, writes still to do  *)
  overlapped,   (* history: a shell started while another start went on  *)
  mishap        (* history: a shell left, a fork or a daemon's start failed *)

vars == <<shell, daemon, task, sock, to, writes, overlapped, mishap>>

Alive(d)   == daemon[d] \in {"forked", "tied", "orphan"}
Booting(d) == Alive(d) /\ \E p \in Paths : task[d][p] \notin {"listen", "gone"}

Init ==
  /\ shell = [s \in Shells |-> "off"]
  /\ daemon = [d \in Shells |-> "none"]
  /\ task = [d \in Shells |-> [p \in Paths |-> "none"]]
  /\ sock \in [Paths -> {None, Old}]
  /\ to = [s \in Shells |-> None] /\ writes = [s \in Shells |-> 0]
  /\ overlapped = FALSE /\ mishap = FALSE
-----------------------------------------------------------------------------
(* start_ai_orchestrator.                                                  *)

GoesTo(s, state) == shell' = [shell EXCEPT ![s] = state]

Starting == (\E s \in Shells : shell[s] \in {"connect", "unlink", "boot"})
              \/ (\E d \in Shells : Booting(d))

TrustFile(s) ==
  /\ shell[s] = "off"
  /\ GoesTo(s, IF sock["chat"] = None THEN "boot" ELSE "on")
  /\ overlapped' = (overlapped \/ Starting)
  /\ UNCHANGED <<daemon, task, sock, to, writes, mishap>>

Access(s) ==
  /\ shell[s] = "off"
  /\ GoesTo(s, IF sock["chat"] = None THEN "boot" ELSE "connect")
  /\ overlapped' = (overlapped \/ Starting)
  /\ UNCHANGED <<daemon, task, sock, to, writes, mishap>>

Served == sock["chat"] \in Shells /\ Alive(sock["chat"])

NobodyAsked(s) ==
  /\ shell[s] = "connect"
  /\ GoesTo(s, "unlink")
  /\ UNCHANGED <<daemon, task, sock, to, writes, overlapped, mishap>>

Probe(s) ==
  /\ shell[s] = "connect"
  /\ GoesTo(s, IF Served THEN "on" ELSE "unlink")
  /\ UNCHANGED <<daemon, task, sock, to, writes, overlapped, mishap>>

Unlink(s) ==
  /\ shell[s] = "unlink"
  /\ GoesTo(s, "boot")
  /\ sock' = [sock EXCEPT !["chat"] = None]
  /\ UNCHANGED <<daemon, task, to, writes, overlapped, mishap>>

Fork(s) ==
  /\ shell[s] = "boot"
  /\ \/ /\ GoesTo(s, "sleep")
        /\ daemon' = [daemon EXCEPT ![s] = "forked"]
        /\ UNCHANGED mishap
     \/ /\ GoesTo(s, "on")
        /\ mishap' = TRUE
        /\ UNCHANGED daemon
  /\ UNCHANGED <<task, sock, to, writes, overlapped>>

WakeAndRetry(s) ==
  /\ shell[s] = "sleep"
  /\ GoesTo(s, "boot")
  /\ UNCHANGED <<daemon, task, sock, to, writes, overlapped, mishap>>

(* Half a second, however far the daemon is by then.                       *)
Wake(s) ==
  /\ shell[s] = "sleep"
  /\ GoesTo(s, "on")
  /\ UNCHANGED <<daemon, task, sock, to, writes, overlapped, mishap>>

(* exit, or a signal, at any time.                                         *)
Leave(s) ==
  /\ shell[s] \notin {"off", "dead"}
  /\ GoesTo(s, "dead")
  /\ to' = [to EXCEPT ![s] = None] /\ writes' = [writes EXCEPT ![s] = 0]
  /\ mishap' = TRUE
  /\ UNCHANGED <<daemon, task, sock, overlapped>>
-----------------------------------------------------------------------------
(* The daemon.                                                             *)

(* PR_SET_PDEATHSIG says nothing of a parent that is dead already.         *)
Exec(d) ==
  /\ daemon[d] = "forked"
  /\ daemon' = [daemon EXCEPT ![d] = IF shell[d] = "dead" THEN "orphan" ELSE "tied"]
  /\ task' = [task EXCEPT ![d] = [p \in Paths |-> "exists"]]
  /\ UNCHANGED <<shell, sock, to, writes, overlapped, mishap>>

Dies(d) ==
  /\ daemon' = [daemon EXCEPT ![d] = "dead"]
  /\ task' = [task EXCEPT ![d] = [p \in Paths |-> "gone"]]

(* exec, the models or a store fail before the sockets are looked at.      *)
StartFails(d) ==
  /\ Alive(d) /\ daemon[d] # "forked" /\ \A p \in Paths : task[d][p] = "exists"
  /\ Dies(d)
  /\ mishap' = TRUE
  /\ UNCHANGED <<shell, sock, to, writes, overlapped>>

Sigterm(d) ==
  /\ daemon[d] = "tied" /\ shell[d] = "dead"
  /\ Dies(d)
  /\ UNCHANGED <<shell, sock, to, writes, overlapped, mishap>>

TaskIs(d, p, state) == Alive(d) /\ task[d][p] = state
TaskTo(d, p, state) ==
  /\ task' = [task EXCEPT ![d][p] = state]
  /\ UNCHANGED daemon

(* An error ends main, and the daemon, for the chat socket; for the other, *)
(* the task that nobody waits for.                                         *)
Fails(d, p) == IF p = "chat" THEN Dies(d) ELSE TaskTo(d, p, "gone")

BindAnyway(d, p) ==
  /\ TaskIs(d, p, "exists")
  /\ TaskTo(d, p, "bind")
  /\ UNCHANGED <<shell, sock, to, writes, overlapped, mishap>>

Exists(d, p) ==
  /\ TaskIs(d, p, "exists")
  /\ TaskTo(d, p, IF sock[p] = None THEN "bind" ELSE "remove")
  /\ UNCHANGED <<shell, sock, to, writes, overlapped, mishap>>

RemoveFile(d, p) ==
  /\ TaskIs(d, p, "remove")
  /\ \/ sock[p] # None /\ sock' = [sock EXCEPT ![p] = None] /\ TaskTo(d, p, "bind")
     \/ sock[p] = None /\ UNCHANGED sock /\ Fails(d, p)
  /\ UNCHANGED <<shell, to, writes, overlapped, mishap>>

Bind(d, p) ==
  /\ TaskIs(d, p, "bind")
  /\ \/ sock[p] = None /\ sock' = [sock EXCEPT ![p] = d] /\ TaskTo(d, p, "listen")
     \/ sock[p] # None /\ UNCHANGED sock /\ Fails(d, p)
  /\ UNCHANGED <<shell, to, writes, overlapped, mishap>>
-----------------------------------------------------------------------------
(* Requests: ask_chat writes once, ask_ai twice, both read up to the end   *)
(* of the answer or of the connection.                                     *)

Ask(s, n) ==
  /\ shell[s] = "on" /\ to[s] = None /\ Served
  /\ to' = [to EXCEPT ![s] = sock["chat"]] /\ writes' = [writes EXCEPT ![s] = n]
  /\ UNCHANGED <<shell, daemon, task, sock, overlapped, mishap>>

Back(s) == to' = [to EXCEPT ![s] = None] /\ writes' = [writes EXCEPT ![s] = 0]

(* SIGPIPE, with its default action, when the daemon is gone.              *)
Write(s) ==
  /\ to[s] # None /\ writes[s] > 0
  /\ \/ Alive(to[s]) /\ writes' = [writes EXCEPT ![s] = @ - 1] /\ UNCHANGED <<shell, to>>
     \/ ~Alive(to[s]) /\ GoesTo(s, "dead") /\ Back(s)
  /\ UNCHANGED <<daemon, task, sock, overlapped, mishap>>

Answered(s) ==
  /\ to[s] # None /\ writes[s] = 0 /\ Alive(to[s])
  /\ Back(s)
  /\ UNCHANGED <<shell, daemon, task, sock, overlapped, mishap>>

ReadAgain(s) ==
  /\ to[s] # None /\ writes[s] = 0 /\ ~Alive(to[s])
  /\ UNCHANGED vars

EndOfFile(s) ==
  /\ to[s] # None /\ writes[s] = 0 /\ ~Alive(to[s])
  /\ Back(s)
  /\ UNCHANGED <<shell, daemon, task, sock, overlapped, mishap>>
-----------------------------------------------------------------------------
Startup(s) == Probe(s) \/ Unlink(s) \/ Fork(s) \/ Wake(s)
Sockets(d) == Exec(d) \/ \E p \in Paths : Exists(d, p) \/ RemoveFile(d, p) \/ Bind(d, p)
Client(s)  == Write(s) \/ Answered(s) \/ EndOfFile(s)

Next ==
  \/ \E s \in Shells : Access(s) \/ Startup(s) \/ Leave(s) \/ Client(s)
  \/ \E s \in Shells, n \in {1, 2} : Ask(s, n)
  \/ \E d \in Shells : Sockets(d) \/ StartFails(d) \/ Sigterm(d)

Spec == Init /\ [][Next]_vars

(* Processes run and signals arrive; nobody has to start, to ask, to leave *)
(* or to fail.                                                             *)
FairSpec ==
  /\ Spec
  /\ \A s \in Shells : WF_vars(Startup(s)) /\ WF_vars(Client(s)) /\ WF_vars(Sigterm(s))
                       /\ \A p \in Paths : WF_vars(Exists(s, p) \/ RemoveFile(s, p) \/ Bind(s, p))
                       /\ WF_vars(Exec(s))
-----------------------------------------------------------------------------
(* Properties.                                                             *)

(* Every variable has its type; a daemon is born of a shell that got to    *)
(* fork it, and only a running shell waits for an answer.                  *)
TypeOK ==
  /\ shell \in [Shells -> {"off", "connect", "unlink", "boot", "sleep", "on", "dead"}]
  /\ daemon \in [Shells -> {"none", "forked", "tied", "orphan", "dead"}]
  /\ task \in [Shells -> [Paths -> {"none", "exists", "remove", "bind", "listen", "gone"}]]
  /\ sock \in [Paths -> Shells \cup {None, Old}]
  /\ to \in [Shells -> Shells \cup {None}] /\ writes \in [Shells -> 0 .. 2]
  /\ overlapped \in BOOLEAN /\ mishap \in BOOLEAN
  /\ \A s \in Shells : /\ daemon[s] # "none" => shell[s] \in {"sleep", "on", "dead"}
                       /\ to[s] # None => shell[s] = "on"

(* Shells that start one after the other share one daemon, whichever of    *)
(* them leave meanwhile.                                                   *)
OneDaemon == ~overlapped => \A c, d \in Shells : Alive(c) /\ Alive(d) => c = d

(* Then the daemon that runs keeps both its sockets: no start of another   *)
(* shell takes its path names away, and its telemetry task does not give   *)
(* up without a word.                                                      *)
BothSocketsKept ==
  ~overlapped => \A d \in Shells, p \in Paths :
    Alive(d) => task[d][p] # "gone" /\ (task[d][p] = "listen" => sock[p] = d)

(* However the starts of several shells overlap, a daemon answers in the   *)
(* end, unless a shell leaves or a daemon cannot start: removals and binds *)
(* that lose a race leave the winner's socket.                             *)
SomebodyServes ==
  [](~mishap) /\ <>(\E s \in Shells : shell[s] # "off") => <>[]Served

(* Who asks gets back to the prompt, or dies of SIGPIPE: a daemon that     *)
(* ends in the middle of an answer closes the connection.                  *)
AskReturns == \A s \in Shells : to[s] # None ~> to[s] = None
=============================================================================
