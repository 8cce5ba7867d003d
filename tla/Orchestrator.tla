---------------------------- MODULE Orchestrator ----------------------------
(***************************************************************************)
(* The chat daemon (main.rs): one tokio task per connection, one worker    *)
(* thread that owns the models, a bounded channel of tasks to the worker   *)
(* and a bounded channel of tokens back for every round of an answer.      *)
(* The shells at the other end (ai.c, new.c) open a connection for each    *)
(* question and each chat-mode event; a shell waits for the end of an      *)
(* answer, but not for an event to be noticed.                             *)
(***************************************************************************)
EXTENDS Integers, Sequences, FiniteSets

CONSTANTS
  Shells,
  TaskCap,      (* capacity of the task channel, 32 in the code          *)
  TokenCap,     (* capacity of a token channel, 32 in the code           *)
  SockCap,      (* what a socket holds that its client has not read      *)
  MaxRequests,  (* bound: connections                                    *)
  MaxRounds,    (* bound: rounds of an answer; the last calls no tool    *)
  MaxChunks,    (* bound: chunks a model writes in a round               *)
  Modes,        (* environment: the modes users switch to                *)
  InOrder,      (* environment: the events of a shell are sent in order  *)
  MayPanic,     (* environment: the worker thread may panic              *)
  MayInterrupt  (* environment: background jobs end while a shell waits  *)

ASSUME OrchestratorAssumption ==
  /\ {TaskCap, TokenCap, SockCap, MaxRounds} \subseteq Nat \ {0}
  /\ {MaxRequests, MaxChunks} \subseteq Nat
  /\ Modes \subseteq {"shell", "chat"}
  /\ {InOrder, MayPanic, MayInterrupt} \subseteq BOOLEAN

VARIABLES
  (* shells *)
  shell_mode,
  waiting,      (* the request a shell waits for, 0: none                *)
  told,         (* history: the last event of each shell                 *)
  (* connections *)
  requests,     (* shell and kind of each                                *)
  conn,         (* where the task of each request is                     *)
  round,        (* its round: each has its own token channel             *)
  capturing,    (* it is inside a tool call                              *)
  token_rx,     (* chunks in the token channel of its round              *)
  socket,       (* what it wrote and the shell has not read              *)
  transcript,   (* history: all it wrote, a run of texts counted once    *)
  (* worker *)
  task_rx, worker, active_chat_shells, model_7b

users  == <<shell_mode, waiting, told>>
tasks  == <<requests, conn, round, capturing>>
thread == <<active_chat_shells, model_7b>>
vars   == <<users, tasks, token_rx, socket, transcript, task_rx, worker, thread>>

Ids    == 1 .. MaxRequests
Opened == DOMAIN requests
Events == {"enter", "exit"}
IsEvent(r) == requests[r].kind \in Events

Idle == [phase |-> "idle",  req |-> 0, round |-> 0, chunk |-> "none", n |-> 0]
Dead == [phase |-> "dead",  req |-> 0, round |-> 0, chunk |-> "none", n |-> 0]

Init ==
  /\ shell_mode = [s \in Shells |-> "shell"]
  /\ waiting = [s \in Shells |-> 0]
  /\ told = [s \in Shells |-> "exit"]
  /\ requests = <<>>
  /\ conn = [r \in Ids |-> "none"]
  /\ round = [r \in Ids |-> 1]
  /\ capturing = [r \in Ids |-> FALSE]
  /\ token_rx = [r \in Ids |-> <<>>]
  /\ transcript = [r \in Ids |-> <<>>]
  /\ socket = [r \in Ids |-> <<>>]
  /\ task_rx = <<>> /\ worker = Idle
  /\ active_chat_shells = {} /\ model_7b = FALSE
-----------------------------------------------------------------------------
(* Shells.                                                                 *)

AtPrompt(s) == shell_mode[s] # "dead" /\ waiting[s] = 0

Connect(s, kind) ==
  /\ Len(requests) < MaxRequests
  /\ requests' = Append(requests, [shell |-> s, kind |-> kind])
  /\ conn' = [conn EXCEPT ![Len(requests) + 1] = "reading"]
  /\ UNCHANGED <<round, capturing>>

(* "mode chat" and "mode shell" tell the daemon nothing.                   *)
SwitchMode(s, mode) ==
  /\ AtPrompt(s) /\ mode # shell_mode[s]
  /\ shell_mode' = [shell_mode EXCEPT ![s] = mode]
  /\ UNCHANGED <<waiting, told, tasks, token_rx, socket, transcript, task_rx, worker, thread>>

Notify(s, kind) ==
  /\ Connect(s, kind)
  /\ told' = [told EXCEPT ![s] = kind]
  /\ UNCHANGED <<waiting, token_rx, socket, transcript, task_rx, worker, thread>>

(* "mode" alone prints the mode and sends an event.                        *)
ShowMode(s) ==
  /\ AtPrompt(s)
  /\ Notify(s, IF shell_mode[s] = "chat" THEN "enter" ELSE "exit")
  /\ UNCHANGED shell_mode

(* A line in chat mode is a question; in shell mode a command that failed  *)
(* with output on stderr is.                                               *)
Ask(s) ==
  /\ AtPrompt(s)
  /\ Connect(s, IF shell_mode[s] = "chat" THEN "chat" ELSE "fix")
  /\ waiting' = [waiting EXCEPT ![s] = Len(requests) + 1]
  /\ UNCHANGED <<shell_mode, told, token_rx, socket, transcript, task_rx, worker, thread>>

ExitShell(s) ==
  /\ AtPrompt(s)
  /\ shell_mode' = [shell_mode EXCEPT ![s] = "dead"]
  /\ Notify(s, "exit")

(* A killed shell sends no event, and its socket is closed.                *)
KillShell(s) ==
  /\ shell_mode[s] # "dead"
  /\ shell_mode' = [shell_mode EXCEPT ![s] = "dead"]
  /\ waiting' = [waiting EXCEPT ![s] = 0]
  /\ socket' = [r \in Ids |-> IF r = waiting[s] THEN <<>> ELSE socket[r]]
  /\ UNCHANGED <<told, tasks, token_rx, transcript, task_rx, worker, thread>>

(* poll() is not restarted after a signal: ask_chat takes the SIGCHLD of a *)
(* background job for an error and leaves the answer.                      *)
Interrupt(s) ==
  /\ MayInterrupt
  /\ waiting[s] # 0 /\ requests[waiting[s]].kind = "chat"
  /\ waiting' = [waiting EXCEPT ![s] = 0]
  /\ socket' = [r \in Ids |-> IF r = waiting[s] THEN <<>> ELSE socket[r]]
  /\ UNCHANGED <<shell_mode, told, tasks, token_rx, transcript, task_rx, worker, thread>>

(* The shell prints what arrives, until the end mark.                      *)
Listening(r) == r \in Opened /\ waiting[requests[r].shell] = r

Read(r) ==
  /\ Listening(r) /\ socket[r] # <<>>
  /\ socket' = [socket EXCEPT ![r] = Tail(@)]
  /\ waiting' = IF Head(socket[r]) = "end"
                THEN [waiting EXCEPT ![requests[r].shell] = 0] ELSE waiting
  /\ UNCHANGED <<shell_mode, told, tasks, token_rx, transcript, task_rx, worker, thread>>
-----------------------------------------------------------------------------
(* The task of a connection.                                               *)

Goes(r, from, to) == conn[r] = from /\ conn' = [conn EXCEPT ![r] = to]

Silent == UNCHANGED <<socket, transcript>>

(* write_all waits for room in the socket; with nobody at the other end    *)
(* its error is ignored.                                                   *)
Recorded(marks, mark) ==
  IF mark = "text" /\ marks # <<>> /\ marks[Len(marks)] = "text"
  THEN marks ELSE Append(marks, mark)

Write(r, mark) ==
  IF Listening(r)
  THEN /\ Len(socket[r]) < SockCap
       /\ socket' = [socket EXCEPT ![r] = Append(@, mark)]
       /\ transcript' = [transcript EXCEPT ![r] = Recorded(@, mark)]
  ELSE Silent

(* The message is read to its end mark and, for a question, memories are   *)
(* retrieved.                                                              *)
ReadRequest(r) ==
  /\ Goes(r, "reading", "sending")
  /\ InOrder => \A q \in 1 .. r - 1 :
       (requests[q].shell = requests[r].shell /\ IsEvent(q)) => conn[q] = "ended"
  /\ UNCHANGED <<users, requests, round, capturing, token_rx, socket, transcript, task_rx, worker, thread>>

UnboundedTasks == worker # Dead
TasksHaveRoom  == worker # Dead /\ Len(task_rx) < TaskCap

(* task_tx.send: waits for room; once the worker is dead it fails, and the *)
(* loop of a question tries again for ever.                                *)
SendTask(r) ==
  /\ conn[r] = "sending" /\ TasksHaveRoom
  /\ conn' = [conn EXCEPT ![r] = IF IsEvent(r) THEN "ended" ELSE "receiving"]
  /\ task_rx' = Append(task_rx, [req |-> r, round |-> round[r]])
  /\ UNCHANGED <<users, requests, round, capturing, token_rx, socket, transcript, worker, thread>>

DropEvent(r) ==
  /\ Goes(r, "sending", "ended")
  /\ worker = Dead /\ IsEvent(r)
  /\ UNCHANGED <<users, requests, round, capturing, token_rx, socket, transcript, task_rx, worker, thread>>

Received(r, chunk) ==
  /\ conn[r] = "receiving" /\ token_rx[r] # <<>> /\ Head(token_rx[r]) = chunk
  /\ token_rx' = [token_rx EXCEPT ![r] = Tail(@)]

Kept == UNCHANGED <<users, requests, round, task_rx, worker, thread>>

(* The spoken intro: announced, and waited for as long as it takes to say. *)
(* One that is empty once cleaned is skipped.                              *)
ReceiveIntro(r) ==
  /\ Received(r, "intro")
  /\ \/ Write(r, "speaking") /\ Goes(r, "receiving", "sleeping")
     \/ Silent /\ UNCHANGED conn
  /\ UNCHANGED capturing /\ Kept

Spoken(r) ==
  /\ Goes(r, "sleeping", "receiving")
  /\ UNCHANGED <<capturing, token_rx>> /\ Silent /\ Kept

ReceiveText(r) ==
  /\ Received(r, "text")
  /\ IF capturing[r] THEN Silent ELSE Write(r, "text")
  /\ UNCHANGED <<conn, capturing>> /\ Kept

(* "@@" opens a tool call, text before it in the chunk is passed on; the   *)
(* next "@@" ends the loop over the chunks.                                *)
OpenTool(r) ==
  /\ ~capturing[r] /\ Received(r, "@@")
  /\ capturing' = [capturing EXCEPT ![r] = TRUE]
  /\ Silent \/ Write(r, "text")
  /\ UNCHANGED conn /\ Kept

CloseTool(r) ==
  /\ capturing[r] /\ Received(r, "@@")
  /\ Goes(r, "receiving", "tool")
  /\ UNCHANGED capturing /\ Silent /\ Kept

(* The command ran: the next round asks for a summary of its output, over  *)
(* a new token channel; the old one is dropped with what is in it.         *)
RunTool(r) ==
  /\ Goes(r, "tool", "sending")
  /\ round' = [round EXCEPT ![r] = @ + 1]
  /\ capturing' = [capturing EXCEPT ![r] = FALSE]
  /\ token_rx' = [token_rx EXCEPT ![r] = <<>>]
  /\ UNCHANGED <<users, requests, socket, transcript, task_rx, worker, thread>>

(* A command that is blocked, empty or cannot be run ends the answer.      *)
RefuseAndEnd(r) ==
  /\ Goes(r, "tool", "ending")
  /\ Write(r, "end")
  /\ UNCHANGED <<capturing, token_rx>> /\ Kept

RefuseTool(r) ==
  /\ Goes(r, "tool", "ending")
  /\ UNCHANGED <<capturing, token_rx>> /\ Silent /\ Kept

(* recv() returns None: the channel is empty and its sender gone.          *)
SenderKept(r) == conn[r] = "receiving"
SenderAlive(r) ==
  \/ \E i \in DOMAIN task_rx : task_rx[i] = [req |-> r, round |-> round[r]]
  \/ worker.req = r /\ worker.round = round[r]

EndOfStream(r) ==
  /\ token_rx[r] = <<>> /\ ~SenderAlive(r)
  /\ Goes(r, "receiving", "ending")
  /\ UNCHANGED <<capturing, token_rx>> /\ Silent /\ Kept

WriteEnd(r) ==
  /\ Goes(r, "ending", "ended")
  /\ Write(r, "end")
  /\ capturing' = [capturing EXCEPT ![r] = FALSE]
  /\ token_rx' = [token_rx EXCEPT ![r] = <<>>]
  /\ Kept

Connection(r) ==
  \/ ReadRequest(r) \/ SendTask(r) \/ DropEvent(r)
  \/ ReceiveIntro(r) \/ Spoken(r) \/ ReceiveText(r)
  \/ OpenTool(r) \/ CloseTool(r) \/ EndOfStream(r) \/ WriteEnd(r)

(* The task of a connection waits for the command without a timeout.       *)
Tool(r) == RunTool(r) \/ RefuseTool(r)
-----------------------------------------------------------------------------
(* The worker thread.                                                      *)

TakesTask(task) ==
  /\ worker = Idle /\ task_rx # <<>> /\ task = Head(task_rx)
  /\ task_rx' = Tail(task_rx)
  /\ UNCHANGED <<users, tasks, token_rx, socket, transcript>>

(* A model that is not loaded is loaded; without its file, or when it does *)
(* not load, there is none.                                                *)
Loaded == {model_7b, TRUE}

ChatModeEnter ==
  \E task \in [req : Opened, round : {1}] :
    /\ TakesTask(task) /\ requests[task.req].kind = "enter"
    /\ active_chat_shells' = active_chat_shells \cup {requests[task.req].shell}
    /\ model_7b' \in Loaded
    /\ UNCHANGED worker

AllOut(s)   == {}
Without(s)  == active_chat_shells \ {s}
AnyExit(s)  == FALSE
Still7b(s)  == model_7b /\ Without(s) # {}

ChatModeExit ==
  \E task \in [req : Opened, round : {1}] :
    /\ TakesTask(task) /\ requests[task.req].kind = "exit"
    /\ active_chat_shells' = Without(requests[task.req].shell)
    /\ model_7b' = Still7b(requests[task.req].shell)
    /\ UNCHANGED worker

(* The voice prompt is empty in every round but the first.                 *)
EveryRound(task) == TRUE
HasVoice(task)   == task.round = 1

DualPass ==
  \E task \in [req : Opened, round : 1 .. MaxRounds] :
    /\ TakesTask(task) /\ ~IsEvent(task.req)
    /\ worker' = [phase |-> IF HasVoice(task) THEN "intro" ELSE "load",
                  req |-> task.req, round |-> task.round, chunk |-> "none", n |-> 0]
    /\ UNCHANGED thread

Unseen == UNCHANGED <<users, tasks, socket, transcript, task_rx>>

(* The 1.5B model writes an intro, or nothing.                             *)
WriteIntro ==
  /\ worker.phase = "intro"
  /\ \E chunk \in {"intro", "none"} :
       worker' = [worker EXCEPT !.phase = "load", !.chunk = chunk]
  /\ UNCHANGED <<token_rx, thread>> /\ Unseen

(* A question needs the 7B model, a fix the 1.5B one; without a model or a *)
(* context there is no text.                                               *)
LoadModel ==
  /\ worker.phase = "load" /\ worker.chunk = "none"
  /\ model_7b' \in IF requests[worker.req].kind = "chat" THEN Loaded ELSE {model_7b}
  /\ \/ worker' = Idle
     \/ /\ requests[worker.req].kind = "chat" => model_7b'
        /\ worker' = [worker EXCEPT !.phase = "text"]
  /\ UNCHANGED <<token_rx, active_chat_shells>> /\ Unseen

(* A chunk holds a "@@" or it does not.                                    *)
Generate ==
  /\ worker.phase = "text" /\ worker.chunk = "none" /\ worker.n < MaxChunks
  /\ \E chunk \in {"text"} \cup (IF worker.round < MaxRounds THEN {"@@"} ELSE {}) :
       worker' = [worker EXCEPT !.chunk = chunk, !.n = @ + 1]
  /\ UNCHANGED <<token_rx, thread>> /\ Unseen

(* The receiver of a round is dropped when the task goes on to the next    *)
(* round or ends.                                                          *)
NeverDropped == conn[worker.req] # "ended"
ReceiverAlive ==
  conn[worker.req] # "ended" /\ worker.round = round[worker.req]

Sending == worker.chunk # "none"

(* blocking_send.                                                          *)
SendChunk ==
  /\ Sending /\ ReceiverAlive
  /\ Len(token_rx[worker.req]) < TokenCap
  /\ token_rx' = [token_rx EXCEPT ![worker.req] = Append(@, worker.chunk)]
  /\ worker' = [worker EXCEPT !.chunk = "none"]
  /\ UNCHANGED thread /\ Unseen

SendFails ==
  /\ Sending /\ ~ReceiverAlive
  /\ worker' = IF worker.chunk = "intro" THEN [worker EXCEPT !.chunk = "none"] ELSE Idle
  /\ UNCHANGED <<token_rx, thread>> /\ Unseen

(* End of generation, the limit of tokens, or an error of the model.       *)
FinishTask ==
  /\ worker.phase = "text" /\ worker.chunk = "none"
  /\ worker' = Idle
  /\ UNCHANGED <<token_rx, thread>> /\ Unseen

(* A panic drops the task, the queue and their senders.                    *)
Panic ==
  /\ MayPanic /\ worker.phase \in {"intro", "load", "text"} /\ worker.chunk = "none"
  /\ worker' = Dead
  /\ task_rx' = <<>>
  /\ active_chat_shells' = {} /\ model_7b' = FALSE
  /\ UNCHANGED <<users, tasks, token_rx, socket, transcript>>

Worker ==
  \/ ChatModeEnter \/ ChatModeExit \/ DualPass
  \/ WriteIntro \/ LoadModel \/ Generate \/ SendChunk \/ SendFails \/ FinishTask
-----------------------------------------------------------------------------
Shell(s) ==
  \/ \E mode \in Modes : SwitchMode(s, mode)
  \/ ShowMode(s) \/ Ask(s) \/ ExitShell(s) \/ KillShell(s) \/ Interrupt(s)

Next ==
  \/ \E s \in Shells : Shell(s)
  \/ \E r \in Ids : Read(r) \/ Connection(r) \/ Tool(r)
  \/ Worker \/ Panic

Spec == Init /\ [][Next]_vars

(* tokio runs every task that can go on, the worker thread runs, a shell   *)
(* that waits reads (its terminal takes the output).  Models stop calling  *)
(* tools after MaxRounds.  The commands of tools and users owe nothing.    *)
FairSpec ==
  /\ Spec
  /\ \A r \in Ids : WF_vars(Connection(r)) /\ WF_vars(Read(r))
  /\ WF_vars(Worker)
-----------------------------------------------------------------------------
(* Properties.                                                             *)

(* Every variable has its type; the channels stay within their capacities, *)
(* and a socket within what it can hold.                                   *)
TypeOK ==
  /\ shell_mode \in [Shells -> {"shell", "chat", "dead"}]
  /\ waiting \in [Shells -> 0 .. MaxRequests]
  /\ told \in [Shells -> Events]
  /\ requests \in Seq([shell : Shells, kind : Events \cup {"chat", "fix"}])
  /\ Len(requests) <= MaxRequests
  /\ conn \in [Ids -> {"none", "reading", "sending", "receiving", "sleeping",
                       "tool", "ending", "ended"}]
  /\ round \in [Ids -> 1 .. MaxRounds]
  /\ capturing \in [Ids -> BOOLEAN]
  /\ token_rx \in [Ids -> Seq({"intro", "text", "@@"})]
  /\ socket \in [Ids -> Seq({"speaking", "text", "end"})]
  /\ transcript \in [Ids -> Seq({"speaking", "text", "end"})]
  /\ \A r \in Ids : Len(token_rx[r]) <= TokenCap /\ Len(socket[r]) <= SockCap
  /\ task_rx \in Seq([req : Ids, round : 1 .. MaxRounds]) /\ Len(task_rx) <= TaskCap
  /\ worker \in [phase : {"intro", "load", "text"}, req : Ids, round : 1 .. MaxRounds,
                 chunk : {"none", "intro", "text", "@@"}, n : 0 .. MaxChunks] \cup {Idle, Dead}
  /\ active_chat_shells \subseteq Shells /\ model_7b \in BOOLEAN

(* The worker serves everybody and blocks when a token channel is full.    *)
(* It never does so on a connection that waits for the worker itself: the  *)
(* one it blocks on is receiving, or on its way to receive or to end.      *)
Blocked == Sending /\ ReceiverAlive /\ Len(token_rx[worker.req]) = TokenCap
NoCircularWait ==
  Blocked => conn[worker.req] \in {"receiving", "sleeping", "tool", "ending"}

(* However many rounds and tools an answer takes, "__SPEAKING__" comes     *)
(* before everything else (the shell stops showing it at the first text),  *)
(* and "__END__" once, at the end: the shell never stops reading early.    *)
AnswerShape ==
  \A r \in Ids : \A i \in DOMAIN transcript[r] :
    /\ transcript[r][i] = "speaking" => i = 1
    /\ transcript[r][i] = "end" => i = Len(transcript[r]) /\ conn[r] = "ended"

(* All of the above implements the service that ChatService states: only a *)
(* shell that waits is answered, it goes back to its prompt at the end     *)
(* mark unless a signal makes it hang up, and a request it waits for is    *)
(* not given up.                                                           *)
alive  == {s \in Shells : shell_mode[s] # "dead"}
opened == {r \in Opened : conn[r] # "ended"}
Service == INSTANCE ChatService WITH
  Clients <- Shells, MayHangUp <- MayInterrupt, made <- Opened, open <- opened, answer <- transcript
ServesAsPromised == Service!Spec

(* The 7B model, once loaded, stays loaded as long as some shell last said *)
(* that it entered chat mode, whatever other shells enter, exit or ask.    *)
(* It is only unloaded while every such shell still has an event on its    *)
(* way, or by the death of the worker.  The events of a shell are in order.*)
OnItsWay(s) ==
  \E r \in Opened :
    /\ requests[r].shell = s /\ IsEvent(r)
    /\ conn[r] # "ended" \/ \E i \in DOMAIN task_rx : task_rx[i].req = r
ModelKeptForChat ==
  [][(model_7b /\ ~model_7b' /\ worker' # Dead)
     => \A s \in Shells : told[s] = "enter" => OnItsWay(s)]_vars

(* When the events of a shell are sent in order, a daemon that has handled *)
(* them all knows the shells that last said "entered_chat".                *)
Settled == task_rx = <<>> /\ worker # Dead
           /\ \A r \in Opened : IsEvent(r) => conn[r] = "ended"
ChatShellsKnown ==
  Settled => active_chat_shells = {s \in Shells : told[s] = "enter"}

(* If the commands of tools end, every request is answered to the end and  *)
(* the shell that waits for it goes back to its prompt, whatever the other *)
(* shells do (they may be killed or leave in the middle of an answer) and  *)
(* even if the worker dies at work on it.  The exception is a question     *)
(* that has a task to send to a dead worker: its loop tries for ever.      *)
ToolsEnd == \A r \in Ids : []<>(conn[r] # "tool")
Retrying(r) == worker = Dead /\ conn[r] = "sending"
Answered ==
  ToolsEnd => \A r \in Ids :
    conn[r] = "reading" ~> ((conn[r] = "ended" /\ ~Listening(r)) \/ Retrying(r))
=============================================================================
