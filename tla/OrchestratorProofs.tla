------------------------- MODULE OrchestratorProofs -------------------------
(***************************************************************************)
(* Proofs about Orchestrator, for any number of shells, requests, rounds   *)
(* and chunks and for any capacity of the channels and sockets: first its  *)
(* invariants, then that it implements ChatService and that every answer   *)
(* has the shape the clients rely on.                                      *)
(***************************************************************************)
EXTENDS Orchestrator, SequenceTheorems, TLAPS

Marks   == {"speaking", "text", "end"}
Chunks  == {"intro", "text", "@@"}
(* The task of a connection takes a step.                                  *)
Serves(r) == Connection(r) \/ Tool(r)
Active  == worker.phase \in {"intro", "load", "text"}
Working == [phase : {"intro", "load", "text"}, req : Ids, round : 1 .. MaxRounds,
            chunk : {"none"} \cup Chunks, n : 0 .. MaxChunks]

(* The round of an answer does not exceed MaxRounds: only a round before   *)
(* the last one can be at work on a tool call.                             *)
ToolRounds ==
  /\ worker.chunk = "@@" => worker.round < MaxRounds
  /\ \A r \in Ids : (conn[r] = "tool" \/ capturing[r]) => round[r] < MaxRounds
  /\ \A r \in Ids : \A i \in DOMAIN token_rx[r] : token_rx[r][i] = "@@" => round[r] < MaxRounds

TypeInv == TypeOK /\ ToolRounds

(* TypeOK by parts, for the steps that disturb one of them.                *)
UsersOK ==
  /\ shell_mode \in [Shells -> {"shell", "chat", "dead"}]
  /\ waiting \in [Shells -> 0 .. MaxRequests]
  /\ told \in [Shells -> Events]
TasksOK ==
  /\ requests \in Seq([shell : Shells, kind : Events \cup {"chat", "fix"}])
  /\ Len(requests) <= MaxRequests
  /\ conn \in [Ids -> {"none", "reading", "sending", "receiving", "sleeping",
                       "tool", "ending", "ended"}]
  /\ round \in [Ids -> 1 .. MaxRounds]
  /\ capturing \in [Ids -> BOOLEAN]
ChannelsOK ==
  token_rx \in [Ids -> Seq(Chunks)] /\ \A r \in Ids : Len(token_rx[r]) <= TokenCap
SocketsOK ==
  /\ socket \in [Ids -> Seq(Marks)] /\ \A r \in Ids : Len(socket[r]) <= SockCap
  /\ transcript \in [Ids -> Seq(Marks)]
WorkerOK ==
  /\ task_rx \in Seq([req : Ids, round : 1 .. MaxRounds]) /\ Len(task_rx) <= TaskCap
  /\ worker \in Working \cup {Idle, Dead}
ThreadOK == active_chat_shells \subseteq Shells /\ model_7b \in BOOLEAN

LEMMA TypeParts ==
  TypeOK <=> UsersOK /\ TasksOK /\ ChannelsOK /\ SocketsOK /\ WorkerOK /\ ThreadOK
BY DEF TypeOK, UsersOK, TasksOK, ChannelsOK, SocketsOK, WorkerOK, ThreadOK, Working, Marks, Chunks

LEMMA TypePartsPrimed ==
  TypeOK' <=> UsersOK' /\ TasksOK' /\ ChannelsOK' /\ SocketsOK' /\ WorkerOK' /\ ThreadOK'
BY DEF TypeOK, UsersOK, TasksOK, ChannelsOK, SocketsOK, WorkerOK, ThreadOK, Working, Marks, Chunks

(* A part whose variables do not change stays right.                       *)
LEMMA Unchanged ==
  ASSUME TypeOK
  PROVE  /\ UNCHANGED users => UsersOK'
         /\ UNCHANGED tasks => TasksOK'
         /\ UNCHANGED token_rx => ChannelsOK'
         /\ UNCHANGED <<socket, transcript>> => SocketsOK'
         /\ UNCHANGED <<task_rx, worker>> => WorkerOK'
         /\ UNCHANGED thread => ThreadOK'
BY TypeParts DEF UsersOK, TasksOK, ChannelsOK, SocketsOK, WorkerOK, ThreadOK, users, tasks, thread
-----------------------------------------------------------------------------
(* Shells.                                                                 *)

LEMMA ConnectType ==
  ASSUME TypeOK, NEW s \in Shells, NEW kind \in Events \cup {"chat", "fix"}, Connect(s, kind)
  PROVE  TasksOK' /\ Len(requests) + 1 \in Ids
<1> USE OrchestratorAssumption
<1>1. requests' \in Seq([shell : Shells, kind : Events \cup {"chat", "fix"}])
      /\ Len(requests') = Len(requests) + 1
  BY DEF TypeOK, Connect
<1>2. Len(requests) + 1 \in Ids /\ Len(requests') <= MaxRequests
  BY <1>1 DEF TypeOK, Connect, Ids
<1>3. QED
  BY <1>1, <1>2 DEF TypeOK, TasksOK, Connect

LEMMA ShellType ==
  ASSUME TypeOK, NEW s \in Shells, Shell(s)
  PROVE  TypeOK'
<1> USE OrchestratorAssumption
<1>1. CASE \E mode \in Modes : SwitchMode(s, mode)
  <2>1. UsersOK'
    BY <1>1 DEF SwitchMode, TypeOK, UsersOK
  <2>2. QED
    BY <1>1, <2>1, Unchanged, TypePartsPrimed DEF SwitchMode
<1>2. CASE ShowMode(s)
  <2>1. PICK kind \in Events : Notify(s, kind)
    BY <1>2 DEF ShowMode, Events
  <2>2. UsersOK'
    BY <1>2, <2>1, SMTT(30) DEF ShowMode, Notify, TypeOK, UsersOK
  <2>3. TasksOK'
    BY <2>1, ConnectType DEF Notify
  <2>4. QED
    BY <2>1, <2>2, <2>3, Unchanged, TypePartsPrimed DEF Notify
<1>3. CASE Ask(s)
  <2>1. PICK kind \in Events \cup {"chat", "fix"} : Connect(s, kind)
    BY <1>3 DEF Ask
  <2>2. TasksOK' /\ Len(requests) + 1 \in Ids
    BY <2>1, ConnectType
  <2>3. UsersOK'
    <3>1. UNCHANGED <<shell_mode, told>>
      BY <1>3 DEF Ask
    <3>2. waiting' = [waiting EXCEPT ![s] = Len(requests) + 1]
      BY <1>3 DEF Ask
    <3>3. Len(requests) + 1 \in 0 .. MaxRequests
      BY <2>2 DEF Ids
    <3>4. waiting' \in [Shells -> 0 .. MaxRequests]
      BY <3>2, <3>3 DEF TypeOK
    <3>5. QED
      BY <3>1, <3>4 DEF TypeOK, UsersOK
  <2>4. QED
    BY <1>3, <2>2, <2>3, Unchanged, TypePartsPrimed DEF Ask
<1>4. CASE ExitShell(s)
  <2>1. "exit" \in Events /\ Notify(s, "exit")
    BY <1>4 DEF ExitShell, Events
  <2>2. UsersOK'
    BY <1>4, <2>1 DEF ExitShell, Notify, TypeOK, UsersOK
  <2>3. TasksOK'
    BY <2>1, ConnectType DEF Notify
  <2>4. QED
    BY <2>1, <2>2, <2>3, Unchanged, TypePartsPrimed DEF Notify
<1>5. CASE KillShell(s)
  <2>1. UsersOK'
    BY <1>5 DEF KillShell, TypeOK, UsersOK
  <2>2. <<>> \in Seq(Marks) /\ Len(<<>>) <= SockCap
    OBVIOUS
  <2>3. SocketsOK'
    BY <1>5, <2>2 DEF KillShell, TypeOK, SocketsOK, Marks
  <2>4. QED
    BY <1>5, <2>1, <2>3, Unchanged, TypePartsPrimed DEF KillShell
<1>6. CASE Interrupt(s)
  <2>1. UsersOK'
    BY <1>6, SMTT(30) DEF Interrupt, TypeOK, UsersOK
  <2>2. <<>> \in Seq(Marks) /\ Len(<<>>) <= SockCap
    OBVIOUS
  <2>3. SocketsOK'
    BY <1>6, <2>2 DEF Interrupt, TypeOK, SocketsOK, Marks
  <2>4. QED
    BY <1>6, <2>1, <2>3, Unchanged, TypePartsPrimed DEF Interrupt
<1>7. QED
  BY <1>1, <1>2, <1>3, <1>4, <1>5, <1>6 DEF Shell

LEMMA ReadType ==
  ASSUME TypeOK, NEW r \in Ids, Read(r)
  PROVE  TypeOK'
<1> USE OrchestratorAssumption
<1>1. Tail(socket[r]) \in Seq(Marks) /\ Len(Tail(socket[r])) <= SockCap
  <2>1. socket[r] \in Seq(Marks) /\ socket[r] # <<>> /\ Len(socket[r]) <= SockCap
    BY DEF Read, TypeOK, Marks
  <2>2. QED
    BY <2>1, HeadTailProperties
<1>2. SocketsOK'
  BY <1>1 DEF Read, TypeOK, SocketsOK, Marks
<1>3. UsersOK'
  <2>1. waiting' \in [Shells -> 0 .. MaxRequests]
    <3>1. waiting \in [Shells -> 0 .. MaxRequests] /\ 0 \in 0 .. MaxRequests
      BY DEF TypeOK
    <3>2. QED
      BY <3>1 DEF Read
  <2>2. QED
    BY <2>1 DEF Read, TypeOK, UsersOK
<1>4. QED
  BY <1>2, <1>3, Unchanged, TypePartsPrimed DEF Read
-----------------------------------------------------------------------------
(* The task of a connection.                                               *)

LEMMA WriteType ==
  ASSUME TypeOK, NEW r \in Ids, NEW mark \in Marks, Write(r, mark)
  PROVE  SocketsOK'
<1> USE OrchestratorAssumption
<1>1. CASE Listening(r)
  <2>1. Append(socket[r], mark) \in Seq(Marks) /\ Recorded(transcript[r], mark) \in Seq(Marks)
    <3>1. socket[r] \in Seq(Marks) /\ transcript[r] \in Seq(Marks) /\ mark \in Marks
      BY DEF TypeOK, Marks
    <3>2. QED
      BY <3>1 DEF Recorded
  <2>2. Len(Append(socket[r], mark)) <= SockCap
    <3>1. socket[r] \in Seq(Marks) /\ Len(socket[r]) < SockCap /\ SockCap \in Nat
      BY <1>1 DEF Write, TypeOK, Marks
    <3>2. QED
      BY <3>1
  <2>3. /\ socket \in [Ids -> Seq(Marks)] /\ transcript \in [Ids -> Seq(Marks)]
        /\ \A q \in Ids : Len(socket[q]) <= SockCap
        /\ socket' = [socket EXCEPT ![r] = Append(socket[r], mark)]
        /\ transcript' = [transcript EXCEPT ![r] = Recorded(transcript[r], mark)]
    BY <1>1 DEF Write, TypeOK, Marks
  <2>4. socket' \in [Ids -> Seq(Marks)] /\ transcript' \in [Ids -> Seq(Marks)]
    BY <2>1, <2>3, Zenon
  <2>5. ASSUME NEW q \in Ids PROVE Len(socket'[q]) <= SockCap
    <3>1. socket'[q] = IF q = r THEN Append(socket[r], mark) ELSE socket[q]
      BY <2>3
    <3>2. QED
      BY <2>2, <2>3, <3>1
  <2>6. QED
    BY <2>4, <2>5 DEF SocketsOK
<1>2. CASE ~Listening(r)
  BY <1>2, Unchanged DEF Write, Silent
<1>3. QED
  BY <1>1, <1>2

LEMMA ReceivedType ==
  ASSUME TypeOK, NEW r \in Ids, NEW chunk, Received(r, chunk)
  PROVE  /\ ChannelsOK'
         /\ \E j \in DOMAIN token_rx[r] : token_rx[r][j] = chunk
         /\ \A i \in DOMAIN token_rx'[r] : \E j \in DOMAIN token_rx[r] :
              token_rx'[r][i] = token_rx[r][j]
<1> USE OrchestratorAssumption
<1>1. /\ token_rx[r] \in Seq(Chunks) /\ token_rx[r] # <<>> /\ Len(token_rx[r]) <= TokenCap
      /\ token_rx' = [token_rx EXCEPT ![r] = Tail(token_rx[r])] /\ Head(token_rx[r]) = chunk
  BY DEF Received, TypeOK, Chunks
<1>2. /\ Tail(token_rx[r]) \in Seq(Chunks) /\ Len(Tail(token_rx[r])) = Len(token_rx[r]) - 1
      /\ \A i \in 1 .. Len(Tail(token_rx[r])) : Tail(token_rx[r])[i] = token_rx[r][i + 1]
  BY <1>1, HeadTailProperties
<1>3. token_rx'[r] = Tail(token_rx[r])
  BY <1>1 DEF TypeOK
<1>4. ChannelsOK'
  <2>1. Len(Tail(token_rx[r])) <= TokenCap
    BY <1>1, <1>2, LenProperties
  <2>2. token_rx \in [Ids -> Seq(Chunks)] /\ \A q \in Ids : Len(token_rx[q]) <= TokenCap
    BY DEF TypeOK, Chunks
  <2>3. token_rx' \in [Ids -> Seq(Chunks)]
    BY <1>1, <1>2, <2>2
  <2>4. \A q \in Ids : token_rx'[q] = token_rx[q] \/ token_rx'[q] = Tail(token_rx[r])
    BY <1>1, <2>2
  <2>5. QED
    BY <2>1, <2>2, <2>3, <2>4 DEF ChannelsOK
<1>5. 1 \in DOMAIN token_rx[r] /\ token_rx[r][1] = chunk
  BY <1>1
<1>6. ASSUME NEW i \in DOMAIN token_rx'[r]
      PROVE  \E j \in DOMAIN token_rx[r] : token_rx'[r][i] = token_rx[r][j]
  <2>1. i \in 1 .. Len(Tail(token_rx[r]))
    BY <1>2, <1>3, <1>6, LenProperties
  <2>2. i + 1 \in DOMAIN token_rx[r]
    BY <1>1, <1>2, <2>1
  <2>3. QED
    BY <1>2, <1>3, <2>1, <2>2
<1>7. QED
  BY <1>4, <1>5, <1>6

(* A connection that does not receive or run a tool.                       *)
LEMMA QuietType ==
  ASSUME TypeInv, NEW r \in Ids,
         ReadRequest(r) \/ SendTask(r) \/ DropEvent(r) \/ Spoken(r) \/ RefuseTool(r)
           \/ EndOfStream(r) \/ WriteEnd(r)
  PROVE  TypeInv'
<1> USE OrchestratorAssumption
<1>1. TypeOK /\ ToolRounds
  BY DEF TypeInv
<1>2. ASSUME NEW from, NEW to \in {"sending", "receiving", "ending", "ended"}, Goes(r, from, to)
      PROVE  conn' \in [Ids -> {"none", "reading", "sending", "receiving", "sleeping",
                                "tool", "ending", "ended"}]
             /\ \A q \in Ids : conn'[q] = "tool" => conn[q] = "tool"
  BY <1>1, <1>2 DEF Goes, TypeOK
<1>3. CASE ReadRequest(r) \/ DropEvent(r) \/ Spoken(r) \/ RefuseTool(r) \/ EndOfStream(r)
  <2>1. PICK to \in {"sending", "receiving", "ending", "ended"} : \E from : Goes(r, from, to)
    BY <1>3 DEF ReadRequest, DropEvent, Spoken, RefuseTool, EndOfStream
  <2>2. UNCHANGED <<users, requests, round, capturing, token_rx, socket, transcript, task_rx,
                    worker, thread>>
    BY <1>3 DEF ReadRequest, DropEvent, Spoken, RefuseTool, EndOfStream, Silent, Kept
  <2>3. TypeOK'
    BY <1>1, <1>2, <2>1, <2>2 DEF TypeOK, users, thread
  <2>4. ToolRounds'
    BY <1>1, <1>2, <2>1, <2>2 DEF ToolRounds
  <2>5. QED
    BY <2>3, <2>4 DEF TypeInv
<1>4. CASE SendTask(r)
  <2>1. conn' \in [Ids -> {"none", "reading", "sending", "receiving", "sleeping",
                           "tool", "ending", "ended"}]
        /\ \A q \in Ids : conn'[q] = "tool" => conn[q] = "tool"
    BY <1>1, <1>4 DEF SendTask, TypeOK
  <2>2. [req |-> r, round |-> round[r]] \in [req : Ids, round : 1 .. MaxRounds]
    BY <1>1 DEF TypeOK
  <2>3. task_rx' \in Seq([req : Ids, round : 1 .. MaxRounds]) /\ Len(task_rx') <= TaskCap
    BY <1>1, <1>4, <2>2 DEF SendTask, TasksHaveRoom, TypeOK
  <2>4. UNCHANGED <<users, requests, round, capturing, token_rx, socket, transcript, worker, thread>>
    BY <1>4 DEF SendTask
  <2>5. TypeOK'
    BY <1>1, <2>1, <2>3, <2>4 DEF TypeOK, users, thread
  <2>6. ToolRounds'
    BY <1>1, <2>1, <2>4 DEF ToolRounds
  <2>7. QED
    BY <2>5, <2>6 DEF TypeInv
<1>5. CASE WriteEnd(r)
  <2>1. SocketsOK'
    BY <1>1, <1>5, WriteType DEF WriteEnd, Marks
  <2>2. TasksOK' /\ \A q \in Ids : conn'[q] = "tool" => conn[q] = "tool"
    BY <1>1, <1>5 DEF WriteEnd, Goes, Kept, TasksOK, TypeOK
  <2>3. /\ token_rx' \in [Ids -> Seq(Chunks)]
        /\ \A q \in Ids : token_rx'[q] = token_rx[q] \/ token_rx'[q] = <<>>
    BY <1>1, <1>5 DEF WriteEnd, TypeOK, Chunks
  <2>4. ChannelsOK'
    <3>1. \A q \in Ids : Len(token_rx[q]) <= TokenCap
      BY <1>1 DEF TypeOK
    <3>2. Len(<<>>) = 0 /\ 0 <= TokenCap
      BY EmptySeq
    <3>3. QED
      BY <2>3, <3>1, <3>2 DEF ChannelsOK
  <2>5. TypeOK'
    BY <1>1, <1>5, <2>1, <2>2, <2>4, Unchanged, TypePartsPrimed DEF WriteEnd, Kept
  <2>6. \A q \in Ids : capturing'[q] => capturing[q]
    BY <1>1, <1>5 DEF WriteEnd, TypeOK
  <2>7. UNCHANGED <<round, worker>>
    BY <1>5 DEF WriteEnd, Kept
  <2>8. ToolRounds'
    BY <1>1, <2>2, <2>3, <2>6, <2>7 DEF ToolRounds
  <2>9. QED
    BY <2>5, <2>8 DEF TypeInv
<1>6. QED
  BY <1>3, <1>4, <1>5

(* A connection that receives a chunk.                                     *)
LEMMA ReceiveType ==
  ASSUME TypeInv, NEW r \in Ids,
         ReceiveIntro(r) \/ ReceiveText(r) \/ OpenTool(r) \/ CloseTool(r)
  PROVE  TypeInv'
<1> USE OrchestratorAssumption
<1>1. TypeOK /\ ToolRounds
  BY DEF TypeInv
<1>2. PICK chunk : Received(r, chunk) /\ ((OpenTool(r) \/ CloseTool(r)) => chunk = "@@")
  BY DEF ReceiveIntro, ReceiveText, OpenTool, CloseTool
<1>3. /\ ChannelsOK'
      /\ \E j \in DOMAIN token_rx[r] : token_rx[r][j] = chunk
      /\ \A i \in DOMAIN token_rx'[r] : \E j \in DOMAIN token_rx[r] :
           token_rx'[r][i] = token_rx[r][j]
  BY <1>1, <1>2, ReceivedType
<1>4. \A q \in Ids : q # r => token_rx'[q] = token_rx[q]
  BY <1>1, <1>2 DEF Received, TypeOK
<1>5. (OpenTool(r) \/ CloseTool(r)) => round[r] < MaxRounds
  BY <1>1, <1>2, <1>3 DEF ToolRounds
<1>6. SocketsOK'
  BY <1>1, WriteType, Unchanged
     DEF ReceiveIntro, ReceiveText, OpenTool, CloseTool, Silent, Marks
<1>7. /\ TasksOK' /\ UNCHANGED <<round, worker>>
      /\ \A q \in Ids : (q # r \/ ~(OpenTool(r) \/ CloseTool(r))) =>
           (conn'[q] = "tool" => conn[q] = "tool") /\ (capturing'[q] => capturing[q])
  BY <1>1 DEF ReceiveIntro, ReceiveText, OpenTool, CloseTool, Goes, Kept, TasksOK, TypeOK
<1>8. UNCHANGED <<users, task_rx, worker, thread>>
  BY DEF ReceiveIntro, ReceiveText, OpenTool, CloseTool, Kept
<1>9. TypeOK'
  BY <1>1, <1>3, <1>6, <1>7, <1>8, Unchanged, TypePartsPrimed
<1>10. ToolRounds'
  <2>1. ASSUME NEW q \in Ids, conn'[q] = "tool" \/ capturing'[q]
        PROVE  round'[q] < MaxRounds
    BY <1>1, <1>5, <1>7, <2>1 DEF ToolRounds
  <2>2. ASSUME NEW q \in Ids, NEW i \in DOMAIN token_rx'[q], token_rx'[q][i] = "@@"
        PROVE  round'[q] < MaxRounds
    BY <1>1, <1>3, <1>4, <1>7, <2>2 DEF ToolRounds
  <2>3. QED
    BY <1>1, <1>7, <2>1, <2>2 DEF ToolRounds
<1>11. QED
  BY <1>9, <1>10 DEF TypeInv

LEMMA RunToolType ==
  ASSUME TypeInv, NEW r \in Ids, RunTool(r)
  PROVE  TypeInv'
<1> USE OrchestratorAssumption
<1>1. TypeOK /\ ToolRounds
  BY DEF TypeInv
<1>2. round[r] < MaxRounds /\ round[r] \in 1 .. MaxRounds
  BY <1>1 DEF ToolRounds, RunTool, Goes, TypeOK
<1>3. round[r] + 1 \in 1 .. MaxRounds
  BY <1>2
<1>4. TasksOK' /\ \A q \in Ids : conn'[q] = "tool" => conn[q] = "tool" /\ q # r
  <2>1. conn' = [conn EXCEPT ![r] = "sending"] /\ round' = [round EXCEPT ![r] = round[r] + 1]
        /\ capturing' = [capturing EXCEPT ![r] = FALSE] /\ requests' = requests
    BY DEF RunTool, Goes
  <2>2. round' \in [Ids -> 1 .. MaxRounds]
    BY <1>1, <1>3, <2>1, Zenon DEF TypeOK
  <2>3. QED
    BY <1>1, <2>1, <2>2 DEF TasksOK, TypeOK
<1>5. /\ token_rx' \in [Ids -> Seq(Chunks)] /\ token_rx'[r] = <<>>
      /\ \A q \in Ids : q # r => token_rx'[q] = token_rx[q]
  BY <1>1 DEF RunTool, TypeOK, Chunks
<1>6. ChannelsOK'
  <2>1. Len(<<>>) <= TokenCap
    OBVIOUS
  <2>2. ASSUME NEW q \in Ids PROVE Len(token_rx'[q]) <= TokenCap
    BY <1>1, <1>5, <2>1 DEF TypeOK
  <2>3. QED
    BY <1>5, <2>2 DEF ChannelsOK
<1>7. TypeOK'
  BY <1>1, <1>4, <1>6, Unchanged, TypePartsPrimed DEF RunTool
<1>8. \A q \in Ids : (capturing'[q] => capturing[q] /\ q # r)
                     /\ (q # r => round'[q] = round[q])
  BY <1>1 DEF RunTool, TypeOK
<1>9. ToolRounds'
  <2>1. DOMAIN token_rx'[r] = {}
    BY <1>5
  <2>2. ASSUME NEW q \in Ids, NEW i \in DOMAIN token_rx'[q], token_rx'[q][i] = "@@"
        PROVE  round'[q] < MaxRounds
    BY <1>1, <1>5, <1>8, <2>1, <2>2 DEF ToolRounds
  <2>3. ASSUME NEW q \in Ids, conn'[q] = "tool" \/ capturing'[q]
        PROVE  round'[q] < MaxRounds
    BY <1>1, <1>4, <1>8, <2>3 DEF ToolRounds
  <2>4. worker' = worker
    BY DEF RunTool
  <2>5. QED
    BY <1>1, <2>2, <2>3, <2>4 DEF ToolRounds
<1>10. QED
  BY <1>7, <1>9 DEF TypeInv

LEMMA ConnectionType ==
  ASSUME TypeInv, NEW r \in Ids, Serves(r)
  PROVE  TypeInv'
BY QuietType, ReceiveType, RunToolType DEF Serves, Connection, Tool
-----------------------------------------------------------------------------
(* The worker thread.                                                      *)

LEMMA TakeType ==
  ASSUME TypeOK, NEW task, TakesTask(task)
  PROVE  /\ task \in [req : Ids, round : 1 .. MaxRounds]
         /\ task_rx' \in Seq([req : Ids, round : 1 .. MaxRounds]) /\ Len(task_rx') <= TaskCap
<1> USE OrchestratorAssumption
<1>1. task_rx \in Seq([req : Ids, round : 1 .. MaxRounds]) /\ task_rx # <<>>
      /\ Len(task_rx) <= TaskCap /\ TaskCap \in Nat
      /\ task = Head(task_rx) /\ task_rx' = Tail(task_rx)
  BY DEF TakesTask, TypeOK
<1>2. /\ Head(task_rx) \in [req : Ids, round : 1 .. MaxRounds]
      /\ Tail(task_rx) \in Seq([req : Ids, round : 1 .. MaxRounds])
      /\ Len(Tail(task_rx)) = Len(task_rx) - 1
  BY <1>1, HeadTailProperties
<1>3. Len(task_rx) \in Nat
  BY <1>1
<1>4. QED
  BY <1>1, <1>2, <1>3

LEMMA WorkerTakesType ==
  ASSUME TypeInv, ChatModeEnter \/ ChatModeExit \/ DualPass
  PROVE  TypeInv'
<1> USE OrchestratorAssumption
<1>1. TypeOK /\ ToolRounds
  BY DEF TypeInv
<1>2. PICK task : TakesTask(task) /\ (ChatModeEnter \/ ChatModeExit => task.req \in Opened)
  BY DEF ChatModeEnter, ChatModeExit, DualPass
<1>3. /\ task \in [req : Ids, round : 1 .. MaxRounds]
      /\ task_rx' \in Seq([req : Ids, round : 1 .. MaxRounds]) /\ Len(task_rx') <= TaskCap
  BY <1>1, <1>2, TakeType
<1>4. UNCHANGED <<users, tasks, token_rx, socket, transcript>>
  BY <1>2 DEF TakesTask
<1>5. WorkerOK' /\ (worker' = worker \/ worker'.chunk = "none")
  <2>1. CASE ChatModeEnter \/ ChatModeExit
    BY <1>1, <1>3, <2>1 DEF ChatModeEnter, ChatModeExit, WorkerOK, TypeOK, Working, Chunks
  <2>2. CASE DualPass
    <3>1. PICK t \in [req : Opened, round : 1 .. MaxRounds] :
            /\ TakesTask(t)
            /\ worker' = [phase |-> IF HasVoice(t) THEN "intro" ELSE "load",
                          req |-> t.req, round |-> t.round, chunk |-> "none", n |-> 0]
      BY <2>2 DEF DualPass
    <3>2. t.req \in Ids /\ t.round \in 1 .. MaxRounds
      BY <1>1, <3>1, TakeType
    <3>3. 0 \in 0 .. MaxChunks
      OBVIOUS
    <3>4. worker' \in Working /\ worker'.chunk = "none"
      BY <3>1, <3>2, <3>3 DEF Working
    <3>5. QED
      BY <1>3, <3>4 DEF WorkerOK
  <2>3. QED
    BY <2>1, <2>2
<1>6. ThreadOK'
  <2>1. \A r \in Opened : requests[r].shell \in Shells
    <3>1. requests \in Seq([shell : Shells, kind : Events \cup {"chat", "fix"}])
      BY <1>1 DEF TypeOK
    <3>2. /\ requests \in [1 .. Len(requests) ->
                            [shell : Shells, kind : Events \cup {"chat", "fix"}]]
          /\ Opened = 1 .. Len(requests)
      BY <3>1, LenProperties DEF Opened
    <3>3. QED
      BY <3>2
  <2>2. CASE ChatModeEnter
    BY <1>1, <2>1, <2>2 DEF ChatModeEnter, Loaded, ThreadOK, TypeOK
  <2>3. CASE ChatModeExit
    BY <1>1, <2>3 DEF ChatModeExit, Without, Still7b, ThreadOK, TypeOK
  <2>4. CASE DualPass
    BY <1>1, <2>4, Unchanged DEF DualPass
  <2>5. QED
    BY <2>2, <2>3, <2>4
<1>7. TypeOK'
  BY <1>1, <1>4, <1>5, <1>6, Unchanged, TypePartsPrimed
<1>8. ToolRounds'
  BY <1>1, <1>4, <1>5 DEF ToolRounds, tasks
<1>9. QED
  BY <1>7, <1>8 DEF TypeInv

LEMMA WorkerWritesType ==
  ASSUME TypeInv, WriteIntro \/ LoadModel \/ Generate \/ SendFails \/ FinishTask
  PROVE  TypeInv'
<1> USE OrchestratorAssumption
<1>1. TypeOK /\ ToolRounds
  BY DEF TypeInv
<1>2. worker \in Working
  <2>1. worker \in Working \cup {Idle, Dead}
    BY <1>1 DEF TypeOK, Working, Chunks
  <2>2. Idle.phase = "idle" /\ Dead.phase = "dead" /\ Idle.chunk = "none" /\ Dead.chunk = "none"
    BY DEF Idle, Dead
  <2>3. worker.phase \in {"intro", "load", "text"} \/ worker.chunk # "none"
    BY DEF WriteIntro, LoadModel, Generate, SendFails, Sending, FinishTask
  <2>4. QED
    BY <2>1, <2>2, <2>3
<1>3. (worker' \in Working \/ worker' = Idle)
      /\ (worker'.chunk = "@@" => worker'.round < MaxRounds)
  <2>1. CASE WriteIntro
    BY <1>2, <2>1 DEF WriteIntro, Working, Chunks
  <2>2. CASE LoadModel
    BY <1>2, <2>2 DEF LoadModel, Working, Chunks, Idle
  <2>3. CASE Generate
    <3>1. worker.n + 1 \in 0 .. MaxChunks
      <4>1. worker.n \in 0 .. MaxChunks /\ worker.n < MaxChunks /\ MaxChunks \in Nat
        BY <1>2, <2>3 DEF Generate, Working
      <4>2. QED
        BY <4>1
    <3>2. PICK chunk \in {"text", "@@"} :
            /\ worker' = [worker EXCEPT !.chunk = chunk, !.n = worker.n + 1]
            /\ chunk = "@@" => worker.round < MaxRounds
      BY <2>3 DEF Generate
    <3>3. QED
      BY <1>2, <3>1, <3>2 DEF Working, Chunks
  <2>4. CASE SendFails
    BY <1>2, <2>4 DEF SendFails, Working, Chunks, Idle
  <2>5. CASE FinishTask
    BY <2>5 DEF FinishTask, Idle
  <2>6. QED
    BY <2>1, <2>2, <2>3, <2>4, <2>5
<1>4. UNCHANGED <<users, tasks, token_rx, socket, transcript, task_rx>>
  BY DEF WriteIntro, LoadModel, Generate, SendFails, FinishTask, Unseen
<1>5. WorkerOK'
  BY <1>1, <1>3, <1>4 DEF WorkerOK, TypeOK
<1>6. ThreadOK'
  <2>1. CASE LoadModel
    BY <1>1, <2>1 DEF LoadModel, Loaded, ThreadOK, TypeOK
  <2>2. CASE ~LoadModel
    BY <1>1, <2>2, Unchanged DEF WriteIntro, Generate, SendFails, FinishTask
  <2>3. QED
    BY <2>1, <2>2
<1>7. TypeOK'
  BY <1>1, <1>4, <1>5, <1>6, Unchanged, TypePartsPrimed
<1>8. ToolRounds'
  BY <1>1, <1>3, <1>4 DEF ToolRounds, tasks
<1>9. QED
  BY <1>7, <1>8 DEF TypeInv

LEMMA AppendedMembers ==
  ASSUME NEW S, NEW q \in Seq(S), NEW e
  PROVE  \A i \in DOMAIN Append(q, e) : Append(q, e)[i] = e \/ \E j \in DOMAIN q : Append(q, e)[i] = q[j]
<1>1. SUFFICES ASSUME NEW i \in DOMAIN Append(q, e)
               PROVE  Append(q, e)[i] = e \/ \E j \in DOMAIN q : Append(q, e)[i] = q[j]
  OBVIOUS
<1>2. i \in 1 .. Len(q) + 1 /\ Len(q) \in Nat /\ DOMAIN q = 1 .. Len(q)
  OBVIOUS
<1>3. CASE i \in 1 .. Len(q)
  BY <1>2, <1>3
<1>4. CASE i = Len(q) + 1
  BY <1>2, <1>4
<1>5. QED
  BY <1>2, <1>3, <1>4

LEMMA SendChunkType ==
  ASSUME TypeInv, SendChunk
  PROVE  TypeInv'
<1> USE OrchestratorAssumption
<1> DEFINE r == worker.req
           sent == Append(token_rx[r], worker.chunk)
<1>1. TypeOK /\ ToolRounds
  BY DEF TypeInv
<1>2. worker \in Working /\ worker.chunk \in Chunks /\ r \in Ids
  BY <1>1 DEF SendChunk, Sending, TypeOK, Working, Chunks, Idle, Dead
<1>3. token_rx[r] \in Seq(Chunks) /\ Len(token_rx[r]) < TokenCap /\ TokenCap \in Nat
  BY <1>1, <1>2 DEF SendChunk, TypeOK, Chunks
<1>4. sent \in Seq(Chunks) /\ Len(sent) <= TokenCap
  BY <1>2, <1>3
<1>5. \A i \in DOMAIN sent : sent[i] = worker.chunk \/ \E j \in DOMAIN token_rx[r] : sent[i] = token_rx[r][j]
  BY <1>2, <1>3, AppendedMembers
<1>6. token_rx' = [token_rx EXCEPT ![r] = sent] /\ token_rx \in [Ids -> Seq(Chunks)]
  BY <1>1 DEF SendChunk, TypeOK, Chunks
<1> HIDE DEF sent
<1>7. token_rx' \in [Ids -> Seq(Chunks)]
  BY <1>2, <1>4, <1>6
<1>8. \A q \in Ids : token_rx'[q] = IF q = r THEN sent ELSE token_rx[q]
  BY <1>2, <1>6
<1>9. ChannelsOK'
  BY <1>1, <1>4, <1>7, <1>8 DEF ChannelsOK, TypeOK
<1>10. WorkerOK' /\ worker'.chunk = "none"
  BY <1>1, <1>2 DEF SendChunk, WorkerOK, TypeOK, Unseen, Working, Chunks
<1>11. TypeOK'
  BY <1>1, <1>9, <1>10, Unchanged, TypePartsPrimed DEF SendChunk, Unseen
<1>12. worker.chunk = "@@" => round[r] < MaxRounds
  BY <1>1 DEF SendChunk, ReceiverAlive, ToolRounds
<1>13. ToolRounds'
  <2>1. UNCHANGED tasks
    BY DEF SendChunk, Unseen
  <2>2. ASSUME NEW q \in Ids, NEW i \in DOMAIN token_rx'[q], token_rx'[q][i] = "@@"
        PROVE  round[q] < MaxRounds
    BY <1>1, <1>5, <1>8, <1>12, <2>2 DEF ToolRounds
  <2>3. QED
    BY <1>1, <1>10, <2>1, <2>2 DEF ToolRounds, tasks
<1>14. QED
  BY <1>11, <1>13 DEF TypeInv

LEMMA PanicType ==
  ASSUME TypeInv, Panic
  PROVE  TypeInv'
<1>1. TypeOK /\ ToolRounds
  BY DEF TypeInv
<1>2. <<>> \in Seq([req : Ids, round : 1 .. MaxRounds]) /\ Len(<<>>) <= TaskCap
  BY OrchestratorAssumption
<1>3. WorkerOK' /\ ThreadOK'
  BY <1>2 DEF Panic, WorkerOK, ThreadOK
<1>4. TypeOK'
  BY <1>1, <1>3, Unchanged, TypePartsPrimed DEF Panic
<1>5. ToolRounds'
  BY <1>1 DEF ToolRounds, Panic, tasks, Dead
<1>6. QED
  BY <1>4, <1>5 DEF TypeInv

LEMMA TypeStep ==
  ASSUME TypeInv, [Next]_vars
  PROVE  TypeInv'
<1>1. CASE \E s \in Shells : Shell(s)
  <2>1. TypeOK' /\ UNCHANGED <<round, capturing, token_rx, worker>>
    BY <1>1, ShellType
       DEF TypeInv, Shell, SwitchMode, ShowMode, Ask, ExitShell, KillShell, Interrupt, Notify,
            Connect, tasks
  <2>2. \A r \in Ids : conn'[r] = "tool" => conn[r] = "tool"
    BY <1>1 DEF TypeInv, TypeOK, Shell, SwitchMode, ShowMode, Ask, ExitShell, KillShell,
         Interrupt, Notify,
                Connect, tasks
  <2>3. QED
    BY <2>1, <2>2 DEF TypeInv, ToolRounds
<1>2. CASE \E r \in Ids : Read(r)
  <2>1. TypeOK' /\ UNCHANGED <<tasks, token_rx, worker>>
    BY <1>2, ReadType DEF TypeInv, Read
  <2>2. QED
    BY <2>1 DEF TypeInv, ToolRounds, tasks
<1>3. CASE \E r \in Ids : Serves(r)
  BY <1>3, ConnectionType
<1>4. CASE Worker
  BY <1>4, WorkerTakesType, WorkerWritesType, SendChunkType DEF Worker
<1>5. CASE Panic
  BY <1>5, PanicType
<1>6. CASE UNCHANGED vars
  BY <1>6 DEF vars, users, tasks, thread, TypeInv, TypeOK, ToolRounds
<1>7. QED
  BY <1>1, <1>2, <1>3, <1>4, <1>5, <1>6 DEF Next, Serves

LEMMA TypeInit == Init => TypeInv
<1> SUFFICES ASSUME Init PROVE TypeInv
  OBVIOUS
<1> USE OrchestratorAssumption
<1>1. UsersOK /\ ThreadOK /\ WorkerOK
  <2>1. <<>> \in Seq([req : Ids, round : 1 .. MaxRounds]) /\ Len(<<>>) <= TaskCap
    OBVIOUS
  <2>2. 0 \in 0 .. MaxRequests
    OBVIOUS
  <2>3. UsersOK /\ ThreadOK
    BY <2>2 DEF Init, UsersOK, ThreadOK, Events
  <2>4. QED
    BY <2>1, <2>3 DEF Init, WorkerOK
<1>2. TasksOK
  BY DEF Init, TasksOK
<1>3. ChannelsOK
  BY DEF Init, ChannelsOK
<1>4. SocketsOK
  BY DEF Init, SocketsOK
<1>5. ToolRounds
  BY DEF Init, ToolRounds, Idle
<1>6. QED
  BY <1>1, <1>2, <1>3, <1>4, <1>5, TypeParts DEF TypeInv

(* main.rs: every variable always has its type, every channel and socket   *)
(* stays within its capacity, and an answer within its rounds.             *)
THEOREM TypeCorrect == Spec => []TypeOK
<1>1. Init => TypeInv
  BY TypeInit
<1>2. TypeInv /\ [Next]_vars => TypeInv'
  BY TypeStep
<1>3. TypeInv => TypeOK
  BY DEF TypeInv
<1>4. QED
  BY <1>1, <1>2, <1>3, PTL DEF Spec
-----------------------------------------------------------------------------
(* The worker and the connections do not wait for each other.              *)

Draining == {"receiving", "sleeping", "tool", "ending"}

(* The task of a round is out only while its connection waits for tokens,  *)
(* or has gone on to a later round, or is over.                            *)
Served(r, n) == n <= round[r] /\ (n = round[r] => conn[r] \in Draining \cup {"ended"})

WaitInv ==
  /\ TypeInv
  /\ \A r \in Ids : r > Len(requests) => conn[r] = "none"
  /\ \A i \in DOMAIN task_rx : Served(task_rx[i].req, task_rx[i].round)
  /\ Active => Served(worker.req, worker.round)

LEMMA ActiveType ==
  ASSUME TypeOK, Active
  PROVE  worker \in Working
BY DEF TypeOK, Active, Working, Chunks, Idle, Dead

(* What is served stays served.                                            *)
LEMMA ServedStep ==
  ASSUME WaitInv, [Next]_vars, NEW r \in Ids, NEW n \in 1 .. MaxRounds, Served(r, n)
  PROVE  Served(r, n)'
<1>1. TypeOK /\ round[r] \in 1 .. MaxRounds /\ round'[r] \in Nat
  <2>1. TypeInv /\ TypeInv'
    BY TypeStep DEF WaitInv
  <2>2. round \in [Ids -> 1 .. MaxRounds] /\ round' \in [Ids -> 1 .. MaxRounds]
    BY <2>1 DEF TypeInv, TypeOK
  <2>3. QED
    BY <2>1, <2>2 DEF TypeInv
<1>2. CASE \E s \in Shells, kind \in Events \cup {"chat", "fix"} : Connect(s, kind)
  <2>1. UNCHANGED round /\ conn' = [conn EXCEPT ![Len(requests) + 1] = "reading"]
    BY <1>2 DEF Connect
  <2>2. CASE r = Len(requests) + 1
    <3>1. conn[r] = "none"
      BY <2>2 DEF WaitInv, TypeInv, TypeOK, Ids
    <3>2. n < round[r]
      BY <1>1, <3>1 DEF Served, Draining
    <3>3. QED
      BY <1>1, <2>1, <3>2 DEF Served
  <2>3. CASE r # Len(requests) + 1
    BY <1>1, <2>1, <2>3 DEF Served, TypeOK
  <2>4. QED
    BY <2>2, <2>3
<1>3. ASSUME NEW q \in Ids, Serves(q)
      PROVE  Served(r, n)'
  <2>1. CASE RunTool(q)
    BY <1>1, <2>1 DEF RunTool, Goes, Served, TypeOK
  <2>2. CASE ~RunTool(q)
    <3>1. UNCHANGED round
      BY <1>3, <2>2 DEF Serves, Connection, Tool, ReadRequest, SendTask, DropEvent, ReceiveIntro,
           Spoken,
           ReceiveText, OpenTool, CloseTool, RefuseTool, EndOfStream, WriteEnd, Kept
    <3>2. conn[r] \in Draining \cup {"ended"} => conn'[r] \in Draining \cup {"ended"}
      BY <1>1, <1>3, <2>2 DEF Serves, Connection, Tool, ReadRequest, SendTask, DropEvent,
           ReceiveIntro, Spoken,
           ReceiveText, OpenTool, CloseTool, RefuseTool, EndOfStream, WriteEnd, Kept, Goes,
           Draining, TypeOK
    <3>3. QED
      BY <3>1, <3>2 DEF Served
  <2>3. QED
    BY <2>1, <2>2
<1>4. CASE UNCHANGED <<conn, round>>
  BY <1>4 DEF Served
<1>5. ASSUME NEW s \in Shells, Shell(s)
      PROVE  UNCHANGED <<conn, round>>
             \/ \E kind \in Events \cup {"chat", "fix"} : Connect(s, kind)
  BY <1>5 DEF Shell, SwitchMode, ShowMode, Ask, ExitShell, KillShell, Interrupt, Notify, Events,
       tasks
<1>6. (\E q \in Ids : Read(q)) \/ Worker \/ Panic \/ UNCHANGED vars => UNCHANGED <<conn, round>>
  BY DEF Read, Worker, ChatModeEnter, ChatModeExit, DualPass, TakesTask, WriteIntro, LoadModel,
         Generate, SendChunk, SendFails, FinishTask, Unseen, Panic, vars, tasks
<1>7. QED
  BY <1>2, <1>3, <1>4, <1>5, <1>6 DEF Next, Serves

(* A connection that was never opened is at its start.                     *)
LEMMA UnopenedStep ==
  ASSUME WaitInv, [Next]_vars, NEW r \in Ids, r > Len(requests')
  PROVE  conn'[r] = "none"
<1>1. TypeOK /\ Len(requests) \in Nat
  <2>1. TypeOK
    BY DEF WaitInv, TypeInv
  <2>2. requests \in Seq([shell : Shells, kind : Events \cup {"chat", "fix"}])
    BY <2>1 DEF TypeOK
  <2>3. QED
    BY <2>1, <2>2, LenProperties
<1>2. CASE UNCHANGED <<requests, conn>>
  BY <1>2 DEF WaitInv
<1>3. ASSUME NEW s \in Shells, NEW kind, Connect(s, kind)
      PROVE  conn'[r] = "none"
  <2>1. Len(requests') = Len(requests) + 1 /\ conn' = [conn EXCEPT ![Len(requests) + 1] = "reading"]
    BY <1>1, <1>3 DEF Connect
  <2>2. r > Len(requests) /\ r # Len(requests) + 1 /\ conn[r] = "none"
    BY <1>1, <2>1, OrchestratorAssumption DEF WaitInv, Ids
  <2>3. QED
    BY <1>1, <2>1, <2>2 DEF TypeOK
<1>4. ASSUME NEW q \in Ids, Serves(q)
      PROVE  conn'[r] = "none"
  <2>1. requests' = requests /\ conn[r] = "none"
    BY <1>4 DEF WaitInv, Serves, Connection, Tool, ReadRequest, SendTask, DropEvent,
         ReceiveIntro, Spoken,
         ReceiveText, OpenTool, CloseTool, RunTool, RefuseTool, EndOfStream, WriteEnd, Kept
  <2>2. conn[q] # "none" /\ \A p \in Ids : p # q => conn'[p] = conn[p]
    BY <1>1, <1>4 DEF Serves, Connection, Tool, ReadRequest, SendTask, DropEvent, ReceiveIntro,
         Spoken,
         ReceiveText, OpenTool, CloseTool, RunTool, RefuseTool, EndOfStream, WriteEnd, Kept, Goes,
         Received, TypeOK
  <2>3. QED
    BY <2>1, <2>2
<1>5. ASSUME NEW s \in Shells, Shell(s)
      PROVE  UNCHANGED <<requests, conn>> \/ \E kind : Connect(s, kind)
  BY <1>5 DEF Shell, SwitchMode, ShowMode, Ask, ExitShell, KillShell, Interrupt, Notify, tasks
<1>6. (\E q \in Ids : Read(q)) \/ Worker \/ Panic \/ UNCHANGED vars => UNCHANGED <<requests, conn>>
  BY DEF Read, Worker, ChatModeEnter, ChatModeExit, DualPass, TakesTask, WriteIntro, LoadModel,
         Generate, SendChunk, SendFails, FinishTask, Unseen, Panic, vars, tasks
<1>7. QED
  BY <1>2, <1>3, <1>4, <1>5, <1>6 DEF Next, Serves

(* The tasks of the queue after a step: those that were in it, and the one *)
(* of a connection that sends it, which has started to receive.            *)
LEMMA QueueStep ==
  ASSUME WaitInv, [Next]_vars, NEW i \in DOMAIN task_rx'
  PROVE  \/ \E j \in DOMAIN task_rx : task_rx'[i] = task_rx[j]
         \/ \E r \in Ids : /\ SendTask(r)
                          /\ task_rx'[i] = [req |-> r, round |-> round[r]]
<1>1. TypeOK /\ task_rx \in Seq([req : Ids, round : 1 .. MaxRounds])
  BY DEF WaitInv, TypeInv, TypeOK
<1>2. CASE UNCHANGED task_rx
  BY <1>2
<1>3. CASE Panic
  BY <1>3 DEF Panic
<1>4. ASSUME NEW task, TakesTask(task)
      PROVE  \E j \in DOMAIN task_rx : task_rx'[i] = task_rx[j]
  <2>1. task_rx' = Tail(task_rx) /\ task_rx # <<>>
    BY <1>4 DEF TakesTask
  <2>2. i \in 1 .. Len(Tail(task_rx)) /\ Len(Tail(task_rx)) = Len(task_rx) - 1
        /\ Tail(task_rx)[i] = task_rx[i + 1]
    BY <1>1, <2>1, HeadTailProperties, LenProperties
  <2>3. i + 1 \in DOMAIN task_rx
    BY <1>1, <2>2
  <2>4. QED
    BY <2>1, <2>2, <2>3
<1>5. ASSUME NEW r \in Ids, SendTask(r)
      PROVE  \/ \E j \in DOMAIN task_rx : task_rx'[i] = task_rx[j]
             \/ task_rx'[i] = [req |-> r, round |-> round[r]]
  <2> DEFINE task == [req |-> r, round |-> round[r]]
  <2>1. task_rx' = Append(task_rx, task)
    BY <1>5 DEF SendTask
  <2> HIDE DEF task
  <2>2. task_rx'[i] = task \/ (i \in DOMAIN task_rx /\ task_rx'[i] = task_rx[i])
    BY <1>1, <2>1
  <2>3. QED
    BY <2>2 DEF task
<1>6. ASSUME NEW r \in Ids, Serves(r), ~SendTask(r)
      PROVE  UNCHANGED task_rx
  BY <1>6 DEF Serves, Connection, Tool, ReadRequest, DropEvent, ReceiveIntro, Spoken,
       ReceiveText, OpenTool,
       CloseTool, RunTool, RefuseTool, EndOfStream, WriteEnd, Kept
<1>7. (\E s \in Shells : Shell(s)) \/ (\E q \in Ids : Read(q)) \/ UNCHANGED vars => UNCHANGED task_rx
  BY DEF Shell, SwitchMode, ShowMode, Ask, ExitShell, KillShell, Interrupt, Notify, Read, vars
<1>8. Worker => UNCHANGED task_rx \/ \E task : TakesTask(task)
  BY DEF Worker, ChatModeEnter, ChatModeExit, DualPass, WriteIntro, LoadModel, Generate, SendChunk,
         SendFails, FinishTask, Unseen
<1>9. QED
  BY <1>2, <1>3, <1>4, <1>5, <1>6, <1>7, <1>8 DEF Next, Serves

(* The worker's task after a step is the one it had, or the queue's first. *)
LEMMA WorkerStep ==
  ASSUME WaitInv, [Next]_vars, Active'
  PROVE  \/ Active /\ worker'.req = worker.req /\ worker'.round = worker.round
         \/ \E j \in DOMAIN task_rx : worker'.req = task_rx[j].req /\ worker'.round = task_rx[j].round
<1>1. TypeOK /\ task_rx \in Seq([req : Ids, round : 1 .. MaxRounds])
  BY DEF WaitInv, TypeInv, TypeOK
<1>2. CASE UNCHANGED worker
  BY <1>2 DEF Active
<1>3. CASE DualPass
  <2>1. PICK task : TakesTask(task) /\ worker'.req = task.req /\ worker'.round = task.round
    BY <1>3 DEF DualPass
  <2>2. 1 \in DOMAIN task_rx /\ task = task_rx[1]
    BY <1>1, <2>1 DEF TakesTask
  <2>3. QED
    BY <2>1, <2>2
<1>4. CASE WriteIntro \/ LoadModel \/ Generate \/ SendChunk \/ SendFails \/ FinishTask
  <2>1. worker \in Working \cup {Idle, Dead} /\ worker # Idle /\ worker # Dead
    <3>1. worker \in Working \cup {Idle, Dead}
      BY <1>1 DEF TypeOK, Working, Chunks
    <3>2. Idle.phase = "idle" /\ Dead.phase = "dead" /\ Idle.chunk = "none" /\ Dead.chunk = "none"
      BY DEF Idle, Dead
    <3>3. worker.phase \in {"intro", "load", "text"} \/ worker.chunk # "none"
      BY <1>4 DEF WriteIntro, LoadModel, Generate, SendChunk, SendFails, FinishTask, Sending
    <3>4. QED
      BY <3>1, <3>2, <3>3
  <2>2. Active
    BY <2>1 DEF Active, Working
  <2>3. worker' # Idle
    BY DEF Active, Idle
  <2>4. worker'.req = worker.req /\ worker'.round = worker.round
    BY <1>4, <2>1, <2>3 DEF WriteIntro, LoadModel, Generate, SendChunk, SendFails, FinishTask,
         Working
  <2>5. QED
    BY <2>2, <2>4
<1>5. CASE Panic
  BY <1>5 DEF Panic, Active, Dead
<1>6. ASSUME NEW r \in Ids, Serves(r)
      PROVE  UNCHANGED worker
  BY <1>6 DEF Serves, Connection, Tool, ReadRequest, SendTask, DropEvent, ReceiveIntro, Spoken,
       ReceiveText,
       OpenTool, CloseTool, RunTool, RefuseTool, EndOfStream, WriteEnd, Kept
<1>7. (\E s \in Shells : Shell(s)) \/ (\E q \in Ids : Read(q)) \/ UNCHANGED vars => UNCHANGED worker
  BY DEF Shell, SwitchMode, ShowMode, Ask, ExitShell, KillShell, Interrupt, Notify, Read, vars
<1>8. Worker => UNCHANGED worker \/ DualPass \/ WriteIntro \/ LoadModel \/ Generate \/ SendChunk
                \/ SendFails \/ FinishTask
  BY DEF Worker, ChatModeEnter, ChatModeExit
<1>9. QED
  BY <1>2, <1>3, <1>4, <1>5, <1>6, <1>7, <1>8 DEF Next, Serves

LEMMA WaitStep ==
  ASSUME WaitInv, [Next]_vars
  PROVE  WaitInv'
<1>1. TypeOK /\ \A i \in DOMAIN task_rx : task_rx[i].req \in Ids /\ task_rx[i].round \in 1 .. MaxRounds
  <2>1. TypeOK /\ task_rx \in Seq([req : Ids, round : 1 .. MaxRounds])
    BY DEF WaitInv, TypeInv, TypeOK
  <2>2. /\ DOMAIN task_rx = 1 .. Len(task_rx)
        /\ task_rx \in [1 .. Len(task_rx) -> [req : Ids, round : 1 .. MaxRounds]]
    BY <2>1, LenProperties
  <2>3. QED
    BY <2>1, <2>2
<1>2. TypeInv'
  BY TypeStep DEF WaitInv
<1>3. \A r \in Ids : r > Len(requests') => conn'[r] = "none"
  BY UnopenedStep
<1>4. ASSUME NEW i \in DOMAIN task_rx'
      PROVE  Served(task_rx[i].req, task_rx[i].round)'
  <2>1. CASE \E j \in DOMAIN task_rx : task_rx'[i] = task_rx[j]
    BY <1>1, <2>1, ServedStep DEF WaitInv, Served
  <2>2. CASE \E r \in Ids : SendTask(r) /\ task_rx'[i] = [req |-> r, round |-> round[r]]
    <3>1. PICK r \in Ids : SendTask(r) /\ task_rx'[i] = [req |-> r, round |-> round[r]]
      BY <2>2
    <3>2. task_rx'[i].req = r /\ task_rx'[i].round = round'[r]
      BY <3>1 DEF SendTask
    <3>3. round'[r] \in 1 .. MaxRounds /\ conn'[r] \in {"receiving", "ended"}
      BY <1>1, <3>1 DEF SendTask, TypeOK
    <3>4. QED
      BY <3>2, <3>3 DEF Served, Draining
  <2>3. QED
    BY <2>1, <2>2, QueueStep
<1>5. ASSUME Active'
      PROVE  Served(worker.req, worker.round)'
  <2>1. CASE Active /\ worker'.req = worker.req /\ worker'.round = worker.round
    <3>1. worker.req \in Ids /\ worker.round \in 1 .. MaxRounds
      BY <1>1, <2>1, ActiveType DEF Working
    <3>2. QED
      BY <2>1, <3>1, ServedStep DEF WaitInv, Served
  <2>2. CASE \E j \in DOMAIN task_rx :
               worker'.req = task_rx[j].req /\ worker'.round = task_rx[j].round
    BY <1>1, <2>2, ServedStep DEF WaitInv, Served
  <2>3. QED
    BY <1>5, <2>1, <2>2, WorkerStep
<1>6. QED
  BY <1>2, <1>3, <1>4, <1>5 DEF WaitInv

(* run_inference's blocking_send never waits for a connection that waits   *)
(* for the worker: dropping the old token channel before the next round is *)
(* sent is what rules it out.                                              *)
THEOREM NoDeadlock == Spec => []NoCircularWait
<1>1. Init => WaitInv
  BY TypeInit DEF Init, WaitInv, Active, Idle
<1>2. WaitInv /\ [Next]_vars => WaitInv'
  BY WaitStep
<1>3. WaitInv => NoCircularWait
  <2> SUFFICES ASSUME WaitInv, Blocked
               PROVE  conn[worker.req] \in Draining
    BY DEF NoCircularWait, Draining
  <2>1. TypeOK /\ worker.chunk # "none"
    BY DEF WaitInv, TypeInv, Blocked, Sending
  <2>2. Active
    BY <2>1 DEF TypeOK, Active, Idle, Dead
  <2>3. QED
    BY <2>2 DEF WaitInv, Served, Blocked, ReceiverAlive
<1>4. QED
  BY <1>1, <1>2, <1>3, PTL DEF Spec
-----------------------------------------------------------------------------
(* Why the announcement comes first: while the intro of a request may      *)
(* still come, its connection has received nothing and written nothing.    *)

Fresh(r) == round[r] = 1 /\ transcript[r] = <<>>
Quiet(r) == conn[r] = "receiving" /\ Fresh(r)

(* A connection is fresh until its first task is sent.                     *)
FreshStart ==
  \A r \in Ids :
    /\ conn[r] \in {"none", "reading"} => round[r] = 1
    /\ conn[r] \in {"none", "reading", "sending"} /\ round[r] = 1 => Fresh(r) /\ token_rx[r] = <<>>

(* It is quiet while the worker has not taken the task of its first round. *)
QuietInQueue ==
  \A i \in DOMAIN task_rx :
    task_rx[i].round = 1 /\ ~IsEvent(task_rx[i].req)
      => Quiet(task_rx[i].req) /\ token_rx[task_rx[i].req] = <<>>

(* It is quiet while the worker has an intro to write or to send.          *)
Announcing == worker.phase = "intro" \/ worker.chunk = "intro"
QuietAtWork ==
  Announcing => /\ worker.phase = "intro" => worker.chunk = "none"
                /\ worker.chunk = "intro" => worker.phase = "load"
                /\ worker.round = 1
                /\ Quiet(worker.req) /\ token_rx[worker.req] = <<>>

(* An intro in its channel is the first chunk there, and finds it quiet.   *)
QuietInChannel ==
  \A r \in Ids : \A i \in DOMAIN token_rx[r] :
    token_rx[r][i] = "intro" => i = 1 /\ Quiet(r)

(* A round is worked on once.                                              *)
OneTaskEach ==
  /\ \A i, j \in DOMAIN task_rx : task_rx[i] = task_rx[j] => i = j
  /\ Active => \A i \in DOMAIN task_rx :
       ~(task_rx[i].req = worker.req /\ task_rx[i].round = worker.round)

IntroInv == FreshStart /\ QuietInQueue /\ QuietAtWork /\ QuietInChannel /\ OneTaskEach

(* A shell waits for a question of its own, as long as it runs.            *)
WaitsForOwn ==
  \A s \in Shells : waiting[s] # 0 =>
    /\ waiting[s] \in Opened
    /\ requests[waiting[s]].shell = s /\ ~IsEvent(waiting[s])
    /\ shell_mode[s] # "dead"

(* An end mark in a socket is that of an answer that is over.              *)
EndIsLast ==
  \A r \in Ids : \A i \in DOMAIN socket[r] :
    socket[r][i] = "end" =>
      /\ conn[r] = "ended"
      /\ transcript[r] # <<>> /\ transcript[r][Len(transcript[r])] = "end"

OpenedStarted == \A r \in Opened : conn[r] # "none"

ServiceInv == WaitInv /\ IntroInv /\ WaitsForOwn /\ EndIsLast /\ OpenedStarted

-----------------------------------------------------------------------------
(* Facts of a state.                                                       *)

LEMMA Types ==
  ASSUME WaitInv
  PROVE  /\ TypeOK
         /\ requests \in Seq([shell : Shells, kind : Events \cup {"chat", "fix"}])
         /\ conn \in [Ids -> {"none", "reading", "sending", "receiving", "sleeping",
                              "tool", "ending", "ended"}]
         /\ round \in [Ids -> 1 .. MaxRounds]
         /\ token_rx \in [Ids -> Seq(Chunks)]
         /\ transcript \in [Ids -> Seq(Marks)]
         /\ socket \in [Ids -> Seq(Marks)]
         /\ task_rx \in Seq([req : Ids, round : 1 .. MaxRounds])
         /\ waiting \in [Shells -> 0 .. MaxRequests]
         /\ shell_mode \in [Shells -> {"shell", "chat", "dead"}]
         /\ worker \in Working \cup {Idle, Dead}
         /\ Opened = 1 .. Len(requests) /\ Len(requests) \in Nat /\ Opened \subseteq Ids
<1>1. TypeOK
  BY DEF WaitInv, TypeInv
<1>2. worker \in Working \cup {Idle, Dead}
  BY <1>1 DEF TypeOK, Working, Chunks
<1>3. requests \in Seq([shell : Shells, kind : Events \cup {"chat", "fix"}])
      /\ Len(requests) <= MaxRequests
  BY <1>1 DEF TypeOK
<1>4. Opened = 1 .. Len(requests) /\ Len(requests) \in Nat
  BY <1>3, LenProperties DEF Opened
<1>5. Opened \subseteq Ids
  BY <1>3, <1>4, OrchestratorAssumption DEF Ids
<1>6. QED
  BY <1>1, <1>2, <1>3, <1>4, <1>5 DEF TypeOK, Chunks, Marks

(* A task in the queue is that of a request made.                          *)
LEMMA TaskOpened ==
  ASSUME WaitInv, FreshStart, NEW i \in DOMAIN task_rx
  PROVE  /\ task_rx[i].req \in Opened /\ task_rx[i].req \in Ids
         /\ task_rx[i] = [req |-> task_rx[i].req, round |-> task_rx[i].round]
<1> DEFINE r == task_rx[i].req
<1>1. r \in Ids /\ task_rx[i].round \in 1 .. MaxRounds
      /\ task_rx[i] = [req |-> task_rx[i].req, round |-> task_rx[i].round]
  <2>1. task_rx[i] \in [req : Ids, round : 1 .. MaxRounds]
    <3>1. task_rx \in Seq([req : Ids, round : 1 .. MaxRounds])
      BY Types
    <3>2. DOMAIN task_rx = 1 .. Len(task_rx)
          /\ task_rx \in [1 .. Len(task_rx) -> [req : Ids, round : 1 .. MaxRounds]]
      BY <3>1, LenProperties
    <3>3. QED
      BY <3>2
  <2>2. QED
    BY <2>1
<1>2. Served(r, task_rx[i].round)
  BY DEF WaitInv
<1>3. conn[r] # "none"
  <2>1. round[r] \in 1 .. MaxRounds
    BY <1>1, Types
  <2>2. conn[r] = "none" => round[r] = 1
    BY <1>1 DEF FreshStart
  <2>3. QED
    BY <1>1, <1>2, <2>1, <2>2 DEF Served, Draining
<1>4. ~(r > Len(requests))
  BY <1>1, <1>3 DEF WaitInv
<1>5. r \in Nat /\ r >= 1 /\ Len(requests) \in Nat /\ Opened = 1 .. Len(requests)
  BY <1>1, Types DEF Ids
<1>6. QED
  BY <1>1, <1>4, <1>5

(* While its intro may still come, a connection can do nothing.            *)
LEMMA Waits ==
  ASSUME ServiceInv, NEW r \in Ids, Serves(r)
  PROVE  /\ \A i \in DOMAIN task_rx :
              ~(task_rx[i].req = r /\ task_rx[i].round = 1 /\ ~IsEvent(r))
         /\ ~(Announcing /\ worker.req = r)
<1>1. SUFFICES ASSUME Quiet(r), token_rx[r] = <<>>, SenderAlive(r)
               PROVE  FALSE
  <2>1. ASSUME NEW i \in DOMAIN task_rx, task_rx[i].req = r, task_rx[i].round = 1, ~IsEvent(r)
        PROVE  Quiet(r) /\ token_rx[r] = <<>> /\ SenderAlive(r)
    BY <2>1, TaskOpened DEF ServiceInv, IntroInv, QuietInQueue, SenderAlive, Quiet, Fresh
  <2>2. ASSUME Announcing, worker.req = r
        PROVE  Quiet(r) /\ token_rx[r] = <<>> /\ SenderAlive(r)
    BY <2>2 DEF ServiceInv, IntroInv, QuietAtWork, SenderAlive, Quiet, Fresh
  <2>3. QED
    BY <1>1, <2>1, <2>2
<1>2. QED
  BY <1>1 DEF Serves, Connection, Tool, ReadRequest, SendTask, DropEvent, ReceiveIntro, Spoken,
       ReceiveText,
       OpenTool, CloseTool, RunTool, RefuseTool, EndOfStream, WriteEnd, Goes, Received, Quiet
-----------------------------------------------------------------------------
(* A step of a connection.                                                 *)

(* It leaves the other connections alone, and everybody else.              *)
LEMMA OthersAlone ==
  ASSUME WaitInv, NEW r \in Ids, Serves(r)
  PROVE  /\ \A q \in Ids \ {r} : /\ conn'[q] = conn[q] /\ round'[q] = round[q]
                                  /\ token_rx'[q] = token_rx[q]
                                  /\ transcript'[q] = transcript[q] /\ socket'[q] = socket[q]
         /\ UNCHANGED <<users, requests, worker>>
<1>1. UNCHANGED <<users, requests, worker>>
  BY DEF Serves, Connection, Tool, ReadRequest, SendTask, DropEvent, ReceiveIntro, Spoken,
       ReceiveText,
       OpenTool, CloseTool, RunTool, RefuseTool, EndOfStream, WriteEnd, Kept
<1>2. ASSUME NEW q \in Ids \ {r}
      PROVE  transcript'[q] = transcript[q] /\ socket'[q] = socket[q]
  BY Types DEF Serves, Connection, Tool, ReadRequest, SendTask, DropEvent, ReceiveIntro, Spoken,
       ReceiveText, OpenTool, CloseTool, RunTool, RefuseTool, EndOfStream, WriteEnd, Write, Silent
<1>3. ASSUME NEW q \in Ids \ {r}
      PROVE  conn'[q] = conn[q] /\ round'[q] = round[q] /\ token_rx'[q] = token_rx[q]
  BY Types DEF Serves, Connection, Tool, ReadRequest, SendTask, DropEvent, ReceiveIntro, Spoken,
       ReceiveText, OpenTool, CloseTool, RunTool, RefuseTool, EndOfStream, WriteEnd, Goes,
       Received, Kept
<1>4. QED
  BY <1>1, <1>2, <1>3

(* After it, no intro is left in its channel: there was none but at the    *)
(* head, for a connection that receives.                                   *)
LEMMA IntroTaken ==
  ASSUME ServiceInv, NEW r \in Ids, Serves(r)
  PROVE  \A i \in DOMAIN token_rx'[r] : token_rx'[r][i] # "intro"
<1>1. token_rx[r] \in Seq(Chunks) /\ QuietInChannel /\ WaitInv
  BY Types DEF ServiceInv, IntroInv
<1>2. CASE \E chunk : Received(r, chunk)
  <2>1. token_rx[r] # <<>> /\ token_rx'[r] = Tail(token_rx[r])
    BY <1>2, <1>1, Types DEF Received
  <2>2. \A i \in DOMAIN Tail(token_rx[r]) :
          Tail(token_rx[r])[i] = token_rx[r][i + 1] /\ i + 1 \in DOMAIN token_rx[r] /\ i + 1 # 1
    BY <1>1, <2>1, HeadTailProperties, LenProperties
  <2>3. QED
    BY <1>1, <2>1, <2>2 DEF QuietInChannel
<1>3. CASE token_rx'[r] = <<>>
  BY <1>3
<1>4. CASE token_rx'[r] = token_rx[r] /\ conn[r] # "receiving"
  BY <1>1, <1>4 DEF QuietInChannel, Quiet
<1>5. QED
  <2>1. ReceiveIntro(r) \/ ReceiveText(r) \/ OpenTool(r) \/ CloseTool(r)
        => \E chunk : Received(r, chunk)
    BY DEF ReceiveIntro, ReceiveText, OpenTool, CloseTool
  <2>2. RunTool(r) \/ EndOfStream(r) \/ WriteEnd(r) => token_rx'[r] = <<>>
    BY <1>1, Types DEF RunTool, EndOfStream, WriteEnd
  <2>3. ReadRequest(r) \/ SendTask(r) \/ DropEvent(r) \/ Spoken(r) \/ RefuseTool(r)
        => token_rx'[r] = token_rx[r] /\ conn[r] # "receiving"
    BY DEF ReadRequest, SendTask, DropEvent, Spoken, RefuseTool, Goes
  <2>4. QED
    BY <1>2, <1>3, <1>4, <2>1, <2>2, <2>3 DEF Serves, Connection, Tool

(* A connection has not started anew until it sends its first task.        *)
LEMMA ConnectionFresh ==
  ASSUME ServiceInv, NEW r \in Ids, Serves(r)
  PROVE  FreshStart'
<1>1. FreshStart /\ WaitInv
  BY DEF ServiceInv, IntroInv
<1>2. ASSUME NEW q \in Ids \ {r}
      PROVE  conn'[q] = conn[q] /\ round'[q] = round[q] /\ token_rx'[q] = token_rx[q]
             /\ transcript'[q] = transcript[q]
  BY <1>1, OthersAlone
<1>3. CASE ReadRequest(r)
  <2>1. conn[r] = "reading" /\ UNCHANGED <<round, token_rx, transcript>>
    BY <1>3 DEF ReadRequest, Goes
  <2>2. QED
    BY <1>1, <1>2, <2>1 DEF FreshStart, Fresh
<1>4. CASE RunTool(r)
  <2>1. round'[r] = round[r] + 1 /\ round[r] \in Nat \ {0} /\ conn'[r] = "sending"
    BY <1>1, <1>4, Types DEF RunTool, Goes
  <2>2. QED
    BY <1>1, <1>2, <2>1 DEF FreshStart, Fresh
<1>5. CASE ~ReadRequest(r) /\ ~RunTool(r)
  <2>1. conn'[r] \notin {"none", "reading", "sending"}
    BY <1>1, <1>5, Types
       DEF Serves, Connection, Tool, SendTask, DropEvent, ReceiveIntro, Spoken, ReceiveText,
            OpenTool, CloseTool,
           RefuseTool, EndOfStream, WriteEnd, Goes, Received
  <2>2. QED
    BY <1>1, <1>2, <2>1 DEF FreshStart, Fresh
<1>6. QED
  BY <1>3, <1>4, <1>5

(* The task a connection sends is the only one of its round.               *)
LEMMA ConnectionQueue ==
  ASSUME ServiceInv, NEW r \in Ids, Serves(r)
  PROVE  QuietInQueue' /\ OneTaskEach'
<1>1. FreshStart /\ QuietInQueue /\ OneTaskEach /\ WaitInv
  BY DEF ServiceInv, IntroInv
<1>2. UNCHANGED <<requests, worker>>
  BY <1>1, OthersAlone
<1>3. ASSUME NEW i \in DOMAIN task_rx, task_rx[i].round = 1, ~IsEvent(task_rx[i].req)
      PROVE  LET q == task_rx[i].req IN
             conn'[q] = "receiving" /\ round'[q] = 1 /\ transcript'[q] = <<>> /\ token_rx'[q] = <<>>
  <2> DEFINE q == task_rx[i].req
  <2>1. q \in Ids \ {r} /\ Quiet(q) /\ token_rx[q] = <<>>
    BY <1>1, <1>3, TaskOpened, Waits DEF QuietInQueue
  <2>2. QED
    BY <1>1, <2>1, OthersAlone DEF Quiet, Fresh
<1>4. CASE UNCHANGED task_rx
  <2>1. QuietInQueue'
    BY <1>2, <1>3, <1>4 DEF QuietInQueue, IsEvent, Quiet, Fresh
  <2>2. QED
    BY <1>1, <1>2, <1>4, <2>1 DEF OneTaskEach, Active
<1>5. CASE SendTask(r)
  <2> DEFINE task == [req |-> r, round |-> round[r]]
  <2>1. task_rx \in Seq([req : Ids, round : 1 .. MaxRounds]) /\ task_rx' = Append(task_rx, task)
        /\ conn[r] = "sending" /\ UNCHANGED <<round, token_rx, transcript>>
        /\ conn'[r] = (IF IsEvent(r) THEN "ended" ELSE "receiving")
    BY <1>1, <1>5, Types DEF SendTask
  <2>2. /\ \A i \in DOMAIN task_rx : task_rx[i] # task
        /\ Active => ~(worker.req = r /\ worker.round = round[r])
    <3>1. ASSUME NEW i \in DOMAIN task_rx, task_rx[i] = task
          PROVE  FALSE
      <4>1. Served(r, round[r])
        <5>1. task_rx[i].req = r /\ task_rx[i].round = round[r]
          BY <3>1
        <5>2. QED
          BY <1>1, <5>1 DEF WaitInv
      <4>2. QED
        BY <2>1, <4>1 DEF Served, Draining
    <3>2. ASSUME Active, worker.req = r, worker.round = round[r]
          PROVE  FALSE
      BY <1>1, <2>1, <3>2 DEF WaitInv, Served, Draining
    <3>3. QED
      BY <3>1, <3>2
  <2>3. task.req = r /\ task.round = round[r]
    OBVIOUS
  <2> HIDE DEF task
  <2>4. /\ DOMAIN task_rx' = DOMAIN task_rx \cup {Len(task_rx) + 1}
        /\ Len(task_rx) + 1 \notin DOMAIN task_rx /\ task_rx'[Len(task_rx) + 1] = task
        /\ \A i \in DOMAIN task_rx : task_rx'[i] = task_rx[i]
    BY <2>1
  <2>5. OneTaskEach'
    BY <1>1, <1>2, <2>2, <2>3, <2>4 DEF OneTaskEach, Active
  <2>6. round[r] = 1 /\ ~IsEvent(r) => (Quiet(r) /\ token_rx[r] = <<>>)'
    BY <1>1, <2>1 DEF FreshStart, Fresh, Quiet
  <2>7. QuietInQueue'
    BY <1>2, <1>3, <2>3, <2>4, <2>6 DEF QuietInQueue, IsEvent, Quiet, Fresh
  <2>8. QED
    BY <2>5, <2>7
<1>6. QED
  BY <1>4, <1>5 DEF Serves, Connection, Tool, ReadRequest, DropEvent, ReceiveIntro, Spoken,
       ReceiveText,
       OpenTool, CloseTool, RunTool, RefuseTool, EndOfStream, WriteEnd, Kept

LEMMA ConnectionIntro ==
  ASSUME ServiceInv, NEW r \in Ids, Serves(r)
  PROVE  IntroInv'
<1>1. IntroInv /\ WaitInv
  BY DEF ServiceInv
<1>2. QuietAtWork'
  <2>1. UNCHANGED worker
    BY <1>1, OthersAlone
  <2>2. SUFFICES ASSUME Announcing
                 PROVE  (Quiet(worker.req) /\ token_rx[worker.req] = <<>>)'
    BY <1>1, <2>1 DEF IntroInv, QuietAtWork, Announcing
  <2>3. worker.req \in Ids \ {r}
    <3>1. worker \in Working \cup {Idle, Dead}
      BY <1>1, Types
    <3>2. worker \in Working
      BY <2>2, <3>1 DEF Announcing, Idle, Dead
    <3>3. QED
      BY <2>2, <3>2, Waits DEF Working
  <2>4. Quiet(worker.req) /\ token_rx[worker.req] = <<>>
    BY <1>1, <2>2 DEF IntroInv, QuietAtWork
  <2>5. QED
    BY <1>1, <2>1, <2>3, <2>4, OthersAlone DEF Quiet, Fresh
<1>3. QuietInChannel'
  <2>1. SUFFICES ASSUME NEW q \in Ids, NEW i \in DOMAIN token_rx'[q], token_rx'[q][i] = "intro"
                 PROVE  i = 1 /\ Quiet(q)'
    BY DEF QuietInChannel
  <2>2. q # r
    BY <2>1, IntroTaken
  <2>3. conn'[q] = conn[q] /\ round'[q] = round[q] /\ token_rx'[q] = token_rx[q]
        /\ transcript'[q] = transcript[q]
    BY <1>1, <2>2, OthersAlone
  <2>4. QED
    BY <1>1, <2>1, <2>3 DEF IntroInv, QuietInChannel, Quiet, Fresh
<1>4. QED
  BY <1>2, <1>3, ConnectionFresh, ConnectionQueue DEF IntroInv

(* What a connection writes: nothing, or a mark its shell waits for.       *)
LEMMA Writes ==
  ASSUME ServiceInv, NEW r \in Ids, NEW mark \in Marks, Write(r, mark)
  PROVE  \/ UNCHANGED <<socket, transcript>> /\ ~Listening(r)
         \/ /\ Listening(r)
            /\ socket' = [socket EXCEPT ![r] = Append(socket[r], mark)]
            /\ transcript' = [transcript EXCEPT ![r] = Recorded(transcript[r], mark)]
BY DEF Write, Silent

LEMMA LastAppended ==
  ASSUME NEW marks \in Seq(Marks), NEW mark
  PROVE  LET longer == Append(marks, mark) IN
         longer # <<>> /\ longer[Len(longer)] = mark
OBVIOUS

LEMMA ConnectionEnd ==
  ASSUME ServiceInv, NEW r \in Ids, Serves(r)
  PROVE  WaitsForOwn' /\ EndIsLast' /\ OpenedStarted'
<1>1. WaitInv /\ WaitsForOwn /\ EndIsLast /\ OpenedStarted
  BY DEF ServiceInv
<1>2. UNCHANGED <<waiting, shell_mode, requests>>
  BY <1>1, OthersAlone DEF users
<1>3. conn[r] # "ended" /\ conn'[r] # "none"
  BY <1>1, Types
     DEF Serves, Connection, Tool, ReadRequest, SendTask, DropEvent, ReceiveIntro, Spoken,
          ReceiveText, OpenTool,
         CloseTool, RunTool, RefuseTool, EndOfStream, WriteEnd, Goes, Received
<1>4. WaitsForOwn'
  BY <1>1, <1>2 DEF WaitsForOwn, IsEvent, Opened
<1>5. OpenedStarted'
  <2>1. \A q \in Ids \ {r} : conn'[q] = conn[q]
    BY <1>1, OthersAlone
  <2>2. Opened \subseteq Ids
    BY <1>1, Types
  <2>3. QED
    BY <1>1, <1>2, <1>3, <2>1, <2>2 DEF OpenedStarted, Opened
<1>6. socket[r] \in Seq(Marks) /\ transcript[r] \in Seq(Marks)
      /\ socket \in [Ids -> Seq(Marks)] /\ transcript \in [Ids -> Seq(Marks)]
  BY <1>1, Types
<1>7. \A i \in DOMAIN socket[r] : socket[r][i] # "end"
  BY <1>1, <1>3 DEF EndIsLast
<1>8. \A i \in DOMAIN socket'[r] : socket'[r][i] = "end" =>
        /\ conn'[r] = "ended"
        /\ transcript'[r] # <<>> /\ transcript'[r][Len(transcript'[r])] = "end"
  <2>1. CASE WriteEnd(r)
    <3>1. Write(r, "end") /\ conn'[r] = "ended"
      BY <1>1, <2>1, Types DEF WriteEnd, Goes
    <3>2. CASE UNCHANGED <<socket, transcript>>
      BY <1>7, <3>2
    <3>3. CASE transcript'[r] = Recorded(transcript[r], "end")
      <4>1. transcript'[r] = Append(transcript[r], "end")
        BY <3>3 DEF Recorded
      <4>2. QED
        BY <1>6, <3>1, <4>1, LastAppended
    <3>4. QED
      BY <1>6, <3>1, <3>2, <3>3, Writes DEF Marks
  <2>2. ASSUME NEW mark \in {"speaking", "text"}, Write(r, mark)
        PROVE  \A i \in DOMAIN socket'[r] : socket'[r][i] # "end"
    <3>1. mark \in Marks
      BY DEF Marks
    <3>2. CASE UNCHANGED socket
      BY <1>7, <3>2
    <3>3. CASE socket'[r] = Append(socket[r], mark)
      BY <1>6, <1>7, <3>1, <3>3
    <3>4. QED
      BY <1>6, <2>2, <3>1, <3>2, <3>3, Writes
  <2>3. CASE UNCHANGED socket
    BY <1>7, <2>3
  <2>4. QED
    BY <2>1, <2>2, <2>3
       DEF Serves, Connection, Tool, ReadRequest, SendTask, DropEvent, ReceiveIntro, Spoken,
            ReceiveText,
           OpenTool, CloseTool, RunTool, RefuseTool, EndOfStream, Silent
<1>9. EndIsLast'
  <2>1. \A q \in Ids \ {r} : conn'[q] = conn[q] /\ transcript'[q] = transcript[q]
                             /\ socket'[q] = socket[q]
    BY <1>1, OthersAlone
  <2>2. QED
    BY <1>1, <1>8, <2>1 DEF EndIsLast
<1>10. QED
  BY <1>4, <1>5, <1>9
-----------------------------------------------------------------------------
(* A step of a shell.                                                      *)

(* It starts a connection or none, and touches nothing of the others.      *)
LEMMA ShellAlone ==
  ASSUME WaitInv, NEW s \in Shells, Shell(s)
  PROVE  /\ UNCHANGED <<round, capturing, token_rx, transcript, task_rx, worker>>
         /\ \/ UNCHANGED <<requests, conn>>
            \/ \E kind \in Events \cup {"chat", "fix"} : Connect(s, kind)
         /\ \A r \in Ids : socket'[r] = socket[r] \/ socket'[r] = <<>>
<1>1. UNCHANGED <<round, capturing, token_rx, transcript, task_rx, worker>>
  BY DEF Shell, SwitchMode, ShowMode, Ask, ExitShell, KillShell, Interrupt, Notify, Connect, tasks
<1>2. UNCHANGED <<requests, conn>> \/ \E kind \in Events \cup {"chat", "fix"} : Connect(s, kind)
  BY DEF Shell, SwitchMode, ShowMode, Ask, ExitShell, KillShell, Interrupt, Notify, tasks, Events
<1>3. \A r \in Ids : socket'[r] = socket[r] \/ socket'[r] = <<>>
  BY Types DEF Shell, SwitchMode, ShowMode, Ask, ExitShell, KillShell, Interrupt, Notify
<1>4. QED
  BY <1>1, <1>2, <1>3

(* A new connection is at its start, and the requests before it are kept.  *)
LEMMA Connected ==
  ASSUME ServiceInv, NEW s \in Shells, NEW kind \in Events \cup {"chat", "fix"}, Connect(s, kind)
  PROVE  LET r == Len(requests) + 1 IN
         /\ r \in Ids /\ r \notin Opened /\ Opened' = Opened \cup {r}
         /\ \A q \in Opened : requests'[q] = requests[q]
         /\ requests'[r] = [shell |-> s, kind |-> kind]
         /\ conn[r] = "none" /\ conn'[r] = "reading" /\ UNCHANGED round
         /\ \A q \in Ids \ {r} : conn'[q] = conn[q]
<1> DEFINE r == Len(requests) + 1
           request == [shell |-> s, kind |-> kind]
<1>1. WaitInv
  BY DEF ServiceInv
<1>2. requests \in Seq([shell : Shells, kind : Events \cup {"chat", "fix"}])
      /\ requests' = Append(requests, request) /\ Len(requests) < MaxRequests
      /\ conn' = [conn EXCEPT ![r] = "reading"] /\ UNCHANGED round
  BY <1>1, Types DEF Connect
<1> HIDE DEF request
<1>3. Len(requests) \in Nat /\ Opened = 1 .. Len(requests) /\ MaxRequests \in Nat
  BY <1>1, Types, OrchestratorAssumption
<1>4. r \in Ids /\ r \notin Opened
  BY <1>2, <1>3 DEF Ids
<1>5. Opened' = Opened \cup {r} /\ requests'[r] = request
      /\ \A q \in Opened : requests'[q] = requests[q]
  BY <1>2, <1>3 DEF Opened
<1>6. conn[r] = "none"
  BY <1>1, <1>3, <1>4 DEF WaitInv
<1>7. conn'[r] = "reading" /\ \A q \in Ids \ {r} : conn'[q] = conn[q]
  BY <1>1, <1>2, <1>4, Types
<1>8. QED
  BY <1>2, <1>4, <1>5, <1>6, <1>7 DEF request

LEMMA ShellIntro ==
  ASSUME ServiceInv, NEW s \in Shells, Shell(s)
  PROVE  IntroInv' /\ EndIsLast' /\ OpenedStarted'
<1>1. WaitInv /\ IntroInv /\ EndIsLast /\ OpenedStarted
  BY DEF ServiceInv
<1>2. UNCHANGED <<round, token_rx, transcript, task_rx, worker>>
  BY <1>1, ShellAlone
<1>3. \A r \in Ids : conn'[r] = conn[r] \/ (conn[r] = "none" /\ conn'[r] = "reading")
  <2>1. ASSUME NEW kind \in Events \cup {"chat", "fix"}, Connect(s, kind)
        PROVE  \A r \in Ids : conn'[r] = conn[r] \/ (conn[r] = "none" /\ conn'[r] = "reading")
    <3> DEFINE new == Len(requests) + 1
    <3>1. /\ conn[new] = "none" /\ conn'[new] = "reading"
          /\ \A q \in Ids \ {new} : conn'[q] = conn[q]
      BY <2>1, Connected
    <3> HIDE DEF new
    <3>2. QED
      BY <3>1
  <2>2. CASE UNCHANGED conn
    BY <2>2
  <2>3. QED
    BY <1>1, <2>1, <2>2, ShellAlone
<1>4. \A r \in Opened : IsEvent(r)' = IsEvent(r) /\ conn'[r] = conn[r]
  <2>1. Opened \subseteq Ids
    BY <1>1, Types
  <2>2. CASE UNCHANGED <<requests, conn>>
    BY <2>2 DEF IsEvent
  <2>3. ASSUME NEW kind \in Events \cup {"chat", "fix"}, Connect(s, kind)
        PROVE  \A r \in Opened : IsEvent(r)' = IsEvent(r) /\ conn'[r] = conn[r]
    BY <2>1, <2>3, Connected DEF IsEvent
  <2>4. QED
    BY <1>1, <2>2, <2>3, ShellAlone
<1>5. FreshStart'
  BY <1>1, <1>2, <1>3 DEF IntroInv, FreshStart, Fresh
<1>6. QuietInQueue'
  <2>1. \A i \in DOMAIN task_rx : task_rx[i].req \in Opened
    BY <1>1, TaskOpened DEF IntroInv
  <2>2. ASSUME NEW i \in DOMAIN task_rx, task_rx[i].round = 1, ~IsEvent(task_rx[i].req)'
        PROVE  (Quiet(task_rx[i].req) /\ token_rx[task_rx[i].req] = <<>>)'
    <3>1. ~IsEvent(task_rx[i].req) /\ conn'[task_rx[i].req] = conn[task_rx[i].req]
      BY <1>2, <1>4, <2>1, <2>2
    <3>2. Quiet(task_rx[i].req) /\ token_rx[task_rx[i].req] = <<>>
      BY <1>1, <2>2, <3>1 DEF IntroInv, QuietInQueue
    <3>3. QED
      BY <1>2, <3>1, <3>2 DEF Quiet, Fresh
  <2>3. QED
    BY <1>2, <2>2 DEF QuietInQueue
<1>7. QuietAtWork'
  <2>1. SUFFICES ASSUME Announcing
                 PROVE  (Quiet(worker.req) /\ token_rx[worker.req] = <<>>)'
    BY <1>1, <1>2 DEF IntroInv, QuietAtWork, Announcing
  <2>2. worker.req \in Ids
    BY <1>1, <2>1, Types DEF Announcing, Working, Idle, Dead
  <2>3. QED
    BY <1>1, <1>2, <1>3, <2>1, <2>2 DEF IntroInv, QuietAtWork, Quiet, Fresh
<1>8. QuietInChannel'
  BY <1>1, <1>2, <1>3 DEF IntroInv, QuietInChannel, Quiet, Fresh
<1>9. OneTaskEach'
  BY <1>1, <1>2 DEF IntroInv, OneTaskEach, Active
<1>10. EndIsLast'
  <2>1. \A r \in Ids : socket'[r] = socket[r] \/ socket'[r] = <<>>
    BY <1>1, ShellAlone
  <2>2. QED
    BY <1>1, <1>2, <1>3, <2>1 DEF EndIsLast
<1>11. OpenedStarted'
  <2>1. CASE UNCHANGED <<requests, conn>>
    BY <1>1, <2>1 DEF OpenedStarted, Opened
  <2>2. ASSUME NEW kind \in Events \cup {"chat", "fix"}, Connect(s, kind)
        PROVE  OpenedStarted'
    <3> DEFINE new == Len(requests) + 1
    <3>1. Opened' = Opened \cup {new} /\ conn'[new] = "reading"
      BY <2>2, Connected
    <3>2. QED
      BY <1>1, <1>4, <3>1 DEF OpenedStarted
  <2>3. QED
    BY <1>1, <2>1, <2>2, ShellAlone
<1>12. QED
  BY <1>5, <1>6, <1>7, <1>8, <1>9, <1>10, <1>11 DEF IntroInv

(* A shell waits only for the question it has just asked.                  *)
LEMMA ShellWaits ==
  ASSUME ServiceInv, NEW s \in Shells, Shell(s)
  PROVE  WaitsForOwn'
<1>1. WaitInv /\ WaitsForOwn
  BY DEF ServiceInv
<1>2. waiting \in [Shells -> 0 .. MaxRequests] /\ shell_mode \in [Shells -> {"shell", "chat", "dead"}]
  BY <1>1, Types
<1>3. ASSUME NEW t \in Shells, waiting[t] # 0
      PROVE  waiting[t] \in Opened' /\ requests'[waiting[t]] = requests[waiting[t]]
  <2>1. waiting[t] \in Opened
    BY <1>1, <1>3 DEF WaitsForOwn
  <2>2. CASE UNCHANGED requests
    BY <2>1, <2>2 DEF Opened
  <2>3. ASSUME NEW kind \in Events \cup {"chat", "fix"}, Connect(s, kind)
        PROVE  waiting[t] \in Opened' /\ requests'[waiting[t]] = requests[waiting[t]]
    BY <2>1, <2>3, Connected
  <2>4. QED
    BY <1>1, <2>2, <2>3, ShellAlone
<1>4. CASE Ask(s)
  <2>1. PICK kind \in {"chat", "fix"} : Connect(s, kind)
    BY <1>4 DEF Ask
  <2>2. LET r == Len(requests) + 1 IN
        /\ r \in Opened' /\ requests'[r] = [shell |-> s, kind |-> kind]
        /\ waiting' = [waiting EXCEPT ![s] = r] /\ UNCHANGED shell_mode /\ shell_mode[s] # "dead"
    BY <1>4, <2>1, Connected DEF Ask, AtPrompt
  <2>3. \A t \in Shells \ {s} : waiting'[t] = waiting[t]
    BY <1>2, <2>2
  <2>4. waiting'[s] \in Opened' /\ requests'[waiting'[s]].shell = s /\ ~IsEvent(waiting[s])'
    BY <1>2, <2>2 DEF IsEvent, Events
  <2>5. QED
    BY <1>1, <1>3, <2>2, <2>3, <2>4 DEF WaitsForOwn, IsEvent
<1>5. CASE ~Ask(s)
  <2>1. \A t \in Shells : waiting'[t] = 0
          \/ (waiting'[t] = waiting[t]
               /\ (waiting[t] # 0 => shell_mode'[t] = shell_mode[t]))
    BY <1>2, <1>5 DEF Shell, SwitchMode, ShowMode, ExitShell, KillShell, Interrupt, Notify, AtPrompt
  <2>2. QED
    BY <1>1, <1>3, <2>1 DEF WaitsForOwn, IsEvent
<1>6. QED
  BY <1>4, <1>5

LEMMA ReadKeeps ==
  ASSUME ServiceInv, NEW r \in Ids, Read(r)
  PROVE  WaitsForOwn' /\ EndIsLast' /\ OpenedStarted' /\ IntroInv'
<1>1. WaitInv /\ WaitsForOwn /\ EndIsLast /\ OpenedStarted /\ IntroInv
  BY DEF ServiceInv
<1>2. UNCHANGED <<conn, requests, round, token_rx, transcript, task_rx, worker, shell_mode>>
  BY DEF Read, tasks
<1>3. IntroInv' /\ OpenedStarted'
  BY <1>1, <1>2 DEF IntroInv, FreshStart, QuietInQueue, QuietAtWork, QuietInChannel, OneTaskEach,
       Quiet, Fresh, Announcing, Active, IsEvent, OpenedStarted, Opened
<1>4. WaitsForOwn'
  <2>1. \A s \in Shells : waiting'[s] = waiting[s] \/ waiting'[s] = 0
    BY <1>1, Types DEF Read
  <2>2. QED
    BY <1>1, <1>2, <2>1 DEF WaitsForOwn, IsEvent, Opened
<1>5. EndIsLast'
  <2>1. socket \in [Ids -> Seq(Marks)] /\ socket[r] # <<>>
        /\ socket' = [socket EXCEPT ![r] = Tail(socket[r])]
    BY <1>1, Types DEF Read
  <2>2. \A i \in DOMAIN Tail(socket[r]) :
          Tail(socket[r])[i] = socket[r][i + 1] /\ i + 1 \in DOMAIN socket[r]
    BY <2>1, HeadTailProperties, LenProperties
  <2>3. QED
    BY <1>1, <1>2, <2>1, <2>2 DEF EndIsLast
<1>6. QED
  BY <1>3, <1>4, <1>5
-----------------------------------------------------------------------------
(* A step of the worker.                                                   *)

LEMMA WorkerAlone ==
  ASSUME Worker \/ Panic
  PROVE  UNCHANGED <<users, tasks, socket, transcript>>
BY DEF Worker, ChatModeEnter, ChatModeExit, DualPass, TakesTask, WriteIntro, LoadModel,
       Generate, SendChunk, SendFails, FinishTask, Unseen, Panic

LEMMA WorkerOthers ==
  ASSUME ServiceInv, Worker \/ Panic
  PROVE  WaitsForOwn' /\ EndIsLast' /\ OpenedStarted'
BY WorkerAlone DEF ServiceInv, WaitsForOwn, EndIsLast, OpenedStarted, Opened, IsEvent, users, tasks

(* A task that is taken leaves the rest of the queue as it is.             *)
LEMMA Taken ==
  ASSUME ServiceInv, NEW task, TakesTask(task)
  PROVE  /\ 1 \in DOMAIN task_rx /\ task = task_rx[1]
         /\ \A i \in DOMAIN task_rx' : i + 1 \in DOMAIN task_rx /\ task_rx'[i] = task_rx[i + 1]
                                       /\ i \in Nat \ {0}
         /\ UNCHANGED <<requests, conn, round, token_rx, transcript>>
<1>1. task_rx \in Seq([req : Ids, round : 1 .. MaxRounds]) /\ task_rx # <<>>
      /\ task_rx' = Tail(task_rx) /\ task = Head(task_rx)
  BY Types DEF TakesTask, ServiceInv
<1>2. \A i \in DOMAIN Tail(task_rx) : i + 1 \in DOMAIN task_rx /\ Tail(task_rx)[i] = task_rx[i + 1]
                                      /\ i \in Nat \ {0}
  BY <1>1, HeadTailProperties, LenProperties
<1>3. 1 \in DOMAIN task_rx /\ task = task_rx[1]
  BY <1>1
<1>4. UNCHANGED <<requests, conn, round, token_rx, transcript>>
  BY DEF TakesTask, tasks
<1>5. QED
  BY <1>1, <1>2, <1>3, <1>4

LEMMA TakesIntro ==
  ASSUME ServiceInv, ChatModeEnter \/ ChatModeExit \/ DualPass
  PROVE  IntroInv'
<1>1. IntroInv /\ WaitInv
  BY DEF ServiceInv
<1>2. PICK task : TakesTask(task) /\ (DualPass =>
        /\ ~IsEvent(task.req)
        /\ worker'.phase = (IF HasVoice(task) THEN "intro" ELSE "load") /\ worker'.chunk = "none"
        /\ worker'.req = task.req /\ worker'.round = task.round)
        /\ (~DualPass => UNCHANGED worker)
  BY DEF ChatModeEnter, ChatModeExit, DualPass
<1>3. /\ 1 \in DOMAIN task_rx /\ task = task_rx[1]
      /\ \A i \in DOMAIN task_rx' : i + 1 \in DOMAIN task_rx /\ task_rx'[i] = task_rx[i + 1]
                                    /\ i \in Nat \ {0}
      /\ UNCHANGED <<requests, conn, round, token_rx, transcript>>
  BY <1>2, Taken
<1>4. FreshStart' /\ QuietInChannel'
  BY <1>1, <1>3 DEF IntroInv, FreshStart, QuietInChannel, Quiet, Fresh
<1>5. QuietInQueue'
  BY <1>1, <1>3 DEF IntroInv, QuietInQueue, Quiet, Fresh, IsEvent
<1>6. worker = Idle
  BY <1>2 DEF TakesTask
<1>7. CASE DualPass
  <2>1. OneTaskEach'
    <3>1. \A i, j \in DOMAIN task_rx' : task_rx'[i] = task_rx'[j] => i = j
      BY <1>1, <1>3 DEF IntroInv, OneTaskEach
    <3>2. ASSUME NEW i \in DOMAIN task_rx',
                 task_rx'[i].req = worker'.req /\ task_rx'[i].round = worker'.round
          PROVE  FALSE
      <4>1. i + 1 \in DOMAIN task_rx /\ task_rx[i + 1].req = task_rx[1].req
            /\ task_rx[i + 1].round = task_rx[1].round /\ i + 1 # 1
        BY <1>2, <1>3, <1>7, <3>2
      <4>2. task_rx[i + 1] = task_rx[1]
        BY <1>1, <1>3, <4>1, TaskOpened DEF IntroInv
      <4>3. QED
        BY <1>1, <1>3, <4>1, <4>2 DEF IntroInv, OneTaskEach
    <3>3. QED
      BY <3>1, <3>2 DEF OneTaskEach
  <2>2. QuietAtWork'
    BY <1>1, <1>2, <1>3, <1>7
       DEF IntroInv, QuietInQueue, QuietAtWork, Announcing, HasVoice, Quiet, Fresh
  <2>3. QED
    BY <1>4, <1>5, <2>1, <2>2 DEF IntroInv
<1>8. CASE ~DualPass
  <2>1. QuietAtWork' /\ ~Active'
    BY <1>2, <1>6, <1>8 DEF QuietAtWork, Announcing, Active, Idle
  <2>2. OneTaskEach'
    BY <1>1, <1>3, <2>1 DEF IntroInv, OneTaskEach
  <2>3. QED
    BY <1>4, <1>5, <2>1, <2>2 DEF IntroInv
<1>9. QED
  BY <1>7, <1>8

(* Between its task and its chunks, the worker only changes itself.        *)
LEMMA WorksIntro ==
  ASSUME ServiceInv, WriteIntro \/ LoadModel \/ Generate \/ SendFails \/ FinishTask \/ Panic
  PROVE  IntroInv'
<1>1. IntroInv /\ WaitInv
  BY DEF ServiceInv
<1>2. UNCHANGED <<requests, conn, round, token_rx, transcript>>
      /\ (task_rx' = task_rx \/ task_rx' = <<>>)
  BY WorkerAlone DEF WriteIntro, LoadModel, Generate, SendFails, FinishTask, Panic, Unseen, tasks
<1>3. worker \in Working \cup {Idle, Dead}
  BY <1>1, Types
<1>4. worker \in Working
  <2>1. Idle.phase = "idle" /\ Dead.phase = "dead" /\ Idle.chunk = "none" /\ Dead.chunk = "none"
    BY DEF Idle, Dead
  <2>2. worker.phase \in {"intro", "load", "text"} \/ worker.chunk # "none"
    BY DEF WriteIntro, LoadModel, Generate, SendFails, FinishTask, Panic, Sending
  <2>3. QED
    BY <1>3, <2>1, <2>2
<1>5. \/ worker' \in {Idle, Dead}
      \/ /\ worker'.req = worker.req /\ worker'.round = worker.round
         /\ \/ WriteIntro /\ worker'.phase = "load" /\ worker'.chunk \in {"intro", "none"}
            \/ worker'.phase # "intro" /\ worker'.chunk # "intro"
  <2>1. WriteIntro => worker'.req = worker.req /\ worker'.round = worker.round
                      /\ worker'.phase = "load" /\ worker'.chunk \in {"intro", "none"}
    BY <1>4 DEF WriteIntro, Working
  <2>2. LoadModel \/ Generate => worker' = Idle \/
          (worker'.req = worker.req /\ worker'.round = worker.round
            /\ worker'.phase # "intro" /\ worker'.chunk # "intro")
    BY <1>4 DEF LoadModel, Generate, Working
  <2>3. SendFails => worker' = Idle \/
          (worker'.req = worker.req /\ worker'.round = worker.round
            /\ worker'.phase # "intro" /\ worker'.chunk # "intro")
    BY <1>1, <1>4 DEF SendFails, Working, IntroInv, QuietAtWork, Announcing
  <2>4. FinishTask \/ Panic => worker' \in {Idle, Dead}
    BY DEF FinishTask, Panic
  <2>5. QED
    BY <2>1, <2>2, <2>3, <2>4
<1>6. FreshStart' /\ QuietInChannel' /\ QuietInQueue'
  BY <1>1, <1>2 DEF IntroInv, FreshStart, QuietInChannel, QuietInQueue, Quiet, Fresh, IsEvent
<1>7. Active /\ (Active' => worker'.req = worker.req /\ worker'.round = worker.round)
  BY <1>4, <1>5 DEF Active, Working, Idle, Dead
<1>8. OneTaskEach'
  BY <1>1, <1>2, <1>7 DEF IntroInv, OneTaskEach
<1>9. QuietAtWork'
  <2>1. CASE WriteIntro /\ worker'.phase = "load" /\ worker'.chunk \in {"intro", "none"}
             /\ worker'.req = worker.req /\ worker'.round = worker.round
    <3>1. Announcing
      BY <2>1 DEF WriteIntro, Announcing
    <3>2. QED
      BY <1>1, <1>2, <2>1, <3>1 DEF IntroInv, QuietAtWork, Quiet, Fresh, Announcing
  <2>2. CASE ~Announcing'
    BY <2>2 DEF QuietAtWork
  <2>3. QED
    BY <1>5, <2>1, <2>2 DEF Announcing, Idle, Dead
<1>10. QED
  BY <1>6, <1>8, <1>9 DEF IntroInv

(* The chunk the worker sends: an intro into an empty channel, or another  *)
(* chunk, and then no task of the first round is left in the queue.        *)
LEMMA SendsIntro ==
  ASSUME ServiceInv, SendChunk
  PROVE  IntroInv'
<1> DEFINE r == worker.req
<1>1. IntroInv /\ WaitInv
  BY DEF ServiceInv
<1>2. UNCHANGED <<requests, conn, round, transcript, task_rx>>
  BY DEF SendChunk, Unseen, tasks
<1>3. worker \in Working /\ worker.chunk # "none" /\ worker' = [worker EXCEPT !.chunk = "none"]
  <2>1. worker \in Working \cup {Idle, Dead}
    BY <1>1, Types
  <2>2. worker.chunk # "none"
    BY DEF SendChunk, Sending
  <2>3. QED
    BY <2>1, <2>2 DEF Idle, Dead, SendChunk
<1>4. r \in Ids /\ token_rx[r] \in Seq(Chunks) /\ worker.chunk \in Chunks
      /\ token_rx' = [token_rx EXCEPT ![r] = Append(token_rx[r], worker.chunk)]
      /\ token_rx \in [Ids -> Seq(Chunks)] /\ worker.round = round[r]
  BY <1>1, <1>3, Types DEF SendChunk, Working, ReceiverAlive
<1>5. Active /\ worker'.req = r /\ worker'.round = worker.round /\ worker'.phase = worker.phase
      /\ worker'.chunk = "none"
  BY <1>3 DEF Working, Active
<1>6. ~Announcing'
  BY <1>1, <1>3, <1>5 DEF IntroInv, QuietAtWork, Announcing
<1>7. FreshStart'
  <2>1. conn[r] \notin {"none", "reading", "sending"}
    BY <1>1, <1>4, <1>5 DEF WaitInv, Served, Draining, SendChunk, ReceiverAlive
  <2>2. QED
    BY <1>1, <1>2, <1>4, <2>1 DEF IntroInv, FreshStart, Fresh
<1>8. QuietInQueue'
  <2>1. SUFFICES ASSUME NEW i \in DOMAIN task_rx, task_rx[i].round = 1, ~IsEvent(task_rx[i].req)
                 PROVE  (Quiet(task_rx[i].req) /\ token_rx[task_rx[i].req] = <<>>)'
    BY <1>2 DEF QuietInQueue, IsEvent
  <2>2. Quiet(task_rx[i].req) /\ token_rx[task_rx[i].req] = <<>>
    BY <1>1, <2>1 DEF IntroInv, QuietInQueue
  <2>3. task_rx[i].req # r
    BY <1>1, <1>4, <1>5, <2>1, <2>2 DEF IntroInv, OneTaskEach, Quiet, Fresh
  <2>4. task_rx[i].req \in Ids
    BY <1>1, TaskOpened DEF IntroInv
  <2>5. QED
    BY <1>2, <1>4, <2>2, <2>3, <2>4 DEF Quiet, Fresh
<1>9. QuietInChannel'
  <2>1. SUFFICES ASSUME NEW q \in Ids, NEW i \in DOMAIN token_rx'[q], token_rx'[q][i] = "intro"
                 PROVE  i = 1 /\ Quiet(q)
    BY <1>2 DEF QuietInChannel, Quiet, Fresh
  <2>2. CASE i \in DOMAIN token_rx[q] /\ token_rx'[q][i] = token_rx[q][i]
    BY <1>1, <2>1, <2>2 DEF IntroInv, QuietInChannel
  <2>3. CASE q = r /\ i = Len(token_rx[r]) + 1 /\ worker.chunk = "intro"
    <3>1. Quiet(r) /\ token_rx[r] = <<>>
      BY <1>1, <2>3 DEF IntroInv, QuietAtWork, Announcing
    <3>2. QED
      BY <2>3, <3>1
  <2>4. QED
    BY <1>4, <2>1, <2>2, <2>3
<1>10. QED
  BY <1>1, <1>2, <1>5, <1>6, <1>7, <1>8, <1>9 DEF IntroInv, OneTaskEach, Active, QuietAtWork

LEMMA WorkerIntro ==
  ASSUME ServiceInv, Worker \/ Panic
  PROVE  IntroInv'
BY TakesIntro, WorksIntro, SendsIntro DEF Worker
-----------------------------------------------------------------------------
(* The invariant.                                                          *)

LEMMA ServiceInit == Init => ServiceInv
<1> SUFFICES ASSUME Init PROVE ServiceInv
  OBVIOUS
<1>1. WaitInv
  BY TypeInit DEF Init, WaitInv, Active, Idle
<1>2. IntroInv
  BY DEF Init, IntroInv, FreshStart, QuietInQueue, QuietAtWork, QuietInChannel, OneTaskEach,
         Quiet, Fresh, Announcing, Active, Idle
<1>3. WaitsForOwn /\ EndIsLast /\ OpenedStarted
  BY DEF Init, WaitsForOwn, EndIsLast, OpenedStarted, Opened
<1>4. QED
  BY <1>1, <1>2, <1>3 DEF ServiceInv

LEMMA ServiceStep ==
  ASSUME ServiceInv, [Next]_vars
  PROVE  ServiceInv'
<1>1. WaitInv'
  BY WaitStep DEF ServiceInv
<1>2. CASE UNCHANGED vars
  <2>1. (IntroInv /\ WaitsForOwn /\ EndIsLast /\ OpenedStarted)'
    BY <1>2 DEF ServiceInv, vars, users, tasks, IntroInv, FreshStart, QuietInQueue, QuietAtWork,
         QuietInChannel, OneTaskEach, Quiet, Fresh, Announcing, Active, IsEvent, WaitsForOwn,
         EndIsLast, OpenedStarted, Opened
  <2>2. QED
    BY <1>1, <2>1 DEF ServiceInv
<1>3. ASSUME NEW s \in Shells, Shell(s)
      PROVE  ServiceInv'
  BY <1>1, <1>3, ShellIntro, ShellWaits DEF ServiceInv
<1>4. ASSUME NEW r \in Ids, Read(r)
      PROVE  ServiceInv'
  BY <1>1, <1>4, ReadKeeps DEF ServiceInv
<1>5. ASSUME NEW r \in Ids, Serves(r)
      PROVE  ServiceInv'
  BY <1>1, <1>5, ConnectionIntro, ConnectionEnd DEF ServiceInv
<1>6. CASE Worker \/ Panic
  BY <1>1, <1>6, WorkerIntro, WorkerOthers DEF ServiceInv
<1>7. QED
  BY <1>2, <1>3, <1>4, <1>5, <1>6 DEF Next, Serves
-----------------------------------------------------------------------------
(* The refinement.                                                         *)

LEMMA StutterService ==
  ASSUME UNCHANGED <<shell_mode, waiting, requests, conn, transcript>>
  PROVE  UNCHANGED Service!vars
BY DEF Service!vars, alive, opened, Opened

LEMMA ShellRefines ==
  ASSUME ServiceInv, NEW s \in Shells, Shell(s)
  PROVE  [Service!Next]_(Service!vars)
<1>1. WaitInv
  BY DEF ServiceInv
<1>2. waiting \in [Shells -> 0 .. MaxRequests] /\ shell_mode \in [Shells -> {"shell", "chat", "dead"}]
      /\ Opened \subseteq Ids
  BY <1>1, Types
<1>3. UNCHANGED transcript
  BY <1>1, ShellAlone
<1>4. ASSUME NEW kind \in Events \cup {"chat", "fix"}, Connect(s, kind), AtPrompt(s)
      PROVE  LET r == Len(requests) + 1 IN r \in Ids /\ Service!Request(s, r)
  <2> DEFINE r == Len(requests) + 1
  <2>1. /\ r \in Ids /\ r \notin Opened /\ Opened' = Opened \cup {r}
        /\ conn'[r] = "reading" /\ \A q \in Ids \ {r} : conn'[q] = conn[q]
    BY <1>4, Connected
  <2> HIDE DEF r
  <2>2. opened' = opened \cup {r}
    BY <1>2, <2>1 DEF opened
  <2>3. s \in alive /\ waiting[s] = 0
    BY <1>4 DEF AtPrompt, alive
  <2>4. Service!Request(s, r)
    BY <1>3, <2>1, <2>2, <2>3 DEF Service!Request
  <2>5. QED
    BY <2>1, <2>4 DEF r
<1>5. CASE \E mode \in Modes : SwitchMode(s, mode)
  <2>1. PICK mode \in Modes : SwitchMode(s, mode)
    BY <1>5
  <2>2. mode # "dead" /\ UNCHANGED <<waiting, requests, conn>>
    BY <2>1, OrchestratorAssumption DEF SwitchMode, tasks
  <2>3. alive' = alive /\ opened' = opened /\ Opened' = Opened
    BY <1>2, <2>1, <2>2 DEF SwitchMode, AtPrompt, alive, opened, Opened
  <2>4. QED
    BY <1>3, <2>2, <2>3 DEF Service!vars
<1>6. CASE ShowMode(s)
  <2>1. PICK kind \in Events : Connect(s, kind) /\ AtPrompt(s) /\ UNCHANGED <<waiting, shell_mode>>
    BY <1>6 DEF ShowMode, Notify, Events
  <2>2. PICK r \in Ids : Service!Request(s, r)
    BY <1>4, <2>1
  <2>3. Service!Tell(s, r)
    BY <2>1, <2>2 DEF Service!Tell, alive
  <2>4. QED
    BY <2>3 DEF Service!Next
<1>7. CASE Ask(s)
  <2>1. PICK kind \in {"chat", "fix"} : Connect(s, kind) /\ AtPrompt(s) /\ UNCHANGED shell_mode
          /\ waiting' = [waiting EXCEPT ![s] = Len(requests) + 1]
    BY <1>7 DEF Ask
  <2>2. Len(requests) + 1 \in Ids /\ Service!Request(s, Len(requests) + 1)
    BY <1>4, <2>1
  <2>3. Service!Ask(s, Len(requests) + 1)
    BY <2>1, <2>2 DEF Service!Ask, alive
  <2>4. QED
    BY <2>2, <2>3 DEF Service!Next
<1>8. CASE ExitShell(s)
  <2>1. Connect(s, "exit") /\ AtPrompt(s) /\ UNCHANGED waiting
        /\ shell_mode' = [shell_mode EXCEPT ![s] = "dead"]
    BY <1>8 DEF ExitShell, Notify
  <2>2. PICK r \in Ids : Service!Request(s, r)
    BY <1>4, <2>1 DEF Events
  <2>3. alive' = alive \ {s}
    BY <1>2, <2>1 DEF alive
  <2>4. Service!Tell(s, r)
    BY <2>1, <2>2, <2>3 DEF Service!Tell
  <2>5. QED
    BY <2>4 DEF Service!Next
<1>9. CASE KillShell(s)
  <2>1. alive' = alive \ {s} /\ s \in alive
    BY <1>2, <1>9 DEF KillShell, alive
  <2>2. opened' = opened /\ Opened' = Opened /\ waiting' = [waiting EXCEPT ![s] = 0]
    BY <1>9 DEF KillShell, tasks, opened, Opened
  <2>3. Service!Die(s)
    BY <1>3, <2>1, <2>2 DEF Service!Die
  <2>4. QED
    BY <2>3 DEF Service!Next
<1>10. CASE Interrupt(s)
  <2>1. alive' = alive /\ opened' = opened /\ Opened' = Opened
    BY <1>10 DEF Interrupt, tasks, alive, opened, Opened
  <2>2. Service!HangUp(s)
    BY <1>3, <1>10, <2>1 DEF Interrupt, Service!HangUp
  <2>3. QED
    BY <2>2 DEF Service!Next
<1>11. QED
  BY <1>5, <1>6, <1>7, <1>8, <1>9, <1>10 DEF Shell

LEMMA ReadRefines ==
  ASSUME ServiceInv, NEW r \in Ids, Read(r)
  PROVE  [Service!Next]_(Service!vars)
<1>1. WaitInv /\ EndIsLast
  BY DEF ServiceInv
<1>2. UNCHANGED <<shell_mode, requests, conn, transcript>> /\ r \in Opened
      /\ socket[r] # <<>> /\ waiting[requests[r].shell] = r
  BY DEF Read, tasks, Listening
<1>3. CASE Head(socket[r]) = "end"
  <2>1. socket[r] \in Seq(Marks)
    BY <1>1, Types
  <2>2. conn[r] = "ended" /\ Service!Ended(r)
    <3>1. 1 \in DOMAIN socket[r] /\ socket[r][1] = "end"
      BY <1>2, <1>3, <2>1
    <3>2. QED
      BY <1>1, <3>1 DEF EndIsLast, Service!Ended
  <2>3. requests[r].shell \in Shells
    <3>1. requests \in Seq([shell : Shells, kind : Events \cup {"chat", "fix"}])
      BY <1>1, Types
    <3>2. DOMAIN requests = 1 .. Len(requests)
          /\ requests \in [1 .. Len(requests) -> [shell : Shells, kind : Events \cup {"chat", "fix"}]]
      BY <3>1, LenProperties
    <3>3. QED
      BY <1>2, <3>2 DEF Opened
  <2>4. waiting' = [waiting EXCEPT ![requests[r].shell] = 0]
    BY <1>3 DEF Read
  <2>5. Service!Return(requests[r].shell, r)
    BY <1>2, <2>2, <2>4 DEF Service!Return, alive, opened, Opened
  <2>6. QED
    BY <2>3, <2>5 DEF Service!Next
<1>4. CASE Head(socket[r]) # "end"
  BY <1>2, <1>4, StutterService DEF Read
<1>5. QED
  BY <1>3, <1>4

(* What a connection writes is what the service says; it closes a request  *)
(* only with the end, or with nobody waiting.                              *)
LEMMA ConnectionRefines ==
  ASSUME ServiceInv, NEW r \in Ids, Serves(r)
  PROVE  [Service!Next]_(Service!vars)
<1>1. WaitInv /\ IntroInv /\ WaitsForOwn /\ OpenedStarted
  BY DEF ServiceInv
<1>2. UNCHANGED <<shell_mode, waiting, requests>> /\ \A q \in Ids \ {r} : conn'[q] = conn[q]
  BY <1>1, OthersAlone DEF users
<1>3. alive' = alive /\ Opened' = Opened /\ Opened \subseteq Ids /\ r \in Opened
  <2>1. conn[r] # "none"
    BY DEF Serves, Connection, Tool, ReadRequest, SendTask, DropEvent, ReceiveIntro, Spoken,
         ReceiveText, OpenTool,
         CloseTool, RunTool, RefuseTool, EndOfStream, WriteEnd, Goes, Received
  <2>2. ~(r > Len(requests))
    BY <1>1, <2>1 DEF WaitInv
  <2>3. r \in Opened /\ Opened \subseteq Ids
    BY <1>1, <2>2, Types DEF Ids
  <2>4. QED
    BY <1>2, <2>3 DEF alive, Opened
<1>4. transcript[r] \in Seq(Marks) /\ transcript \in [Ids -> Seq(Marks)]
  BY <1>1, Types
<1>5. requests[r].shell \in Shells /\ conn[r] # "ended" /\ r \in opened
  <2>1. requests \in Seq([shell : Shells, kind : Events \cup {"chat", "fix"}])
    BY <1>1, Types
  <2>2. DOMAIN requests = 1 .. Len(requests)
        /\ requests \in [1 .. Len(requests) -> [shell : Shells, kind : Events \cup {"chat", "fix"}]]
    BY <2>1, LenProperties
  <2>3. requests[r].shell \in Shells
    BY <1>3, <2>2 DEF Opened
  <2>4. conn[r] # "ended"
    BY DEF Serves, Connection, Tool, ReadRequest, SendTask, DropEvent, ReceiveIntro, Spoken,
         ReceiveText, OpenTool,
         CloseTool, RunTool, RefuseTool, EndOfStream, WriteEnd, Goes, Received
  <2>5. QED
    BY <1>3, <2>3, <2>4 DEF opened
<1>6. ~Listening(r) => \A s \in Shells : waiting[s] # r
  <2>1. r # 0
    BY DEF Ids
  <2>2. QED
    BY <1>1, <1>3, <2>1 DEF WaitsForOwn, Listening
<1>7. CASE conn'[r] # "ended"
  <2>1. opened' = opened
    BY <1>2, <1>3, <1>5, <1>7 DEF opened
  <2>2. CASE UNCHANGED transcript
    BY <1>2, <1>3, <2>1, <2>2 DEF Service!vars
  <2>3. CASE Write(r, "text")
    <3>1. CASE transcript' = [transcript EXCEPT ![r] = Append(transcript[r], "text")] /\ Listening(r)
      <4>1. Service!Write(requests[r].shell, r)
        BY <1>2, <1>3, <1>5, <2>1, <3>1 DEF Service!Write, Service!Says, Listening
      <4>2. QED
        BY <1>5, <4>1 DEF Service!Next
    <3>2. CASE UNCHANGED transcript
      BY <2>2, <3>2
    <3>3. transcript' = [transcript EXCEPT ![r] = transcript[r]] => UNCHANGED transcript
      BY <1>4
    <3>4. QED
      BY <2>3, <3>1, <3>2, <3>3, Writes DEF Recorded, Marks
  <2>4. CASE Write(r, "speaking") /\ Fresh(r)
    <3>1. CASE transcript' = [transcript EXCEPT ![r] = Append(transcript[r], "speaking")]
               /\ Listening(r)
      <4>1. Service!Announce(requests[r].shell, r)
        BY <1>2, <1>3, <1>5, <2>1, <2>4, <3>1 DEF Service!Announce, Service!Says, Listening, Fresh
      <4>2. QED
        BY <1>5, <4>1 DEF Service!Next
    <3>2. CASE UNCHANGED transcript
      BY <2>2, <3>2
    <3>3. QED
      BY <2>4, <3>1, <3>2, Writes DEF Recorded, Marks
  <2>5. ReceiveIntro(r) => Fresh(r)
    <3>1. ASSUME Received(r, "intro")
          PROVE  Fresh(r)
      <4>1. token_rx[r] \in Seq(Chunks)
        BY <1>1, Types
      <4>2. 1 \in DOMAIN token_rx[r] /\ token_rx[r][1] = "intro"
        BY <3>1, <4>1 DEF Received
      <4>3. QED
        BY <1>1, <4>2 DEF IntroInv, QuietInChannel, Quiet
    <3>2. QED
      BY <3>1 DEF ReceiveIntro
  <2>6. ~WriteEnd(r)
    BY <1>1, <1>7, Types DEF WriteEnd, Goes
  <2>7. QED
    BY <2>2, <2>3, <2>4, <2>5, <2>6
       DEF Serves, Connection, Tool, ReadRequest, SendTask, DropEvent, ReceiveIntro, Spoken,
            ReceiveText, OpenTool,
           CloseTool, RunTool, RefuseTool, EndOfStream, Silent
<1>8. CASE conn'[r] = "ended"
  <2>1. opened' = opened \ {r}
    BY <1>2, <1>3, <1>5, <1>8 DEF opened
  <2>2. CASE ~Listening(r) /\ UNCHANGED transcript
    <3>1. Service!Close(r)
      BY <1>2, <1>3, <1>5, <1>6, <2>1, <2>2 DEF Service!Close
    <3>2. QED
      BY <3>1 DEF Service!Next
  <2>3. CASE Listening(r) /\ transcript' = [transcript EXCEPT ![r] = Recorded(transcript[r], "end")]
    <3>1. Service!Finish(requests[r].shell, r)
      BY <1>2, <1>3, <1>5, <2>1, <2>3 DEF Service!Finish, Service!Says, Listening, Recorded
    <3>2. QED
      BY <1>5, <3>1 DEF Service!Next
  <2>4. WriteEnd(r) \/ (IsEvent(r) /\ UNCHANGED transcript)
    BY <1>1, <1>5, <1>8, Types
       DEF Serves, Connection, Tool, ReadRequest, SendTask, DropEvent, ReceiveIntro, Spoken,
            ReceiveText, OpenTool,
           CloseTool, RunTool, RefuseTool, EndOfStream, Goes, Received
  <2>5. IsEvent(r) => ~Listening(r)
    <3>1. r # 0
      BY DEF Ids
    <3>2. QED
      BY <1>1, <1>5, <3>1 DEF WaitsForOwn, Listening
  <2>6. WriteEnd(r) => Write(r, "end")
    BY DEF WriteEnd
  <2>7. QED
    BY <2>2, <2>3, <2>4, <2>5, <2>6, Writes DEF Marks
<1>9. QED
  BY <1>7, <1>8

LEMMA StepRefines ==
  ASSUME ServiceInv, [Next]_vars
  PROVE  [Service!Next]_(Service!vars)
<1>1. Worker \/ Panic \/ UNCHANGED vars
        => UNCHANGED <<shell_mode, waiting, requests, conn, transcript>>
  BY WorkerAlone DEF vars, users, tasks
<1>2. QED
  BY <1>1, StutterService, ShellRefines, ReadRefines, ConnectionRefines DEF Next, Serves

(* The daemon of main.rs and the clients of ai.c implement ChatService:    *)
(* every step is a step of the service or leaves it as it is.              *)
THEOREM ServiceImplemented == Spec => ServesAsPromised
<1>1. Init => Service!Init
  <2> SUFFICES ASSUME Init PROVE Service!Init
    OBVIOUS
  <2>1. Opened = {} /\ opened = {} /\ alive = Shells
    BY DEF Init, Opened, opened, alive
  <2>2. QED
    BY <2>1 DEF Init, Service!Init
<1>2. ServiceInv /\ [Next]_vars => [Service!Next]_(Service!vars)
  BY StepRefines
<1>3. Init => ServiceInv
  BY ServiceInit
<1>4. ServiceInv /\ [Next]_vars => ServiceInv'
  BY ServiceStep
<1>5. QED
  BY <1>1, <1>2, <1>3, <1>4, PTL DEF Spec, ServesAsPromised, Service!Spec
-----------------------------------------------------------------------------
(* The shape of an answer, once for the service.                           *)

(* Nothing is said of a request before it is made, or after it is over.    *)
ShapeInv ==
  /\ Opened \subseteq Ids /\ opened \subseteq Opened
  /\ transcript \in [Ids -> Seq(Marks)]
  /\ \A r \in Ids : r \notin Opened => transcript[r] = <<>>
  /\ Service!Shape

(* One thing more said of an open request keeps its shape.                 *)
LEMMA SaysShape ==
  ASSUME ShapeInv, NEW s \in Shells, NEW r \in Ids, NEW mark \in Marks, Service!Says(s, r, mark),
         mark = "speaking" => transcript[r] = <<>>,
         opened' = (IF mark = "end" THEN opened \ {r} ELSE opened)
  PROVE  ShapeInv'
<1>1. transcript' = [transcript EXCEPT ![r] = Append(transcript[r], mark)]
      /\ Opened' = Opened /\ r \in opened
  BY DEF Service!Says
<1>2. transcript[r] \in Seq(Marks) /\ transcript' \in [Ids -> Seq(Marks)]
  BY <1>1 DEF ShapeInv
<1>3. \A i \in DOMAIN transcript[r] : transcript[r][i] # "end"
  BY <1>1 DEF ShapeInv, Service!Shape
<1>4. ASSUME NEW i \in DOMAIN Append(transcript[r], mark)
      PROVE  LET marks == Append(transcript[r], mark) IN
             /\ marks[i] = "speaking" => i = 1
             /\ marks[i] = "end" => i = Len(marks) /\ r \notin opened'
  <2>1. CASE i \in DOMAIN transcript[r]
    BY <1>2, <1>3, <2>1 DEF ShapeInv, Service!Shape
  <2>2. CASE i = Len(transcript[r]) + 1
    BY <1>2, <2>2
  <2>3. QED
    BY <1>2, <2>1, <2>2
<1>5. Service!Shape'
  <2>1. ASSUME NEW q \in Ids \ {r}, NEW i \in DOMAIN transcript'[q]
        PROVE  /\ transcript'[q][i] = "speaking" => i = 1
               /\ transcript'[q][i] = "end" => i = Len(transcript'[q]) /\ q \notin opened'
    BY <1>1, <2>1 DEF ShapeInv, Service!Shape
  <2>2. transcript'[r] = Append(transcript[r], mark)
    BY <1>1 DEF ShapeInv
  <2>3. QED
    BY <1>4, <2>1, <2>2 DEF Service!Shape
<1>6. QED
  BY <1>1, <1>2, <1>5 DEF ShapeInv

LEMMA ShapeStep ==
  ASSUME ShapeInv, [Service!Next]_(Service!vars), (Opened \subseteq Ids)'
  PROVE  ShapeInv'
<1>1. CASE UNCHANGED transcript /\ opened' \subseteq opened /\ Opened' = Opened
  BY <1>1 DEF ShapeInv, Service!Shape
<1>2. ASSUME NEW s \in Shells, NEW r \in Ids, Service!Request(s, r)
      PROVE  ShapeInv'
  <2>1. r \notin Opened /\ Opened' = Opened \cup {r} /\ opened' = opened \cup {r}
        /\ UNCHANGED transcript
    BY <1>2 DEF Service!Request
  <2>2. transcript[r] = <<>>
    BY <2>1 DEF ShapeInv
  <2>3. QED
    BY <2>1, <2>2 DEF ShapeInv, Service!Shape
<1>3. ASSUME NEW s \in Shells, NEW r \in Ids,
             Service!Announce(s, r) \/ Service!Write(s, r) \/ Service!Finish(s, r)
      PROVE  ShapeInv'
  BY <1>3, SaysShape DEF Service!Announce, Service!Write, Service!Finish, Marks
<1>4. QED
  BY <1>1, <1>2, <1>3 DEF Service!Next, Service!vars, Service!Ask, Service!Tell, Service!Die,
       Service!HangUp, Service!Return, Service!Close

(* The intro of an answer comes before its text, its end mark at the end,  *)
(* once: what ai.c's loops rely on when they look for __SPEAKING__ and     *)
(* __END__.                                                                *)
THEOREM AnswerShapeCorrect == Spec => []AnswerShape
<1>1. Init => ServiceInv /\ ShapeInv
  <2> SUFFICES ASSUME Init PROVE ServiceInv /\ ShapeInv
    OBVIOUS
  <2>1. ServiceInv
    BY ServiceInit
  <2>2. Opened = {} /\ opened = {} /\ transcript = [r \in Ids |-> <<>>]
    BY DEF Init, Opened, opened
  <2>3. QED
    BY <2>1, <2>2 DEF ShapeInv, Service!Shape
<1>2. ServiceInv /\ ShapeInv /\ [Next]_vars => ServiceInv' /\ ShapeInv'
  <2> SUFFICES ASSUME ServiceInv, ShapeInv, [Next]_vars PROVE ServiceInv' /\ ShapeInv'
    OBVIOUS
  <2>1. ServiceInv'
    BY ServiceStep
  <2>2. (Opened \subseteq Ids)'
    <3>1. WaitInv'
      BY <2>1 DEF ServiceInv
    <3>2. requests' \in Seq([shell : Shells, kind : Events \cup {"chat", "fix"}])
          /\ Len(requests') <= MaxRequests
      BY <3>1 DEF WaitInv, TypeInv, TypeOK
    <3>3. QED
      BY <3>2, OrchestratorAssumption DEF Opened, Ids
  <2>3. [Service!Next]_(Service!vars)
    BY StepRefines
  <2>4. QED
    BY <2>1, <2>2, <2>3, ShapeStep
<1>3. ServiceInv /\ ShapeInv => AnswerShape
  <2> SUFFICES ASSUME ServiceInv, ShapeInv, NEW r \in Ids, NEW i \in DOMAIN transcript[r],
                      transcript[r][i] = "end"
               PROVE  conn[r] = "ended"
    BY DEF AnswerShape, ShapeInv, Service!Shape
  <2>1. r \in Opened
    BY DEF ShapeInv
  <2>2. QED
    BY <2>1 DEF ShapeInv, Service!Shape, opened
<1>4. QED
  BY <1>1, <1>2, <1>3, PTL DEF Spec
-----------------------------------------------------------------------------
(* The worker knows who is in chat mode: although every event travels over *)
(* a connection of its own, the last word of a shell is the one that       *)
(* counts, once it has arrived.                                            *)
EventsOf(s) == {r \in Opened : requests[r].shell = s /\ IsEvent(r)}

(* A connection with an event reads it, sends it and ends.                 *)
EventStages == \A r \in Opened : IsEvent(r) => conn[r] \in {"reading", "sending", "ended"}

(* The last event of a shell is what it told last.                         *)
ToldLast ==
  \A s \in Shells :
    \/ EventsOf(s) = {} /\ told[s] = "exit"
    \/ \E r \in EventsOf(s) : told[s] = requests[r].kind /\ \A q \in EventsOf(s) : q <= r

(* Events that are sent in order end in order.                             *)
Ordered ==
  \A s \in Shells : \A q, r \in EventsOf(s) :
    q < r /\ conn[r] # "reading" => conn[q] = "ended"

(* What the worker will know of a shell once it has emptied the queue.     *)
Of(s) == {i \in DOMAIN task_rx : task_rx[i].req \in EventsOf(s)}
Says(s) ==
  \/ \E i \in Of(s) : requests[task_rx[i].req].kind = told[s] /\ \A j \in Of(s) : j <= i
  \/ Of(s) = {} /\ (s \in active_chat_shells <=> told[s] = "enter")

Heard ==
  worker # Dead =>
    \A s \in Shells : (\A r \in EventsOf(s) : conn[r] = "ended") => Says(s)

EventsInv == EventStages /\ ToldLast /\ Ordered /\ Heard
-----------------------------------------------------------------------------
(* A step that leaves the events, their queue and what is known alone.     *)
LEMMA EventsAlone ==
  ASSUME EventsInv, UNCHANGED <<requests, conn, told, task_rx, active_chat_shells>>,
         worker' # Dead => worker # Dead
  PROVE  EventsInv'
<1>1. \A s : EventsOf(s)' = EventsOf(s) /\ Of(s)' = Of(s) /\ Says(s)' = Says(s)
  BY DEF EventsOf, Of, Says, IsEvent, Opened
<1>2. QED
  BY <1>1 DEF EventsInv, EventStages, ToldLast, Ordered, Heard, IsEvent, Opened

LEMMA EventsInit == Init => EventsInv
<1>1. SUFFICES ASSUME Init PROVE EventsInv
  OBVIOUS
<1>2. Opened = {} /\ DOMAIN task_rx = {}
  BY <1>1 DEF Init, Opened
<1>3. \A s : EventsOf(s) = {} /\ Of(s) = {}
  BY <1>2 DEF EventsOf, Of
<1>4. QED
  BY <1>1, <1>2, <1>3 DEF Init, EventsInv, EventStages, ToldLast, Ordered, Heard, Says

(* A connection starts: an event of its shell is its last word and on its  *)
(* way; everything else stays what it was.                                 *)
LEMMA EventsConnect ==
  ASSUME ServiceInv, EventsInv, NEW s \in Shells, NEW kind \in Events \cup {"chat", "fix"},
         Connect(s, kind), UNCHANGED <<task_rx, worker, active_chat_shells>>,
         told' = IF kind \in Events THEN [told EXCEPT ![s] = kind] ELSE told
  PROVE  EventsInv'
<1> DEFINE new == Len(requests) + 1
<1>1. /\ new \in Ids /\ new \notin Opened /\ Opened' = Opened \cup {new}
      /\ \A q \in Opened : requests'[q] = requests[q]
      /\ requests'[new] = [shell |-> s, kind |-> kind]
      /\ conn'[new] = "reading"
      /\ \A q \in Ids \ {new} : conn'[q] = conn[q]
  BY Connected
<1>2. /\ WaitInv /\ Opened = 1 .. Len(requests) /\ Len(requests) \in Nat /\ Opened \subseteq Ids
      /\ told \in [Shells -> Events] /\ new \in Nat
  BY Types DEF ServiceInv, TypeOK
<1>3. \A i \in DOMAIN task_rx : task_rx[i].req \in Opened
  BY <1>2, TaskOpened DEF ServiceInv, IntroInv
<1> HIDE DEF new
<1>4. \A q \in Opened : q < new
  BY <1>2 DEF new
<1>5. \A q \in Opened : conn'[q] = conn[q] /\ IsEvent(q)' = IsEvent(q)
  BY <1>1, <1>2 DEF IsEvent
<1>6. requests'[new].shell = s /\ (requests'[new].kind \in Events <=> kind \in Events)
  BY <1>1
<1>7. \A u : EventsOf(u)' = IF u = s /\ kind \in Events THEN EventsOf(u) \cup {new} ELSE EventsOf(u)
  <2>1. ASSUME NEW u, NEW q
        PROVE  q \in EventsOf(u)' <=> q \in EventsOf(u) \/ (q = new /\ u = s /\ kind \in Events)
    <3>1. q \in EventsOf(u)' <=> q \in Opened' /\ requests'[q].shell = u /\ requests'[q].kind \in Events
      BY DEF EventsOf, IsEvent, Events
    <3>2. q \in EventsOf(u) <=> q \in Opened /\ requests[q].shell = u /\ requests[q].kind \in Events
      BY DEF EventsOf, IsEvent
    <3>3. QED
      BY <1>1, <1>6, <3>1, <3>2
  <2>2. QED
    BY <2>1
<1>8. \A u : Of(u)' = Of(u)
  BY <1>1, <1>3, <1>7 DEF Of
<1>9. EventStages'
  BY <1>1, <1>5 DEF EventsInv, EventStages
<1>10. \A u : EventsOf(u) \subseteq Opened
  BY DEF EventsOf
<1>11. ToldLast'
  <2>1. SUFFICES ASSUME NEW u \in Shells
                 PROVE  \/ EventsOf(u)' = {} /\ told'[u] = "exit"
                        \/ \E r \in EventsOf(u)' : /\ told'[u] = requests'[r].kind
                                                   /\ \A q \in EventsOf(u)' : q <= r
    BY DEF ToldLast
  <2>2. CASE u = s /\ kind \in Events
    <3>1. told'[u] = kind /\ requests'[new].kind = kind
      BY <1>1, <1>2, <2>2
    <3>2. \A q \in EventsOf(u)' : q <= new
      BY <1>2, <1>4, <1>7, <1>10
    <3>3. new \in EventsOf(u)'
      BY <1>7, <2>2
    <3>4. QED
      BY <3>1, <3>2, <3>3
  <2>3. CASE ~(u = s /\ kind \in Events)
    <3>1. told'[u] = told[u] /\ EventsOf(u)' = EventsOf(u)
      BY <1>2, <1>7, <2>3
    <3>2. \A r \in EventsOf(u) : requests'[r] = requests[r]
      BY <1>1, <1>10
    <3>3. QED
      BY <3>1, <3>2 DEF EventsInv, ToldLast
  <2>4. QED
    BY <2>2, <2>3
<1>12. Ordered'
  <2>1. SUFFICES ASSUME NEW u \in Shells, NEW q \in EventsOf(u)', NEW r \in EventsOf(u)',
                        q < r, conn'[r] # "reading"
                 PROVE  conn'[q] = "ended"
    BY DEF Ordered
  <2>2. r \in EventsOf(u) /\ r \in Opened
    BY <1>1, <1>7, <1>10, <2>1
  <2>3. q # new
    <3>1. r < new /\ r \in Nat
      BY <1>2, <1>4, <2>2
    <3>2. QED
      BY <1>2, <2>1, <3>1
  <2>4. q \in EventsOf(u) /\ q \in Opened
    BY <1>7, <1>10, <2>1, <2>3
  <2>5. QED
    BY <1>5, <2>1, <2>2, <2>4 DEF EventsInv, Ordered
<1>13. Heard'
  <2>1. SUFFICES ASSUME worker # Dead, NEW u \in Shells, \A r \in EventsOf(u)' : conn'[r] = "ended"
                 PROVE  Says(u)'
    BY DEF Heard
  <2>2. ~(u = s /\ kind \in Events)
    BY <1>1, <1>7, <2>1
  <2>3. told'[u] = told[u] /\ EventsOf(u)' = EventsOf(u)
    BY <1>2, <1>7, <2>2
  <2>4. Says(u)
    BY <1>5, <1>10, <2>1, <2>3 DEF EventsInv, Heard
  <2>5. \A i \in Of(u) : requests'[task_rx[i].req] = requests[task_rx[i].req]
    BY <1>1, <1>3 DEF Of
  <2>6. QED
    BY <1>8, <2>3, <2>4, <2>5 DEF Says
<1>14. QED
  BY <1>9, <1>11, <1>12, <1>13 DEF EventsInv

LEMMA EventsShell ==
  ASSUME ServiceInv, EventsInv, NEW s \in Shells, Shell(s)
  PROVE  EventsInv'
<1>1. CASE (\E mode \in Modes : SwitchMode(s, mode)) \/ KillShell(s) \/ Interrupt(s)
  <2>1. UNCHANGED <<requests, conn, told, task_rx, active_chat_shells, worker>>
    BY <1>1 DEF SwitchMode, KillShell, Interrupt, tasks, thread
  <2>2. QED
    BY <2>1, EventsAlone
<1>2. CASE ShowMode(s) \/ ExitShell(s)
  <2>1. PICK kind \in Events : Notify(s, kind)
    BY <1>2 DEF ShowMode, ExitShell, Events
  <2>2. QED
    BY <2>1, EventsConnect DEF Notify, thread
<1>3. CASE Ask(s)
  <2>1. PICK kind \in {"chat", "fix"} : Connect(s, kind)
    BY <1>3 DEF Ask
  <2>2. UNCHANGED <<told, task_rx, worker, active_chat_shells>> /\ kind \notin Events
    BY <1>3, <2>1 DEF Ask, thread, Events
  <2>3. QED
    BY <2>1, <2>2, EventsConnect
<1>4. QED
  BY <1>1, <1>2, <1>3 DEF Shell
-----------------------------------------------------------------------------
(* The connections.                                                        *)

(* A step of connection r changes the stage of no other.                   *)
LEMMA OneStage ==
  ASSUME ServiceInv, NEW r \in Ids, Serves(r)
  PROVE  /\ UNCHANGED <<requests, told, active_chat_shells, worker>>
         /\ \A q \in Ids \ {r} : conn'[q] = conn[q]
<1>1. conn \in [Ids -> {"none", "reading", "sending", "receiving", "sleeping",
                        "tool", "ending", "ended"}]
  BY Types DEF ServiceInv
<1>2. UNCHANGED <<requests, told, active_chat_shells, worker>>
  BY DEF Serves, Connection, Tool, ReadRequest, SendTask, DropEvent, ReceiveIntro, Spoken,
       ReceiveText, OpenTool,
     CloseTool, RunTool, RefuseTool, EndOfStream, WriteEnd, Kept, users, thread
<1>3. UNCHANGED conn \/ \E stage : conn' = [conn EXCEPT ![r] = stage]
  BY DEF Serves, Connection, Tool, ReadRequest, SendTask, DropEvent, ReceiveIntro, Spoken,
       ReceiveText, OpenTool,
     CloseTool, RunTool, RefuseTool, EndOfStream, WriteEnd, Goes
<1>4. QED
  BY <1>1, <1>2, <1>3

(* The task of an event does three things.                                 *)
LEMMA EventMoves ==
  ASSUME ServiceInv, EventsInv, NEW r \in Ids, Serves(r), r \in Opened, IsEvent(r)
  PROVE  ReadRequest(r) \/ SendTask(r) \/ DropEvent(r)
         \/ UNCHANGED <<conn, task_rx>>
<1>1. conn[r] \in {"reading", "sending", "ended"}
  BY DEF EventsInv, EventStages
<1>2. QED
  BY <1>1 DEF Serves, Connection, Tool, ReceiveIntro, Spoken, ReceiveText, OpenTool, CloseTool,
       RunTool,
     RefuseTool, EndOfStream, WriteEnd, Goes, Received

LEMMA EventsQuestion ==
  ASSUME ServiceInv, EventsInv, NEW r \in Ids, Serves(r), ~(r \in Opened /\ IsEvent(r))
  PROVE  EventsInv'
<1>1. /\ UNCHANGED <<requests, told, active_chat_shells, worker>>
      /\ \A q \in Ids \ {r} : conn'[q] = conn[q]
  BY OneStage
<1>2. Opened \subseteq Ids
  BY Types DEF ServiceInv
<1>3. \A u : EventsOf(u)' = EventsOf(u) /\ r \notin EventsOf(u) /\ EventsOf(u) \subseteq Ids
  BY <1>1, <1>2 DEF EventsOf, IsEvent, Opened
<1>4. \A u : \A q \in EventsOf(u) : conn'[q] = conn[q]
  BY <1>1, <1>3
<1>5. /\ \A u : Of(u)' = Of(u)
      /\ \A u : \A i \in Of(u) : task_rx'[i] = task_rx[i]
  <2>1. CASE UNCHANGED task_rx
    BY <1>3, <2>1 DEF Of
  <2>2. CASE SendTask(r)
    <3>1. /\ task_rx \in Seq([req : Ids, round : 1 .. MaxRounds])
          /\ round[r] \in 1 .. MaxRounds
      BY Types DEF ServiceInv
    <3> DEFINE task == [req |-> r, round |-> round[r]]
    <3>2. task \in [req : Ids, round : 1 .. MaxRounds] /\ task_rx' = Append(task_rx, task)
      BY <2>2, <3>1 DEF SendTask
    <3>3. /\ DOMAIN task_rx = 1 .. Len(task_rx) /\ Len(task_rx) \in Nat
          /\ DOMAIN task_rx' = 1 .. Len(task_rx) + 1
          /\ \A i \in 1 .. Len(task_rx) : task_rx'[i] = task_rx[i]
          /\ task_rx'[Len(task_rx) + 1].req = r
      BY <3>1, <3>2, AppendProperties, LenProperties
    <3>4. \A i \in DOMAIN task_rx' : i \in DOMAIN task_rx \/ i = Len(task_rx) + 1
      BY <3>3
    <3>5. DOMAIN task_rx \subseteq DOMAIN task_rx'
      BY <3>3
    <3>6. QED
      BY <1>3, <3>3, <3>4, <3>5 DEF Of
  <2>3. QED
    BY <2>1, <2>2 DEF Serves, Connection, Tool, ReadRequest, DropEvent, ReceiveIntro, Spoken,
         ReceiveText,
       OpenTool, CloseTool, RunTool, RefuseTool, EndOfStream, WriteEnd, Kept
<1>6. \A u : Says(u)' = Says(u)
  BY <1>1, <1>5 DEF Says
<1>7. EventStages'
  <2>1. \A q \in Opened : q # r \/ ~IsEvent(q)
    OBVIOUS
  <2>2. QED
    BY <1>1, <1>2, <2>1 DEF EventsInv, EventStages, IsEvent, Opened
<1>8. ToldLast'
  BY <1>1, <1>3 DEF EventsInv, ToldLast
<1>9. Ordered'
  BY <1>3, <1>4 DEF EventsInv, Ordered
<1>10. Heard'
  BY <1>1, <1>3, <1>4, <1>6 DEF EventsInv, Heard
<1>11. QED
  BY <1>7, <1>8, <1>9, <1>10 DEF EventsInv

(* An event that is read and sent in order is the last its shell has on    *)
(* the way when none is left.                                              *)
LEMMA EventsEvent ==
  ASSUME InOrder, ServiceInv, EventsInv, NEW r \in Ids, Serves(r), r \in Opened, IsEvent(r)
  PROVE  EventsInv'
<1>1. /\ UNCHANGED <<requests, told, active_chat_shells, worker>>
      /\ \A q \in Ids \ {r} : conn'[q] = conn[q]
  BY OneStage
<1>2. /\ Opened = 1 .. Len(requests) /\ Len(requests) \in Nat /\ Opened \subseteq Ids
      /\ conn \in [Ids -> {"none", "reading", "sending", "receiving", "sleeping",
                           "tool", "ending", "ended"}]
  BY Types DEF ServiceInv
<1>3. \A u : EventsOf(u)' = EventsOf(u) /\ EventsOf(u) \subseteq Ids
  BY <1>1, <1>2 DEF EventsOf, IsEvent, Opened
<1>4. CASE UNCHANGED <<conn, task_rx>>
  BY <1>1, <1>4, EventsAlone
<1>5. CASE ReadRequest(r)
  <2>1. conn[r] = "reading" /\ conn'[r] = "sending" /\ UNCHANGED task_rx
    BY <1>2, <1>5 DEF ReadRequest, Goes
  <2>2. \A q \in 1 .. r - 1 :
          (requests[q].shell = requests[r].shell /\ IsEvent(q)) => conn[q] = "ended"
    BY <1>5 DEF ReadRequest
  <2>3. EventStages'
    BY <1>1, <1>2, <2>1 DEF EventsInv, EventStages, IsEvent, Opened
  <2>4. ToldLast'
    BY <1>1, <1>3 DEF EventsInv, ToldLast
  <2>5. Ordered'
    <3>1. SUFFICES ASSUME NEW u \in Shells, NEW q \in EventsOf(u), NEW p \in EventsOf(u),
                          q < p, conn'[p] # "reading"
                   PROVE  conn'[q] = "ended"
      BY <1>3 DEF Ordered
    <3>2. q \in Ids /\ p \in Ids
      BY <1>3
    <3>3. CASE p = r
      <4>1. q \in 1 .. r - 1 /\ requests[q].shell = requests[r].shell /\ IsEvent(q) /\ q # r
        BY <1>2, <3>1, <3>2, <3>3 DEF EventsOf, Ids
      <4>2. QED
        BY <1>1, <2>2, <3>2, <4>1
    <3>4. CASE p # r
      <4>1. conn[q] = "ended"
        BY <1>1, <3>1, <3>2, <3>4 DEF EventsInv, Ordered
      <4>2. QED
        BY <1>1, <2>1, <3>2, <4>1
    <3>5. QED
      BY <3>3, <3>4
  <2>6. Heard'
    <3>1. SUFFICES ASSUME worker # Dead, NEW u \in Shells, \A q \in EventsOf(u) : conn'[q] = "ended"
                   PROVE  Says(u)'
      BY <1>1, <1>3 DEF Heard
    <3>2. r \notin EventsOf(u)
      BY <2>1, <3>1
    <3>3. \A q \in EventsOf(u) : conn[q] = "ended"
      BY <1>1, <1>3, <3>1, <3>2
    <3>4. Says(u)
      BY <3>1, <3>3 DEF EventsInv, Heard
    <3>5. QED
      BY <1>1, <1>3, <2>1, <3>4 DEF Says, Of
  <2>7. QED
    BY <2>3, <2>4, <2>5, <2>6 DEF EventsInv
<1>6. CASE SendTask(r) \/ DropEvent(r)
  <2>1. conn[r] = "sending" /\ conn'[r] = "ended"
    BY <1>2, <1>6 DEF SendTask, DropEvent, Goes
  <2>2. EventStages'
    BY <1>1, <1>2, <2>1 DEF EventsInv, EventStages, IsEvent, Opened
  <2>3. ToldLast'
    BY <1>1, <1>3 DEF EventsInv, ToldLast
  <2>4. Ordered'
    <3>1. SUFFICES ASSUME NEW u \in Shells, NEW q \in EventsOf(u), NEW p \in EventsOf(u),
                          q < p, conn'[p] # "reading"
                   PROVE  conn'[q] = "ended"
      BY <1>3 DEF Ordered
    <3>2. conn[p] # "reading"
      BY <1>1, <1>3, <2>1, <3>1
    <3>3. conn[q] = "ended"
      BY <3>1, <3>2 DEF EventsInv, Ordered
    <3>4. QED
      BY <1>1, <1>3, <2>1, <3>3
  <2>5. Heard'
    <3>1. CASE DropEvent(r)
      BY <1>1, <3>1 DEF DropEvent, Heard
    <3>2. CASE SendTask(r)
      <4> DEFINE task == [req |-> r, round |-> round[r]]
                 n == Len(task_rx)
      <4>1. task_rx \in Seq([req : Ids, round : 1 .. MaxRounds]) /\ round[r] \in 1 .. MaxRounds
        BY Types DEF ServiceInv
      <4>2. task \in [req : Ids, round : 1 .. MaxRounds] /\ task_rx' = Append(task_rx, task)
        BY <3>2, <4>1 DEF SendTask
      <4>3. /\ DOMAIN task_rx = 1 .. n /\ n \in Nat /\ DOMAIN task_rx' = 1 .. n + 1
            /\ \A i \in 1 .. n : task_rx'[i] = task_rx[i]
            /\ task_rx'[n + 1].req = r
        BY <4>1, <4>2, AppendProperties, LenProperties
      <4> HIDE DEF n
      <4>4. SUFFICES ASSUME worker # Dead, NEW u \in Shells,
                            \A q \in EventsOf(u) : conn'[q] = "ended"
                     PROVE  Says(u)'
        BY <1>1, <1>3 DEF Heard
      <4>5. CASE r \in EventsOf(u)
        <5>1. told[u] = requests[r].kind
          <6>1. PICK last \in EventsOf(u) : told[u] = requests[last].kind /\ \A q \in EventsOf(u) : q <= last
            BY <4>5 DEF EventsInv, ToldLast
          <6>2. last = r
            <7>1. SUFFICES ASSUME last # r PROVE FALSE
              OBVIOUS
            <7>2. last \in Ids /\ conn[last] = "ended"
              BY <1>1, <1>3, <4>4, <6>1, <7>1
            <7>3. r < last
              BY <1>3, <4>5, <6>1, <7>1, <7>2 DEF Ids
            <7>4. QED
              BY <2>1, <4>5, <6>1, <7>2, <7>3 DEF EventsInv, Ordered
          <6>3. QED
            BY <6>1, <6>2
        <5>2. n + 1 \in Of(u)'
          BY <1>3, <4>3, <4>5 DEF Of
        <5>3. \A j \in Of(u)' : j <= n + 1
          BY <4>3 DEF Of
        <5>4. QED
          BY <1>1, <4>3, <5>1, <5>2, <5>3 DEF Says
      <4>6. CASE r \notin EventsOf(u)
        <5>1. \A q \in EventsOf(u) : conn[q] = "ended"
          BY <1>1, <1>3, <4>4, <4>6
        <5>2. Says(u)
          BY <4>4, <5>1 DEF EventsInv, Heard
        <5>3. Of(u)' = Of(u)
          <6>1. \A i \in 1 .. n + 1 : i \in 1 .. n \/ i = n + 1
            BY <4>3
          <6>2. 1 .. n \subseteq 1 .. n + 1
            BY <4>3
          <6>3. QED
            BY <1>3, <4>3, <4>6, <6>1, <6>2 DEF Of
        <5>4. \A i \in Of(u) : task_rx'[i] = task_rx[i]
          BY <4>3 DEF Of
        <5>5. QED
          BY <1>1, <5>2, <5>3, <5>4 DEF Says
      <4>7. QED
        BY <4>5, <4>6
    <3>3. QED
      BY <1>6, <3>1, <3>2
  <2>6. QED
    BY <2>2, <2>3, <2>4, <2>5 DEF EventsInv
<1>7. QED
  BY <1>4, <1>5, <1>6, EventMoves
-----------------------------------------------------------------------------
(* The worker.                                                             *)

(* It takes the first task: whoever still has an event in the queue keeps  *)
(* it last, and whoever has none left is what the taken one says.          *)
LEMMA EventsTaken ==
  ASSUME ServiceInv, EventsInv, NEW task, TakesTask(task),
         \A u \in Shells : u \in active_chat_shells' <=>
            IF task.req \in EventsOf(u) THEN requests[task.req].kind = "enter"
            ELSE u \in active_chat_shells
  PROVE  EventsInv'
<1>1. /\ 1 \in DOMAIN task_rx /\ task = task_rx[1]
      /\ \A i \in DOMAIN task_rx' : i + 1 \in DOMAIN task_rx /\ task_rx'[i] = task_rx[i + 1]
                                    /\ i \in Nat \ {0}
      /\ UNCHANGED <<requests, conn, told>>
  BY Taken DEF TakesTask, users
<1>2. \A i \in DOMAIN task_rx : i \in Nat /\ (i = 1 \/ i - 1 \in DOMAIN task_rx')
  <2>1. task_rx \in Seq([req : Ids, round : 1 .. MaxRounds]) /\ task_rx' = Tail(task_rx)
        /\ task_rx # <<>>
    BY Types DEF ServiceInv, TakesTask
  <2>2. /\ DOMAIN task_rx = 1 .. Len(task_rx) /\ Len(task_rx) \in Nat
        /\ DOMAIN task_rx' = 1 .. Len(task_rx) - 1
    BY <2>1, HeadTailProperties, LenProperties
  <2>3. QED
    BY <2>2
<1>3. \A u : EventsOf(u)' = EventsOf(u)
  BY <1>1 DEF EventsOf, IsEvent, Opened
<1>4. EventStages' /\ ToldLast' /\ Ordered'
  BY <1>1, <1>3 DEF EventsInv, EventStages, ToldLast, Ordered, IsEvent, Opened
<1>5. Heard'
  <2>1. SUFFICES ASSUME NEW u \in Shells, \A q \in EventsOf(u) : conn[q] = "ended"
                 PROVE  Says(u)'
    BY <1>1, <1>3 DEF Heard
  <2>2. worker # Dead
    BY DEF TakesTask, Idle, Dead
  <2>3. Says(u)
    BY <2>1, <2>2 DEF EventsInv, Heard
  <2>4. \A i : i \in Of(u)' <=> i \in DOMAIN task_rx' /\ i + 1 \in Of(u)
    BY <1>1, <1>3 DEF Of
  <2>5. CASE Of(u) = {}
    <3>1. Of(u)' = {}
      BY <2>4, <2>5
    <3>2. task.req \notin EventsOf(u)
      BY <1>1, <2>5 DEF Of
    <3>3. QED
      BY <1>1, <2>3, <2>5, <3>1, <3>2 DEF Says
  <2>6. CASE Of(u) # {}
    <3>1. PICK i \in Of(u) : requests[task_rx[i].req].kind = told[u] /\ \A j \in Of(u) : j <= i
      BY <2>3, <2>6 DEF Says
    <3>2. i \in DOMAIN task_rx /\ task_rx[i].req \in EventsOf(u)
      BY DEF Of
    <3>3. CASE i = 1
      <4>1. Of(u)' = {}
        BY <1>1, <2>4, <3>1, <3>3
      <4>2. u \in active_chat_shells' <=> told[u] = "enter"
        BY <1>1, <3>1, <3>2, <3>3
      <4>3. QED
        BY <1>1, <4>1, <4>2 DEF Says
    <3>4. CASE i # 1
      <4>1. i - 1 \in DOMAIN task_rx' /\ i - 1 + 1 = i /\ i \in Nat
        BY <1>2, <3>2, <3>4
      <4>2. i - 1 \in Of(u)' /\ task_rx'[i - 1] = task_rx[i]
        BY <1>1, <2>4, <4>1
      <4>3. \A j \in Of(u)' : j <= i - 1
        BY <1>1, <2>4, <3>1, <4>1
      <4>4. QED
        BY <1>1, <3>1, <4>2, <4>3 DEF Says
    <3>5. QED
      BY <3>3, <3>4
  <2>7. QED
    BY <2>5, <2>6
<1>6. QED
  BY <1>4, <1>5 DEF EventsInv

LEMMA EventsWorker ==
  ASSUME ServiceInv, EventsInv, Worker
  PROVE  EventsInv'
<1>1. CASE ChatModeEnter
  <2>1. PICK task \in [req : Opened, round : {1}] :
          /\ TakesTask(task) /\ requests[task.req].kind = "enter"
          /\ active_chat_shells' = active_chat_shells \cup {requests[task.req].shell}
    BY <1>1 DEF ChatModeEnter
  <2>2. task.req \in Opened
    OBVIOUS
  <2>3. \A u : task.req \in EventsOf(u) <=> u = requests[task.req].shell
    BY <2>1, <2>2 DEF EventsOf, IsEvent, Events
  <2>4. QED
    BY <2>1, <2>3, EventsTaken
<1>2. CASE ChatModeExit
  <2>1. PICK task \in [req : Opened, round : {1}] :
          /\ TakesTask(task) /\ requests[task.req].kind = "exit"
          /\ active_chat_shells' = active_chat_shells \ {requests[task.req].shell}
    BY <1>2 DEF ChatModeExit, Without
  <2>2. task.req \in Opened
    OBVIOUS
  <2>3. \A u : task.req \in EventsOf(u) <=> u = requests[task.req].shell
    BY <2>1, <2>2 DEF EventsOf, IsEvent, Events
  <2>4. QED
    BY <2>1, <2>3, EventsTaken
<1>3. CASE DualPass
  <2>1. PICK task \in [req : Opened, round : 1 .. MaxRounds] :
          TakesTask(task) /\ ~IsEvent(task.req) /\ UNCHANGED active_chat_shells
    BY <1>3 DEF DualPass, thread
  <2>2. \A u : task.req \notin EventsOf(u)
    BY <2>1 DEF EventsOf
  <2>3. QED
    BY <2>1, <2>2, EventsTaken
<1>4. CASE WriteIntro \/ LoadModel \/ Generate \/ SendChunk \/ SendFails \/ FinishTask
  <2>1. UNCHANGED <<requests, conn, told, task_rx, active_chat_shells>>
    BY <1>4 DEF WriteIntro, LoadModel, Generate, SendChunk, SendFails, FinishTask, Unseen, users,
       tasks, thread
  <2>2. worker.phase \in {"intro", "load", "text"} \/ worker.chunk # "none"
    <3>1. CASE WriteIntro
      BY <3>1 DEF WriteIntro
    <3>2. CASE LoadModel
      BY <3>2 DEF LoadModel
    <3>3. CASE Generate
      BY <3>3 DEF Generate
    <3>4. CASE SendChunk
      BY <3>4 DEF SendChunk, Sending
    <3>5. CASE SendFails
      BY <3>5 DEF SendFails, Sending
    <3>6. CASE FinishTask
      BY <3>6 DEF FinishTask
    <3>7. QED
      BY <1>4, <3>1, <3>2, <3>3, <3>4, <3>5, <3>6
  <2>3. worker # Dead
    BY <2>2 DEF Dead
  <2>4. QED
    BY <2>1, <2>3, EventsAlone
<1>5. QED
  BY <1>1, <1>2, <1>3, <1>4 DEF Worker

LEMMA EventsPanic ==
  ASSUME EventsInv, Panic
  PROVE  EventsInv'
<1>1. UNCHANGED <<requests, conn, told>> /\ worker' = Dead
  BY DEF Panic, users, tasks
<1>2. \A u : EventsOf(u)' = EventsOf(u)
  BY <1>1 DEF EventsOf, IsEvent, Opened
<1>3. QED
  BY <1>1, <1>2 DEF EventsInv, EventStages, ToldLast, Ordered, Heard, IsEvent, Opened, Dead

LEMMA EventsStep ==
  ASSUME InOrder, ServiceInv, EventsInv, [Next]_vars
  PROVE  EventsInv'
<1>1. CASE UNCHANGED vars \/ \E r \in Ids : Read(r)
  <2>1. UNCHANGED <<requests, conn, told, task_rx, active_chat_shells, worker>>
    BY <1>1 DEF vars, Read, users, tasks, thread
  <2>2. QED
    BY <2>1, EventsAlone
<1>2. QED
  BY <1>1, EventsShell, EventsQuestion, EventsEvent, EventsWorker, EventsPanic DEF Next, Serves

(* When the events of a shell are sent in order, whatever else the worker  *)
(* does between them, it ends up with the shells that said last that they  *)
(* entered chat mode (main.rs, ChatModeEnter and ChatModeExit).            *)
THEOREM ChatShellsCorrect ==
  ASSUME InOrder
  PROVE  Spec => []ChatShellsKnown
<1>1. ServiceInv /\ EventsInv => ChatShellsKnown
  <2>1. SUFFICES ASSUME ServiceInv, EventsInv, Settled
                 PROVE  active_chat_shells = {s \in Shells : told[s] = "enter"}
    BY DEF ChatShellsKnown
  <2>2. \A s : Of(s) = {}
    BY <2>1 DEF Settled, Of
  <2>3. \A s \in Shells : Says(s)
    BY <2>1 DEF Settled, EventsInv, Heard, EventsOf
  <2>4. active_chat_shells \subseteq Shells
    BY <2>1, Types DEF ServiceInv, TypeOK
  <2>5. QED
    BY <2>2, <2>3, <2>4 DEF Says
<1>2. Init => ServiceInv /\ EventsInv
  BY ServiceInit, EventsInit
<1>3. ServiceInv /\ EventsInv /\ [Next]_vars => (ServiceInv /\ EventsInv)'
  BY ServiceStep, EventsStep
<1>4. QED
  BY <1>1, <1>2, <1>3, PTL DEF Spec
-----------------------------------------------------------------------------
(* The 7B model.                                                           *)

(* Only the worker thread unloads it, and only when it dies or a shell     *)
(* leaves chat mode.                                                       *)
LEMMA OnlyExitUnloads ==
  ASSUME [Next]_vars, model_7b, ~model_7b', worker' # Dead
  PROVE  ChatModeExit
<1>1. ~UNCHANGED thread
  BY DEF thread
<1>2. ASSUME NEW r \in Ids, Serves(r)
      PROVE  UNCHANGED thread
  BY <1>2 DEF Serves, Connection, Tool, ReadRequest, SendTask, DropEvent, ReceiveIntro, Spoken,
       ReceiveText, OpenTool, CloseTool, RunTool, RefuseTool, EndOfStream, WriteEnd, Kept
<1>3. (\E s \in Shells : Shell(s)) \/ (\E q \in Ids : Read(q)) \/ UNCHANGED vars => UNCHANGED thread
  BY DEF Shell, SwitchMode, ShowMode, Ask, ExitShell, KillShell, Interrupt, Notify, Read, vars
<1>4. ~ChatModeEnter /\ ~LoadModel
  BY DEF ChatModeEnter, LoadModel, Loaded
<1>5. Worker => UNCHANGED thread \/ ChatModeEnter \/ ChatModeExit \/ LoadModel
  BY DEF Worker, DualPass, WriteIntro, Generate, SendChunk, SendFails, FinishTask
<1>6. ~Panic
  BY DEF Panic
<1>7. QED
  BY <1>1, <1>2, <1>3, <1>4, <1>5, <1>6 DEF Next, Serves

(* A shell that said last that it entered, and has no event on its way, is *)
(* known to the worker: it is still there when another one is removed.     *)
LEMMA ModelStep ==
  ASSUME ServiceInv, EventsInv, [Next]_vars, model_7b, ~model_7b', worker' # Dead,
         NEW s \in Shells, told[s] = "enter"
  PROVE  OnItsWay(s)
<1>1. SUFFICES ASSUME ~OnItsWay(s)
               PROVE  FALSE
  OBVIOUS
<1>2. PICK task \in [req : Opened, round : {1}] :
        /\ TakesTask(task) /\ requests[task.req].kind = "exit"
        /\ model_7b' = (model_7b /\ active_chat_shells \ {requests[task.req].shell} # {})
  BY OnlyExitUnloads DEF ChatModeExit, Still7b, Without
<1>3. \A r \in EventsOf(s) : conn[r] = "ended" /\ \A i \in DOMAIN task_rx : task_rx[i].req # r
  BY <1>1 DEF OnItsWay, EventsOf
<1>4. worker # Dead
  BY <1>2 DEF TakesTask, Idle, Dead
<1>5. Says(s) /\ Of(s) = {}
  BY <1>3, <1>4 DEF EventsInv, Heard, Of
<1>6. s \in active_chat_shells
  BY <1>5 DEF Says
<1>7. requests[task.req].shell # s
  <2>1. 1 \in DOMAIN task_rx /\ task = task_rx[1]
    BY <1>2, Taken
  <2>2. task.req \in Opened /\ IsEvent(task.req)
    BY <1>2 DEF IsEvent, Events
  <2>3. QED
    BY <1>3, <2>1, <2>2 DEF EventsOf
<1>8. QED
  BY <1>2, <1>6, <1>7

(* When the events of a shell are sent in order, ChatModeExit (main.rs)    *)
(* takes a loaded 7B model from no shell that said last that it entered    *)
(* chat mode and was heard, whoever else exits.                            *)
THEOREM ChatKeepsModel ==
  ASSUME InOrder
  PROVE  Spec => ModelKeptForChat
<1>1. Init => ServiceInv /\ EventsInv
  BY ServiceInit, EventsInit
<1>2. ServiceInv /\ EventsInv /\ [Next]_vars => (ServiceInv /\ EventsInv)'
  BY ServiceStep, EventsStep
<1>3. ServiceInv /\ EventsInv /\ [Next]_vars =>
        [(model_7b /\ ~model_7b' /\ worker' # Dead)
         => \A s \in Shells : told[s] = "enter" => OnItsWay(s)]_vars
  BY ModelStep
<1>4. QED
  BY <1>1, <1>2, <1>3, PTL DEF Spec, ModelKeptForChat
=============================================================================
