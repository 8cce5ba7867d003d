------------------------ MODULE DaemonLifecycleProofs ------------------------
(***************************************************************************)
(* Any number of shells that start one after the other share one daemon,   *)
(* and it keeps its sockets.                                               *)
(***************************************************************************)
EXTENDS DaemonLifecycle, TLAPS

InStart(s) == shell[s] \in {"connect", "unlink", "boot"}

(* Who starts is alone, and finds a daemon that has its sockets or none.   *)
StartersAlone ==
  \A s \in Shells : InStart(s) =>
    /\ \A t \in Shells : InStart(t) => t = s
    /\ \A d \in Shells : ~Booting(d)
    /\ shell[s] \in {"unlink", "boot"} => \A d \in Shells : ~Alive(d)

(* What a task of the daemon saw of its path name still holds.             *)
TasksRight ==
  \A d \in Shells, p \in Paths : Alive(d) =>
    /\ task[d][p] # "gone"
    /\ task[d][p] = "remove" => sock[p] # None
    /\ task[d][p] = "bind" => sock[p] = None
    /\ task[d][p] = "listen" => sock[p] = d

Alone == \A c, d \in Shells : Alive(c) /\ Alive(d) => c = d

Unborn == \A d \in Shells : daemon[d] \in {"none", "forked"} => \A p \in Paths : task[d][p] = "none"

Orderly == Alone /\ StartersAlone /\ TasksRight

LifeInv == TypeOK /\ Unborn /\ (~overlapped => Orderly)

LEMMA InitLife == Init => LifeInv
<1> SUFFICES ASSUME Init PROVE LifeInv
  OBVIOUS
<1>1. TypeOK
  <2>1. sock \in [Paths -> Shells \cup {None, Old}]
    BY DEF Init
  <2>2. task \in [Shells -> [Paths -> {"none"}]]
    BY DEF Init
  <2>3. task \in [Shells -> [Paths -> {"none", "exists", "remove", "bind", "listen", "gone"}]]
    BY <2>2
  <2>4. /\ shell \in [Shells -> {"off"}] /\ daemon \in [Shells -> {"none"}]
        /\ to \in [Shells -> {None}] /\ writes \in [Shells -> {0}]
        /\ overlapped = FALSE /\ mishap = FALSE
    BY DEF Init
  <2>5. writes \in [Shells -> 0 .. 2]
    BY <2>4
  <2>6. QED
    BY <2>1, <2>3, <2>4, <2>5 DEF TypeOK
<1>2. \A s \in Shells : ~InStart(s) /\ ~Alive(s)
  BY DEF Init, InStart, Alive
<1>3. QED
  BY <1>1, <1>2 DEF Init, LifeInv, Orderly, Alone, StartersAlone, TasksRight, Unborn
-----------------------------------------------------------------------------
TasksType == task \in [Shells -> [Paths -> {"none", "exists", "remove", "bind", "listen", "gone"}]]
BirthType == /\ daemon \in [Shells -> {"none", "forked", "tied", "orphan", "dead"}]
             /\ \A s \in Shells : daemon[s] # "none" => shell[s] \in {"sleep", "on", "dead"}

LEMMA DiesType ==
  ASSUME TypeOK, NEW d \in Shells, Dies(d), daemon[d] # "none", UNCHANGED shell
  PROVE  TasksType' /\ BirthType'
BY DEF TypeOK, Dies, TasksType, BirthType

LEMMA FailsType ==
  ASSUME TypeOK, NEW d \in Shells, NEW p \in Paths, Fails(d, p), daemon[d] # "none", UNCHANGED shell
  PROVE  TasksType' /\ BirthType'
<1>1. CASE p = "chat"
  BY <1>1, DiesType DEF Fails
<1>2. CASE p # "chat"
  <2>1. task' = [task EXCEPT ![d][p] = "gone"] /\ daemon' = daemon
    BY <1>2 DEF Fails, TaskTo
  <2>2. TasksType'
    BY <2>1 DEF TypeOK, TasksType
  <2>3. QED
    BY <2>1, <2>2 DEF TypeOK, BirthType
<1>3. QED
  BY <1>1, <1>2

LEMMA TypeStep == TypeOK /\ [Next]_vars => TypeOK'
<1> SUFFICES ASSUME TypeOK, [Next]_vars PROVE TypeOK'
  OBVIOUS
<1> USE DEF TypeOK, GoesTo, Paths
<1>1. ASSUME NEW s \in Shells, Access(s) \/ Startup(s) \/ Leave(s) PROVE TypeOK'
  <2>1. CASE Access(s)
    BY <2>1 DEF Access
  <2>2. CASE Probe(s)
    BY <2>2 DEF Probe
  <2>3. CASE Unlink(s)
    BY <2>3 DEF Unlink
  <2>4. CASE Fork(s)
    BY <2>4 DEF Fork
  <2>5. CASE Wake(s)
    BY <2>5 DEF Wake
  <2>6. CASE Leave(s)
    BY <2>6 DEF Leave
  <2>7. QED
    BY <1>1, <2>1, <2>2, <2>3, <2>4, <2>5, <2>6 DEF Startup
<1>2. ASSUME NEW s \in Shells, Client(s) \/ \E n \in {1, 2} : Ask(s, n) PROVE TypeOK'
  <2>1. CASE Write(s)
    <3>1. CASE Alive(to[s])
      <4>1. writes[s] - 1 \in 0 .. 2
        BY <2>1 DEF Write
      <4>2. QED
        BY <2>1, <3>1, <4>1 DEF Write
    <3>2. CASE ~Alive(to[s])
      <4>1. shell' = [shell EXCEPT ![s] = "dead"] /\ to' = [to EXCEPT ![s] = None]
            /\ writes' = [writes EXCEPT ![s] = 0]
            /\ UNCHANGED <<daemon, task, sock, overlapped, mishap>>
        BY <2>1, <3>2 DEF Write, Back
      <4>2. shell[s] = "on" /\ daemon' = daemon
        BY <2>1, <4>1 DEF Write
      <4>3. \A t \in Shells : (daemon'[t] # "none" => shell'[t] \in {"sleep", "on", "dead"})
                              /\ (to'[t] # None => shell'[t] = "on")
        BY <4>1, <4>2
      <4>4. QED
        BY <4>1, <4>3
    <3>3. QED
      BY <3>1, <3>2
  <2>2. CASE Answered(s) \/ EndOfFile(s)
    BY <2>2 DEF Answered, EndOfFile, Back
  <2>3. CASE \E n \in {1, 2} : Ask(s, n)
    BY <2>3 DEF Ask, Served
  <2>4. QED
    BY <1>2, <2>1, <2>2, <2>3 DEF Client
<1>3. ASSUME NEW d \in Shells, Sockets(d) \/ StartFails(d) \/ Sigterm(d) PROVE TypeOK'
  <2>1. CASE Exec(d)
    BY <2>1 DEF Exec
  <2>2. CASE StartFails(d) \/ Sigterm(d)
    BY <2>2, DiesType DEF TasksType, BirthType, StartFails, Sigterm, Alive
  <2>3. ASSUME NEW p \in Paths, Exists(d, p) PROVE TypeOK'
    BY <2>3 DEF Exists, TaskTo
  <2>4. ASSUME NEW p \in Paths, RemoveFile(d, p) \/ Bind(d, p) PROVE TypeOK'
    <3>1. daemon[d] # "none"
      BY <2>4 DEF RemoveFile, Bind, TaskIs, Alive
    <3>2. CASE Fails(d, p) /\ UNCHANGED sock
      BY <2>4, <3>1, <3>2, FailsType DEF TasksType, BirthType, RemoveFile, Bind
    <3>3. CASE TaskTo(d, p, "bind") \/ TaskTo(d, p, "listen")
      BY <2>4, <3>3 DEF RemoveFile, Bind, TaskTo
    <3>4. QED
      BY <2>4, <3>2, <3>3 DEF RemoveFile, Bind
  <2>5. QED
    BY <1>3, <2>1, <2>2, <2>3, <2>4 DEF Sockets
<1>4. CASE UNCHANGED vars
  BY <1>4 DEF vars
<1>5. QED
  BY <1>1, <1>2, <1>3, <1>4 DEF Next
-----------------------------------------------------------------------------
(* A step that leaves daemons, tasks and sockets alone, and starts nothing. *)
LEMMA QuietStep ==
  ASSUME Orderly, UNCHANGED <<daemon, task, sock>>,
         \A s \in Shells : InStart(s)' => InStart(s) /\ shell'[s] = shell[s]
  PROVE  Orderly'
<1>1. \A d \in Shells : Alive(d)' = Alive(d) /\ Booting(d)' = Booting(d)
  BY DEF Alive, Booting
<1>2. Alone'
  BY <1>1 DEF Orderly, Alone
<1>3. StartersAlone'
  BY <1>1 DEF Orderly, StartersAlone
<1>4. TasksRight'
  BY <1>1 DEF Orderly, TasksRight
<1>5. QED
  BY <1>2, <1>3, <1>4 DEF Orderly

LEMMA AccessOrder ==
  ASSUME TypeOK, ~overlapped => Orderly, NEW s \in Shells, Access(s), ~overlapped'
  PROVE  Orderly'
<1>1. Orderly /\ ~Starting /\ shell[s] = "off" /\ UNCHANGED <<daemon, task, sock>>
  BY DEF Access, TypeOK
<1>2. shell' = [shell EXCEPT ![s] = IF sock["chat"] = None THEN "boot" ELSE "connect"]
  BY DEF Access, GoesTo
<1>3. \A d \in Shells : ~Booting(d) /\ Booting(d)' = Booting(d) /\ Alive(d)' = Alive(d)
  BY <1>1 DEF Starting, Booting, Alive
<1>4. \A t \in Shells : InStart(t)' => t = s
  BY <1>1, <1>2 DEF Starting, InStart, TypeOK
<1>5. shell'[s] \in {"unlink", "boot"} => \A d \in Shells : ~Alive(d)
  <2>1. ASSUME NEW d \in Shells, Alive(d) PROVE sock["chat"] = d
    BY <1>1, <1>3, <2>1 DEF Booting, Orderly, TasksRight, Paths
  <2>2. QED
    BY <1>2, <2>1, LifecycleAssumption DEF TypeOK
<1>6. StartersAlone'
  BY <1>3, <1>4, <1>5 DEF StartersAlone
<1>7. Alone' /\ TasksRight'
  BY <1>1, <1>3 DEF Orderly, Alone, TasksRight, Access
<1>8. QED
  BY <1>6, <1>7 DEF Orderly

LEMMA ProbeOrder ==
  ASSUME TypeOK, Orderly, NEW s \in Shells, Probe(s)
  PROVE  ~overlapped => Orderly'
<1> SUFFICES ASSUME ~overlapped PROVE Orderly'
  OBVIOUS
<1>1. shell[s] = "connect" /\ UNCHANGED <<daemon, task, sock, overlapped>>
      /\ shell' = [shell EXCEPT ![s] = IF Served THEN "on" ELSE "unlink"]
  BY DEF Probe, GoesTo
<1>2. \A d \in Shells : Booting(d)' = Booting(d) /\ Alive(d)' = Alive(d)
  BY <1>1 DEF Booting, Alive
<1>3. InStart(s) /\ \A t \in Shells : InStart(t)' => t = s
  BY <1>1 DEF InStart, Orderly, StartersAlone, TypeOK
<1>4. ~Served => \A d \in Shells : ~Alive(d)
  <2>1. ASSUME NEW d \in Shells, Alive(d) PROVE Served
    <3>1. ~Booting(d)
      BY <1>3 DEF Orderly, StartersAlone
    <3>2. sock["chat"] = d
      BY <2>1, <3>1 DEF Booting, Orderly, TasksRight, Paths
    <3>3. QED
      BY <2>1, <3>2 DEF Served
  <2>2. QED
    BY <2>1
<1>5. StartersAlone'
  BY <1>1, <1>2, <1>3, <1>4 DEF StartersAlone, Orderly, InStart, TypeOK
<1>6. Alone' /\ TasksRight'
  BY <1>1, <1>2 DEF Orderly, Alone, TasksRight
<1>7. QED
  BY <1>5, <1>6 DEF Orderly

LEMMA UnlinkOrder ==
  ASSUME TypeOK, Orderly, NEW s \in Shells, Unlink(s)
  PROVE  Orderly'
<1>1. InStart(s) /\ shell[s] = "unlink" /\ shell' = [shell EXCEPT ![s] = "boot"]
      /\ UNCHANGED <<daemon, task>>
  BY DEF Unlink, GoesTo, InStart
<1>2. \A d \in Shells : ~Alive(d) /\ ~Alive(d)'
  BY <1>1 DEF Orderly, StartersAlone, Alive
<1>3. \A t \in Shells : InStart(t)' => t = s
  BY <1>1 DEF InStart, Orderly, StartersAlone, TypeOK
<1>4. QED
  BY <1>2, <1>3 DEF Orderly, Alone, StartersAlone, TasksRight, Booting

LEMMA ForkOrder ==
  ASSUME TypeOK, Unborn, Orderly, NEW s \in Shells, Fork(s)
  PROVE  Orderly'
<1>1. shell[s] = "boot" /\ InStart(s) /\ UNCHANGED <<task, sock>> /\ daemon[s] = "none"
  BY DEF Fork, InStart, TypeOK
<1>2. \A d \in Shells : ~Alive(d)
  BY <1>1 DEF Orderly, StartersAlone
<1>3. \A t \in Shells : ~InStart(t)'
  BY <1>1 DEF Fork, GoesTo, InStart, Orderly, StartersAlone, TypeOK
<1>4. \A d \in Shells : Alive(d)' => d = s /\ task[s] = task'[s]
  BY <1>1, <1>2 DEF Fork, Alive, TypeOK
<1>5. Alone' /\ StartersAlone'
  BY <1>3, <1>4 DEF Alone, StartersAlone
<1>6. \A p \in Paths : task'[s][p] = "none"
  BY <1>1 DEF Unborn
<1>7. QED
  BY <1>4, <1>5, <1>6 DEF Orderly, TasksRight
-----------------------------------------------------------------------------
(* The daemon: nobody starts while its tasks are at work.                  *)

LEMMA ExecOrder ==
  ASSUME TypeOK, Unborn, Orderly, NEW d \in Shells, Exec(d)
  PROVE  Orderly'
<1>1. /\ daemon[d] = "forked" /\ UNCHANGED <<shell, sock>> /\ Alive(d)
      /\ task' = [task EXCEPT ![d] = [p \in Paths |-> "exists"]]
      /\ \A c \in Shells : c # d => daemon'[c] = daemon[c] /\ task'[c] = task[c]
  BY DEF Exec, Alive, TypeOK
<1>2. Booting(d)
  BY <1>1 DEF Booting, Unborn, Paths
<1>3. \A s \in Shells : ~InStart(s) /\ ~InStart(s)'
  BY <1>1, <1>2 DEF Orderly, StartersAlone, InStart
<1>4. \A c \in Shells : Alive(c)' => c = d
  BY <1>1 DEF Alive, Orderly, Alone
<1>5. \A p \in Paths : task'[d][p] = "exists"
  BY <1>1 DEF TypeOK
<1>6. QED
  BY <1>3, <1>4, <1>5 DEF Orderly, Alone, StartersAlone, TasksRight

(* A daemon that dies leaves the others, if any, as they were.             *)
LEMMA DiesOrder ==
  ASSUME TypeOK, Orderly, NEW d \in Shells, Dies(d), UNCHANGED <<shell, sock>>
  PROVE  Orderly'
<1>1. \A c \in Shells : /\ Alive(c)' => c # d /\ Alive(c)
                        /\ c # d => task'[c] = task[c]
  BY DEF Dies, Alive, TypeOK
<1>2. \A c \in Shells : Booting(c)' => Booting(c)
  BY <1>1 DEF Booting
<1>3. QED
  BY <1>1, <1>2 DEF Orderly, Alone, StartersAlone, TasksRight, InStart

LEMMA TaskOrder ==
  ASSUME TypeOK, Orderly, NEW d \in Shells, NEW p \in Paths, Alive(d),
         task[d][p] \notin {"listen", "gone"}, NEW state, TaskTo(d, p, state), UNCHANGED shell,
         \A q \in Paths : q # p => sock'[q] = sock[q],
         state = "remove" => sock'[p] # None,
         state = "bind" => sock'[p] = None,
         state = "listen" => sock'[p] = d,
         state # "gone"
  PROVE  Orderly'
<1>1. Booting(d)
  BY DEF Booting
<1>2. \A s \in Shells : ~InStart(s) /\ ~InStart(s)'
  BY <1>1 DEF Orderly, StartersAlone, InStart
<1>3. \A c \in Shells : Alive(c)' => c = d
  BY DEF TaskTo, Alive, Orderly, Alone
<1>4. task'[d][p] = state /\ \A q \in Paths : q # p => task'[d][q] = task[d][q]
  BY DEF TaskTo, TypeOK
<1>5. TasksRight'
  BY <1>3, <1>4 DEF Orderly, TasksRight
<1>6. QED
  BY <1>2, <1>3, <1>5 DEF Orderly, Alone, StartersAlone

LEMMA SocketsOrder ==
  ASSUME TypeOK, Unborn, Orderly, NEW d \in Shells, Sockets(d)
  PROVE  Orderly'
<1>1. CASE Exec(d)
  BY <1>1, ExecOrder
<1>2. ASSUME NEW p \in Paths, Exists(d, p) PROVE Orderly'
  BY <1>2, TaskOrder DEF Exists, TaskIs
<1>3. ASSUME NEW p \in Paths, RemoveFile(d, p) PROVE Orderly'
  <2>1. sock[p] # None /\ task[d][p] = "remove" /\ Alive(d)
    BY <1>3 DEF RemoveFile, TaskIs, Orderly, TasksRight
  <2>2. sock' = [sock EXCEPT ![p] = None] /\ TaskTo(d, p, "bind") /\ UNCHANGED shell
    BY <1>3, <2>1 DEF RemoveFile
  <2>3. QED
    BY <2>1, <2>2, TaskOrder DEF TypeOK
<1>4. ASSUME NEW p \in Paths, Bind(d, p) PROVE Orderly'
  <2>1. sock[p] = None /\ task[d][p] = "bind" /\ Alive(d)
    BY <1>4 DEF Bind, TaskIs, Orderly, TasksRight
  <2>2. sock' = [sock EXCEPT ![p] = d] /\ TaskTo(d, p, "listen") /\ UNCHANGED shell
    BY <1>4, <2>1 DEF Bind
  <2>3. QED
    BY <2>1, <2>2, TaskOrder DEF TypeOK
<1>5. QED
  BY <1>1, <1>2, <1>3, <1>4 DEF Sockets
-----------------------------------------------------------------------------
LEMMA UnbornStep == TypeOK /\ Unborn /\ [Next]_vars => Unborn'
<1> SUFFICES ASSUME TypeOK, Unborn, [Next]_vars PROVE Unborn'
  OBVIOUS
<1>1. CASE UNCHANGED <<daemon, task>>
  BY <1>1 DEF Unborn
<1>2. ASSUME NEW s \in Shells, Fork(s) PROVE Unborn'
  <2>1. daemon[s] = "none" /\ UNCHANGED task
        /\ (daemon' = daemon \/ daemon' = [daemon EXCEPT ![s] = "forked"])
    BY <1>2 DEF Fork, TypeOK
  <2>2. QED
    BY <2>1 DEF Unborn, TypeOK
<1>3. ASSUME NEW d \in Shells, Exec(d) \/ Dies(d) PROVE Unborn'
  <2>1. daemon'[d] \in {"tied", "orphan", "dead"}
        /\ \A c \in Shells : c # d => daemon'[c] = daemon[c] /\ task'[c] = task[c]
    BY <1>3 DEF Exec, Dies, TypeOK
  <2>2. QED
    BY <2>1 DEF Unborn
<1>4. ASSUME NEW d \in Shells, NEW p \in Paths, NEW state, TaskTo(d, p, state), task[d][p] # "none"
      PROVE  Unborn'
  BY <1>4 DEF TaskTo, Unborn, TypeOK
<1>5. ASSUME NEW d \in Shells, NEW p \in Paths, Exists(d, p) \/ RemoveFile(d, p) \/ Bind(d, p)
      PROVE  Unborn'
  <2>1. task[d][p] # "none" /\ (Dies(d) \/ \E state : TaskTo(d, p, state))
    BY <1>5 DEF Exists, RemoveFile, Bind, TaskIs, Fails
  <2>2. QED
    BY <1>3, <1>4, <2>1
<1>6. QED
  BY <1>1, <1>2, <1>3, <1>5
     DEF Next, vars, Startup, Client, Sockets, Access, Probe, Unlink, Wake, Leave, Ask, Write, Answered,
         EndOfFile, StartFails, Sigterm

LEMMA LifeStep == LifeInv /\ [Next]_vars => LifeInv'
<1> SUFFICES ASSUME LifeInv, [Next]_vars, ~overlapped' PROVE Orderly'
  BY TypeStep, UnbornStep DEF LifeInv
<1>1. TypeOK /\ Unborn /\ (~overlapped => Orderly)
  BY DEF LifeInv
<1>2. ASSUME NEW s \in Shells, Access(s) PROVE Orderly'
  BY <1>1, <1>2, AccessOrder
<1>3. CASE ~\E s \in Shells : Access(s)
  <2>1. overlapped' = overlapped
    BY <1>3 DEF Next, vars, Startup, Client, Sockets, Probe, Unlink, Fork, Wake, Leave, Ask, Write,
           Answered, EndOfFile, Exec, StartFails, Sigterm, Exists, RemoveFile, Bind
  <2>2. Orderly /\ ~overlapped
    BY <1>1, <2>1
  <2>3. ASSUME NEW s \in Shells, Probe(s) \/ Unlink(s) \/ Fork(s) PROVE Orderly'
    BY <1>1, <2>2, <2>3, ProbeOrder, UnlinkOrder, ForkOrder
  <2>4. ASSUME NEW s \in Shells, Wake(s) \/ Leave(s) \/ Client(s) \/ \E n \in {1, 2} : Ask(s, n)
        PROVE  Orderly'
    <3>1. UNCHANGED <<daemon, task, sock>>
      BY <2>4 DEF Wake, Leave, Client, Write, Answered, EndOfFile, Ask
    <3>2. shell' = shell \/ shell' = [shell EXCEPT ![s] = "on"] \/ shell' = [shell EXCEPT ![s] = "dead"]
      BY <2>4 DEF Wake, Leave, Client, Write, Answered, EndOfFile, Ask, GoesTo
    <3>3. \A t \in Shells : InStart(t)' => InStart(t) /\ shell'[t] = shell[t]
      BY <1>1, <3>2 DEF InStart, TypeOK
    <3>4. QED
      BY <2>2, <3>1, <3>3, QuietStep
  <2>5. ASSUME NEW d \in Shells, Sockets(d) PROVE Orderly'
    BY <1>1, <2>2, <2>5, SocketsOrder
  <2>6. ASSUME NEW d \in Shells, StartFails(d) \/ Sigterm(d) PROVE Orderly'
    BY <1>1, <2>2, <2>6, DiesOrder DEF StartFails, Sigterm
  <2>7. CASE UNCHANGED vars
    BY <2>2, <2>7, QuietStep DEF vars, InStart
  <2>8. QED
    BY <1>3, <2>3, <2>4, <2>5, <2>6, <2>7 DEF Next, Startup
<1>4. QED
  BY <1>2, <1>3

LEMMA LifeInvariant == Spec => []LifeInv
BY InitLife, LifeStep, PTL DEF Spec

(* Types, and a daemon only of a shell that forked it.                     *)
THEOREM TypeCorrect == Spec => []TypeOK
<1>1. LifeInv => TypeOK
  BY DEF LifeInv
<1>2. QED
  BY <1>1, LifeInvariant, PTL

(* However many shells come, leave, crash or find stale sockets, as long   *)
(* as no two of their starts overlap there is one daemon.                  *)
THEOREM OneDaemonCorrect == Spec => []OneDaemon
<1>1. LifeInv => OneDaemon
  BY DEF LifeInv, Orderly, Alone, OneDaemon
<1>2. QED
  BY <1>1, LifeInvariant, PTL

(* And nobody takes its path names from it.                                *)
THEOREM BothSocketsKeptCorrect == Spec => []BothSocketsKept
<1>1. LifeInv => BothSocketsKept
  BY DEF LifeInv, Orderly, TasksRight, BothSocketsKept
<1>2. QED
  BY <1>1, LifeInvariant, PTL
=============================================================================
