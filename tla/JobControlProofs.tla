-------------------------- MODULE JobControlProofs --------------------------
(***************************************************************************)
(* Invariance proofs for JobControl, for any number of process             *)
(* identifiers, commands, bytes of stderr and for any array size.          *)
(***************************************************************************)
EXTENDS JobControl, SequenceTheorems, TLAPS

(***************************************************************************)
(* The strengthening.                                                      *)
(***************************************************************************)
(* Between fork() and the store into its slot, a background job is held by *)
(* pid alone, and the store finds the slot that was counted for it.        *)
RegisteringIsOwn ==
  /\ pc \in {"count", "store"} =>
       pid \in Pids /\ pstate[pid] # "free" /\ job[pid] = "bg" /\ ~Registered(pid)
  /\ pc = "store" =>
       Len(background_pids) > 0 /\ background_pids[Len(background_pids)] = NoPid

(* NoLostWakeup for a job that has no slot yet.                            *)
RegisteringNotLost ==
  (pc \in {"count", "store"} /\ pstate[pid] = "zombie" /\ pid \notin missed) => sigchld

(* error_buf holds all that has been read while all of it fits; a read it  *)
(* refuses does not fit, so by then less than ReadMax bytes were free.     *)
StderrRead ==
  /\ stderr.unread <= stderr.all
  /\ stderr.got < ErrCap
  /\ stderr.all - stderr.unread < ErrCap => stderr.got = stderr.all - stderr.unread
  /\ stderr.all - stderr.unread >= ErrCap => stderr.got >= ErrCap - ReadMax

KernelTypeOK ==
  /\ pstate \in [Pids -> {"free", "running", "stopped", "zombie"}]
  /\ wstatus \in [Pids -> Deaths \cup {"none"}]
  /\ job \in [Pids -> {"none", "fg", "bg", "pipe"}]
  /\ sigchld \in BOOLEAN
  /\ missed \subseteq Pids

(* TypeOK alone is not inductive: a wait reads pstate[pid].                *)
TypeInv ==
  /\ TypeOK
  /\ pc \in {"poll", "wait"} => pid \in Pids
  /\ pc = "store" => background_pids # <<>>

(* The properties of JobControl that hold when fork() does not fail, and   *)
(* what makes them inductive.                                              *)
JobsCore ==
  /\ SlotsHoldUnreapedJobs /\ WaitsForItsOwn /\ RegisteringIsOwn
  /\ NoLostWakeup /\ RegisteringNotLost /\ NoSpuriousNotice
-----------------------------------------------------------------------------
(* What the kernel operations do to the types.                             *)

LEMMA KernelType == TypeOK => KernelTypeOK
BY DEF TypeOK, KernelTypeOK

LEMMA DiesType ==
  ASSUME KernelTypeOK, NEW p \in Pids, NEW s \in Deaths, Dies(p, s)
  PROVE  KernelTypeOK'
BY DEF KernelTypeOK, Dies

LEMMA ReapType ==
  ASSUME KernelTypeOK, NEW p \in Pids, Reap(p), UNCHANGED sigchld
  PROVE  KernelTypeOK'
BY DEF KernelTypeOK, Reap

LEMMA ForkType ==
  ASSUME KernelTypeOK, NEW p \in Pids, NEW role \in {"fg", "bg", "pipe"}, Fork(p, role)
  PROVE  KernelTypeOK'
BY DEF KernelTypeOK, Fork

LEMMA SameKernelType ==
  ASSUME KernelTypeOK, UNCHANGED kernel
  PROVE  KernelTypeOK'
BY DEF KernelTypeOK, kernel

LEMMA WaitForType ==
  ASSUME KernelTypeOK, NEW q, WaitFor(q)
  PROVE  KernelTypeOK'
<1>1. CASE \E p \in Awaited(q) : pstate[p] = "zombie" /\ Reap(p) /\ UNCHANGED sigchld
  BY <1>1, ReapType DEF Awaited, Unreaped
<1>2. CASE UNCHANGED kernel
  BY <1>2, SameKernelType
<1>3. QED
  BY <1>1, <1>2 DEF WaitFor

(* The scan never leaves the registered part of the table.                 *)
LEMMA NextSlotInTable ==
  ASSUME background_pids \in Seq(Pids \cup {NoPid}),
         NEW i \in 0 .. Len(background_pids)
  PROVE  NextSlot(i) \in 0 .. Len(background_pids)
BY LenProperties DEF NextSlot

(* Clearing a slot, counting a job and storing it keep the table a table.  *)
LEMMA SlotSet ==
  ASSUME NEW t \in Seq(Pids \cup {NoPid}), NEW i \in 1 .. Len(t),
         NEW p \in Pids \cup {NoPid}
  PROVE  /\ [t EXCEPT ![i] = p] \in Seq(Pids \cup {NoPid})
         /\ Len([t EXCEPT ![i] = p]) = Len(t)
         /\ \A j \in 1 .. Len(t) : [t EXCEPT ![i] = p][j] = IF j = i THEN p ELSE t[j]
BY ExceptSeq

LEMMA SlotAdded ==
  ASSUME NEW t \in Seq(Pids \cup {NoPid})
  PROVE  /\ Append(t, NoPid) \in Seq(Pids \cup {NoPid})
         /\ Len(Append(t, NoPid)) = Len(t) + 1
         /\ \A j \in 1 .. Len(t) : Append(t, NoPid)[j] = t[j]
         /\ Append(t, NoPid)[Len(t) + 1] = NoPid
BY AppendProperties
-----------------------------------------------------------------------------
(* Type correctness.                                                       *)

LEMMA ChildType ==
  ASSUME TypeInv, NEW p \in Pids, Child(p)
  PROVE  TypeInv'
<1>k. KernelTypeOK
  BY KernelType DEF TypeInv
<1>1. ASSUME NEW s \in Deaths, Dies(p, s) PROVE TypeInv'
  <2>1. KernelTypeOK'
    BY <1>k, <1>1, DiesType
  <2>2. QED
    BY <1>1, <2>1 DEF TypeInv, TypeOK, KernelTypeOK, Dies, table, held
<1>2. CASE WriteStderr(p)
  <2>1. stderr.unread + 1 \in Nat /\ stderr.all + 1 \in Nat
    BY DEF TypeInv, TypeOK
  <2>2. stderr' \in [unread : Nat, got : Nat, all : Nat]
    BY <1>2, <2>1 DEF TypeInv, TypeOK, WriteStderr
  <2>3. QED
    BY <1>2, <2>2 DEF TypeInv, TypeOK, WriteStderr, kernel, table
<1>3. CASE Stop(p)
  BY <1>3 DEF TypeInv, TypeOK, Stop, table, held
<1>4. CASE Continue(p)
  BY <1>4 DEF TypeInv, TypeOK, Continue, table, held
<1>5. CASE Exit(p) \/ Kill(p) \/ BrokenStderr(p)
  BY <1>1, <1>5 DEF Exit, Kill, BrokenStderr, Deaths
<1>6. QED
  BY <1>2, <1>3, <1>4, <1>5 DEF Child

LEMMA HandlerType ==
  ASSUME TypeInv, Handler
  PROVE  TypeInv'
<1>k. KernelTypeOK /\ background_pids \in Seq(Pids \cup {NoPid})
  BY KernelType DEF TypeInv, TypeOK
<1>1. CASE DeliverSigchld
  <2>1. 0 \in 0 .. Len(background_pids)
    BY <1>k, LenProperties
  <2>2. hi' \in 0 .. Len(background_pids)
    BY <1>k, <1>1, <2>1, NextSlotInTable DEF DeliverSigchld
  <2>3. QED
    BY <1>1, <2>2 DEF TypeInv, TypeOK, DeliverSigchld, held
<1>2. CASE ScanSlot
  <2>1. hi \in 1 .. Len(background_pids) /\ hi' \in 0 .. Len(background_pids)
    BY <1>k, <1>2, NextSlotInTable DEF TypeInv, TypeOK, ScanSlot
  <2>2. CASE Done(background_pids[hi])
    <3>1. background_pids[hi] \in Pids
      BY <1>k, <2>1, <2>2, ElementOfSeq DEF Done
    <3>2. /\ Reap(background_pids[hi]) /\ UNCHANGED sigchld
          /\ background_pids' = [background_pids EXCEPT ![hi] = NoPid]
          /\ flag' = TRUE /\ owed' \in BOOLEAN
          /\ UNCHANGED <<held, pc>>
      BY <1>2, <2>2 DEF ScanSlot, Cleared
    <3>3. KernelTypeOK'
      BY <1>k, <3>1, <3>2, ReapType
    <3>4. /\ background_pids' \in Seq(Pids \cup {NoPid})
          /\ Len(background_pids') = Len(background_pids)
      BY <1>k, <2>1, <3>2, SlotSet
    <3>5. background_pids' # <<>>
      BY <2>1, <3>4
    <3>6. QED
      BY <2>1, <3>2, <3>3, <3>4, <3>5 DEF TypeInv, TypeOK, KernelTypeOK, held
  <2>3. CASE ~Done(background_pids[hi])
    BY <1>2, <2>1, <2>3 DEF TypeInv, TypeOK, ScanSlot, held
  <2>4. QED
    BY <2>2, <2>3
<1>3. QED
  BY <1>1, <1>2 DEF Handler

LEMMA KeyLoopType ==
  ASSUME TypeInv, PrintNotice \/ ClearFlag \/ NoNotice \/ EndOfLine \/ Key
  PROVE  TypeInv'
<1>1. /\ UNCHANGED <<kernel, background_pids, hi, held>>
      /\ flag' \in BOOLEAN /\ owed' \in BOOLEAN
      /\ pc' \in {"top", "announce", "getchar"}
  BY DEF TypeInv, TypeOK, PrintNotice, ClearFlag, NoNotice, EndOfLine, Key, table
<1>2. TypeOK'
  BY <1>1 DEF TypeInv, TypeOK, kernel, held, Labels
<1>3. QED
  BY <1>1, <1>2 DEF TypeInv

(* One read() of the pipe, by a poll or by the final drain.                *)
LEMMA ReadType ==
  ASSUME TypeOK, ReadStderr
  PROVE  \E n \in 1 .. ReadMax :
           /\ n <= stderr.unread
           /\ stderr' \in [unread : Nat, got : Nat, all : Nat]
           /\ stderr'.unread = stderr.unread - n /\ stderr'.all = stderr.all
           /\ stderr'.got = Appended(stderr.got, n)
<1>e. /\ ErrCap \in Nat /\ ReadMax \in Nat \ {0}
      /\ stderr \in [unread : Nat, got : Nat, all : Nat]
  BY JobControlAssumption DEF TypeOK
<1> DEFINE n == IF stderr.unread < ReadMax THEN stderr.unread ELSE ReadMax
<1>1. n \in 1 .. ReadMax /\ n <= stderr.unread /\ stderr.unread - n \in Nat
  BY <1>e DEF ReadStderr
<1>2. Appended(stderr.got, n) \in Nat
  BY <1>e, <1>1 DEF Appended
<1>3. stderr' = [stderr EXCEPT !.unread = stderr.unread - n, !.got = Appended(stderr.got, n)]
  BY DEF ReadStderr
<1>4. /\ stderr' \in [unread : Nat, got : Nat, all : Nat]
      /\ stderr'.unread = stderr.unread - n /\ stderr'.all = stderr.all
      /\ stderr'.got = Appended(stderr.got, n)
  BY <1>e, <1>1, <1>2, <1>3
<1>5. QED
  BY <1>1, <1>4

LEMMA ForegroundType ==
  ASSUME TypeInv, Poll \/ StillRunning \/ WaitReturns \/ DrainStderr \/ FinishForeground
  PROVE  TypeInv'
<1>e. /\ stderr \in [unread : Nat, got : Nat, all : Nat]
      /\ result \in [how : Statuses, ask : BOOLEAN, err : Nat, all : Nat]
  BY DEF TypeInv, TypeOK
<1>1. CASE Poll
  <2>1. stderr' \in [unread : Nat, got : Nat, all : Nat]
    BY <1>1, <1>e, ReadType DEF TypeInv, Poll
  <2>2. QED
    BY <1>1, <2>1 DEF TypeInv, TypeOK, Poll, At, kernel, table, Labels
<1>2. CASE StillRunning
  BY <1>2 DEF TypeInv, TypeOK, StillRunning, At, kernel, table, held, Labels
<1>3. CASE WaitReturns
  <2>1. pid \in Pids
    BY <1>3 DEF TypeInv, WaitReturns, At
  <2>2. WaitedStatus(pid) \in Statuses
    BY <1>3, <2>1 DEF TypeInv, TypeOK, WaitReturns, WaitReports, WaitedStatus, Statuses
  <2>3. result' \in [how : Statuses, ask : BOOLEAN, err : Nat, all : Nat]
    BY <1>3, <2>2 DEF WaitReturns, NoResult
  <2>4. KernelTypeOK'
    <3>1. KernelTypeOK
      BY KernelType DEF TypeInv
    <3>2. CASE pstate[pid] = "zombie"
      BY <1>3, <2>1, <3>1, <3>2, ReapType DEF WaitReturns
    <3>3. CASE pstate[pid] # "zombie"
      BY <1>3, <3>1, <3>3, SameKernelType DEF WaitReturns
    <3>4. QED
      BY <3>2, <3>3
  <2>5. QED
    BY <1>3, <2>3, <2>4 DEF TypeInv, TypeOK, KernelTypeOK, WaitReturns, table, Labels
<1>4. CASE DrainStderr
  <2>1. stderr' \in [unread : Nat, got : Nat, all : Nat]
    BY <1>4, ReadType DEF TypeInv, DrainStderr
  <2>2. QED
    BY <1>4, <2>1 DEF TypeInv, TypeOK, DrainStderr, kernel, table
<1>5. CASE FinishForeground
  <2>1. last_exit_status' \in {0, 1, 19}
    BY <1>5 DEF FinishForeground, WEXITSTATUS
  <2>2. result' \in [how : Statuses, ask : BOOLEAN, err : Nat, all : Nat]
    BY <1>5, <1>e DEF FinishForeground
  <2>3. stderr' \in [unread : Nat, got : Nat, all : Nat]
    BY <1>5 DEF FinishForeground, NoErr
  <2>4. QED
    BY <1>5, <2>1, <2>2, <2>3 DEF TypeInv, TypeOK, FinishForeground, kernel, table, Labels
<1>6. QED
  BY <1>1, <1>2, <1>3, <1>4, <1>5

LEMMA JobType ==
  ASSUME TypeInv, CountJob \/ StoreJob
  PROVE  TypeInv'
<1>k. background_pids \in Seq(Pids \cup {NoPid}) /\ pid \in Pids \cup {NoPid}
  BY DEF TypeInv, TypeOK
<1>1. CASE CountJob
  <2>1. /\ background_pids' \in Seq(Pids \cup {NoPid})
        /\ background_pids' # <<>>
        /\ Len(background_pids') = Len(background_pids) + 1
    BY <1>k, <1>1, AppendProperties DEF CountJob
  <2>2. hi' \in 0 .. Len(background_pids')
    BY <1>k, <1>1, <2>1, LenProperties DEF CountJob, At
  <2>3. QED
    BY <1>1, <2>1, <2>2 DEF TypeInv, TypeOK, CountJob, kernel, held, Labels
<1>2. CASE StoreJob
  <2>1. background_pids # <<>>
    BY <1>2 DEF TypeInv, StoreJob, At
  <2>2. Len(background_pids) \in 1 .. Len(background_pids)
    BY <1>k, <2>1, EmptySeq, LenProperties
  <2>3. /\ background_pids' \in Seq(Pids \cup {NoPid})
        /\ Len(background_pids') = Len(background_pids)
    BY <1>k, <1>2, <2>2, SlotSet DEF StoreJob
  <2>4. QED
    BY <1>2, <2>3 DEF TypeInv, TypeOK, StoreJob, kernel, Labels
<1>3. QED
  BY <1>1, <1>2

LEMMA PipelineType ==
  ASSUME TypeInv, ForkSecond \/ WaitFirst \/ WaitSecond
  PROVE  TypeInv'
<1>k. KernelTypeOK
  BY KernelType DEF TypeInv
<1>1. CASE ForkSecond
  <2>1. KernelTypeOK' /\ pid2' \in Pids \cup {NoPid}
    BY <1>k, <1>1, ForkType, SameKernelType DEF ForkSecond
  <2>2. QED
    BY <1>1, <2>1 DEF TypeInv, TypeOK, KernelTypeOK, ForkSecond, table, Labels
<1>2. CASE WaitFirst
  <2>1. KernelTypeOK'
    BY <1>k, <1>2, WaitForType DEF WaitFirst
  <2>2. QED
    BY <1>2, <2>1 DEF TypeInv, TypeOK, KernelTypeOK, WaitFirst, table, Labels
<1>3. CASE WaitSecond
  <2>1. KernelTypeOK'
    BY <1>k, <1>3, WaitForType DEF WaitSecond
  <2>2. QED
    BY <1>3, <2>1 DEF TypeInv, TypeOK, KernelTypeOK, WaitSecond, table, Labels
<1>4. QED
  BY <1>1, <1>2, <1>3

LEMMA LaunchType ==
  ASSUME TypeInv, Launch
  PROVE  TypeInv'
<1>k. KernelTypeOK /\ launches + 1 \in Nat
  BY KernelType DEF TypeInv, TypeOK
<1>1. CASE LaunchFails
  BY <1>k, <1>1 DEF TypeInv, TypeOK, LaunchFails, Launching, kernel, table, Labels
<1>2. CASE LaunchForeground
  <2>1. KernelTypeOK' /\ pid' \in Pids
    BY <1>k, <1>2, ForkType DEF LaunchForeground
  <2>2. /\ stderr' \in [unread : Nat, got : Nat, all : Nat]
        /\ result' \in [how : Statuses, ask : BOOLEAN, err : Nat, all : Nat]
    BY <1>2 DEF LaunchForeground, NoErr, NoResult, Statuses
  <2>3. QED
    BY <1>k, <1>2, <2>1, <2>2
    DEF TypeInv, TypeOK, KernelTypeOK, LaunchForeground, Launching, table, Labels
<1>3. CASE LaunchBackground
  <2>1. KernelTypeOK' /\ pid' \in Pids
    BY <1>k, <1>3, ForkType DEF LaunchBackground
  <2>2. QED
    BY <1>k, <1>3, <2>1
    DEF TypeInv, TypeOK, KernelTypeOK, LaunchBackground, Launching, table, Labels
<1>4. CASE ForkFirst
  <2>1. KernelTypeOK' /\ pid' \in Pids \cup {NoPid}
    BY <1>k, <1>4, ForkType, SameKernelType DEF ForkFirst
  <2>2. QED
    BY <1>k, <1>4, <2>1
    DEF TypeInv, TypeOK, KernelTypeOK, ForkFirst, Launching, table, Labels
<1>5. QED
  BY <1>1, <1>2, <1>3, <1>4 DEF Launch

LEMMA TypeInit == Init => TypeInv
<1>1. SUFFICES ASSUME Init PROVE TypeInv
  OBVIOUS
<1>2. background_pids \in Seq(Pids \cup {NoPid}) /\ hi \in 0 .. Len(background_pids)
  BY <1>1, EmptySeq DEF Init
<1>3. /\ stderr \in [unread : Nat, got : Nat, all : Nat]
      /\ result \in [how : Statuses, ask : BOOLEAN, err : Nat, all : Nat]
  BY <1>1 DEF Init, NoErr, NoResult, Statuses
<1>4. KernelTypeOK
  BY <1>1 DEF Init, KernelTypeOK
<1>5. pc = "top" /\ pc \in Labels /\ launches \in Nat
  BY <1>1 DEF Init, Labels
<1>6. QED
  BY <1>1, <1>2, <1>3, <1>4, <1>5 DEF Init, TypeInv, TypeOK, KernelTypeOK

LEMMA TypeStep == TypeInv /\ [Next]_vars => TypeInv'
<1>1. SUFFICES ASSUME TypeInv, [Next]_vars PROVE TypeInv'
  OBVIOUS
<1>2. CASE \E p \in Pids : Child(p)
  BY <1>1, <1>2, ChildType
<1>3. CASE Handler
  BY <1>1, <1>3, HandlerType
<1>4. CASE ShellStep
  BY <1>1, <1>4, KeyLoopType, ForegroundType, JobType, PipelineType DEF ShellStep
<1>5. CASE Launch
  BY <1>1, <1>5, LaunchType
<1>6. CASE EndOfLine \/ Key
  BY <1>1, <1>6, KeyLoopType
<1>7. CASE UNCHANGED vars
  BY <1>1, <1>7 DEF TypeInv, TypeOK, vars, kernel, table, held
<1>8. QED
  BY <1>1, <1>2, <1>3, <1>4, <1>5, <1>6, <1>7 DEF Next

(* Every variable keeps its type, whatever fork() returns, and the handler *)
(* never reads background_pids beyond background_count.                    *)
THEOREM TypeCorrect == Spec => []TypeOK
<1>1. TypeInv => TypeOK
  BY DEF TypeInv
<1>2. QED
  BY TypeInit, TypeStep, <1>1, PTL DEF Spec

LEMMA TypeInvariant == Spec => []TypeInv
BY TypeInit, TypeStep, PTL DEF Spec
-----------------------------------------------------------------------------
(* Background jobs, when fork() does not fail.                             *)

(* A child that changes state without being reaped disturbs no slot; one   *)
(* that dies raises SIGCHLD.                                               *)
LEMMA ChildStepCore ==
  ASSUME TypeInv, JobsCore, NEW p \in Pids, pstate[p] # "free",
         NEW st \in {"running", "stopped", "zombie"},
         pstate' = [pstate EXCEPT ![p] = st], sigchld' = TRUE,
         UNCHANGED <<job, missed, table, pc, pid, pid2>>
  PROVE  JobsCore'
<1>t. background_pids \in Seq(Pids \cup {NoPid}) /\ pstate \in [Pids -> {"free", "running", "stopped", "zombie"}]
  BY DEF TypeInv, TypeOK
<1>1. SlotsHoldUnreapedJobs'
  BY <1>t DEF JobsCore, SlotsHoldUnreapedJobs, table
<1>2. WaitsForItsOwn'
  BY <1>t DEF JobsCore, WaitsForItsOwn
<1>3. RegisteringIsOwn'
  BY <1>t DEF JobsCore, RegisteringIsOwn, Registered, table
<1>4. NoLostWakeup' /\ RegisteringNotLost'
  BY DEF NoLostWakeup, RegisteringNotLost
<1>5. NoSpuriousNotice'
  BY DEF JobsCore, NoSpuriousNotice, table
<1>6. QED
  BY <1>1, <1>2, <1>3, <1>4, <1>5 DEF JobsCore

LEMMA ChildCore ==
  ASSUME TypeInv, JobsCore, NEW p \in Pids, Child(p)
  PROVE  JobsCore'
<1>1. CASE WriteStderr(p)
  BY <1>1 DEF JobsCore, SlotsHoldUnreapedJobs, WaitsForItsOwn, RegisteringIsOwn, Registered,
     NoLostWakeup, RegisteringNotLost, NoSpuriousNotice, WriteStderr, kernel, table
<1>2. CASE Exit(p) \/ Kill(p) \/ BrokenStderr(p)
  BY <1>2, ChildStepCore DEF Exit, Kill, BrokenStderr, Dies, held
<1>3. CASE Stop(p) \/ Continue(p)
  BY <1>3, ChildStepCore DEF Stop, Continue, held
<1>4. QED
  BY <1>1, <1>2, <1>3 DEF Child

(* The handler: a scan covers every slot from its index on, and a slot is  *)
(* cleared in the same step as its job is reaped.                          *)
LEMMA DeliverCore ==
  ASSUME TypeInv, JobsCore, DeliverSigchld
  PROVE  JobsCore'
<1>t. background_pids \in Seq(Pids \cup {NoPid}) /\ pid \in Pids \cup {NoPid}
  BY DEF TypeInv, TypeOK
<1>1. SlotsHoldUnreapedJobs' /\ WaitsForItsOwn' /\ RegisteringIsOwn' /\ NoSpuriousNotice'
  BY DEF JobsCore, SlotsHoldUnreapedJobs, WaitsForItsOwn, RegisteringIsOwn, Registered,
     NoSpuriousNotice, DeliverSigchld, held
<1>2. NoLostWakeup'
  <2>1. ASSUME NEW i \in DOMAIN background_pids PROVE hi' = 1 /\ 1 <= i
    BY <1>t, <2>1, LenProperties DEF DeliverSigchld, NextSlot
  <2>2. QED
    BY <2>1 DEF NoLostWakeup, DeliverSigchld
<1>3. RegisteringNotLost'
  BY DEF JobsCore, RegisteringIsOwn, RegisteringNotLost, Registering, DeliverSigchld, held
<1>4. QED
  BY <1>1, <1>2, <1>3 DEF JobsCore

LEMMA ScanCore ==
  ASSUME TypeInv, JobsCore, ScanSlot
  PROVE  JobsCore'
<1>t. /\ background_pids \in Seq(Pids \cup {NoPid}) /\ hi \in 1 .. Len(background_pids)
      /\ DOMAIN background_pids = 1 .. Len(background_pids)
      /\ pstate \in [Pids -> {"free", "running", "stopped", "zombie"}]
      /\ job \in [Pids -> {"none", "fg", "bg", "pipe"}]
      /\ missed \subseteq Pids
  BY LenProperties DEF TypeInv, TypeOK, ScanSlot
<1>h. \A i \in 1 .. Len(background_pids) : hi < i => 0 < hi' /\ hi' <= i
  BY <1>t, LenProperties DEF ScanSlot, NextSlot
<1>1. CASE ~Done(background_pids[hi])
  <2>1. UNCHANGED <<pstate, wstatus, job, missed, background_pids, flag, owed, sigchld, held, pc>>
    BY <1>1 DEF ScanSlot
  <2>2. NoLostWakeup'
    BY <1>t, <1>h, <1>1, <2>1 DEF JobsCore, NoLostWakeup, Done
  <2>3. QED
    BY <2>1, <2>2 DEF JobsCore, SlotsHoldUnreapedJobs, WaitsForItsOwn, RegisteringIsOwn,
       Registered, RegisteringNotLost, NoSpuriousNotice, held
<1>2. CASE Done(background_pids[hi])
  <2> DEFINE p == background_pids[hi]
  <2>1. p \in Pids /\ p # NoPid /\ pstate[p] = "zombie" /\ job[p] = "bg"
    BY <1>t, <1>2, ElementOfSeq DEF JobsCore, SlotsHoldUnreapedJobs, Done
  <2>2. /\ pstate' = [pstate EXCEPT ![p] = "free"]
        /\ job' = [job EXCEPT ![p] = "none"]
        /\ missed' = missed \ {p}
        /\ owed' = TRUE
        /\ UNCHANGED <<sigchld, pid, pid2, pc>>
    BY <1>2, <2>1 DEF ScanSlot, Reap, held
  <2>3. /\ background_pids' \in Seq(Pids \cup {NoPid})
        /\ Len(background_pids') = Len(background_pids)
        /\ \A j \in 1 .. Len(background_pids) :
             background_pids'[j] = IF j = hi THEN NoPid ELSE background_pids[j]
    <3>1. background_pids' = [background_pids EXCEPT ![hi] = NoPid]
      BY <1>2 DEF ScanSlot, Cleared
    <3>2. QED
      BY <1>t, <3>1, SlotSet
  <2>4. DOMAIN background_pids' = 1 .. Len(background_pids)
    BY <2>3, LenProperties
  <2>5. \A j \in 1 .. Len(background_pids) : background_pids'[j] # p
    BY <1>t, <2>1, <2>3 DEF JobsCore, SlotsHoldUnreapedJobs
  <2>6. SlotsHoldUnreapedJobs'
    <3>1. SUFFICES ASSUME NEW i \in 1 .. Len(background_pids), background_pids'[i] # NoPid
                   PROVE  /\ pstate'[background_pids'[i]] # "free"
                          /\ job'[background_pids'[i]] = "bg"
                          /\ \A j \in 1 .. Len(background_pids) :
                               background_pids'[j] = background_pids'[i] => i = j
      BY <2>4 DEF SlotsHoldUnreapedJobs
    <3>2. i # hi /\ background_pids'[i] = background_pids[i] /\ background_pids[i] # p
      BY <2>3, <2>5, <3>1
    <3>3. background_pids[i] \in Pids
      BY <1>t, <3>1, <3>2, ElementOfSeq
    <3>4. QED
      BY <1>t, <2>1, <2>2, <2>3, <3>1, <3>2, <3>3 DEF JobsCore, SlotsHoldUnreapedJobs
  <2>7. WaitsForItsOwn'
    BY <1>t, <2>1, <2>2 DEF JobsCore, WaitsForItsOwn
  <2>8. RegisteringIsOwn'
    <3>1. pc \in {"count", "store"} => pid # p
      BY <1>t DEF JobsCore, RegisteringIsOwn, Registered
    <3>2. pc \in {"count", "store"} =>
            pid' \in Pids /\ pstate'[pid'] # "free" /\ job'[pid'] = "bg"
      BY <1>t, <2>1, <2>2, <3>1 DEF JobsCore, RegisteringIsOwn
    <3>3. pc \in {"count", "store"} => ~Registered(pid)'
      BY <1>t, <2>2, <2>3, <2>4, <3>2, JobControlAssumption DEF JobsCore, RegisteringIsOwn, Registered
    <3>4. pc = "store" => /\ Len(background_pids') > 0
                          /\ background_pids'[Len(background_pids')] = NoPid
      BY <1>t, <2>3 DEF JobsCore, RegisteringIsOwn
    <3>5. QED
      BY <2>2, <3>2, <3>3, <3>4 DEF RegisteringIsOwn
  <2>9. NoLostWakeup'
    <3>1. SUFFICES ASSUME NEW i \in 1 .. Len(background_pids), background_pids'[i] # NoPid,
                          pstate'[background_pids'[i]] = "zombie",
                          background_pids'[i] \notin missed', ~sigchld'
                   PROVE  0 < hi' /\ hi' <= i
      BY <2>4 DEF NoLostWakeup
    <3>2. i # hi /\ background_pids'[i] = background_pids[i] /\ background_pids[i] # p
      BY <2>3, <2>5, <3>1
    <3>3. background_pids[i] \in Pids
      BY <1>t, <3>1, <3>2, ElementOfSeq
    <3>4. hi <= i
      BY <1>t, <2>1, <2>2, <3>1, <3>2, <3>3 DEF JobsCore, NoLostWakeup
    <3>5. QED
      BY <1>t, <1>h, <3>2, <3>4
  <2>10. RegisteringNotLost'
    BY <1>t, <2>1, <2>2 DEF JobsCore, RegisteringIsOwn, RegisteringNotLost
  <2>11. NoSpuriousNotice'
    BY <2>2 DEF NoSpuriousNotice
  <2>12. QED
    BY <2>6, <2>7, <2>8, <2>9, <2>10, <2>11 DEF JobsCore
<1>3. QED
  BY <1>1, <1>2

(* The shell's own waits reap no background job; its forks get identifiers *)
(* no slot names.                                                          *)
LEMMA ReapKeepsSlots ==
  ASSUME TypeInv, SlotsHoldUnreapedJobs, NoLostWakeup,
         NEW p \in Pids, job[p] # "bg", Reap(p), UNCHANGED <<sigchld, background_pids, hi>>
  PROVE  SlotsHoldUnreapedJobs' /\ NoLostWakeup'
<1>t. /\ pstate \in [Pids -> {"free", "running", "stopped", "zombie"}]
      /\ job \in [Pids -> {"none", "fg", "bg", "pipe"}]
      /\ \A i \in DOMAIN background_pids : background_pids[i] \in Pids \cup {NoPid}
  BY ElementOfSeq, LenProperties DEF TypeInv, TypeOK
<1>1. \A i \in DOMAIN background_pids : background_pids[i] # NoPid =>
        background_pids[i] \in Pids /\ background_pids[i] # p
  BY <1>t DEF SlotsHoldUnreapedJobs
<1>2. SlotsHoldUnreapedJobs'
  BY <1>t, <1>1 DEF SlotsHoldUnreapedJobs, Reap
<1>3. NoLostWakeup'
  BY <1>t, <1>1 DEF NoLostWakeup, Reap
<1>4. QED
  BY <1>2, <1>3

LEMMA ForkKeepsSlots ==
  ASSUME TypeInv, SlotsHoldUnreapedJobs, NoLostWakeup,
         NEW p \in Pids, NEW role, Fork(p, role), UNCHANGED <<background_pids, hi>>
  PROVE  /\ SlotsHoldUnreapedJobs' /\ NoLostWakeup' /\ ~Registered(p)'
         /\ pstate'[p] = "running" /\ job'[p] = role
<1>t. /\ pstate \in [Pids -> {"free", "running", "stopped", "zombie"}]
      /\ job \in [Pids -> {"none", "fg", "bg", "pipe"}]
      /\ \A i \in DOMAIN background_pids : background_pids[i] \in Pids \cup {NoPid}
  BY ElementOfSeq, LenProperties DEF TypeInv, TypeOK
<1>1. \A i \in DOMAIN background_pids : background_pids[i] # p
  BY JobControlAssumption DEF SlotsHoldUnreapedJobs, Fork
<1>2. SlotsHoldUnreapedJobs'
  BY <1>t, <1>1 DEF SlotsHoldUnreapedJobs, Fork
<1>3. NoLostWakeup'
  BY <1>t, <1>1 DEF NoLostWakeup, Fork
<1>4. ~Registered(p)'
  BY <1>1 DEF Registered
<1>5. QED
  BY <1>t, <1>2, <1>3, <1>4 DEF Fork

LEMMA KeyLoopCore ==
  ASSUME TypeInv, JobsCore, PrintNotice \/ ClearFlag \/ NoNotice \/ EndOfLine \/ Key
  PROVE  JobsCore'
BY DEF JobsCore, SlotsHoldUnreapedJobs, WaitsForItsOwn, RegisteringIsOwn, Registered,
   NoLostWakeup, RegisteringNotLost, NoSpuriousNotice, PrintNotice, ClearFlag, NoNotice,
   EndOfLine, Key, At, kernel, table, held

LEMMA ForegroundCore ==
  ASSUME TypeInv, JobsCore, Poll \/ StillRunning \/ WaitReturns \/ DrainStderr \/ FinishForeground
  PROVE  JobsCore'
<1>1. CASE Poll \/ StillRunning \/ DrainStderr
  BY <1>1 DEF JobsCore, SlotsHoldUnreapedJobs, WaitsForItsOwn, RegisteringIsOwn, Registered,
     NoLostWakeup, RegisteringNotLost, NoSpuriousNotice, Poll, StillRunning, DrainStderr, At,
     kernel, table, held
<1>2. CASE WaitReturns
  <2>1. pid \in Pids /\ job[pid] = "fg" /\ pc = "wait"
    BY <1>2 DEF JobsCore, WaitsForItsOwn, WaitReturns, At
  <2>2. SlotsHoldUnreapedJobs' /\ NoLostWakeup'
    <3>1. CASE pstate[pid] = "zombie"
      BY <1>2, <2>1, <3>1, ReapKeepsSlots DEF JobsCore, WaitReturns, table
    <3>2. CASE pstate[pid] # "zombie"
      BY <1>2, <3>2 DEF JobsCore, SlotsHoldUnreapedJobs, NoLostWakeup, WaitReturns, kernel, table
    <3>3. QED
      BY <3>1, <3>2
  <2>3. pc' = "drain" /\ UNCHANGED table
    BY <1>2 DEF WaitReturns
  <2>4. WaitsForItsOwn' /\ RegisteringIsOwn' /\ RegisteringNotLost' /\ NoSpuriousNotice'
    BY <2>1, <2>3 DEF JobsCore, WaitsForItsOwn, RegisteringIsOwn, RegisteringNotLost, NoSpuriousNotice, table
  <2>5. QED
    BY <2>2, <2>4 DEF JobsCore
<1>3. CASE FinishForeground
  <2>1. pc = "drain" /\ pc' = "done" /\ UNCHANGED <<kernel, table>>
    BY <1>3 DEF FinishForeground, At
  <2>2. SlotsHoldUnreapedJobs' /\ NoLostWakeup'
    BY <2>1 DEF JobsCore, SlotsHoldUnreapedJobs, NoLostWakeup, kernel, table
  <2>3. WaitsForItsOwn' /\ RegisteringIsOwn' /\ RegisteringNotLost' /\ NoSpuriousNotice'
    BY <2>1 DEF JobsCore, WaitsForItsOwn, RegisteringIsOwn, RegisteringNotLost, NoSpuriousNotice, table
  <2>4. QED
    BY <2>2, <2>3 DEF JobsCore
<1>4. QED
  BY <1>1, <1>2, <1>3

LEMMA CountJobCore ==
  ASSUME TypeInv, JobsCore, CountJob
  PROVE  JobsCore'
<1>t. /\ background_pids \in Seq(Pids \cup {NoPid})
      /\ DOMAIN background_pids = 1 .. Len(background_pids)
      /\ Len(background_pids) \in Nat
  BY LenProperties DEF TypeInv, TypeOK
<1>1. /\ Len(background_pids') = Len(background_pids) + 1
      /\ DOMAIN background_pids' = 1 .. (Len(background_pids) + 1)
      /\ \A i \in 1 .. Len(background_pids) : background_pids'[i] = background_pids[i]
      /\ background_pids'[Len(background_pids) + 1] = NoPid
  <2>1. /\ background_pids' = Append(background_pids, NoPid)
        /\ background_pids' \in Seq(Pids \cup {NoPid})
    BY <1>t, SlotAdded DEF CountJob
  <2>2. Len(background_pids') = Len(background_pids) + 1
    BY <1>t, <2>1, SlotAdded
  <2>3. DOMAIN background_pids' = 1 .. Len(background_pids')
    BY <2>1, LenProperties
  <2>4. QED
    BY <1>t, <2>1, <2>2, <2>3, SlotAdded
<1>2. \A i \in DOMAIN background_pids' : background_pids'[i] # NoPid =>
        i \in 1 .. Len(background_pids) /\ background_pids'[i] = background_pids[i]
  BY <1>t, <1>1
<1>3. /\ pc = "count" /\ pc' = "store" /\ UNCHANGED <<pstate, job, sigchld, missed>>
      /\ UNCHANGED <<flag, hi, owed, pid, pid2>>
  BY DEF CountJob, At, kernel, held
<1>4. SlotsHoldUnreapedJobs'
  BY <1>t, <1>2, <1>3 DEF JobsCore, SlotsHoldUnreapedJobs
<1>5. NoLostWakeup'
  BY <1>t, <1>2, <1>3 DEF JobsCore, NoLostWakeup
<1>6. RegisteringIsOwn'
  <2>1. pid \in Pids /\ pstate[pid] # "free" /\ job[pid] = "bg" /\ ~Registered(pid)
    BY <1>3 DEF JobsCore, RegisteringIsOwn
  <2>2. ~Registered(pid)'
    BY <1>t, <1>2, <1>3, <2>1, JobControlAssumption DEF Registered
  <2>3. QED
    BY <1>t, <1>1, <1>3, <2>1, <2>2 DEF RegisteringIsOwn
<1>7. WaitsForItsOwn' /\ RegisteringNotLost' /\ NoSpuriousNotice'
  BY <1>3 DEF JobsCore, WaitsForItsOwn, RegisteringNotLost, NoSpuriousNotice
<1>8. QED
  BY <1>4, <1>5, <1>6, <1>7 DEF JobsCore

(* The stored job is in no other slot, and if it is dead already either    *)
(* the last scan missed it or its signal is still pending.                 *)
LEMMA StoreJobCore ==
  ASSUME TypeInv, JobsCore, StoreJob
  PROVE  JobsCore'
<1>t. /\ background_pids \in Seq(Pids \cup {NoPid})
      /\ DOMAIN background_pids = 1 .. Len(background_pids)
      /\ Len(background_pids) \in Nat
  BY LenProperties DEF TypeInv, TypeOK
<1> DEFINE last == Len(background_pids)
<1>1. /\ pc = "store" /\ pc' = "done" /\ UNCHANGED <<pstate, job, sigchld, missed>>
      /\ UNCHANGED <<flag, hi, owed, pid2>>
  BY DEF StoreJob, At, kernel
<1>2. /\ pid \in Pids /\ pstate[pid] # "free" /\ job[pid] = "bg" /\ ~Registered(pid)
      /\ last > 0 /\ background_pids[last] = NoPid
  BY <1>1 DEF JobsCore, RegisteringIsOwn
<1>3. /\ DOMAIN background_pids' = 1 .. last
      /\ \A i \in 1 .. last : background_pids'[i] = IF i = last THEN pid ELSE background_pids[i]
  <2>1. background_pids' = [background_pids EXCEPT ![last] = pid]
    BY DEF StoreJob
  <2>2. last \in 1 .. Len(background_pids)
    BY <1>t, <1>2
  <2>3. background_pids' \in Seq(Pids \cup {NoPid}) /\ Len(background_pids') = last
    BY <1>t, <1>2, <2>1, <2>2, SlotSet
  <2>4. QED
    BY <1>t, <1>2, <2>1, <2>2, <2>3, SlotSet, LenProperties
<1>4. \A i \in 1 .. last : background_pids[i] # pid
  BY <1>t, <1>2 DEF Registered
<1>5. SlotsHoldUnreapedJobs'
  <2>1. \A i \in 1 .. last : background_pids[i] # NoPid =>
          /\ pstate[background_pids[i]] # "free" /\ job[background_pids[i]] = "bg"
          /\ \A j \in 1 .. last : background_pids[j] = background_pids[i] => i = j
    BY <1>t DEF JobsCore, SlotsHoldUnreapedJobs
  <2>2. \A i \in 1 .. last : background_pids'[i] # NoPid =>
          pstate[background_pids'[i]] # "free" /\ job[background_pids'[i]] = "bg"
    BY <1>2, <1>3, <2>1
  <2>3. \A i, j \in 1 .. last :
          (background_pids'[i] # NoPid /\ background_pids'[j] = background_pids'[i]) => i = j
    BY <1>3, <1>4, <2>1
  <2>4. QED
    BY <1>1, <1>3, <2>2, <2>3 DEF SlotsHoldUnreapedJobs
<1>6. NoLostWakeup'
  <2>1. (pstate[pid] = "zombie" /\ pid \notin missed) => sigchld
    BY <1>1 DEF JobsCore, RegisteringNotLost
  <2>2. SUFFICES ASSUME NEW i \in 1 .. last,
                        background_pids'[i] # NoPid,
                        pstate[background_pids'[i]] = "zombie",
                        background_pids'[i] \notin missed
                 PROVE  sigchld \/ (0 < hi /\ hi <= i)
    BY <1>1, <1>3 DEF NoLostWakeup
  <2>3. CASE i = last
    BY <1>3, <2>1, <2>2, <2>3
  <2>4. CASE i # last
    <3>1. background_pids'[i] = background_pids[i]
      BY <1>3, <2>4
    <3>2. i \in DOMAIN background_pids
      BY <1>t
    <3>3. QED
      BY <2>2, <3>1, <3>2 DEF JobsCore, NoLostWakeup
  <2>5. QED
    BY <2>3, <2>4
<1>7. WaitsForItsOwn' /\ RegisteringIsOwn' /\ RegisteringNotLost' /\ NoSpuriousNotice'
  <2>1. WaitsForItsOwn'
    BY <1>1 DEF WaitsForItsOwn
  <2>2. RegisteringIsOwn' /\ RegisteringNotLost'
    BY <1>1 DEF RegisteringIsOwn, RegisteringNotLost
  <2>3. NoSpuriousNotice'
    BY <1>1 DEF JobsCore, NoSpuriousNotice
  <2>4. QED
    BY <2>1, <2>2, <2>3
<1>8. QED
  BY <1>5, <1>6, <1>7 DEF JobsCore

LEMMA PipelineCore ==
  ASSUME ~ForkMayFail, TypeInv, JobsCore, ForkSecond \/ WaitFirst \/ WaitSecond
  PROVE  JobsCore'
<1>t. /\ pstate \in [Pids -> {"free", "running", "stopped", "zombie"}]
      /\ job \in [Pids -> {"none", "fg", "bg", "pipe"}]
  BY DEF TypeInv, TypeOK
<1>1. CASE ForkSecond
  <2>1. PICK p \in Pids : Fork(p, "pipe") /\ pid2' = p
    BY <1>1 DEF ForkSecond
  <2>2. pc = "fork2" /\ pc' = "wait1" /\ UNCHANGED <<table, pid>>
    BY <1>1 DEF ForkSecond, At
  <2>3. SlotsHoldUnreapedJobs' /\ NoLostWakeup' /\ pstate'[p] = "running" /\ job'[p] = "pipe"
    BY <2>1, <2>2, ForkKeepsSlots DEF JobsCore, table
  <2>4. WaitsForItsOwn'
    BY <1>t, <2>1, <2>2, <2>3 DEF JobsCore, WaitsForItsOwn, Fork
  <2>5. RegisteringIsOwn' /\ RegisteringNotLost' /\ NoSpuriousNotice'
    BY <2>2 DEF JobsCore, RegisteringIsOwn, RegisteringNotLost, NoSpuriousNotice, table
  <2>6. QED
    BY <2>3, <2>4, <2>5 DEF JobsCore
<1>2. ASSUME NEW q \in Pids, pstate[q] # "free", job[q] = "pipe", WaitFor(q), UNCHANGED table
      PROVE  /\ pstate[q] = "zombie" /\ Reap(q)
             /\ SlotsHoldUnreapedJobs' /\ NoLostWakeup'
  <2>1. Awaited(q) = {q}
    BY <1>2, JobControlAssumption DEF Awaited, Unreaped
  <2>2. pstate[q] = "zombie" /\ Reap(q) /\ UNCHANGED sigchld
    BY <1>2, <2>1 DEF WaitFor
  <2>3. SlotsHoldUnreapedJobs' /\ NoLostWakeup'
    BY <1>2, <2>2, ReapKeepsSlots DEF JobsCore, table
  <2>4. QED
    BY <2>2, <2>3
<1>3. CASE WaitFirst
  <2>1. /\ pc = "wait1" /\ pc' = "wait2" /\ UNCHANGED <<table, pid2>>
        /\ pid' = NoPid /\ WaitFor(pid)
    BY <1>3 DEF WaitFirst, At
  <2>2. /\ pid \in Pids /\ pstate[pid] # "free" /\ job[pid] = "pipe"
        /\ pid2 \in Pids /\ pstate[pid2] # "free" /\ job[pid2] = "pipe" /\ pid2 # pid
    BY <2>1 DEF JobsCore, WaitsForItsOwn
  <2>3. Reap(pid) /\ SlotsHoldUnreapedJobs' /\ NoLostWakeup'
    BY <1>2, <2>1, <2>2
  <2>4. WaitsForItsOwn'
    BY <1>t, <2>1, <2>2, <2>3, JobControlAssumption DEF WaitsForItsOwn, Reap
  <2>5. RegisteringIsOwn' /\ RegisteringNotLost' /\ NoSpuriousNotice'
    BY <2>1 DEF JobsCore, RegisteringIsOwn, RegisteringNotLost, NoSpuriousNotice, table
  <2>6. QED
    BY <2>3, <2>4, <2>5 DEF JobsCore
<1>4. CASE WaitSecond
  <2>1. pc = "wait2" /\ pc' = "done" /\ UNCHANGED table /\ WaitFor(pid2)
    BY <1>4 DEF WaitSecond, At
  <2>2. pid2 \in Pids /\ pstate[pid2] # "free" /\ job[pid2] = "pipe"
    BY <2>1 DEF JobsCore, WaitsForItsOwn
  <2>3. SlotsHoldUnreapedJobs' /\ NoLostWakeup'
    BY <1>2, <2>1, <2>2
  <2>4. WaitsForItsOwn' /\ RegisteringIsOwn' /\ RegisteringNotLost' /\ NoSpuriousNotice'
    BY <2>1 DEF JobsCore, WaitsForItsOwn, RegisteringIsOwn, RegisteringNotLost, NoSpuriousNotice, table
  <2>5. QED
    BY <2>3, <2>4 DEF JobsCore
<1>5. QED
  BY <1>1, <1>3, <1>4

LEMMA LaunchCore ==
  ASSUME ~ForkMayFail, TypeInv, JobsCore, Launch
  PROVE  JobsCore'
<1>1. pc \in {"getchar", "done"} /\ UNCHANGED table /\ ~LaunchFails
  BY DEF Launch, LaunchFails, LaunchForeground, LaunchBackground, ForkFirst, Launching
<1>2. PICK p \in Pids, role \in {"fg", "bg", "pipe"} :
        /\ Fork(p, role) /\ pid' = p
        /\ pc' \in {"poll", "count", "fork2"}
        /\ pc' = "poll" <=> role = "fg"
        /\ pc' = "count" <=> role = "bg"
  BY <1>1 DEF Launch, LaunchForeground, LaunchBackground, ForkFirst
<1>3. /\ SlotsHoldUnreapedJobs' /\ NoLostWakeup' /\ ~Registered(p)'
      /\ pstate'[p] = "running" /\ job'[p] = role
  BY <1>1, <1>2, ForkKeepsSlots DEF JobsCore, table
<1>4. WaitsForItsOwn' /\ RegisteringIsOwn' /\ RegisteringNotLost'
  BY <1>2, <1>3 DEF WaitsForItsOwn, RegisteringIsOwn, RegisteringNotLost, Registered
<1>5. NoSpuriousNotice'
  BY <1>1 DEF JobsCore, NoSpuriousNotice, table
<1>6. QED
  BY <1>3, <1>4, <1>5 DEF JobsCore

LEMMA InitCore == Init => JobsCore
<1>1. SUFFICES ASSUME Init PROVE JobsCore
  OBVIOUS
<1>2. DOMAIN background_pids = {}
  BY <1>1 DEF Init
<1>3. QED
  BY <1>1, <1>2 DEF Init, JobsCore, SlotsHoldUnreapedJobs, WaitsForItsOwn, RegisteringIsOwn,
     NoLostWakeup, RegisteringNotLost, NoSpuriousNotice

LEMMA CoreStep ==
  ASSUME ~ForkMayFail
  PROVE  TypeInv /\ JobsCore /\ [Next]_vars => JobsCore'
<1>1. SUFFICES ASSUME TypeInv, JobsCore, [Next]_vars PROVE JobsCore'
  OBVIOUS
<1>2. CASE \E p \in Pids : Child(p)
  BY <1>1, <1>2, ChildCore
<1>3. CASE Handler
  BY <1>1, <1>3, DeliverCore, ScanCore DEF Handler
<1>4. CASE ShellStep
  BY <1>1, <1>4, KeyLoopCore, ForegroundCore, CountJobCore, StoreJobCore, PipelineCore DEF ShellStep
<1>5. CASE Launch
  BY <1>1, <1>5, LaunchCore
<1>6. CASE EndOfLine \/ Key
  BY <1>1, <1>6, KeyLoopCore
<1>7. CASE UNCHANGED vars
  BY <1>1, <1>7 DEF JobsCore, SlotsHoldUnreapedJobs, WaitsForItsOwn, RegisteringIsOwn, Registered,
     NoLostWakeup, RegisteringNotLost, NoSpuriousNotice, vars, kernel, table, held
<1>8. QED
  BY <1>1, <1>2, <1>3, <1>4, <1>5, <1>6, <1>7 DEF Next

LEMMA CoreInvariant ==
  ASSUME ~ForkMayFail
  PROVE  Spec => []JobsCore
BY InitCore, CoreStep, TypeInvariant, PTL DEF Spec

(* sigchld_handler and lsh_launch share the identifiers correctly: a slot  *)
(* never outlives its job, so it never names a reused identifier.          *)
THEOREM SlotsCorrect ==
  ASSUME ~ForkMayFail
  PROVE  Spec => []SlotsHoldUnreapedJobs
<1>1. JobsCore => SlotsHoldUnreapedJobs
  BY DEF JobsCore
<1>2. QED
  BY <1>1, CoreInvariant, PTL

(* The handler never reaps the child a foreground launch waits for.        *)
THEOREM ForegroundCorrect ==
  ASSUME ~ForkMayFail
  PROVE  Spec => []WaitsForItsOwn
<1>1. JobsCore => WaitsForItsOwn
  BY DEF JobsCore
<1>2. QED
  BY <1>1, CoreInvariant, PTL

(* Signals that coalesce, or arrive in the middle of a scan, lose no       *)
(* registered job.                                                         *)
THEOREM WakeupsCorrect ==
  ASSUME ~ForkMayFail
  PROVE  Spec => []NoLostWakeup
<1>1. JobsCore => NoLostWakeup
  BY DEF JobsCore
<1>2. QED
  BY <1>1, CoreInvariant, PTL

(* No "[done]" without a background job that is done.                      *)
THEOREM NoticesCorrect ==
  ASSUME ~ForkMayFail
  PROVE  Spec => []NoSpuriousNotice
<1>1. JobsCore => NoSpuriousNotice
  BY DEF JobsCore
<1>2. QED
  BY <1>1, CoreInvariant, PTL
-----------------------------------------------------------------------------
(* What lsh_launch collects of stderr, whatever fork() returns.            *)

LEMMA ReadKeepsStderrRead ==
  ASSUME TypeOK, StderrRead, ReadStderr
  PROVE  StderrRead'
<1>1. /\ stderr.unread \in Nat /\ stderr.got \in Nat /\ stderr.all \in Nat
      /\ ErrCap \in Nat /\ ReadMax \in Nat
  BY JobControlAssumption DEF TypeOK
<1>2. PICK n \in 1 .. ReadMax :
        /\ n <= stderr.unread
        /\ stderr'.unread = stderr.unread - n /\ stderr'.all = stderr.all
        /\ stderr'.got = Appended(stderr.got, n)
  BY ReadType
<1>3. n \in Nat /\ n <= ReadMax
  BY <1>1, <1>2
<1> DEFINE read == stderr.all - stderr.unread
<1>4. stderr'.all - stderr'.unread = read + n
  BY <1>1, <1>2, <1>3
<1>5. CASE stderr.got + n < ErrCap
  <2>1. stderr'.got = stderr.got + n
    BY <1>2, <1>5 DEF Appended
  <2>2. QED
    BY <1>1, <1>2, <1>3, <1>4, <1>5, <2>1 DEF StderrRead
<1>6. CASE ~(stderr.got + n < ErrCap)
  <2>1. stderr'.got = stderr.got
    BY <1>2, <1>6 DEF Appended
  <2>2. stderr.got >= ErrCap - ReadMax
    BY <1>1, <1>3, <1>6
  <2>3. read + n >= ErrCap
    BY <1>1, <1>3, <1>6 DEF StderrRead
  <2>4. QED
    BY <1>1, <1>2, <1>3, <1>4, <2>1, <2>2, <2>3 DEF StderrRead
<1>7. QED
  BY <1>5, <1>6

LEMMA StderrStep == TypeInv /\ StderrRead /\ StderrComplete /\ [Next]_vars
                      => StderrRead' /\ StderrComplete'
<1>1. SUFFICES ASSUME TypeInv, StderrRead, StderrComplete, [Next]_vars
               PROVE  StderrRead' /\ StderrComplete'
  OBVIOUS
<1>t. /\ stderr \in [unread : Nat, got : Nat, all : Nat]
      /\ result \in [how : Statuses, ask : BOOLEAN, err : Nat, all : Nat]
      /\ ErrCap \in Nat \ {0} /\ ReadMax \in 1 .. ErrCap - 1
  BY <1>1, JobControlAssumption DEF TypeInv, TypeOK
<1>2. CASE UNCHANGED <<stderr, result, last_exit_status>> /\ (pc = "drain" => pc' = "drain")
  BY <1>1, <1>2 DEF StderrRead, StderrComplete
<1>3. CASE \E p \in Pids : WriteStderr(p)
  <2>1. /\ stderr' = [stderr EXCEPT !.unread = @ + 1, !.all = @ + 1]
        /\ UNCHANGED <<result, last_exit_status, pc>>
    BY <1>3 DEF WriteStderr
  <2>2. /\ stderr'.unread = stderr.unread + 1 /\ stderr'.all = stderr.all + 1
        /\ stderr'.got = stderr.got
    BY <1>t, <2>1
  <2>3. StderrRead'
    BY <1>1, <1>t, <2>2 DEF StderrRead
  <2>4. QED
    BY <1>1, <2>1, <2>3 DEF StderrComplete
<1>4. CASE Poll \/ DrainStderr
  <2>1. /\ UNCHANGED <<result, last_exit_status>> /\ (pc = "drain" => pc' = "drain")
        /\ stderr' = stderr \/ ReadStderr
    BY <1>4 DEF Poll, DrainStderr, At
  <2>2. StderrRead'
    BY <1>1, <2>1, ReadKeepsStderrRead DEF StderrRead, TypeInv
  <2>3. QED
    BY <1>1, <2>1, <2>2 DEF StderrComplete
<1>5. CASE WaitReturns
  BY <1>1, <1>5 DEF WaitReturns, StderrRead, StderrComplete
<1>6. CASE FinishForeground
  <2>1. /\ stderr' = NoErr /\ stderr.unread = 0
        /\ result'.all = stderr.all /\ result'.err = stderr.got
        /\ result'.ask = (last_exit_status' # 0 /\ stderr.got > 0)
    BY <1>6, <1>t DEF FinishForeground, PipeEmpty
  <2>2. StderrRead'
    BY <1>t, <2>1 DEF StderrRead, NoErr
  <2>3. /\ stderr.got < ErrCap
        /\ stderr.all < ErrCap => stderr.got = stderr.all
        /\ stderr.all >= ErrCap => stderr.got >= ErrCap - ReadMax
    BY <1>1, <1>t, <2>1 DEF StderrRead
  <2>4. stderr.got > 0 <=> stderr.all > 0
    BY <1>t, <2>3
  <2>5. QED
    BY <2>1, <2>2, <2>3, <2>4 DEF StderrComplete
<1>7. CASE LaunchForeground
  <2>1. stderr' = NoErr /\ result' = NoResult
    BY <1>7 DEF LaunchForeground
  <2>2. QED
    BY <1>t, <2>1 DEF StderrRead, StderrComplete, NoErr, NoResult
<1>8. CASE UNCHANGED vars
  BY <1>2, <1>8 DEF vars, held
<1>9. QED
  BY <1>1, <1>2, <1>3, <1>4, <1>5, <1>6, <1>7, <1>8 DEF Next, Child, Exit, Kill, BrokenStderr,
     Dies, Stop, Continue, Handler, DeliverSigchld, ScanSlot, ShellStep, PrintNotice, ClearFlag,
     NoNotice, StillRunning, CountJob, StoreJob, ForkSecond, WaitFirst, WaitSecond, Launch,
     Launching, LaunchFails, LaunchBackground, ForkFirst, EndOfLine, Key, At, held

LEMMA StderrInit == Init => StderrRead /\ StderrComplete
BY JobControlAssumption DEF Init, StderrRead, StderrComplete, NoErr, NoResult

(* However its writes interleave with the reads of lsh_launch, a command's *)
(* stderr is in error_buf when it is over, whole if it fits and otherwise  *)
(* up to less than one read of the capacity; and a failed command is put   *)
(* to ask_ai iff it wrote to stderr at all.                                *)
THEOREM StderrCorrect == Spec => []StderrComplete
BY StderrInit, StderrStep, TypeInvariant, PTL DEF Spec
=============================================================================
