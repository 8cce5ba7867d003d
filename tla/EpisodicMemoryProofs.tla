------------------------ MODULE EpisodicMemoryProofs ------------------------
(***************************************************************************)
(* Invariance proofs for EpisodicMemory: for any shells, commands, number  *)
(* of lines, crashes and order of delivery, the consolidator promotes no   *)
(* command twice in one life of the daemon and no rule against the clock.  *)
(***************************************************************************)
EXTENDS EpisodicMemory, FiniteSetTheorems, SequenceTheorems, TLAPS

(* What is on disk is finite, so that a scan of it is a sequence.          *)
TypeInv == TypeOK /\ IsFiniteSet(fjall)

(* A scan is in chronological order, reads only what is on disk and ends   *)
(* no earlier than the last one did.                                       *)
Time(r) == r.log.start_timestamp

ScanInv ==
  /\ \A i, j \in DOMAIN scan : i < j => Before(scan[i], scan[j])
  /\ \A i \in DOMAIN scan : scan[i] \in fjall
  /\ window > 0 => last_processed_timestamp <= Time(scan[Len(scan)])
  /\ last_processed_timestamp > 0 =>
       \E r \in fjall : Time(r) = last_processed_timestamp

(* A fix promoted in this life is either covered by the last finished scan *)
(* or lies behind the window of the running one.                           *)
Covered(r) ==
  \/ Time(r) <= last_processed_timestamp
  \/ \E k \in 2 .. window : scan[k] = r

PromotionInv ==
  /\ \A i \in DOMAIN lancedb : lancedb[i].life <= life
  /\ up => \A i \in DOMAIN lancedb : lancedb[i].life = life => Covered(lancedb[i].curr)
  /\ PromotedOncePerLife
  /\ RulesFollowTheClock
-----------------------------------------------------------------------------
LEMMA TypeInit == Init => TypeInv
<1>1. SUFFICES ASSUME Init PROVE TypeInv
  OBVIOUS
<1>2. history \in Seq(Telemetry) /\ scan \in Seq(Stored) /\ Len(scan) = 0
  BY <1>1 DEF Init
<1>3. lancedb \in Seq([prev : Stored, curr : Stored, life : 1 .. MaxLives])
  BY <1>1 DEF Init
<1>4. IsFiniteSet(fjall)
  BY <1>1, FS_EmptySet DEF Init
<1>5. QED
  BY <1>1, <1>2, <1>3, <1>4, MemoryAssumption DEF Init, TypeInv, TypeOK

LEMMA ExecuteType ==
  ASSUME TypeInv, NEW s \in Sessions, NEW c \in Commands, NEW outcome \in Outcomes,
         Execute(s, c, outcome)
  PROVE  TypeInv'
<1> DEFINE log == [id |-> Len(history) + 1, session_id |-> s, raw_command |-> c,
                   exit_code |-> last_exit_status'[s], outcome |-> outcome,
                   start_timestamp |-> now]
<1>1. last_exit_status' \in [Sessions -> {0, 1, 19}]
  BY DEF TypeInv, TypeOK, Execute, WEXITSTATUS
<1>2. Len(history) + 1 \in 1 .. MaxCommands
  BY LenProperties, MemoryAssumption DEF TypeInv, TypeOK, Execute
<1>3. log \in Telemetry
  BY <1>1, <1>2 DEF TypeInv, TypeOK, Telemetry
<1>4. history' = Append(history, log) /\ inflight' \subseteq inflight \cup {log}
  BY DEF Execute
<1>5. history' \in Seq(Telemetry) /\ inflight' \subseteq Telemetry
  BY <1>3, <1>4, AppendProperties DEF TypeInv, TypeOK
<1>6. QED
  BY <1>1, <1>5 DEF TypeInv, TypeOK, Execute, scanner

LEMMA PersistType ==
  ASSUME TypeInv, NEW log \in inflight, NEW key \in 1 .. MaxCommands, Persist(log, key)
  PROVE  TypeInv'
<1>1. [log |-> log, key |-> key] \in Stored
  BY DEF TypeInv, TypeOK, Stored
<1>2. IsFiniteSet(fjall')
  BY FS_AddElement DEF TypeInv, Persist
<1>3. QED
  BY <1>1, <1>2 DEF TypeInv, TypeOK, Persist, shells, scanner

LEMMA DropType ==
  ASSUME TypeInv, NEW log \in inflight, Drop(log)
  PROVE  TypeInv'
BY DEF TypeInv, TypeOK, Drop, shells, scanner

(* What get_all_commands returns.                                          *)
LEMMA ScanIsChronological ==
  ASSUME TypeInv, StartScan
  PROVE  /\ scan' \in Seq(Stored)
         /\ Len(scan') \in Nat \ {0, 1} /\ DOMAIN scan' = 1 .. Len(scan')
         /\ \A i, j \in DOMAIN scan' : i < j => Before(scan'[i], scan'[j])
         /\ \A i \in DOMAIN scan' : scan'[i] \in fjall
         /\ \A r \in fjall : \E i \in DOMAIN scan' : scan'[i] = r
<1> DEFINE n == Cardinality(fjall)
<1>1. n \in Nat /\ n >= 2
  BY FS_CardinalityType DEF TypeInv, StartScan
<1>2. scan' \in [1 .. n -> fjall] /\ Chronological(scan')
  BY DEF StartScan, get_all_commands
<1>3. \A r \in fjall : \E i \in 1 .. n : scan'[i] = r
  BY <1>2 DEF Chronological, Bijection, Surjection
<1>4. scan' \in Seq(Stored) /\ Len(scan') = n
  <2>1. scan' \in [1 .. n -> Stored]
    BY <1>2 DEF TypeInv, TypeOK
  <2>2. QED
    BY <1>1, <2>1
<1>5. DOMAIN scan' = 1 .. n
  BY <1>2
<1>6. QED
  BY <1>1, <1>2, <1>3, <1>4, <1>5 DEF Chronological

LEMMA ConsolidatorType ==
  ASSUME TypeInv, Consolidator
  PROVE  TypeInv'
<1>1. CASE StartScan
  <2>1. scan' \in Seq(Stored) /\ 1 \in 0 .. Len(scan')
    BY <1>1, ScanIsChronological
  <2>2. QED
    BY <1>1, <2>1 DEF TypeInv, TypeOK, StartScan, shells
<1>2. CASE ScanWindow
  <2>1. /\ scan \in Seq(Stored) /\ Len(scan) \in Nat
        /\ window \in 1 .. Len(scan) /\ window + 1 \in 1 .. Len(scan)
    BY <1>2, LenProperties DEF TypeInv, TypeOK, ScanWindow
  <2>2. scan[window] \in Stored /\ scan[window + 1] \in Stored
    BY <2>1, ElementOfSeq
  <2>r. [prev |-> scan[window], curr |-> scan[window + 1], life |-> life]
          \in [prev : Stored, curr : Stored, life : 1 .. MaxLives]
    BY <2>2 DEF TypeInv, TypeOK
  <2>3. lancedb' \in Seq([prev : Stored, curr : Stored, life : 1 .. MaxLives])
    <3>1. CASE lancedb' = Append(lancedb, [prev |-> scan[window], curr |-> scan[window + 1],
                                           life |-> life])
      BY <2>r, <3>1, AppendProperties DEF TypeInv, TypeOK
    <3>2. CASE UNCHANGED lancedb
      BY <3>2 DEF TypeInv, TypeOK
    <3>3. QED
      BY <1>2, <3>1, <3>2 DEF ScanWindow
  <2>4. QED
    BY <1>2, <2>1, <2>3 DEF TypeInv, TypeOK, ScanWindow, shells
<1>3. CASE FinishScan
  <2>1. /\ scan \in Seq(Stored)
        /\ window \in 1 .. Len(scan)
    BY <1>3, LenProperties DEF TypeInv, TypeOK, FinishScan
  <2>2. scan[window] \in Stored
    BY <2>1, ElementOfSeq
  <2>3. last_processed_timestamp' \in 0 .. MaxTime
    <3>1. scan[window].log \in Telemetry
      BY <2>2 DEF Stored
    <3>2. scan[window].log.start_timestamp \in 1 .. MaxTime
      BY <3>1 DEF Telemetry
    <3>3. QED
      BY <1>3, <3>2, MemoryAssumption DEF FinishScan
  <2>4. scan' \in Seq(Stored) /\ Len(scan') = 0 /\ window' = 0
    BY <1>3 DEF FinishScan
  <2>5. QED
    BY <1>3, <2>3, <2>4 DEF TypeInv, TypeOK, FinishScan, shells
<1>4. QED
  BY <1>1, <1>2, <1>3 DEF Consolidator

LEMMA DaemonType ==
  ASSUME TypeInv, Crash \/ (Restart /\ life < MaxLives)
  PROVE  TypeInv'
<1>1. CASE Crash
  <2>1. scan' \in Seq(Stored) /\ window' \in 0 .. Len(scan')
    BY <1>1, EmptySeq DEF Crash
  <2>2. last_processed_timestamp' \in 0 .. MaxTime
    BY <1>1, MemoryAssumption DEF Crash
  <2>3. window' = 0 /\ inflight' = {} /\ up' = FALSE
    BY <1>1 DEF Crash
  <2>4. UNCHANGED <<now, last_exit_status, history, fjall, life, lancedb>>
    BY <1>1 DEF Crash, shells
  <2>5. window' > 0 => up'
    BY <2>3
  <2>6. up' \in BOOLEAN /\ inflight' \subseteq Telemetry
    BY <2>3
  <2>7. QED
    BY <2>1, <2>2, <2>4, <2>5, <2>6 DEF TypeInv, TypeOK
<1>2. CASE Restart
  BY <1>2, MemoryAssumption DEF TypeInv, TypeOK, Restart, shells, scanner
<1>3. QED
  BY <1>1, <1>2

LEMMA TypeStep == TypeInv /\ [Next]_vars => TypeInv'
<1>1. SUFFICES ASSUME TypeInv, [Next]_vars PROVE TypeInv'
  OBVIOUS
<1>2. CASE Second
  BY <1>1, <1>2, MemoryAssumption DEF TypeInv, TypeOK, Second, scanner
<1>3. CASE \E s \in Sessions, c \in Commands, outcome \in Outcomes : Execute(s, c, outcome)
  BY <1>1, <1>3, ExecuteType
<1>4. CASE PersistAny \/ DropAny
  BY <1>1, <1>4, PersistType, DropType DEF PersistAny, DropAny
<1>5. CASE Consolidator
  BY <1>1, <1>5, ConsolidatorType
<1>6. CASE Stops \/ Restart
  BY <1>1, <1>6, DaemonType DEF Stops, Restart
<1>7. CASE UNCHANGED vars
  BY <1>1, <1>7 DEF TypeInv, TypeOK, vars, shells, scanner
<1>8. QED
  BY <1>1, <1>2, <1>3, <1>4, <1>5, <1>6, <1>7 DEF Next

(* Every variable keeps its type: the window stays inside the scan.        *)
THEOREM TypeCorrect == Spec => []TypeOK
<1>1. TypeInv => TypeOK
  BY DEF TypeInv
<1>2. QED
  BY TypeInit, TypeStep, <1>1, PTL DEF Spec

LEMMA TypeInvariant == Spec => []TypeInv
BY TypeInit, TypeStep, PTL DEF Spec
-----------------------------------------------------------------------------
(* The consolidator.                                                       *)

LEMMA TimesAreNaturals ==
  ASSUME TypeInv
  PROVE  /\ \A r \in Stored : Time(r) \in Nat
         /\ last_processed_timestamp \in Nat /\ window \in Nat /\ life \in Nat
         /\ scan \in Seq(Stored) /\ lancedb \in Seq([prev : Stored, curr : Stored, life : 1 .. MaxLives])
         /\ Len(scan) \in Nat /\ DOMAIN scan = 1 .. Len(scan)
         /\ Len(lancedb) \in Nat /\ DOMAIN lancedb = 1 .. Len(lancedb)
         /\ window <= Len(scan)
<1>1. \A r \in Stored : Time(r) \in Nat
  <2>1. SUFFICES ASSUME NEW r \in Stored PROVE Time(r) \in Nat
    OBVIOUS
  <2>2. r.log \in Telemetry
    BY DEF Stored
  <2>3. r.log.start_timestamp \in 1 .. MaxTime
    BY <2>2 DEF Telemetry
  <2>4. QED
    BY <2>3 DEF Time
<1>2. QED
  BY <1>1, LenProperties DEF TypeInv, TypeOK

(* In a chronological scan nothing is later than the last command.         *)
LEMMA LastIsLatest ==
  ASSUME NEW s \in Seq(Stored), NEW i \in 1 .. Len(s),
         \A r \in Stored : Time(r) \in Nat,
         \A m, n \in DOMAIN s : m < n => Before(s[m], s[n])
  PROVE  Time(s[i]) <= Time(s[Len(s)])
<1>1. Len(s) \in Nat /\ DOMAIN s = 1 .. Len(s) /\ Len(s) \in 1 .. Len(s)
  BY LenProperties
<1>2. Time(s[i]) \in Nat /\ Time(s[Len(s)]) \in Nat
  BY <1>1, ElementOfSeq
<1>3. CASE i = Len(s)
  BY <1>2, <1>3
<1>4. CASE i < Len(s)
  BY <1>1, <1>2, <1>4 DEF Before, Time
<1>5. i \in Int /\ i <= Len(s) /\ Len(s) \in Int
  BY <1>1
<1>6. i = Len(s) \/ i < Len(s)
  BY <1>5
<1>7. QED
  BY <1>3, <1>4, <1>6

LEMMA ScanStep == TypeInv /\ ScanInv /\ [Next]_vars => ScanInv'
<1>1. SUFFICES ASSUME TypeInv, ScanInv, [Next]_vars PROVE ScanInv'
  OBVIOUS
<1>t. /\ \A r \in Stored : Time(r) \in Nat
      /\ last_processed_timestamp \in Nat /\ window \in Nat
      /\ scan \in Seq(Stored) /\ Len(scan) \in Nat /\ DOMAIN scan = 1 .. Len(scan)
      /\ window <= Len(scan) /\ fjall \subseteq Stored
  BY <1>1, TimesAreNaturals DEF TypeInv, TypeOK
<1>2. ASSUME UNCHANGED <<fjall, scan, window, last_processed_timestamp>> PROVE ScanInv'
  BY <1>1, <1>2 DEF ScanInv, Time
<1>3. CASE PersistAny
  <2>1. fjall \subseteq fjall' /\ UNCHANGED <<scan, window, last_processed_timestamp>>
    BY <1>3 DEF PersistAny, Persist, scanner
  <2>2. QED
    BY <1>1, <2>1 DEF ScanInv, Time
<1>4. CASE StartScan
  <2>1. /\ scan' \in Seq(Stored)
        /\ Len(scan') \in Nat \ {0, 1} /\ DOMAIN scan' = 1 .. Len(scan')
        /\ \A i, j \in DOMAIN scan' : i < j => Before(scan'[i], scan'[j])
        /\ \A i \in DOMAIN scan' : scan'[i] \in fjall
        /\ \A r \in fjall : \E i \in DOMAIN scan' : scan'[i] = r
    BY <1>1, <1>4, ScanIsChronological
  <2>2. UNCHANGED <<fjall, last_processed_timestamp>>
    BY <1>4 DEF StartScan
  <2>3. scan'[Len(scan')] \in fjall /\ Time(scan'[Len(scan')]) \in Nat
    BY <1>t, <2>1
  <2>4. last_processed_timestamp <= Time(scan'[Len(scan')])
    <3>1. CASE last_processed_timestamp = 0
      BY <2>3, <3>1
    <3>2. CASE last_processed_timestamp > 0
      <4>1. PICK i \in 1 .. Len(scan') : Time(scan'[i]) = last_processed_timestamp
        BY <1>1, <2>1, <3>2 DEF ScanInv
      <4>2. QED
        BY <1>t, <2>1, <4>1, LastIsLatest
    <3>3. QED
      BY <1>t, <3>1, <3>2
  <2>5. QED
    BY <1>1, <2>1, <2>2, <2>4 DEF ScanInv, Time
<1>5. CASE ScanWindow
  <2>1. UNCHANGED <<fjall, scan, last_processed_timestamp>> /\ window > 0
    BY <1>5 DEF ScanWindow
  <2>2. QED
    BY <1>1, <2>1 DEF ScanInv, Time
<1>6. CASE FinishScan
  <2>1. /\ window \in 1 .. Len(scan)
        /\ last_processed_timestamp' = Time(scan[window])
        /\ scan' = <<>> /\ window' = 0 /\ UNCHANGED fjall
    BY <1>t, <1>6 DEF FinishScan, Time
  <2>2. scan[window] \in fjall
    BY <1>1, <1>t, <2>1 DEF ScanInv
  <2>3. DOMAIN scan' = {}
    BY <2>1
  <2>4. QED
    BY <2>1, <2>2, <2>3 DEF ScanInv, Time
<1>7. CASE Crash
  <2>1. DOMAIN scan' = {} /\ window' = 0 /\ last_processed_timestamp' = 0
    BY <1>7 DEF Crash
  <2>2. QED
    BY <2>1 DEF ScanInv
<1>8. QED
  BY <1>1, <1>2, <1>3, <1>4, <1>5, <1>6, <1>7
  DEF Next, Second, Execute, DropAny, Drop, Consolidator, Stops, Restart, scanner, vars

LEMMA PromotionStep == TypeInv /\ ScanInv /\ PromotionInv /\ [Next]_vars => PromotionInv'
<1>1. SUFFICES ASSUME TypeInv, ScanInv, PromotionInv, [Next]_vars PROVE PromotionInv'
  OBVIOUS
<1>t. /\ \A r \in Stored : Time(r) \in Nat
      /\ last_processed_timestamp \in Nat /\ window \in Nat /\ life \in Nat
      /\ scan \in Seq(Stored) /\ Len(scan) \in Nat /\ DOMAIN scan = 1 .. Len(scan)
      /\ Len(lancedb) \in Nat /\ DOMAIN lancedb = 1 .. Len(lancedb)
      /\ window <= Len(scan)
      /\ \A i \in 1 .. Len(lancedb) : lancedb[i] \in [prev : Stored, curr : Stored, life : 1 .. MaxLives]
  BY <1>1, TimesAreNaturals, ElementOfSeq
<1>2. ASSUME UNCHANGED <<up, life, scan, window, last_processed_timestamp, lancedb>>
      PROVE  PromotionInv'
  BY <1>1, <1>2 DEF PromotionInv, Covered, Time, PromotedOncePerLife, RulesFollowTheClock
<1>3. CASE StartScan
  <2>1. /\ window = 0 /\ window' = 1
        /\ UNCHANGED <<up, life, last_processed_timestamp, lancedb>>
    BY <1>3 DEF StartScan
  <2>2. \A r : Covered(r) => Covered(r)'
    BY <2>1 DEF Covered, Time
  <2>3. QED
    BY <1>1, <2>1, <2>2 DEF PromotionInv, PromotedOncePerLife, RulesFollowTheClock
<1>4. CASE ScanWindow
  <2> DEFINE prev == scan[window]
             curr == scan[window + 1]
             rule == [prev |-> prev, curr |-> curr, life |-> life]
             CoveredNext(r) == \/ Time(r) <= last_processed_timestamp'
                               \/ \E k \in 2 .. window' : scan'[k] = r
  <2>1. /\ up /\ window \in 1 .. Len(scan) /\ window + 1 \in 1 .. Len(scan)
        /\ window' = window + 1
        /\ UNCHANGED <<up, life, scan, last_processed_timestamp>>
    BY <1>t, <1>4 DEF ScanWindow
  <2>2. prev \in Stored /\ curr \in Stored
    BY <1>t, <2>1, ElementOfSeq
  <2>3. \A r : Covered(r) => CoveredNext(r)
    BY <1>t, <2>1 DEF Covered
  <2>4. CASE UNCHANGED lancedb
    BY <1>1, <2>1, <2>3, <2>4 DEF Covered, Time, PromotionInv, PromotedOncePerLife, RulesFollowTheClock
  <2>5. CASE Promotes(prev, curr) /\ lancedb' = Append(lancedb, rule)
    <3>1. /\ DOMAIN lancedb' = 1 .. (Len(lancedb) + 1)
          /\ \A i \in 1 .. Len(lancedb) : lancedb'[i] = lancedb[i]
          /\ lancedb'[Len(lancedb) + 1] = rule
      <4>1. /\ lancedb \in Seq([prev : Stored, curr : Stored, life : 1 .. MaxLives])
            /\ rule \in [prev : Stored, curr : Stored, life : 1 .. MaxLives]
        BY <1>1, <2>2 DEF TypeInv, TypeOK
      <4>2. /\ lancedb' \in Seq([prev : Stored, curr : Stored, life : 1 .. MaxLives])
            /\ Len(lancedb') = Len(lancedb) + 1
        BY <2>5, <4>1, AppendProperties
      <4>3. DOMAIN lancedb' = 1 .. Len(lancedb')
        BY <4>2, LenProperties
      <4>4. QED
        BY <2>5, <4>1, <4>2, <4>3, AppendProperties
    <3>r. /\ lancedb'[Len(lancedb) + 1].prev = prev
          /\ lancedb'[Len(lancedb) + 1].curr = curr
          /\ lancedb'[Len(lancedb) + 1].life = life
      BY <3>1
    <3>i. \A i \in DOMAIN lancedb' : i \in 1 .. Len(lancedb) \/ i = Len(lancedb) + 1
      BY <1>t, <3>1
    <3>2. CoveredNext(curr)
      BY <1>t, <2>1
    <3>3. ~Covered(curr)
      <4>1. ~(Time(curr) <= last_processed_timestamp)
        BY <1>t, <2>2, <2>5 DEF Promotes, Fresh, Time
      <4>2. ASSUME NEW k \in 2 .. window, scan[k] = curr PROVE FALSE
        <5>0. k \in DOMAIN scan /\ window + 1 \in DOMAIN scan /\ k < window + 1
          BY <1>t, <2>1
        <5>1. Before(scan[k], scan[window + 1])
          BY <1>1, <5>0 DEF ScanInv
        <5>2. curr.key \in Int /\ Time(curr) \in Int
          BY <1>t, <2>2 DEF Stored
        <5>3. QED
          BY <4>2, <5>1, <5>2 DEF Before, Time
      <4>3. QED
        BY <4>1, <4>2 DEF Covered
    <3>4. \A i \in 1 .. Len(lancedb) : lancedb[i].life = life => lancedb[i].curr # curr
      BY <1>1, <1>t, <2>1, <3>3 DEF PromotionInv
    <3>5. PromotedOncePerLife'
      <4>1. PromotedOncePerLife
        BY <1>1 DEF PromotionInv
      <4>2. SUFFICES ASSUME NEW i \in DOMAIN lancedb', NEW j \in DOMAIN lancedb',
                            lancedb'[i].curr = lancedb'[j].curr,
                            lancedb'[i].life = lancedb'[j].life
                     PROVE  i = j
        BY DEF PromotedOncePerLife
      <4>3. CASE i \in 1 .. Len(lancedb) /\ j \in 1 .. Len(lancedb)
        BY <1>t, <3>1, <4>1, <4>2, <4>3 DEF PromotedOncePerLife
      <4>4. CASE i \in 1 .. Len(lancedb) /\ j = Len(lancedb) + 1
        BY <3>1, <3>r, <3>4, <4>2, <4>4
      <4>5. CASE i = Len(lancedb) + 1 /\ j \in 1 .. Len(lancedb)
        BY <3>1, <3>r, <3>4, <4>2, <4>5
      <4>6. QED
        BY <3>i, <4>3, <4>4, <4>5
    <3>6. RulesFollowTheClock'
      <4>1. Before(prev, curr)
        BY <1>1, <1>t, <2>1 DEF ScanInv
      <4>2. prev.log.start_timestamp <= curr.log.start_timestamp
        BY <1>t, <2>2, <4>1 DEF Before, Time
      <4>3. RulesFollowTheClock
        BY <1>1 DEF PromotionInv
      <4>4. ASSUME NEW i \in DOMAIN lancedb'
            PROVE  lancedb'[i].prev.log.start_timestamp <= lancedb'[i].curr.log.start_timestamp
        <5>1. CASE i \in 1 .. Len(lancedb)
          BY <1>t, <3>1, <4>3, <5>1 DEF RulesFollowTheClock
        <5>2. CASE i = Len(lancedb) + 1
          BY <3>r, <4>2, <5>2
        <5>3. QED
          BY <3>i, <5>1, <5>2
      <4>5. QED
        BY <4>4 DEF RulesFollowTheClock
    <3>7. \A i \in DOMAIN lancedb' : lancedb'[i].life <= life'
      <4>1. \A i \in 1 .. Len(lancedb) : lancedb[i].life <= life
        BY <1>1, <1>t DEF PromotionInv
      <4>2. life' = life /\ life <= life
        BY <1>t, <2>1
      <4>3. ASSUME NEW i \in DOMAIN lancedb' PROVE lancedb'[i].life <= life
        <5>1. CASE i \in 1 .. Len(lancedb)
          BY <3>1, <4>1, <5>1
        <5>2. CASE i = Len(lancedb) + 1
          BY <3>r, <4>2, <5>2
        <5>3. QED
          BY <3>i, <5>1, <5>2
      <4>4. QED
        BY <4>2, <4>3
    <3>8. \A i \in DOMAIN lancedb' : lancedb'[i].life = life' => CoveredNext(lancedb'[i].curr)
      <4>1. SUFFICES ASSUME NEW i \in 1 .. (Len(lancedb) + 1), lancedb'[i].life = life
                     PROVE  CoveredNext(lancedb'[i].curr)
        BY <2>1, <3>1
      <4>2. CASE i = Len(lancedb) + 1
        <5>1. lancedb'[i].curr = curr
          BY <3>1, <4>2
        <5>2. QED
          BY <3>2, <5>1
      <4>3. CASE i \in 1 .. Len(lancedb)
        <5>1. Covered(lancedb[i].curr)
          BY <1>1, <1>t, <2>1, <3>1, <4>1, <4>3 DEF PromotionInv
        <5>2. lancedb'[i] = lancedb[i]
          BY <3>1, <4>3
        <5>3. QED
          BY <2>3, <5>1, <5>2
      <4>4. QED
        BY <1>t, <4>2, <4>3
    <3>9. QED
      BY <3>5, <3>6, <3>7, <3>8 DEF PromotionInv, Covered, Time
  <2>6. QED
    BY <1>4, <2>4, <2>5 DEF ScanWindow
<1>5. CASE FinishScan
  <2>1. /\ window \in 1 .. Len(scan) /\ window = Len(scan)
        /\ last_processed_timestamp' = Time(scan[Len(scan)])
        /\ UNCHANGED <<up, life, lancedb>>
    BY <1>t, <1>5 DEF FinishScan, Time
  <2>s. \A m, n \in DOMAIN scan : m < n => Before(scan[m], scan[n])
    BY <1>1 DEF ScanInv
  <2>2. \A k \in 2 .. window : Time(scan[k]) <= last_processed_timestamp'
    <3>1. SUFFICES ASSUME NEW k \in 2 .. window
                   PROVE  Time(scan[k]) <= Time(scan[Len(scan)])
      BY <2>1
    <3>2. k \in 1 .. Len(scan)
      BY <1>t, <2>1
    <3>3. QED
      BY <1>t, <2>s, <3>2, LastIsLatest
  <2>3. last_processed_timestamp <= last_processed_timestamp' /\ last_processed_timestamp' \in Nat
    BY <1>1, <1>t, <2>1, ElementOfSeq DEF ScanInv
  <2>4. \A r \in Stored : Covered(r) => Covered(r)'
    <3>1. SUFFICES ASSUME NEW r \in Stored, Covered(r)
                   PROVE  Time(r) <= last_processed_timestamp'
      BY DEF Covered, Time
    <3>2. CASE Time(r) <= last_processed_timestamp
      BY <1>t, <2>3, <3>2
    <3>3. CASE \E k \in 2 .. window : scan[k] = r
      BY <2>2, <3>3
    <3>4. QED
      BY <3>1, <3>2, <3>3 DEF Covered
  <2>5. QED
    BY <1>1, <1>t, <2>1, <2>4 DEF PromotionInv, PromotedOncePerLife, RulesFollowTheClock
<1>6. CASE Crash
  BY <1>1, <1>6 DEF Crash, PromotionInv, PromotedOncePerLife, RulesFollowTheClock
<1>7. CASE Restart
  <2>1. life' = life + 1 /\ UNCHANGED lancedb
    BY <1>7 DEF Restart
  <2>2. \A i \in DOMAIN lancedb : lancedb[i].life \in Nat /\ lancedb[i].life <= life
    BY <1>1, <1>t DEF PromotionInv
  <2>3. QED
    BY <1>1, <1>t, <2>1, <2>2 DEF PromotionInv, PromotedOncePerLife, RulesFollowTheClock
<1>8. QED
  BY <1>1, <1>2, <1>3, <1>4, <1>5, <1>6, <1>7
  DEF Next, Second, Execute, PersistAny, Persist, DropAny, Drop, Consolidator, Stops, scanner, vars

LEMMA ConsolidatorInit == Init => ScanInv /\ PromotionInv
<1>1. SUFFICES ASSUME Init PROVE ScanInv /\ PromotionInv
  OBVIOUS
<1>2. DOMAIN scan = {} /\ DOMAIN lancedb = {}
  BY <1>1 DEF Init
<1>3. QED
  BY <1>1, <1>2 DEF Init, ScanInv, PromotionInv, PromotedOncePerLife, RulesFollowTheClock

LEMMA PromotionInvariant == Spec => []PromotionInv
BY ConsolidatorInit, ScanStep, PromotionStep, TypeInvariant, PTL DEF Spec

(* However reports are delayed, reordered or stored between scans, one     *)
(* life of the daemon promotes no command as a fix twice.                  *)
THEOREM PromotionOnce == Spec => []PromotedOncePerLife
<1>1. PromotionInv => PromotedOncePerLife
  BY DEF PromotionInv
<1>2. QED
  BY <1>1, PromotionInvariant, PTL

(* No rule has its fix in an earlier second than its failure.              *)
THEOREM PromotionFollowsTheClock == Spec => []RulesFollowTheClock
<1>1. PromotionInv => RulesFollowTheClock
  BY DEF PromotionInv
<1>2. QED
  BY <1>1, PromotionInvariant, PTL
-----------------------------------------------------------------------------
(* What the status of a line rests on.                                     *)

(* The lines of shell s among the first n of h that it waited for.         *)
W(h, s, n) == {i \in 1 .. n : h[i].session_id = s /\ h[i].outcome # "none"}

Rests(h, s, n, v) ==
  \/ W(h, s, n) = {} /\ v = 0
  \/ \E k \in W(h, s, n) : (\A j \in W(h, s, n) : j <= k) /\ WEXITSTATUS(h[k].outcome) = v

Happened(h, log) == \E i \in 1 .. Len(h) : log = h[i]

HistoryInv ==
  /\ \A s \in Sessions : Rests(history, s, Len(history), last_exit_status[s])
  /\ \A i \in 1 .. Len(history) :
       history[i].id = i /\ Rests(history, history[i].session_id, i, history[i].exit_code)

FactInv ==
  /\ HistoryInv
  /\ \A log \in inflight : Happened(history, log)
  /\ \A r \in fjall : Happened(history, r.log)
  /\ \A i \in DOMAIN lancedb :
       /\ Happened(history, lancedb[i].prev.log) /\ Happened(history, lancedb[i].curr.log)
       /\ lancedb[i].prev.log.exit_code # 0 /\ lancedb[i].curr.log.exit_code = 0

LEMMA RestsIsKnown ==
  ASSUME HistoryInv, NEW log, Happened(history, log)
  PROVE  WEXITSTATUS(Known(log)) = log.exit_code
<1>1. PICK n \in 1 .. Len(history) : log = history[n]
  BY DEF Happened
<1>2. log.id = n /\ Rests(history, log.session_id, n, log.exit_code)
  BY <1>1 DEF HistoryInv
<1>3. Waited(log) = W(history, log.session_id, n)
  BY <1>2 DEF Waited, W
<1>4. CASE Waited(log) = {}
  BY <1>2, <1>3, <1>4 DEF Known, Rests, WEXITSTATUS
<1>5. CASE Waited(log) # {}
  <2>1. PICK k \in Waited(log) : (\A j \in Waited(log) : j <= k) /\ WEXITSTATUS(history[k].outcome) = log.exit_code
    BY <1>2, <1>3, <1>5 DEF Rests
  <2>2. Waited(log) \subseteq Int
    BY <1>3 DEF W
  <2> DEFINE last == CHOOSE i \in Waited(log) : \A j \in Waited(log) : j <= i
  <2>3. last \in Waited(log) /\ \A j \in Waited(log) : j <= last
    BY <2>1
  <2>4. last = k
    BY <2>1, <2>2, <2>3
  <2>5. QED
    BY <1>5, <2>1, <2>4 DEF Known
<1>6. QED
  BY <1>4, <1>5

LEMMA HistoryStep ==
  ASSUME TypeInv, HistoryInv,
         NEW s \in Sessions, NEW c \in Commands, NEW outcome \in Outcomes, Execute(s, c, outcome)
  PROVE  /\ HistoryInv'
         /\ \A log : Happened(history, log) => Happened(history', log)
         /\ \A log \in inflight' : log \in inflight \/ Happened(history', log)
<1> DEFINE n == Len(history)
           log == [id |-> n + 1, session_id |-> s, raw_command |-> c,
                   exit_code |-> last_exit_status'[s], outcome |-> outcome,
                   start_timestamp |-> now]
<1>1. /\ history \in Seq(Telemetry) /\ n \in Nat /\ DOMAIN history = 1 .. n
      /\ last_exit_status \in [Sessions -> {0, 1, 19}]
  BY LenProperties DEF TypeInv, TypeOK
<1>2. /\ history' = Append(history, log)
      /\ inflight' \subseteq inflight \cup {log}
  BY DEF Execute
<1>3. last_exit_status' = IF outcome = "none" THEN last_exit_status
                          ELSE [last_exit_status EXCEPT ![s] = WEXITSTATUS(outcome)]
  BY DEF Execute
<1>4. log \in Telemetry
  <2>1. last_exit_status'[s] \in {0, 1, 19}
    BY <1>1, <1>3 DEF WEXITSTATUS
  <2>2. n + 1 \in 1 .. MaxCommands
    BY <1>1, MemoryAssumption DEF Execute
  <2>3. QED
    BY <2>1, <2>2 DEF TypeInv, TypeOK, Telemetry
<1>5. /\ Len(history') = n + 1
      /\ \A i \in 1 .. n : history'[i] = history[i]
      /\ history'[n + 1] = log
  BY <1>1, <1>2, <1>4, AppendProperties
<1> HIDE DEF log
<1>6. ASSUME NEW u, NEW m \in 0 .. n PROVE W(history', u, m) = W(history, u, m)
  <2>1. \A i \in 1 .. m : history'[i] = history[i]
    BY <1>1, <1>5
  <2>2. QED
    BY <2>1 DEF W
<1>7. ASSUME NEW u, NEW m \in 0 .. n, NEW v, Rests(history, u, m, v) PROVE Rests(history', u, m, v)
  <2>1. W(history', u, m) = W(history, u, m) /\ \A k \in W(history, u, m) : history'[k] = history[k]
    <3>1. \A k \in W(history, u, m) : k \in 1 .. n
      BY <1>1 DEF W
    <3>2. QED
      BY <1>5, <1>6, <3>1
  <2>2. CASE W(history, u, m) = {} /\ v = 0
    BY <2>1, <2>2 DEF Rests
  <2>3. CASE \E k \in W(history, u, m) : (\A j \in W(history, u, m) : j <= k) /\ WEXITSTATUS(history[k].outcome) = v
    BY <2>1, <2>3 DEF Rests
  <2>4. QED
    BY <1>7, <2>2, <2>3 DEF Rests
<1>8. /\ log.id = n + 1 /\ log.session_id = s /\ log.raw_command = c
      /\ log.outcome = outcome /\ log.exit_code = last_exit_status'[s]
  BY DEF log
<1>9. ASSUME NEW u \in Sessions PROVE Rests(history', u, n + 1, last_exit_status'[u])
  <2>1. CASE u = s /\ outcome # "none"
    <3>1. n + 1 \in W(history', u, n + 1) /\ \A j \in W(history', u, n + 1) : j <= n + 1
      BY <1>1, <1>5, <1>8, <2>1 DEF W
    <3>2. last_exit_status'[u] = WEXITSTATUS(outcome) /\ history'[n + 1].outcome = outcome
      BY <1>1, <1>3, <1>5, <1>8, <2>1
    <3>3. QED
      BY <3>1, <3>2 DEF Rests
  <2>2. CASE u # s \/ outcome = "none"
    <3>1. W(history', u, n + 1) = W(history', u, n)
      <4>1. ASSUME NEW i PROVE i \in W(history', u, n + 1) <=> i \in W(history', u, n)
        <5>1. i \in 1 .. n + 1 <=> i \in 1 .. n \/ i = n + 1
          BY <1>1
        <5>2. n + 1 \notin W(history', u, n + 1)
          BY <1>5, <1>8, <2>2 DEF W
        <5>3. n + 1 \notin 1 .. n
          BY <1>1
        <5>4. QED
          BY <5>1, <5>2, <5>3 DEF W
      <4>2. QED
        BY <4>1
    <3>2. last_exit_status'[u] = last_exit_status[u]
      BY <1>1, <1>3, <2>2
    <3>3. Rests(history, u, n, last_exit_status[u])
      BY DEF HistoryInv
    <3>4. Rests(history', u, n, last_exit_status'[u])
      <4>1. n \in 0 .. n
        BY <1>1
      <4>2. PICK v : v = last_exit_status[u]
        OBVIOUS
      <4>3. Rests(history', u, n, v)
        BY <1>7, <3>3, <4>1, <4>2
      <4>4. QED
        BY <3>2, <4>2, <4>3 DEF Rests
    <3>5. QED
      BY <3>1, <3>4 DEF Rests
  <2>3. QED
    BY <2>1, <2>2
<1>10. ASSUME NEW i \in 1 .. n + 1
       PROVE  history'[i].id = i /\ Rests(history', history'[i].session_id, i, history'[i].exit_code)
  <2>1. CASE i \in 1 .. n
    <3>1. history[i].id = i /\ Rests(history, history[i].session_id, i, history[i].exit_code)
      BY <2>1 DEF HistoryInv
    <3>2. PICK u, v : u = history[i].session_id /\ v = history[i].exit_code
      OBVIOUS
    <3>3. Rests(history', u, i, v)
      BY <1>1, <1>7, <2>1, <3>1, <3>2
    <3>4. QED
      BY <1>5, <2>1, <3>1, <3>2, <3>3 DEF Rests, W
  <2>2. CASE i = n + 1
    <3>1. Rests(history', s, n + 1, last_exit_status'[s])
      BY <1>9
    <3>2. QED
      BY <1>5, <1>8, <2>2, <3>1 DEF Rests, W
  <2>3. QED
    BY <1>1, <2>1, <2>2
<1>11. HistoryInv'
  BY <1>5, <1>9, <1>10 DEF HistoryInv
<1>12. \A l : Happened(history, l) => Happened(history', l)
  BY <1>1, <1>5 DEF Happened
<1>13. Happened(history', log)
  BY <1>1, <1>5 DEF Happened
<1>14. QED
  BY <1>2, <1>11, <1>12, <1>13

LEMMA FactInit == Init => FactInv
<1>1. SUFFICES ASSUME Init PROVE FactInv
  OBVIOUS
<1>2. Len(history) = 0 /\ DOMAIN lancedb = {} /\ \A i : i \notin 1 .. 0
  BY <1>1 DEF Init
<1>3. HistoryInv
  BY <1>1, <1>2 DEF Init, HistoryInv, Rests, W
<1>4. QED
  BY <1>1, <1>2, <1>3 DEF Init, FactInv

LEMMA FactStep == TypeInv /\ ScanInv /\ FactInv /\ [Next]_vars => FactInv'
<1>1. SUFFICES ASSUME TypeInv, ScanInv, FactInv, [Next]_vars PROVE FactInv'
  OBVIOUS
<1>2. ASSUME UNCHANGED <<last_exit_status, history>>
      PROVE  HistoryInv' /\ \A log : Happened(history', log) <=> Happened(history, log)
  BY <1>1, <1>2 DEF FactInv, HistoryInv, Rests, W, Happened
<1>3. CASE \E s \in Sessions, c \in Commands, outcome \in Outcomes : Execute(s, c, outcome)
  <2>1. PICK s \in Sessions, c \in Commands, outcome \in Outcomes : Execute(s, c, outcome)
    BY <1>3
  <2>2. UNCHANGED <<fjall, lancedb>>
    BY <2>1 DEF Execute
  <2>3. /\ HistoryInv'
        /\ \A log : Happened(history, log) => Happened(history', log)
        /\ \A log \in inflight' : log \in inflight \/ Happened(history', log)
    BY <1>1, <2>1, HistoryStep DEF FactInv
  <2>4. QED
    BY <1>1, <2>2, <2>3 DEF FactInv
<1>4. CASE PersistAny
  <2>1. PICK log \in inflight, key \in 1 .. MaxCommands : Persist(log, key)
    BY <1>4 DEF PersistAny
  <2>2. /\ inflight' \subseteq inflight
        /\ \A r \in fjall' : r \in fjall \/ r.log = log
        /\ UNCHANGED <<last_exit_status, history, lancedb>>
    BY <2>1 DEF Persist, shells
  <2>3. QED
    BY <1>1, <1>2, <2>2 DEF FactInv
<1>d. CASE DropAny
  <2>1. inflight' \subseteq inflight /\ UNCHANGED <<last_exit_status, history, fjall, lancedb>>
    BY <1>d DEF DropAny, Drop, shells
  <2>2. QED
    BY <1>1, <1>2, <2>1 DEF FactInv
<1>5. CASE ScanWindow
  <2> DEFINE rule == [prev |-> scan[window], curr |-> scan[window + 1], life |-> life]
  <2>1. UNCHANGED <<last_exit_status, history, inflight, fjall>>
    BY <1>5 DEF ScanWindow, shells
  <2>2. CASE UNCHANGED lancedb
    BY <1>1, <1>2, <2>1, <2>2 DEF FactInv
  <2>3. CASE Promotes(scan[window], scan[window + 1]) /\ lancedb' = Append(lancedb, rule)
    <3>1. scan[window] \in fjall /\ scan[window + 1] \in fjall
      <4>1. /\ DOMAIN scan = 1 .. Len(scan) /\ window \in Nat /\ Len(scan) \in Nat
        BY <1>1, TimesAreNaturals
      <4>2. window \in DOMAIN scan /\ window + 1 \in DOMAIN scan
        BY <1>5, <4>1 DEF ScanWindow
      <4>3. QED
        BY <1>1, <4>2 DEF ScanInv
    <3>2. /\ Happened(history, rule.prev.log) /\ Happened(history, rule.curr.log)
          /\ rule.prev.log.exit_code # 0 /\ rule.curr.log.exit_code = 0
      BY <1>1, <2>3, <3>1 DEF FactInv, Promotes, Trigger
    <3>3. /\ DOMAIN lancedb' = 1 .. (Len(lancedb) + 1) /\ Len(lancedb) \in Nat
          /\ \A i \in 1 .. Len(lancedb) : lancedb'[i] = lancedb[i]
          /\ lancedb'[Len(lancedb) + 1] = rule
      BY <1>1, <2>3, TimesAreNaturals
    <3>4. DOMAIN lancedb = 1 .. Len(lancedb)
      BY <1>1, TimesAreNaturals
    <3>5. ASSUME NEW i \in DOMAIN lancedb' PROVE lancedb'[i] = rule \/ \E j \in DOMAIN lancedb : lancedb'[i] = lancedb[j]
      BY <3>3, <3>4
    <3> HIDE DEF rule
    <3>6. QED
      BY <1>1, <1>2, <2>1, <3>2, <3>5 DEF FactInv
  <2>4. QED
    BY <1>5, <2>2, <2>3 DEF ScanWindow
<1>6. CASE Second \/ StartScan \/ FinishScan \/ Restart \/ Crash \/ UNCHANGED vars
  <2>1. /\ UNCHANGED <<last_exit_status, history, fjall, lancedb>>
        /\ inflight' \subseteq inflight
    BY <1>6 DEF Second, StartScan, FinishScan, Restart, Crash, vars, shells, scanner
  <2>2. QED
    BY <1>1, <1>2, <2>1 DEF FactInv
<1>7. QED
  BY <1>1, <1>3, <1>4, <1>d, <1>5, <1>6 DEF Next, Consolidator, Stops

(* Whatever lines leave the status alone, and whatever is stored or lost,  *)
(* a rule rests on a wait of its shell that reported a failure or a stop,  *)
(* and its fix on one that did not, or on none.                            *)
THEOREM FactsCorrect == Spec => []RulesRestOnFacts
<1>1. TypeInv /\ FactInv => RulesRestOnFacts
  <2>1. SUFFICES ASSUME TypeInv, FactInv, NEW i \in DOMAIN lancedb
                 PROVE  /\ Known(lancedb[i].prev.log) \in {"err", "stopped"}
                        /\ Known(lancedb[i].curr.log) \in {"ok", "killed", "none"}
    BY DEF RulesRestOnFacts
  <2>2. ASSUME NEW log, Happened(history, log)
        PROVE  Known(log) \in {"ok", "err", "killed", "stopped", "none"}
    <3>1. PICK n \in 1 .. Len(history) : log = history[n]
      BY <2>2 DEF Happened
    <3>2. log.id = n /\ Rests(history, log.session_id, n, log.exit_code)
      BY <2>1, <3>1 DEF FactInv, HistoryInv
    <3>3. Waited(log) = W(history, log.session_id, n)
      BY <3>2 DEF Waited, W
    <3>4. CASE Waited(log) = {}
      BY <3>4 DEF Known
    <3>5. CASE Waited(log) # {}
      <4> DEFINE last == CHOOSE i1 \in Waited(log) : \A j \in Waited(log) : j <= i1
      <4>1. last \in Waited(log)
        BY <3>2, <3>3, <3>5 DEF Rests
      <4>2. last \in 1 .. Len(history)
        BY <3>1, <3>3, <4>1 DEF W
      <4>3. history[last] \in Telemetry
        BY <2>1, <4>2, ElementOfSeq DEF TypeInv, TypeOK
      <4>4. history[last].outcome \in Outcomes
        BY <4>3 DEF Telemetry
      <4>5. QED
        BY <3>5, <4>4, MemoryAssumption DEF Known
    <3>6. QED
      BY <3>4, <3>5
  <2>3. /\ Happened(history, lancedb[i].prev.log) /\ Happened(history, lancedb[i].curr.log)
        /\ lancedb[i].prev.log.exit_code # 0 /\ lancedb[i].curr.log.exit_code = 0
        /\ HistoryInv
    BY <2>1 DEF FactInv
  <2>4. /\ WEXITSTATUS(Known(lancedb[i].prev.log)) # 0
        /\ WEXITSTATUS(Known(lancedb[i].curr.log)) = 0
    BY <2>3, RestsIsKnown
  <2>5. QED
    BY <2>2, <2>3, <2>4 DEF WEXITSTATUS
<1>2. Spec => []ScanInv
  BY ConsolidatorInit, ScanStep, TypeInvariant, PTL DEF Spec
<1>3. QED
  BY <1>1, <1>2, FactInit, FactStep, TypeInvariant, PTL DEF Spec
-----------------------------------------------------------------------------
(* The ordinary case: reports in order, no ties of the clock.  Reports may *)
(* be lost and the daemon may die.                                         *)

Id(r) == r.log.id

(* What is stored happened before anything that is still on its way.       *)
StoredInOrder ==
  /\ \A r \in fjall, log \in inflight : Id(r) < log.id
  /\ \A q, r \in fjall : q.log = r.log => q = r

TimeInOrder ==
  /\ \A i \in 1 .. Len(history) : history[i].start_timestamp <= now
  /\ \A i, j \in 1 .. Len(history) : i < j => history[i].start_timestamp < history[j].start_timestamp

(* Of the reports in S none lies between a and b.                          *)
Neighbours(a, b, S) ==
  a.id < b.id /\ \A log \in S : ~(a.id < log.id /\ log.id < b.id)

PairInv ==
  /\ TimeInOrder
  /\ StoredInOrder
  /\ \A i \in 1 .. Len(scan) - 1 : Neighbours(scan[i].log, scan[i + 1].log, Reported)
  /\ \A i \in DOMAIN lancedb : Neighbours(lancedb[i].prev.log, lancedb[i].curr.log, Reported)

(* Neighbours stay neighbours: a report that is new is that of a new line. *)
LEMMA StillNeighbours ==
  ASSUME NEW a, NEW b, NEW n \in Nat, a.id \in 1 .. n, b.id \in 1 .. n,
         NEW S, NEW T, \A log \in T : log \in S \/ (log.id \in Nat /\ log.id > n),
         Neighbours(a, b, S)
  PROVE  Neighbours(a, b, T)
BY DEF Neighbours

(* A line is known by its number, and by its second.                       *)
LEMMA LinesDiffer ==
  ASSUME TypeInv, FactInv, TimeInOrder, NEW a, NEW b, Happened(history, a), Happened(history, b)
  PROVE  /\ a.id \in 1 .. Len(history) /\ a = history[a.id]
         /\ a.id = b.id => a = b
         /\ a.start_timestamp \in Nat
         /\ a.id < b.id <=> a.start_timestamp < b.start_timestamp
<1>1. /\ history \in Seq(Telemetry) /\ Len(history) \in Nat
      /\ \A k \in 1 .. Len(history) : history[k] \in Telemetry /\ history[k].id = k
  BY LenProperties, ElementOfSeq DEF TypeInv, TypeOK, FactInv, HistoryInv
<1>2. \A k \in 1 .. Len(history) : history[k].start_timestamp \in Nat
  BY <1>1 DEF Telemetry
<1>3. /\ a.id \in 1 .. Len(history) /\ a = history[a.id]
      /\ b.id \in 1 .. Len(history) /\ b = history[b.id]
  BY <1>1 DEF Happened
<1>4. a.id < b.id => a.start_timestamp < b.start_timestamp
  BY <1>3 DEF TimeInOrder
<1>5. b.id < a.id => b.start_timestamp < a.start_timestamp
  BY <1>3 DEF TimeInOrder
<1>6. a.start_timestamp \in Nat /\ b.start_timestamp \in Nat
  BY <1>2, <1>3
<1>7. a.id = b.id => a = b
  BY <1>3
<1>8. a.id \in Nat /\ b.id \in Nat
  BY <1>1, <1>3
<1>9. QED
  BY <1>3, <1>4, <1>5, <1>6, <1>7, <1>8

(* A scan reads the lines one after the other, but for those that are lost. *)
LEMMA ScanSkipsNothing ==
  ASSUME TypeInv, FactInv, TimeInOrder, StoredInOrder, StartScan
  PROVE  \A i \in 1 .. Len(scan') - 1 : Neighbours(scan'[i].log, scan'[i + 1].log, Reported)
<1> DEFINE s == scan'
           n == Len(s)
<1>1. /\ n \in Nat /\ DOMAIN s = 1 .. n
      /\ \A i, j \in 1 .. n : i < j => Before(s[i], s[j])
      /\ \A i \in 1 .. n : s[i] \in fjall
      /\ \A r \in fjall : \E i \in 1 .. n : s[i] = r
  BY ScanIsChronological
<1>d. s \in [1 .. n -> fjall] /\ \A i, j \in 1 .. n : s[i] = s[j] => i = j
  <2>1. s \in [1 .. Cardinality(fjall) -> fjall] /\ Chronological(s)
    BY DEF StartScan, get_all_commands
  <2>2. s \in Injection(1 .. Cardinality(fjall), fjall)
    BY <2>1 DEF Chronological, Bijection
  <2>3. \A i, j \in 1 .. Cardinality(fjall) : s[i] = s[j] => i = j
    BY <2>2 DEF Injection, IsInjective
  <2>4. DOMAIN s = 1 .. Cardinality(fjall)
    BY <2>1
  <2>5. QED
    BY <1>1, <2>1, <2>3, <2>4
<1>2. ASSUME NEW q \in fjall, NEW r \in fjall
      PROVE  /\ Id(q) \in 1 .. Len(history) /\ Id(r) \in 1 .. Len(history)
             /\ Id(q) = Id(r) => q = r
             /\ Before(q, r) => Id(q) < Id(r) \/ q = r
  <2>1. Happened(history, q.log) /\ Happened(history, r.log)
    BY DEF FactInv
  <2>2. /\ q.log.id \in 1 .. Len(history) /\ r.log.id \in 1 .. Len(history)
        /\ q.log.id = r.log.id => q.log = r.log
        /\ q.log.start_timestamp \in Nat /\ r.log.start_timestamp \in Nat
        /\ q.log.id < r.log.id <=> q.log.start_timestamp < r.log.start_timestamp
        /\ r.log.id < q.log.id <=> r.log.start_timestamp < q.log.start_timestamp
    BY <2>1, LinesDiffer
  <2>3. q.log = r.log => q = r
    BY DEF StoredInOrder
  <2>4. QED
    BY <2>2, <2>3 DEF Before, Id
<1>3. \A i, j \in 1 .. n : i < j => Id(s[i]) < Id(s[j])
  <2>1. SUFFICES ASSUME NEW i \in 1 .. n, NEW j \in 1 .. n, i < j PROVE Id(s[i]) < Id(s[j])
    OBVIOUS
  <2>2. s[i] # s[j]
    <3>1. i # j
      BY <2>1
    <3>2. QED
      BY <1>d, <3>1
  <2>3. Before(s[i], s[j]) /\ s[i] \in fjall /\ s[j] \in fjall
    BY <1>1, <2>1
  <2>4. QED
    BY <1>2, <2>2, <2>3
<1>4. SUFFICES ASSUME NEW i \in 1 .. n - 1 PROVE Neighbours(s[i].log, s[i + 1].log, Reported)
  OBVIOUS
<1>5. i \in 1 .. n /\ i + 1 \in 1 .. n /\ i < i + 1
  BY <1>1
<1>6. s[i] \in fjall /\ s[i + 1] \in fjall
  BY <1>1, <1>5
<1> DEFINE a == Id(s[i])
           b == Id(s[i + 1])
<1>7. a \in 1 .. Len(history) /\ b \in 1 .. Len(history) /\ Len(history) \in Nat
  BY <1>2, <1>6, LenProperties DEF TypeInv, TypeOK
<1>8. a < b
  BY <1>3, <1>5
<1>9. ASSUME NEW log \in Reported, a < log.id, log.id < b PROVE FALSE
  <2>1. CASE log \in inflight
    <3>1. b < log.id
      BY <1>6, <2>1 DEF StoredInOrder
    <3>2. log.id \in Nat
      BY <2>1 DEF TypeInv, TypeOK, Telemetry
    <3>3. QED
      BY <1>7, <1>9, <3>1, <3>2
  <2>2. CASE \E r \in fjall : r.log = log
    <3>1. PICK r \in fjall : r.log = log
      BY <2>2
    <3>2. PICK j \in 1 .. n : s[j] = r
      BY <1>1
    <3>3. Id(s[j]) = log.id /\ log.id \in Nat
      BY <1>2, <3>1, <3>2 DEF Id
    <3>4. CASE j <= i
      <4>1. j = i \/ j < i
        BY <1>5, <3>4
      <4>2. Id(s[j]) = a \/ Id(s[j]) < a
        BY <1>3, <1>5, <4>1
      <4>3. QED
        BY <1>7, <1>9, <3>3, <4>2
    <3>5. CASE j > i
      <4>1. j = i + 1 \/ i + 1 < j
        BY <1>5, <3>5
      <4>2. Id(s[j]) = b \/ b < Id(s[j])
        BY <1>3, <1>5, <4>1
      <4>3. QED
        BY <1>7, <1>9, <3>3, <4>2
    <3>6. QED
      BY <1>5, <3>4, <3>5
  <2>3. QED
    BY <1>9, <2>1, <2>2 DEF Reported
<1>10. QED
  BY <1>8, <1>9 DEF Neighbours, Id

LEMMA PairExecute ==
  ASSUME Spaced, TypeInv, FactInv, PairInv,
         NEW s \in Sessions, NEW c \in Commands, NEW outcome \in Outcomes, Execute(s, c, outcome)
  PROVE  /\ TimeInOrder' /\ StoredInOrder'
         /\ \A log \in Reported' : log \in Reported \/ log.id = Len(history) + 1
<1> DEFINE n == Len(history)
           log == [id |-> n + 1, session_id |-> s, raw_command |-> c,
                   exit_code |-> last_exit_status'[s], outcome |-> outcome,
                   start_timestamp |-> now]
<1>1. history \in Seq(Telemetry) /\ n \in Nat /\ DOMAIN history = 1 .. n /\ now \in Nat
  BY LenProperties, MemoryAssumption DEF TypeInv, TypeOK
<1>2. history' = Append(history, log) /\ inflight' \subseteq inflight \cup {log}
      /\ UNCHANGED <<now, fjall>>
  BY DEF Execute
<1>3. Len(history') = n + 1 /\ (\A i \in 1 .. n : history'[i] = history[i]) /\ history'[n + 1] = log
  BY <1>1, <1>2
<1>4. log.id = n + 1 /\ log.start_timestamp = now
  OBVIOUS
<1> HIDE DEF log
<1>5. \A i \in 1 .. n : history[i].start_timestamp \in Nat /\ history[i].start_timestamp < now
  <2>1. SUFFICES ASSUME NEW i \in 1 .. n
                 PROVE  history[i].start_timestamp \in Nat /\ history[i].start_timestamp < now
    OBVIOUS
  <2>2. history[i] \in Telemetry
    BY <1>1, <2>1, ElementOfSeq
  <2>3. history[i].start_timestamp \in Nat
    BY <2>2 DEF Telemetry
  <2>4. history[i].start_timestamp # now
    BY <1>1 DEF Execute, SecondIsFree
  <2>5. history[i].start_timestamp <= now
    BY DEF PairInv, TimeInOrder
  <2>6. QED
    BY <1>1, <2>3, <2>4, <2>5
<1>6. \A i \in 1 .. n + 1 : i \in 1 .. n \/ i = n + 1
  BY <1>1
<1>7. TimeInOrder'
  <2>1. \A i \in 1 .. n + 1 : history'[i].start_timestamp <= now
    BY <1>1, <1>3, <1>4, <1>5, <1>6
  <2>2. ASSUME NEW i \in 1 .. n + 1, NEW j \in 1 .. n + 1, i < j
        PROVE  history'[i].start_timestamp < history'[j].start_timestamp
    <3>1. i \in 1 .. n
      BY <1>1, <2>2
    <3>2. CASE j \in 1 .. n
      BY <1>3, <2>2, <3>1, <3>2 DEF PairInv, TimeInOrder
    <3>3. CASE j = n + 1
      BY <1>3, <1>4, <1>5, <3>1, <3>3
    <3>4. QED
      BY <1>6, <3>2, <3>3
  <2>3. QED
    BY <1>2, <1>3, <2>1, <2>2 DEF TimeInOrder
<1>8. \A r \in fjall : Id(r) < log.id
  <2>1. SUFFICES ASSUME NEW r \in fjall PROVE Id(r) < n + 1
    BY <1>4
  <2>2. Id(r) \in 1 .. n
    BY LinesDiffer DEF FactInv, PairInv, Id
  <2>3. QED
    BY <1>1, <2>2
<1>9. StoredInOrder'
  BY <1>2, <1>8 DEF PairInv, StoredInOrder, Id
<1>10. \A l \in Reported' : l \in Reported \/ l.id = n + 1
  BY <1>2, <1>4 DEF Reported
<1>11. QED
  BY <1>7, <1>9, <1>10

LEMMA PairPersist ==
  ASSUME InOrder, TypeInv, FactInv, PairInv,
         NEW log \in inflight, NEW key \in 1 .. MaxCommands, Persist(log, key)
  PROVE  StoredInOrder' /\ Reported' \subseteq Reported
<1> DEFINE new == [log |-> log, key |-> key]
<1>1. /\ inflight' = inflight \ {log} /\ fjall' = fjall \cup {new}
      /\ \A other \in inflight : log.id <= other.id
      /\ UNCHANGED history
  BY DEF Persist, shells
<1>2. new.log = log
  OBVIOUS
<1> HIDE DEF new
<1>3. \A other \in inflight' : log.id < other.id
  <2>1. SUFFICES ASSUME NEW other \in inflight, other # log PROVE log.id < other.id
    BY <1>1
  <2>2. Happened(history, log) /\ Happened(history, other)
    BY DEF FactInv
  <2>3. /\ log.id \in 1 .. Len(history) /\ other.id \in 1 .. Len(history)
        /\ log.id = other.id => log = other
    BY <2>2, LinesDiffer DEF PairInv
  <2>4. log.id <= other.id
    BY <1>1
  <2>5. Len(history) \in Nat
    BY LenProperties DEF TypeInv, TypeOK
  <2>6. QED
    BY <2>1, <2>3, <2>4, <2>5
<1>4. \A r \in fjall : r.log # log
  <2>1. SUFFICES ASSUME NEW r \in fjall, r.log = log PROVE FALSE
    OBVIOUS
  <2>2. log.id < log.id /\ log.id \in 1 .. Len(history)
    BY <2>1, LinesDiffer DEF PairInv, StoredInOrder, FactInv, Id
  <2>3. QED
    BY <2>2
<1>5. \A r \in fjall', other \in inflight' : Id(r) < other.id
  BY <1>1, <1>2, <1>3 DEF PairInv, StoredInOrder, Id
<1>6. \A q, r \in fjall' : q.log = r.log => q = r
  BY <1>1, <1>2, <1>4 DEF PairInv, StoredInOrder
<1>7. Reported' \subseteq Reported
  BY <1>1, <1>2 DEF Reported
<1>8. QED
  BY <1>1, <1>5, <1>6, <1>7 DEF StoredInOrder, Id

(* What is no new report disturbs no pair, found or promoted.              *)
LEMMA PairsKept ==
  ASSUME TypeInv, ScanInv, FactInv, PairInv, UNCHANGED <<scan, lancedb>>,
         TimeInOrder', StoredInOrder',
         \A log \in Reported' : log \in Reported \/ log.id = Len(history) + 1
  PROVE  PairInv'
<1>1. /\ Len(history) \in Nat /\ Len(scan) \in Nat /\ DOMAIN scan = 1 .. Len(scan)
      /\ \A log \in Reported' : log \in Reported \/ (log.id \in Nat /\ log.id > Len(history))
  BY LenProperties DEF TypeInv, TypeOK
<1>2. ASSUME NEW a, NEW b, Happened(history, a), Happened(history, b), Neighbours(a, b, Reported)
      PROVE  Neighbours(a, b, Reported')
  <2>1. a.id \in 1 .. Len(history) /\ b.id \in 1 .. Len(history)
    BY <1>2, LinesDiffer DEF PairInv
  <2>2. PICK S, T, n : S = Reported /\ T = Reported' /\ n = Len(history)
    OBVIOUS
  <2>3. QED
    BY <1>1, <1>2, <2>1, <2>2, StillNeighbours
<1>3. ASSUME NEW i \in 1 .. Len(scan) - 1
      PROVE  Neighbours(scan[i].log, scan[i + 1].log, Reported')
  <2>1. scan[i] \in fjall /\ scan[i + 1] \in fjall
    BY <1>1 DEF ScanInv
  <2>2. Happened(history, scan[i].log) /\ Happened(history, scan[i + 1].log)
    BY <2>1 DEF FactInv
  <2>3. Neighbours(scan[i].log, scan[i + 1].log, Reported)
    BY DEF PairInv
  <2>4. QED
    BY <1>2, <2>2, <2>3
<1>4. ASSUME NEW i \in DOMAIN lancedb
      PROVE  Neighbours(lancedb[i].prev.log, lancedb[i].curr.log, Reported')
  BY <1>2 DEF FactInv, PairInv
<1>5. QED
  BY <1>3, <1>4 DEF PairInv

LEMMA PairStep ==
  ASSUME InOrder, Spaced, TypeInv, ScanInv, FactInv, PairInv, [Next]_vars
  PROVE  PairInv'
<1>1. ASSUME UNCHANGED <<history, now, fjall>>, inflight' \subseteq inflight
      PROVE  TimeInOrder' /\ StoredInOrder' /\ Reported' \subseteq Reported
  BY <1>1 DEF PairInv, TimeInOrder, StoredInOrder, Reported, Id
<1>2. CASE Second
  <2>1. UNCHANGED <<up, life, scan, lancedb, history, inflight, fjall>> /\ now' = now + 1 /\ now \in Nat
    BY <1>2, MemoryAssumption DEF Second, scanner, TypeInv, TypeOK
  <2>2. \A i \in 1 .. Len(history) : history[i].start_timestamp \in Nat
    <3>1. SUFFICES ASSUME NEW i \in 1 .. Len(history) PROVE history[i].start_timestamp \in Nat
      OBVIOUS
    <3>2. history[i] \in Telemetry
      BY ElementOfSeq DEF TypeInv, TypeOK
    <3>3. QED
      BY <3>2 DEF Telemetry
  <2>3. TimeInOrder'
    BY <2>1, <2>2 DEF PairInv, TimeInOrder
  <2>4. StoredInOrder' /\ Reported' = Reported
    BY <2>1 DEF PairInv, StoredInOrder, Reported, Id
  <2>5. QED
    BY <2>1, <2>3, <2>4, PairsKept
<1>3. CASE \E s \in Sessions, c \in Commands, outcome \in Outcomes : Execute(s, c, outcome)
  <2>1. PICK s \in Sessions, c \in Commands, outcome \in Outcomes : Execute(s, c, outcome)
    BY <1>3
  <2>2. UNCHANGED <<scan, lancedb>>
    BY <2>1 DEF Execute, scanner
  <2>3. QED
    BY <2>1, <2>2, PairExecute, PairsKept
<1>4. CASE PersistAny
  <2>1. PICK log \in inflight, key \in 1 .. MaxCommands : Persist(log, key)
    BY <1>4 DEF PersistAny
  <2>2. UNCHANGED <<scan, lancedb, history, now>>
    BY <2>1 DEF Persist, scanner, shells
  <2>3. TimeInOrder'
    BY <2>2 DEF PairInv, TimeInOrder
  <2>4. QED
    BY <2>1, <2>2, <2>3, PairPersist, PairsKept
<1>5. CASE StartScan
  <2>1. UNCHANGED <<lancedb, history, now, inflight, fjall>>
    BY <1>5 DEF StartScan, shells
  <2>2. \A i \in 1 .. Len(scan') - 1 : Neighbours(scan'[i].log, scan'[i + 1].log, Reported)
    BY <1>5, ScanSkipsNothing DEF PairInv
  <2>3. TimeInOrder' /\ StoredInOrder' /\ Reported' = Reported
    BY <1>1, <2>1 DEF Reported
  <2>4. QED
    BY <2>1, <2>2, <2>3 DEF PairInv
<1>6. CASE ScanWindow
  <2> DEFINE rule == [prev |-> scan[window], curr |-> scan[window + 1], life |-> life]
  <2>1. UNCHANGED <<history, now, inflight, fjall, scan>>
    BY <1>6 DEF ScanWindow, shells
  <2>2. TimeInOrder' /\ StoredInOrder' /\ Reported' = Reported
    BY <1>1, <2>1 DEF Reported
  <2>3. \A i \in DOMAIN lancedb' :
          Neighbours(lancedb'[i].prev.log, lancedb'[i].curr.log, Reported)
    <3>1. CASE UNCHANGED lancedb
      BY <3>1 DEF PairInv
    <3>2. CASE lancedb' = Append(lancedb, rule)
      <4>1. window \in 1 .. Len(scan) - 1
        BY <1>6, TimesAreNaturals DEF ScanWindow
      <4>2. Neighbours(rule.prev.log, rule.curr.log, Reported)
        BY <4>1 DEF PairInv
      <4>3. /\ DOMAIN lancedb' = 1 .. (Len(lancedb) + 1) /\ Len(lancedb) \in Nat
            /\ \A i \in 1 .. Len(lancedb) : lancedb'[i] = lancedb[i]
            /\ lancedb'[Len(lancedb) + 1] = rule
            /\ DOMAIN lancedb = 1 .. Len(lancedb)
        BY <3>2, TimesAreNaturals
      <4>4. \A i \in DOMAIN lancedb' : lancedb'[i] = rule \/ \E j \in DOMAIN lancedb : lancedb'[i] = lancedb[j]
        BY <4>3
      <4> HIDE DEF rule
      <4>5. QED
        BY <4>2, <4>4 DEF PairInv
    <3>3. QED
      BY <1>6, <3>1, <3>2 DEF ScanWindow
  <2>4. QED
    BY <2>1, <2>2, <2>3 DEF PairInv
<1>7. CASE FinishScan \/ Crash
  <2>1. /\ UNCHANGED <<lancedb, history, now, fjall>> /\ scan' = <<>>
        /\ inflight' \subseteq inflight
    BY <1>7 DEF FinishScan, Crash, shells
  <2>2. TimeInOrder' /\ StoredInOrder' /\ Reported' \subseteq Reported
    BY <1>1, <2>1
  <2>3. \A i \in DOMAIN lancedb : Neighbours(lancedb[i].prev.log, lancedb[i].curr.log, Reported')
    BY <2>2 DEF PairInv, Neighbours
  <2>4. \A i \in 1 .. Len(scan') - 1 : FALSE
    BY <2>1
  <2>5. QED
    BY <2>1, <2>2, <2>3, <2>4 DEF PairInv
<1>8. CASE DropAny \/ Restart \/ UNCHANGED vars
  <2>1. UNCHANGED <<scan, lancedb, history, now, fjall>> /\ inflight' \subseteq inflight
    BY <1>8 DEF DropAny, Drop, Restart, vars, shells, scanner
  <2>2. QED
    BY <1>1, <2>1, PairsKept
<1>9. QED
  BY <1>2, <1>3, <1>4, <1>5, <1>6, <1>7, <1>8 DEF Next, Consolidator, Stops

(* While reports are stored in order and no two lines end in the same      *)
(* second, nothing lies between the two lines of a rule but lines whose    *)
(* report was lost, whatever crashes and restarts there are.               *)
THEOREM NeighboursPaired ==
  ASSUME InOrder, Spaced
  PROVE  Spec => []RulesPairNeighbours
<1>1. Init => PairInv
  <2>1. SUFFICES ASSUME Init PROVE PairInv
    OBVIOUS
  <2>2. /\ Len(history) = 0 /\ Len(scan) = 0 /\ DOMAIN lancedb = {}
        /\ fjall = {} /\ inflight = {}
    BY <2>1 DEF Init
  <2>3. QED
    BY <2>2 DEF PairInv, TimeInOrder, StoredInOrder
<1>2. TypeInv /\ ScanInv /\ FactInv /\ PairInv /\ [Next]_vars => PairInv'
  BY PairStep
<1>3. PairInv => RulesPairNeighbours
  BY DEF PairInv, Neighbours, RulesPairNeighbours
<1>4. Spec => []ScanInv
  BY ConsolidatorInit, ScanStep, TypeInvariant, PTL DEF Spec
<1>5. Spec => []FactInv
  BY <1>4, FactInit, FactStep, TypeInvariant, PTL DEF Spec
<1>6. QED
  BY <1>1, <1>2, <1>3, <1>4, <1>5, TypeInvariant, PTL DEF Spec
=============================================================================
