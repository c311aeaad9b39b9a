------------------------- MODULE TerraformRunsProofs -------------------------
(***************************************************************************)
(* Proofs about TerraformRuns, for any sets of runs and workers and any    *)
(* number of faults.                                                       *)
(***************************************************************************)
EXTENDS TerraformRuns, TLAPS

\* The initial state has the types of TypeOK.
LEMMA InitTypeOK == Init => TypeOK
  BY NoRunAssumption, FaultAssumption DEF Init, TypeOK, Statuses, PCs

\* A fault is counted once, within its bound.
LEMMA FaultType ==
  ASSUME TypeOK, NEW kind, Fault(kind)
  PROVE  faults' \in [FaultKinds -> 0..MaxFaults]
  BY FaultAssumption DEF TypeOK, Fault

\* A lost statement keeps the fault counters in their type.
LEMMA LostType ==
  ASSUME TypeOK, NEW w \in Worker, Lost(w)
  PROVE  faults' \in [FaultKinds -> 0..MaxFaults]
  BY FaultType DEF TypeOK, Lost

\* So does a status update, which also keeps the types of what it changes.
LEMMA SetStatusType ==
  ASSUME TypeOK, NEW w \in Worker, pc[w] \notin {"idle", "down", "stopped"},
         NEW value \in Statuses, NEW text, SetStatus(w, value, text)
  PROVE  /\ faults' \in [FaultKinds -> 0..MaxFaults]
         /\ status' \in [Run -> Statuses]
         /\ refused' \subseteq Run
  BY LostType DEF TypeOK, SetStatus

\* Every step keeps every variable in its type.
LEMMA NextTypeOK == TypeOK /\ [Next]_vars => TypeOK'
<1> SUFFICES ASSUME TypeOK, [Next]_vars PROVE TypeOK'
  OBVIOUS
<1> USE NoRunAssumption, FaultAssumption DEF apiVars, BackToLoop, Statuses, PCs
<1>1. ASSUME NEW r \in Run, EnqueueBegin(r) PROVE TypeOK'
  BY <1>1 DEF TypeOK, EnqueueBegin
<1>2. ASSUME NEW r \in Run, EnqueueCommit(r) PROVE TypeOK'
  BY <1>2 DEF TypeOK, EnqueueCommit
<1>3. ASSUME NEW r \in Run, EnqueueRollback(r) PROVE TypeOK'
  BY <1>3 DEF TypeOK, EnqueueRollback
<1>4. ASSUME NEW r \in Run, TerraformExit(r) PROVE TypeOK'
  BY <1>4 DEF TypeOK, TerraformExit
<1>5. ASSUME NEW w \in Worker, ClaimSelect(w) PROVE TypeOK'
  BY <1>5 DEF TypeOK, ClaimSelect, Oldest, Claimable
<1>6. ASSUME NEW w \in Worker, ClaimUpdate(w) PROVE TypeOK'
  BY <1>6 DEF TypeOK, ClaimUpdate
<1>7. ASSUME NEW w \in Worker, ClaimAbort(w) PROVE TypeOK'
  BY <1>7, LostType DEF TypeOK, ClaimAbort, Requeued
<1>8. ASSUME NEW w \in Worker, ClaimError(w) PROVE TypeOK'
  BY <1>8, LostType DEF TypeOK, ClaimError
<1>9. ASSUME NEW w \in Worker, ClaimScanned(w) PROVE TypeOK'
  BY <1>9 DEF TypeOK, ClaimScanned
<1>10. ASSUME NEW w \in Worker, NoWorkDir(w) PROVE TypeOK'
  BY <1>10, SetStatusType DEF TypeOK, NoWorkDir
<1>11. ASSUME NEW w \in Worker, MakeWorkDir(w) PROVE TypeOK'
  BY <1>11 DEF TypeOK, MakeWorkDir
<1>12. ASSUME NEW w \in Worker, Extract(w) PROVE TypeOK'
  BY <1>12 DEF TypeOK, Extract
<1>13. ASSUME NEW w \in Worker, TerraformInit(w) PROVE TypeOK'
  BY <1>13 DEF TypeOK, TerraformInit
<1>14. ASSUME NEW w \in Worker, TerraformStart(w) PROVE TypeOK'
  BY <1>14 DEF TypeOK, TerraformStart
<1>15. ASSUME NEW w \in Worker, TerraformWait(w) PROVE TypeOK'
  BY <1>15 DEF TypeOK, TerraformWait
<1>16. ASSUME NEW w \in Worker, FailRun(w) PROVE TypeOK'
  BY <1>16, SetStatusType DEF TypeOK, FailRun
<1>17. ASSUME NEW w \in Worker, SucceedRun(w) PROVE TypeOK'
  BY <1>17, SetStatusType DEF TypeOK, SucceedRun
<1>18. ASSUME NEW w \in Worker, CloseJob(w) PROVE TypeOK'
  BY <1>18, LostType DEF TypeOK, CloseJob
<1>19. ASSUME NEW w \in Worker, Cleanup(w) PROVE TypeOK'
  BY <1>19 DEF TypeOK, Cleanup
<1>20. ASSUME NEW w \in Worker, ExitLoop(w) PROVE TypeOK'
  BY <1>20 DEF TypeOK, ExitLoop
<1>21. ASSUME NEW w \in Worker, Shutdown(w) PROVE TypeOK'
  BY <1>21, FaultType DEF TypeOK, Shutdown
<1>22. ASSUME NEW w \in Worker, Crash(w) PROVE TypeOK'
  <2>1. faults' \in [FaultKinds -> 0..MaxFaults]
    BY <1>22, FaultType DEF Crash
  <2>2. status' \in [Run -> Statuses] /\ ahead' \in [Run -> SUBSET Run]
    BY <1>22 DEF TypeOK, Crash, Requeued
  <2>3. QED
    BY <1>22, <2>1, <2>2 DEF TypeOK, Crash
<1>23. ASSUME NEW w \in Worker, Restart(w) \/ Start(w) PROVE TypeOK'
  BY <1>23 DEF TypeOK, Restart, Start, Up
<1>24. CASE UNCHANGED vars
  BY <1>24 DEF TypeOK, vars
<1>25. ASSUME NEW w \in Worker, PollEmpty(w) PROVE TypeOK'
  BY <1>25, <1>24 DEF PollEmpty
<1>26. QED
  BY <1>1, <1>2, <1>3, <1>4, <1>5, <1>6, <1>7, <1>8, <1>9, <1>10, <1>11, <1>12,
     <1>13, <1>14, <1>15, <1>16, <1>17, <1>18, <1>19, <1>20, <1>21, <1>22, <1>23,
     <1>24, <1>25 DEF Next, WorkerStep

\* What PostgreSQL has refused stays refused.
LEMMA RefusedStays == [Next]_vars => refused \subseteq refused'
  BY DEF Next, WorkerStep, vars, EnqueueBegin, EnqueueCommit, EnqueueRollback,
         TerraformExit, ClaimSelect, ClaimUpdate, ClaimAbort, ClaimError, ClaimScanned,
         NoWorkDir, MakeWorkDir, Extract, TerraformInit, TerraformStart, TerraformWait,
         FailRun, SucceedRun, SetStatus, CloseJob, Cleanup, ExitLoop, Shutdown, Crash,
         Restart, Start, Up, PollEmpty

\* The state of TerraformRuns keeps its types in every behaviour.
THEOREM TypeCorrect == Spec => []TypeOK
  BY InitTypeOK, NextTypeOK, PTL DEF Spec

-----------------------------------------------------------------------------
(* IInv is inductive: one lemma per conjunct.  Steps are grouped by what   *)
(* they do to the variables of the conjunct.                               *)

\* The initial state satisfies the invariant.
LEMMA InitIInv == Init => IInv
  BY InitTypeOK, NoRunAssumption
  DEF Init, IInv, ExclusiveRun, WorkerInv, RowInv, LiveProcessHasDir, JobAfterRun,
      ClockInv, QueueOrder, LeftQueue, Locks

\* Only ClaimSelect gives a worker a run, and a claimable run is in no hands:
\* a run held beyond the claim statement is no longer pending.
LEMMA NextExclusiveRun == IInv /\ TypeOK' /\ [Next]_vars => ExclusiveRun'
<1> SUFFICES ASSUME IInv, TypeOK', [Next]_vars PROVE ExclusiveRun'
  OBVIOUS
<1>1. ASSUME NEW w \in Worker, ClaimSelect(w) PROVE ExclusiveRun'
  <2>1. PICK r \in Claimable : cur' = [cur EXCEPT ![w] = r]
    BY <1>1 DEF ClaimSelect, Oldest
  <2>2. r \in Run /\ status[r] = "pending" /\ \A v \in Worker : ~Locks(v, r)
    BY <2>1 DEF Claimable
  <2>3. \A v \in Worker : cur[v] # r
    <3>1. SUFFICES ASSUME NEW v \in Worker, cur[v] = r PROVE FALSE
      OBVIOUS
    <3>2. pc[v] \notin {"idle", "down", "stopped", "claiming"}
      BY <2>2, <3>1, NoRunAssumption DEF IInv, TypeOK, Locks
    <3>3. QED
      BY <2>2, <3>1, <3>2 DEF IInv, TypeOK, PCs, WorkerInv
  <2>4. QED
    BY <2>1, <2>2, <2>3 DEF IInv, TypeOK, ExclusiveRun
<1>2. ASSUME NEW w \in Worker, cur' = [cur EXCEPT ![w] = NoRun] PROVE ExclusiveRun'
  BY <1>2 DEF IInv, TypeOK, ExclusiveRun
<1>3. CASE UNCHANGED cur
  BY <1>3 DEF IInv, ExclusiveRun
<1>4. QED
  BY <1>1, <1>2, <1>3
  DEF Next, WorkerStep, vars, EnqueueBegin, EnqueueCommit, EnqueueRollback,
      TerraformExit, ClaimUpdate, ClaimAbort, ClaimError, ClaimScanned, NoWorkDir,
      MakeWorkDir, Extract, TerraformInit, TerraformStart, TerraformWait, FailRun,
      SucceedRun, CloseJob, Cleanup, ExitLoop, Shutdown, Crash, Restart, Start, Up, PollEmpty,
      BackToLoop

\* A row stays consistent with its request and its terraform process.
LEMMA NextRowInv == IInv /\ TypeOK' /\ [Next]_vars => \A q \in Run : RowInv(q)'
<1> SUFFICES ASSUME IInv, TypeOK', [Next]_vars PROVE \A q \in Run : RowInv(q)'
  OBVIOUS
<1> USE DEF IInv, TypeOK, RowInv, WorkerInv
<1>1. ASSUME NEW r \in Run, EnqueueBegin(r) PROVE \A q \in Run : RowInv(q)'
  BY <1>1 DEF EnqueueBegin
<1>2. ASSUME NEW r \in Run, EnqueueCommit(r) PROVE \A q \in Run : RowInv(q)'
  BY <1>2 DEF EnqueueCommit
<1>3. ASSUME NEW r \in Run, EnqueueRollback(r) PROVE \A q \in Run : RowInv(q)'
  BY <1>3 DEF EnqueueRollback
<1>4. ASSUME NEW r \in Run, TerraformExit(r) PROVE \A q \in Run : RowInv(q)'
  BY <1>4 DEF TerraformExit, apiVars
<1>5. ASSUME NEW w \in Worker, ClaimUpdate(w) PROVE \A q \in Run : RowInv(q)'
  BY <1>5 DEF ClaimUpdate, apiVars
<1>6. ASSUME NEW w \in Worker, NoWorkDir(w) PROVE \A q \in Run : RowInv(q)'
  BY <1>6 DEF NoWorkDir, SetStatus, apiVars
<1>7. ASSUME NEW w \in Worker, TerraformStart(w) PROVE \A q \in Run : RowInv(q)'
  BY <1>7 DEF TerraformStart, apiVars
<1>8. ASSUME NEW w \in Worker, FailRun(w) PROVE \A q \in Run : RowInv(q)'
  BY <1>8 DEF FailRun, SetStatus, apiVars
<1>9. ASSUME NEW w \in Worker, SucceedRun(w) PROVE \A q \in Run : RowInv(q)'
  BY <1>9 DEF SucceedRun, SetStatus, apiVars
<1>10. ASSUME NEW w \in Worker, Crash(w) PROVE \A q \in Run : RowInv(q)'
  BY <1>10 DEF Crash, apiVars
<1>11. CASE UNCHANGED <<request, status, proc>>
  BY <1>11
<1>12. QED
  BY <1>1, <1>2, <1>3, <1>4, <1>5, <1>6, <1>7, <1>8, <1>9, <1>10, <1>11
  DEF Next, WorkerStep, vars, apiVars, ClaimSelect, ClaimAbort, ClaimError,
      ClaimScanned, MakeWorkDir, Extract, TerraformInit, TerraformWait, CloseJob,
      Cleanup, ExitLoop, Shutdown, Restart, Start, Up, PollEmpty

\* A directory goes only in Cleanup, whose worker has seen its terraform end.
LEMMA NextLiveProcessHasDir == IInv /\ TypeOK' /\ [Next]_vars => LiveProcessHasDir'
<1> SUFFICES ASSUME IInv, TypeOK', [Next]_vars PROVE LiveProcessHasDir'
  OBVIOUS
<1> USE DEF IInv, TypeOK, LiveProcessHasDir, WorkerInv
<1>1. ASSUME NEW r \in Run, TerraformExit(r) PROVE LiveProcessHasDir'
  BY <1>1 DEF TerraformExit
<1>2. ASSUME NEW w \in Worker, MakeWorkDir(w) PROVE LiveProcessHasDir'
  BY <1>2 DEF MakeWorkDir
<1>3. ASSUME NEW w \in Worker, TerraformStart(w) PROVE LiveProcessHasDir'
  BY <1>3 DEF TerraformStart
<1>4. ASSUME NEW w \in Worker, Cleanup(w) PROVE LiveProcessHasDir'
  BY <1>4 DEF Cleanup
<1>5. CASE UNCHANGED <<proc, dir>>
  BY <1>5
<1>6. QED
  BY <1>1, <1>2, <1>3, <1>4, <1>5
  DEF Next, WorkerStep, vars, EnqueueBegin, EnqueueCommit, EnqueueRollback,
      ClaimSelect, ClaimUpdate, ClaimAbort, ClaimError, ClaimScanned, NoWorkDir,
      Extract, TerraformInit, TerraformWait, FailRun, SucceedRun, CloseJob, ExitLoop,
      Shutdown, Crash, Restart, Start, Up, PollEmpty

\* What a worker knows of its run stays true: its own steps establish it, and no
\* other worker, request or exit of terraform touches the run behind its back.
LEMMA NextWorkerInv ==
  IInv /\ TypeOK' /\ [Next]_vars => \A v \in Worker : WorkerInv(v)'
<1> SUFFICES ASSUME IInv, TypeOK', [Next]_vars PROVE \A v \in Worker : WorkerInv(v)'
  OBVIOUS
<1> DEFINE Goal == \A v \in Worker : WorkerInv(v)'
<1> USE NoRunAssumption DEF IInv, TypeOK, ExclusiveRun, WorkerInv, Happened
<1>1. ASSUME NEW r \in Run, EnqueueBegin(r) PROVE Goal
  BY <1>1 DEF EnqueueBegin
<1>2. ASSUME NEW r \in Run, EnqueueCommit(r) PROVE Goal
  BY <1>2 DEF EnqueueCommit, RowInv
<1>3. ASSUME NEW r \in Run, EnqueueRollback(r) PROVE Goal
  BY <1>3 DEF EnqueueRollback
<1>4. ASSUME NEW r \in Run, TerraformExit(r) PROVE Goal
  BY <1>4 DEF TerraformExit
<1>5. ASSUME NEW w \in Worker, ClaimSelect(w) PROVE Goal
  BY <1>5 DEF ClaimSelect, Oldest, Claimable, RowInv
<1>6. ASSUME NEW w \in Worker, ClaimUpdate(w) PROVE Goal
  BY <1>6 DEF ClaimUpdate
<1>7. ASSUME NEW w \in Worker, ClaimAbort(w) PROVE Goal
  BY <1>7 DEF ClaimAbort, BackToLoop, Lost, Fault
<1>8. ASSUME NEW w \in Worker, ClaimError(w) PROVE Goal
  BY <1>8 DEF ClaimError, BackToLoop, Lost, Fault
<1>9. ASSUME NEW w \in Worker, ClaimScanned(w) PROVE Goal
  BY <1>9 DEF ClaimScanned
<1>10. ASSUME NEW w \in Worker, NoWorkDir(w) PROVE Goal
  BY <1>10 DEF NoWorkDir, BackToLoop, SetStatus, Lost, Fault
<1>11. ASSUME NEW w \in Worker, MakeWorkDir(w) PROVE Goal
  BY <1>11 DEF MakeWorkDir
<1>12. ASSUME NEW w \in Worker, Extract(w) PROVE Goal
  BY <1>12 DEF Extract
<1>13. ASSUME NEW w \in Worker, TerraformInit(w) PROVE Goal
  BY <1>13 DEF TerraformInit
<1>14. ASSUME NEW w \in Worker, TerraformStart(w) PROVE Goal
  BY <1>14 DEF TerraformStart
<1>15. ASSUME NEW w \in Worker, TerraformWait(w) PROVE Goal
  BY <1>15 DEF TerraformWait
<1>16. ASSUME NEW w \in Worker, FailRun(w) PROVE Goal
  BY <1>16 DEF FailRun, SetStatus, Lost, Fault
<1>17. ASSUME NEW w \in Worker, SucceedRun(w) PROVE Goal
  BY <1>17 DEF SucceedRun, SetStatus, Lost, Fault
<1>18. ASSUME NEW w \in Worker, CloseJob(w) PROVE Goal
  BY <1>18 DEF CloseJob, Lost, Fault
<1>19. ASSUME NEW w \in Worker, Cleanup(w) PROVE Goal
  BY <1>19 DEF Cleanup, BackToLoop
<1>20. ASSUME NEW w \in Worker, ExitLoop(w) PROVE Goal
  BY <1>20 DEF ExitLoop
<1>21. ASSUME NEW w \in Worker, Shutdown(w) PROVE Goal
  BY <1>21 DEF Shutdown, Fault
<1>22. ASSUME NEW w \in Worker, Crash(w) PROVE Goal
  BY <1>22 DEF Crash, Fault
<1>23. ASSUME NEW w \in Worker, Restart(w) \/ Start(w) PROVE Goal
  BY <1>23 DEF Restart, Start, Up
<1>24. CASE UNCHANGED vars
  BY <1>24 DEF vars
<1>25. QED
  BY <1>1, <1>2, <1>3, <1>4, <1>5, <1>6, <1>7, <1>8, <1>9, <1>10, <1>11, <1>12,
     <1>13, <1>14, <1>15, <1>16, <1>17, <1>18, <1>19, <1>20, <1>21, <1>22, <1>23,
     <1>24 DEF Next, WorkerStep, PollEmpty

\* A closed job keeps a successful terraform and, unless the database lost or
\* refused the first update, a run in 'succeeded', which no statement changes.
LEMMA NextJobAfterRun == IInv /\ TypeOK' /\ [Next]_vars => JobAfterRun'
<1> SUFFICES ASSUME IInv, TypeOK', [Next]_vars PROVE JobAfterRun'
  OBVIOUS
<1> USE DEF IInv, TypeOK, JobAfterRun, WorkerInv, RowInv, Happened
<1>1. ASSUME NEW r \in Run, EnqueueCommit(r) PROVE JobAfterRun'
  BY <1>1 DEF EnqueueCommit
<1>2. ASSUME NEW r \in Run, TerraformExit(r) PROVE JobAfterRun'
  BY <1>2 DEF TerraformExit
<1>3. ASSUME NEW w \in Worker, ClaimUpdate(w) PROVE JobAfterRun'
  BY <1>3 DEF ClaimUpdate
<1>4. ASSUME NEW w \in Worker, NoWorkDir(w) PROVE JobAfterRun'
  BY <1>4 DEF NoWorkDir, SetStatus, Lost, Fault
<1>5. ASSUME NEW w \in Worker, TerraformStart(w) PROVE JobAfterRun'
  BY <1>5 DEF TerraformStart
<1>6. ASSUME NEW w \in Worker, FailRun(w) PROVE JobAfterRun'
  BY <1>6 DEF FailRun, SetStatus, Lost, Fault
<1>7. ASSUME NEW w \in Worker, SucceedRun(w) PROVE JobAfterRun'
  BY <1>7 DEF SucceedRun, SetStatus, Lost, Fault
<1>8. ASSUME NEW w \in Worker, CloseJob(w) PROVE JobAfterRun'
  BY <1>8 DEF CloseJob, Lost, Fault
<1>9. ASSUME NEW w \in Worker, Crash(w) PROVE JobAfterRun'
  BY <1>9 DEF Crash, Fault
<1>10. CASE UNCHANGED <<status, job, proc, refused>> /\ (Happened("db") => Happened("db")')
  BY <1>10
<1>11. ASSUME NEW w \in Worker, ClaimAbort(w) \/ ClaimError(w) \/ Shutdown(w)
       PROVE  JobAfterRun'
  BY <1>11 DEF ClaimAbort, ClaimError, Shutdown, Lost, Fault
<1>12. QED
  BY <1>1, <1>2, <1>3, <1>4, <1>5, <1>6, <1>7, <1>8, <1>9, <1>10, <1>11
  DEF Next, WorkerStep, vars, EnqueueBegin, EnqueueRollback, ClaimSelect,
      ClaimScanned, MakeWorkDir, Extract, TerraformInit, TerraformWait, Cleanup,
      ExitLoop, Restart, Start, Up, PollEmpty

\* Time stamps only grow, and a committed row never disappears.
LEMMA NextClockInv == IInv /\ TypeOK' /\ [Next]_vars => ClockInv'
<1> SUFFICES ASSUME IInv, TypeOK', [Next]_vars PROVE ClockInv'
  OBVIOUS
<1> USE DEF IInv, TypeOK, ClockInv, RowInv
<1>1. ASSUME NEW r \in Run, EnqueueBegin(r) PROVE ClockInv'
  BY <1>1 DEF EnqueueBegin
<1>2. ASSUME UNCHANGED <<clock, created>>,
             \A q \in Run : ahead'[q] \subseteq ahead[q],
             \A q \in Run : status'[q] = "absent" => status[q] = "absent"
      PROVE  ClockInv'
  BY <1>2
<1>3. ASSUME NEW r \in Run, EnqueueCommit(r) PROVE ClockInv'
  BY <1>3, <1>2 DEF EnqueueCommit
<1>4. ASSUME NEW w \in Worker, ClaimUpdate(w) PROVE ClockInv'
  BY <1>4, <1>2 DEF ClaimUpdate, apiVars
<1>5. ASSUME NEW w \in Worker, ClaimAbort(w) PROVE ClockInv'
  BY <1>5, <1>2 DEF ClaimAbort, Requeued, apiVars
<1>6. ASSUME NEW w \in Worker, NoWorkDir(w) \/ FailRun(w) \/ SucceedRun(w)
      PROVE  ClockInv'
  BY <1>6, <1>2 DEF NoWorkDir, FailRun, SucceedRun, SetStatus, apiVars
<1>7. ASSUME NEW w \in Worker, Crash(w) PROVE ClockInv'
  <2>1. UNCHANGED <<clock, created>>
    BY <1>7 DEF Crash, apiVars
  <2>2. \A q \in Run : ahead'[q] \subseteq ahead[q]
    BY <1>7 DEF Crash, Requeued
  <2>3. \A q \in Run : status'[q] = "absent" => status[q] = "absent"
    BY <1>7 DEF Crash
  <2>4. QED
    BY <1>2, <2>1, <2>2, <2>3
<1>8. CASE UNCHANGED <<clock, created, ahead, status>>
  BY <1>8
<1>9. QED
  BY <1>1, <1>3, <1>4, <1>5, <1>6, <1>7, <1>8
  DEF Next, WorkerStep, vars, apiVars, EnqueueRollback, TerraformExit, ClaimSelect,
      ClaimError, ClaimScanned, MakeWorkDir, Extract, TerraformInit, TerraformStart,
      TerraformWait, CloseJob, Cleanup, ExitLoop, Shutdown, Restart, Start, Up, PollEmpty

\* A step that neither takes a run out of the queue nor returns one to it keeps
\* the order.
LEMMA QueueOrderKept ==
  ASSUME IInv, UNCHANGED ahead, \A q \in Run : LeftQueue(q)' <=> LeftQueue(q)
  PROVE  QueueOrder'
  BY DEF IInv, TypeOK, QueueOrder

\* A claim that is rolled back returns its run to the queue, and the runs that
\* have already overtaken it are excused.
LEMMA QueueOrderRequeued ==
  ASSUME IInv, NEW w \in Worker, pc[w] = "claiming", Requeued(cur[w]), UNCHANGED status,
         pc'[w] # "claiming",
         \A v \in Worker \ {w} : pc'[v] = pc[v] /\ cur'[v] = cur[v]
  PROVE  QueueOrder'
<1> DEFINE r == cur[w]
<1>1. r \in Run /\ status[r] = "pending"
  BY DEF IInv, TypeOK, WorkerInv
<1>2. \A v \in Worker \ {w} : cur[v] # r
  BY <1>1, NoRunAssumption DEF IInv, ExclusiveRun
<1>3. \A q \in Run : LeftQueue(q)' <=> LeftQueue(q) /\ q # r
  BY <1>1, <1>2 DEF LeftQueue, Locks
<1>4. \A q \in Run : LeftQueue(q) => ahead'[q] = ahead[q] \ {r}
  BY DEF Requeued
<1>5. QED
  BY <1>3, <1>4 DEF IInv, TypeOK, QueueOrder

\* The select takes the oldest claimable run: everything ahead of that run is
\* older, so it has been claimed or is locked by another claim.
LEMMA QueueOrderSelect ==
  ASSUME IInv, TypeOK', NEW w \in Worker, ClaimSelect(w)
  PROVE  QueueOrder'
<1>1. PICK r \in Oldest(Claimable) : cur' = [cur EXCEPT ![w] = r]
  BY DEF ClaimSelect
<1>2. r \in Run /\ \A q \in Claimable : created[r] <= created[q]
  BY <1>1 DEF Oldest, Claimable
<1>3. \A q \in Run : LeftQueue(q)' <=> LeftQueue(q) \/ q = r
  BY <1>1, <1>2 DEF ClaimSelect, LeftQueue, Locks, IInv, TypeOK
<1>4. \A q \in ahead[r] : LeftQueue(q)
  <2>1. SUFFICES ASSUME NEW q \in ahead[r], ~LeftQueue(q) PROVE FALSE
    OBVIOUS
  <2>2. q \in Run /\ status[q] # "absent" /\ created[q] < created[r]
    BY <1>2, <2>1 DEF IInv, TypeOK, ClockInv
  <2>3. q \in Claimable
    BY <2>1, <2>2 DEF LeftQueue, Claimable, IInv, TypeOK, Statuses
  <2>4. QED
    BY <1>2, <2>2, <2>3 DEF IInv, TypeOK
<1>5. QED
  BY <1>3, <1>4 DEF ClaimSelect, IInv, TypeOK, QueueOrder

\* The order of the queue survives every step.
LEMMA NextQueueOrder == IInv /\ TypeOK' /\ [Next]_vars => QueueOrder'
<1> SUFFICES ASSUME IInv, TypeOK', [Next]_vars PROVE QueueOrder'
  OBVIOUS
<1>1. ASSUME NEW r \in Run, EnqueueBegin(r) PROVE QueueOrder'
  <2>1. ~LeftQueue(r)
    BY <1>1 DEF EnqueueBegin, IInv, RowInv, WorkerInv, LeftQueue, Locks
  <2>2. \A q \in Run : LeftQueue(q)' <=> LeftQueue(q)
    BY <1>1 DEF EnqueueBegin, LeftQueue, Locks
  <2>3. QED
    BY <1>1, <2>1, <2>2 DEF EnqueueBegin, IInv, TypeOK, QueueOrder
<1>2. ASSUME NEW r \in Run, EnqueueCommit(r) PROVE QueueOrder'
  BY <1>2, QueueOrderKept DEF EnqueueCommit, LeftQueue, Locks, IInv, TypeOK, RowInv
<1>3. ASSUME NEW w \in Worker, ClaimSelect(w) PROVE QueueOrder'
  BY <1>3, QueueOrderSelect
<1>4. ASSUME NEW w \in Worker, ClaimUpdate(w) PROVE QueueOrder'
  <2>1. \A q \in Run : LeftQueue(q)' <=> LeftQueue(q)
    BY <1>4 DEF ClaimUpdate, LeftQueue, Locks, IInv, TypeOK, WorkerInv
  <2>2. QED
    BY <1>4, <2>1, QueueOrderKept DEF ClaimUpdate
<1>5. ASSUME NEW w \in Worker, ClaimAbort(w) PROVE QueueOrder'
  BY <1>5, QueueOrderRequeued DEF ClaimAbort, BackToLoop, IInv, TypeOK
<1>6. ASSUME NEW w \in Worker, Crash(w) PROVE QueueOrder'
  <2>1. CASE pc[w] = "claiming" /\ Requeued(cur[w]) /\ UNCHANGED status
    BY <1>6, <2>1, QueueOrderRequeued DEF Crash, IInv, TypeOK
  <2>2. CASE /\ pc[w] = "claiming"
             /\ status' = [status EXCEPT ![cur[w]] = "running"]
             /\ UNCHANGED ahead
    <3>1. \A q \in Run : LeftQueue(q)' <=> LeftQueue(q)
      BY <1>6, <2>2 DEF Crash, LeftQueue, Locks, IInv, TypeOK, WorkerInv
    <3>2. QED
      BY <2>2, <3>1, QueueOrderKept
  <2>3. CASE pc[w] # "claiming" /\ UNCHANGED <<status, ahead>>
    <3>1. \A q \in Run : LeftQueue(q)' <=> LeftQueue(q)
      BY <1>6, <2>3 DEF Crash, LeftQueue, Locks, IInv, TypeOK
    <3>2. QED
      BY <2>3, <3>1, QueueOrderKept
  <2>4. QED
    BY <1>6, <2>1, <2>2, <2>3 DEF Crash
<1>7. ASSUME NEW w \in Worker, NoWorkDir(w) \/ FailRun(w) \/ SucceedRun(w)
      PROVE  QueueOrder'
  <2>1. \A q \in Run : LeftQueue(q)' <=> LeftQueue(q)
    BY <1>7 DEF NoWorkDir, FailRun, SucceedRun, SetStatus, BackToLoop, LeftQueue,
                Locks, IInv, TypeOK, WorkerInv
  <2>2. QED
    BY <1>7, <2>1, QueueOrderKept DEF NoWorkDir, FailRun, SucceedRun
<1>8. ASSUME UNCHANGED <<status, ahead>>, \A v \in Worker, q \in Run : Locks(v, q)' <=> Locks(v, q)
      PROVE  QueueOrder'
  BY <1>8, QueueOrderKept DEF LeftQueue
<1>9. CASE UNCHANGED <<status, ahead, pc, cur>>
  BY <1>8, <1>9 DEF Locks
<1>10. ASSUME NEW w \in Worker,
              \/ ClaimError(w) \/ ClaimScanned(w) \/ MakeWorkDir(w) \/ Extract(w)
              \/ TerraformInit(w) \/ TerraformStart(w) \/ TerraformWait(w)
              \/ CloseJob(w) \/ Cleanup(w) \/ ExitLoop(w) \/ Restart(w) \/ Start(w)
       PROVE  QueueOrder'
  <2>1. \A v \in Worker, q \in Run : Locks(v, q)' <=> Locks(v, q)
    BY <1>10 DEF ClaimError, ClaimScanned, MakeWorkDir, Extract, TerraformInit,
                 TerraformStart, TerraformWait, CloseJob, Cleanup, ExitLoop, Restart, Start, Up,
                 BackToLoop, Locks, IInv, TypeOK
  <2>2. UNCHANGED <<status, ahead>>
    BY <1>10 DEF ClaimError, ClaimScanned, MakeWorkDir, Extract, TerraformInit,
                 TerraformStart, TerraformWait, CloseJob, Cleanup, ExitLoop, Restart, Start, Up
  <2>3. QED
    BY <1>8, <2>1, <2>2
<1>11. QED
  BY <1>1, <1>2, <1>3, <1>4, <1>5, <1>6, <1>7, <1>9, <1>10
  DEF Next, WorkerStep, vars, EnqueueRollback, TerraformExit, Shutdown, PollEmpty

\* The inductive invariant holds in every behaviour.
THEOREM Invariance == Spec => []IInv
<1>1. IInv /\ [Next]_vars => IInv'
  <2> SUFFICES ASSUME IInv, [Next]_vars PROVE IInv'
    OBVIOUS
  <2>1. TypeOK'
    BY NextTypeOK DEF IInv
  <2>2. QED
    BY <2>1, NextExclusiveRun, NextWorkerInv, NextRowInv, NextLiveProcessHasDir,
       NextJobAfterRun, NextClockInv, NextQueueOrder DEF IInv
<1>2. QED
  BY InitIInv, <1>1, PTL DEF Spec

\* No two workers have the same run in hand (terraform.go:22-30).
THEOREM RunsAreExclusive == Spec => []ExclusiveRun
<1>1. IInv => ExclusiveRun
  BY DEF IInv
<1>2. QED
  BY <1>1, Invariance, PTL

\* Runs leave the queue in the order of their enqueues (terraform.go:24).
THEOREM QueueIsOrdered == Spec => []QueueOrder
<1>1. IInv => QueueOrder
  BY DEF IInv
<1>2. QED
  BY <1>1, Invariance, PTL

\* Terraform never loses its working directory (terraform.go:46).
THEOREM WorkDirIsKept == Spec => []LiveProcessHasDir
<1>1. IInv => LiveProcessHasDir
  BY DEF IInv
<1>2. QED
  BY <1>1, Invariance, PTL

\* A job is closed only behind a terraform that succeeded, and its run is published
\* as succeeded unless a statement was lost or the run's log refused
\* (terraform.go:92-94, 106-111).
THEOREM JobsFollowRuns == Spec => []JobAfterRun
<1>1. IInv => JobAfterRun
  BY DEF IInv
<1>2. QED
  BY <1>1, Invariance, PTL

-----------------------------------------------------------------------------
(* Refinement: every step of TerraformRuns is a step of RunLifecycle on    *)
(* status and proc, or leaves both alone.                                  *)

\* One step maps to a step or a stutter.
LEMMA StepRefines == IInv /\ [Next]_vars => [RL!Next]_(RL!vars)
<1> SUFFICES ASSUME IInv, [Next]_vars PROVE [RL!Next]_(RL!vars)
  OBVIOUS
<1> USE DEF IInv, TypeOK, RL!Next, RL!vars
<1>1. ASSUME NEW r \in Run, EnqueueCommit(r) PROVE RL!Next
  BY <1>1 DEF EnqueueCommit, RowInv, RL!Submit
<1>2. ASSUME NEW r \in Run, TerraformExit(r) PROVE RL!Next
  BY <1>2 DEF TerraformExit, RL!End
<1>3. ASSUME NEW w \in Worker, pc[w] \notin {"idle", "down", "stopped"} PROVE cur[w] \in Run
  BY <1>3
<1>4. ASSUME NEW w \in Worker, ClaimUpdate(w) PROVE RL!Next
  BY <1>3, <1>4 DEF ClaimUpdate, WorkerInv, RL!Claim
<1>5. ASSUME NEW w \in Worker, TerraformStart(w) PROVE RL!Next
  BY <1>3, <1>5 DEF TerraformStart, WorkerInv, RL!Begin
<1>6. ASSUME NEW w \in Worker, NoWorkDir(w) \/ FailRun(w)
      PROVE  RL!Next \/ UNCHANGED RL!vars
  <2>1. cur[w] \in Run /\ status[cur[w]] = "running" /\ proc[cur[w]] \in {"none", "err"}
    BY <1>3, <1>6 DEF NoWorkDir, FailRun, WorkerInv
  <2>2. status' = [status EXCEPT ![cur[w]] = "failed"] \/ UNCHANGED status
    BY <1>6 DEF NoWorkDir, FailRun, SetStatus
  <2>3. UNCHANGED proc
    BY <1>6 DEF NoWorkDir, FailRun
  <2>4. QED
    BY <2>1, <2>2, <2>3 DEF RL!PublishFailure
<1>7. ASSUME NEW w \in Worker, SucceedRun(w) PROVE RL!Next \/ UNCHANGED RL!vars
  <2>1. cur[w] \in Run /\ status[cur[w]] = "running" /\ proc[cur[w]] = "ok"
    BY <1>3, <1>7 DEF SucceedRun, WorkerInv
  <2>2. status' = [status EXCEPT ![cur[w]] = "succeeded"] \/ UNCHANGED status
    BY <1>7 DEF SucceedRun, SetStatus
  <2>3. QED
    BY <1>7, <2>1, <2>2 DEF SucceedRun, RL!PublishSuccess
<1>8. ASSUME NEW w \in Worker, Crash(w) PROVE RL!Next \/ UNCHANGED RL!vars
  BY <1>3, <1>8 DEF Crash, WorkerInv, RL!Claim
<1>9. CASE UNCHANGED <<status, proc>>
  BY <1>9
<1>10. QED
  BY <1>1, <1>2, <1>4, <1>5, <1>6, <1>7, <1>8, <1>9
  DEF Next, WorkerStep, vars, EnqueueBegin, EnqueueRollback, ClaimSelect, ClaimAbort,
      ClaimError, ClaimScanned, MakeWorkDir, Extract, TerraformInit, TerraformWait,
      CloseJob, Cleanup, ExitLoop, Shutdown, Restart, Start, Up, PollEmpty

\* The workers and the API implement RunLifecycle: terraform starts at most once
\* for a run, and the published result is final and true to its exit.
THEOREM Refinement == Spec => Lifecycle
<1>1. Init => RL!Init
  BY DEF Init, RL!Init
<1>2. QED
  BY <1>1, StepRefines, Invariance, PTL DEF Spec, Lifecycle, RL!Spec

-----------------------------------------------------------------------------
(* Nothing is left half done but by a fault or a refused text.             *)

\* What happened has happened.
LEMMA FaultsStay ==
  ASSUME TypeOK, TypeOK', [Next]_vars
  PROVE  /\ \A kind \in FaultKinds : faults[kind] <= faults'[kind]
         /\ \A kind \in FaultKinds : Happened(kind) => Happened(kind)'
         /\ AnyFault => AnyFault'
<1>1. \A kind \in FaultKinds : faults[kind] \in Nat /\ faults'[kind] \in Nat
  BY FaultAssumption DEF TypeOK
<1>2. ASSUME NEW k, Fault(k) PROVE \A kind \in FaultKinds : faults[kind] <= faults'[kind]
  BY <1>1, <1>2 DEF Fault, TypeOK
<1>3. ASSUME NEW w, Lost(w) PROVE \A kind \in FaultKinds : faults[kind] <= faults'[kind]
  BY <1>1, <1>2, <1>3 DEF Lost
<1>4. ASSUME NEW w, NEW value, NEW text, SetStatus(w, value, text)
      PROVE  \A kind \in FaultKinds : faults[kind] <= faults'[kind]
  BY <1>1, <1>3, <1>4 DEF SetStatus
<1>5. ASSUME UNCHANGED faults PROVE \A kind \in FaultKinds : faults[kind] <= faults'[kind]
  BY <1>1, <1>5
<1>6. ASSUME NEW w \in Worker,
             \/ ClaimAbort(w) \/ ClaimError(w) \/ NoWorkDir(w) \/ FailRun(w)
             \/ SucceedRun(w) \/ CloseJob(w) \/ Shutdown(w) \/ Crash(w)
      PROVE  \A kind \in FaultKinds : faults[kind] <= faults'[kind]
  BY <1>2, <1>3, <1>4, <1>5, <1>6
  DEF ClaimAbort, ClaimError, NoWorkDir, FailRun, SucceedRun, CloseJob, Shutdown, Crash
<1>7. \A kind \in FaultKinds : faults[kind] <= faults'[kind]
  BY <1>5, <1>6
  DEF Next, WorkerStep, vars, EnqueueBegin, EnqueueCommit, EnqueueRollback, TerraformExit,
      ClaimSelect, ClaimUpdate, ClaimScanned, MakeWorkDir, Extract, TerraformInit,
      TerraformStart, TerraformWait, Cleanup, ExitLoop, Restart, Start, Up, PollEmpty
<1>8. \A kind \in FaultKinds : Happened(kind) => Happened(kind)'
  BY <1>1, <1>7 DEF Happened
<1>9. QED
  BY <1>7, <1>8 DEF AnyFault

\* A statement of a worker is lost only to a fault.
LEMMA LostIsFault ==
  ASSUME TypeOK, HandInv, NEW w \in Worker, Lost(w)
  PROVE  AnyFault'
<1>1. CASE cancelled[w] /\ UNCHANGED faults
  BY <1>1 DEF HandInv, AnyFault, Happened
<1>2. CASE Fault("db")
  BY <1>2, FaultAssumption DEF Fault, TypeOK, AnyFault, Happened
<1>3. QED
  BY <1>1, <1>2 DEF Lost

\* A counted fault has happened.
LEMMA FaultHappens ==
  ASSUME TypeOK, NEW kind, Fault(kind)
  PROVE  Happened(kind)'
  BY FaultAssumption DEF Fault, TypeOK, Happened

\* At first nobody has a run, and there is no directory.
LEMMA InitHandInv == Init => HandInv
  BY FaultAssumption, NoRunAssumption
  DEF Init, HandInv, DroppedForCause, OnlyCrashesLitter

\* Whoever is at a run stays at it, unless w drops it.
LEMMA HandsStay ==
  ASSUME TypeOK, NEW w \in Worker, \A v \in Worker \ {w} : cur'[v] = cur[v]
  PROVE  \A r \in Run : InHand(r) /\ r # cur[w] => InHand(r)'
  BY DEF InHand

\* Every step keeps HandInv.
LEMMA NextHandInv == IInv /\ HandInv /\ TypeOK' /\ [Next]_vars => HandInv'
<1> SUFFICES ASSUME IInv, HandInv, TypeOK', [Next]_vars PROVE HandInv'
  OBVIOUS
<1> USE DEF IInv, HandInv, DroppedForCause, OnlyCrashesLitter
<1>1. /\ \A kind \in FaultKinds : Happened(kind) => Happened(kind)'
      /\ \A kind : Happened(kind) => Happened(kind)'
      /\ AnyFault => AnyFault'
      /\ refused \subseteq refused'
  BY FaultsStay, RefusedStays DEF Happened
<1>2. ASSUME NEW w \in Worker, pc[w] \notin {"idle", "down", "stopped"}
      PROVE  cur[w] \in Run
  BY <1>2 DEF TypeOK
<1>3. ASSUME UNCHANGED <<status, config, pc, cur, cancelled, dir>> PROVE HandInv'
  BY <1>1, <1>3 DEF InHand
<1>4. ASSUME NEW r \in Run, EnqueueBegin(r) PROVE HandInv'
  <2>1. status[r] = "absent"
    BY <1>4 DEF EnqueueBegin, RowInv
  <2> QED
    BY <1>1, <1>4, <2>1 DEF EnqueueBegin, InHand, TypeOK
<1>5. ASSUME NEW r \in Run, EnqueueCommit(r) PROVE HandInv'
  <2>1. status[r] = "absent"
    BY <1>5 DEF EnqueueCommit, RowInv
  <2>2. \A w \in Worker : pc[w] = "cleanup" => cur[w] # r
    BY <2>1 DEF WorkerInv
  <2> QED
    BY <1>1, <1>5, <2>1, <2>2 DEF EnqueueCommit, InHand, TypeOK
<1>6. ASSUME NEW r \in Run, EnqueueRollback(r) \/ TerraformExit(r) PROVE HandInv'
  BY <1>3, <1>6 DEF EnqueueRollback, TerraformExit, apiVars
<1>7. ASSUME NEW w \in Worker, ClaimSelect(w) PROVE HandInv'
  <2>1. PICK q \in Run : cur' = [cur EXCEPT ![w] = q]
    BY <1>7 DEF ClaimSelect, Oldest, Claimable
  <2>2. cur[w] = NoRun
    BY <1>7 DEF ClaimSelect, TypeOK
  <2>3. \A r \in Run : InHand(r) => InHand(r)'
    BY <2>1, <2>2, NoRunAssumption DEF InHand, TypeOK
  <2>4. /\ UNCHANGED <<status, config, cancelled, dir>>
        /\ pc' = [pc EXCEPT ![w] = "claiming"]
    BY <1>7 DEF ClaimSelect, apiVars
  <2> QED
    BY <1>1, <2>1, <2>3, <2>4 DEF TypeOK
<1>8. ASSUME NEW w \in Worker, ClaimUpdate(w) PROVE HandInv'
  <2>1. cur[w] \in Run /\ status[cur[w]] = "pending" /\ InHand(cur[w])' /\ cur[w] \notin dir
    BY <1>2, <1>8 DEF ClaimUpdate, WorkerInv, InHand
  <2>2. \A v \in Worker : v # w => cur[v] # cur[w]
    BY <1>2, <1>8, NoRunAssumption DEF ClaimUpdate, ExclusiveRun
  <2>3. \A r \in Run : InHand(r) => InHand(r)'
    BY <1>8 DEF ClaimUpdate, InHand
  <2> QED
    BY <1>1, <1>8, <2>1, <2>2, <2>3 DEF ClaimUpdate, TypeOK, apiVars
<1>9. ASSUME NEW w \in Worker, ClaimScanned(w) \/ Extract(w) \/ TerraformInit(w)
                               \/ TerraformStart(w) \/ TerraformWait(w)
      PROVE  HandInv'
  <2>1. /\ UNCHANGED <<status, config, cur, cancelled, dir>>
        /\ \A v \in Worker : pc'[v] # "cleanup" \/ pc[v] = "cleanup"
        /\ \A v \in Worker : pc'[v] \in {"claimed", "prepare"} => pc[v] \in {"claimed", "prepare"}
    BY <1>9 DEF ClaimScanned, Extract, TerraformInit, TerraformStart, TerraformWait, TypeOK, apiVars
  <2> QED
    BY <1>1, <2>1 DEF InHand
<1>10. ASSUME NEW w \in Worker, ClaimAbort(w) \/ ClaimError(w) \/ NoWorkDir(w)
       PROVE  HandInv'
  <2>1. /\ cur[w] \in Run /\ cur[w] \notin dir
        /\ status[cur[w]] \in {"pending", "running"}
    BY <1>2, <1>10 DEF ClaimAbort, ClaimError, NoWorkDir, WorkerInv
  <2>2. /\ UNCHANGED <<config, cancelled, dir>>
        /\ pc' = [pc EXCEPT ![w] = "idle"] /\ cur' = [cur EXCEPT ![w] = NoRun]
        /\ status' = status \/ status' = [status EXCEPT ![cur[w]] = "failed"]
    BY <1>10 DEF ClaimAbort, ClaimError, NoWorkDir, SetStatus, BackToLoop, apiVars
  <2>3. status'[cur[w]] = "running" /\ config[cur[w]] = "set" => AnyFault'
    BY <1>10, <2>1, LostIsFault
    DEF ClaimAbort, ClaimError, NoWorkDir, SetStatus, WorkerInv, TypeOK
  <2>4. \A r \in Run : InHand(r) /\ r # cur[w] => InHand(r)'
    BY <2>2, HandsStay DEF TypeOK
  <2>5. \A v \in Worker : v # w => cur[v] # cur[w]
    BY <2>1, NoRunAssumption DEF ExclusiveRun
  <2>6. \A r \in Run : r # cur[w] => status'[r] = status[r]
    BY <2>2 DEF TypeOK
  <2>7. \A v \in Worker : v # w => pc'[v] = pc[v] /\ cur'[v] = cur[v]
    BY <2>2 DEF TypeOK
  <2>8. pc'[w] = "idle"
    BY <2>2 DEF TypeOK
  <2>9. DroppedForCause'
    BY <1>1, <2>2, <2>3, <2>4, <2>6
  <2>10. OnlyCrashesLitter' /\ \A r \in dir' : status'[r] \notin {"absent", "pending"}
    BY <1>1, <2>1, <2>2, <2>4, <2>6 DEF TypeOK
  <2>11. \A v \in Worker : pc'[v] = "cleanup" =>
            status'[cur'[v]] # "running" \/ AnyFault' \/ cur'[v] \in refused'
    BY <1>1, <1>2, <2>5, <2>6, <2>7, <2>8
  <2>12. \A v \in Worker : pc'[v] \in {"claimed", "prepare"} => cur'[v] \notin dir'
    BY <2>2, <2>7, <2>8
  <2> QED
    BY <1>1, <2>2, <2>9, <2>10, <2>11, <2>12
<1>11. ASSUME NEW w \in Worker, MakeWorkDir(w) PROVE HandInv'
  <2>1. cur[w] \in Run /\ status[cur[w]] = "running" /\ InHand(cur[w])'
    BY <1>2, <1>11 DEF MakeWorkDir, WorkerInv, InHand
  <2>2. \A v \in Worker : v # w => cur[v] # cur[w]
    BY <2>1, NoRunAssumption DEF ExclusiveRun
  <2>3. \A r \in Run : InHand(r) => InHand(r)'
    BY <1>11 DEF MakeWorkDir, InHand
  <2> QED
    BY <1>1, <1>11, <2>1, <2>2, <2>3 DEF MakeWorkDir, TypeOK, apiVars
<1>12. ASSUME NEW w \in Worker, FailRun(w) \/ SucceedRun(w) \/ CloseJob(w)
       PROVE  HandInv'
  <2>1. cur[w] \in Run /\ status[cur[w]] \notin {"absent", "pending"}
    BY <1>2, <1>12 DEF FailRun, SucceedRun, CloseJob, WorkerInv
  <2>2. /\ UNCHANGED <<config, cur, cancelled, dir>>
        /\ pc' \in {[pc EXCEPT ![w] = "cleanup"], [pc EXCEPT ![w] = "jobdone"]}
        /\ \/ status' = status
           \/ status' = [status EXCEPT ![cur[w]] = "failed"]
           \/ status' = [status EXCEPT ![cur[w]] = "succeeded"]
    BY <1>12 DEF FailRun, SucceedRun, CloseJob, SetStatus, apiVars
  <2>3. pc'[w] = "cleanup" =>
           status'[cur[w]] # "running" \/ AnyFault' \/ cur[w] \in refused'
    <3>1. CASE FailRun(w)
      BY <3>1, <2>1, LostIsFault DEF FailRun, SetStatus, TypeOK
    <3>2. CASE SucceedRun(w)
      BY <3>2 DEF SucceedRun, TypeOK
    <3>3. CASE CloseJob(w)
      <4>1. status[cur[w]] = "succeeded" \/ AnyFault \/ cur[w] \in refused
        BY <3>3 DEF CloseJob, WorkerInv, AnyFault, Happened
      <4> QED
        BY <1>1, <3>3, <4>1 DEF CloseJob
    <3> QED
      BY <1>12, <3>1, <3>2, <3>3
  <2>4. \A r \in Run : InHand(r) => InHand(r)'
    BY <2>2 DEF InHand
  <2>5. \A v \in Worker : v # w => cur[v] # cur[w]
    BY <2>1, NoRunAssumption DEF ExclusiveRun
  <2>6. \A v \in Worker : pc'[v] = "cleanup" =>
           status'[cur'[v]] # "running" \/ AnyFault' \/ cur'[v] \in refused'
    BY <1>1, <2>2, <2>3, <2>5 DEF TypeOK
  <2>7. \A r \in Run : status'[r] # status[r] => r = cur[w] /\ status'[r] \in {"failed", "succeeded"}
    BY <2>2 DEF TypeOK
  <2>8. DroppedForCause'
    <3> SUFFICES ASSUME NEW r \in Run, status'[r] = "running", config[r] = "set"
                 PROVE  InHand(r)' \/ AnyFault' \/ r \in refused'
      BY <2>2
    <3>1. status[r] = "running"
      BY <2>7
    <3> QED
      BY <1>1, <2>4, <3>1
  <2>9. OnlyCrashesLitter'
    <3>1. Happened("crash") => Happened("crash")'
      BY <1>1
    <3> QED
      BY <2>2, <2>4, <3>1 DEF TypeOK
  <2> QED
    BY <1>1, <2>1, <2>2, <2>6, <2>7, <2>8, <2>9 DEF TypeOK
<1>13. ASSUME NEW w \in Worker, Cleanup(w) PROVE HandInv'
  <2>1. cur[w] \in Run /\ (status[cur[w]] # "running" \/ AnyFault' \/ cur[w] \in refused')
    BY <1>1, <1>2, <1>13 DEF Cleanup
  <2>2. /\ UNCHANGED <<config, status, cancelled>> /\ dir' = dir \ {cur[w]}
        /\ pc' = [pc EXCEPT ![w] = "idle"] /\ cur' = [cur EXCEPT ![w] = NoRun]
    BY <1>13 DEF Cleanup, BackToLoop, apiVars
  <2>3. \A r \in Run : InHand(r) /\ r # cur[w] => InHand(r)'
    BY <2>2, HandsStay DEF TypeOK
  <2> QED
    BY <1>1, <2>1, <2>2, <2>3 DEF TypeOK
<1>14. ASSUME NEW w \in Worker, Shutdown(w) PROVE HandInv'
  <2>1. Happened("shutdown")'
    BY <1>14, FaultHappens DEF Shutdown
  <2> QED
    BY <1>1, <1>14, <2>1 DEF Shutdown, InHand, apiVars
<1>15. ASSUME NEW w \in Worker, ExitLoop(w) \/ Restart(w) \/ Start(w) PROVE HandInv'
  BY <1>1, <1>15 DEF ExitLoop, Restart, Start, Up, InHand, TypeOK, apiVars
<1>16. ASSUME NEW w \in Worker, Crash(w) PROVE HandInv'
  <2>1. Happened("crash")' /\ AnyFault'
    BY <1>16, FaultHappens DEF Crash, AnyFault, Fault
  <2>2. /\ UNCHANGED dir /\ pc' = [pc EXCEPT ![w] = "down"]
        /\ cur' = [cur EXCEPT ![w] = NoRun] /\ cancelled' = [cancelled EXCEPT ![w] = FALSE]
        /\ status' = status \/ status' = [status EXCEPT ![cur[w]] = "running"]
    BY <1>16 DEF Crash, Requeued
  <2> QED
    BY <1>1, <2>1, <2>2 DEF TypeOK
<1>17. CASE UNCHANGED vars
  BY <1>3, <1>17 DEF vars, apiVars
<1>18. QED
  BY <1>4, <1>5, <1>6, <1>7, <1>8, <1>9, <1>10, <1>11, <1>12, <1>13, <1>14, <1>15, <1>16, <1>17
  DEF Next, WorkerStep, PollEmpty

\* It holds in every behaviour.
LEMMA HandsInvariant == Spec => []HandInv
<1>1. IInv => TypeOK
  BY DEF IInv
<1>2. QED
  BY <1>1, InitHandInv, NextHandInv, Invariance, PTL DEF Spec

\* A run with a configuration version is dropped half done only after a crash, a
\* signal or a lost statement, or when PostgreSQL refuses the text of its own
\* result: no other way through RunOnce drops one (terraform.go:34-104).
THEOREM NothingDropped == Spec => []DroppedForCause
<1>1. HandInv => DroppedForCause
  BY DEF HandInv
<1>2. QED
  BY <1>1, HandsInvariant, PTL

\* Only a crash leaves a temporary directory behind, no error path and no signal
\* (terraform.go:46).
THEOREM NoLitter == Spec => []OnlyCrashesLitter
<1>1. HandInv => OnlyCrashesLitter
  BY DEF HandInv
<1>2. QED
  BY <1>1, HandsInvariant, PTL
=============================================================================
