-------------------------- MODULE AsyncTaskProofs --------------------------
(***************************************************************************)
(* Type correctness of AsyncTask, the conservation of its slots and what    *)
(* they protect, for every set of tasks and every limit; and, for a live    *)
(* store without retries, the admission cap, the finality of outcomes and   *)
(* what shutdown() leaves behind.                                           *)
(*                                                                          *)
(* The slot limiter only sees two classes of suspension points: those of a  *)
(* runner that owns a slot and the one of a runner that waits.  An action   *)
(* either keeps every task in its class (a quiet step) or goes through      *)
(* AcquireSlot or ReleaseSlot; one lemma deals with each of the three.      *)
(***************************************************************************)
EXTENDS AsyncTask, FiniteSetTheorems, TLAPS

\* The part of TypeOK that no count depends on.
Types ==
  /\ pc \in [Tasks -> Pcs]
  /\ status \in [Tasks -> Status]
  /\ stored \subseteq Tasks
  /\ retryCount \in [Tasks -> Nat]
  /\ body \in [Tasks -> {"none", "running", "done"}]
  /\ internal \subseteq Tasks
  /\ cancelled \subseteq Tasks
  /\ admitChain \in Seq(Tasks)
  /\ counted \subseteq Tasks
  /\ runningCount \in Int
  /\ waitQueue \in Seq(Tasks)
  /\ cancels \subseteq {"user", "shutdown"} \X Tasks
  /\ cleaning \subseteq Tasks
  /\ reaper \in {"off", "armed", "stopping"}
  /\ (sweep = NoSweep \/ sweep \subseteq Tasks)
  /\ shutdown \in {"idle", "reaper", "flag", "list", "wait", "done"}
  /\ shutList \subseteq Tasks /\ awaited \subseteq Tasks /\ atCall \subseteq Tasks

\* Only the submit at the head of the admission chain is inside the section.
AdmissionExclusive ==
  \A t \in Tasks : pc[t] \in {"counting", "saving"} =>
     admitChain # <<>> /\ Head(admitChain) = t

\* A requeueing write is decided only while the budget allows one more.
RetryBudget ==
  /\ \A t \in Tasks : retryCount[t] <= MaxRetries
  /\ \A t \in Tasks : pc[t] \in {"retryRead", "requeue"} => retryCount[t] < MaxRetries

SlotInv == SlotsConserved /\ NoLostWakeup

\* The inductive invariant.
IInv == Types /\ AdmissionExclusive /\ RetryBudget /\ SlotInv
Waiting == {t \in Tasks : pc[t] = "waiting"}

----------------------------------------------------------------------------
(* The three kinds of step of the limiter *)

\* No task enters or leaves a class, and the limiter is left alone.
Quiet ==
  /\ UNCHANGED slotVars
  /\ \A u \in Tasks : (pc[u] \in HoldingPcs) <=> (pc'[u] \in HoldingPcs)
  /\ \A u \in Tasks : (pc[u] = "waiting") <=> (pc'[u] = "waiting")

\* A runner that neither owns a slot nor waits calls _acquireSlot.
Acquires(t) ==
  t \notin Holders /\ pc[t] # "waiting" /\ AcquireSlot(t) /\ UNCHANGED body

\* A runner that owns a slot, and whose body has ended, calls _releaseSlot and
\* goes where it has none.
Releases(t) ==
  /\ t \in Holders /\ Drained(t) /\ UNCHANGED body
  /\ \E next \in Pcs \ (HoldingPcs \cup {"waiting"}) : ReleaseSlot(t, next)

\* The set of holders is finite, so that its cardinality can be reasoned about.
LEMMA HoldersFinite == IsFiniteSet(Holders) /\ Cardinality(Holders) \in Nat
<1>1. Holders \subseteq Tasks BY DEF Holders
<1>2. IsFiniteSet(Tasks) BY AsyncTaskAssumption
<1> QED BY <1>1, <1>2, FS_Subset, FS_CardinalityType

LEMMA QuietStep ==
  ASSUME SlotInv, Quiet
  PROVE  SlotInv'
<1> USE DEF Quiet
<1>1. Holders' = Holders BY DEF Holders
<1>2. Waiting' = Waiting BY DEF Waiting
<1> QED BY <1>1, <1>2 DEF SlotInv, SlotsConserved, NoLostWakeup, Waiting, slotVars

LEMMA AcquireStep ==
  ASSUME Types, SlotInv, NEW t \in Tasks, Acquires(t)
  PROVE  SlotInv'
<1> USE DEF Acquires
<1>1. CASE runningCount < MaxConcurrent
  <2>1. /\ runningCount' = runningCount + 1
        /\ pc' = [pc EXCEPT ![t] = "slot"]
        /\ waitQueue' = waitQueue
    BY <1>1 DEF AcquireSlot
  <2>2. Holders' = Holders \cup {t}
    BY <2>1 DEF Holders, HoldingPcs, Types
  <2>3. Cardinality(Holders') = Cardinality(Holders) + 1
    BY <2>2, HoldersFinite, FS_AddElement
  <2>4. Waiting' = Waiting
    BY <2>1 DEF Waiting, Types
  <2>5. waitQueue = <<>>
    BY <1>1, AsyncTaskAssumption DEF SlotInv, NoLostWakeup, Types
  <2>6. SlotsConserved'
    BY <2>1, <2>3, <1>1, AsyncTaskAssumption DEF SlotInv, SlotsConserved, Types
  <2>7. NoLostWakeup'
    BY <2>1, <2>4, <2>5 DEF SlotInv, NoLostWakeup, Waiting
  <2> QED BY <2>6, <2>7 DEF SlotInv
<1>2. CASE ~(runningCount < MaxConcurrent)
  <2>1. /\ waitQueue' = Append(waitQueue, t)
        /\ pc' = [pc EXCEPT ![t] = "waiting"]
        /\ runningCount' = runningCount
    BY <1>2 DEF AcquireSlot
  <2>2. Holders' = Holders
    BY <2>1 DEF Holders, HoldingPcs, Types
  <2>3. Waiting' = Waiting \cup {t}
    BY <2>1 DEF Waiting, Types
  <2>4. runningCount = MaxConcurrent
    BY <1>2, AsyncTaskAssumption DEF SlotInv, SlotsConserved, Types
  <2>5. \A i \in DOMAIN waitQueue : waitQueue[i] # t
    BY DEF SlotInv, NoLostWakeup
  <2>6. /\ DOMAIN waitQueue' = DOMAIN waitQueue \cup {Len(waitQueue) + 1}
        /\ \A i \in DOMAIN waitQueue : waitQueue'[i] = waitQueue[i]
        /\ waitQueue'[Len(waitQueue) + 1] = t
        /\ Len(waitQueue) + 1 \notin DOMAIN waitQueue
    BY <2>1 DEF Types
  <2>7. \A i, j \in DOMAIN waitQueue' : waitQueue'[i] = waitQueue'[j] => i = j
    BY <2>5, <2>6 DEF SlotInv, NoLostWakeup
  <2>8. {waitQueue'[i] : i \in DOMAIN waitQueue'} = Waiting'
    BY <2>3, <2>6 DEF SlotInv, NoLostWakeup, Waiting
  <2>9. SlotsConserved'
    BY <2>1, <2>2 DEF SlotInv, SlotsConserved
  <2>10. NoLostWakeup'
    BY <2>1, <2>4, <2>7, <2>8 DEF NoLostWakeup, Waiting
  <2> QED BY <2>9, <2>10 DEF SlotInv
<1> QED BY <1>1, <1>2

LEMMA ReleaseStep ==
  ASSUME Types, SlotInv, NEW t \in Tasks, Releases(t)
  PROVE  SlotInv'
<1> PICK next \in Pcs \ (HoldingPcs \cup {"waiting"}) : ReleaseSlot(t, next)
  BY DEF Releases
<1> t \in Holders BY DEF Releases
<1>0. Cardinality(Holders) >= 1
  BY HoldersFinite, FS_EmptySet
<1>1. CASE waitQueue = <<>>
  <2>1. /\ runningCount' = runningCount - 1
        /\ pc' = [pc EXCEPT ![t] = next]
        /\ waitQueue' = waitQueue
    BY <1>1 DEF ReleaseSlot
  <2>2. Holders' = Holders \ {t}
    BY <2>1 DEF Holders, Types
  <2>3. Cardinality(Holders') = Cardinality(Holders) - 1
    BY <2>2, HoldersFinite, FS_RemoveElement
  <2>4. Waiting' = Waiting
    BY <2>1 DEF Waiting, Types, Holders, HoldingPcs
  <2>5. SlotsConserved'
    BY <2>1, <2>3, HoldersFinite, AsyncTaskAssumption
    DEF SlotInv, SlotsConserved, Types
  <2>6. NoLostWakeup'
    BY <1>1, <2>1, <2>4 DEF SlotInv, NoLostWakeup, Waiting
  <2> QED BY <2>5, <2>6 DEF SlotInv
<1>2. CASE waitQueue # <<>>
  <2> DEFINE w == Head(waitQueue)
  <2>1. /\ waitQueue' = Tail(waitQueue)
        /\ pc' = [pc EXCEPT ![t] = next, ![w] = "slot"]
        /\ runningCount' = runningCount
    BY <1>2 DEF ReleaseSlot
  <2>2. w = waitQueue[1] /\ 1 \in DOMAIN waitQueue /\ w \in Tasks
    BY <1>2 DEF Types
  <2>3. w \in Waiting
    BY <2>2 DEF SlotInv, NoLostWakeup, Waiting
  <2>4. w # t /\ w \notin Holders
    BY <2>3 DEF Waiting, Holders, HoldingPcs
  <2>5. Holders' = (Holders \ {t}) \cup {w}
    BY <2>1, <2>2, <2>4 DEF Holders, HoldingPcs, Types
  <2>6. Cardinality(Holders') = Cardinality(Holders)
    <3>1. IsFiniteSet(Holders \ {t}) /\ Cardinality(Holders \ {t}) = Cardinality(Holders) - 1
      BY HoldersFinite, FS_RemoveElement
    <3>2. Cardinality((Holders \ {t}) \cup {w}) = Cardinality(Holders \ {t}) + 1
      BY <3>1, <2>4, FS_AddElement
    <3> QED BY <3>1, <3>2, <2>5, HoldersFinite
  <2>7. Waiting' = Waiting \ {w}
    BY <2>1, <2>2, <2>4 DEF Waiting, Types, Holders, HoldingPcs
  <2>8. /\ DOMAIN waitQueue' = 1..(Len(waitQueue) - 1)
        /\ DOMAIN waitQueue = 1..Len(waitQueue)
        /\ Len(waitQueue) \in Nat \ {0}
        /\ \A i \in DOMAIN waitQueue' : waitQueue'[i] = waitQueue[i + 1]
    BY <1>2, <2>1 DEF Types
  <2>9. \A i, j \in DOMAIN waitQueue' : waitQueue'[i] = waitQueue'[j] => i = j
    BY <2>8 DEF SlotInv, NoLostWakeup
  <2>10. {waitQueue'[i] : i \in DOMAIN waitQueue'} = Waiting'
    <3>1. ASSUME NEW i \in DOMAIN waitQueue'
          PROVE  waitQueue'[i] \in Waiting \ {w}
      BY <2>2, <2>8, i + 1 # 1 DEF SlotInv, NoLostWakeup, Waiting
    <3>2. ASSUME NEW u \in Waiting \ {w}
          PROVE  \E i \in DOMAIN waitQueue' : waitQueue'[i] = u
      <4>1. PICK k \in DOMAIN waitQueue : waitQueue[k] = u
        BY DEF SlotInv, NoLostWakeup, Waiting
      <4>2. k - 1 \in DOMAIN waitQueue' /\ waitQueue'[k - 1] = u
        BY <4>1, <2>2, <2>8
      <4> QED BY <4>2
    <3> QED BY <3>1, <3>2, <2>7
  <2>11. SlotsConserved'
    BY <2>1, <2>6 DEF SlotInv, SlotsConserved
  <2>12. NoLostWakeup'
    BY <1>2, <2>1, <2>9, <2>10 DEF SlotInv, NoLostWakeup, Waiting
  <2> QED BY <2>11, <2>12 DEF SlotInv
<1> QED BY <1>1, <1>2
----------------------------------------------------------------------------
(* The steps of Next *)

\* The limiter keeps its own variables typed.
LEMMA AcquireTypes ==
  ASSUME Types, NEW t \in Tasks, AcquireSlot(t)
  PROVE  pc' \in [Tasks -> Pcs] /\ runningCount' \in Int /\ waitQueue' \in Seq(Tasks)
<1>1. "slot" \in Pcs /\ "waiting" \in Pcs BY DEF Pcs, WorkerPcs, HoldingPcs
<1>2. pc \in [Tasks -> Pcs] /\ runningCount \in Int /\ waitQueue \in Seq(Tasks) BY DEF Types
<1>3. CASE runningCount < MaxConcurrent BY <1>1, <1>2, <1>3 DEF AcquireSlot
<1>4. CASE ~(runningCount < MaxConcurrent)
  <2>1. Append(waitQueue, t) \in Seq(Tasks) BY <1>2
  <2>2. [pc EXCEPT ![t] = "waiting"] \in [Tasks -> Pcs] BY <1>1, <1>2
  <2> QED BY <1>2, <1>4, <2>1, <2>2 DEF AcquireSlot
<1> QED BY <1>3, <1>4

LEMMA ReleaseTypes ==
  ASSUME Types, NEW t \in Tasks, NEW next \in Pcs, ReleaseSlot(t, next)
  PROVE  pc' \in [Tasks -> Pcs] /\ runningCount' \in Int /\ waitQueue' \in Seq(Tasks)
<1>1. pc \in [Tasks -> Pcs] /\ runningCount \in Int /\ waitQueue \in Seq(Tasks) BY DEF Types
<1>2. CASE waitQueue = <<>> BY <1>1, <1>2 DEF ReleaseSlot
<1>3. CASE waitQueue # <<>>
  <2>1. Tail(waitQueue) \in Seq(Tasks) BY <1>1, <1>3
  <2>2. "slot" \in Pcs BY DEF Pcs, WorkerPcs, HoldingPcs
  <2> QED BY <1>1, <1>3, <2>1, <2>2 DEF ReleaseSlot
<1> QED BY <1>2, <1>3

\* Types is preserved by every step of a task.
LEMMA TaskStepTypes ==
  ASSUME Types, AdmissionExclusive, NEW t \in Tasks, TaskStep(t)
  PROVE  Types'
<1> USE DEF Types, Pcs, WorkerPcs, HoldingPcs, SubmitPcs, Status, Active, Terminal,
            Goto, taskVars, storeVars, handleVars, admitVars, slotVars, sweepVars, shutVars
<1>1. CASE Submit(t)
  BY <1>1 DEF Submit
<1>2. CASE AdmitCount(t)
  BY <1>2 DEF AdmitCount, List
<1>3. CASE AdmitRefuse(t)
  BY <1>3 DEF AdmitRefuse, AdmissionExclusive
<1>4. CASE AdmitSave(t)
  BY <1>4 DEF AdmitSave, Save
<1>5. CASE AdmitReject(t)
  BY <1>5 DEF AdmitReject, AdmissionExclusive
<1>6. CASE Enqueue(t)
  BY <1>6 DEF Enqueue, AdmissionExclusive
<1>7. CASE RunnerStarts(t)
  BY <1>7, AcquireTypes DEF RunnerStarts
<1>8. CASE SlotGranted(t)
  BY <1>8 DEF SlotGranted
<1>9. CASE LoadedTerminal(t)
  BY <1>9 DEF LoadedTerminal
<1>10. CASE LoadedLive(t)
  BY <1>10 DEF LoadedLive, Save
<1>11. CASE LoadedCopy(t)
  BY <1>11 DEF LoadedCopy
<1>12. CASE Claim(t)
  BY <1>12 DEF Claim, Save
<1>13. CASE CallExecutor(t)
  BY <1>13 DEF CallExecutor
<1>14. CASE BodyStarts(t)
  BY <1>14 DEF BodyStarts
<1>15. CASE BodyEnds(t)
  BY <1>15 DEF BodyEnds
<1>16. CASE CallResolves(t)
  BY <1>16 DEF CallResolves
<1>17. CASE CallRejects(t)
  BY <1>17 DEF CallRejects, AfterFailure
<1>18. CASE IsStoredTerminal(t)
  BY <1>18 DEF IsStoredTerminal
<1>19. CASE CompleteTask(t)
  BY <1>19 DEF CompleteTask, Save
<1>20. CASE RequeueTask(t)
  BY <1>20 DEF RequeueTask, Save
<1>21. CASE FailTask(t)
  BY <1>21 DEF FailTask, Save
<1>22. CASE StoreRejects(t)
  BY <1>22 DEF StoreRejects, AfterFailure
<1>23. CASE DrainedForRetry(t)
  BY <1>23, ReleaseTypes, "backoff" \in Pcs DEF DrainedForRetry
<1>24. CASE BackoffEnds(t)
  BY <1>24, AcquireTypes DEF BackoffEnds
<1>25. CASE RunnerEnds(t)
  BY <1>25, ReleaseTypes, "ended" \in Pcs DEF RunnerEnds
<1> QED
  BY <1>1, <1>2, <1>3, <1>4, <1>5, <1>6, <1>7, <1>8, <1>9, <1>10, <1>11, <1>12, <1>13, <1>14, <1>15, <1>16, <1>17, <1>18, <1>19, <1>20, <1>21, <1>22, <1>23, <1>24, <1>25
  DEF TaskStep, Admission, RunnerStep, ExecutorStep

\* Types is preserved by every other step.
LEMMA OtherStepTypes ==
  ASSUME Types, CancelStep \/ SweepStep \/ ShutdownStep
  PROVE  Types'
<1> USE DEF Types, Pcs, WorkerPcs, HoldingPcs, SubmitPcs, Status, Active, Terminal,
            taskVars, storeVars, handleVars, admitVars, slotVars, sweepVars, shutVars
<1>1. ASSUME NEW t \in Tasks, CancelCall(t) PROVE Types'
  BY <1>1 DEF CancelCall, List
<1>2. ASSUME NEW t \in Tasks, PeerCancel(t) PROVE Types'
  BY <1>2 DEF PeerCancel, Save, ActiveTasks
<1>3. ASSUME NEW t \in Tasks, CleanupStep(t) PROVE Types'
  BY <1>3 DEF CleanupStep, Delete
<1>4. ASSUME NEW t \in Tasks, SweepDeletes(t) PROVE Types'
  <2>1. sweep' \subseteq Tasks BY <1>4 DEF SweepDeletes, NoSweep
  <2> QED BY <1>4, <2>1 DEF SweepDeletes, Delete
<1>5. ASSUME NEW c \in cancels, CancelResume(c) PROVE Types'
  <2>1. c[2] \in Tasks BY DEF Types
  <2>2. CASE Still(c[2], Active)
    <3>1. /\ cancels' \subseteq cancels
          /\ cancelled' \subseteq cancelled \cup internal
          /\ status' = [status EXCEPT ![c[2]] = "CANCELLED"]
          /\ stored' = stored \cup {c[2]}
      BY <1>5, <2>2 DEF CancelResume, Save
    <3>2. UNCHANGED <<taskVars, internal, admitVars, slotVars, sweepVars, shutVars>>
      BY <1>5 DEF CancelResume
    <3> QED BY <2>1, <3>1, <3>2
  <2>3. CASE ~Still(c[2], Active) BY <1>5, <2>3 DEF CancelResume
  <2> QED BY <2>2, <2>3
<1>6. ASSUME NEW c \in cancels, CancelRejects(c) PROVE Types'
  BY <1>6 DEF CancelRejects
<1>7. CASE CleanupCall
  BY <1>7 DEF CleanupCall, List
<1>8. CASE StartReaper
  BY <1>8 DEF StartReaper
<1>9. CASE SweepStarts
  BY <1>9 DEF SweepStarts
<1>10. CASE SweepEnds
  BY <1>10 DEF SweepEnds
<1>11. CASE StopReaper
  BY <1>11 DEF StopReaper
<1>12. CASE ReaperStopped
  BY <1>12 DEF ReaperStopped
<1>13. CASE ShutdownCall
  BY <1>13 DEF ShutdownCall, ActiveTasks
<1>14. CASE ShutdownFlags
  BY <1>14 DEF ShutdownFlags, List, Workers
<1>15. CASE ShutdownCancels
  BY <1>15 DEF ShutdownCancels, List
<1>16. CASE ShutdownListRejects
  BY <1>16 DEF ShutdownListRejects
<1>17. CASE ShutdownReturns
  BY <1>17 DEF ShutdownReturns
<1> QED
  BY <1>1, <1>2, <1>3, <1>4, <1>5, <1>6, <1>7, <1>8, <1>9, <1>10, <1>11, <1>12, <1>13, <1>14, <1>15, <1>16, <1>17
  DEF CancelStep, SweepStep, ShutdownStep

\* Cancels, sweeps and shutdowns touch no suspension point of a task, no
\* retry count, no admission chain and no slot.
LEMMA OtherStepFrame ==
  ASSUME CancelStep \/ SweepStep \/ ShutdownStep
  PROVE  UNCHANGED <<taskVars, admitVars, slotVars>>
<1>1. CASE CancelStep
  BY <1>1 DEF CancelStep, CancelCall, PeerCancel, CancelResume, CancelRejects
<1>2. CASE SweepStep
  BY <1>2 DEF SweepStep, CleanupCall, StartReaper, SweepStarts, SweepEnds, StopReaper,
              ReaperStopped, CleanupStep, SweepDeletes
<1>3. CASE ShutdownStep
  BY <1>3 DEF ShutdownStep, ShutdownCall, ShutdownFlags, ShutdownCancels,
              ShutdownListRejects, ShutdownReturns
<1> QED BY <1>1, <1>2, <1>3

\* A task's step changes its own suspension point, except that a release may
\* also move the waiter at the head of the queue to "slot".
LEMMA TaskStepAdmission ==
  ASSUME Types, SlotInv, AdmissionExclusive, NEW t \in Tasks, TaskStep(t)
  PROVE  AdmissionExclusive'
<1> USE DEF AdmissionExclusive, Types, Goto, taskVars, admitVars, slotVars
<1>1. CASE Submit(t)
  <2>1. admitChain # <<>> => admitChain' # <<>> /\ Head(admitChain') = Head(admitChain)
    BY <1>1 DEF Submit
  <2> QED BY <1>1, <2>1 DEF Submit
<1>2. CASE AdmitCount(t)
  BY <1>2 DEF AdmitCount, AdmitTurn
<1>3. CASE AdmitRefuse(t)
  BY <1>3 DEF AdmitRefuse
<1>4. CASE AdmitSave(t)
  BY <1>4 DEF AdmitSave
<1>5. CASE AdmitReject(t)
  BY <1>5 DEF AdmitReject
<1>6. CASE Enqueue(t)
  BY <1>6 DEF Enqueue
<1>7. CASE RunnerStarts(t)
  BY <1>7 DEF RunnerStarts, AcquireSlot
<1>8. CASE SlotGranted(t)
  BY <1>8 DEF SlotGranted
<1>9. CASE LoadedTerminal(t)
  BY <1>9 DEF LoadedTerminal
<1>10. CASE LoadedLive(t)
  BY <1>10 DEF LoadedLive
<1>11. CASE LoadedCopy(t)
  BY <1>11 DEF LoadedCopy
<1>12. CASE Claim(t)
  BY <1>12 DEF Claim
<1>13. CASE CallExecutor(t)
  BY <1>13 DEF CallExecutor
<1>14. CASE BodyStarts(t)
  BY <1>14 DEF BodyStarts
<1>15. CASE BodyEnds(t)
  BY <1>15 DEF BodyEnds
<1>16. CASE CallResolves(t)
  BY <1>16 DEF CallResolves
<1>17. CASE CallRejects(t)
  BY <1>17 DEF CallRejects, AfterFailure
<1>18. CASE IsStoredTerminal(t)
  BY <1>18 DEF IsStoredTerminal
<1>19. CASE CompleteTask(t)
  BY <1>19 DEF CompleteTask
<1>20. CASE RequeueTask(t)
  BY <1>20 DEF RequeueTask
<1>21. CASE FailTask(t)
  BY <1>21 DEF FailTask
<1>22. CASE StoreRejects(t)
  BY <1>22 DEF StoreRejects, AfterFailure
<1>23. CASE DrainedForRetry(t)
  BY <1>23 DEF DrainedForRetry, ReleaseSlot
<1>24. CASE BackoffEnds(t)
  BY <1>24 DEF BackoffEnds, AcquireSlot
<1>25. CASE RunnerEnds(t)
  BY <1>25 DEF RunnerEnds, ReleaseSlot
<1> QED
  BY <1>1, <1>2, <1>3, <1>4, <1>5, <1>6, <1>7, <1>8, <1>9, <1>10, <1>11, <1>12, <1>13, <1>14, <1>15, <1>16, <1>17, <1>18, <1>19, <1>20, <1>21, <1>22, <1>23, <1>24, <1>25
  DEF TaskStep, Admission, RunnerStep, ExecutorStep

\* The budget is tested when the attempt fails and spent at the requeue.
LEMMA TaskStepBudget ==
  ASSUME Types, RetryBudget, NEW t \in Tasks, TaskStep(t)
  PROVE  RetryBudget'
<1> USE AsyncTaskAssumption DEF RetryBudget, Types, Goto, taskVars, slotVars
<1>1. CASE Submit(t)
  BY <1>1 DEF Submit
<1>2. CASE AdmitCount(t)
  BY <1>2 DEF AdmitCount
<1>3. CASE AdmitRefuse(t)
  BY <1>3 DEF AdmitRefuse
<1>4. CASE AdmitSave(t)
  BY <1>4 DEF AdmitSave
<1>5. CASE AdmitReject(t)
  BY <1>5 DEF AdmitReject
<1>6. CASE Enqueue(t)
  BY <1>6 DEF Enqueue
<1>7. CASE RunnerStarts(t)
  BY <1>7 DEF RunnerStarts, AcquireSlot
<1>8. CASE SlotGranted(t)
  BY <1>8 DEF SlotGranted
<1>9. CASE LoadedTerminal(t)
  BY <1>9 DEF LoadedTerminal
<1>10. CASE LoadedLive(t)
  BY <1>10 DEF LoadedLive
<1>11. CASE LoadedCopy(t)
  BY <1>11 DEF LoadedCopy
<1>12. CASE Claim(t)
  BY <1>12 DEF Claim
<1>13. CASE CallExecutor(t)
  BY <1>13 DEF CallExecutor
<1>14. CASE BodyStarts(t)
  BY <1>14 DEF BodyStarts
<1>15. CASE BodyEnds(t)
  BY <1>15 DEF BodyEnds
<1>16. CASE CallResolves(t)
  BY <1>16 DEF CallResolves
<1>17. CASE CallRejects(t)
  BY <1>17 DEF CallRejects, AfterFailure, RetryLeft
<1>18. CASE IsStoredTerminal(t)
  BY <1>18 DEF IsStoredTerminal
<1>19. CASE CompleteTask(t)
  BY <1>19 DEF CompleteTask
<1>20. CASE RequeueTask(t)
  BY <1>20 DEF RequeueTask
<1>21. CASE FailTask(t)
  BY <1>21 DEF FailTask
<1>22. CASE StoreRejects(t)
  BY <1>22 DEF StoreRejects, AfterFailure, RetryLeft
<1>23. CASE DrainedForRetry(t)
  BY <1>23 DEF DrainedForRetry, ReleaseSlot
<1>24. CASE BackoffEnds(t)
  BY <1>24 DEF BackoffEnds, AcquireSlot
<1>25. CASE RunnerEnds(t)
  BY <1>25 DEF RunnerEnds, ReleaseSlot
<1> QED
  BY <1>1, <1>2, <1>3, <1>4, <1>5, <1>6, <1>7, <1>8, <1>9, <1>10, <1>11, <1>12, <1>13, <1>14, <1>15, <1>16, <1>17, <1>18, <1>19, <1>20, <1>21, <1>22, <1>23, <1>24, <1>25
  DEF TaskStep, Admission, RunnerStep, ExecutorStep

\* A step of a task is quiet, or it goes through the limiter.
LEMMA TaskStepKind ==
  ASSUME Types, NEW t \in Tasks, TaskStep(t)
  PROVE  Quiet \/ Acquires(t) \/ Releases(t)
<1>1. CASE Submit(t)
  BY <1>1 DEF Quiet, Submit, Goto, HoldingPcs, Types, taskVars
<1>2. CASE AdmitCount(t)
  BY <1>2 DEF Quiet, AdmitCount, Goto, HoldingPcs, Types, taskVars
<1>3. CASE AdmitRefuse(t)
  BY <1>3 DEF Quiet, AdmitRefuse, Goto, HoldingPcs, Types, taskVars
<1>4. CASE AdmitSave(t)
  BY <1>4 DEF Quiet, AdmitSave, Goto, HoldingPcs, Types, taskVars
<1>5. CASE AdmitReject(t)
  BY <1>5 DEF Quiet, AdmitReject, Goto, HoldingPcs, Types, taskVars
<1>6. CASE Enqueue(t)
  BY <1>6 DEF Quiet, Enqueue, Goto, HoldingPcs, Types, taskVars
<1>7. CASE SlotGranted(t)
  BY <1>7 DEF Quiet, SlotGranted, Goto, HoldingPcs, Types, taskVars
<1>8. CASE LoadedTerminal(t)
  BY <1>8 DEF Quiet, LoadedTerminal, Goto, HoldingPcs, Types, taskVars
<1>9. CASE LoadedLive(t)
  BY <1>9 DEF Quiet, LoadedLive, Goto, HoldingPcs, Types, taskVars
<1>10. CASE LoadedCopy(t)
  BY <1>10 DEF Quiet, LoadedCopy, Goto, HoldingPcs, Types, taskVars
<1>11. CASE Claim(t)
  BY <1>11 DEF Quiet, Claim, Goto, HoldingPcs, Types, taskVars
<1>12. CASE CallExecutor(t)
  BY <1>12 DEF Quiet, CallExecutor, Goto, HoldingPcs, Types, taskVars
<1>13. CASE BodyStarts(t)
  BY <1>13 DEF Quiet, BodyStarts, Goto, HoldingPcs, Types, taskVars
<1>14. CASE BodyEnds(t)
  BY <1>14 DEF Quiet, BodyEnds, Goto, HoldingPcs, Types, taskVars
<1>15. CASE CallResolves(t)
  BY <1>15 DEF Quiet, CallResolves, Goto, HoldingPcs, Types, taskVars
<1>16. CASE CallRejects(t)
  BY <1>16 DEF Quiet, CallRejects, AfterFailure, Goto, HoldingPcs, Types, taskVars
<1>17. CASE IsStoredTerminal(t)
  BY <1>17 DEF Quiet, IsStoredTerminal, Goto, HoldingPcs, Types, taskVars
<1>18. CASE CompleteTask(t)
  BY <1>18 DEF Quiet, CompleteTask, Goto, HoldingPcs, Types, taskVars
<1>19. CASE RequeueTask(t)
  BY <1>19 DEF Quiet, RequeueTask, Goto, HoldingPcs, Types, taskVars
<1>20. CASE FailTask(t)
  BY <1>20 DEF Quiet, FailTask, Goto, HoldingPcs, Types, taskVars
<1>21. CASE StoreRejects(t)
  BY <1>21 DEF Quiet, StoreRejects, AfterFailure, Goto, HoldingPcs, Types, taskVars
<1>22. CASE RunnerStarts(t)
  <2>1. pc[t] = "context" /\ AcquireSlot(t) /\ UNCHANGED body BY <1>22 DEF RunnerStarts
  <2>2. t \notin Holders BY <2>1 DEF Holders, HoldingPcs
  <2> QED BY <2>1, <2>2 DEF Acquires
<1>23. CASE DrainedForRetry(t)
  <2>1. pc[t] = "drainRetry" /\ Drained(t) /\ ReleaseSlot(t, "backoff") /\ UNCHANGED body
    BY <1>23 DEF DrainedForRetry
  <2>2. t \in Holders BY <2>1 DEF Holders, HoldingPcs
  <2>3. "backoff" \in Pcs \ (HoldingPcs \cup {"waiting"}) BY DEF Pcs, WorkerPcs, HoldingPcs
  <2> QED BY <2>1, <2>2, <2>3 DEF Releases
<1>24. CASE BackoffEnds(t)
  <2>1. pc[t] = "backoff" BY <1>24 DEF BackoffEnds
  <2>2. CASE t \in cancelled
    BY <1>24, <2>2 DEF Quiet, BackoffEnds, HoldingPcs, Types
  <2>3. CASE t \notin cancelled
    <3>1. AcquireSlot(t) /\ UNCHANGED body BY <1>24, <2>3 DEF BackoffEnds
    <3>2. t \notin Holders BY <2>1 DEF Holders, HoldingPcs
    <3> QED BY <2>1, <3>1, <3>2 DEF Acquires
  <2> QED BY <2>2, <2>3
<1>25. CASE RunnerEnds(t)
  <2>1. CASE pc[t] = "drainEnd" /\ ReleaseSlot(t, "ended")
    <3>1. t \in Holders BY <2>1 DEF Holders, HoldingPcs
    <3>2. "ended" \in Pcs \ (HoldingPcs \cup {"waiting"}) BY DEF Pcs, WorkerPcs, HoldingPcs
    <3>3. Drained(t) /\ UNCHANGED body BY <1>25 DEF RunnerEnds
    <3> QED BY <2>1, <3>1, <3>2, <3>3 DEF Releases
  <2>2. CASE Goto(t, "drainFree", "ended") /\ UNCHANGED slotVars
    BY <2>2 DEF Quiet, Goto, HoldingPcs, Types
  <2> QED BY <1>25, <2>1, <2>2 DEF RunnerEnds
<1> QED
  BY <1>1, <1>2, <1>3, <1>4, <1>5, <1>6, <1>7, <1>8, <1>9, <1>10, <1>11, <1>12, <1>13, <1>14, <1>15, <1>16, <1>17, <1>18, <1>19, <1>20, <1>21, <1>22, <1>23, <1>24, <1>25
  DEF TaskStep, Admission, RunnerStep, ExecutorStep

----------------------------------------------------------------------------
(* The inductive invariant and its consequences *)

LEMMA InitInv == Init => IInv
<1> SUFFICES ASSUME Init PROVE IInv
  OBVIOUS
<1> USE AsyncTaskAssumption DEF Init
<1>1. Types
  <2>1. "new" \in Pcs /\ "PENDING" \in Status BY DEF Pcs, SubmitPcs, Status, Active
  <2> QED BY <2>1 DEF Types
<1>2. AdmissionExclusive /\ RetryBudget
  BY DEF AdmissionExclusive, RetryBudget
<1>3. Holders = {}
  BY DEF Holders, HoldingPcs
<1>4. SlotInv
  BY <1>3, FS_EmptySet DEF SlotInv, SlotsConserved, NoLostWakeup
<1> QED BY <1>1, <1>2, <1>4 DEF IInv

LEMMA NextInv == IInv /\ [Next]_vars => IInv'
<1> SUFFICES ASSUME IInv, [Next]_vars PROVE IInv'
  OBVIOUS
<1> USE DEF IInv
<1>1. ASSUME NEW t \in Tasks, TaskStep(t) PROVE IInv'
  <2>1. SlotInv' BY <1>1, TaskStepKind, QuietStep, AcquireStep, ReleaseStep
  <2> QED BY <1>1, <2>1, TaskStepTypes, TaskStepAdmission, TaskStepBudget
<1>2. CASE CancelStep \/ SweepStep \/ ShutdownStep
  <2>1. UNCHANGED <<taskVars, admitVars, slotVars>> BY <1>2, OtherStepFrame
  <2>2. Types' BY <1>2, OtherStepTypes
  <2>3. AdmissionExclusive' /\ RetryBudget'
    BY <2>1 DEF AdmissionExclusive, RetryBudget, taskVars, admitVars
  <2>4. SlotInv' BY <2>1, QuietStep DEF Quiet, taskVars
  <2> QED BY <2>2, <2>3, <2>4
<1>3. CASE UNCHANGED vars
  <2>1. UNCHANGED slotVars /\ UNCHANGED pc BY <1>3 DEF vars, taskVars
  <2>2. SlotInv' BY <2>1, QuietStep DEF Quiet
  <2>3. Types' /\ AdmissionExclusive' /\ RetryBudget'
    BY <1>3 DEF vars, taskVars, storeVars, handleVars, admitVars, slotVars, sweepVars,
                shutVars, Types, AdmissionExclusive, RetryBudget
  <2> QED BY <2>2, <2>3
<1> QED BY <1>1, <1>2, <1>3 DEF Next

LEMMA InvInductive == Spec => []IInv
<1> QED BY InitInv, NextInv, PTL DEF Spec

\* The types of every variable, and the retry budget of run(), hold in every
\* reachable state, for any number of tasks and any limits.
THEOREM TypeCorrect == Spec => []TypeOK
<1>1. IInv => TypeOK
  <2> SUFFICES ASSUME IInv PROVE TypeOK
    OBVIOUS
  <2>1. runningCount \in 0..MaxConcurrent
    BY HoldersFinite, AsyncTaskAssumption DEF IInv, Types, SlotInv, SlotsConserved
  <2>2. retryCount \in [Tasks -> 0..MaxRetries]
    BY AsyncTaskAssumption DEF IInv, Types, RetryBudget
  <2> QED BY <2>1, <2>2 DEF IInv, Types, TypeOK
<1> QED BY <1>1, InvInductive, PTL

\* _runningCount is exactly the number of runners that own a slot and never
\* exceeds maxConcurrent, whatever is cancelled, retried or refused.
THEOREM SlotsNeverLeak == Spec => []SlotsConserved
<1>1. IInv => SlotsConserved BY DEF IInv, SlotInv
<1> QED BY <1>1, InvInductive, PTL

\* _waitQueue holds exactly the waiting runners, each once, and only while
\* every slot is taken: _releaseSlot never loses a wake-up.
THEOREM WakeupsNeverLost == Spec => []NoLostWakeup
<1>1. IInv => NoLostWakeup BY DEF IInv, SlotInv
<1> QED BY <1>1, InvInductive, PTL

----------------------------------------------------------------------------
(* The limiter implements TaskSlots *)

\* TaskSlots counts with the same operator.
LEMMA SameCardinality == ASSUME NEW S PROVE Slots!Cardinality(S) = Cardinality(S)
BY DEF Slots!Cardinality, Cardinality

LEMMA AcquireImplements ==
  ASSUME Types, SlotInv, NEW t \in Tasks, Acquires(t)
  PROVE  Slots!Next
<1> USE DEF Acquires, AcquireSlot
<1>1. t \notin Holders \cup Slots!Queued
  BY DEF Slots!Queued, SlotInv, NoLostWakeup
<1>2. CASE runningCount < MaxConcurrent
  <2>1. Holders' = Holders \cup {t} BY <1>2 DEF Holders, HoldingPcs, Types
  <2>2. Cardinality(Holders) < MaxConcurrent BY <1>2 DEF SlotInv, SlotsConserved
  <2>3. waitQueue' = waitQueue BY <1>2
  <2>4. Slots!Take(t) BY SameCardinality, <1>1, <2>1, <2>2, <2>3 DEF Slots!Take
  <2> QED BY <2>4 DEF Slots!Next
<1>3. CASE ~(runningCount < MaxConcurrent)
  <2>1. Holders' = Holders BY <1>3 DEF Holders, HoldingPcs, Types
  <2>2. Cardinality(Holders) = MaxConcurrent
    BY <1>3, AsyncTaskAssumption DEF SlotInv, SlotsConserved, Types
  <2>3. waitQueue' = Append(waitQueue, t) BY <1>3
  <2>4. Slots!Wait(t) BY SameCardinality, <1>1, <2>1, <2>2, <2>3 DEF Slots!Wait
  <2> QED BY <2>4 DEF Slots!Next
<1> QED BY <1>2, <1>3

LEMMA ReleaseImplements ==
  ASSUME Types, SlotInv, NEW t \in Tasks, Releases(t)
  PROVE  Slots!Next
<1> PICK next \in Pcs \ (HoldingPcs \cup {"waiting"}) : ReleaseSlot(t, next)
  BY DEF Releases
<1>1. t \in Holders BY DEF Releases
<1>2. CASE waitQueue = <<>>
  <2>1. Holders' = Holders \ {t} BY <1>2 DEF ReleaseSlot, Holders, Types
  <2>2. Slots!Free(t) BY <1>1, <1>2, <2>1 DEF Slots!Free, ReleaseSlot
  <2> QED BY <2>2 DEF Slots!Next
<1>3. CASE waitQueue # <<>>
  <2> DEFINE w == Head(waitQueue)
  <2>1. w = waitQueue[1] /\ 1 \in DOMAIN waitQueue /\ w \in Tasks BY <1>3 DEF Types
  <2>2. pc[w] = "waiting" BY <2>1 DEF SlotInv, NoLostWakeup
  <2>3. w # t BY <1>1, <2>2 DEF Holders, HoldingPcs
  <2>4. /\ pc' = [pc EXCEPT ![t] = next, ![w] = "slot"]
        /\ waitQueue' = Tail(waitQueue)
    BY <1>3 DEF ReleaseSlot
  <2>5. Holders' = (Holders \ {t}) \cup {w}
    BY <2>1, <2>3, <2>4 DEF Holders, HoldingPcs, Types
  <2>6. Slots!HandOver(t) BY <1>1, <1>3, <2>4, <2>5 DEF Slots!HandOver
  <2> QED BY <2>6 DEF Slots!Next
<1> QED BY <1>2, <1>3

LEMMA QuietImplements ==
  ASSUME Quiet
  PROVE  UNCHANGED Slots!vars
BY DEF Quiet, Slots!vars, Holders, slotVars

\* The limiter of AsyncTaskManager implements TaskSlots: bounded holders, no
\* waiting beside a free slot, first come first served.
THEOREM LimiterImplements == Spec => SlotsImplemented
<1>1. Init => Slots!Init
  BY DEF Init, Slots!Init, Holders, HoldingPcs
<1>2. IInv /\ [Next]_vars => [Slots!Next]_(Slots!vars)
  <2> SUFFICES ASSUME IInv, [Next]_vars PROVE [Slots!Next]_(Slots!vars)
    OBVIOUS
  <2> USE DEF IInv
  <2>1. ASSUME NEW t \in Tasks, TaskStep(t) PROVE [Slots!Next]_(Slots!vars)
    BY <2>1, TaskStepKind, AcquireImplements, ReleaseImplements, QuietImplements
  <2>2. CASE CancelStep \/ SweepStep \/ ShutdownStep
    BY <2>2, OtherStepFrame, QuietImplements DEF Quiet, taskVars
  <2>3. CASE UNCHANGED vars
    BY <2>3, QuietImplements DEF Quiet, vars, taskVars
  <2> QED BY <2>1, <2>2, <2>3 DEF Next
<1> QED BY <1>1, <1>2, InvInductive, PTL DEF Spec, SlotsImplemented, Slots!Spec
----------------------------------------------------------------------------
(* Module bodies *)

\* A step that keeps every class only starts a body on a slot.
LEMMA QuietBodies ==
  ASSUME Types, NEW t \in Tasks, TaskStep(t)
  PROVE  \A u \in Tasks : body'[u] = "running" => body[u] = "running" \/ u \in Holders
BY DEF TaskStep, Admission, RunnerStep, ExecutorStep, Submit, AdmitCount, AdmitRefuse,
       AdmitSave, AdmitReject, Enqueue, RunnerStarts, SlotGranted, LoadedTerminal,
       LoadedLive, LoadedCopy, Claim, CallExecutor, IsStoredTerminal, CompleteTask,
       RequeueTask, FailTask, StoreRejects, DrainedForRetry, BackoffEnds, RunnerEnds,
       CallResolves, CallRejects, BodyStarts, BodyEnds, taskVars, Types, Holders, HoldingPcs

\* The drain comes before the release.
LEMMA BodyStep ==
  ASSUME IInv, BodiesHoldSlots, [Next]_vars
  PROVE  BodiesHoldSlots'
<1> USE DEF IInv, BodiesHoldSlots
<1>1. ASSUME NEW t \in Tasks, TaskStep(t) PROVE BodiesHoldSlots'
  <2>1. CASE Quiet
    <3>1. Holders' = Holders BY <2>1 DEF Quiet, Holders
    <3> QED BY <1>1, <3>1, QuietBodies
  <2>2. CASE Acquires(t)
    <3>1. Holders \subseteq Holders'
      BY <2>2 DEF Acquires, AcquireSlot, Holders, HoldingPcs, Types
    <3> QED BY <2>2, <3>1 DEF Acquires
  <2>3. CASE Releases(t)
    <3>1. Holders \ {t} \subseteq Holders'
      BY <2>3 DEF Releases, ReleaseSlot, Holders, HoldingPcs, Types
    <3> QED BY <2>3, <3>1 DEF Releases, Drained
  <2> QED BY <1>1, <2>1, <2>2, <2>3, TaskStepKind
<1>2. CASE CancelStep \/ SweepStep \/ ShutdownStep
  BY <1>2, OtherStepFrame DEF Holders, taskVars
<1>3. CASE UNCHANGED vars
  BY <1>3 DEF vars, taskVars, Holders
<1> QED BY <1>1, <1>2, <1>3 DEF Next

LEMMA BodyInductive == Spec => []BodiesHoldSlots
<1>1. Init => BodiesHoldSlots BY DEF Init, BodiesHoldSlots
<1> QED BY <1>1, BodyStep, InvInductive, PTL DEF Spec

\* A module body that runs belongs to a runner that owns a slot, for every
\* number of tasks, every limit and every store: drain() comes before every
\* release, so no attempt and no other task overlaps an attempt's finalizers.
THEOREM BodiesOwnSlots == Spec => []BodiesHoldSlots
BY BodyInductive, PTL

----------------------------------------------------------------------------
(* The records of a live store, without retries                             *)
(*                                                                          *)
(* Retries and remote stores are left out for a reason: a requeueing write   *)
(* makes a cancelled record PENDING again (async_requeue), and what a copy   *)
(* says may be older than the record, so that neither the cap nor the        *)
(* outcomes hold with them.                                                  *)

Unsaved == {"new", "admission", "counting", "refused"}

\* A task whose record was never saved has none and is in no list.
FreshRecords ==
  /\ \A t \in stored : pc[t] \notin Unsaved
  /\ \A c \in cancels : pc[c[2]] \notin Unsaved
  /\ \A t \in Tasks : pc[t] \in Unsaved => status[t] = "PENDING"

\* An active record is in the store; so nothing deletes one.
KeptRecords ==
  \A t \in Tasks : pc[t] \notin Unsaved /\ status[t] \in Active => t \in stored

\* What a sweep has listed stays terminal.
SweptRecords == sweep # NoSweep => \A t \in sweep : status[t] \in Terminal

\* COMPLETED and FAILED are the last writes of a runner; a live object is
\* never written back later than it is tested.
WrittenOnce ==
  \A t \in Tasks :
    /\ pc[t] # "claim"
    /\ status[t] \in {"COMPLETED", "FAILED"} => pc[t] \in {"drainEnd", "ended"}

\* The count of the admission section has seen every active record.
CountTaken == \A t \in Tasks : pc[t] = "counting" => ActiveTasks \subseteq counted

Records == FreshRecords /\ KeptRecords /\ SweptRecords /\ WrittenOnce /\ CountTaken
RecInv == Records /\ AdmissionCap /\ LiveWorkHasHandle

\* What OutcomesStay says of one step.
OutcomeStep ==
  /\ \A t \in Tasks : status[t] \in Terminal =>
       /\ status'[t] \in Terminal
       /\ status[t] # "CANCELLED" => status'[t] = status[t]
  /\ ActiveTasks \subseteq stored'

\* A step that admits nobody.
Settling == Records' /\ LiveWorkHasHandle' /\ OutcomeStep /\ ActiveTasks' \subseteq ActiveTasks

\* A released slot goes to a runner that waits for one.
LEMMA WakesWaiter ==
  ASSUME Types, SlotInv, waitQueue # <<>>
  PROVE  Head(waitQueue) \in Tasks /\ pc[Head(waitQueue)] = "waiting"
<1>1. Head(waitQueue) = waitQueue[1] /\ 1 \in DOMAIN waitQueue /\ waitQueue[1] \in Tasks
  BY DEF Types
<1> QED BY <1>1 DEF SlotInv, NoLostWakeup

\* A step that writes no record: where it may take the tasks.
Moves ==
  /\ UNCHANGED <<status, stored, cancelled, cancels, sweep>>
  /\ \A u \in Tasks :
       /\ pc'[u] \in Unsaved <=> pc[u] \in Unsaved
       /\ pc'[u] # "claim"
       /\ pc[u] \in {"drainEnd", "ended"} => pc'[u] \in {"drainEnd", "ended"}
       /\ pc'[u] = "counting" => \/ stored \subseteq counted'
                                 \/ pc[u] = "counting" /\ counted' = counted
       /\ pc'[u] \in WorkerPcs \ {"drainEnd"} =>
            \/ u \in internal'
            \/ /\ pc[u] \in WorkerPcs \ {"drainEnd"}
               /\ u \in internal => u \in internal'

LEMMA MovesSettle ==
  ASSUME IInv, Records, LiveWorkHasHandle, Moves
  PROVE  Settling
<1> USE DEF IInv, Types, Moves
<1>1. FreshRecords' /\ KeptRecords'
  <2>1. \A c \in cancels : c[2] \in Tasks OBVIOUS
  <2> QED BY <2>1 DEF Records, FreshRecords, KeptRecords
<1>2. SweptRecords'
  BY DEF Records, SweptRecords
<1>3. WrittenOnce'
  BY DEF Records, WrittenOnce
<1>4. CountTaken'
  BY DEF Records, CountTaken, ActiveTasks
<1>5. LiveWorkHasHandle'
  BY DEF LiveWorkHasHandle, Workers
<1>6. OutcomeStep /\ ActiveTasks' = ActiveTasks
  BY DEF OutcomeStep, ActiveTasks, Terminal, Active
<1> QED BY <1>1, <1>2, <1>3, <1>4, <1>5, <1>6 DEF Settling, Records

\* Every step of a task but four moves.
LEMMA TaskStepMoves ==
  ASSUME IInv, Records, LiveStore, NEW t \in Tasks, TaskStep(t),
         ~AdmitSave(t), ~LoadedLive(t), ~CompleteTask(t), ~RequeueTask(t), ~FailTask(t)
  PROVE  Moves
<1>0. /\ pc \in [Tasks -> Pcs]
      /\ \A u \in Tasks : pc[u] # "claim"
      /\ ~FlakyStore
      /\ \A u \in Tasks : pc[u] \in {"counting", "saving"} => admitChain # <<>> /\ Head(admitChain) = u
  BY AsyncTaskAssumption DEF IInv, Types, Records, WrittenOnce, AdmissionExclusive
<1> USE <1>0
    DEF Moves, Unsaved, WorkerPcs, HoldingPcs, Goto,
        taskVars, storeVars, handleVars, admitVars, slotVars, sweepVars
<1>1. CASE Submit(t)
  BY <1>1 DEF Submit
<1>2. CASE AdmitCount(t)
  BY <1>2 DEF AdmitCount, List
<1>3. CASE AdmitRefuse(t)
  BY <1>3 DEF AdmitRefuse
<1>4. CASE AdmitReject(t)
  BY <1>4 DEF AdmitReject
<1>5. CASE Enqueue(t)
  BY <1>5 DEF Enqueue
<1>6. CASE RunnerStarts(t)
  BY <1>6 DEF RunnerStarts, AcquireSlot
<1>7. CASE SlotGranted(t)
  BY <1>7 DEF SlotGranted
<1>8. CASE LoadedTerminal(t)
  BY <1>8 DEF LoadedTerminal
<1>9. CASE LoadedCopy(t)
  BY <1>9 DEF LoadedCopy
<1>10. CASE Claim(t)
  BY <1>10 DEF Claim
<1>11. CASE CallExecutor(t)
  BY <1>11 DEF CallExecutor
<1>12. CASE BodyStarts(t)
  BY <1>12 DEF BodyStarts
<1>13. CASE BodyEnds(t)
  BY <1>13 DEF BodyEnds
<1>14. CASE CallResolves(t)
  BY <1>14 DEF CallResolves
<1>15. CASE CallRejects(t)
  BY <1>15 DEF CallRejects, AfterFailure
<1>16. CASE IsStoredTerminal(t)
  BY <1>16 DEF IsStoredTerminal
<1>17. CASE StoreRejects(t)
  BY <1>17 DEF StoreRejects
<1>18. CASE DrainedForRetry(t)
  BY <1>18, WakesWaiter DEF DrainedForRetry, ReleaseSlot, IInv
<1>19. CASE BackoffEnds(t)
  BY <1>19 DEF BackoffEnds, AcquireSlot
<1>20. CASE RunnerEnds(t)
  BY <1>20, WakesWaiter DEF RunnerEnds, ReleaseSlot, IInv
<1> QED
  BY <1>1, <1>2, <1>3, <1>4, <1>5, <1>6, <1>7, <1>8, <1>9, <1>10, <1>11, <1>12, <1>13, <1>14, <1>15, <1>16, <1>17, <1>18, <1>19, <1>20
  DEF TaskStep, Admission, RunnerStep, ExecutorStep

\* A runner writes RUNNING on a record it has just found active, or an outcome
\* at the end.
RunnerWrites(t, s, next) ==
  /\ pc[t] \in WorkerPcs \ {"drainEnd"} /\ pc' = [pc EXCEPT ![t] = next]
  /\ Save(t, s)
  /\ \/ s = "RUNNING" /\ next = "starting" /\ status[t] \in Active
     \/ s \in {"COMPLETED", "FAILED"} /\ next = "drainEnd"
  /\ UNCHANGED <<handleVars, counted, cancels, sweep>>

LEMMA WriteSettles ==
  ASSUME IInv, Records, LiveWorkHasHandle, NEW t \in Tasks, NEW s, NEW next,
         RunnerWrites(t, s, next)
  PROVE  Settling
<1>1. /\ pc \in [Tasks -> Pcs] /\ status \in [Tasks -> Status] /\ stored \subseteq Tasks
      /\ \A c \in cancels : c[2] \in Tasks
      /\ sweep = NoSweep \/ sweep \subseteq Tasks
  BY DEF IInv, Types
<1>2. /\ pc[t] \notin Unsaved \cup {"drainEnd", "ended", "counting", "claim"}
      /\ next \notin Unsaved \cup {"ended", "counting", "claim"}
  BY DEF RunnerWrites, Records, WrittenOnce, Unsaved, WorkerPcs, HoldingPcs
<1>3. status[t] \in Active \cup {"CANCELLED"}
  BY <1>1, <1>2 DEF Records, WrittenOnce, Status, Terminal
<1>4. status[t] \in Active => t \in stored
  BY <1>2 DEF Records, KeptRecords
<1> USE <1>1, <1>2, <1>3, <1>4 DEF RunnerWrites, Save, handleVars
<1>5. FreshRecords' /\ KeptRecords'
  BY DEF Records, FreshRecords, KeptRecords
<1>6. SweptRecords'
  BY DEF Records, SweptRecords, Active, Terminal
<1>7. WrittenOnce'
  BY DEF Records, WrittenOnce
<1>8. ActiveTasks' \subseteq ActiveTasks
  BY DEF ActiveTasks, Active
<1>9. CountTaken'
  BY <1>8 DEF Records, CountTaken
<1>10. LiveWorkHasHandle'
  <2>1. SUFFICES ASSUME NEW u \in Tasks, u \in Workers', u \notin cancelled,
                        pc'[u] # "drainEnd", status'[u] \in Active
                 PROVE  u \in internal
    BY DEF LiveWorkHasHandle, Workers
  <2>2. u \in Workers /\ pc[u] # "drainEnd" /\ status[u] \in Active
    BY <2>1 DEF Workers, Active
  <2> QED BY <2>1, <2>2 DEF LiveWorkHasHandle
<1>11. OutcomeStep
  BY DEF OutcomeStep, ActiveTasks, Active, Terminal
<1> QED BY <1>5, <1>6, <1>7, <1>8, <1>9, <1>10, <1>11 DEF Settling, Records

\* A step of a runner or of a submit, other than the saving one.
LEMMA TaskStepRecords ==
  ASSUME IInv, Records, LiveWorkHasHandle, LiveStore, MaxRetries = 0,
         NEW t \in Tasks, TaskStep(t), ~AdmitSave(t)
  PROVE  Settling
<1>1. CASE LoadedLive(t)
  <2>1. RunnerWrites(t, "RUNNING", "starting")
    BY <1>1 DEF LoadedLive, Goto, MayAdvance, RunnerWrites, WorkerPcs, HoldingPcs, admitVars, sweepVars
  <2> QED BY <2>1, WriteSettles
<1>2. CASE CompleteTask(t)
  <2>1. RunnerWrites(t, "COMPLETED", "drainEnd")
    BY <1>2 DEF CompleteTask, Goto, RunnerWrites, WorkerPcs, HoldingPcs, admitVars, sweepVars
  <2> QED BY <2>1, WriteSettles
<1>3. CASE FailTask(t)
  <2>1. RunnerWrites(t, "FAILED", "drainEnd")
    BY <1>3 DEF FailTask, Goto, RunnerWrites, WorkerPcs, HoldingPcs, admitVars, sweepVars
  <2> QED BY <2>1, WriteSettles
<1>4. ~RequeueTask(t)
  <2>1. pc[t] # "requeue" BY DEF IInv, Types, RetryBudget
  <2> QED BY <2>1 DEF RequeueTask, Goto
<1> QED BY <1>1, <1>2, <1>3, <1>4, TaskStepMoves, MovesSettle

\* The save of an admission: whom list() showed and who is active still.
LEMMA SaveRecords ==
  ASSUME IInv, RecInv, LiveStore, NEW t \in Tasks, AdmitSave(t)
  PROVE  RecInv' /\ OutcomeStep
<1> USE DEF IInv, Types
<1>1. /\ pc[t] = "counting" /\ pc' = [pc EXCEPT ![t] = "saving"]
      /\ status' = [status EXCEPT ![t] = "PENDING"] /\ stored' = stored \cup {t}
      /\ UNCHANGED <<handleVars, cancels, sweepVars>>
      /\ NumCounted < MaxTasks
  BY DEF AdmitSave, Goto, Save
<1>2. \A u \in Tasks : pc[u] = "counting" => u = t
  BY <1>1 DEF AdmissionExclusive
<1>3. status[t] = "PENDING" /\ (sweep # NoSweep => t \notin sweep)
  BY <1>1 DEF RecInv, Records, FreshRecords, SweptRecords, Unsaved, Terminal
<1>4. ActiveTasks' = ActiveTasks \cup {t}
  BY <1>1, <1>3 DEF ActiveTasks, Active
<1>5. AdmissionCap'
  <2> DEFINE seen == {u \in counted : Still(u, Active)}
  <2>1. ActiveTasks \subseteq seen
    BY <1>1 DEF RecInv, Records, CountTaken, ActiveTasks, Still
  <2>2. IsFiniteSet(seen) /\ IsFiniteSet(ActiveTasks)
    BY FS_Subset, AsyncTaskAssumption DEF ActiveTasks
  <2>3. Cardinality(ActiveTasks) <= Cardinality(seen)
    BY <2>1, <2>2, FS_Subset
  <2>4. Cardinality(seen) < MaxTasks BY <1>1 DEF NumCounted
  <2>5. Cardinality(ActiveTasks) \in Nat /\ Cardinality(seen) \in Nat
    BY <2>2, FS_CardinalityType
  <2>6. Cardinality(ActiveTasks') <= Cardinality(ActiveTasks) + 1
    <3>1. Cardinality(ActiveTasks \cup {t}) \in {Cardinality(ActiveTasks), Cardinality(ActiveTasks) + 1}
      BY <2>2, FS_AddElement
    <3> QED BY <1>4, <3>1, <2>5
  <2>7. Cardinality(ActiveTasks') \in Nat
    BY <1>4, <2>2, FS_AddElement, FS_CardinalityType
  <2> QED BY <2>3, <2>4, <2>5, <2>6, <2>7, AsyncTaskAssumption DEF AdmissionCap
<1>6. Records'
  BY <1>1, <1>2, <1>3
  DEF RecInv, Records, FreshRecords, KeptRecords, SweptRecords, WrittenOnce, CountTaken,
      Unsaved, Active, Terminal, sweepVars
<1>7. LiveWorkHasHandle'
  BY <1>1 DEF RecInv, LiveWorkHasHandle, Workers, WorkerPcs, HoldingPcs, handleVars
<1>8. OutcomeStep
  BY <1>1, <1>3 DEF OutcomeStep, ActiveTasks, Terminal
<1> QED BY <1>5, <1>6, <1>7, <1>8 DEF RecInv

\* Cancels, sweeps and a shutdown.
LEMMA OtherStepRecords ==
  ASSUME IInv, Records, LiveWorkHasHandle, LiveStore, CancelStep \/ SweepStep \/ ShutdownStep
  PROVE  Settling
<1>0. UNCHANGED <<pc, counted>> BY OtherStepFrame DEF taskVars, admitVars
<1>1. /\ status \in [Tasks -> Status] /\ stored \subseteq Tasks
      /\ \A c \in cancels : c[2] \in Tasks
      /\ sweep = NoSweep \/ sweep \subseteq Tasks
  BY DEF IInv, Types
<1> USE <1>0, <1>1
<1>2. ASSUME NEW t \in Tasks, status' = [status EXCEPT ![t] = "CANCELLED"],
             stored' = stored \cup {t}, t \in stored \/ pc[t] \notin Unsaved,
             status[t] \in Active, cancels' \subseteq cancels,
             cancelled \subseteq cancelled', UNCHANGED <<internal, sweep>>
      PROVE  Settling
  <2>1. pc[t] \notin Unsaved BY <1>2 DEF Records, FreshRecords
  <2>2. Records'
    BY <1>2, <2>1
    DEF Records, FreshRecords, KeptRecords, SweptRecords, WrittenOnce, CountTaken,
        ActiveTasks, Active, Terminal
  <2>3. LiveWorkHasHandle' BY <1>2 DEF LiveWorkHasHandle, Workers, Active
  <2>4. ActiveTasks' \subseteq ActiveTasks BY <1>2 DEF ActiveTasks, Active
  <2>5. OutcomeStep BY <1>2 DEF OutcomeStep, ActiveTasks, Active, Terminal
  <2> QED BY <2>2, <2>3, <2>4, <2>5 DEF Settling
<1>3. ASSUME NEW t \in Tasks, status[t] \in Terminal, Delete(t),
             UNCHANGED <<status, cancelled, cancels>>,
             sweep' = NoSweep \/ (sweep # NoSweep /\ sweep' \subseteq sweep)
      PROVE  Settling
  <2>1. Records'
    BY <1>3
    DEF Delete, Records, FreshRecords, KeptRecords, SweptRecords, WrittenOnce, CountTaken,
        ActiveTasks, Active, Terminal
  <2>2. LiveWorkHasHandle' BY <1>3 DEF LiveWorkHasHandle, Workers, Active, Terminal, Delete
  <2>3. ActiveTasks' = ActiveTasks BY <1>3 DEF ActiveTasks, Active, Terminal, Delete
  <2>4. OutcomeStep BY <1>3, <2>3 DEF OutcomeStep, ActiveTasks
  <2> QED BY <2>1, <2>2, <2>3, <2>4 DEF Settling
<1>4. ASSUME UNCHANGED <<status, stored, internal>>, cancelled \subseteq cancelled',
             \A c \in cancels' : c \in cancels \/ c[2] \in stored,
             \/ sweep' = NoSweep \/ sweep' = sweep
             \/ \A t \in sweep' : t \in stored /\ status[t] \in Terminal
      PROVE  Settling
  <2>1. Records'
    BY <1>4
    DEF Records, FreshRecords, KeptRecords, SweptRecords, WrittenOnce, CountTaken, ActiveTasks
  <2>2. LiveWorkHasHandle' BY <1>4 DEF LiveWorkHasHandle, Workers
  <2>3. ActiveTasks' = ActiveTasks BY <1>4 DEF ActiveTasks
  <2>4. OutcomeStep BY <1>4, <2>3 DEF OutcomeStep, ActiveTasks
  <2> QED BY <2>1, <2>2, <2>3, <2>4 DEF Settling
<1> USE DEF storeVars, handleVars, sweepVars
<1>5. ASSUME NEW t \in Tasks, CancelCall(t) PROVE Settling
  <2>1. t \in stored BY <1>5 DEF CancelCall, List
  <2>2. \A c \in cancels' : c \in cancels \/ c[2] \in stored BY <1>5, <2>1 DEF CancelCall
  <2> QED BY <1>4, <1>5, <2>2 DEF CancelCall
<1>6. ASSUME NEW t \in Tasks, PeerCancel(t) PROVE Settling
  BY <1>2, <1>6 DEF PeerCancel, Save, ActiveTasks
<1>7. ASSUME NEW t \in Tasks, CleanupStep(t) PROVE Settling
  BY <1>3, <1>4, <1>7 DEF CleanupStep, CleanupDeletes, Still
<1>8. ASSUME NEW t \in Tasks, SweepDeletes(t) PROVE Settling
  <2>1. sweep # NoSweep BY <1>8, NoSweepAssumption DEF SweepDeletes
  <2>2. status[t] \in Terminal BY <1>8, <2>1 DEF SweepDeletes, Records, SweptRecords
  <2> QED BY <1>3, <1>8, <2>1, <2>2 DEF SweepDeletes
<1>9. ASSUME NEW c \in cancels, CancelResume(c) PROVE Settling
  <2>1. c[2] \in Tasks /\ pc[c[2]] \notin Unsaved BY DEF Records, FreshRecords
  <2>2. CASE status[c[2]] \in Active
    BY <1>2, <1>9, <2>1, <2>2 DEF CancelResume, Save, Still
  <2>3. CASE status[c[2]] \notin Active
    BY <1>4, <1>9, <2>3 DEF CancelResume, Still
  <2> QED BY <2>2, <2>3
<1>10. ASSUME NEW c \in cancels, CancelRejects(c) PROVE Settling
  BY <1>10, AsyncTaskAssumption DEF CancelRejects
<1>11. CASE CleanupCall
  BY <1>4, <1>11 DEF CleanupCall
<1>12. CASE StartReaper
  BY <1>4, <1>12 DEF StartReaper
<1>13. CASE SweepStarts
  BY <1>4, <1>13 DEF SweepStarts
<1>14. CASE SweepEnds
  BY <1>4, <1>14 DEF SweepEnds
<1>15. CASE StopReaper
  BY <1>4, <1>15 DEF StopReaper
<1>16. CASE ReaperStopped
  BY <1>4, <1>16 DEF ReaperStopped
<1>17. CASE ShutdownCall
  BY <1>4, <1>17 DEF ShutdownCall
<1>18. CASE ShutdownFlags
  BY <1>4, <1>18 DEF ShutdownFlags
<1>19. CASE ShutdownCancels
  <2>1. \A c \in cancels' : c \in cancels \/ c[2] \in stored
    BY <1>19 DEF ShutdownCancels, List
  <2> QED BY <1>4, <1>19, <2>1 DEF ShutdownCancels
<1>20. CASE ShutdownListRejects
  BY <1>4, <1>20 DEF ShutdownListRejects
<1>21. CASE ShutdownReturns
  BY <1>4, <1>21 DEF ShutdownReturns
<1> QED
  BY <1>5, <1>6, <1>7, <1>8, <1>9, <1>10, <1>11, <1>12, <1>13, <1>14, <1>15, <1>16, <1>17, <1>18, <1>19, <1>20, <1>21
  DEF CancelStep, SweepStep, ShutdownStep

\* Fewer active records never exceed the cap.
LEMMA SettlingKeepsCap ==
  ASSUME IInv, AdmissionCap, ActiveTasks' \subseteq ActiveTasks
  PROVE  AdmissionCap'
<1>1. IsFiniteSet(ActiveTasks)
  BY FS_Subset, AsyncTaskAssumption DEF ActiveTasks, IInv, Types
<1>2. /\ IsFiniteSet(ActiveTasks') /\ Cardinality(ActiveTasks') <= Cardinality(ActiveTasks)
      /\ Cardinality(ActiveTasks) \in Nat /\ Cardinality(ActiveTasks') \in Nat
  BY <1>1, FS_Subset, FS_CardinalityType
<1> QED BY <1>2, AsyncTaskAssumption DEF AdmissionCap

LEMMA RecordsInit == ASSUME LiveStore PROVE Init => RecInv
<1> SUFFICES ASSUME Init PROVE RecInv
  OBVIOUS
<1>1. ActiveTasks = {} BY DEF Init, ActiveTasks
<1>2. AdmissionCap BY <1>1, FS_EmptySet, AsyncTaskAssumption DEF AdmissionCap
<1> QED
  BY <1>2 DEF Init, RecInv, Records, FreshRecords, KeptRecords, SweptRecords, WrittenOnce,
       CountTaken, Unsaved, LiveWorkHasHandle, Workers, WorkerPcs, HoldingPcs

LEMMA RecordsNext ==
  ASSUME LiveStore, MaxRetries = 0
  PROVE  IInv /\ RecInv /\ [Next]_vars => RecInv' /\ (OutcomeStep \/ UNCHANGED vars)
<1> SUFFICES ASSUME IInv, RecInv, [Next]_vars
             PROVE  RecInv' /\ (OutcomeStep \/ UNCHANGED vars)
  OBVIOUS
<1>1. ASSUME NEW t \in Tasks, AdmitSave(t) PROVE RecInv' /\ OutcomeStep
  BY <1>1, SaveRecords
<1>2. ASSUME Settling PROVE RecInv' /\ OutcomeStep
  BY <1>2, SettlingKeepsCap DEF Settling, RecInv
<1>3. ASSUME NEW t \in Tasks, TaskStep(t), ~AdmitSave(t) PROVE Settling
  BY <1>3, TaskStepRecords DEF RecInv
<1>4. CASE CancelStep \/ SweepStep \/ ShutdownStep
  BY <1>2, <1>4, OtherStepRecords DEF RecInv
<1>5. CASE UNCHANGED vars
  BY <1>5
  DEF vars, taskVars, storeVars, handleVars, admitVars, sweepVars, RecInv, Records,
      FreshRecords, KeptRecords, SweptRecords, WrittenOnce, CountTaken, AdmissionCap,
      LiveWorkHasHandle, ActiveTasks, Workers
<1> QED BY <1>1, <1>2, <1>3, <1>4, <1>5 DEF Next

\* With a live store and no retries, submit() never admits more than maxTasks
\* active tasks, live work keeps the handle that cancel() and shutdown() abort
\* it by, and a running body its slot: for any number of callers of any
\* operation and any number of tasks.
THEOREM AdmissionHolds ==
  ASSUME LiveStore, MaxRetries = 0
  PROVE  Spec => []AdmissionSound
<1>1. RecInv /\ BodiesHoldSlots => AdmissionSound BY DEF RecInv, AdmissionSound
<1> QED BY <1>1, RecordsInit, RecordsNext, InvInductive, BodyInductive, PTL DEF Spec

\* Under the same assumptions a terminal record stays terminal, COMPLETED and
\* FAILED are final, and no operation deletes the record of an active task.
THEOREM OutcomesAreFinal ==
  ASSUME LiveStore, MaxRetries = 0
  PROVE  Spec => OutcomesStay
<1>1. IInv /\ RecInv /\ [Next]_vars => [OutcomeStep]_vars BY RecordsNext
<1> QED
  BY <1>1, RecordsInit, RecordsNext, InvInductive, PTL
  DEF Spec, OutcomesStay, OutcomeStep

----------------------------------------------------------------------------
(* shutdown(), of a live store without retries                              *)

\* Where a runner goes that will not write its record any more.
Leaving == {"drainEnd", "drainFree", "ended"}

\* A handle, and what was active when shutdown() was called, is of a task whose
\* record was saved.
SavedBefore == \A t \in internal \cup cancelled \cup atCall : pc[t] \notin Unsaved

\* shutdown() still has the cancel() of the task before it.
InHand(t) ==
  /\ shutdown = "list" => t \in shutList
  /\ shutdown = "wait" => <<"shutdown", t>> \in cancels
  /\ shutdown # "done"

\* A runner gives up on an active record only if it was flagged, only
\* shutdown() flags one without writing CANCELLED in the same turn, and what it
\* flagged or found active it has in hand.
ShutInv ==
  /\ SavedBefore
  /\ shutdown = "idle" => atCall = {}
  /\ \A t \in ActiveTasks :
       /\ pc[t] \in Leaving => t \in cancelled
       /\ t \in cancelled => shutdown \in {"list", "wait"}
       /\ t \in cancelled \cup atCall => InHand(t)

LEMMA ShutInvSettles == ShutInv => ShutdownSettles
  BY DEF ShutInv, InHand, ShutdownSettles, NoOrphan, Leaving

LEMMA TaskStepLeaves ==
  ASSUME IInv, MaxRetries = 0, LiveStore, Records, NEW t \in Tasks, TaskStep(t)
  PROVE  /\ UNCHANGED <<cancelled, cancels, shutVars>>
         /\ \A u \in Tasks : pc[u] \notin Unsaved => pc'[u] \notin Unsaved
         /\ \A u \in internal' : u \in internal \/ pc[u] \notin Unsaved
         /\ \A u \in Tasks : pc'[u] \in Leaving /\ u \in stored /\ status'[u] \in Active =>
              pc[u] \in Leaving \/ u \in cancelled
<1>0. /\ pc \in [Tasks -> Pcs] /\ status \in [Tasks -> Status] /\ ~FlakyStore
      /\ \A u \in Tasks : pc[u] \notin {"claim", "retryRead", "requeue"} /\ ~RetryLeft(u)
  BY AsyncTaskAssumption DEF IInv, Types, Records, WrittenOnce, RetryBudget, RetryLeft
<1> USE <1>0
    DEF Unsaved, Leaving, WorkerPcs, HoldingPcs, Goto, Save, Active, Terminal,
        taskVars, storeVars, handleVars, admitVars, slotVars, sweepVars, shutVars
<1>1. CASE Submit(t)
  BY <1>1 DEF Submit
<1>2. CASE AdmitCount(t)
  BY <1>2 DEF AdmitCount
<1>3. CASE AdmitRefuse(t)
  BY <1>3 DEF AdmitRefuse
<1>4. CASE AdmitReject(t)
  BY <1>4 DEF AdmitReject
<1>5. CASE Enqueue(t)
  BY <1>5 DEF Enqueue
<1>6. CASE RunnerStarts(t)
  BY <1>6 DEF RunnerStarts, AcquireSlot
<1>7. CASE SlotGranted(t)
  BY <1>7 DEF SlotGranted
<1>8. CASE LoadedTerminal(t)
  BY <1>8 DEF LoadedTerminal
<1>9. CASE LoadedCopy(t)
  BY <1>9 DEF LoadedCopy
<1>10. CASE Claim(t)
  BY <1>10 DEF Claim
<1>11. CASE CallExecutor(t)
  BY <1>11 DEF CallExecutor
<1>12. CASE BodyStarts(t)
  BY <1>12 DEF BodyStarts
<1>13. CASE BodyEnds(t)
  BY <1>13 DEF BodyEnds
<1>14. CASE CallResolves(t)
  BY <1>14 DEF CallResolves
<1>15. CASE CallRejects(t)
  BY <1>15 DEF CallRejects, AfterFailure
<1>16. CASE IsStoredTerminal(t)
  BY <1>16 DEF IsStoredTerminal
<1>17. CASE StoreRejects(t)
  BY <1>17 DEF StoreRejects
<1>18. CASE DrainedForRetry(t)
  BY <1>18, WakesWaiter DEF DrainedForRetry, ReleaseSlot, IInv
<1>19. CASE BackoffEnds(t)
  BY <1>19 DEF BackoffEnds, AcquireSlot
<1>20. CASE RunnerEnds(t)
  BY <1>20, WakesWaiter DEF RunnerEnds, ReleaseSlot, IInv
<1>21. CASE AdmitSave(t)
  BY <1>21 DEF AdmitSave
<1>22. CASE LoadedLive(t)
  BY <1>22 DEF LoadedLive
<1>23. CASE CompleteTask(t)
  BY <1>23 DEF CompleteTask
<1>24. CASE FailTask(t)
  BY <1>24 DEF FailTask
<1>25. CASE RequeueTask(t)
  BY <1>25 DEF RequeueTask
<1> QED
  BY <1>1, <1>2, <1>3, <1>4, <1>5, <1>6, <1>7, <1>8, <1>9, <1>10, <1>11, <1>12, <1>13, <1>14, <1>15, <1>16, <1>17, <1>18, <1>19, <1>20, <1>21, <1>22, <1>23, <1>24, <1>25
  DEF TaskStep, Admission, RunnerStep, ExecutorStep

LEMMA TaskStepInHand ==
  ASSUME IInv, RecInv, ShutInv, MaxRetries = 0, LiveStore, NEW t \in Tasks, TaskStep(t)
  PROVE  ShutInv'
<1>1. /\ UNCHANGED <<cancelled, cancels, shutVars>>
      /\ \A u \in Tasks : pc[u] \notin Unsaved => pc'[u] \notin Unsaved
      /\ \A u \in internal' : u \in internal \/ pc[u] \notin Unsaved
      /\ \A u \in Tasks : pc'[u] \in Leaving /\ u \in stored /\ status'[u] \in Active =>
           pc[u] \in Leaving \/ u \in cancelled
  BY TaskStepLeaves DEF RecInv
<1>2. /\ internal \subseteq Tasks /\ internal' \subseteq Tasks /\ cancelled \subseteq Tasks
      /\ atCall \subseteq Tasks /\ stored \subseteq Tasks
  <2>1. IInv'
    BY NextInv DEF Next
  <2> QED
    BY <2>1 DEF IInv, Types
<1>3. SavedBefore'
  BY <1>1, <1>2 DEF ShutInv, SavedBefore, shutVars
<1>4. ASSUME NEW u \in ActiveTasks', u \in ActiveTasks
      PROVE  /\ pc'[u] \in Leaving => u \in cancelled
             /\ u \in cancelled => shutdown \in {"list", "wait"}
             /\ u \in cancelled \cup atCall => InHand(u)
  BY <1>1, <1>2, <1>4 DEF ShutInv, ActiveTasks
<1>5. ASSUME NEW u \in ActiveTasks', u \notin ActiveTasks
      PROVE  pc'[u] \notin Leaving /\ u \notin cancelled \cup atCall
  <2>1. AdmitSave(t)
    BY <1>5, TaskStepRecords DEF RecInv, Settling
  <2>2. u = t /\ pc[t] = "counting" /\ pc'[t] = "saving"
    BY <1>5, <2>1 DEF AdmitSave, Goto, Save, ActiveTasks, IInv, Types
  <2> QED
    BY <2>2 DEF ShutInv, SavedBefore, Unsaved, Leaving
<1>6. \A u : InHand(u)' <=> InHand(u)
  BY <1>1 DEF InHand, shutVars
<1>7. shutdown' = shutdown /\ cancelled' = cancelled /\ atCall' = atCall
  BY <1>1 DEF shutVars
<1> QED
  BY <1>3, <1>4, <1>5, <1>6, <1>7 DEF ShutInv

\* A step of the others: no task moves and no record becomes active.
LEMMA OthersInHand ==
  ASSUME IInv, RecInv, ShutInv, LiveStore, CancelStep \/ SweepStep \/ ShutdownStep
  PROVE  ShutInv'
<1>1. /\ UNCHANGED pc /\ ActiveTasks' \subseteq ActiveTasks
      /\ \A u \in ActiveTasks : pc[u] \notin Unsaved
      /\ ~FlakyStore /\ cancels \subseteq {"user", "shutdown"} \X Tasks
  BY OtherStepFrame, OtherStepRecords, AsyncTaskAssumption
  DEF taskVars, RecInv, Settling, Records, FreshRecords, ActiveTasks, IInv, Types
<1> USE <1>1
<1>2. ASSUME internal' \subseteq internal, UNCHANGED <<cancelled, cancels, shutdown, shutList, atCall>>
      PROVE  ShutInv'
  BY <1>2 DEF ShutInv, SavedBefore, InHand
<1> USE DEF storeVars, handleVars, sweepVars, shutVars
<1>5. ASSUME NEW t \in Tasks, CancelCall(t) PROVE ShutInv'
  BY <1>5 DEF CancelCall, ShutInv, SavedBefore, InHand
<1>6. ASSUME NEW t \in Tasks, PeerCancel(t) PROVE ShutInv'
  BY <1>2, <1>6 DEF PeerCancel
<1>7. ASSUME NEW t \in Tasks, CleanupStep(t) PROVE ShutInv'
  BY <1>2, <1>7 DEF CleanupStep, Delete
<1>8. ASSUME NEW t \in Tasks, SweepDeletes(t) PROVE ShutInv'
  BY <1>2, <1>8 DEF SweepDeletes, Delete
<1>9. ASSUME NEW c \in cancels, CancelResume(c) PROVE ShutInv'
  <2>1. PICK t \in Tasks : t = c[2]
    OBVIOUS
  <2>2. t \notin ActiveTasks'
    <3>1. CASE status[t] \in Active
      BY <1>9, <2>1, <3>1 DEF CancelResume, Still, Save, ActiveTasks, Active, IInv, Types
    <3>2. CASE status[t] \notin Active
      BY <1>9, <2>1, <3>2 DEF CancelResume, Still, ActiveTasks
    <3> QED
      BY <3>1, <3>2
  <2>3. /\ cancels' = cancels \ {c} /\ cancelled' \subseteq cancelled \cup ({t} \cap internal)
        /\ UNCHANGED <<internal, shutdown, shutList, atCall>>
    BY <1>9, <2>1 DEF CancelResume
  <2>4. \A u \in ActiveTasks' : u # t /\ <<"shutdown", u>> # c
    BY <2>1, <2>2
  <2>5. SavedBefore' /\ (shutdown' = "idle" => atCall' = {})
    <3>1. \A u \in internal \cup cancelled \cup atCall : pc[u] \notin Unsaved
      BY DEF ShutInv, SavedBefore
    <3>2. \A u \in internal' \cup cancelled' \cup atCall' : u \in internal \cup cancelled \cup atCall
      BY <2>3
    <3> QED
      BY <2>3, <3>1, <3>2 DEF ShutInv, SavedBefore
  <2>6. \A u \in ActiveTasks' : u \in ActiveTasks /\ (u \in cancelled' <=> u \in cancelled)
    <3>1. cancelled \subseteq cancelled'
      BY <1>9 DEF CancelResume
    <3> QED
      BY <2>3, <2>4, <3>1
  <2>7. \A u \in ActiveTasks' : InHand(u) => InHand(u)'
    BY <2>3, <2>4 DEF InHand
  <2> QED
    BY <2>3, <2>5, <2>6, <2>7 DEF ShutInv
<1>10. ASSUME NEW c \in cancels, CancelRejects(c) PROVE ShutInv'
  BY <1>10 DEF CancelRejects
<1>11. CASE CleanupCall
  BY <1>2, <1>11 DEF CleanupCall
<1>12. CASE StartReaper
  BY <1>2, <1>12 DEF StartReaper
<1>13. CASE SweepStarts
  BY <1>2, <1>13 DEF SweepStarts
<1>14. CASE SweepEnds
  BY <1>2, <1>14 DEF SweepEnds
<1>15. CASE StopReaper
  BY <1>2, <1>15 DEF StopReaper
<1>16. CASE ReaperStopped
  BY <1>16 DEF ReaperStopped, ShutInv, SavedBefore, InHand
<1>17. CASE ShutdownCall
  BY <1>17 DEF ShutdownCall, ShutInv, SavedBefore, InHand
<1>18. CASE ShutdownFlags
  BY <1>18 DEF ShutdownFlags, ShutInv, SavedBefore, InHand, List, ActiveTasks
<1>19. CASE ShutdownCancels
  <2>1. \A u \in ActiveTasks : u \in shutList => <<"shutdown", u>> \in cancels'
    BY <1>19 DEF ShutdownCancels, Still, List, ActiveTasks
  <2> QED
    BY <1>19, <2>1 DEF ShutdownCancels, ShutInv, SavedBefore, InHand
<1>20. CASE ShutdownListRejects
  BY <1>20 DEF ShutdownListRejects
<1>21. CASE ShutdownReturns
  <2>1. \A u : <<"shutdown", u>> \notin cancels
    BY <1>21 DEF ShutdownReturns, CancelsSettled
  <2> QED
    BY <1>21, <2>1 DEF ShutdownReturns, ShutInv, SavedBefore, InHand
<1> QED
  BY <1>5, <1>6, <1>7, <1>8, <1>9, <1>10, <1>11, <1>12, <1>13, <1>14, <1>15, <1>16, <1>17, <1>18, <1>19, <1>20, <1>21
  DEF CancelStep, SweepStep, ShutdownStep

LEMMA ShutInvNext ==
  ASSUME LiveStore, MaxRetries = 0
  PROVE  IInv /\ RecInv /\ ShutInv /\ [Next]_vars => ShutInv'
<1>1. ASSUME ShutInv, UNCHANGED vars PROVE ShutInv'
  BY <1>1
  DEF vars, taskVars, storeVars, handleVars, admitVars, sweepVars, shutVars, ShutInv, SavedBefore, InHand,
      ActiveTasks
<1> QED
  BY <1>1, TaskStepInHand, OthersInHand DEF Next

\* Under the same assumptions, whatever is cancelled, cleaned, reaped or done by
\* others meanwhile: no record is left active by a runner that has ended, unless
\* shutdown() is about to cancel it, and when shutdown() returns all that was
\* active when it was called is terminal or gone.
THEOREM ShutdownIsSound ==
  ASSUME LiveStore, MaxRetries = 0
  PROVE  Spec => []ShutdownSettles
<1>1. Init => ShutInv
  BY DEF Init, ShutInv, SavedBefore, ActiveTasks
<1> QED
  BY <1>1, ShutInvNext, ShutInvSettles, RecordsInit, RecordsNext, InvInductive, PTL DEF Spec
=============================================================================
