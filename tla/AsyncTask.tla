----------------------------- MODULE AsyncTask -----------------------------
(***************************************************************************)
(* AsyncTaskManager of src/async-task.ts: admission, the slot limiter, the  *)
(* runner of each task with its retries, cancel(), cleanup(), the reaper    *)
(* and shutdown().                                                          *)
(*                                                                          *)
(* JavaScript runs to completion between two awaits, so an action is the    *)
(* code between two suspension points and pc names the await at which a     *)
(* task is suspended.  A store call takes effect when it is issued, which   *)
(* is what InMemoryTaskStore does, and its caller resumes in a later step.  *)
(*                                                                          *)
(* A task is one submit() call.  Of a TaskInfo the model keeps the status   *)
(* and retryCount; times, inputs and results are abstracted, so any         *)
(* terminal record may be old enough for cleanup() and the reaper.          *)
(***************************************************************************)
EXTENDS Integers, Sequences, FiniteSets

CONSTANTS
  Tasks,          \* the submit() calls of the instance
  MaxConcurrent,  \* AsyncTaskManagerOptions.maxConcurrent
  MaxTasks,       \* AsyncTaskManagerOptions.maxTasks
  MaxRetries,     \* RetryConfig.maxRetries of every submit (0: no retry)
  LiveStore,      \* TRUE: get/list return the stored object itself
                  \* (InMemoryTaskStore); FALSE: they return copies
  FlakyStore,     \* TRUE: a save or list may reject (remote store)
  Calls           \* the other public operations callers use

ASSUME AsyncTaskAssumption ==
  /\ IsFiniteSet(Tasks)
  /\ MaxConcurrent \in Nat \ {0}
  /\ MaxTasks \in Nat
  /\ MaxRetries \in Nat
  /\ LiveStore \in BOOLEAN
  /\ FlakyStore \in BOOLEAN /\ ~(FlakyStore /\ LiveStore)
  /\ Calls \subseteq {"cancel", "cleanup", "reaper", "shutdown", "peer"}

VARIABLES
  pc,            \* [Tasks -> where the task's submit() or runner is suspended]
  status,        \* [Tasks -> TaskStatus] of the record (or live object)
  stored,        \* the tasks with a record in the store
  retryCount,    \* [Tasks -> TaskInfo.retryCount]
  body,          \* [Tasks -> the module body of the current attempt]
  internal,      \* the keys of _internal
  cancelled,     \* tasks whose handle is flagged and whose token is aborted
  admitChain,    \* _admitChain: submits in or awaiting the admission section
  counted,       \* what the list() of the submit in that section returned
  runningCount,  \* _runningCount
  waitQueue,     \* _waitQueue
  cancels,       \* <<caller, task>>: cancel() calls awaiting their get
  cleaning,      \* the records cleanup() has listed and not yet looked at
  reaper,        \* "off", "armed" (a handle), "stopping" (stop() called)
  sweep,         \* the running sweep's undeleted records, or NoSweep
  shutdown,      \* where shutdown() is suspended
  shutList,      \* what its list() returned
  awaited,       \* its copy of _workers
  atCall         \* history: the tasks active when shutdown() was called

taskVars  == <<pc, body, retryCount>>
storeVars == <<status, stored>>
handleVars == <<internal, cancelled>>
admitVars == <<admitChain, counted>>
slotVars  == <<runningCount, waitQueue>>
sweepVars == <<cleaning, reaper, sweep>>
shutVars  == <<shutdown, shutList, awaited, atCall>>
vars == <<taskVars, storeVars, handleVars, admitVars, slotVars, cancels,
          sweepVars, shutVars>>

----------------------------------------------------------------------------
(* Vocabulary *)

Active   == {"PENDING", "RUNNING"}
Terminal == {"COMPLETED", "FAILED", "CANCELLED"}   \* TERMINAL_STATUSES
Status   == Active \cup Terminal

\* The suspension points at which a runner owns a concurrency slot
\* (slotHeld, or a hand-off of _releaseSlot it has not yet resumed from).
HoldingPcs == {"slot", "load", "claim", "starting", "executing",
               "doneRead", "complete", "retryRead", "requeue",
               "failRead", "fail", "drainRetry", "drainEnd"}
\* The suspension points of a runner: its promise is in _workers.
WorkerPcs == HoldingPcs \cup {"context", "waiting", "backoff", "drainFree"}
SubmitPcs == {"new", "admission", "counting", "saving"}
Pcs == WorkerPcs \cup SubmitPcs \cup {"refused", "ended"}

Holders == {t \in Tasks : pc[t] \in HoldingPcs}
Workers == {t \in Tasks : pc[t] \in WorkerPcs}
ActiveTasks == {t \in stored : status[t] \in Active}

NoSweep == {"no sweep"}

ASSUME NoSweepAssumption == NoSweep \cap Tasks = {}

Goto(t, from, to) == pc[t] = from /\ pc' = [pc EXCEPT ![t] = to]

\* TaskStore.save(info) with the given status; delete(taskId).
Save(t, s) ==
  /\ status' = [status EXCEPT ![t] = s]
  /\ stored' = stored \cup {t}
Delete(t) ==
  /\ stored' = stored \ {t}
  /\ internal' = internal \ {t}

\* store.list() filtered later by status: live objects are filtered as they
\* are when the caller looks at them, copies as they were when listed.
List(S)       == IF LiveStore THEN stored ELSE {t \in stored : status[t] \in S}
Still(t, S)   == LiveStore => status[t] \in S

----------------------------------------------------------------------------
(* submit() and _admit() *)

Submit(t) ==
  /\ Goto(t, "new", "admission")
  /\ admitChain' = Append(admitChain, t)
  /\ UNCHANGED <<body, retryCount, storeVars, handleVars, counted, slotVars,
                 cancels, sweepVars, shutVars>>

\* Each critical section is chained onto the previous one.
UnchainedTurn(t) == \E i \in DOMAIN admitChain : admitChain[i] = t  \* mutant
AdmitTurn(t) == admitChain # <<>> /\ Head(admitChain) = t

\* _countActiveTasks: the critical section starts with list().
AdmitCount(t) ==
  /\ AdmitTurn(t)
  /\ Goto(t, "admission", "counting")
  /\ counted' = List(Active)
  /\ UNCHANGED <<body, retryCount, storeVars, handleVars, admitChain,
                 slotVars, cancels, sweepVars, shutVars>>

NumCounted == Cardinality({u \in counted : Still(u, Active)})

\* TaskLimitExceededError: the chain goes on with the next submit.
AdmitRefuse(t) ==
  /\ NumCounted >= MaxTasks
  /\ Goto(t, "counting", "refused")
  /\ admitChain' = Tail(admitChain)
  /\ counted' = {}
  /\ UNCHANGED <<body, retryCount, storeVars, handleVars, slotVars, cancels,
                 sweepVars, shutVars>>

AdmitSave(t) ==
  /\ NumCounted < MaxTasks
  /\ Goto(t, "counting", "saving")
  /\ Save(t, "PENDING")
  /\ counted' = {}
  /\ UNCHANGED <<body, retryCount, handleVars, admitChain, slotVars, cancels,
                 sweepVars, shutVars>>

\* The list() or the save() of the admission section rejects.
AdmitReject(t) ==
  /\ FlakyStore
  /\ Goto(t, "counting", "refused")
  /\ admitChain' = Tail(admitChain)
  /\ counted' = {}
  /\ UNCHANGED <<body, retryCount, storeVars, handleVars, slotVars, cancels,
                 sweepVars, shutVars>>

\* The save has settled: the handle is registered and _enqueue starts the
\* runner, which first awaits _buildTaskContext.
Enqueue(t) ==
  /\ Goto(t, "saving", "context")
  /\ admitChain' = Tail(admitChain)
  /\ internal' = internal \cup {t}
  /\ UNCHANGED <<body, retryCount, storeVars, cancelled, counted, slotVars,
                 cancels, sweepVars, shutVars>>

----------------------------------------------------------------------------
(* _acquireSlot() and _releaseSlot() *)

AcquireSlot(t) ==
  IF runningCount < MaxConcurrent
    THEN /\ runningCount' = runningCount + 1
         /\ pc' = [pc EXCEPT ![t] = "slot"]
         /\ UNCHANGED waitQueue
    ELSE /\ waitQueue' = Append(waitQueue, t)
         /\ pc' = [pc EXCEPT ![t] = "waiting"]
         /\ UNCHANGED runningCount

\* Mutant: the waiter is not woken.
ForgetfulReleaseSlot(t, next) ==
  /\ runningCount' = runningCount - 1
  /\ pc' = [pc EXCEPT ![t] = next]
  /\ UNCHANGED waitQueue

\* The runner of t goes to "next".  With a waiter, the decrement and the
\* waiter's own increment happen in the same turn.
ReleaseSlot(t, next) ==
  IF waitQueue = <<>>
    THEN /\ runningCount' = runningCount - 1
         /\ pc' = [pc EXCEPT ![t] = next]
         /\ UNCHANGED waitQueue
    ELSE /\ waitQueue' = Tail(waitQueue)
         /\ pc' = [pc EXCEPT ![t] = next, ![Head(waitQueue)] = "slot"]
         /\ UNCHANGED runningCount

----------------------------------------------------------------------------
(* The runner (run() inside _enqueue) *)

RunnerStarts(t) ==
  /\ pc[t] = "context"
  /\ AcquireSlot(t)
  /\ UNCHANGED <<body, retryCount, storeVars, handleVars, admitVars, cancels,
                 sweepVars, shutVars>>

\* The slot is granted.  internal.cancelled is tested, then get() is issued;
\* a missing record ends the runner.
SlotGranted(t) ==
  /\ IF t \in cancelled \/ t \notin stored
       THEN Goto(t, "slot", "drainEnd")
       ELSE Goto(t, "slot", "load")
  /\ UNCHANGED <<body, retryCount, storeVars, handleVars, admitVars, slotVars,
                 cancels, sweepVars, shutVars>>

\* A terminal record is not ours to advance.
AnyMayAdvance(t) == TRUE  \* mutant
MayAdvance(t) == status[t] \in Active

LoadedTerminal(t) ==
  /\ status[t] \in Terminal
  /\ Goto(t, "load", "drainEnd")
  /\ UNCHANGED <<body, retryCount, storeVars, handleVars, admitVars, slotVars,
                 cancels, sweepVars, shutVars>>

\* A live object is tested and written in one turn; a copy was read earlier
\* than it is written back ("claim" lies between).
LoadedLive(t) ==
  /\ LiveStore /\ MayAdvance(t)
  /\ Goto(t, "load", "starting")
  /\ Save(t, "RUNNING")
  /\ UNCHANGED <<body, retryCount, handleVars, admitVars, slotVars, cancels,
                 sweepVars, shutVars>>

LoadedCopy(t) ==
  /\ ~LiveStore /\ MayAdvance(t)
  /\ Goto(t, "load", "claim")
  /\ UNCHANGED <<body, retryCount, storeVars, handleVars, admitVars, slotVars,
                 cancels, sweepVars, shutVars>>

Claim(t) ==
  /\ Goto(t, "claim", "starting")
  /\ Save(t, "RUNNING")
  /\ UNCHANGED <<body, retryCount, handleVars, admitVars, slotVars, cancels,
                 sweepVars, shutVars>>

\* executor.call() is invoked; it may refuse before the body starts.
CallExecutor(t) ==
  /\ Goto(t, "starting", "executing")
  /\ body' = [body EXCEPT ![t] = "none"]
  /\ UNCHANGED <<retryCount, storeVars, handleVars, admitVars, slotVars,
                 cancels, sweepVars, shutVars>>

BodyStarts(t) ==
  /\ pc[t] = "executing" /\ body[t] = "none"
  /\ body' = [body EXCEPT ![t] = "running"]
  /\ UNCHANGED <<pc, retryCount, storeVars, handleVars, admitVars, slotVars,
                 cancels, sweepVars, shutVars>>

BodyEnds(t) ==
  /\ body[t] = "running"
  /\ body' = [body EXCEPT ![t] = "done"]
  /\ UNCHANGED <<pc, retryCount, storeVars, handleVars, admitVars, slotVars,
                 cancels, sweepVars, shutVars>>

\* executor.call() resolves: unless flagged, _isStoredTerminal is asked
\* before COMPLETED is written.  Its get() finds the record or null.
CallResolves(t) ==
  /\ body[t] = "done"
  /\ Goto(t, "executing", IF t \in cancelled THEN "drainEnd"
                          ELSE IF t \in stored THEN "doneRead"
                          ELSE "complete")
  /\ UNCHANGED <<body, retryCount, storeVars, handleVars, admitVars, slotVars,
                 cancels, sweepVars, shutVars>>

RetryLeft(t) == retryCount[t] < MaxRetries

\* What the runner does with a failed attempt: the flag, then the retry
\* budget, then _isStoredTerminal before the write.
AfterFailure(t) ==
  IF t \in cancelled THEN "drainEnd"
  ELSE IF RetryLeft(t)
       THEN IF t \in stored THEN "retryRead" ELSE "requeue"
       ELSE IF t \in stored THEN "failRead" ELSE "fail"

\* executor.call() rejects: the module threw, or a timeout or a cancel gave
\* up on a body that is still running.
CallRejects(t) ==
  /\ Goto(t, "executing", AfterFailure(t))
  /\ UNCHANGED <<body, retryCount, storeVars, handleVars, admitVars, slotVars,
                 cancels, sweepVars, shutVars>>

\* _isStoredTerminal evaluates the status; its caller resumes a turn later.
IsStoredTerminal(t) ==
  /\ \E p \in {<<"doneRead", "complete">>, <<"retryRead", "requeue">>,
               <<"failRead", "fail">>} :
       Goto(t, p[1], IF status[t] \in Terminal THEN "drainEnd" ELSE p[2])
  /\ UNCHANGED <<body, retryCount, storeVars, handleVars, admitVars, slotVars,
                 cancels, sweepVars, shutVars>>

CompleteTask(t) ==
  /\ Goto(t, "complete", "drainEnd")
  /\ Save(t, "COMPLETED")
  /\ UNCHANGED <<body, retryCount, handleVars, admitVars, slotVars, cancels,
                 sweepVars, shutVars>>

\* The attempt is requeued: retryCount + 1 and PENDING, then the drain.
RequeueTask(t) ==
  /\ Goto(t, "requeue", "drainRetry")
  /\ Save(t, "PENDING")
  /\ retryCount' = [retryCount EXCEPT ![t] = @ + 1]
  /\ UNCHANGED <<body, handleVars, admitVars, slotVars, cancels, sweepVars,
                 shutVars>>

FailTask(t) ==
  /\ Goto(t, "fail", "drainEnd")
  /\ Save(t, "FAILED")
  /\ UNCHANGED <<body, retryCount, handleVars, admitVars, slotVars, cancels,
                 sweepVars, shutVars>>

\* A get() or a save() of the runner rejects.  Those of COMPLETED are inside
\* the attempt's try block and count as a failed attempt; the others leave the
\* loop through finally.
StoreRejects(t) ==
  /\ FlakyStore
  /\ \/ \E p \in {"doneRead", "complete"} : Goto(t, p, AfterFailure(t))
     \/ \E p \in {"load", "claim", "retryRead", "requeue", "failRead", "fail"} : Goto(t, p, "drainEnd")
  /\ UNCHANGED <<body, retryCount, storeVars, handleVars, admitVars, slotVars,
                 cancels, sweepVars, shutVars>>

\* cancelToken.drain() settles when no tracked body of the task runs.
Drained(t) == body[t] # "running"

\* cancelToken.drain() has waited for the attempt's body: the slot is given
\* back and the backoff sleep starts.
DrainedForRetry(t) ==
  /\ pc[t] = "drainRetry" /\ Drained(t)
  /\ ReleaseSlot(t, "backoff")
  /\ UNCHANGED <<body, retryCount, storeVars, handleVars, admitVars, cancels,
                 sweepVars, shutVars>>

\* The sleep ends by its timer or by the token's abort.
BackoffEnds(t) ==
  /\ pc[t] = "backoff"
  /\ IF t \in cancelled
       THEN pc' = [pc EXCEPT ![t] = "drainFree"] /\ UNCHANGED slotVars
       ELSE AcquireSlot(t)
  /\ UNCHANGED <<body, retryCount, storeVars, handleVars, admitVars, cancels,
                 sweepVars, shutVars>>

\* Mutant: the slot is released whether it is held or not.
CarelessRunnerEnds(t) ==
  /\ Drained(t) /\ pc[t] \in {"drainEnd", "drainFree"}
  /\ ReleaseSlot(t, "ended")
  /\ internal' = internal \ {t}
  /\ UNCHANGED <<body, retryCount, storeVars, cancelled, admitVars, cancels,
                 sweepVars, shutVars>>

\* finally: drain, release the slot when held, drop the handle.
RunnerEnds(t) ==
  /\ Drained(t)
  /\ \/ pc[t] = "drainEnd" /\ ReleaseSlot(t, "ended")
     \/ Goto(t, "drainFree", "ended") /\ UNCHANGED slotVars
  /\ internal' = internal \ {t}
  /\ UNCHANGED <<body, retryCount, storeVars, cancelled, admitVars, cancels,
                 sweepVars, shutVars>>

----------------------------------------------------------------------------
(* cancel() *)

\* The get() of cancel() is issued.  A call that will return false without
\* any effect (no record, or a copy that is terminal) is not represented.
CancelCall(t) ==
  /\ "cancel" \in Calls
  /\ t \in List(Active)
  /\ cancels' = cancels \cup {<<"user", t>>}
  /\ UNCHANGED <<taskVars, storeVars, handleVars, admitVars, slotVars,
                 sweepVars, shutVars>>

\* It resumes: the handle is flagged and its token aborted when there is
\* one, and CANCELLED is written, all in one turn.
CancelResume(c) ==
  /\ c \in cancels
  /\ cancels' = cancels \ {c}
  /\ LET t == c[2] IN
       IF Still(t, Active)
         THEN /\ cancelled' = cancelled \cup ({t} \cap internal)
              /\ Save(t, "CANCELLED")
         ELSE UNCHANGED <<cancelled, storeVars>>
  /\ UNCHANGED <<taskVars, internal, admitVars, slotVars, sweepVars, shutVars>>

\* Its get() rejects, or its save() after the handle was flagged.
CancelRejects(c) ==
  /\ FlakyStore /\ c \in cancels
  /\ cancels' = cancels \ {c}
  /\ cancelled' \in {cancelled, cancelled \cup ({c[2]} \cap internal)}
  /\ UNCHANGED <<taskVars, storeVars, internal, admitVars, slotVars,
                 sweepVars, shutVars>>

\* Another process that shares the store cancels the task.
PeerCancel(t) ==
  /\ "peer" \in Calls
  /\ t \in ActiveTasks
  /\ Save(t, "CANCELLED")
  /\ UNCHANGED <<taskVars, handleVars, admitVars, slotVars, cancels,
                 sweepVars, shutVars>>

----------------------------------------------------------------------------
(* cleanup() and the reaper *)

CleanupCall ==
  /\ "cleanup" \in Calls
  /\ cleaning = {}
  /\ cleaning' = List(Terminal)
  /\ UNCHANGED <<taskVars, storeVars, handleVars, admitVars, slotVars,
                 cancels, reaper, sweep, shutVars>>

\* The status is looked at when the loop reaches the record.
CleanupDeletes(t) == Still(t, Terminal)

\* The loop looks at one listed record: a terminal one that is old enough is
\* deleted, its handle a turn later but before anyone can ask for it; any other
\* is passed over.
CleanupStep(t) ==
  /\ t \in cleaning
  /\ cleaning' = cleaning \ {t}
  /\ \/ CleanupDeletes(t) /\ Delete(t)
     \/ UNCHANGED <<stored, internal>>
  /\ UNCHANGED <<taskVars, status, cancelled, admitVars, slotVars, cancels,
                 reaper, sweep, shutVars>>

\* startReaper() throws REAPER_ALREADY_RUNNING unless there is no handle.
StartReaper ==
  /\ "reaper" \in Calls
  /\ reaper = "off"
  /\ reaper' = "armed"
  /\ UNCHANGED <<taskVars, storeVars, handleVars, admitVars, slotVars,
                 cancels, cleaning, sweep, shutVars>>

\* The timer fires: listExpired() returns the terminal records that are old
\* enough.  The timer is armed again only when the sweep ends.
SweepStarts ==
  /\ reaper = "armed" /\ sweep = NoSweep
  /\ sweep' \in SUBSET {t \in stored : status[t] \in Terminal}
  /\ UNCHANGED <<taskVars, storeVars, handleVars, admitVars, slotVars,
                 cancels, cleaning, reaper, shutVars>>

SweepDeletes(t) ==
  /\ t \in sweep
  /\ sweep' = sweep \ {t}
  /\ Delete(t)
  /\ UNCHANGED <<taskVars, status, cancelled, admitVars, slotVars, cancels,
                 cleaning, reaper, shutVars>>

\* Mutant: the timer is armed again after stop().
RearmingSweepEnds ==
  /\ sweep = {}
  /\ sweep' = NoSweep /\ reaper' = "armed"
  /\ UNCHANGED <<taskVars, storeVars, handleVars, admitVars, slotVars,
                 cancels, cleaning, shutVars>>

SweepEnds ==
  /\ sweep = {}
  /\ sweep' = NoSweep
  /\ UNCHANGED <<taskVars, storeVars, handleVars, admitVars, slotVars,
                 cancels, cleaning, reaper, shutVars>>

\* ReaperHandle.stop(): the timer is cleared, a running sweep goes on.
StopReaper ==
  /\ reaper = "armed"
  /\ reaper' = "stopping"
  /\ UNCHANGED <<taskVars, storeVars, handleVars, admitVars, slotVars,
                 cancels, cleaning, sweep, shutVars>>

SweepSettled == sweep = NoSweep

\* stop() settles once the active sweep has: the handle is forgotten, and a
\* shutdown() that awaits it may go on.
ReaperStopped ==
  /\ reaper = "stopping" /\ SweepSettled
  /\ reaper' = "off"
  /\ shutdown' = IF shutdown = "reaper" THEN "flag" ELSE shutdown
  /\ UNCHANGED <<taskVars, storeVars, handleVars, admitVars, slotVars,
                 cancels, cleaning, sweep, shutList, awaited, atCall>>

----------------------------------------------------------------------------
(* shutdown() *)

\* The reaper is stopped first.
ShutdownCall ==
  /\ "shutdown" \in Calls
  /\ shutdown = "idle"
  /\ atCall' = ActiveTasks
  /\ IF reaper = "off"
       THEN shutdown' = "flag" /\ UNCHANGED reaper
       ELSE shutdown' = "reaper" /\ reaper' = "stopping"
  /\ UNCHANGED <<taskVars, storeVars, handleVars, admitVars, slotVars,
                 cancels, cleaning, sweep, shutList, awaited>>

\* The workers are remembered, every handle is flagged, list() is issued.
ShutdownFlags ==
  /\ shutdown = "flag"
  /\ shutdown' = "list"
  /\ awaited' = Workers
  /\ cancelled' = cancelled \cup internal
  /\ shutList' = List(Active)
  /\ UNCHANGED <<taskVars, storeVars, internal, admitVars, slotVars, cancels,
                 sweepVars, atCall>>

\* cancel() is called for every listed task that is active.
ShutdownCancels ==
  /\ shutdown = "list"
  /\ shutdown' = "wait"
  /\ cancels' = cancels \cup
        {<<"shutdown", t>> : t \in {u \in shutList : Still(u, Active)} \cap List(Active)}
  /\ shutList' = {}
  /\ UNCHANGED <<taskVars, storeVars, handleVars, admitVars, slotVars,
                 sweepVars, awaited, atCall>>

\* list() rejects: the workers are still awaited, then the error is thrown.
ShutdownListRejects ==
  /\ FlakyStore /\ shutdown = "list"
  /\ shutdown' = "wait"
  /\ shutList' = {}
  /\ UNCHANGED <<taskVars, storeVars, handleVars, admitVars, slotVars, cancels,
                 sweepVars, awaited, atCall>>

IgnoresCancels == TRUE  \* mutant
CancelsSettled == \A c \in cancels : c[1] # "shutdown"

\* Every cancel() has settled, then every remembered worker.
ShutdownReturns ==
  /\ shutdown = "wait"
  /\ CancelsSettled
  /\ awaited \cap Workers = {}
  /\ shutdown' = "done"
  /\ UNCHANGED <<taskVars, storeVars, handleVars, admitVars, slotVars, cancels,
                 sweepVars, shutList, awaited, atCall>>

----------------------------------------------------------------------------
(* Specification *)

Init ==
  /\ pc = [t \in Tasks |-> "new"]
  /\ body = [t \in Tasks |-> "none"]
  /\ retryCount = [t \in Tasks |-> 0]
  /\ status = [t \in Tasks |-> "PENDING"]
  /\ stored = {} /\ internal = {} /\ cancelled = {}
  /\ admitChain = <<>> /\ counted = {}
  /\ runningCount = 0 /\ waitQueue = <<>>
  /\ cancels = {} /\ cleaning = {}
  /\ reaper = "off" /\ sweep = NoSweep
  /\ shutdown = "idle" /\ shutList = {} /\ awaited = {} /\ atCall = {}

Admission(t) == AdmitCount(t) \/ AdmitRefuse(t) \/ AdmitSave(t)
                \/ AdmitReject(t) \/ Enqueue(t)

ExecutorStep(t) == CallResolves(t) \/ CallRejects(t)

RunnerStep(t) ==
  \/ RunnerStarts(t) \/ SlotGranted(t) \/ LoadedTerminal(t) \/ LoadedLive(t)
  \/ LoadedCopy(t) \/ Claim(t) \/ CallExecutor(t) \/ IsStoredTerminal(t)
  \/ CompleteTask(t) \/ RequeueTask(t) \/ FailTask(t) \/ StoreRejects(t)
  \/ DrainedForRetry(t) \/ BackoffEnds(t) \/ RunnerEnds(t)

TaskStep(t) ==
  \/ Submit(t) \/ Admission(t) \/ RunnerStep(t) \/ ExecutorStep(t)
  \/ BodyStarts(t) \/ BodyEnds(t)

CancelStep ==
  \/ \E t \in Tasks : CancelCall(t) \/ PeerCancel(t)
  \/ \E c \in cancels : CancelResume(c) \/ CancelRejects(c)

SweepStep ==
  \/ CleanupCall \/ StartReaper \/ SweepStarts \/ SweepEnds \/ StopReaper
  \/ ReaperStopped
  \/ \E t \in Tasks : CleanupStep(t) \/ SweepDeletes(t)

ShutdownStep ==
  \/ ShutdownCall \/ ShutdownFlags \/ ShutdownCancels \/ ShutdownListRejects
  \/ ShutdownReturns

Next == (\E t \in Tasks : TaskStep(t)) \/ CancelStep \/ SweepStep \/ ShutdownStep

Spec == Init /\ [][Next]_vars

(***************************************************************************)
(* Promise callbacks always run; an executor call settles and a module body *)
(* ends (a body that ignores its token forever blocks drain(), as the       *)
(* comment of CancelToken.drain says).  No fairness on submit(), cancel()   *)
(* or any other call of the environment.                                    *)
(***************************************************************************)
Fairness ==
  /\ \A t \in Tasks :
       /\ WF_vars(Admission(t))
       /\ WF_vars(RunnerStep(t))
       /\ WF_vars(ExecutorStep(t))
       /\ WF_vars(BodyEnds(t))
       /\ WF_vars(CancelResume(<<"shutdown", t>>))
  /\ WF_vars(\E t \in Tasks : SweepDeletes(t))
  /\ WF_vars(SweepEnds) /\ WF_vars(ReaperStopped)
  /\ WF_vars(ShutdownFlags) /\ WF_vars(ShutdownCancels \/ ShutdownListRejects)
  /\ WF_vars(ShutdownReturns)

FairSpec == Spec /\ Fairness
----------------------------------------------------------------------------
(* Properties *)

\* Every variable keeps its type; a retry budget is never exceeded.
TypeOK ==
  /\ pc \in [Tasks -> Pcs]
  /\ status \in [Tasks -> Status]
  /\ stored \subseteq Tasks
  /\ retryCount \in [Tasks -> 0..MaxRetries]
  /\ body \in [Tasks -> {"none", "running", "done"}]
  /\ internal \subseteq Tasks
  /\ cancelled \subseteq Tasks
  /\ admitChain \in Seq(Tasks)
  /\ counted \subseteq Tasks
  /\ runningCount \in 0..MaxConcurrent
  /\ waitQueue \in Seq(Tasks)
  /\ cancels \subseteq {"user", "shutdown"} \X Tasks
  /\ cleaning \subseteq Tasks
  /\ reaper \in {"off", "armed", "stopping"}
  /\ sweep = NoSweep \/ sweep \subseteq Tasks
  /\ shutdown \in {"idle", "reaper", "flag", "list", "wait", "done"}
  /\ shutList \subseteq Tasks /\ awaited \subseteq Tasks /\ atCall \subseteq Tasks

\* _runningCount is the number of runners that own a slot, through retries,
\* hand-offs, early returns and cancels: no slot is leaked or counted twice.
SlotsConserved ==
  /\ runningCount = Cardinality(Holders)
  /\ runningCount <= MaxConcurrent

\* A runner is in _waitQueue exactly while it waits in _acquireSlot, once,
\* and nobody waits while a slot is free: no wake-up of _releaseSlot is lost.
NoLostWakeup ==
  /\ \A i, j \in DOMAIN waitQueue : waitQueue[i] = waitQueue[j] => i = j
  /\ {waitQueue[i] : i \in DOMAIN waitQueue} = {t \in Tasks : pc[t] = "waiting"}
  /\ waitQueue # <<>> => runningCount = MaxConcurrent

\* A module body that runs, one that a timeout or a cancel gave up on
\* included, belongs to a runner that still owns its slot: no retry and no
\* other task overlaps an attempt's finalizers.
BodiesHoldSlots == \A t \in Tasks : body[t] = "running" => t \in Holders

\* The limiter does what TaskSlots promises, in FIFO order.
Slots == INSTANCE TaskSlots WITH holders <- Holders, queue <- waitQueue
SlotsImplemented == Slots!Spec

\* submit()'s count-then-save never admits more than MaxTasks active tasks,
\* whatever completes, is cancelled or deleted between the two (no retries,
\* live store).
AdmissionCap == Cardinality(ActiveTasks) <= MaxTasks

\* What a runner, a cancel() and the deletions that race them leave of a
\* task: a terminal record never becomes active again, COMPLETED and FAILED
\* are final, and cleanup() and the reaper, whose lists are stale by the time
\* of the delete, never delete the record of an active task.
OutcomesStay ==
  [][/\ \A t \in Tasks : status[t] \in Terminal =>
          /\ status'[t] \in Terminal
          /\ status[t] # "CANCELLED" => status'[t] = status[t]
     /\ ActiveTasks \subseteq stored']_vars

\* "a cancel that landed while the attempt was failing must not be
\* resurrected as PENDING" (comment before the requeueing write of run()).
CancelledNotRequeued ==
  [][\A t \in Tasks : status[t] = "CANCELLED" => status'[t] # "PENDING"]_vars

\* No record is left PENDING or RUNNING with no runner to finish it, except
\* by a shutdown() that is about to cancel it.
NoOrphan ==
  \A t \in ActiveTasks : pc[t] = "ended" => shutdown \in {"list", "wait"}

\* While a runner works on a task nobody has cancelled, its handle is in
\* _internal, so that cancel() and shutdown() can still abort it; deleting
\* old records never takes the handle of live work.
LiveWorkHasHandle ==
  \A t \in Workers \ cancelled :
    pc[t] # "drainEnd" /\ status[t] \in Active => t \in internal

\* "every task that was PENDING or RUNNING at the time of the call will be"
\* terminal when shutdown() returns (comment of cancel()); and until then no
\* record is orphaned.
ShutdownSettles ==
  NoOrphan /\ (shutdown = "done" => atCall \cap ActiveTasks = {})

\* Every submitted task is refused or its runner ends: no wait for a slot,
\* a body, a backoff or the admission section is forever.
EveryTaskEnds ==
  \A t \in Tasks : pc[t] = "admission" ~> pc[t] \in {"refused", "ended"}

\* shutdown() returns and a stopped reaper is forgotten.
ShutdownReturnsEventually ==
  /\ shutdown \in {"reaper", "flag"} ~> shutdown = "done"
  /\ reaper = "stopping" ~> reaper = "off"

\* What a submission admits stays within the cap and in reach of cancel(), and
\* runs on a slot it owns.
AdmissionSound == AdmissionCap /\ LiveWorkHasHandle /\ BodiesHoldSlots

\* Whatever was begun comes to an end.
Terminates == EveryTaskEnds /\ ShutdownReturnsEventually
=============================================================================
