----------------------------- MODULE TaskSlots -----------------------------
(***************************************************************************)
(* What the concurrency limiter of AsyncTaskManager promises (async-task.ts *)
(* _acquireSlot / _releaseSlot): at most MaxConcurrent tasks hold a slot,   *)
(* a task waits only while every slot is taken, and a released slot goes to *)
(* the task that has waited longest.  AsyncTask refines this specification. *)
(***************************************************************************)
EXTENDS Naturals, Sequences, FiniteSets

CONSTANTS Tasks, MaxConcurrent

VARIABLES holders,  \* the tasks that own a slot
          queue     \* the tasks waiting for one, longest first

vars == <<holders, queue>>

Queued == {queue[i] : i \in DOMAIN queue}

Init == holders = {} /\ queue = <<>>

\* A task takes a free slot.
Take(t) ==
  /\ t \notin holders \cup Queued
  /\ Cardinality(holders) < MaxConcurrent
  /\ holders' = holders \cup {t}
  /\ UNCHANGED queue

\* A task finds every slot taken and waits.
Wait(t) ==
  /\ t \notin holders \cup Queued
  /\ Cardinality(holders) = MaxConcurrent
  /\ queue' = Append(queue, t)
  /\ UNCHANGED holders

\* A holder gives its slot back and nobody waits.
Free(t) ==
  /\ t \in holders /\ queue = <<>>
  /\ holders' = holders \ {t}
  /\ UNCHANGED queue

\* A holder's slot passes directly to the head of the queue.
HandOver(t) ==
  /\ t \in holders /\ queue # <<>>
  /\ holders' = (holders \ {t}) \cup {Head(queue)}
  /\ queue' = Tail(queue)

Next == \E t \in Tasks : Take(t) \/ Wait(t) \/ Free(t) \/ HandOver(t)

Spec == Init /\ [][Next]_vars
=============================================================================
