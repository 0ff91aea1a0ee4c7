------------------------------- MODULE Dowork -------------------------------
(***************************************************************************)
(* One work queue of git.sr.ht/~sircmpwn/dowork, the library behind every  *)
(* background job of core-go.  It is external code: it is modelled from    *)
(* the way webhooks/, email/ and server/ use it and from the webhook test, *)
(* which calls Dispatch by hand.                                           *)
(*                                                                         *)
(*  - Enqueue returns an error (email/worker.go returns it, the webhook    *)
(*    queues ignore it) once the queue was told to shut down;              *)
(*  - a single goroutine, started by Start, attempts the tasks one at a    *)
(*    time; a task enqueued by a running task waits for a later pass;      *)
(*  - a failed task is attempted again until it was attempted `limit`      *)
(*    times (Retries), unless its error wraps ErrDoNotReattempt;           *)
(*  - Shutdown, called by work.Join, refuses new tasks and returns when    *)
(*    every accepted one is done.                                          *)
(*                                                                         *)
(* The back-off between two attempts is left out, so the order in which    *)
(* waiting tasks come up is arbitrary and the task list is a set.          *)
(***************************************************************************)
EXTENDS Naturals

CONSTANTS
  Tasks,        \* the tasks that may ever be enqueued
  None          \* "no task is being attempted"

VARIABLES
  accepting,    \* Enqueue still takes tasks
  queue,        \* tasks enqueued and not done, the running one included
  running,      \* the task the queue's goroutine is attempting, or None
  attempts      \* how often each task was attempted

vars == <<accepting, queue, running, attempts>>

TypeOK ==
  /\ accepting \in BOOLEAN
  /\ queue \subseteq Tasks
  /\ running \in Tasks \cup {None}
  /\ attempts \in [Tasks -> Nat]

Init ==
  /\ accepting = TRUE
  /\ queue = {}
  /\ running = None
  /\ attempts = [t \in Tasks |-> 0]

\* Queue.Enqueue on a queue that accepts tasks.  The refusal is not an action:
\* it changes nothing, and its caller tests `accepting`.
Enqueue(t) ==
  /\ accepting
  /\ queue' = queue \cup {t}
  /\ UNCHANGED <<accepting, running, attempts>>

\* The goroutine picks a waiting task.
Attempt(t) ==
  /\ running = None
  /\ t \in queue
  /\ running' = t
  /\ attempts' = [attempts EXCEPT ![t] = @ + 1]
  /\ UNCHANGED <<accepting, queue>>

\* The task is done: its function returned nil, or an error wrapping
\* ErrDoNotReattempt.
Done ==
  /\ running # None
  /\ running' = None
  /\ queue' = queue \ {running}
  /\ UNCHANGED <<accepting, attempts>>

\* The task's function returned any other error.
Fail(limit) ==
  /\ running # None
  /\ running' = None
  /\ queue' = IF attempts[running] < limit THEN queue ELSE queue \ {running}
  /\ UNCHANGED <<accepting, attempts>>

\* First half of Shutdown: no more tasks.
Refuse ==
  /\ accepting' = FALSE
  /\ UNCHANGED <<queue, running, attempts>>

\* Second half of Shutdown: it returns when this holds.
Drained == queue = {}

\* The process ends: the tasks were in its memory only.
Lose ==
  /\ queue' = {}
  /\ running' = None
  /\ accepting' = FALSE
  /\ UNCHANGED attempts

\* A new process calls NewQueue.
Reopen ==
  /\ accepting' = TRUE
  /\ queue' = {}
  /\ running' = None
  /\ UNCHANGED attempts
=============================================================================
