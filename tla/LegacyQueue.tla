---------------------------- MODULE LegacyQueue -----------------------------
(***************************************************************************)
(* Legacy webhooks: webhooks/legacy.go, run by a daemon whose life is      *)
(* ServerRun on a work queue that is Dowork.                               *)
(*                                                                         *)
(* Unlike WebhookQueue, the handler only fetches the subscriptions: the    *)
(* delivery records are prepared by a task of the same queue, which then   *)
(* enqueues one more task for each record.  Task <<c, 0>> prepares call c, *)
(* task <<c, k>> delivers to its k-th subscription; as in WebhookQueue the *)
(* subscription, its record and its task share that name.                  *)
(***************************************************************************)
EXTENDS Naturals

CONSTANTS
  Calls,        \* the calls of Schedule
  MaxSubs,      \* bound on the subscriptions one call fetches
  MaxAttempts,  \* attempts that Retries(5) allows a delivery task
  None

ASSUME BoundsAssumption ==
  /\ MaxSubs \in Nat \ {0}
  /\ MaxAttempts \in Nat \ {0}

Tasks == Calls \X (0..MaxSubs)
Deliveries == Calls \X (1..MaxSubs)

ASSUME NoneAssumption == None \notin Tasks

VARIABLES
  phase, overran,                         \* the daemon (ServerRun)
  accepting, queue, running, attempts,    \* its work queue (Dowork)
  pc,           \* where each call of Schedule is
  subs,         \* len(subs): how many subscriptions it fetched
  i,            \* index of the running preparation task's loop
  record,       \* the delivery table: response class by record, or "absent"
  step,         \* where the goroutine is in the running task
  answer,       \* resp.StatusCode of the attempt under way
  dropped       \* history: recorded deliveries whose task no longer exists
                \* though nothing settled it

serverVars == <<phase, overran>>
queueVars == <<accepting, queue, running, attempts>>
callVars == <<pc, subs>>
taskVars == <<i, step, answer>>
vars == <<serverVars, queueVars, callVars, record, taskVars, dropped>>

Server == INSTANCE ServerRun
Queue == INSTANCE Dowork

\* "fetched": the handler has the subscriptions and is about to enqueue the
\* preparation task; the others are those of WebhookQueue.
PCs == {"none", "handling", "fetched", "returned", "lost"}

InFlight(c) == pc[c] \in {"handling", "fetched"}

\* "stage2", "enqueue": in a preparation task; the others in deliverPayload.
Steps == {"idle", "stage2", "enqueue", "request", "answered", "recorded"}

TypeOK ==
  /\ Server!TypeOK
  /\ Queue!TypeOK
  /\ pc \in [Calls -> PCs]
  /\ subs \in [Calls -> 0..MaxSubs]
  /\ i \in 1..(MaxSubs + 1)
  /\ record \in [Deliveries -> {"absent", "unset", "retry", "final"}]
  /\ step \in Steps
  /\ answer \in {"none", "retry", "final"}
  /\ dropped \subseteq Deliveries

Recorded(d) == record[d] # "absent"

\* The call whose preparation task is running, and its subscriptions.
Call == running[1]
Batch == {d \in Deliveries : d[1] = Call /\ d[2] <= subs[Call]}

\* Committed deliveries that the preparation task has still to enqueue.
Unqueued == IF step = "enqueue" THEN {d \in Batch : i <= d[2]} ELSE {}

Init ==
  /\ Server!Init
  /\ Queue!Init
  /\ pc = [c \in Calls |-> "none"]
  /\ subs = [c \in Calls |-> 0]
  /\ i = 1
  /\ record = [d \in Deliveries |-> "absent"]
  /\ step = "idle"
  /\ answer = "none"
  /\ dropped = {}

-----------------------------------------------------------------------------
(***************************************************************************)
(* Schedule, in the handler's goroutine                                    *)
(***************************************************************************)

Arrive(c) ==
  /\ phase = "running"
  /\ pc[c] = "none"
  /\ pc' = [pc EXCEPT ![c] = "handling"]
  /\ UNCHANGED <<serverVars, queueVars, subs, record, taskVars, dropped>>

\* fetchSubscriptions: n subscriptions list the event, the LIKE clause's false
\* positives having been weeded out.
FetchSubscriptions(c, n) ==
  /\ pc[c] = "handling"
  /\ pc' = [pc EXCEPT ![c] = IF n = 0 THEN "returned" ELSE "fetched"]
  /\ subs' = [subs EXCEPT ![c] = n]
  /\ UNCHANGED <<serverVars, queueVars, record, taskVars, dropped>>

\* The query fails and Schedule panics; the handler recovers.
FetchPanics(c) ==
  /\ pc[c] = "handling"
  /\ pc' = [pc EXCEPT ![c] = "returned"]
  /\ UNCHANGED <<serverVars, queueVars, subs, record, taskVars, dropped>>

\* lq.Queue.Enqueue(task), its error ignored: a refused call leaves no trace.
EnqueuePrepare(c) ==
  /\ pc[c] = "fetched"
  /\ \/ Queue!Enqueue(<<c, 0>>)
     \/ ~accepting /\ UNCHANGED queueVars
  /\ pc' = [pc EXCEPT ![c] = "returned"]
  /\ UNCHANGED <<serverVars, subs, record, taskVars, dropped>>

Schedule(c) ==
  \/ \E n \in 0..MaxSubs : FetchSubscriptions(c, n)
  \/ FetchPanics(c)
  \/ EnqueuePrepare(c)

-----------------------------------------------------------------------------
(***************************************************************************)
(* The tasks, in the queue's goroutine                                     *)
(***************************************************************************)

Idle == step' = "idle" /\ answer' = "none" /\ i' = 1

Attempt(t) ==
  /\ Queue!Attempt(t)
  /\ step' = IF t[2] = 0 THEN "stage2" ELSE "request"
  /\ UNCHANGED <<serverVars, callVars, record, i, answer, dropped>>

\* Mutant: the loop does not stop at the last subscription.
QueueStage2PastTheEnd ==
  /\ step = "stage2"
  /\ i' = i + 1
  /\ UNCHANGED <<serverVars, queueVars, callVars, record, step, answer, dropped>>

\* queueStage2 inserts the next record, visible to nobody before the commit.
QueueStage2 ==
  /\ step = "stage2"
  /\ i <= subs[Call]
  /\ i' = i + 1
  /\ UNCHANGED <<serverVars, queueVars, callVars, record, step, answer, dropped>>

\* Beginning the transaction or an insert fails: it is rolled back, and the
\* task, which was given no Retries, is over.
Stage2Fails ==
  /\ step = "stage2"
  /\ i <= subs[Call]
  /\ Queue!Fail(1)
  /\ Idle
  /\ UNCHANGED <<serverVars, callVars, record, dropped>>

\* An error of tx.Commit panics in the queue's goroutine; that end of the
\* process is Kill, before or after this step.
Commit ==
  /\ step = "stage2"
  /\ i > subs[Call]
  /\ record' = [d \in Deliveries |-> IF d \in Batch THEN "unset" ELSE record[d]]
  /\ step' = "enqueue"
  /\ i' = 1
  /\ UNCHANGED <<serverVars, queueVars, callVars, answer, dropped>>

\* Mutant: a refused task ends the loop.
EnqueueTaskUntilRefused ==
  /\ step = "enqueue"
  /\ i <= subs[Call]
  /\ \/ /\ Queue!Enqueue(<<Call, i>>)
        /\ i' = i + 1
        /\ UNCHANGED <<step, answer, dropped>>
     \/ /\ ~accepting
        /\ dropped' = dropped \cup {<<Call, i>>}
        /\ Queue!Done
        /\ Idle
  /\ UNCHANGED <<serverVars, callVars, record>>

\* lq.Queue.Enqueue(task) in the loop over the tasks, its error ignored.
EnqueueTask ==
  /\ step = "enqueue"
  /\ i <= subs[Call]
  /\ \/ /\ Queue!Enqueue(<<Call, i>>)
        /\ UNCHANGED dropped
     \/ /\ ~accepting
        /\ dropped' = dropped \cup {<<Call, i>>}
        /\ UNCHANGED queueVars
  /\ i' = i + 1
  /\ UNCHANGED <<serverVars, callVars, record, step, answer>>

\* The preparation task returns nil.
Prepared ==
  /\ step = "enqueue"
  /\ i > subs[Call]
  /\ Queue!Done
  /\ Idle
  /\ UNCHANGED <<serverVars, callVars, record, dropped>>

Prepare ==
  \/ QueueStage2
  \/ Stage2Fails
  \/ Commit
  \/ EnqueueTask
  \/ Prepared

\* http.NewRequestWithContext rejects the subscription's URL, on the first
\* attempt or never: do not retry.
BadRequest ==
  /\ step = "request"
  /\ attempts[running] = 1
  /\ Queue!Done
  /\ Idle
  /\ UNCHANGED <<serverVars, callVars, record, dropped>>

\* client.Do fails or times out.
PostFails ==
  /\ step = "request"
  /\ Queue!Fail(MaxAttempts)
  /\ Idle
  /\ UNCHANGED <<serverVars, callVars, record, dropped>>

\* The body of the answer cannot be read: do not retry.
BodyUnreadable ==
  /\ step = "request"
  /\ Queue!Done
  /\ Idle
  /\ UNCHANGED <<serverVars, callVars, record, dropped>>

PostAnswered(a) ==
  /\ step = "request"
  /\ step' = "answered"
  /\ answer' = a
  /\ UNCHANGED <<serverVars, queueVars, callVars, record, i, dropped>>

\* Mutant: the answer is written into every record of the call.
UpdateRecordsOfCall ==
  /\ step = "answered"
  /\ record' = [d \in Deliveries |-> IF d \in Batch THEN answer ELSE record[d]]
  /\ step' = "recorded"
  /\ UNCHANGED <<serverVars, queueVars, callVars, i, answer, dropped>>

\* The transaction that writes the response into the record.
UpdateRecord ==
  /\ step = "answered"
  /\ record' = [record EXCEPT ![running] = answer]
  /\ step' = "recorded"
  /\ UNCHANGED <<serverVars, queueVars, callVars, i, answer, dropped>>

\* Mutant: it failed, and the delivery is sent again to have an answer to write.
UpdateFailsPostsAgain ==
  /\ step = "answered"
  /\ step' = "request"
  /\ answer' = "none"
  /\ UNCHANGED <<serverVars, queueVars, callVars, record, i, dropped>>

\* It failed: deliverPayload returns nil, whatever the answer was.
UpdateFails ==
  /\ step = "answered"
  /\ Queue!Done
  /\ Idle
  /\ UNCHANGED <<serverVars, callVars, record, dropped>>

\* deliverPayload returns: an error for 502, 503 and 504, otherwise nil.
Return ==
  /\ step = "recorded"
  /\ IF answer = "retry" THEN Queue!Fail(MaxAttempts) ELSE Queue!Done
  /\ Idle
  /\ UNCHANGED <<serverVars, callVars, record, dropped>>

DeliverPayload ==
  \/ BadRequest
  \/ PostFails
  \/ BodyUnreadable
  \/ \E a \in {"retry", "final"} : PostAnswered(a)
  \/ UpdateRecord
  \/ UpdateFails
  \/ Return

-----------------------------------------------------------------------------
(***************************************************************************)
(* The daemon around them                                                  *)
(***************************************************************************)

\* Mutant: the queues are closed before the handlers are done.
InterruptClosesQueue ==
  /\ Server!Interrupt
  /\ Queue!Refuse
  /\ UNCHANGED <<callVars, record, taskVars, dropped>>

Interrupt ==
  /\ Server!Interrupt
  /\ UNCHANGED <<queueVars, callVars, record, taskVars, dropped>>

\* Run goes on from qserver.Shutdown to work.Join, which closes the queue;
\* others: handlers are left that trigger no webhook.
ShutdownReturns ==
  /\ \E others \in BOOLEAN :
       Server!ShutdownReturns(others \/ \E c \in Calls : InFlight(c))
  /\ Queue!Refuse
  /\ UNCHANGED <<callVars, record, taskVars, dropped>>

\* The process is gone, and with it the handlers and the tasks; a call whose
\* preparation task was waiting leaves no record to show for it.
ProcessEnds ==
  /\ Queue!Lose
  /\ Idle
  /\ pc' = [c \in Calls |-> IF InFlight(c) THEN "lost" ELSE pc[c]]
  /\ dropped' = dropped \cup (queue \cap Deliveries) \cup Unqueued
  /\ UNCHANGED <<subs, record>>

JoinReturns ==
  /\ Server!JoinReturns(Queue!Drained)
  /\ ProcessEnds

Kill ==
  /\ Server!Kill
  /\ ProcessEnds

Restart ==
  /\ Server!Restart
  /\ Queue!Reopen
  /\ UNCHANGED <<callVars, record, taskVars, dropped>>

Next ==
  \/ \E c \in Calls : Arrive(c) \/ Schedule(c)
  \/ \E t \in Tasks : Attempt(t)
  \/ Prepare
  \/ DeliverPayload
  \/ Interrupt
  \/ ShutdownReturns
  \/ JoinReturns
  \/ Kill
  \/ Restart

Spec == Init /\ [][Next]_vars

\* The fairness of WebhookQueue; the preparation runs in the same goroutine.
Fairness ==
  /\ WF_vars(\E t \in Tasks : Attempt(t))
  /\ WF_vars(Prepare)
  /\ WF_vars(DeliverPayload)
  /\ WF_vars(ShutdownReturns)
  /\ WF_vars(JoinReturns)

FairSpec == Spec /\ Fairness

-----------------------------------------------------------------------------
(***************************************************************************)
(* Properties                                                              *)
(***************************************************************************)

\* The standing of a delivery in the abstract ledger.
Standing(d) ==
  IF ~Recorded(d) THEN "absent"
  ELSE IF d \in dropped THEN "dropped"
  ELSE IF d \in queue \cup Unqueued THEN "pending"
  ELSE "settled"

Ledger == INSTANCE DeliveryLedger WITH
            ledger <- [d \in Deliveries |-> Standing(d)],
            tries <- [d \in Deliveries |-> attempts[d]]

\* The preparation task, the queue and deliverPayload together keep the
\* promise of DeliveryLedger: records of one call appear together and once,
\* before any POST; at most MaxAttempts attempts; no task goes without an
\* attempt or a drop.
ImplementsLedger == Ledger!Spec

\* Once a record holds a response other than 502, 503 and 504, the subscriber
\* is not sent the delivery again.
FinalEndsDelivery ==
  [][\A d \in Deliveries : record[d] = "final" => attempts'[d] = attempts[d]]_vars

\* A recorded delivery is dropped only by the death of the process or by the
\* queue that work.Join has closed: while the handlers are drained
\* (qserver.Shutdown) no task is refused.
DropsHaveACause ==
  [][dropped' # dropped => phase' = "killed" \/ phase = "joining"]_vars

\* Every call whose preparation task was accepted is prepared, and every
\* delivery reaches its end, unless the process dies.
EveryTaskEnds ==
  \A t \in Tasks : t \in queue ~> t \notin queue

\* A warm shutdown without a second SIGINT drops no task: "SIGINT again to
\* terminate immediately and drop pending requests & tasks"
\* (server/server.go:284).
WarmShutdownKeepsTasks ==
  [][(phase = "joining" /\ ~overran /\ phase' # "killed")
     => dropped' = dropped]_vars

\* "// Retry" (webhooks/legacy.go:260): a 502, 503 or 504 leaves the task in
\* the queue while it has attempts left.
RetryableAnswerIsRetried ==
  [][(answer = "retry" /\ answer' # "retry" /\ phase' # "killed"
        /\ attempts[running] < MaxAttempts)
     => running \in queue']_vars
=============================================================================
