---------------------------- MODULE WebhookQueue ----------------------------
(***************************************************************************)
(* GraphQL-native webhooks: webhooks/queue.go, run by a daemon whose life  *)
(* is ServerRun on a work queue that is Dowork.                            *)
(*                                                                         *)
(* A call of Schedule runs in an HTTP handler.  It fetches the             *)
(* subscriptions for the event, prepares every delivery in one             *)
(* transaction (queueStage2: execute the subscription's query, insert the  *)
(* delivery record), commits, and enqueues one task per record.  The       *)
(* queue's goroutine then runs deliverPayload for each task: POST, read    *)
(* the answer, write it into the record, and fail the task when the answer *)
(* is a 502, 503 or 504 so that it is attempted again.                     *)
(*                                                                         *)
(* The k-th subscription fetched by call c is <<c, k>>: a subscription,    *)
(* the delivery record for it and the task for it are one to one, so one   *)
(* name serves for the three.  A response is abstracted to its class:      *)
(* "retry" for the three codes above, "final" for every other one.         *)
(***************************************************************************)
EXTENDS Naturals

CONSTANTS
  Calls,        \* the calls of Schedule (each with its payload UUID)
  MaxSubs,      \* bound on the subscriptions one call fetches
  MaxAttempts,  \* attempts that Retries(5) allows a delivery task
  None

ASSUME BoundsAssumption ==
  /\ MaxSubs \in Nat \ {0}
  /\ MaxAttempts \in Nat \ {0}

Deliveries == Calls \X (1..MaxSubs)

ASSUME NoneAssumption == None \notin Deliveries

VARIABLES
  phase, overran,                         \* the daemon (ServerRun)
  accepting, queue, running, attempts,    \* its work queue (Dowork)
  pc,           \* where each call of Schedule is
  subs,         \* len(subs): how many subscriptions it fetched
  i,            \* index of its current loop over them
  record,       \* the delivery table: response class by record, or "absent"
  step,         \* where the goroutine is in deliverPayload
  answer,       \* resp.StatusCode of the attempt under way
  dropped       \* history: recorded deliveries whose task no longer exists
                \* though nothing settled it

serverVars == <<phase, overran>>
queueVars == <<accepting, queue, running, attempts>>
callVars == <<pc, subs, i>>
taskVars == <<step, answer>>
vars == <<serverVars, queueVars, callVars, record, taskVars, dropped>>

Server == INSTANCE ServerRun
Queue == INSTANCE Dowork WITH Tasks <- Deliveries

\* "none":     the request that will cause the call has not arrived
\* "handling": its handler runs and has not called Schedule yet
\* "stage2":   in the transaction that prepares the deliveries
\* "enqueue":  committed, handing the tasks to the queue
\* "returned": Schedule returned, with or without having logged an error
\* "lost":     the process ended under the handler
PCs == {"none", "handling", "stage2", "enqueue", "returned", "lost"}

InFlight(c) == pc[c] \in {"handling", "stage2", "enqueue"}

TypeOK ==
  /\ Server!TypeOK
  /\ Queue!TypeOK
  /\ pc \in [Calls -> PCs]
  /\ subs \in [Calls -> 0..MaxSubs]
  /\ i \in [Calls -> 1..(MaxSubs + 1)]
  /\ record \in [Deliveries -> {"absent", "unset", "retry", "final"}]
  /\ step \in {"idle", "request", "answered", "recorded"}
  /\ answer \in {"none", "retry", "final"}
  /\ dropped \subseteq Deliveries

Recorded(d) == record[d] # "absent"

\* Committed deliveries that their call has still to enqueue.
Unqueued ==
  {d \in Deliveries :
     pc[d[1]] = "enqueue" /\ i[d[1]] <= d[2] /\ d[2] <= subs[d[1]]}

Init ==
  /\ Server!Init
  /\ Queue!Init
  /\ pc = [c \in Calls |-> "none"]
  /\ subs = [c \in Calls |-> 0]
  /\ i = [c \in Calls |-> 1]
  /\ record = [d \in Deliveries |-> "absent"]
  /\ step = "idle"
  /\ answer = "none"
  /\ dropped = {}

-----------------------------------------------------------------------------
(***************************************************************************)
(* Schedule, in the handler's goroutine                                    *)
(***************************************************************************)

\* A request whose resolver will call Schedule; none arrives once the
\* listener is closed.
Arrive(c) ==
  /\ phase = "running"
  /\ pc[c] = "none"
  /\ pc' = [pc EXCEPT ![c] = "handling"]
  /\ UNCHANGED <<serverVars, queueVars, subs, i, record, taskVars, dropped>>

\* Schedule logs the error and swallows it; a panic on the way is recovered
\* by the handler.  Either way the call is over and nothing was committed.
GiveUp(c) ==
  /\ pc' = [pc EXCEPT ![c] = "returned"]
  /\ UNCHANGED <<serverVars, queueVars, subs, i, record, taskVars, dropped>>

\* fetchSubscriptions: a read-only transaction returns the n subscriptions
\* the caller's query selects for the event.  None: nothing to do.
FetchSubscriptions(c, n) ==
  /\ pc[c] = "handling"
  /\ pc' = [pc EXCEPT ![c] = IF n = 0 THEN "returned" ELSE "stage2"]
  /\ subs' = [subs EXCEPT ![c] = n]
  /\ UNCHANGED <<serverVars, queueVars, i, record, taskVars, dropped>>

FetchFails(c) ==
  /\ pc[c] = "handling"
  /\ GiveUp(c)

\* Mutant: the loop of schedule does not stop at the last subscription.
QueueStage2PastTheEnd(c) ==
  /\ pc[c] = "stage2"
  /\ i' = [i EXCEPT ![c] = @ + 1]
  /\ UNCHANGED <<serverVars, queueVars, pc, subs, record, taskVars, dropped>>

\* queueStage2 for the next subscription: its query is executed and the
\* record is inserted, visible to nobody before the commit.
QueueStage2(c) ==
  /\ pc[c] = "stage2"
  /\ i[c] <= subs[c]
  /\ i' = [i EXCEPT ![c] = @ + 1]
  /\ UNCHANGED <<serverVars, queueVars, pc, subs, record, taskVars, dropped>>

\* The token of this subscription has expired, its query is too complex or
\* panics, or the insert fails: the transaction, with the deliveries to all
\* the other subscriptions, is rolled back.
Stage2Fails(c) ==
  /\ pc[c] = "stage2"
  /\ i[c] <= subs[c]
  /\ GiveUp(c)

\* The records that a commit by call c brings into being.
Inserted(c) ==
  [d \in Deliveries |->
     IF d[1] = c /\ d[2] <= subs[c] THEN "unset" ELSE record[d]]

Commit(c) ==
  /\ pc[c] = "stage2"
  /\ i[c] > subs[c]
  /\ record' = Inserted(c)
  /\ pc' = [pc EXCEPT ![c] = "enqueue"]
  /\ i' = [i EXCEPT ![c] = 1]
  /\ UNCHANGED <<serverVars, queueVars, subs, taskVars, dropped>>

\* tx.Commit returns an error and WithTx panics.  PostgreSQL may have
\* committed all the same: then the records exist and no task ever will.
CommitPanics(c) ==
  /\ pc[c] = "stage2"
  /\ i[c] > subs[c]
  /\ \/ GiveUp(c)
     \/ /\ record' = Inserted(c)
        /\ dropped' = dropped \cup {d \in Deliveries : d[1] = c /\ d[2] <= subs[c]}
        /\ pc' = [pc EXCEPT ![c] = "returned"]
        /\ UNCHANGED <<serverVars, queueVars, subs, i, taskVars>>

\* Mutant: the enqueueing loop stops one task early.
EnqueueTaskButLast(c) ==
  /\ pc[c] = "enqueue"
  /\ Queue!Enqueue(<<c, i[c]>>)
  /\ i' = [i EXCEPT ![c] = @ + 1]
  /\ pc' = [pc EXCEPT ![c] = IF i[c] + 1 >= subs[c] THEN "returned" ELSE "enqueue"]
  /\ UNCHANGED <<serverVars, subs, record, taskVars, dropped>>

\* queue.Queue.Enqueue(task): the error of a queue that is shutting down is
\* not looked at.
EnqueueTask(c) ==
  /\ pc[c] = "enqueue"
  /\ \/ /\ Queue!Enqueue(<<c, i[c]>>)
        /\ UNCHANGED dropped
     \/ /\ ~accepting
        /\ dropped' = dropped \cup {<<c, i[c]>>}
        /\ UNCHANGED queueVars
  /\ i' = [i EXCEPT ![c] = @ + 1]
  /\ pc' = [pc EXCEPT ![c] = IF i[c] = subs[c] THEN "returned" ELSE "enqueue"]
  /\ UNCHANGED <<serverVars, subs, record, taskVars>>

Schedule(c) ==
  \/ \E n \in 0..MaxSubs : FetchSubscriptions(c, n)
  \/ FetchFails(c)
  \/ QueueStage2(c)
  \/ Stage2Fails(c)
  \/ Commit(c)
  \/ CommitPanics(c)
  \/ EnqueueTask(c)

-----------------------------------------------------------------------------
(***************************************************************************)
(* deliverPayload, in the queue's goroutine                                *)
(***************************************************************************)

\* The goroutine is back from deliverPayload.
Idle == step' = "idle" /\ answer' = "none"

Attempt(d) ==
  /\ Queue!Attempt(d)
  /\ step' = "request"
  /\ UNCHANGED <<serverVars, callVars, record, answer, dropped>>

\* http.NewRequestWithContext rejects the subscription's URL: do not retry.
\* The URL never changes, so this can only be the first attempt.
BadRequest ==
  /\ step = "request"
  /\ attempts[running] = 1
  /\ Queue!Done
  /\ Idle
  /\ UNCHANGED <<serverVars, callVars, record, dropped>>

\* Mutant: the count of retries is taken for the count of attempts.
PostFailsOneMore ==
  /\ step = "request"
  /\ Queue!Fail(MaxAttempts + 1)
  /\ Idle
  /\ UNCHANGED <<serverVars, callVars, record, dropped>>

\* client.Do fails or times out after 30 seconds; whether the subscriber saw
\* the request is unknown.
PostFails ==
  /\ step = "request"
  /\ Queue!Fail(MaxAttempts)
  /\ Idle
  /\ UNCHANGED <<serverVars, callVars, record, dropped>>

\* The subscriber answered with a status of class a, but the body cannot be
\* read: do not retry.
BodyUnreadable ==
  /\ step = "request"
  /\ Queue!Done
  /\ Idle
  /\ UNCHANGED <<serverVars, callVars, record, dropped>>

PostAnswered(a) ==
  /\ step = "request"
  /\ step' = "answered"
  /\ answer' = a
  /\ UNCHANGED <<serverVars, queueVars, callVars, record, dropped>>

\* The transaction that writes the response into the record.
UpdateRecord ==
  /\ step = "answered"
  /\ record' = [record EXCEPT ![running] = answer]
  /\ step' = "recorded"
  /\ UNCHANGED <<serverVars, queueVars, callVars, answer, dropped>>

\* Mutant: the task ends with the failed update, as in webhooks/legacy.go.
UpdateFailsEndsTask ==
  /\ step = "answered"
  /\ Queue!Done
  /\ Idle
  /\ UNCHANGED <<serverVars, callVars, record, dropped>>

\* Mutant: deliverPayload starts over when the update fails.
UpdateFailsPostsAgain ==
  /\ step = "answered"
  /\ step' = "request"
  /\ answer' = "none"
  /\ UNCHANGED <<serverVars, queueVars, callVars, record, dropped>>

\* It failed: the code logs a warning and goes on.
UpdateFails ==
  /\ step = "answered"
  /\ step' = "recorded"
  /\ UNCHANGED <<serverVars, queueVars, callVars, record, answer, dropped>>

\* Mutant: every answer is reported to the queue as an error.
ReturnError ==
  /\ step = "recorded"
  /\ Queue!Fail(MaxAttempts)
  /\ Idle
  /\ UNCHANGED <<serverVars, callVars, record, dropped>>

\* deliverPayload returns: an error for 502, 503 and 504, otherwise nil.
Return ==
  /\ step = "recorded"
  /\ IF answer = "retry" THEN Queue!Fail(MaxAttempts) ELSE Queue!Done
  /\ Idle
  /\ UNCHANGED <<serverVars, callVars, record, dropped>>

DeliverPayload ==
  \/ BadRequest
  \/ PostFails
  \/ BodyUnreadable
  \/ \E a \in {"retry", "final"} : PostAnswered(a)
  \/ UpdateRecord
  \/ UpdateFails
  \/ Return

-----------------------------------------------------------------------------
(***************************************************************************)
(* The daemon around them                                                  *)
(***************************************************************************)

\* Mutant: the queues are closed before the handlers are done.
InterruptClosesQueue ==
  /\ Server!Interrupt
  /\ Queue!Refuse
  /\ UNCHANGED <<callVars, record, taskVars, dropped>>

Interrupt ==
  /\ Server!Interrupt
  /\ UNCHANGED <<queueVars, callVars, record, taskVars, dropped>>

\* Run goes on from qserver.Shutdown to work.Join, whose first act is to
\* close the queue.  Shutdown also waits for the handlers of requests that
\* trigger no webhook: others says whether some of them are left.
ShutdownReturns ==
  /\ \E others \in BOOLEAN :
       Server!ShutdownReturns(others \/ \E c \in Calls : InFlight(c))
  /\ Queue!Refuse
  /\ UNCHANGED <<callVars, record, taskVars, dropped>>

\* The process is gone, and with it the handlers, the tasks, and the tasks
\* the handlers had still to enqueue.
ProcessEnds ==
  /\ Queue!Lose
  /\ Idle
  /\ pc' = [c \in Calls |-> IF InFlight(c) THEN "lost" ELSE pc[c]]
  /\ dropped' = dropped \cup queue \cup Unqueued
  /\ UNCHANGED <<subs, i, record>>

JoinReturns ==
  /\ Server!JoinReturns(Queue!Drained)
  /\ ProcessEnds

Kill ==
  /\ Server!Kill
  /\ ProcessEnds

Restart ==
  /\ Server!Restart
  /\ Queue!Reopen
  /\ UNCHANGED <<callVars, record, taskVars, dropped>>

Next ==
  \/ \E c \in Calls : Arrive(c) \/ Schedule(c)
  \/ \E d \in Deliveries : Attempt(d)
  \/ DeliverPayload
  \/ Interrupt
  \/ ShutdownReturns
  \/ JoinReturns
  \/ Kill
  \/ Restart

Spec == Init /\ [][Next]_vars

(***************************************************************************)
(* The queue's goroutine never blocks for good: the POST has a timeout of  *)
(* 30 seconds and the database is taken to answer.  Handing a task to the  *)
(* queue does not block either.  Run's own steps follow from the deadline  *)
(* of Shutdown and from the drained queue.  A handler may hang before it   *)
(* has committed, no signal ever has to come and nothing forces a restart. *)
(***************************************************************************)
Fairness ==
  /\ WF_vars(\E d \in Deliveries : Attempt(d))
  /\ WF_vars(DeliverPayload)
  /\ \A c \in Calls : WF_vars(EnqueueTask(c))
  /\ WF_vars(ShutdownReturns)
  /\ WF_vars(JoinReturns)

FairSpec == Spec /\ Fairness

-----------------------------------------------------------------------------
(***************************************************************************)
(* Properties                                                              *)
(***************************************************************************)

\* A committed delivery record never loses its task unnoticed: the task is
\* still to be enqueued by the call of Schedule, is in the queue, has been
\* attempted, or was dropped by a cause that DropsHaveACause names.
NoSilentLoss ==
  \A d \in Deliveries :
    Recorded(d) => d \in Unqueued \cup queue \cup dropped \/ attempts[d] > 0

\* The standing of a delivery in the abstract ledger.
Standing(d) ==
  IF ~Recorded(d) THEN "absent"
  ELSE IF d \in dropped THEN "dropped"
  ELSE IF d \in queue \cup Unqueued THEN "pending"
  ELSE "settled"

Ledger == INSTANCE DeliveryLedger WITH
            ledger <- [d \in Deliveries |-> Standing(d)],
            tries <- attempts

\* schedule, the queue and deliverPayload together keep the promise of
\* DeliveryLedger: the records of one call appear together and once, before
\* any POST; a delivery is attempted at most MaxAttempts times, and never
\* again once its task is gone; no task goes without an attempt or a drop.
ImplementsLedger == Ledger!Spec

\* deliverPayload: once the record holds a response other than 502, 503 and
\* 504, the subscriber is not sent the delivery again.
FinalEndsDelivery ==
  [][\A d \in Deliveries : record[d] = "final" => attempts'[d] = attempts[d]]_vars

\* deliverPayload: a 502, 503 or 504 leaves the task in the queue while it has
\* attempts left, whatever becomes of the record's update.
RetryableAnswerIsRetried ==
  [][(answer = "retry" /\ answer' # "retry" /\ phase' # "killed"
        /\ attempts[running] < MaxAttempts)
     => running \in queue']_vars

\* A recorded delivery is dropped only when the process is killed, when a
\* handler outlived the 30 seconds of the warm shutdown, or when the commit
\* went through and its acknowledgement was lost.
DropsHaveACause ==
  [][dropped' # dropped =>
       \/ phase' = "killed"
       \/ overran
       \/ \E c \in Calls : pc[c] = "stage2" /\ pc'[c] = "returned"]_vars

\* Every recorded delivery reaches its end: the subscriber answered, the
\* attempts are used up, or it was dropped.
EveryRecordIsSettled ==
  \A d \in Deliveries :
    Standing(d) = "pending" ~> Standing(d) \in {"settled", "dropped"}

\* Server.Run: the warm shutdown comes to an end even if a handler hangs.
WarmShutdownEnds ==
  phase = "draining" ~> phase \in {"exited", "killed"}
=============================================================================
