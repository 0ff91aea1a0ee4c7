------------------------- MODULE WebhookQueueProofs -------------------------
(***************************************************************************)
(* Proofs about WebhookQueue, for every set of calls and every value of    *)
(* its bounds.  IInv is an inductive invariant: it strengthens TypeOK and  *)
(* NoSilentLoss by what the calls of Schedule, the queue's goroutine and   *)
(* the delivery table have to agree on between any two steps.              *)
(***************************************************************************)
EXTENDS WebhookQueue, TLAPS

\* The goroutine is in deliverPayload exactly while a task is running, and
\* that task is still in the queue.
WorkerInv ==
  /\ running = None <=> step = "idle"
  /\ running # None => running \in queue
  /\ IF step \in {"answered", "recorded"}
       THEN answer \in {"retry", "final"} ELSE answer = "none"

\* Nothing outlives the process, and while there is a handler the queue is
\* closed only if Shutdown gave up on it.
DaemonInv ==
  /\ ~Server!Alive => queue = {} /\ \A c \in Calls : ~InFlight(c)
  /\ accepting <=> phase \in {"running", "draining"}
  /\ phase = "joining" /\ ~overran => \A c \in Calls : ~InFlight(c)

\* A task exists, was attempted or was lost only if its record was committed,
\* a lost task is not in the queue, and a response takes an attempt.
RecordInv ==
  \A d \in Deliveries :
    /\ d \in queue \/ d \in dropped \/ attempts[d] > 0 => Recorded(d)
    /\ d \in queue => d \notin dropped
    /\ record[d] \in {"retry", "final"} => attempts[d] > 0

\* The loop of a call that is handing over its tasks has not run out.
LoopInv ==
  \A c \in Calls :
    /\ pc[c] = "stage2" => 1 <= subs[c]
    /\ pc[c] = "enqueue" => 1 <= i[c] /\ i[c] <= subs[c]

\* Before its commit a call has no record.  After it, the records are those of
\* its subscriptions, and the ones it has still to enqueue have no task yet.
CallInv ==
  \A d \in Deliveries :
    /\ pc[d[1]] \in {"none", "handling", "stage2"} => ~Recorded(d)
    /\ pc[d[1]] = "enqueue" => (Recorded(d) <=> d[2] <= subs[d[1]])
    /\ d \in Unqueued => d \notin queue /\ d \notin dropped /\ attempts[d] = 0

\* A task has been attempted at most MaxAttempts times, a waiting one less.
AttemptInv ==
  \A d \in Deliveries :
    /\ attempts[d] <= MaxAttempts
    /\ d \in queue /\ d # running => attempts[d] < MaxAttempts
    /\ d = running => attempts[d] > 0

\* A record with a final response has no task but the one about to return.
FinalInv ==
  \A d \in Deliveries :
    record[d] = "final" /\ d \in queue =>
      running = d /\ step = "recorded" /\ answer = "final"

IInv ==
  /\ TypeOK
  /\ WorkerInv
  /\ DaemonInv
  /\ RecordInv
  /\ LoopInv
  /\ CallInv
  /\ AttemptInv
  /\ FinalInv
  /\ NoSilentLoss

-----------------------------------------------------------------------------
USE DEF vars, serverVars, queueVars, callVars, taskVars

\* A delivery is the pair of its call and its subscription.
LEMMA Pairs ==
  /\ \A d \in Deliveries : d[1] \in Calls /\ d[2] \in 1..MaxSubs /\ d = <<d[1], d[2]>>
  /\ \A c \in Calls, k \in 1..MaxSubs : <<c, k>> \in Deliveries
BY DEF Deliveries

LEMMA InitIInv == Init => IInv
<1> SUFFICES ASSUME Init PROVE IInv
  OBVIOUS
<1> USE BoundsAssumption, NoneAssumption DEF Init, Server!Init, Queue!Init
<1>1. TypeOK
  <2>1. Server!TypeOK
    BY DEF Server!TypeOK, Server!Phases
  <2>2. Queue!TypeOK
    BY DEF Queue!TypeOK
  <2>3. pc \in [Calls -> PCs]
    BY DEF PCs
  <2>4. subs \in [Calls -> 0..MaxSubs] /\ i \in [Calls -> 1..(MaxSubs + 1)]
    OBVIOUS
  <2>5. record \in [Deliveries -> {"absent", "unset", "retry", "final"}]
    OBVIOUS
  <2> QED
    BY <2>1, <2>2, <2>3, <2>4, <2>5 DEF TypeOK
<1>2. WorkerInv /\ DaemonInv
  BY DEF WorkerInv, DaemonInv, Server!Alive
<1>3. RecordInv
  BY DEF RecordInv, Recorded
<1>4. LoopInv
  BY DEF LoopInv
<1>5. CallInv
  BY Pairs DEF CallInv, Recorded, Unqueued
<1>6. AttemptInv
  BY DEF AttemptInv
<1>7. FinalInv
  BY DEF FinalInv
<1>8. NoSilentLoss
  BY DEF NoSilentLoss, Recorded
<1> QED
  BY <1>1, <1>2, <1>3, <1>4, <1>5, <1>6, <1>7, <1>8 DEF IInv

LEMMA TypeNext == IInv /\ [Next]_vars => TypeOK'
<1> SUFFICES ASSUME IInv, [Next]_vars PROVE TypeOK'
  OBVIOUS
<1> USE BoundsAssumption DEF TypeOK, Server!TypeOK, Queue!TypeOK, Server!Phases, PCs
<1>0. TypeOK /\ WorkerInv /\ LoopInv
  BY DEF IInv
<1>1. ASSUME NEW c \in Calls, Arrive(c) PROVE TypeOK'
  BY <1>0, <1>1 DEF Arrive
<1>2. ASSUME NEW c \in Calls, Schedule(c) PROVE TypeOK'
  <2>1. ASSUME NEW n \in 0..MaxSubs, FetchSubscriptions(c, n) PROVE TypeOK'
    BY <1>0, <2>1 DEF FetchSubscriptions
  <2>2. CASE GiveUp(c)
    BY <1>0, <2>2 DEF GiveUp
  <2>3. CASE QueueStage2(c)
    BY <1>0, <2>3 DEF QueueStage2
  <2>4. CASE Commit(c)
    BY <1>0, <2>4 DEF Commit, Inserted
  <2>5. CASE CommitPanics(c) /\ ~GiveUp(c)
    BY <1>0, <2>5 DEF CommitPanics, Inserted
  <2>6. CASE EnqueueTask(c)
    <3>1. i[c] \in 1..MaxSubs /\ <<c, i[c]>> \in Deliveries
      BY <1>0, <2>6, Pairs DEF EnqueueTask, LoopInv
    <3> QED
      BY <1>0, <2>6, <3>1 DEF EnqueueTask, Queue!Enqueue
  <2> QED
    BY <1>2, <2>1, <2>2, <2>3, <2>4, <2>5, <2>6
      DEF Schedule, FetchFails, Stage2Fails, CommitPanics
<1>3. ASSUME NEW d \in Deliveries, Attempt(d) PROVE TypeOK'
  BY <1>0, <1>3 DEF Attempt, Queue!Attempt
<1>4. CASE DeliverPayload
  <2>1. CASE BadRequest \/ BodyUnreadable
    BY <1>0, <2>1 DEF BadRequest, BodyUnreadable, Queue!Done, Idle
  <2>2. CASE PostFails
    BY <1>0, <2>2 DEF PostFails, Queue!Fail, Idle
  <2>3. ASSUME NEW a \in {"retry", "final"}, PostAnswered(a) PROVE TypeOK'
    BY <1>0, <2>3 DEF PostAnswered
  <2>4. CASE UpdateRecord
    BY <1>0, <2>4 DEF UpdateRecord, WorkerInv
  <2>5. CASE UpdateFails
    BY <1>0, <2>5 DEF UpdateFails
  <2>6. CASE Return
    BY <1>0, <2>6 DEF Return, Queue!Fail, Queue!Done, Idle
  <2> QED
    BY <1>4, <2>1, <2>2, <2>3, <2>4, <2>5, <2>6 DEF DeliverPayload
<1>5. CASE Interrupt
  BY <1>0, <1>5 DEF Interrupt, Server!Interrupt
<1>6. CASE ShutdownReturns
  BY <1>0, <1>6 DEF ShutdownReturns, Server!ShutdownReturns, Queue!Refuse
<1>7. CASE JoinReturns
  BY <1>0, <1>7 DEF JoinReturns, Server!JoinReturns, ProcessEnds, Queue!Lose, Idle, Unqueued
<1>8. CASE Kill
  BY <1>0, <1>8 DEF Kill, Server!Kill, ProcessEnds, Queue!Lose, Idle, Unqueued
<1>9. CASE Restart
  BY <1>0, <1>9 DEF Restart, Server!Restart, Queue!Reopen
<1>10. CASE UNCHANGED vars
  BY <1>0, <1>10
<1> QED
  BY <1>1, <1>2, <1>3, <1>4, <1>5, <1>6, <1>7, <1>8, <1>9, <1>10 DEF Next

\* What every step preserves beside the types.
Strengthening ==
  /\ WorkerInv
  /\ DaemonInv
  /\ RecordInv
  /\ LoopInv
  /\ CallInv
  /\ AttemptInv
  /\ FinalInv
  /\ NoSilentLoss

LEMMA ScheduleNext ==
  ASSUME IInv, TypeOK', NEW c \in Calls, Arrive(c) \/ Schedule(c)
  PROVE  Strengthening'
<1> USE BoundsAssumption, NoneAssumption, Pairs
    DEF TypeOK, Server!TypeOK, Queue!TypeOK, PCs, IInv, Strengthening, Recorded, Unqueued,
        InFlight, Server!Alive
<1>1. CASE Arrive(c)
  BY <1>1 DEF Arrive,
         WorkerInv, DaemonInv, RecordInv, LoopInv, CallInv, AttemptInv, FinalInv, NoSilentLoss
<1>2. ASSUME NEW n \in 0..MaxSubs, FetchSubscriptions(c, n) PROVE Strengthening'
  BY <1>2 DEF FetchSubscriptions,
         WorkerInv, DaemonInv, RecordInv, LoopInv, CallInv, AttemptInv, FinalInv, NoSilentLoss
<1>3. CASE GiveUp(c) /\ pc[c] \in {"handling", "stage2"}
  BY <1>3 DEF GiveUp,
         WorkerInv, DaemonInv, RecordInv, LoopInv, CallInv, AttemptInv, FinalInv, NoSilentLoss
<1>4. CASE QueueStage2(c)
  BY <1>4 DEF QueueStage2,
         WorkerInv, DaemonInv, RecordInv, LoopInv, CallInv, AttemptInv, FinalInv, NoSilentLoss
<1>5. CASE Commit(c)
  BY <1>5 DEF Commit, Inserted,
         WorkerInv, DaemonInv, RecordInv, LoopInv, CallInv, AttemptInv, FinalInv, NoSilentLoss
<1>6. CASE CommitPanics(c) /\ ~GiveUp(c)
  BY <1>6 DEF CommitPanics, Inserted,
         WorkerInv, DaemonInv, RecordInv, LoopInv, CallInv, AttemptInv, FinalInv, NoSilentLoss
<1>7. CASE EnqueueTask(c)
  <2> DEFINE t == <<c, i[c]>>
  <2>1. /\ t \in Deliveries /\ t \in Unqueued
        /\ i[c] \in 1..subs[c]
        /\ Recorded(t) /\ t \notin queue /\ t \notin dropped /\ attempts[t] = 0
        /\ running # t
    <3>1. pc[c] = "enqueue" /\ c \in Calls
      BY <1>7 DEF EnqueueTask
    <3>2. i[c] \in 1..subs[c] /\ t \in Deliveries /\ t \in Unqueued
      BY <3>1 DEF LoopInv
    <3>3. Recorded(t) /\ t \notin queue /\ t \notin dropped /\ attempts[t] = 0
      BY <3>1, <3>2 DEF CallInv, LoopInv
    <3>4. running = None \/ running \in queue
      BY DEF WorkerInv
    <3> HIDE DEF t
    <3> QED
      BY <3>2, <3>3, <3>4
  <2>2. /\ \/ accepting /\ queue' = queue \cup {t} /\ UNCHANGED dropped
           \/ queue' = queue /\ dropped' = dropped \cup {t}
        /\ i' = [i EXCEPT ![c] = @ + 1]
        /\ pc' = [pc EXCEPT ![c] = IF i[c] = subs[c] THEN "returned" ELSE "enqueue"]
        /\ UNCHANGED <<phase, overran, accepting, running, attempts, subs, record,
                       step, answer>>
    BY <1>7 DEF EnqueueTask, Queue!Enqueue
  <2>3. Unqueued' = Unqueued \ {t}
    BY <1>7, <2>1, <2>2, SMTT(30) DEF EnqueueTask
  <2>4. WorkerInv' /\ DaemonInv'
    <3>1. pc[c] = "enqueue"
      BY <1>7 DEF EnqueueTask
    <3>2. WorkerInv'
      <4> HIDE DEF t
      <4> QED
        BY <2>1, <2>2 DEF WorkerInv
    <3>3. DaemonInv'
      BY <2>1, <2>2, <3>1 DEF DaemonInv
    <3> QED
      BY <3>2, <3>3
  <2>5. RecordInv'
    <3>1. t \notin Unqueued'
      BY <2>3
    <3> HIDE DEF t
    <3> QED
      BY <2>1, <2>2, <2>3, <3>1 DEF RecordInv
  <2>6. LoopInv'
    <3>1. i'[c] = i[c] + 1
      BY <2>2
    <3> QED
      BY <2>1, <2>2, <3>1, SMTT(30) DEF LoopInv
  <2>7. CallInv'
    BY <1>7, <2>1, <2>2, <2>3 DEF EnqueueTask, CallInv
  <2>8. AttemptInv' /\ FinalInv'
    <3>1. record[t] # "final"
      BY <2>1 DEF RecordInv
    <3> HIDE DEF t
    <3>2. AttemptInv'
      BY <2>1, <2>2 DEF AttemptInv
    <3>3. FinalInv'
      BY <2>1, <2>2, <3>1 DEF FinalInv
    <3> QED
      BY <3>2, <3>3
  <2>9. NoSilentLoss'
    BY <2>1, <2>2, <2>3 DEF NoSilentLoss
  <2> QED
    BY <2>4, <2>5, <2>6, <2>7, <2>8, <2>9
<1> QED
  BY <1>1, <1>2, <1>3, <1>4, <1>5, <1>6, <1>7
    DEF Schedule, FetchFails, Stage2Fails, CommitPanics

LEMMA TaskNext ==
  ASSUME IInv, TypeOK', DeliverPayload \/ \E d \in Deliveries : Attempt(d)
  PROVE  Strengthening'
<1> USE BoundsAssumption, NoneAssumption, Pairs
    DEF TypeOK, Server!TypeOK, Queue!TypeOK, IInv, Strengthening, Recorded, Unqueued,
        InFlight, Server!Alive
<1>1. ASSUME NEW d \in Deliveries, Attempt(d) PROVE Strengthening'
  BY <1>1 DEF Attempt, Queue!Attempt,
         WorkerInv, DaemonInv, RecordInv, LoopInv, CallInv, AttemptInv, FinalInv, NoSilentLoss
<1>2. ASSUME Queue!Done, Idle, UNCHANGED <<serverVars, callVars, record, dropped>>
      PROVE  Strengthening'
  BY <1>2 DEF Queue!Done, Idle,
         WorkerInv, DaemonInv, RecordInv, LoopInv, CallInv, AttemptInv, FinalInv, NoSilentLoss
<1>3. ASSUME Queue!Fail(MaxAttempts), Idle, answer # "final",
             UNCHANGED <<serverVars, callVars, record, dropped>>
      PROVE  Strengthening'
  BY <1>3 DEF Queue!Fail, Idle,
         WorkerInv, DaemonInv, RecordInv, LoopInv, CallInv, AttemptInv, FinalInv, NoSilentLoss
<1>4. ASSUME NEW a \in {"retry", "final"}, PostAnswered(a) PROVE Strengthening'
  BY <1>4 DEF PostAnswered,
         WorkerInv, DaemonInv, RecordInv, LoopInv, CallInv, AttemptInv, FinalInv, NoSilentLoss
<1>5. CASE UpdateRecord
  BY <1>5 DEF UpdateRecord,
         WorkerInv, DaemonInv, RecordInv, LoopInv, CallInv, AttemptInv, FinalInv, NoSilentLoss
<1>6. CASE UpdateFails
  BY <1>6 DEF UpdateFails,
         WorkerInv, DaemonInv, RecordInv, LoopInv, CallInv, AttemptInv, FinalInv, NoSilentLoss
<1> QED
  BY <1>1, <1>2, <1>3, <1>4, <1>5, <1>6
    DEF DeliverPayload, BadRequest, PostFails, BodyUnreadable, Return, WorkerInv

LEMMA DaemonNext ==
  ASSUME IInv, TypeOK',
         Interrupt \/ ShutdownReturns \/ JoinReturns \/ Kill \/ Restart
  PROVE  Strengthening'
<1> USE BoundsAssumption, NoneAssumption, Pairs
    DEF TypeOK, Server!TypeOK, Queue!TypeOK, PCs, IInv, Strengthening, Recorded, Unqueued,
        InFlight, Server!Alive
<1>1. ASSUME phase = "running" \/ phase = "draining", Server!Alive', DaemonInv',
             UNCHANGED <<queue, running, attempts, callVars, record, taskVars, dropped>>
      PROVE  Strengthening'
  BY <1>1 DEF
         WorkerInv, DaemonInv, RecordInv, LoopInv, CallInv, AttemptInv, FinalInv, NoSilentLoss
<1>2. ASSUME ProcessEnds, phase' \in {"exited", "killed"} PROVE Strengthening'
  BY <1>2 DEF ProcessEnds, Queue!Lose, Idle,
         WorkerInv, DaemonInv, RecordInv, LoopInv, CallInv, AttemptInv, FinalInv, NoSilentLoss
<1>3. CASE Restart
  BY <1>3 DEF Restart, Server!Restart, Queue!Reopen,
         WorkerInv, DaemonInv, RecordInv, LoopInv, CallInv, AttemptInv, FinalInv, NoSilentLoss
<1>4. CASE Interrupt \/ ShutdownReturns
  <2>1. DaemonInv'
    BY <1>4 DEF Interrupt, Server!Interrupt, ShutdownReturns, Server!ShutdownReturns,
                Queue!Refuse, DaemonInv
  <2> QED
    BY <1>1, <1>4, <2>1 DEF Interrupt, Server!Interrupt, ShutdownReturns,
                            Server!ShutdownReturns, Queue!Refuse
<1> QED
  BY <1>2, <1>3, <1>4 DEF JoinReturns, Server!JoinReturns, Kill, Server!Kill

THEOREM Invariance == Spec => []IInv
<1>1. IInv /\ [Next]_vars => IInv'
  <2> SUFFICES ASSUME IInv, [Next]_vars PROVE IInv'
    OBVIOUS
  <2>1. TypeOK'
    BY TypeNext
  <2>2. Strengthening'
    <3>1. CASE UNCHANGED vars
      BY <3>1 DEF IInv, Strengthening, WorkerInv, DaemonInv, RecordInv, LoopInv, CallInv,
                  AttemptInv, FinalInv, NoSilentLoss, Recorded, Unqueued, InFlight, Server!Alive
    <3> QED
      BY <2>1, <3>1, ScheduleNext, TaskNext, DaemonNext DEF Next
  <2> QED
    BY <2>1, <2>2 DEF IInv, Strengthening
<1> QED
  BY <1>1, InitIInv, PTL DEF Spec

\* The type invariant holds in every reachable state.
THEOREM TypeCorrect == Spec => []TypeOK
BY Invariance, PTL DEF IInv

\* No committed delivery record loses its task unnoticed.
THEOREM NothingLostSilently == Spec => []NoSilentLoss
BY Invariance, PTL DEF IInv

-----------------------------------------------------------------------------
(***************************************************************************)
(* Action properties                                                       *)
(***************************************************************************)

\* A final response is the end of its delivery.
THEOREM FinalIsFinal == Spec => FinalEndsDelivery
<1> DEFINE A == \A d \in Deliveries : record[d] = "final" => attempts'[d] = attempts[d]
<1>1. IInv /\ [Next]_vars => [A]_vars
  <2> SUFFICES ASSUME IInv, Next, NEW d \in Deliveries, record[d] = "final"
               PROVE  attempts'[d] = attempts[d]
    OBVIOUS
  <2>1. ASSUME NEW e \in Deliveries, Attempt(e) PROVE attempts'[d] = attempts[d]
    <3>1. d # e
      BY <2>1, NoneAssumption DEF IInv, FinalInv, Attempt, Queue!Attempt
    <3> QED
      BY <2>1, <3>1 DEF IInv, TypeOK, Queue!TypeOK, Attempt, Queue!Attempt
  <2>2. ASSUME NEW c \in Calls, Arrive(c) \/ Schedule(c) PROVE UNCHANGED attempts
    BY <2>2 DEF Arrive, Schedule, FetchSubscriptions, FetchFails, GiveUp, QueueStage2,
                Stage2Fails, Commit, CommitPanics, EnqueueTask, Queue!Enqueue
  <2>3. CASE DeliverPayload
    BY <2>3 DEF DeliverPayload, BadRequest, PostFails, BodyUnreadable, PostAnswered,
                UpdateRecord, UpdateFails, Return, Queue!Done, Queue!Fail
  <2>4. CASE Interrupt \/ ShutdownReturns \/ JoinReturns \/ Kill \/ Restart
    BY <2>4 DEF Interrupt, ShutdownReturns, JoinReturns, Kill, Restart, ProcessEnds,
                Queue!Refuse, Queue!Lose, Queue!Reopen
  <2> QED
    BY <2>1, <2>2, <2>3, <2>4 DEF Next
<1> QED
  BY <1>1, Invariance, PTL DEF Spec, FinalEndsDelivery

\* A 502, 503 or 504 leaves the task in the queue.
THEOREM RetryableIsRetried == Spec => RetryableAnswerIsRetried
<1> DEFINE A == (answer = "retry" /\ answer' # "retry" /\ phase' # "killed"
                   /\ attempts[running] < MaxAttempts) => running \in queue'
<1>1. IInv /\ [Next]_vars => [A]_vars
  <2> SUFFICES ASSUME IInv, Next, answer = "retry", answer' # "retry", phase' # "killed",
                      attempts[running] < MaxAttempts
               PROVE  running \in queue'
    OBVIOUS
  <2>1. step \in {"answered", "recorded"} /\ running # None /\ running \in queue
    BY DEF IInv, WorkerInv
  <2>2. ASSUME NEW c \in Calls, Arrive(c) \/ Schedule(c) PROVE UNCHANGED answer
    BY <2>2 DEF Arrive, Schedule, FetchSubscriptions, FetchFails, GiveUp, QueueStage2,
                Stage2Fails, Commit, CommitPanics, EnqueueTask
  <2>3. ASSUME NEW d \in Deliveries, Attempt(d) PROVE UNCHANGED answer
    BY <2>3 DEF Attempt
  <2>4. CASE DeliverPayload
    BY <2>1, <2>4 DEF DeliverPayload, BadRequest, PostFails, BodyUnreadable, PostAnswered,
                      UpdateRecord, UpdateFails, Return, Queue!Fail
  <2>5. CASE Interrupt \/ ShutdownReturns \/ Restart
    BY <2>1, <2>5 DEF Interrupt, ShutdownReturns, Restart
  <2>6. CASE JoinReturns \/ Kill
    BY <2>1, <2>6 DEF JoinReturns, Server!JoinReturns, Queue!Drained, Kill, Server!Kill
  <2> QED
    BY <2>2, <2>3, <2>4, <2>5, <2>6 DEF Next
<1> QED
  BY <1>1, Invariance, PTL DEF Spec, RetryableAnswerIsRetried

\* No delivery is dropped without one of the three causes.
THEOREM DroppedForCause == Spec => DropsHaveACause
<1> DEFINE A == dropped' # dropped =>
                  \/ phase' = "killed"
                  \/ overran
                  \/ \E c \in Calls : pc[c] = "stage2" /\ pc'[c] = "returned"
<1>1. IInv /\ [Next]_vars => [A]_vars
  <2> SUFFICES ASSUME IInv, Next PROVE A
    OBVIOUS
  <2>0. TypeOK /\ DaemonInv
    BY DEF IInv
  <2>1. ASSUME NEW c \in Calls, CommitPanics(c) PROVE A
    BY <2>0, <2>1 DEF CommitPanics, GiveUp, TypeOK
  <2>2. ASSUME NEW c \in Calls, EnqueueTask(c) PROVE A
    BY <2>0, <2>2 DEF EnqueueTask, DaemonInv, InFlight, Server!Alive, TypeOK, Server!TypeOK,
                      Server!Phases
  <2>3. ASSUME NEW c \in Calls, Arrive(c) \/ Schedule(c), ~CommitPanics(c), ~EnqueueTask(c)
        PROVE  A
    BY <2>3 DEF Arrive, Schedule, FetchSubscriptions, FetchFails, GiveUp, QueueStage2,
                Stage2Fails, Commit
  <2>4. CASE DeliverPayload \/ \E d \in Deliveries : Attempt(d)
    BY <2>4 DEF Attempt, DeliverPayload, BadRequest, PostFails, BodyUnreadable, PostAnswered,
                UpdateRecord, UpdateFails, Return
  <2>5. CASE Interrupt \/ ShutdownReturns \/ Restart \/ Kill
    BY <2>5 DEF Interrupt, ShutdownReturns, Restart, Kill, Server!Kill
  <2>6. CASE JoinReturns
    <3>1. overran \/ Unqueued = {}
      BY <2>0, <2>6, Pairs DEF JoinReturns, Server!JoinReturns, DaemonInv, InFlight, Unqueued
    <3> QED
      BY <2>6, <3>1 DEF JoinReturns, ProcessEnds, Queue!Drained, Server!JoinReturns
  <2> QED
    BY <2>1, <2>2, <2>3, <2>4, <2>5, <2>6 DEF Next
<1> QED
  BY <1>1, Invariance, PTL DEF Spec, DropsHaveACause

-----------------------------------------------------------------------------
(***************************************************************************)
(* WebhookQueue implements DeliveryLedger: under the mapping of Ledger     *)
(* every step is a publication, a try, a settlement, a drop, or changes    *)
(* nothing.                                                                *)
(***************************************************************************)

\* What the steps below need to know of the delivery they change.
LEMMA StandingOf ==
  ASSUME IInv, NEW d \in Deliveries
  PROVE  /\ d \in queue => Standing(d) = "pending" /\ d \notin Unqueued
         /\ d \in Unqueued => Standing(d) = "pending" /\ Recorded(d)
         /\ d \in dropped => Standing(d) = "dropped"
         /\ running = d => attempts[d] > 0 /\ d \in queue
BY Pairs, NoneAssumption
   DEF IInv, TypeOK, Queue!TypeOK, RecordInv, CallInv, WorkerInv, AttemptInv, Standing, Unqueued

\* A step that leaves every standing alone is a stutter of the ledger.
LEMMA Stutter ==
  ASSUME \A d \in Deliveries : Standing(d)' = Standing(d), UNCHANGED attempts
  PROVE  UNCHANGED Ledger!vars
BY DEF Ledger!vars

LEMMA CommitPublishes ==
  ASSUME IInv, NEW c \in Calls, pc[c] = "stage2", record' = Inserted(c),
         UNCHANGED <<subs, queue, attempts>>,
         NEW standing \in {"pending", "dropped"},
         standing = "pending" =>
           /\ pc' = [pc EXCEPT ![c] = "enqueue"] /\ i' = [i EXCEPT ![c] = 1]
           /\ UNCHANGED dropped,
         standing = "dropped" =>
           /\ pc' = [pc EXCEPT ![c] = "returned"] /\ UNCHANGED i
           /\ dropped' = dropped \cup {d \in Deliveries : d[1] = c /\ d[2] <= subs[c]}
  PROVE  Ledger!Publish(c, subs[c], standing) /\ subs[c] \in 1..MaxSubs
<1> USE Pairs DEF TypeOK, Queue!TypeOK
<1>0. TypeOK /\ CallInv /\ RecordInv /\ LoopInv
  BY DEF IInv
<1>1. subs[c] \in 1..MaxSubs
  BY <1>0, BoundsAssumption DEF LoopInv
<1>2. \A k \in 1..MaxSubs : Standing(<<c, k>>) = "absent"
  BY <1>0 DEF CallInv, Standing
<1>3. ASSUME NEW d \in Deliveries, d[1] = c, d[2] <= subs[c]
      PROVE  Standing(d)' = standing
  <2>1. ~Recorded(d) /\ d \notin queue /\ d \notin dropped
    BY <1>0, <1>3 DEF CallInv, RecordInv
  <2>2. Recorded(d)' /\ (standing = "pending" => d \in Unqueued')
    BY <1>0, <1>3 DEF Inserted, Recorded, Unqueued
  <2> QED
    BY <1>3, <2>1, <2>2 DEF Standing
<1>4. ASSUME NEW d \in Deliveries, ~(d[1] = c /\ d[2] <= subs[c])
      PROVE  Standing(d)' = Standing(d)
  <2>1. Recorded(d)' = Recorded(d) /\ (d \in dropped' <=> d \in dropped)
    BY <1>4 DEF Inserted, Recorded
  <2>2. d \in Unqueued' <=> d \in Unqueued
    BY <1>0, <1>4 DEF Unqueued
  <2> QED
    BY <2>1, <2>2 DEF Standing
<1> QED
  BY <1>1, <1>2, <1>3, <1>4 DEF Ledger!Publish, Ledger!Deliveries, Deliveries

LEMMA ScheduleRefines ==
  ASSUME IInv, NEW c \in Calls, Arrive(c) \/ Schedule(c)
  PROVE  Ledger!Next \/ UNCHANGED Ledger!vars
<1> USE Pairs, BoundsAssumption DEF TypeOK, Queue!TypeOK
<1>0. TypeOK /\ CallInv /\ RecordInv /\ LoopInv
  BY DEF IInv
<1>1. ASSUME UNCHANGED <<queueVars, record, dropped>>, Unqueued' = Unqueued
      PROVE  UNCHANGED Ledger!vars
  BY <1>1, Stutter DEF Standing, Recorded
<1>2. CASE Arrive(c) \/ (GiveUp(c) /\ pc[c] \in {"handling", "stage2"})
  BY <1>0, <1>1, <1>2 DEF Arrive, GiveUp, Unqueued
<1>3. ASSUME NEW n \in 0..MaxSubs, FetchSubscriptions(c, n)
      PROVE  UNCHANGED Ledger!vars
  BY <1>0, <1>1, <1>3 DEF FetchSubscriptions, Unqueued
<1>4. CASE QueueStage2(c)
  BY <1>0, <1>1, <1>4 DEF QueueStage2, Unqueued
<1>5. CASE Commit(c)
  BY <1>5, CommitPublishes DEF Commit, Ledger!Next
<1>6. CASE CommitPanics(c) /\ ~GiveUp(c)
  BY <1>6, CommitPublishes DEF CommitPanics, Ledger!Next
<1>7. CASE EnqueueTask(c)
  <2>1. PICK t \in Deliveries : t = <<c, i[c]>> /\ t \in Unqueued
    BY <1>0, <1>7 DEF EnqueueTask, LoopInv, Unqueued
  <2>2. Unqueued' = Unqueued \ {t}
    BY <1>0, <1>7, <2>1 DEF EnqueueTask, Unqueued
  <2>3. UNCHANGED <<record, attempts>>
    BY <1>7 DEF EnqueueTask, Queue!Enqueue
  <2>4. Standing(t) = "pending" /\ Recorded(t)
    BY <2>1, StandingOf
  <2>5. CASE queue' = queue \cup {t} /\ UNCHANGED dropped
    BY <2>1, <2>2, <2>3, <2>5, Stutter DEF Standing, Recorded
  <2>6. CASE dropped' = dropped \cup {t} /\ UNCHANGED queue
    <3>1. Standing(t)' = "dropped"
      BY <2>3, <2>4, <2>6 DEF Recorded, Standing
    <3>2. \A d \in Deliveries \ {t} : Standing(d)' = Standing(d)
      BY <2>2, <2>3, <2>6 DEF Standing, Recorded
    <3>3. Ledger!Drop({t})
      BY <2>1, <2>3, <2>4, <3>1, <3>2 DEF Ledger!Drop, Ledger!Deliveries, Deliveries
    <3> QED
      BY <3>3 DEF Ledger!Next, Ledger!Deliveries, Deliveries
  <2> QED
    BY <1>7, <2>1, <2>5, <2>6 DEF EnqueueTask, Queue!Enqueue
<1>8. CASE FetchFails(c) \/ Stage2Fails(c)
  BY <1>2, <1>8 DEF FetchFails, Stage2Fails
<1>9. CASE CommitPanics(c)
  BY <1>2, <1>6, <1>9 DEF CommitPanics
<1> QED
  BY <1>2, <1>3, <1>4, <1>5, <1>7, <1>8, <1>9 DEF Schedule

LEMMA TaskRefines ==
  ASSUME IInv, DeliverPayload \/ \E d \in Deliveries : Attempt(d)
  PROVE  Ledger!Next \/ UNCHANGED Ledger!vars
<1> USE Pairs, NoneAssumption DEF TypeOK, Queue!TypeOK
<1>0. TypeOK /\ WorkerInv /\ AttemptInv
  BY DEF IInv
<1>1. ASSUME NEW d \in Deliveries, Attempt(d) PROVE Ledger!Next
  <2>1. \A e \in Deliveries : Standing(e)' = Standing(e)
    BY <1>1 DEF Attempt, Queue!Attempt, Standing, Recorded, Unqueued
  <2>2. Standing(d) = "pending" /\ attempts[d] < MaxAttempts
    BY <1>0, <1>1, StandingOf DEF Attempt, Queue!Attempt, AttemptInv
  <2>3. Ledger!Try(d)
    BY <1>1, <2>1, <2>2 DEF Ledger!Try, Attempt, Queue!Attempt
  <2> QED
    BY <2>3 DEF Ledger!Next, Ledger!Deliveries, Deliveries
<1>2. ASSUME running # None, running' = None, queue' = queue \ {running},
             UNCHANGED <<attempts, callVars, record, dropped>>
      PROVE  Ledger!Next
  <2>1. PICK t \in Deliveries : t = running
    BY <1>0, <1>2
  <2>2. Standing(t) = "pending" /\ attempts[t] > 0 /\ t \notin Unqueued
    BY <2>1, StandingOf
  <2>3. Unqueued' = Unqueued /\ queue' = queue \ {t} /\ UNCHANGED <<attempts, record, dropped>>
    BY <1>2, <2>1 DEF Unqueued
  <2>4. Standing(t)' = "settled"
    BY <2>2, <2>3 DEF Standing, Recorded
  <2>5. \A d \in Deliveries \ {t} : Standing(d)' = Standing(d)
    BY <2>3 DEF Standing, Recorded
  <2>6. Ledger!Settle(t)
    BY <2>2, <2>3, <2>4, <2>5 DEF Ledger!Settle, Ledger!Deliveries, Deliveries
  <2> QED
    BY <2>6 DEF Ledger!Next, Ledger!Deliveries, Deliveries
<1>3. ASSUME UNCHANGED <<queue, attempts, callVars, dropped>>,
             \A d \in Deliveries : Recorded(d)' = Recorded(d)
      PROVE  UNCHANGED Ledger!vars
  BY <1>3, Stutter DEF Standing, Unqueued
<1>4. CASE BadRequest \/ BodyUnreadable \/ PostFails \/ Return
  BY <1>2, <1>3, <1>4 DEF BadRequest, BodyUnreadable, PostFails, Return,
                          Queue!Done, Queue!Fail, Recorded
<1>5. CASE UpdateFails \/ \E a \in {"retry", "final"} : PostAnswered(a)
  BY <1>3, <1>5 DEF UpdateFails, PostAnswered, Recorded
<1>6. CASE UpdateRecord
  <2>1. running \in Deliveries /\ Recorded(running) /\ answer # "absent"
    BY <1>0, <1>6 DEF UpdateRecord, WorkerInv, IInv, RecordInv
  <2>2. \A d \in Deliveries : Recorded(d)' = Recorded(d)
    BY <1>0, <1>6, <2>1 DEF UpdateRecord, Recorded
  <2> QED
    BY <1>3, <1>6, <2>2 DEF UpdateRecord
<1> QED
  BY <1>1, <1>4, <1>5, <1>6 DEF DeliverPayload

LEMMA DaemonRefines ==
  ASSUME IInv, Interrupt \/ ShutdownReturns \/ JoinReturns \/ Kill \/ Restart
  PROVE  Ledger!Next \/ UNCHANGED Ledger!vars
<1> USE Pairs DEF TypeOK, Queue!TypeOK
<1>0. TypeOK /\ DaemonInv
  BY DEF IInv
<1>1. CASE Interrupt \/ ShutdownReturns \/ Restart
  <2>1. UNCHANGED <<queue, attempts, callVars, record, dropped>>
    BY <1>0, <1>1 DEF Interrupt, ShutdownReturns, Restart, Server!Restart, Queue!Refuse,
                      Queue!Reopen, DaemonInv
  <2> QED
    BY <2>1, Stutter DEF Standing, Recorded, Unqueued
<1>2. CASE ProcessEnds
  <2>1. PICK D \in SUBSET Deliveries : D = queue \cup Unqueued
    BY <1>0 DEF Unqueued
  <2>2. queue' = {} /\ Unqueued' = {}
    BY <1>0, <1>2 DEF ProcessEnds, Queue!Lose, Unqueued, InFlight
  <2>3. UNCHANGED <<attempts, record>> /\ dropped' = dropped \cup D
    BY <1>2, <2>1 DEF ProcessEnds, Queue!Lose
  <2>4. \A d \in D : Standing(d) = "pending" /\ Recorded(d)
    BY <2>1, StandingOf DEF Standing
  <2>5. \A d \in D : Standing(d)' = "dropped"
    BY <2>3, <2>4 DEF Standing, Recorded
  <2>6. \A d \in Deliveries \ D : Standing(d)' = Standing(d)
    BY <2>1, <2>2, <2>3 DEF Standing, Recorded
  <2>7. Ledger!Drop(D)
    BY <2>1, <2>3, <2>4, <2>5, <2>6 DEF Ledger!Drop, Ledger!Deliveries, Deliveries
  <2> QED
    BY <2>7 DEF Ledger!Next, Ledger!Deliveries, Deliveries
<1> QED
  BY <1>1, <1>2 DEF JoinReturns, Kill

\* The native webhook queue keeps the promise of the ledger.
THEOREM Implements == Spec => ImplementsLedger
<1>1. Init => Ledger!Init
  BY Pairs DEF Init, Queue!Init, Ledger!Init, Ledger!Deliveries, Deliveries, Standing, Recorded
<1>2. IInv /\ [Next]_vars => [Ledger!Next]_(Ledger!vars)
  <2>1. ASSUME UNCHANGED vars PROVE UNCHANGED Ledger!vars
    BY <2>1, Stutter DEF Standing, Recorded, Unqueued
  <2> QED
    BY <2>1, ScheduleRefines, TaskRefines, DaemonRefines DEF Next
<1> QED
  BY <1>1, <1>2, Invariance, PTL DEF Spec, ImplementsLedger, Ledger!Spec
=============================================================================
