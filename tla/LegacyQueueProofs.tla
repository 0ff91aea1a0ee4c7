-------------------------- MODULE LegacyQueueProofs -------------------------
(***************************************************************************)
(* Proofs about LegacyQueue, for every set of calls and every value of its *)
(* bounds.  IInv is an inductive invariant: it says what the handlers, the *)
(* preparation task of each call, its delivery tasks and the delivery      *)
(* table have to agree on between any two steps.                           *)
(***************************************************************************)
EXTENDS LegacyQueue, TLAPS

\* The goroutine is in a preparation task or in deliverPayload exactly while
\* such a task is running, and that task is still in the queue.
WorkerInv ==
  /\ running = None <=> step = "idle"
  /\ running # None => running \in queue
  /\ step \in {"stage2", "enqueue"} => running[2] = 0 /\ i <= subs[Call] + 1
  /\ step \in {"request", "answered", "recorded"} => running[2] # 0
  /\ step \notin {"stage2", "enqueue"} => i = 1
  /\ IF step \in {"answered", "recorded"}
       THEN answer \in {"retry", "final"} ELSE answer = "none"

\* Nothing outlives the process, and the queue is open until work.Join.
DaemonInv ==
  /\ ~Server!Alive => queue = {} /\ \A c \in Calls : ~InFlight(c)
  /\ accepting <=> phase \in {"running", "draining"}

\* A call has one preparation task, enqueued when its handler is about to
\* return and attempted once, and nothing is recorded before it has run.
PrepareInvOf(c) ==
  /\ pc[c] \in {"none", "handling", "fetched"} =>
       <<c, 0>> \notin queue /\ attempts[<<c, 0>>] = 0
  /\ pc[c] = "fetched" \/ <<c, 0>> \in queue => 1 <= subs[c]
  /\ <<c, 0>> \in queue /\ <<c, 0>> # running => attempts[<<c, 0>>] = 0
  /\ attempts[<<c, 0>>] = 0 \/ (running = <<c, 0>> /\ step = "stage2") =>
       \A k \in 1..MaxSubs : ~Recorded(<<c, k>>)
  /\ running = <<c, 0>> => attempts[<<c, 0>>] = 1
  /\ running = <<c, 0>> /\ step = "enqueue" =>
       \A k \in 1..MaxSubs : Recorded(<<c, k>>) <=> k <= subs[c]

PrepareInv == \A c \in Calls : PrepareInvOf(c)

\* A task exists, was attempted or was lost only if its record was committed,
\* a lost task is not in the queue, a response takes an attempt, and the tasks
\* still to be enqueued do not exist yet.
RecordInv ==
  \A d \in Deliveries :
    /\ d \in queue \/ d \in dropped \/ attempts[d] > 0 => Recorded(d)
    /\ d \in queue => d \notin dropped
    /\ record[d] \in {"retry", "final"} => attempts[d] > 0
    /\ d \in Unqueued => d \notin queue /\ d \notin dropped /\ attempts[d] = 0

\* A task has been attempted at most MaxAttempts times, a waiting one less.
AttemptInv ==
  \A d \in Deliveries :
    /\ attempts[d] <= MaxAttempts
    /\ d \in queue /\ d # running => attempts[d] < MaxAttempts
    /\ d = running => attempts[d] > 0

\* Every recorded delivery is still to be enqueued, in the queue, lost, or was
\* attempted.
NoSilentLoss ==
  \A d \in Deliveries :
    Recorded(d) => d \in Unqueued \/ d \in queue \/ d \in dropped \/ attempts[d] > 0

\* A record with a final response has no task but the one about to return.
FinalInv ==
  \A d \in Deliveries :
    record[d] = "final" /\ d \in queue =>
      running = d /\ step = "recorded" /\ answer = "final"

\* What every step preserves beside the types.
Strengthening ==
  /\ WorkerInv
  /\ DaemonInv
  /\ PrepareInv
  /\ RecordInv
  /\ AttemptInv
  /\ NoSilentLoss
  /\ FinalInv

IInv == TypeOK /\ Strengthening

-----------------------------------------------------------------------------
USE DEF vars, serverVars, queueVars, callVars, taskVars

\* A delivery task is the pair of its call and its subscription, a preparation
\* task that of its call and 0.
LEMMA Pairs ==
  /\ \A d \in Deliveries : d[1] \in Calls /\ d[2] \in 1..MaxSubs /\ d = <<d[1], d[2]>>
                           /\ d \in Tasks /\ d[2] # 0
  /\ \A t \in Tasks : t[1] \in Calls /\ t[2] \in 0..MaxSubs /\ t = <<t[1], t[2]>>
                      /\ (t[2] # 0 => t \in Deliveries)
  /\ \A c \in Calls, k \in 1..MaxSubs : <<c, k>> \in Deliveries
  /\ \A c \in Calls : <<c, 0>> \in Tasks /\ <<c, 0>> \notin Deliveries
<1> USE BoundsAssumption DEF Deliveries, Tasks
<1>1. \A d \in Deliveries : d[1] \in Calls /\ d[2] \in 1..MaxSubs /\ d = <<d[1], d[2]>>
  OBVIOUS
<1>2. \A t \in Tasks : t[1] \in Calls /\ t[2] \in 0..MaxSubs /\ t = <<t[1], t[2]>>
  OBVIOUS
<1>3. \A c \in Calls, k \in 1..MaxSubs : <<c, k>> \in Deliveries /\ <<c, k>> \in Tasks
  OBVIOUS
<1>4. \A c \in Calls : <<c, 0>> \in Tasks /\ <<c, 0>> \notin Deliveries
  OBVIOUS
<1>5. \A n \in 0..MaxSubs : n # 0 => n \in 1..MaxSubs
  OBVIOUS
<1> HIDE DEF Deliveries, Tasks
<1> QED
  BY <1>1, <1>2, <1>3, <1>4, <1>5

LEMMA NextIndex ==
  ASSUME NEW m \in Nat, NEW n \in Nat
  PROVE  m <= n <=> m + 1 <= n \/ n = m
OBVIOUS

LEMMA InitIInv == Init => IInv
<1> SUFFICES ASSUME Init PROVE IInv
  OBVIOUS
<1> USE BoundsAssumption, NoneAssumption DEF Init, Server!Init, Queue!Init
<1>1. TypeOK
  <2>1. Server!TypeOK /\ Queue!TypeOK
    BY DEF Server!TypeOK, Server!Phases, Queue!TypeOK
  <2>2. /\ pc \in [Calls -> PCs] /\ subs \in [Calls -> 0..MaxSubs]
        /\ i \in 1..(MaxSubs + 1) /\ step \in Steps
        /\ record \in [Deliveries -> {"absent", "unset", "retry", "final"}]
    BY DEF PCs, Steps
  <2> QED
    BY <2>1, <2>2 DEF TypeOK
<1>2. WorkerInv /\ DaemonInv
  BY DEF WorkerInv, DaemonInv, Server!Alive
<1>3. PrepareInv
  BY Pairs DEF PrepareInv, PrepareInvOf, Recorded
<1>4. RecordInv /\ AttemptInv /\ NoSilentLoss /\ FinalInv
  BY Pairs DEF RecordInv, AttemptInv, NoSilentLoss, FinalInv, Recorded, Unqueued
<1> QED
  BY <1>1, <1>2, <1>3, <1>4 DEF IInv, Strengthening

LEMMA TypeNext == IInv /\ [Next]_vars => TypeOK'
<1> SUFFICES ASSUME IInv, [Next]_vars PROVE TypeOK'
  OBVIOUS
<1> USE BoundsAssumption
    DEF TypeOK, Server!TypeOK, Queue!TypeOK, Server!Phases, PCs, Steps
<1>0. TypeOK /\ WorkerInv
  BY DEF IInv, Strengthening
<1>1. ASSUME NEW c \in Calls, Arrive(c) \/ Schedule(c) PROVE TypeOK'
  <2>1. CASE Arrive(c)
    BY <1>0, <2>1 DEF Arrive
  <2>2. ASSUME NEW n \in 0..MaxSubs, FetchSubscriptions(c, n) PROVE TypeOK'
    BY <1>0, <2>2 DEF FetchSubscriptions
  <2>3. CASE FetchPanics(c)
    BY <1>0, <2>3 DEF FetchPanics
  <2>4. CASE EnqueuePrepare(c)
    BY <1>0, <2>4, Pairs DEF EnqueuePrepare, Queue!Enqueue
  <2> QED
    BY <1>1, <2>1, <2>2, <2>3, <2>4 DEF Schedule
<1>2. ASSUME NEW t \in Tasks, Attempt(t) PROVE TypeOK'
  BY <1>0, <1>2 DEF Attempt, Queue!Attempt
<1>3. ASSUME step \in {"stage2", "enqueue"} PROVE Call \in Calls /\ subs[Call] \in 0..MaxSubs
  BY <1>0, <1>3, Pairs DEF WorkerInv, Call
<1>4. CASE QueueStage2
  BY <1>0, <1>3, <1>4 DEF QueueStage2
<1>5. CASE Commit
  BY <1>0, <1>5 DEF Commit
<1>6. CASE EnqueueTask
  <2>1. <<Call, i>> \in Deliveries
    BY <1>0, <1>3, <1>6, Pairs DEF EnqueueTask
  <2>2. i + 1 \in 1..(MaxSubs + 1)
    BY <1>0, <1>3, <1>6 DEF EnqueueTask
  <2> QED
    BY <1>0, <1>6, <2>1, <2>2, Pairs DEF EnqueueTask, Queue!Enqueue
<1>7. CASE Stage2Fails \/ Prepared \/ BadRequest \/ BodyUnreadable \/ UpdateFails
           \/ PostFails \/ Return
  BY <1>0, <1>7 DEF Stage2Fails, Prepared, BadRequest, BodyUnreadable, UpdateFails, PostFails,
                    Return, Queue!Done, Queue!Fail, Idle
<1>8. ASSUME NEW a \in {"retry", "final"}, PostAnswered(a) PROVE TypeOK'
  BY <1>0, <1>8 DEF PostAnswered
<1>9. CASE UpdateRecord
  BY <1>0, <1>9 DEF UpdateRecord, WorkerInv
<1>10. CASE Interrupt \/ ShutdownReturns \/ Restart
  BY <1>0, <1>10 DEF Interrupt, Server!Interrupt, ShutdownReturns, Server!ShutdownReturns,
                     Queue!Refuse, Restart, Server!Restart, Queue!Reopen
<1>11. CASE JoinReturns \/ Kill
  <2>1. Unqueued \subseteq Deliveries
    BY DEF Unqueued, Batch
  <2>2. ProcessEnds /\ phase' \in {"exited", "killed"} /\ overran' = FALSE
    BY <1>11 DEF JoinReturns, Server!JoinReturns, Kill, Server!Kill
  <2>3. dropped' \subseteq Deliveries
    BY <1>0, <2>1, <2>2 DEF ProcessEnds
  <2>4. pc' \in [Calls -> PCs]
    BY <1>0, <2>2 DEF ProcessEnds
  <2>5. /\ queue' = {} /\ running' = None /\ accepting' = FALSE
        /\ step' = "idle" /\ answer' = "none" /\ i' = 1
        /\ UNCHANGED <<attempts, subs, record>>
    BY <2>2 DEF ProcessEnds, Queue!Lose, Idle
  <2>6. i' \in 1..(MaxSubs + 1)
    BY <2>5
  <2> QED
    BY <1>0, <2>2, <2>3, <2>4, <2>5, <2>6
<1>12. CASE UNCHANGED vars
  BY <1>0, <1>12
<1> QED
  BY <1>1, <1>2, <1>4, <1>5, <1>6, <1>7, <1>8, <1>9, <1>10, <1>11, <1>12
    DEF Next, Prepare, DeliverPayload

LEMMA HandlerNext ==
  ASSUME IInv, TypeOK', NEW c \in Calls, Arrive(c) \/ Schedule(c)
  PROVE  Strengthening'
<1> USE BoundsAssumption, NoneAssumption, Pairs
    DEF TypeOK, Server!TypeOK, Queue!TypeOK, PCs, IInv, Strengthening, Recorded,
        InFlight, Server!Alive
<1>1. ASSUME pc[c] \in {"none", "handling"},
             \A e \in Calls : e # c => pc'[e] = pc[e] /\ subs'[e] = subs[e],
             InFlight(c)' => Server!Alive, pc'[c] = "fetched" => 1 <= subs'[c],
             UNCHANGED <<serverVars, queueVars, record, taskVars, dropped>>
      PROVE  Strengthening'
  <2>1. <<c, 0>> \notin queue /\ running # <<c, 0>>
    BY <1>1 DEF PrepareInv, PrepareInvOf, WorkerInv
  <2>2. step \in {"stage2", "enqueue"} => subs'[Call] = subs[Call]
    BY <1>1, <2>1 DEF WorkerInv, Call
  <2>3. Unqueued' = Unqueued
    <3>1. CASE step = "enqueue"
      <4>1. Batch' = Batch
        BY <1>1, <2>2, <3>1 DEF Batch, Call
      <4> QED
        BY <1>1, <4>1 DEF Unqueued
    <3> QED
      BY <1>1, <3>1 DEF Unqueued
  <2>4. WorkerInv' /\ DaemonInv'
    BY <1>1, <2>2 DEF WorkerInv, DaemonInv, Call
  <2>5. ASSUME NEW e \in Calls PROVE PrepareInvOf(e)'
    <3>1. PrepareInvOf(e)
      BY DEF PrepareInv
    <3>2. CASE e = c
      BY <1>1, <2>1, <3>1, <3>2 DEF PrepareInvOf
    <3>3. CASE e # c
      <4>1. pc'[e] = pc[e] /\ subs'[e] = subs[e]
        BY <1>1, <3>3
      <4> QED
        BY <1>1, <3>1, <4>1 DEF PrepareInvOf
    <3> QED
      BY <3>2, <3>3
  <2>6. RecordInv' /\ AttemptInv' /\ NoSilentLoss' /\ FinalInv'
    BY <1>1, <2>3 DEF RecordInv, AttemptInv, NoSilentLoss, FinalInv
  <2> QED
    BY <2>4, <2>5, <2>6 DEF PrepareInv
<1>2. CASE Arrive(c) \/ FetchPanics(c)
  BY <1>1, <1>2 DEF Arrive, FetchPanics, DaemonInv
<1>3. ASSUME NEW n \in 0..MaxSubs, FetchSubscriptions(c, n) PROVE Strengthening'
  BY <1>1, <1>3 DEF FetchSubscriptions, DaemonInv
<1>4. CASE EnqueuePrepare(c)
  <2>1. /\ queue' \in {queue, queue \cup {<<c, 0>>}}
        /\ pc' = [pc EXCEPT ![c] = "returned"]
        /\ UNCHANGED <<serverVars, accepting, running, attempts, subs, record, taskVars, dropped>>
    BY <1>4 DEF EnqueuePrepare, Queue!Enqueue
  <2>2. <<c, 0>> \notin queue /\ attempts[<<c, 0>>] = 0 /\ 1 <= subs[c]
    BY <1>4 DEF EnqueuePrepare, PrepareInv, PrepareInvOf
  <2>3. Unqueued' = Unqueued
    BY <2>1 DEF Unqueued, Batch, Call
  <2>4. WorkerInv' /\ DaemonInv'
    BY <1>4, <2>1 DEF WorkerInv, DaemonInv, Call, EnqueuePrepare
  <2>5. ASSUME NEW e \in Calls PROVE PrepareInvOf(e)'
    <3>1. PrepareInvOf(e)
      BY DEF PrepareInv
    <3>2. CASE e = c
      BY <2>1, <2>2, <3>1, <3>2 DEF PrepareInvOf
    <3>3. CASE e # c
      <4>1. pc'[e] = pc[e] /\ (<<e, 0>> \in queue' <=> <<e, 0>> \in queue)
        BY <2>1, <3>3
      <4> QED
        BY <2>1, <3>1, <4>1 DEF PrepareInvOf
    <3> QED
      BY <3>2, <3>3
  <2>6. \A d \in Deliveries : d \in queue' <=> d \in queue
    BY <2>1
  <2>7. RecordInv' /\ AttemptInv' /\ NoSilentLoss' /\ FinalInv'
    BY <2>1, <2>3, <2>6 DEF RecordInv, AttemptInv, NoSilentLoss, FinalInv
  <2> QED
    BY <2>4, <2>5, <2>7 DEF PrepareInv
<1> QED
  BY <1>2, <1>3, <1>4 DEF Schedule

LEMMA PrepareNext ==
  ASSUME IInv, TypeOK', Prepare
  PROVE  Strengthening'
<1> USE BoundsAssumption, NoneAssumption, Pairs
    DEF TypeOK, Server!TypeOK, Queue!TypeOK, IInv, Strengthening, Recorded,
        InFlight, Server!Alive
<1>a. PICK c \in Calls : running = <<c, 0>> /\ Call = c
  BY DEF Prepare, QueueStage2, Stage2Fails, Commit, EnqueueTask, Prepared, WorkerInv, Call
<1>0. /\ step \in {"stage2", "enqueue"} /\ <<c, 0>> \in queue
      /\ i <= subs[c] + 1 /\ 1 <= subs[c] /\ subs[c] <= MaxSubs
      /\ attempts[<<c, 0>>] = 1 /\ pc[c] \notin {"none", "handling", "fetched"}
      /\ Server!Alive /\ answer = "none"
  <2>1. PrepareInvOf(c) /\ WorkerInv /\ DaemonInv
    BY DEF PrepareInv
  <2> QED
    BY <1>a, <2>1 DEF Prepare, QueueStage2, Stage2Fails, Commit, EnqueueTask, Prepared,
                      WorkerInv, PrepareInvOf, DaemonInv
<1>b. \A e \in Calls : PrepareInvOf(e) /\ (e # c => <<e, 0>> # running)
  BY <1>a DEF PrepareInv
<1>1. CASE QueueStage2
  <2>1. Unqueued' = Unqueued /\ Unqueued = {}
    BY <1>1 DEF QueueStage2, Unqueued
  <2>2. WorkerInv'
    BY <1>a, <1>0, <1>1 DEF QueueStage2, WorkerInv, Call
  <2>3. DaemonInv' /\ PrepareInv'
    BY <1>1 DEF QueueStage2, DaemonInv, PrepareInv, PrepareInvOf
  <2>4. RecordInv' /\ AttemptInv' /\ NoSilentLoss' /\ FinalInv'
    BY <1>1, <2>1 DEF QueueStage2, RecordInv, AttemptInv, NoSilentLoss, FinalInv
  <2> QED
    BY <2>2, <2>3, <2>4
<1>2. ASSUME queue' = queue \ {running}, running' = None, Idle, Unqueued = {},
             UNCHANGED <<accepting, attempts, serverVars, callVars, record, dropped>>
      PROVE  Strengthening'
  <2>1. Unqueued' = {}
    BY <1>2 DEF Idle, Unqueued
  <2>2. WorkerInv' /\ DaemonInv'
    BY <1>a, <1>0, <1>2 DEF Idle, WorkerInv, DaemonInv
  <2>3. ASSUME NEW e \in Calls PROVE PrepareInvOf(e)'
    <3>1. CASE e = c
      BY <1>a, <1>b, <1>0, <1>2, <3>1 DEF Idle, PrepareInvOf
    <3>2. CASE e # c
      BY <1>a, <1>b, <1>2, <3>2 DEF Idle, PrepareInvOf
    <3> QED
      BY <3>1, <3>2
  <2>4. RecordInv' /\ AttemptInv' /\ NoSilentLoss' /\ FinalInv'
    BY <1>a, <1>0, <1>2, <2>1 DEF RecordInv, AttemptInv, NoSilentLoss, FinalInv
  <2> QED
    BY <2>2, <2>3, <2>4 DEF PrepareInv
<1>3. CASE Stage2Fails \/ Prepared
  <2>1. Unqueued = {}
    BY <1>3, <1>0 DEF Stage2Fails, Prepared, Unqueued, Batch
  <2>2. ~(attempts[running] < 1)
    BY <1>a, <1>0
  <2> QED
    BY <1>2, <1>3, <2>1, <2>2 DEF Stage2Fails, Prepared, Queue!Done, Queue!Fail
<1>4. CASE Commit
  <2>1. \A k \in 1..MaxSubs : ~Recorded(<<c, k>>)
    BY <1>a, <1>0, <1>4 DEF Commit, PrepareInv, PrepareInvOf
  <2>2. /\ Unqueued = {} /\ Unqueued' = Batch
        /\ \A d \in Deliveries : d \in Batch <=> d[1] = c /\ d[2] <= subs[c]
    BY <1>a, <1>4 DEF Commit, Unqueued, Batch, Call
  <2>3. \A d \in Batch : d \notin queue /\ d \notin dropped /\ attempts[d] = 0
    <3> SUFFICES ASSUME NEW d \in Deliveries, d[1] = c, d[2] <= subs[c]
                 PROVE  d \notin queue /\ d \notin dropped /\ attempts[d] = 0
      BY <2>2 DEF Batch
    <3>1. d = <<c, d[2]>> /\ d[2] \in 1..MaxSubs
      OBVIOUS
    <3>2. ~Recorded(d)
      BY <2>1, <3>1
    <3> QED
      BY <3>2 DEF RecordInv
  <2>4. WorkerInv' /\ DaemonInv'
    BY <1>a, <1>0, <1>4 DEF Commit, WorkerInv, DaemonInv, Call
  <2>5. ASSUME NEW e \in Calls PROVE PrepareInvOf(e)'
    <3>1. \A k \in 1..MaxSubs : Recorded(<<e, k>>)' <=>
                                  (e = c /\ k <= subs[c]) \/ Recorded(<<e, k>>)
      BY <1>4, <2>2 DEF Commit
    <3>2. CASE e = c
      BY <1>a, <1>b, <1>0, <1>4, <2>1, <3>1, <3>2 DEF Commit, PrepareInvOf
    <3>3. CASE e # c
      BY <1>a, <1>b, <1>4, <3>1, <3>3 DEF Commit, PrepareInvOf
    <3> QED
      BY <3>2, <3>3
  <2>6. RecordInv' /\ AttemptInv' /\ NoSilentLoss' /\ FinalInv'
    BY <1>a, <1>0, <1>4, <2>2, <2>3 DEF Commit, RecordInv, AttemptInv, NoSilentLoss, FinalInv
  <2> QED
    BY <2>4, <2>5, <2>6 DEF PrepareInv
<1>5. CASE EnqueueTask
  <2> DEFINE t == <<c, i>>
  <2>1. t \in Deliveries /\ t \in Unqueued /\ i <= subs[c] /\ step = "enqueue"
    BY <1>a, <1>0, <1>5 DEF EnqueueTask, Unqueued, Batch
  <2>2. t \notin queue /\ t \notin dropped /\ attempts[t] = 0 /\ Recorded(t) /\ running # t
    BY <1>a, <1>0, <2>1 DEF RecordInv, PrepareInv, PrepareInvOf
  <2>3. /\ \/ queue' = queue \cup {t} /\ dropped' = dropped
           \/ queue' = queue /\ dropped' = dropped \cup {t}
        /\ i' = i + 1
        /\ UNCHANGED <<serverVars, accepting, running, attempts, callVars, record, step, answer>>
    BY <1>a, <1>5 DEF EnqueueTask, Queue!Enqueue
  <2>4. Unqueued' = Unqueued \ {t}
    <3>1. Batch' = Batch
      BY <1>a, <2>3 DEF Batch, Call
    <3>2. \A d \in Batch : i <= d[2] <=> i + 1 <= d[2] \/ d = t
      <4> SUFFICES ASSUME NEW d \in Batch
                   PROVE  i <= d[2] <=> i + 1 <= d[2] \/ d = t
        OBVIOUS
      <4>1. d = <<c, d[2]>> /\ d[2] \in Nat /\ i \in Nat
        BY <1>a DEF Batch
      <4>2. d = t <=> d[2] = i
        BY <4>1
      <4>3. i <= d[2] <=> i + 1 <= d[2] \/ d[2] = i
        BY <4>1, NextIndex
      <4> QED
        BY <4>2, <4>3
    <3> QED
      BY <1>a, <2>1, <2>3, <3>1, <3>2 DEF Unqueued, Batch
  <2>5. WorkerInv' /\ DaemonInv'
    BY <1>a, <1>0, <2>1, <2>3 DEF WorkerInv, DaemonInv, Call
  <2>6. ASSUME NEW e \in Calls PROVE PrepareInvOf(e)'
    <3>1. <<e, 0>> \in queue' <=> <<e, 0>> \in queue
      BY <2>1, <2>3
    <3> QED
      BY <1>b, <2>3, <3>1 DEF PrepareInvOf
  <2>7. record[t] # "final"
    BY <2>1, <2>2 DEF RecordInv
  <2> HIDE DEF t
  <2>8. RecordInv' /\ NoSilentLoss'
    BY <2>1, <2>2, <2>3, <2>4 DEF RecordInv, NoSilentLoss
  <2>9. AttemptInv' /\ FinalInv'
    BY <2>2, <2>3, <2>7 DEF AttemptInv, FinalInv
  <2> QED
    BY <2>5, <2>6, <2>8, <2>9 DEF PrepareInv
<1> QED
  BY <1>1, <1>3, <1>4, <1>5 DEF Prepare

LEMMA DeliverNext ==
  ASSUME IInv, TypeOK', DeliverPayload \/ \E t \in Tasks : Attempt(t)
  PROVE  Strengthening'
<1> USE BoundsAssumption, NoneAssumption, Pairs
    DEF TypeOK, Server!TypeOK, Queue!TypeOK, IInv, Strengthening, Recorded,
        InFlight, Server!Alive
<1>1. ASSUME NEW t \in Tasks, Attempt(t) PROVE Strengthening'
  <2>0. step = "idle" /\ running = None /\ t \in queue /\ step' # "enqueue" /\ Unqueued = {}
    BY <1>1 DEF Attempt, Queue!Attempt, WorkerInv, Unqueued
  <2>1. /\ running' = t /\ attempts' = [attempts EXCEPT ![t] = @ + 1]
        /\ step' = IF t[2] = 0 THEN "stage2" ELSE "request"
        /\ UNCHANGED <<serverVars, accepting, queue, callVars, record, i, answer, dropped>>
    BY <1>1 DEF Attempt, Queue!Attempt
  <2>2. Unqueued' = {}
    BY <2>0 DEF Unqueued
  <2>3. \A c \in Calls : t = <<c, 0>> => pc[c] \notin {"none", "handling", "fetched"}
                                          /\ attempts[t] = 0 /\ 1 <= subs[c]
    BY <2>0 DEF PrepareInv, PrepareInvOf
  <2>4. WorkerInv' /\ DaemonInv'
    BY <2>0, <2>1, <2>3 DEF WorkerInv, DaemonInv, Call
  <2>5. ASSUME NEW c \in Calls PROVE PrepareInvOf(c)'
    <3>1. PrepareInvOf(c)
      BY DEF PrepareInv
    <3>2. CASE t = <<c, 0>>
      BY <2>0, <2>1, <2>3, <3>1, <3>2 DEF PrepareInvOf
    <3>3. CASE t # <<c, 0>>
      <4>1. attempts'[<<c, 0>>] = attempts[<<c, 0>>]
        BY <2>1, <3>3
      <4> QED
        BY <2>0, <2>1, <3>1, <3>3, <4>1 DEF PrepareInvOf
    <3> QED
      BY <3>2, <3>3
  <2>6. RecordInv' /\ AttemptInv' /\ NoSilentLoss' /\ FinalInv'
    BY <2>0, <2>1, <2>2 DEF RecordInv, AttemptInv, NoSilentLoss, FinalInv
  <2> QED
    BY <2>4, <2>5, <2>6 DEF PrepareInv
<1>2. ASSUME running[2] # 0, running # None, running' = None, Idle,
             \/ queue' = queue \ {running}
             \/ queue' = queue /\ attempts[running] < MaxAttempts /\ answer # "final",
             UNCHANGED <<accepting, attempts, serverVars, callVars, record, dropped>>,
             step \in {"request", "answered", "recorded"}
      PROVE  Strengthening'
  <2>1. Unqueued' = {} /\ Unqueued = {}
    BY <1>2 DEF Idle, Unqueued
  <2>2. \A c \in Calls : <<c, 0>> # running /\ (<<c, 0>> \in queue' <=> <<c, 0>> \in queue)
    <3>1. \A c \in Calls : <<c, 0>> # running
      BY <1>2
    <3> QED
      BY <1>2, <3>1
  <2>3. WorkerInv' /\ DaemonInv'
    BY <1>2 DEF Idle, WorkerInv, DaemonInv
  <2>4. ASSUME NEW c \in Calls PROVE PrepareInvOf(c)'
    BY <1>2, <2>2 DEF PrepareInv, PrepareInvOf, Idle
  <2>5. RecordInv'
    BY <1>2, <2>1 DEF RecordInv
  <2>6. AttemptInv'
    BY <1>2 DEF AttemptInv, WorkerInv
  <2>7. NoSilentLoss'
    BY <1>2, <2>1 DEF NoSilentLoss, AttemptInv, WorkerInv, RecordInv
  <2>8. FinalInv'
    BY <1>2 DEF FinalInv
  <2> QED
    BY <2>3, <2>4, <2>5, <2>6, <2>7, <2>8 DEF PrepareInv
<1>3. ASSUME step \in {"request", "answered", "recorded"},
             step' \in {"request", "answered", "recorded"}, WorkerInv', FinalInv',
             \A d \in Deliveries : Recorded(d)' = Recorded(d),
             \A d \in Deliveries : record'[d] \in {"retry", "final"} => attempts[d] > 0,
             UNCHANGED <<serverVars, queueVars, callVars, i, dropped>>
      PROVE  Strengthening'
  <2>1. Unqueued' = {} /\ Unqueued = {}
    BY <1>3 DEF Unqueued
  <2>2. DaemonInv'
    BY <1>3 DEF DaemonInv
  <2>3. ASSUME NEW c \in Calls PROVE PrepareInvOf(c)'
    <3>1. \A k \in 1..MaxSubs : Recorded(<<c, k>>)' = Recorded(<<c, k>>)
      BY <1>3
    <3> HIDE DEF Recorded
    <3> QED
      BY <1>3, <3>1 DEF PrepareInv, PrepareInvOf
  <2>4. RecordInv' /\ AttemptInv' /\ NoSilentLoss'
    BY <1>3, <2>1 DEF RecordInv, AttemptInv, NoSilentLoss
  <2> QED
    BY <1>3, <2>2, <2>3, <2>4 DEF PrepareInv
<1>4. ASSUME NEW a \in {"retry", "final"}, PostAnswered(a) PROVE Strengthening'
  BY <1>3, <1>4 DEF PostAnswered, WorkerInv, FinalInv, RecordInv
<1>5. CASE UpdateRecord
  <2>1. running \in Deliveries /\ Recorded(running) /\ attempts[running] > 0
        /\ answer \in {"retry", "final"} /\ step = "answered"
    BY <1>5 DEF UpdateRecord, WorkerInv, RecordInv, AttemptInv
  <2>2. /\ record' = [record EXCEPT ![running] = answer] /\ step' = "recorded"
        /\ UNCHANGED <<serverVars, queueVars, callVars, i, answer, dropped>>
    BY <1>5 DEF UpdateRecord
  <2>3. WorkerInv' /\ FinalInv'
    BY <2>1, <2>2 DEF WorkerInv, FinalInv, Call
  <2>4. \A d \in Deliveries : Recorded(d)' = Recorded(d)
    BY <2>1, <2>2
  <2>5. \A d \in Deliveries : record'[d] \in {"retry", "final"} => attempts[d] > 0
    BY <2>1, <2>2 DEF RecordInv
  <2> QED
    BY <1>3, <2>1, <2>2, <2>3, <2>4, <2>5
<1>6. CASE BadRequest \/ BodyUnreadable \/ PostFails \/ UpdateFails \/ Return
  BY <1>2, <1>6 DEF BadRequest, BodyUnreadable, PostFails, UpdateFails, Return, Queue!Done,
                    Queue!Fail, WorkerInv
<1> QED
  BY <1>1, <1>4, <1>5, <1>6 DEF DeliverPayload

LEMMA DaemonNext ==
  ASSUME IInv, TypeOK',
         Interrupt \/ ShutdownReturns \/ JoinReturns \/ Kill \/ Restart
  PROVE  Strengthening'
<1> USE BoundsAssumption, NoneAssumption, Pairs
    DEF TypeOK, Server!TypeOK, Queue!TypeOK, PCs, IInv, Strengthening, Recorded,
        InFlight, Server!Alive
<1>1. CASE Interrupt \/ ShutdownReturns \/ Restart
  <2>1. DaemonInv' /\ UNCHANGED <<queue, running, attempts, callVars, record, taskVars, dropped>>
    BY <1>1 DEF Interrupt, Server!Interrupt, ShutdownReturns, Server!ShutdownReturns,
                Queue!Refuse, Restart, Server!Restart, Queue!Reopen, DaemonInv, WorkerInv
  <2>2. Unqueued' = Unqueued
    BY <2>1 DEF Unqueued, Batch, Call
  <2>3. WorkerInv'
    BY <2>1 DEF WorkerInv, Call
  <2>4. PrepareInv'
    BY <2>1 DEF PrepareInv, PrepareInvOf
  <2>5. RecordInv' /\ AttemptInv' /\ NoSilentLoss' /\ FinalInv'
    BY <2>1, <2>2 DEF RecordInv, AttemptInv, NoSilentLoss, FinalInv
  <2> QED
    BY <2>1, <2>3, <2>4, <2>5
<1>2. ASSUME ProcessEnds, phase' \in {"exited", "killed"} PROVE Strengthening'
  <2>1. /\ queue' = {} /\ running' = None /\ accepting' = FALSE
        /\ step' = "idle" /\ answer' = "none" /\ i' = 1
        /\ dropped' = dropped \cup (queue \cap Deliveries) \cup Unqueued
        /\ UNCHANGED <<attempts, subs, record>>
    BY <1>2 DEF ProcessEnds, Queue!Lose, Idle
  <2>2. \A c \in Calls : pc'[c] = IF InFlight(c) THEN "lost" ELSE pc[c]
    BY <1>2 DEF ProcessEnds
  <2>3. Unqueued' = {} /\ \A d \in Unqueued : d \in Deliveries /\ Recorded(d)
    <3>1. ASSUME NEW d \in Unqueued PROVE d \in Deliveries /\ Recorded(d)
      <4>1. step = "enqueue" /\ d \in Deliveries /\ d = <<Call, d[2]>> /\ d[2] <= subs[Call]
            /\ d[2] \in 1..MaxSubs /\ Call \in Calls
        BY <3>1 DEF Unqueued, Batch
      <4>2. running = <<Call, 0>> /\ PrepareInvOf(Call)
        BY <4>1 DEF WorkerInv, PrepareInv, Call
      <4> QED
        BY <4>1, <4>2 DEF PrepareInvOf
    <3> QED
      BY <2>1, <3>1 DEF Unqueued
  <2>4. WorkerInv'
    BY <2>1 DEF WorkerInv
  <2>5. DaemonInv'
    BY <1>2, <2>1, <2>2 DEF DaemonInv
  <2>6. ASSUME NEW c \in Calls PROVE PrepareInvOf(c)'
    <3>1. PrepareInvOf(c)
      BY DEF PrepareInv
    <3>2. pc'[c] \in {"none", "handling", "fetched"} => pc[c] = pc'[c]
      BY <2>2
    <3>3. pc'[c] # "fetched"
      BY <2>2
    <3> QED
      BY <2>1, <3>1, <3>2, <3>3 DEF PrepareInvOf
  <2>7. RecordInv' /\ AttemptInv'
    BY <2>1, <2>3 DEF RecordInv, AttemptInv
  <2>8. NoSilentLoss' /\ FinalInv'
    BY <2>1, <2>3 DEF NoSilentLoss, FinalInv
  <2> QED
    BY <2>4, <2>5, <2>6, <2>7, <2>8 DEF PrepareInv
<1> QED
  BY <1>1, <1>2 DEF JoinReturns, Server!JoinReturns, Kill, Server!Kill

THEOREM Invariance == Spec => []IInv
<1>1. IInv /\ [Next]_vars => IInv'
  <2> SUFFICES ASSUME IInv, [Next]_vars PROVE IInv'
    OBVIOUS
  <2>1. TypeOK'
    BY TypeNext
  <2>2. Strengthening'
    <3>1. CASE UNCHANGED vars
      <4>1. Unqueued' = Unqueued /\ Call' = Call
        BY <3>1 DEF Unqueued, Batch, Call
      <4> QED
        BY <3>1, <4>1 DEF IInv, Strengthening, WorkerInv, DaemonInv, PrepareInv, PrepareInvOf,
              RecordInv, AttemptInv, NoSilentLoss, FinalInv, Recorded, InFlight, Server!Alive
    <3> QED
      BY <2>1, <3>1, HandlerNext, PrepareNext, DeliverNext, DaemonNext DEF Next
  <2> QED
    BY <2>1, <2>2 DEF IInv
<1> QED
  BY <1>1, InitIInv, PTL DEF Spec

\* The type invariant holds in every reachable state.
THEOREM TypeCorrect == Spec => []TypeOK
BY Invariance, PTL DEF IInv

-----------------------------------------------------------------------------
(***************************************************************************)
(* Action properties                                                       *)
(***************************************************************************)

\* A final response is the end of its delivery.
THEOREM FinalIsFinal == Spec => FinalEndsDelivery
<1> DEFINE A == \A d \in Deliveries : record[d] = "final" => attempts'[d] = attempts[d]
<1>1. IInv /\ [Next]_vars => [A]_vars
  <2> SUFFICES ASSUME IInv, Next, NEW d \in Deliveries, record[d] = "final"
               PROVE  attempts'[d] = attempts[d]
    OBVIOUS
  <2>1. ASSUME NEW t \in Tasks, Attempt(t) PROVE attempts'[d] = attempts[d]
    <3>1. d # t
      BY <2>1, NoneAssumption, Pairs DEF IInv, Strengthening, FinalInv, Attempt, Queue!Attempt
    <3> QED
      BY <2>1, <3>1, Pairs DEF IInv, TypeOK, Queue!TypeOK, Attempt, Queue!Attempt
  <2>2. ASSUME NEW c \in Calls, Arrive(c) \/ Schedule(c) PROVE UNCHANGED attempts
    BY <2>2 DEF Arrive, Schedule, FetchSubscriptions, FetchPanics, EnqueuePrepare, Queue!Enqueue
  <2>3. CASE Prepare
    BY <2>3 DEF Prepare, QueueStage2, Stage2Fails, Commit, EnqueueTask, Prepared,
                Queue!Enqueue, Queue!Done, Queue!Fail
  <2>4. CASE DeliverPayload
    BY <2>4 DEF DeliverPayload, BadRequest, PostFails, BodyUnreadable, PostAnswered,
                UpdateRecord, UpdateFails, Return, Queue!Done, Queue!Fail
  <2>5. CASE Interrupt \/ ShutdownReturns \/ JoinReturns \/ Kill \/ Restart
    BY <2>5 DEF Interrupt, ShutdownReturns, JoinReturns, Kill, Restart, ProcessEnds,
                Queue!Refuse, Queue!Lose, Queue!Reopen
  <2> QED
    BY <2>1, <2>2, <2>3, <2>4, <2>5 DEF Next
<1> QED
  BY <1>1, Invariance, PTL DEF Spec, FinalEndsDelivery

\* No recorded delivery is dropped but by the death of the process or by the
\* queue that work.Join has closed.
THEOREM DroppedForCause == Spec => DropsHaveACause
<1> DEFINE A == dropped' # dropped => phase' = "killed" \/ phase = "joining"
<1>1. IInv /\ [Next]_vars => [A]_vars
  <2> SUFFICES ASSUME IInv, Next PROVE A
    OBVIOUS
  <2>1. ASSUME NEW c \in Calls, Arrive(c) \/ Schedule(c) PROVE A
    BY <2>1 DEF Arrive, Schedule, FetchSubscriptions, FetchPanics, EnqueuePrepare
  <2>2. CASE EnqueueTask
    <3>1. phase \in Server!Phases /\ Server!Alive /\ (accepting <=> phase \in {"running", "draining"})
      BY <2>2, NoneAssumption
         DEF EnqueueTask, IInv, TypeOK, Server!TypeOK, Strengthening, DaemonInv, WorkerInv
    <3> QED
      BY <2>2, <3>1 DEF EnqueueTask, Server!Alive
  <2>3. CASE Prepare /\ ~EnqueueTask
    BY <2>3 DEF Prepare, QueueStage2, Stage2Fails, Commit, Prepared
  <2>4. CASE DeliverPayload \/ \E t \in Tasks : Attempt(t)
    BY <2>4 DEF Attempt, DeliverPayload, BadRequest, PostFails, BodyUnreadable, PostAnswered,
                UpdateRecord, UpdateFails, Return
  <2>5. CASE Interrupt \/ ShutdownReturns \/ JoinReturns \/ Restart \/ Kill
    BY <2>5 DEF Interrupt, ShutdownReturns, JoinReturns, Server!JoinReturns, Restart, Kill,
                Server!Kill
  <2> QED
    BY <2>1, <2>2, <2>3, <2>4, <2>5 DEF Next
<1> QED
  BY <1>1, Invariance, PTL DEF Spec, DropsHaveACause

-----------------------------------------------------------------------------
(***************************************************************************)
(* LegacyQueue implements DeliveryLedger: under the mapping of Ledger      *)
(* every step is a publication, a try, a settlement, a drop, or changes    *)
(* nothing.  What a preparation task does before its commit is invisible   *)
(* to the ledger.                                                          *)
(***************************************************************************)

\* What the steps below need to know of the delivery they change.
LEMMA StandingOf ==
  ASSUME IInv, NEW d \in Deliveries
  PROVE  /\ d \in queue => Standing(d) = "pending" /\ d \notin Unqueued
         /\ d \in Unqueued => Standing(d) = "pending" /\ Recorded(d) /\ d \notin queue
         /\ d \in dropped => Standing(d) = "dropped"
         /\ running = d => attempts[d] > 0 /\ d \in queue
<1> USE Pairs, NoneAssumption
    DEF IInv, Strengthening, TypeOK, Queue!TypeOK, RecordInv
<1>1. d \in Unqueued => Recorded(d)
  <2> SUFFICES ASSUME d \in Unqueued PROVE Recorded(d)
    OBVIOUS
  <2>1. step = "enqueue" /\ d = <<Call, d[2]>> /\ d[2] <= subs[Call]
        /\ d[2] \in 1..MaxSubs /\ Call \in Calls
    BY DEF Unqueued, Batch
  <2>2. running = <<Call, 0>> /\ PrepareInvOf(Call)
    BY <2>1 DEF WorkerInv, PrepareInv, Call
  <2> QED
    BY <2>1, <2>2 DEF PrepareInvOf
<1>2. running = d => attempts[d] > 0 /\ d \in queue
  BY DEF WorkerInv, AttemptInv
<1> QED
  BY <1>1, <1>2 DEF Standing

\* A step that leaves every standing alone is a stutter of the ledger.
LEMMA Stutter ==
  ASSUME \A d \in Deliveries : Standing(d)' = Standing(d),
         \A d \in Deliveries : attempts'[d] = attempts[d]
  PROVE  UNCHANGED Ledger!vars
BY DEF Ledger!vars

\* A step that changes neither the tasks nor the records of the deliveries.
LEMMA Invisible ==
  ASSUME \A d \in Deliveries : /\ d \in queue' <=> d \in queue
                               /\ attempts'[d] = attempts[d]
                               /\ Recorded(d)' = Recorded(d),
         Unqueued' = Unqueued, UNCHANGED dropped
  PROVE  UNCHANGED Ledger!vars
<1>1. \A d \in Deliveries : Standing(d)' = Standing(d)
  BY DEF Standing
<1> QED
  BY <1>1, Stutter

\* What makes a step a try, or a drop, of the ledger.
LEMMA TryOf ==
  ASSUME NEW t \in Deliveries, Standing(t) = "pending", attempts[t] < MaxAttempts,
         \A d \in Deliveries : Standing(d)' = Standing(d),
         \A d \in Deliveries : attempts'[d] = IF d = t THEN attempts[t] + 1 ELSE attempts[d]
  PROVE  Ledger!Next
<1>1. Ledger!Try(t)
  BY DEF Ledger!Try
<1> QED
  BY <1>1 DEF Ledger!Next, Ledger!Deliveries, Deliveries

LEMMA DropOf ==
  ASSUME NEW D \in SUBSET Deliveries, \A d \in D : Standing(d) = "pending",
         \A d \in D : Standing(d)' = "dropped",
         \A d \in Deliveries \ D : Standing(d)' = Standing(d),
         \A d \in Deliveries : attempts'[d] = attempts[d]
  PROVE  Ledger!Next
<1>1. Ledger!Drop(D)
  BY DEF Ledger!Drop, Ledger!Deliveries, Deliveries
<1> QED
  BY <1>1 DEF Ledger!Next, Ledger!Deliveries, Deliveries

LEMMA HandlerRefines ==
  ASSUME IInv, NEW c \in Calls, Arrive(c) \/ Schedule(c)
  PROVE  UNCHANGED Ledger!vars
<1> USE Pairs, NoneAssumption DEF IInv, Strengthening, TypeOK, Queue!TypeOK
<1>1. ASSUME pc[c] \in {"none", "handling"}, \A e \in Calls : e # c => subs'[e] = subs[e],
             UNCHANGED <<queueVars, record, taskVars, dropped>>
      PROVE  UNCHANGED Ledger!vars
  <2>1. Unqueued' = Unqueued
    <3>1. CASE step = "enqueue"
      <4>1. running = <<Call, 0>> /\ Call \in Calls /\ running \in queue
        BY <3>1 DEF WorkerInv, Call
      <4>2. Call # c
        BY <1>1, <4>1 DEF PrepareInv, PrepareInvOf
      <4>3. Batch' = Batch
        BY <1>1, <4>1, <4>2 DEF Batch, Call
      <4> QED
        BY <1>1, <4>3 DEF Unqueued
    <3> QED
      BY <1>1, <3>1 DEF Unqueued
  <2> QED
    BY <1>1, <2>1, Invisible DEF Recorded
<1>2. CASE Arrive(c) \/ FetchPanics(c)
  BY <1>1, <1>2 DEF Arrive, FetchPanics
<1>3. ASSUME NEW n \in 0..MaxSubs, FetchSubscriptions(c, n) PROVE UNCHANGED Ledger!vars
  BY <1>1, <1>3 DEF FetchSubscriptions
<1>4. CASE EnqueuePrepare(c)
  <2>1. /\ queue' \in {queue, queue \cup {<<c, 0>>}}
        /\ UNCHANGED <<running, attempts, subs, record, taskVars, dropped>>
    BY <1>4 DEF EnqueuePrepare, Queue!Enqueue
  <2>2. Unqueued' = Unqueued
    BY <2>1 DEF Unqueued, Batch, Call
  <2> QED
    BY <2>1, <2>2, Invisible DEF Recorded
<1> QED
  BY <1>2, <1>3, <1>4 DEF Schedule

LEMMA PrepareRefines ==
  ASSUME IInv, Prepare
  PROVE  Ledger!Next \/ UNCHANGED Ledger!vars
<1> USE Pairs, NoneAssumption, BoundsAssumption
    DEF IInv, Strengthening, TypeOK, Queue!TypeOK
<1>a. PICK c \in Calls : running = <<c, 0>> /\ Call = c
  BY DEF Prepare, QueueStage2, Stage2Fails, Commit, EnqueueTask, Prepared, WorkerInv, Call
<1>0. i <= subs[c] + 1 /\ subs[c] \in 1..MaxSubs
  <2>1. PrepareInvOf(c) /\ WorkerInv
    BY DEF PrepareInv
  <2> QED
    BY <1>a, <2>1 DEF Prepare, QueueStage2, Stage2Fails, Commit, EnqueueTask, Prepared,
                      WorkerInv, PrepareInvOf
<1>1. CASE QueueStage2
  <2>1. Unqueued' = Unqueued
    BY <1>1 DEF QueueStage2, Unqueued
  <2> QED
    BY <1>1, <2>1, Invisible DEF QueueStage2, Recorded
<1>2. CASE Stage2Fails \/ Prepared
  <2>1. Unqueued = {} /\ Unqueued' = {}
    BY <1>a, <1>0, <1>2 DEF Stage2Fails, Prepared, Unqueued, Batch, Idle
  <2>2. queue' \in {queue, queue \ {<<c, 0>>}} /\ UNCHANGED <<attempts, record, dropped>>
    BY <1>a, <1>2 DEF Stage2Fails, Prepared, Queue!Done, Queue!Fail
  <2> QED
    BY <2>1, <2>2, Invisible DEF Recorded
<1>3. CASE Commit
  <2>1. \A k \in 1..MaxSubs : ~Recorded(<<c, k>>)
    BY <1>a, <1>3 DEF Commit, PrepareInv, PrepareInvOf
  <2>2. /\ Unqueued = {} /\ Unqueued' = Batch
        /\ \A d \in Deliveries : d \in Batch <=> d[1] = c /\ d[2] <= subs[c]
        /\ UNCHANGED <<queue, attempts, dropped>>
    BY <1>a, <1>3 DEF Commit, Unqueued, Batch, Call
  <2>3. \A k \in 1..MaxSubs : Standing(<<c, k>>) = "absent"
    BY <2>1 DEF Standing
  <2>4. ASSUME NEW d \in Deliveries
        PROVE  Standing(d)' = IF d[1] = c /\ d[2] <= subs[c] THEN "pending" ELSE Standing(d)
    <3>1. CASE d \in Batch
      <4>1. d = <<c, d[2]>> /\ d[2] \in 1..MaxSubs /\ ~Recorded(d)
        BY <2>1, <2>2, <3>1
      <4>2. d \notin dropped
        BY <4>1 DEF RecordInv
      <4>3. Recorded(d)'
        BY <1>3, <3>1 DEF Commit, Recorded
      <4> QED
        BY <2>2, <3>1, <4>2, <4>3 DEF Standing
    <3>2. CASE d \notin Batch
      <4>1. Recorded(d)' = Recorded(d)
        BY <1>3, <3>2 DEF Commit, Recorded
      <4> QED
        BY <2>2, <3>2, <4>1 DEF Standing
    <3> QED
      BY <3>1, <3>2
  <2>5. Ledger!Publish(c, subs[c], "pending")
    BY <2>2, <2>3, <2>4 DEF Ledger!Publish, Ledger!Deliveries, Deliveries
  <2> QED
    BY <1>0, <2>5 DEF Ledger!Next
<1>4. CASE EnqueueTask
  <2>1. PICK t \in Deliveries : t = <<c, i>> /\ t \in Unqueued
    BY <1>a, <1>0, <1>4 DEF EnqueueTask, Unqueued, Batch
  <2>2. /\ \/ queue' = queue \cup {t} /\ UNCHANGED dropped
           \/ dropped' = dropped \cup {t} /\ UNCHANGED queue
        /\ step = "enqueue" /\ i' = i + 1
        /\ UNCHANGED <<running, attempts, subs, record, step>>
    BY <1>a, <1>4, <2>1 DEF EnqueueTask, Queue!Enqueue
  <2>3. Unqueued' = Unqueued \ {t}
    <3>1. Batch' = Batch
      BY <2>2 DEF Batch, Call
    <3>2. ASSUME NEW d \in Batch PROVE i <= d[2] <=> i + 1 <= d[2] \/ d = t
      <4>1. d = <<c, d[2]>> /\ d[2] \in Nat /\ i \in Nat
        BY <1>a DEF Batch
      <4>2. d = t <=> d[2] = i
        BY <2>1, <4>1
      <4> QED
        BY <4>1, <4>2, NextIndex
    <3> QED
      BY <2>1, <2>2, <3>1, <3>2 DEF Unqueued
  <2>4. Standing(t) = "pending" /\ Recorded(t) /\ t \notin queue
    BY <2>1, StandingOf
  <2>5. CASE queue' = queue \cup {t} /\ UNCHANGED dropped
    <3>1. \A d \in Deliveries : Standing(d)' = Standing(d)
      BY <2>1, <2>2, <2>3, <2>5, SMTT(30) DEF Standing, Recorded
    <3> QED
      BY <2>2, <3>1, Stutter
  <2>6. CASE dropped' = dropped \cup {t} /\ UNCHANGED queue
    <3>1. Standing(t)' = "dropped"
      BY <2>2, <2>4, <2>6 DEF Recorded, Standing
    <3>2. \A d \in Deliveries \ {t} : Standing(d)' = Standing(d)
      BY <2>2, <2>3, <2>6 DEF Standing, Recorded
    <3>3. PICK D \in SUBSET Deliveries : D = {t}
      BY <2>1
    <3>4. \A d \in D : Standing(d) = "pending" /\ Standing(d)' = "dropped"
      BY <2>4, <3>1, <3>3
    <3>5. \A d \in Deliveries \ D : Standing(d)' = Standing(d)
      BY <3>2, <3>3
    <3>6. \A d \in Deliveries : attempts'[d] = attempts[d]
      BY <2>2
    <3> HIDE DEF IInv
    <3> QED
      BY <3>4, <3>5, <3>6, DropOf
  <2> QED
    BY <2>2, <2>5, <2>6
<1> QED
  BY <1>1, <1>2, <1>3, <1>4 DEF Prepare

LEMMA DeliverRefines ==
  ASSUME IInv, DeliverPayload \/ \E t \in Tasks : Attempt(t)
  PROVE  Ledger!Next \/ UNCHANGED Ledger!vars
<1> USE Pairs, NoneAssumption DEF IInv, Strengthening, TypeOK, Queue!TypeOK
<1>1. ASSUME NEW t \in Tasks, Attempt(t) PROVE Ledger!Next \/ UNCHANGED Ledger!vars
  <2>1. /\ Unqueued = {} /\ Unqueued' = {} /\ t \in queue /\ t # running
        /\ attempts' = [attempts EXCEPT ![t] = @ + 1]
        /\ UNCHANGED <<queue, record, dropped>>
    BY <1>1 DEF Attempt, Queue!Attempt, WorkerInv, Unqueued
  <2>2. \A d \in Deliveries : Standing(d)' = Standing(d)
    BY <2>1 DEF Standing, Recorded
  <2>3. CASE t \in Deliveries
    <3>1. Standing(t) = "pending" /\ attempts[t] < MaxAttempts
      BY <2>1, <2>3, StandingOf DEF AttemptInv
    <3>2. \A d \in Deliveries : attempts'[d] = IF d = t THEN attempts[t] + 1 ELSE attempts[d]
      BY <2>1, <2>3
    <3> QED
      BY <2>2, <2>3, <3>1, <3>2, TryOf
  <2>4. CASE t \notin Deliveries
    <3>1. \A d \in Deliveries : attempts'[d] = attempts[d]
      BY <2>1, <2>4
    <3> QED
      BY <2>2, <3>1, Stutter
  <2> QED
    BY <2>3, <2>4
<1>2. ASSUME step \in {"request", "answered", "recorded"}, running # None, running[2] # 0, Idle,
             queue' = queue \ {running}, UNCHANGED <<attempts, record, dropped>>
      PROVE  Ledger!Next
  <2>1. PICK t \in Deliveries : t = running
    BY <1>2
  <2>2. Standing(t) = "pending" /\ attempts[t] > 0 /\ t \in queue
    BY <2>1, StandingOf
  <2>3. Unqueued' = {} /\ Unqueued = {}
    BY <1>2 DEF Unqueued, Idle
  <2>4. Standing(t)' = "settled"
    BY <1>2, <2>1, <2>2, <2>3 DEF Standing, Recorded
  <2>5. \A d \in Deliveries \ {t} : Standing(d)' = Standing(d)
    BY <1>2, <2>1, <2>3 DEF Standing, Recorded
  <2>6. Ledger!Settle(t)
    BY <1>2, <2>1, <2>2, <2>4, <2>5 DEF Ledger!Settle, Ledger!Deliveries, Deliveries
  <2> QED
    BY <2>6 DEF Ledger!Next, Ledger!Deliveries, Deliveries
<1>3. ASSUME step # "enqueue", step' # "enqueue", UNCHANGED <<queue, attempts, dropped>>,
             \A d \in Deliveries : Recorded(d)' = Recorded(d)
      PROVE  UNCHANGED Ledger!vars
  BY <1>3, Invisible DEF Unqueued
<1>4. CASE BadRequest \/ BodyUnreadable \/ UpdateFails \/ PostFails \/ Return
  BY <1>2, <1>3, <1>4 DEF BadRequest, BodyUnreadable, UpdateFails, PostFails, Return,
                          Queue!Done, Queue!Fail, Recorded, WorkerInv, Idle
<1>5. ASSUME NEW a \in {"retry", "final"}, PostAnswered(a) PROVE UNCHANGED Ledger!vars
  BY <1>3, <1>5 DEF PostAnswered, Recorded
<1>6. CASE UpdateRecord
  <2>1. running \in Deliveries /\ Recorded(running) /\ answer # "absent"
    BY <1>6 DEF UpdateRecord, WorkerInv, RecordInv
  <2>2. \A d \in Deliveries : Recorded(d)' = Recorded(d)
    BY <1>6, <2>1 DEF UpdateRecord, Recorded
  <2> QED
    BY <1>3, <1>6, <2>2 DEF UpdateRecord
<1> QED
  BY <1>1, <1>4, <1>5, <1>6 DEF DeliverPayload

LEMMA DaemonRefines ==
  ASSUME IInv, Interrupt \/ ShutdownReturns \/ JoinReturns \/ Kill \/ Restart
  PROVE  Ledger!Next \/ UNCHANGED Ledger!vars
<1> USE Pairs DEF IInv, Strengthening, TypeOK, Queue!TypeOK
<1>1. CASE Interrupt \/ ShutdownReturns \/ Restart
  <2>1. UNCHANGED <<queue, running, attempts, callVars, record, taskVars, dropped>>
    BY <1>1 DEF Interrupt, ShutdownReturns, Restart, Server!Restart, Queue!Refuse,
                Queue!Reopen, DaemonInv, WorkerInv
  <2>2. Unqueued' = Unqueued
    BY <2>1 DEF Unqueued, Batch, Call
  <2> QED
    BY <2>1, <2>2, Invisible DEF Recorded
<1>2. CASE ProcessEnds
  <2>1. PICK D \in SUBSET Deliveries : D = (queue \cap Deliveries) \cup Unqueued
    BY DEF Unqueued, Batch
  <2>2. /\ queue' = {} /\ Unqueued' = {} /\ dropped' = dropped \cup D
        /\ UNCHANGED <<attempts, record>>
    BY <1>2, <2>1 DEF ProcessEnds, Queue!Lose, Unqueued, Idle
  <2>3. \A d \in D : Standing(d) = "pending" /\ Recorded(d)
    BY <2>1, StandingOf DEF Standing
  <2>4. \A d \in D : Standing(d)' = "dropped"
    BY <2>2, <2>3 DEF Standing, Recorded
  <2>5. \A d \in Deliveries \ D : Standing(d)' = Standing(d)
    BY <2>1, <2>2 DEF Standing, Recorded
  <2> QED
    BY <2>1, <2>2, <2>3, <2>4, <2>5, DropOf
<1> QED
  BY <1>1, <1>2 DEF JoinReturns, Kill

\* The legacy webhook queue keeps the promise of the ledger.
THEOREM Implements == Spec => ImplementsLedger
<1>1. Init => Ledger!Init
  BY Pairs DEF Init, Queue!Init, Ledger!Init, Ledger!Deliveries, Deliveries, Standing, Recorded
<1>2. IInv /\ [Next]_vars => [Ledger!Next]_(Ledger!vars)
  <2>1. ASSUME UNCHANGED vars PROVE UNCHANGED Ledger!vars
    <3>1. Unqueued' = Unqueued
      BY <2>1 DEF Unqueued, Batch, Call
    <3> QED
      BY <2>1, <3>1, Invisible DEF Recorded
  <2> QED
    BY <2>1, HandlerRefines, PrepareRefines, DeliverRefines, DaemonRefines DEF Next
<1> QED
  BY <1>1, <1>2, Invariance, PTL DEF Spec, ImplementsLedger, Ledger!Spec
=============================================================================
