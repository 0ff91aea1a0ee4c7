-------------------------- MODULE EmailQueueProofs --------------------------
(***************************************************************************)
(* Proofs about EmailQueue, for every set of mails and every number of     *)
(* attempts.  IInv is an inductive invariant: it follows the head of each  *)
(* message from the encoder through the buffer to the connection, and the  *)
(* whole message as long as nothing has disturbed it.                      *)
(* The refinement of DeliveryLedger comes last.                            *)
(***************************************************************************)
EXTENDS EmailQueue, FiniteSetTheorems, TLAPS

\* The goroutine is in Send exactly while a task is running.
WorkerInv ==
  /\ running = None <=> step = "idle"
  /\ running # None => running \in queue /\ attempts[running] > 0
  /\ step \notin {"copying", "closing"} => wire = {}

\* Nothing was sent of a message that is not composed; a task belongs to a call
\* that got past Enqueue, and its buffer is as EnqueueStd left it until the
\* first attempt.
CallInvOf(m) ==
  /\ pc[m] \in {"none", "handling"} => buf[m] = {} /\ whole[m] = {}
  /\ pc[m] \in {"none", "handling", "composed"} =>
       m \notin queue /\ attempts[m] = 0
  /\ pc[m] = "composed" \/ (pc[m] = "enqueued" /\ attempts[m] = 0) => buf[m] = {"head"}
  /\ pc[m] \in {"composed", "enqueued"} => "head" \in whole[m]
  /\ m \in queue => pc[m] \in {"enqueued", "returned"} /\ "head" \in whole[m]
  /\ m \in queue /\ pc[m] = "returned" /\ attempts[m] = 0 => buf[m] = whole[m]
  /\ attempts[m] = 0 => received[m] = <<>> /\ result[m] = "none"

CallInv == \A m \in Mails : CallInvOf(m)

\* The queue of a process that has ended is empty and refuses tasks.
DeadInv == ~Server!Alive => ~accepting /\ queue = {} /\ running = None

\* A waiting task has attempts left.
AttemptInv == \A m \in queue : m # running => attempts[m] < MaxAttempts

\* There is one head of each message: while it is in the buffer, or on its way,
\* no complete copy has arrived.
HeadInv ==
  /\ \A m \in Mails :
       "head" \in buf[m] \/ (running = m /\ "head" \in wire) => Complete(m) = {}
  /\ step = "closing" => "head" \notin buf[running]

OnceInv ==
  \A m \in Mails : Complete(m) = {} \/ \E k \in DOMAIN received[m] : Complete(m) = {k}

\* A first attempt that did not race with the encoder has the whole message.
FirstInv ==
  running # None /\ attempts[running] = 1 /\ running \notin raced =>
    /\ pc[running] = "returned"
    /\ step \in {"dial", "commands"} => buf[running] = whole[running]
    /\ step \in {"copying", "closing"} => wire = whole[running]

IInv ==
  /\ TypeOK
  /\ WorkerInv
  /\ DeadInv
  /\ CallInv
  /\ AttemptInv
  /\ HeadInv
  /\ OnceInv
  /\ FirstInv
  /\ UndisturbedMailIsWhole

-----------------------------------------------------------------------------
USE DEF vars, serverVars, queueVars, callVars, taskVars, historyVars

\* The complete copies after one more transmission.
LEMMA OneMore ==
  ASSUME NEW S, NEW s \in Seq(S), NEW e \in S, NEW w
  PROVE  {k \in DOMAIN Append(s, e) : Append(s, e)[k] = w} =
           {k \in DOMAIN s : s[k] = w} \cup (IF e = w THEN {Len(s) + 1} ELSE {})
<1>1. /\ DOMAIN Append(s, e) = 1..(Len(s) + 1) /\ DOMAIN s = 1..Len(s) /\ Len(s) \in Nat
      /\ \A k \in 1..Len(s) : Append(s, e)[k] = s[k]
      /\ Append(s, e)[Len(s) + 1] = e
  OBVIOUS
<1>2. \A k : k \in 1..(Len(s) + 1) <=> k \in 1..Len(s) \/ k = Len(s) + 1
  BY <1>1
<1>3. CASE e = w
  BY <1>1, <1>2, <1>3
<1>4. CASE e # w
  BY <1>1, <1>2, <1>4
<1> QED
  BY <1>3, <1>4

LEMMA InitIInv == Init => IInv
<1> SUFFICES ASSUME Init PROVE IInv
  OBVIOUS
<1> USE BoundsAssumption, NoneAssumption DEF Init, Server!Init, Queue!Init
<1>1. TypeOK
  <2>1. <<>> \in Seq(SUBSET Parts) /\ {} \in SUBSET Parts
    OBVIOUS
  <2>2. received \in [Mails -> Seq(SUBSET Parts)] /\ buf \in [Mails -> SUBSET Parts]
        /\ whole \in [Mails -> SUBSET Parts]
    BY <2>1
  <2>3. attempts \in [Mails -> 0..MaxAttempts] /\ attempts \in [Mails -> Nat]
    OBVIOUS
  <2>4. Server!TypeOK /\ pc \in [Mails -> PCs] /\ result \in [Mails -> {"none", "sent", "failed"}]
    BY DEF Server!TypeOK, Server!Phases, PCs
  <2> QED
    BY <2>2, <2>3, <2>4 DEF TypeOK, Queue!TypeOK
<1>2. \A m \in Mails : Complete(m) = {}
  BY DEF Complete
<1>3. WorkerInv /\ DeadInv /\ CallInv /\ AttemptInv
  BY DEF WorkerInv, DeadInv, Server!Alive, CallInv, CallInvOf, AttemptInv
<1>4. HeadInv /\ OnceInv /\ FirstInv /\ UndisturbedMailIsWhole
  BY <1>2 DEF HeadInv, OnceInv, FirstInv, UndisturbedMailIsWhole
<1> QED
  BY <1>1, <1>3, <1>4 DEF IInv

LEMMA TypeNext == IInv /\ [Next]_vars => TypeOK'
<1> SUFFICES ASSUME IInv, [Next]_vars PROVE TypeOK'
  OBVIOUS
<1> USE BoundsAssumption
    DEF TypeOK, Server!TypeOK, Server!Phases, Queue!TypeOK, PCs, Parts
<1>0. TypeOK /\ WorkerInv /\ AttemptInv
  BY DEF IInv
<1>1. ASSUME NEW m \in Mails, Arrive(m) \/ EnqueueStd(m) PROVE TypeOK'
  <2>1. ASSUME NEW parts \in SUBSET Parts, Compose(m, parts) PROVE TypeOK'
    BY <1>0, <2>1 DEF Compose
  <2>2. CASE Arrive(m) \/ InvalidHeader(m)
    BY <1>0, <2>2 DEF Arrive, InvalidHeader
  <2>3. CASE Enqueue(m)
    BY <1>0, <2>3 DEF Enqueue, Queue!Enqueue
  <2>4. CASE CloseBody(m)
    BY <1>0, <2>4 DEF CloseBody
  <2> QED
    BY <1>1, <2>1, <2>2, <2>3, <2>4 DEF EnqueueStd
<1>2. ASSUME NEW m \in Mails, Attempt(m) PROVE TypeOK'
  <2>1. attempts[m] < MaxAttempts
    BY <1>0, <1>2, NoneAssumption DEF Attempt, Queue!Attempt, AttemptInv
  <2> QED
    BY <1>0, <1>2, <2>1 DEF Attempt, Queue!Attempt
<1>3. ASSUME Fails, buf' \in [Mails -> SUBSET Parts], received' \in [Mails -> Seq(SUBSET Parts)]
      PROVE  TypeOK'
  BY <1>0, <1>3 DEF Fails, Queue!Fail, Idle
<1>4. CASE Send
  <2>1. CASE SetupFails \/ CommandRefused \/ Rejects
    BY <1>0, <1>3, <2>1 DEF SetupFails, CommandRefused, Rejects
  <2>2. CASE MailSetup \/ CopyEnds
    BY <1>0, <2>2 DEF MailSetup, CopyEnds
  <2>3. CASE CopyBegins
    BY <1>0, <2>3 DEF CopyBegins, WorkerInv
  <2>4. ASSUME NEW written \in SUBSET Parts, CopyBreaks(written) PROVE TypeOK'
    BY <1>0, <1>3, <2>4 DEF CopyBreaks
  <2>5. ASSUME NEW heard \in BOOLEAN, Accepts(heard) PROVE TypeOK'
    <3>1. running \in Mails /\ received' \in [Mails -> Seq(SUBSET Parts)]
          /\ buf' \in [Mails -> SUBSET Parts]
      BY <1>0, <2>5 DEF Accepts, WorkerInv
    <3>2. CASE heard
      BY <1>0, <2>5, <3>1, <3>2 DEF Accepts, Queue!Done, Idle
    <3>3. CASE ~heard
      BY <1>3, <2>5, <3>1, <3>3 DEF Accepts
    <3> QED
      BY <3>2, <3>3
  <2> QED
    BY <1>4, <2>1, <2>2, <2>3, <2>4, <2>5 DEF Send
<1>5. CASE Interrupt \/ ShutdownReturns \/ Restart
  BY <1>0, <1>5 DEF Interrupt, Server!Interrupt, ShutdownReturns, Server!ShutdownReturns,
                    Queue!Refuse, Restart, Server!Restart, Queue!Reopen
<1>6. CASE JoinReturns \/ Kill
  <2>1. ProcessEnds /\ phase' \in {"exited", "killed"} /\ overran' = FALSE
    BY <1>6 DEF JoinReturns, Server!JoinReturns, Kill, Server!Kill
  <2>2. pc' \in [Mails -> PCs] /\ buf' \in [Mails -> SUBSET Parts]
    BY <1>0, <2>1 DEF ProcessEnds
  <2> QED
    BY <1>0, <2>1, <2>2 DEF ProcessEnds, Queue!Lose, Idle
<1>7. CASE UNCHANGED vars
  BY <1>0, <1>7
<1> QED
  BY <1>1, <1>2, <1>4, <1>5, <1>6, <1>7 DEF Next

\* What every step preserves beside the types.
Strengthening ==
  /\ WorkerInv
  /\ DeadInv
  /\ CallInv
  /\ AttemptInv
  /\ HeadInv
  /\ OnceInv
  /\ FirstInv
  /\ UndisturbedMailIsWhole

\* EnqueueStd touches one message, which is not complete before it is attempted.
LEMMA CallNext ==
  ASSUME IInv, TypeOK', NEW m \in Mails, Arrive(m) \/ EnqueueStd(m)
  PROVE  Strengthening'
<1> USE BoundsAssumption, NoneAssumption DEF TypeOK, Queue!TypeOK, PCs, Parts
<1>0. WorkerInv /\ DeadInv /\ CallInv /\ AttemptInv /\ HeadInv /\ OnceInv /\ FirstInv
      /\ UndisturbedMailIsWhole /\ TypeOK
  BY DEF IInv
<1>1. /\ UNCHANGED <<serverVars, accepting, running, attempts, taskVars, received, result, raced>>
      /\ queue' = queue \/ (queue' = queue \cup {m} /\ accepting)
      /\ \A n \in Mails : n # m => pc'[n] = pc[n] /\ whole'[n] = whole[n] /\ buf'[n] = buf[n]
  BY <1>0, SMTT(30) DEF Arrive, EnqueueStd, InvalidHeader, Compose, Enqueue, CloseBody, Queue!Enqueue
<1>2. CallInvOf(m) /\ CallInvOf(m)'
  <2>1. CallInvOf(m)
    BY <1>0 DEF CallInv
  <2>2. CASE Arrive(m) \/ InvalidHeader(m)
    BY <1>0, <2>1, <2>2 DEF Arrive, InvalidHeader, CallInvOf
  <2>3. ASSUME NEW parts \in SUBSET Parts, "head" \in parts, Compose(m, parts)
        PROVE  CallInvOf(m)'
    BY <1>0, <2>1, <2>3 DEF Compose, CallInvOf
  <2>4. CASE Enqueue(m)
    BY <1>0, <2>1, <2>4 DEF Enqueue, Queue!Enqueue, CallInvOf
  <2>5. CASE CloseBody(m)
    BY <1>0, <2>1, <2>5 DEF CloseBody, CallInvOf
  <2> QED
    BY <2>1, <2>2, <2>3, <2>4, <2>5 DEF EnqueueStd
<1>3. CallInv'
  <2>1. ASSUME NEW n \in Mails, n # m PROVE CallInvOf(n)'
    <3>1. CallInvOf(n) /\ (n \in queue' <=> n \in queue)
      BY <1>0, <1>1, <2>1 DEF CallInv
    <3> QED
      BY <1>1, <2>1, <3>1 DEF CallInvOf
  <2> QED
    BY <1>2, <2>1 DEF CallInv
<1>4. WorkerInv' /\ DeadInv' /\ AttemptInv'
  <2>1. m \notin queue /\ m \in queue' => attempts[m] = 0
    BY <1>2 DEF Arrive, EnqueueStd, InvalidHeader, Compose, Enqueue, CloseBody, CallInvOf
  <2> QED
    BY <1>0, <1>1, <2>1 DEF WorkerInv, DeadInv, Server!Alive, AttemptInv
<1>5. /\ pc[m] \notin {"none", "handling"} => whole'[m] = whole[m]
      /\ pc[m] \in {"none", "handling"} => received[m] = <<>> /\ result[m] = "none"
      /\ "head" \in buf'[m] => "head" \in buf[m] \/ received[m] = <<>>
  BY <1>0, <1>2 DEF Arrive, EnqueueStd, InvalidHeader, Compose, Enqueue, CloseBody, CallInvOf
<1>6. \A n \in Mails : Complete(n)' = Complete(n)
  <2>1. received[m] = <<>> => Complete(m) = {} /\ Complete(m)' = {}
    BY <1>1 DEF Complete
  <2>2. ASSUME NEW n \in Mails, whole'[n] = whole[n] PROVE Complete(n)' = Complete(n)
    BY <1>1, <2>2 DEF Complete
  <2> QED
    BY <1>1, <1>5, <2>1, <2>2
<1>7. HeadInv'
  <2>1. received[m] = <<>> => Complete(m) = {}
    BY DEF Complete
  <2>2. step = "closing" => "head" \notin buf'[running]
    <3>1. running = m => attempts[m] # 0 /\ pc[m] \in {"enqueued", "returned"}
      BY <1>0, <1>2 DEF WorkerInv, CallInvOf
    <3>2. running = m => ("head" \in buf'[m] => "head" \in buf[m])
      BY <1>0, <1>2, <3>1 DEF Arrive, EnqueueStd, InvalidHeader, Compose, Enqueue, CloseBody,
                              CallInvOf, WorkerInv
    <3> QED
      BY <1>0, <1>1, <3>2 DEF HeadInv, WorkerInv
  <2> QED
    <3>1. ASSUME NEW n \in Mails, "head" \in buf'[n] \/ (running = n /\ "head" \in wire)
          PROVE  Complete(n)' = {}
      <4>1. CASE n = m /\ "head" \in buf'[m]
        BY <1>0, <1>5, <1>6, <2>1, <4>1 DEF HeadInv
      <4>2. CASE n # m \/ "head" \notin buf'[m]
        BY <1>0, <1>1, <1>6, <3>1, <4>2 DEF HeadInv
      <4> QED
        BY <4>1, <4>2
    <3> QED
      BY <1>1, <2>2, <3>1 DEF HeadInv
<1>8. OnceInv' /\ UndisturbedMailIsWhole'
  <2>1. received' = received /\ result' = result /\ attempts' = attempts /\ raced' = raced
    BY <1>1
  <2>2. OnceInv'
    BY <1>0, <1>6, <2>1 DEF OnceInv
  <2>3. UndisturbedMailIsWhole'
    BY <1>0, <1>6, <2>1 DEF UndisturbedMailIsWhole
  <2> QED
    BY <2>2, <2>3
<1>9. FirstInv'
  <2>1. CASE running = m
    <3>1. pc[m] \in {"enqueued", "returned"}
      BY <1>0, <1>2, <2>1 DEF WorkerInv, CallInvOf
    <3>2. CloseBody(m)
      BY <3>1 DEF Arrive, EnqueueStd, InvalidHeader, Compose, Enqueue
    <3>3. pc[m] # "returned"
      BY <3>2 DEF CloseBody
    <3> QED
      BY <1>0, <1>1, <2>1, <3>3 DEF FirstInv
  <2>2. CASE running # m
    BY <1>0, <1>1, <2>2 DEF FirstInv
  <2> QED
    BY <2>1, <2>2
<1> QED
  BY <1>3, <1>4, <1>7, <1>8, <1>9 DEF Strengthening

\* The first attempt at a message finds it as EnqueueStd left it.
LEMMA AttemptNext ==
  ASSUME IInv, TypeOK', NEW m \in Mails, Attempt(m)
  PROVE  Strengthening'
<1> USE BoundsAssumption, NoneAssumption DEF TypeOK, Queue!TypeOK, PCs
<1>0. WorkerInv /\ DeadInv /\ CallInv /\ AttemptInv /\ HeadInv /\ OnceInv /\ FirstInv
      /\ UndisturbedMailIsWhole /\ TypeOK
  BY DEF IInv
<1>1. /\ running = None /\ m \in queue /\ running' = m /\ step' = "dial"
      /\ attempts'[m] = attempts[m] + 1 /\ attempts[m] \in Nat
      /\ \A n \in Mails : n # m => attempts'[n] = attempts[n]
      /\ raced' = IF pc[m] = "enqueued" THEN raced \cup {m} ELSE raced
      /\ UNCHANGED <<serverVars, accepting, queue, pc, whole, buf, wire, received, result>>
  BY <1>0 DEF Attempt, Queue!Attempt
<1>2. wire = {} /\ m # None
  BY <1>0, <1>1 DEF WorkerInv
<1>3. CallInvOf(m)
  BY <1>0 DEF CallInv
<1>4. WorkerInv' /\ DeadInv' /\ AttemptInv'
  BY <1>0, <1>1, <1>2 DEF WorkerInv, DeadInv, Server!Alive, AttemptInv
<1>5. CallInv'
  <2>1. ASSUME NEW n \in Mails, n # m PROVE CallInvOf(n)'
    <3>1. CallInvOf(n)
      BY <1>0 DEF CallInv
    <3> QED
      BY <1>1, <2>1, <3>1 DEF CallInvOf
  <2>2. CallInvOf(m)'
    BY <1>1, <1>3 DEF CallInvOf
  <2> QED
    BY <2>1, <2>2 DEF CallInv
<1>6. \A n \in Mails : Complete(n)' = Complete(n)
  BY <1>1 DEF Complete
<1>7. HeadInv' /\ OnceInv'
  BY <1>0, <1>1, <1>2, <1>6 DEF HeadInv, OnceInv
<1>8. FirstInv'
  BY <1>1, <1>3 DEF FirstInv, CallInvOf
<1>9. UndisturbedMailIsWhole'
  <2>1. ASSUME NEW n \in Mails, result[n] = "sent", attempts'[n] = 1, n \notin raced'
        PROVE  Complete(n)' # {}
    <3>1. n # m
      BY <1>1, <1>3, <2>1 DEF CallInvOf
    <3>2. attempts[n] = 1 /\ n \notin raced
      BY <1>1, <2>1, <3>1
    <3> QED
      BY <1>0, <1>6, <2>1, <3>2 DEF UndisturbedMailIsWhole
  <2> QED
    BY <1>1, <2>1 DEF UndisturbedMailIsWhole
<1> QED
  BY <1>4, <1>5, <1>7, <1>8, <1>9 DEF Strengthening

\* Within an attempt, the message moves from the buffer to the connection.
LEMMA CopyNext ==
  ASSUME IInv, TypeOK', MailSetup \/ CopyBegins \/ CopyEnds
  PROVE  Strengthening'
<1> USE BoundsAssumption, NoneAssumption DEF TypeOK, Queue!TypeOK
<1>0. WorkerInv /\ DeadInv /\ CallInv /\ AttemptInv /\ HeadInv /\ OnceInv /\ FirstInv
      /\ UndisturbedMailIsWhole /\ TypeOK
  BY DEF IInv
<1>1. /\ step \in {"dial", "commands", "copying"}
      /\ UNCHANGED <<serverVars, accepting, queue, running, attempts, pc, whole,
                     received, result, raced>>
  BY DEF MailSetup, CopyBegins, CopyEnds
<1>2. running \in Mails /\ running # None /\ running \in queue /\ attempts[running] > 0
  BY <1>0, <1>1 DEF WorkerInv
<1>3. /\ \A n \in Mails : n # running => buf'[n] = buf[n]
      /\ buf'[running] \subseteq buf[running]
      /\ step' \in {"commands", "copying", "closing"}
  BY <1>0, <1>2 DEF MailSetup, CopyBegins, CopyEnds
<1>4. WorkerInv' /\ DeadInv' /\ AttemptInv'
  BY <1>0, <1>1, <1>2 DEF MailSetup, CopyBegins, CopyEnds, WorkerInv, DeadInv,
                          Server!Alive, AttemptInv
<1>5. CallInv'
  <2>1. ASSUME NEW n \in Mails, n # running PROVE CallInvOf(n)'
    <3>1. CallInvOf(n)
      BY <1>0 DEF CallInv
    <3> QED
      BY <1>1, <1>3, <2>1, <3>1 DEF CallInvOf
  <2>2. ASSUME NEW n \in Mails, n = running PROVE CallInvOf(n)'
    <3>1. CallInvOf(n)
      BY <1>0 DEF CallInv
    <3> QED
      BY <1>1, <1>2, <2>2, <3>1 DEF CallInvOf
  <2> QED
    BY <1>2, <2>1, <2>2 DEF CallInv
<1>6. \A n \in Mails : Complete(n)' = Complete(n)
  BY <1>1 DEF Complete
<1>7. HeadInv'
  <2>1. "head" \in wire' => "head" \in wire \/ "head" \in buf[running]
    BY DEF MailSetup, CopyBegins, CopyEnds
  <2>2. step' = "closing" => "head" \notin buf'[running]
    BY <1>0, <1>2 DEF MailSetup, CopyBegins, CopyEnds
  <2>3. ASSUME NEW n \in Mails, "head" \in buf'[n] \/ (running = n /\ "head" \in wire')
        PROVE  Complete(n)' = {}
    <3>1. "head" \in buf[n] \/ (running = n /\ "head" \in wire)
      BY <1>3, <2>1, <2>3
    <3> QED
      BY <1>0, <1>6, <3>1 DEF HeadInv
  <2>4. running' = running
    BY <1>1
  <2> QED
    BY <2>2, <2>3, <2>4 DEF HeadInv
<1>8. OnceInv' /\ UndisturbedMailIsWhole'
  BY <1>0, <1>1, <1>6 DEF OnceInv, UndisturbedMailIsWhole
<1>9. FirstInv'
  BY <1>0, <1>1, <1>2 DEF MailSetup, CopyBegins, CopyEnds, FirstInv
<1> QED
  BY <1>4, <1>5, <1>7, <1>8, <1>9 DEF Strengthening

\* The end of an attempt, whatever it came to, if what was received is right.
LEMMA TaskEnds ==
  ASSUME IInv, TypeOK', running # None, running' = None, Idle,
         UNCHANGED <<serverVars, accepting, pc, whole, attempts, raced>>,
         queue' \subseteq queue,
         running \in queue' => attempts[running] < MaxAttempts,
         \A m \in Mails : m # running =>
           /\ (m \in queue' <=> m \in queue)
           /\ buf'[m] = buf[m] /\ received'[m] = received[m] /\ result'[m] = result[m],
         HeadInv', OnceInv',
         \A m \in Mails : m = running =>
           (result'[m] = "sent" /\ attempts[m] = 1 /\ m \notin raced => Complete(m)' # {})
  PROVE  Strengthening'
<1> USE BoundsAssumption, NoneAssumption DEF TypeOK, Queue!TypeOK
<1>0. WorkerInv /\ DeadInv /\ CallInv /\ AttemptInv /\ UndisturbedMailIsWhole /\ TypeOK
  BY DEF IInv
<1>1. running \in Mails /\ running \in queue /\ attempts[running] > 0
  BY <1>0 DEF WorkerInv
<1>2. WorkerInv' /\ DeadInv' /\ AttemptInv' /\ FirstInv'
  BY <1>0 DEF WorkerInv, DeadInv, Server!Alive, AttemptInv, FirstInv, Idle
<1>3. CallInv'
  <2>1. ASSUME NEW n \in Mails, n # running PROVE CallInvOf(n)'
    <3>1. CallInvOf(n)
      BY <1>0 DEF CallInv
    <3> QED
      BY <2>1, <3>1 DEF CallInvOf
  <2>2. ASSUME NEW n \in Mails, n = running PROVE CallInvOf(n)'
    <3>1. CallInvOf(n)
      BY <1>0 DEF CallInv
    <3> QED
      BY <1>1, <2>2, <3>1 DEF CallInvOf
  <2> QED
    BY <1>1, <2>1, <2>2 DEF CallInv
<1>4. UndisturbedMailIsWhole'
  <2>1. ASSUME NEW n \in Mails, result'[n] = "sent", attempts'[n] = 1, n \notin raced'
        PROVE  Complete(n)' # {}
    <3>1. CASE n = running
      BY <2>1, <3>1
    <3>2. CASE n # running
      <4>1. Complete(n) # {}
        BY <1>0, <2>1, <3>2 DEF UndisturbedMailIsWhole
      <4>2. Complete(n)' = Complete(n)
        BY <3>2 DEF Complete
      <4> QED
        BY <4>1, <4>2
    <3> QED
      BY <3>1, <3>2
  <2> QED
    BY <2>1 DEF UndisturbedMailIsWhole
<1> QED
  BY <1>2, <1>3, <1>4 DEF Strengthening

\* Fails ends the attempt, or the task, and reports nothing as sent.
LEMMA FailsFacts ==
  ASSUME IInv, Fails
  PROVE  /\ running # None /\ running \in Mails /\ running' = None /\ Idle
         /\ UNCHANGED <<serverVars, accepting, pc, whole, attempts, raced>>
         /\ queue' \subseteq queue
         /\ running \in queue' => attempts[running] < MaxAttempts
         /\ \A m \in Mails : m # running =>
              (m \in queue' <=> m \in queue) /\ result'[m] = result[m]
         /\ result'[running] = "sent" => result[running] = "sent"
<1> USE BoundsAssumption DEF TypeOK, Queue!TypeOK
<1>1. TypeOK
  BY DEF IInv
<1> QED
  BY <1>1 DEF Fails, Queue!Fail

\* An attempt that fails before the server has the message.
LEMMA FailNext ==
  ASSUME IInv, TypeOK', Fails, received' = received,
         \A m \in Mails : m # running => buf'[m] = buf[m],
         buf'[running] \subseteq buf[running]
  PROVE  Strengthening'
<1>0. HeadInv /\ OnceInv /\ UndisturbedMailIsWhole
  BY DEF IInv
<1>1. /\ running # None /\ running \in Mails /\ running' = None /\ Idle
      /\ UNCHANGED <<serverVars, accepting, pc, whole, attempts, raced>>
      /\ queue' \subseteq queue
      /\ running \in queue' => attempts[running] < MaxAttempts
      /\ \A m \in Mails : m # running =>
           (m \in queue' <=> m \in queue) /\ result'[m] = result[m]
      /\ result'[running] = "sent" => result[running] = "sent"
  BY FailsFacts
<1>2. \A m \in Mails : Complete(m)' = Complete(m)
  BY <1>1 DEF Complete
<1>3. HeadInv'
  <2>1. \A m \in Mails : "head" \in buf'[m] => Complete(m)' = {}
    BY <1>0, <1>1, <1>2 DEF HeadInv
  <2>2. wire' = {} /\ step' = "idle"
    BY <1>1 DEF Idle
  <2> QED
    BY <2>1, <2>2 DEF HeadInv
<1>4. OnceInv'
  BY <1>0, <1>2 DEF OnceInv
<1>5. \A m \in Mails : m = running =>
        (result'[m] = "sent" /\ attempts[m] = 1 /\ m \notin raced => Complete(m)' # {})
  BY <1>0, <1>1, <1>2 DEF UndisturbedMailIsWhole
<1> QED
  BY <1>1, <1>3, <1>4, <1>5, TaskEnds

\* The server has the message: a whole one only if its head was still on the
\* way, so that none came before it.
LEMMA AcceptNext ==
  ASSUME IInv, TypeOK', NEW heard \in BOOLEAN, Accepts(heard)
  PROVE  Strengthening'
<1> USE BoundsAssumption, NoneAssumption DEF TypeOK, Queue!TypeOK
<1>0. WorkerInv /\ CallInv /\ HeadInv /\ OnceInv /\ FirstInv
      /\ UndisturbedMailIsWhole /\ TypeOK
  BY DEF IInv
<1>1. /\ running # None /\ running \in Mails /\ running \in queue
      /\ attempts[running] > 0 /\ "head" \in whole[running]
  BY <1>0 DEF Accepts, WorkerInv, CallInv, CallInvOf
<1>2. /\ running' = None /\ Idle
      /\ UNCHANGED <<serverVars, accepting, pc, whole, attempts, raced>>
      /\ queue' \subseteq queue
      /\ running \in queue' => attempts[running] < MaxAttempts
      /\ \A m \in Mails : m # running =>
           (m \in queue' <=> m \in queue) /\ result'[m] = result[m]
      /\ ~heard => (result'[running] = "sent" => result[running] = "sent")
  <2>1. CASE heard
    BY <1>0, <2>1 DEF Accepts, Queue!Done
  <2>2. CASE ~heard
    BY <2>2, FailsFacts DEF Accepts
  <2> QED
    BY <2>1, <2>2
<1>3. /\ step = "closing" /\ buf' = buf
      /\ \A m \in Mails : m # running => received'[m] = received[m]
      /\ received'[running] = Append(received[running], wire)
  BY <1>0, <1>1 DEF Accepts
<1>4. \A m \in Mails : m # running => Complete(m)' = Complete(m)
  BY <1>2, <1>3 DEF Complete
<1>5. ASSUME NEW m \in Mails, m = running
      PROVE  Complete(m)' = Complete(m) \cup
               (IF wire = whole[m] THEN {Len(received[m]) + 1} ELSE {})
  <2>1. received[m] \in Seq(SUBSET Parts) /\ wire \in SUBSET Parts
    BY <1>0
  <2>2. received'[m] = Append(received[m], wire) /\ whole'[m] = whole[m]
    BY <1>2, <1>3, <1>5
  <2>3. {k \in DOMAIN Append(received[m], wire) : Append(received[m], wire)[k] = whole[m]} =
          {k \in DOMAIN received[m] : received[m][k] = whole[m]} \cup
            (IF wire = whole[m] THEN {Len(received[m]) + 1} ELSE {})
    BY ONLY <2>1, OneMore
  <2> QED
    BY ONLY <2>2, <2>3 DEF Complete
<1>6. wire = whole[running] => Complete(running) = {}
  BY <1>0, <1>1 DEF HeadInv
<1>7. HeadInv'
  <2>1. "head" \notin buf'[running]
    BY <1>0, <1>3 DEF HeadInv
  <2>2. \A m \in Mails : "head" \in buf'[m] => Complete(m)' = {}
    BY <1>0, <1>3, <1>4, <2>1 DEF HeadInv
  <2>3. wire' = {} /\ step' = "idle"
    BY <1>2 DEF Idle
  <2> QED
    BY <2>2, <2>3 DEF HeadInv
<1>8. OnceInv'
  <2>1. ASSUME NEW m \in Mails
        PROVE  Complete(m)' = {} \/ \E k \in DOMAIN received'[m] : Complete(m)' = {k}
    <3>1. \A k \in Complete(m)' : k \in DOMAIN received'[m]
      BY DEF Complete
    <3>2. Complete(m) = {} \/ \E k : Complete(m) = {k}
      BY <1>0 DEF OnceInv
    <3>3. Complete(m)' = {} \/ \E k : Complete(m)' = {k}
      <4>1. CASE m # running
        BY <1>4, <3>2, <4>1
      <4>2. CASE m = running /\ wire = whole[m]
        <5>1. Complete(m) = {}
          BY <1>6, <4>2
        <5>2. Complete(m)' = Complete(m) \cup
                (IF wire = whole[m] THEN {Len(received[m]) + 1} ELSE {})
          BY <1>5, <4>2
        <5>3. Complete(m)' = {Len(received[m]) + 1}
          BY ONLY <4>2, <5>1, <5>2
        <5> QED
          BY ONLY <5>3, Zenon
      <4>3. CASE m = running /\ wire # whole[m]
        BY <1>5, <3>2, <4>3
      <4> QED
        BY <4>1, <4>2, <4>3
    <3> QED
      BY <3>1, <3>3
  <2> QED
    BY <2>1 DEF OnceInv
<1>9. \A m \in Mails : m = running =>
        (result'[m] = "sent" /\ attempts[m] = 1 /\ m \notin raced => Complete(m)' # {})
  <2>1. attempts[running] = 1 /\ running \notin raced => wire = whole[running]
    BY <1>0, <1>1, <1>3 DEF FirstInv
  <2> QED
    BY <1>5, <2>1
<1> QED
  BY <1>1, <1>2, <1>3, <1>7, <1>8, <1>9, TaskEnds

LEMMA SendNext ==
  ASSUME IInv, TypeOK', Send
  PROVE  Strengthening'
<1>0. TypeOK
  BY DEF IInv
<1>1. CASE SetupFails \/ CommandRefused \/ Rejects
  <2>1. Fails /\ received' = received /\ buf' = buf
    BY <1>1 DEF SetupFails, CommandRefused, Rejects
  <2> QED
    BY <2>1, FailNext
<1>2. CASE MailSetup \/ CopyBegins \/ CopyEnds
  BY <1>2, CopyNext
<1>3. ASSUME NEW written \in SUBSET Parts, CopyBreaks(written) PROVE Strengthening'
  <2>1. Fails /\ received' = received /\ running \in Mails
    BY <1>3, FailsFacts DEF CopyBreaks
  <2>2. buf' = [buf EXCEPT ![running] = @ \ written]
    BY <1>3 DEF CopyBreaks
  <2>3. buf'[running] \subseteq buf[running]
        /\ \A m \in Mails : m # running => buf'[m] = buf[m]
    BY <1>0, <2>1, <2>2 DEF TypeOK
  <2> QED
    BY <2>1, <2>3, FailNext
<1>4. ASSUME NEW heard \in BOOLEAN, Accepts(heard) PROVE Strengthening'
  BY <1>4, AcceptNext
<1> QED
  BY <1>1, <1>2, <1>3, <1>4 DEF Send

\* The daemon stops between two attempts, or drops what it has.
LEMMA DaemonNext ==
  ASSUME IInv, TypeOK', Interrupt \/ ShutdownReturns \/ JoinReturns \/ Kill \/ Restart
  PROVE  Strengthening'
<1> USE BoundsAssumption, NoneAssumption DEF TypeOK, Queue!TypeOK, PCs
<1>0. WorkerInv /\ DeadInv /\ CallInv /\ AttemptInv /\ HeadInv /\ OnceInv /\ FirstInv
      /\ UndisturbedMailIsWhole /\ TypeOK
  BY DEF IInv
<1>1. \A m \in Mails : Complete(m)' = Complete(m)
  BY DEF Complete, Interrupt, ShutdownReturns, JoinReturns, Kill, ProcessEnds, Restart
<1>2. UNCHANGED <<whole, attempts, received, result, raced>>
  BY DEF Interrupt, ShutdownReturns, JoinReturns, Kill, ProcessEnds, Queue!Lose,
         Queue!Refuse, Restart, Queue!Reopen
<1>3. OnceInv' /\ UndisturbedMailIsWhole'
  BY <1>0, <1>1, <1>2 DEF OnceInv, UndisturbedMailIsWhole
<1>4. CASE Interrupt \/ ShutdownReturns \/ Restart
  <2>1. UNCHANGED <<running, queue, pc, buf, step, wire>>
    BY <1>0, <1>4 DEF Interrupt, ShutdownReturns, Queue!Refuse, Restart, Queue!Reopen,
                      Server!Restart, DeadInv
  <2>2. WorkerInv' /\ CallInv' /\ AttemptInv' /\ FirstInv'
    BY <1>0, <1>2, <2>1 DEF WorkerInv, CallInv, CallInvOf, AttemptInv, FirstInv
  <2>3. HeadInv'
    BY <1>0, <1>1, <2>1 DEF HeadInv
  <2>4. DeadInv'
    BY <1>4 DEF Interrupt, Server!Interrupt, ShutdownReturns, Server!ShutdownReturns,
                Restart, Server!Restart, DeadInv, Server!Alive
  <2> QED
    BY <1>3, <2>2, <2>3, <2>4 DEF Strengthening
<1>5. CASE JoinReturns \/ Kill
  <2>1. /\ queue' = {} /\ running' = None /\ accepting' = FALSE
        /\ step' = "idle" /\ wire' = {}
        /\ \A m \in Mails : buf'[m] = {}
        /\ \A m \in Mails : pc'[m] = IF InFlight(m) THEN "lost" ELSE pc[m]
    BY <1>5 DEF JoinReturns, Kill, ProcessEnds, Queue!Lose, Idle
  <2>2. WorkerInv' /\ DeadInv' /\ AttemptInv' /\ FirstInv'
    BY <2>1 DEF WorkerInv, DeadInv, AttemptInv, FirstInv
  <2>3. HeadInv'
    BY <2>1 DEF HeadInv
  <2>4. CallInv'
    <3>1. ASSUME NEW m \in Mails PROVE CallInvOf(m)'
      <4>1. CallInvOf(m)
        BY <1>0 DEF CallInv
      <4> QED
        BY <1>2, <2>1, <4>1 DEF CallInvOf, InFlight
    <3> QED
      BY <3>1 DEF CallInv
  <2> QED
    BY <1>3, <2>2, <2>3, <2>4 DEF Strengthening
<1> QED
  BY <1>4, <1>5

-----------------------------------------------------------------------------
(***************************************************************************)
(* Theorems                                                                *)
(***************************************************************************)

\* IInv holds of every reachable state of the email queue.
THEOREM Invariance == Spec => []IInv
<1>1. IInv /\ [Next]_vars => IInv'
  <2> SUFFICES ASSUME IInv, [Next]_vars PROVE IInv'
    OBVIOUS
  <2>1. TypeOK'
    BY TypeNext
  <2>2. ASSUME NEW m \in Mails, Arrive(m) \/ EnqueueStd(m) \/ Attempt(m)
        PROVE  Strengthening'
    <3>1. CASE Arrive(m) \/ EnqueueStd(m)
      BY <2>1, <3>1, CallNext
    <3>2. CASE Attempt(m)
      BY <2>1, <3>2, AttemptNext
    <3> QED
      BY <2>2, <3>1, <3>2
  <2>3. ASSUME Send PROVE Strengthening'
    BY <2>1, <2>3, SendNext
  <2>4. ASSUME Interrupt \/ ShutdownReturns \/ JoinReturns \/ Kill \/ Restart
        PROVE  Strengthening'
    BY <2>1, <2>4, DaemonNext
  <2>5. ASSUME UNCHANGED vars PROVE Strengthening'
    BY <2>5 DEF IInv, Strengthening, WorkerInv, DeadInv, Server!Alive, CallInv, CallInvOf,
                AttemptInv, HeadInv, OnceInv, FirstInv, UndisturbedMailIsWhole, Complete
  <2>6. Strengthening'
    BY <2>2, <2>3, <2>4, <2>5 DEF Next
  <2> QED
    BY <2>1, <2>6 DEF IInv, Strengthening
<1> QED
  BY InitIInv, <1>1, PTL DEF Spec

\* The variables of the email queue stay in their types; in particular, no
\* message is attempted more often than Retries allows.
THEOREM TypeCorrect == Spec => []TypeOK
<1>1. IInv => TypeOK
  BY DEF IInv
<1> QED
  BY <1>1, Invariance, PTL

\* The SMTP server is given at most one whole copy of a message, however often
\* Send is retried, because a message leaves its buffer in being sent.
THEOREM AtMostOnce == Spec => []WholeAtMostOnce
<1>1. IInv => WholeAtMostOnce
  <2> SUFFICES ASSUME IInv, NEW m \in Mails PROVE Cardinality(Complete(m)) <= 1
    BY DEF WholeAtMostOnce
  <2>1. Complete(m) = {} \/ \E k : Complete(m) = {k}
    BY DEF IInv, OnceInv
  <2>2. Cardinality({}) = 0 /\ \A k : Cardinality({k}) = 1
    BY FS_EmptySet, FS_Singleton
  <2>3. CASE Complete(m) = {}
    BY <2>2, <2>3
  <2>4. ASSUME NEW k, Complete(m) = {k} PROVE Cardinality(Complete(m)) <= 1
    BY <2>2, <2>4
  <2> QED
    BY <2>1, <2>3, <2>4
<1> QED
  BY <1>1, Invariance, PTL

\* A first attempt that began after EnqueueStd closed the encoder and is
\* reported as sent gave the server the whole message.
THEOREM UndisturbedIsWhole == Spec => []UndisturbedMailIsWhole
<1>1. IInv => UndisturbedMailIsWhole
  BY DEF IInv
<1> QED
  BY <1>1, Invariance, PTL

-----------------------------------------------------------------------------
(***************************************************************************)
(* EmailQueue implements DeliveryLedger                                    *)
(***************************************************************************)

\* A mail is enqueued once, and has a result or was dropped only when its task
\* has left the queue.
LedgerInv ==
  \A m \in Mails :
    /\ m \in queue => m \notin dropped /\ result[m] = "none"
    /\ pc[m] \in {"none", "handling", "composed"} => m \notin dropped

\* What a step means to the ledger.
LedgerStep == [Ledger!Next]_(Ledger!vars)

\* A step that leaves the task list, the results and the drops alone.
LEMMA QuietStep ==
  ASSUME UNCHANGED <<queue, attempts, result, dropped>>
  PROVE  LedgerStep
BY DEF LedgerStep, Ledger!vars, Standing

\* Enqueue publishes a mail that the ledger has not seen.
LEMMA EnqueueRefines ==
  ASSUME IInv, LedgerInv, NEW m \in Mails, Enqueue(m)
  PROVE  LedgerInv' /\ LedgerStep
<1>0. /\ TypeOK /\ m \notin queue /\ attempts[m] = 0 /\ result[m] = "none"
      /\ m \notin dropped
  BY DEF IInv, CallInv, CallInvOf, Enqueue, LedgerInv
<1>1. /\ pc[m] = "composed" /\ \A n \in Mails : pc'[n] \in {"none", "handling", "composed"}
                                                 => pc'[n] = pc[n]
      /\ queue' = queue \/ queue' = queue \cup {m}
      /\ UNCHANGED <<attempts, result, dropped>>
  BY <1>0 DEF Enqueue, Queue!Enqueue, TypeOK
<1>2. LedgerInv'
  BY <1>0, <1>1 DEF LedgerInv
<1>3. CASE queue' = queue
  BY <1>1, <1>2, <1>3, QuietStep
<1>4. CASE queue' = queue \cup {m}
  <2>1. Standing(m) = "absent" /\ Standing(m)' = "pending"
    BY <1>0, <1>1, <1>4 DEF Standing
  <2>2. \A n \in Mails : n # m => Standing(n)' = Standing(n)
    BY <1>1, <1>4 DEF Standing
  <2>3. Ledger!Publish(m, 1, "pending")
    BY <1>1, <2>1, <2>2 DEF Ledger!Publish, Ledger!Deliveries
  <2> QED
    BY <1>2, <2>3 DEF LedgerStep, Ledger!Next
<1> QED
  BY <1>1, <1>3, <1>4

\* Attempt tries a mail that has attempts left.
LEMMA AttemptRefines ==
  ASSUME IInv, LedgerInv, NEW m \in Mails, Attempt(m)
  PROVE  LedgerInv' /\ LedgerStep
<1>1. /\ m \in queue /\ m # running /\ attempts \in [Mails -> Nat]
      /\ attempts' = [attempts EXCEPT ![m] = @ + 1]
      /\ UNCHANGED <<pc, queue, result, dropped>>
  BY NoneAssumption DEF IInv, TypeOK, Queue!TypeOK, Attempt, Queue!Attempt
<1>2. attempts[m] < MaxAttempts
  BY <1>1 DEF IInv, AttemptInv
<1>3. LedgerInv'
  BY <1>1 DEF LedgerInv
<1>4. Standing(m) = "pending" /\ \A n \in Mails : Standing(n)' = Standing(n)
  BY <1>1 DEF Standing, LedgerInv
<1>5. Ledger!Try(<<m, 1>>)
  BY <1>1, <1>2, <1>4 DEF Ledger!Try
<1> QED
  BY <1>3, <1>5 DEF LedgerStep, Ledger!Next, Ledger!Deliveries

\* The end of an attempt settles the mail, if its task is not to be tried again.
LEMMA EndRefines ==
  ASSUME IInv, LedgerInv, running # None,
         UNCHANGED <<pc, attempts, dropped>>,
         \/ UNCHANGED <<queue, result>>
         \/ /\ queue' = queue \ {running}
            /\ \E r \in {"sent", "failed"} : result' = [result EXCEPT ![running] = r]
  PROVE  LedgerInv' /\ LedgerStep
<1>1. /\ running \in Mails /\ running \in queue /\ attempts[running] > 0
      /\ running \notin dropped /\ TypeOK
  BY DEF IInv, WorkerInv, TypeOK, Queue!TypeOK, LedgerInv
<1>2. CASE UNCHANGED <<queue, result>>
  BY <1>2, QuietStep DEF LedgerInv
<1>3. CASE /\ queue' = queue \ {running}
           /\ \E r \in {"sent", "failed"} : result' = [result EXCEPT ![running] = r]
  <2>1. /\ result'[running] # "none"
        /\ \A n \in Mails : n # running => result'[n] = result[n]
    BY <1>1, <1>3 DEF TypeOK
  <2>2. LedgerInv'
    BY <1>3, <2>1 DEF LedgerInv
  <2>3. PICK m \in Mails : m = running
    BY <1>1
  <2>4. Standing(m) = "pending" /\ Standing(m)' = "settled"
    BY <1>1, <1>3, <2>1, <2>3 DEF Standing
  <2>5. \A n \in Mails : n # m => Standing(n)' = Standing(n)
    BY <1>3, <2>1, <2>3 DEF Standing
  <2>6. <<m, 1>> \in Mails \X (1..1) /\ attempts[m] > 0
    BY <1>1, <2>3
  <2>7. [d \in Mails \X (1..1) |-> Standing(d[1])]' =
          [[d \in Mails \X (1..1) |-> Standing(d[1])] EXCEPT ![<<m, 1>>] = "settled"]
    <3>1. ASSUME NEW d \in Mails \X (1..1)
          PROVE  Standing(d[1])' = IF d = <<m, 1>> THEN "settled" ELSE Standing(d[1])
      <4>1. d[1] \in Mails /\ (d = <<m, 1>> <=> d[1] = m)
        OBVIOUS
      <4>2. CASE d[1] = m
        BY <2>4, <4>1, <4>2
      <4>3. CASE d[1] # m
        <5>1. PICK n \in Mails : n = d[1]
          BY <4>1
        <5> QED
          BY <2>5, <4>1, <4>3, <5>1
      <4> QED
        BY <4>2, <4>3
    <3> QED
      BY <3>1
  <2>8. Ledger!Settle(<<m, 1>>)
    BY <2>4, <2>6, <2>7 DEF Ledger!Settle
  <2> QED
    BY <2>2, <2>6, <2>8 DEF LedgerStep, Ledger!Next, Ledger!Deliveries
<1> QED
  BY <1>2, <1>3

LEMMA SendRefines ==
  ASSUME IInv, LedgerInv, Send
  PROVE  LedgerInv' /\ LedgerStep
<1>1. CASE MailSetup \/ CopyBegins \/ CopyEnds
  <2>1. UNCHANGED <<pc, queue, attempts, result, dropped>>
    BY <1>1 DEF MailSetup, CopyBegins, CopyEnds
  <2> QED
    BY <2>1, QuietStep DEF LedgerInv
<1>2. ASSUME Fails PROVE LedgerInv' /\ LedgerStep
  <2>1. /\ running # None /\ UNCHANGED <<pc, attempts, dropped>>
        /\ IF attempts[running] < MaxAttempts
             THEN UNCHANGED <<queue, result>>
             ELSE /\ queue' = queue \ {running}
                  /\ result' = [result EXCEPT ![running] = "failed"]
    BY <1>2 DEF Fails, Queue!Fail
  <2> QED
    BY <2>1, EndRefines
<1>3. CASE SetupFails \/ CommandRefused \/ Rejects
           \/ \E written \in SUBSET Parts : CopyBreaks(written)
  BY <1>2, <1>3 DEF SetupFails, CommandRefused, Rejects, CopyBreaks
<1>4. ASSUME NEW heard \in BOOLEAN, Accepts(heard) PROVE LedgerInv' /\ LedgerStep
  <2>1. CASE heard
    <3>1. /\ running # None /\ UNCHANGED <<pc, attempts, dropped>>
          /\ queue' = queue \ {running}
          /\ result' = [result EXCEPT ![running] = "sent"]
      BY <1>4, <2>1 DEF Accepts, Queue!Done
    <3> QED
      BY <3>1, EndRefines
  <2>2. CASE ~heard
    BY <1>2, <1>4, <2>2 DEF Accepts
  <2> QED
    BY <2>1, <2>2
<1> QED
  BY <1>1, <1>3, <1>4 DEF Send

\* The end of a process drops the mails in its queue, and no others.
LEMMA EndOfProcessRefines ==
  ASSUME IInv, LedgerInv, ProcessEnds
  PROVE  LedgerInv' /\ LedgerStep
<1> DEFINE D == {<<m, 1>> : m \in queue}
<1>1. /\ queue \subseteq Mails /\ queue' = {} /\ dropped' = dropped \cup queue
      /\ UNCHANGED <<attempts, result>>
      /\ \A m \in Mails : pc'[m] \in {"none", "handling", "composed"} => pc'[m] = pc[m]
  BY DEF IInv, TypeOK, Queue!TypeOK, ProcessEnds, Queue!Lose
<1>2. \A m \in queue : pc[m] \in {"enqueued", "returned"}
  BY <1>1 DEF IInv, CallInv, CallInvOf
<1>3. LedgerInv'
  BY <1>1, <1>2 DEF LedgerInv
<1>4. \A m \in queue : Standing(m) = "pending" /\ Standing(m)' = "dropped"
  BY <1>1 DEF LedgerInv, Standing
<1>5. \A m \in Mails \ queue : Standing(m)' = Standing(m)
  BY <1>1 DEF Standing
<1>6. D \in SUBSET Ledger!Deliveries
      /\ \A d \in Mails \X (1..1) : d \in D <=> d[1] \in queue
  BY <1>1 DEF Ledger!Deliveries
<1>7. Ledger!Drop(D)
  <2> HIDE DEF D
  <2> QED
    BY <1>1, <1>4, <1>5, <1>6 DEF Ledger!Drop, Ledger!Deliveries
<1> QED
  BY <1>3, <1>6, <1>7 DEF LedgerStep, Ledger!Next

LEMMA LedgerNext ==
  ASSUME IInv, LedgerInv, [Next]_vars
  PROVE  LedgerInv' /\ LedgerStep
<1>1. ASSUME NEW m \in Mails, Arrive(m) \/ EnqueueStd(m) PROVE LedgerInv' /\ LedgerStep
  <2>1. CASE Enqueue(m)
    BY <2>1, EnqueueRefines
  <2>2. ASSUME ~Enqueue(m)
        PROVE  /\ UNCHANGED <<queue, attempts, result, dropped>>
               /\ \A n \in Mails : pc'[n] \in {"none", "handling", "composed"}
                                   => pc[n] \in {"none", "handling", "composed"}
    BY <1>1, <2>2 DEF IInv, TypeOK, Arrive, EnqueueStd, InvalidHeader, Compose, CloseBody
  <2> QED
    BY <2>1, <2>2, QuietStep DEF LedgerInv
<1>2. CASE Interrupt \/ ShutdownReturns \/ Restart
  <2>1. UNCHANGED <<pc, queue, attempts, result, dropped>>
    BY <1>2 DEF IInv, DeadInv, Interrupt, ShutdownReturns, Queue!Refuse, Restart,
                Server!Restart, Queue!Reopen
  <2> QED
    BY <2>1, QuietStep DEF LedgerInv
<1>3. CASE JoinReturns \/ Kill
  BY <1>3, EndOfProcessRefines DEF JoinReturns, Kill
<1>4. CASE UNCHANGED vars
  BY <1>4, QuietStep DEF LedgerInv
<1> QED
  BY <1>1, <1>2, <1>3, <1>4, AttemptRefines, SendRefines DEF Next

LEMMA LedgerInit == Init => LedgerInv /\ Ledger!Init
<1> SUFFICES ASSUME Init PROVE LedgerInv /\ Ledger!Init
  OBVIOUS
<1>1. \A m \in Mails : Standing(m) = "absent" /\ attempts[m] = 0
  BY DEF Init, Queue!Init, Standing
<1>2. LedgerInv
  BY DEF Init, Queue!Init, LedgerInv
<1> QED
  BY <1>1, <1>2 DEF Ledger!Init, Ledger!Deliveries

\* EnqueueStd, NewTask and Send implement DeliveryLedger: every accepted mail is
\* tried at most MaxAttempts times, and gets one result, after a try, unless it
\* is dropped with the process.
THEOREM Implements == Spec => ImplementsLedger
<1>1. IInv /\ LedgerInv /\ [Next]_vars => LedgerInv' /\ LedgerStep
  BY LedgerNext
<1>2. Spec => [][Ledger!Next]_(Ledger!vars)
  BY <1>1, LedgerInit, Invariance, PTL DEF Spec, LedgerStep
<1> QED
  BY <1>2, LedgerInit, PTL DEF Spec, ImplementsLedger, Ledger!Spec
=============================================================================
