------------------------------- MODULE Daemon -------------------------------
(***************************************************************************)
(* One API daemon that has both webhook queues: Server.Run of              *)
(* server/server.go with the queues that WithQueues gave it.  The native   *)
(* queue (WebhookQueue) and the legacy one (LegacyQueue) have a goroutine  *)
(* each and share the process: one signal, one wait for the handlers of    *)
(* both, one work.Join for both queues, one death.                         *)
(***************************************************************************)
CONSTANTS
  Calls, MaxSubs,               \* of the native queue
  LegacyCalls, LegacyMaxSubs,   \* of the legacy queue
  MaxAttempts,
  None

VARIABLES
  phase, overran,
  accepting, queue, running, attempts, pc, subs, i, record, step, answer, dropped,
  lAccepting, lQueue, lRunning, lAttempts, lPc, lSubs, lI, lRecord, lStep, lAnswer,
  lDropped

nativeVars ==
  <<accepting, queue, running, attempts, pc, subs, i, record, step, answer, dropped>>
legacyVars ==
  <<lAccepting, lQueue, lRunning, lAttempts, lPc, lSubs, lI, lRecord, lStep, lAnswer,
    lDropped>>
vars == <<phase, overran, nativeVars, legacyVars>>

Native == INSTANCE WebhookQueue

Legacy == INSTANCE LegacyQueue WITH
  Calls <- LegacyCalls, MaxSubs <- LegacyMaxSubs,
  accepting <- lAccepting, queue <- lQueue, running <- lRunning,
  attempts <- lAttempts, pc <- lPc, subs <- lSubs, i <- lI, record <- lRecord,
  step <- lStep, answer <- lAnswer, dropped <- lDropped

Init == Native!Init /\ Legacy!Init

-----------------------------------------------------------------------------
(***************************************************************************)
(* The handlers and the goroutines of the two queues                       *)
(***************************************************************************)

Handle(c) == (Native!Arrive(c) \/ Native!Schedule(c)) /\ UNCHANGED legacyVars
EnqueueTask(c) == Native!EnqueueTask(c) /\ UNCHANGED legacyVars
Attempt == (\E d \in Native!Deliveries : Native!Attempt(d)) /\ UNCHANGED legacyVars
DeliverPayload == Native!DeliverPayload /\ UNCHANGED legacyVars

LegacyHandle(c) == (Legacy!Arrive(c) \/ Legacy!Schedule(c)) /\ UNCHANGED nativeVars
LegacyAttempt == (\E t \in Legacy!Tasks : Legacy!Attempt(t)) /\ UNCHANGED nativeVars
LegacyPrepare == Legacy!Prepare /\ UNCHANGED nativeVars
LegacyDeliverPayload == Legacy!DeliverPayload /\ UNCHANGED nativeVars

-----------------------------------------------------------------------------
(***************************************************************************)
(* Server.Run                                                              *)
(***************************************************************************)

HandlersLeft ==
  \/ \E c \in Calls : Native!InFlight(c)
  \/ \E c \in LegacyCalls : Legacy!InFlight(c)

Interrupt == Native!Interrupt /\ Legacy!Interrupt

\* work.Join begins by closing all the queues.
CloseQueues ==
  /\ Native!Queue!Refuse
  /\ Legacy!Queue!Refuse
  /\ UNCHANGED <<pc, subs, i, record, step, answer, dropped>>
  /\ UNCHANGED <<lPc, lSubs, lI, lRecord, lStep, lAnswer, lDropped>>

\* Mutant: qserver.Shutdown is given a context without a deadline.
ShutdownWaits ==
  /\ ~HandlersLeft
  /\ Native!Server!ShutdownReturns(FALSE)
  /\ CloseQueues

\* Shutdown waits for every handler, those that trigger no webhook (others)
\* included.
ShutdownReturns ==
  /\ \E others \in BOOLEAN : Native!Server!ShutdownReturns(others \/ HandlersLeft)
  /\ CloseQueues

\* Mutant: Join waits for the last queue it was given only.
JoinLastQueue ==
  /\ Native!Server!JoinReturns(Legacy!Queue!Drained)
  /\ Native!ProcessEnds
  /\ Legacy!ProcessEnds

JoinReturns ==
  /\ Native!Server!JoinReturns(Native!Queue!Drained /\ Legacy!Queue!Drained)
  /\ Native!ProcessEnds
  /\ Legacy!ProcessEnds

Kill == Native!Kill /\ Legacy!Kill

Restart == Native!Restart /\ Legacy!Restart

Next ==
  \/ \E c \in Calls : Handle(c)
  \/ Attempt
  \/ DeliverPayload
  \/ \E c \in LegacyCalls : LegacyHandle(c)
  \/ LegacyAttempt
  \/ LegacyPrepare
  \/ LegacyDeliverPayload
  \/ Interrupt
  \/ ShutdownReturns
  \/ JoinReturns
  \/ Kill
  \/ Restart

Spec == Init /\ [][Next]_vars

\* The fairness of the two queues; each has a goroutine of its own, so neither
\* waits for the other.
FairSpec ==
  /\ Spec
  /\ WF_vars(Attempt)
  /\ WF_vars(DeliverPayload)
  /\ \A c \in Calls : WF_vars(EnqueueTask(c))
  /\ WF_vars(LegacyAttempt)
  /\ WF_vars(LegacyPrepare)
  /\ WF_vars(LegacyDeliverPayload)
  /\ WF_vars(ShutdownReturns)
  /\ WF_vars(JoinReturns)

-----------------------------------------------------------------------------
(***************************************************************************)
(* Properties                                                              *)
(***************************************************************************)

\* Server.Run and Join: a daemon with both queues keeps to the behaviours of
\* each queue alone, so that every safety property of WebhookQueue and of
\* LegacyQueue, their promise to the delivery ledger included, holds of it.
ImplementsNative == Native!Spec
ImplementsLegacy == Legacy!Spec
ImplementsQueues == ImplementsNative /\ ImplementsLegacy

\* Every native record reaches its end, whatever the legacy queue does.
EveryRecordIsSettled == Native!EveryRecordIsSettled

\* Every task that the legacy queue took is done or lost with the process,
\* whatever the native queue does.
EveryTaskEnds == Legacy!EveryTaskEnds

\* Server.Run: the warm shutdown of both queues ends, even if a handler hangs.
WarmShutdownEnds == Native!WarmShutdownEnds
=============================================================================
