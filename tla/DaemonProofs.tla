----------------------------- MODULE DaemonProofs -----------------------------
(***************************************************************************)
(* Proofs about Daemon, for every set of calls and every value of the      *)
(* bounds: composed with the other queue, each webhook queue keeps to the  *)
(* specification that WebhookQueue and LegacyQueue give it alone.  What is *)
(* proved of these specifications is thereby proved of the daemon.         *)
(***************************************************************************)
EXTENDS Daemon, TLAPS

USE DEF vars, nativeVars, legacyVars, Native!vars, Native!serverVars, Native!queueVars,
        Native!callVars, Native!taskVars, Legacy!vars, Legacy!serverVars,
        Legacy!queueVars, Legacy!callVars, Legacy!taskVars

\* The daemon's own steps, seen from the native queue.
LEMMA RunIsNative ==
  ASSUME Interrupt \/ ShutdownReturns \/ JoinReturns \/ Kill \/ Restart
  PROVE  Native!Next
<1>1. CASE Interrupt \/ Kill \/ Restart
  BY <1>1 DEF Interrupt, Kill, Restart, Native!Next
<1>2. CASE ShutdownReturns
  <2>1. PICK others \in BOOLEAN : Native!Server!ShutdownReturns(others \/ HandlersLeft)
    BY <1>2 DEF ShutdownReturns
  <2>2. PICK left \in BOOLEAN : left <=> others \/ \E c \in LegacyCalls : Legacy!InFlight(c)
    OBVIOUS
  <2>3. (left \/ \E c \in Calls : Native!InFlight(c)) <=> (others \/ HandlersLeft)
    BY <2>2 DEF HandlersLeft
  <2>4. Native!Server!ShutdownReturns(left \/ \E c \in Calls : Native!InFlight(c))
    BY <2>1, <2>3 DEF Native!Server!ShutdownReturns
  <2>5. Native!ShutdownReturns
    BY <1>2, <2>4 DEF ShutdownReturns, CloseQueues, Native!ShutdownReturns
  <2> QED
    BY <2>5 DEF Native!Next
<1>3. CASE JoinReturns
  <2>1. Native!JoinReturns
    BY <1>3 DEF JoinReturns, Native!JoinReturns, Native!Server!JoinReturns
  <2> QED
    BY <2>1 DEF Native!Next
<1> QED
  BY <1>1, <1>2, <1>3

\* The steps of the legacy queue change nothing of the native one.
LEMMA LegacyIsSilent ==
  ASSUME \/ \E c \in LegacyCalls : LegacyHandle(c)
         \/ LegacyAttempt \/ LegacyPrepare \/ LegacyDeliverPayload
  PROVE  UNCHANGED Native!vars
<1>1. ASSUME NEW c \in LegacyCalls, LegacyHandle(c) PROVE UNCHANGED <<phase, overran>>
  BY <1>1 DEF LegacyHandle, Legacy!Arrive, Legacy!Schedule, Legacy!FetchSubscriptions,
              Legacy!FetchPanics, Legacy!EnqueuePrepare
<1>2. CASE LegacyAttempt
  BY <1>2 DEF LegacyAttempt, Legacy!Attempt
<1>3. CASE LegacyPrepare
  BY <1>3 DEF LegacyPrepare, Legacy!Prepare, Legacy!QueueStage2, Legacy!Stage2Fails,
              Legacy!Commit, Legacy!EnqueueTask, Legacy!Prepared
<1>4. CASE LegacyDeliverPayload
  BY <1>4 DEF LegacyDeliverPayload, Legacy!DeliverPayload, Legacy!BadRequest,
              Legacy!PostFails, Legacy!BodyUnreadable, Legacy!PostAnswered,
              Legacy!UpdateRecord, Legacy!UpdateFails, Legacy!Return
<1>5. CASE \E c \in LegacyCalls : LegacyHandle(c)
  BY <1>1, <1>5 DEF LegacyHandle
<1> QED
  BY <1>2, <1>3, <1>4, <1>5

\* Server.Run and work.Join compose the queues without disturbing the native
\* one: every step of the daemon is a step of WebhookQueue or changes nothing
\* that WebhookQueue sees.
THEOREM NativeAsAlone == Spec => ImplementsNative
<1>1. Init => Native!Init
  BY DEF Init
<1>2. [Next]_vars => [Native!Next]_(Native!vars)
  <2> SUFFICES ASSUME Next, ~UNCHANGED vars PROVE Native!Next \/ UNCHANGED Native!vars
    OBVIOUS
  <2>1. ASSUME NEW c \in Calls, Handle(c) PROVE Native!Next
    BY <2>1 DEF Handle, Native!Next
  <2>2. CASE Attempt \/ DeliverPayload
    BY <2>2 DEF Attempt, DeliverPayload, Native!Next
  <2> QED
    BY <2>1, <2>2, LegacyIsSilent, RunIsNative DEF Next
<1> QED
  BY <1>1, <1>2, PTL DEF Spec, ImplementsNative, Native!Spec

-----------------------------------------------------------------------------
(***************************************************************************)
(* The same for the legacy queue                                           *)
(***************************************************************************)

\* The daemon's own steps, seen from the legacy queue.
LEMMA RunIsLegacy ==
  ASSUME Interrupt \/ ShutdownReturns \/ JoinReturns \/ Kill \/ Restart
  PROVE  Legacy!Next
<1>1. CASE Interrupt \/ Kill \/ Restart
  BY <1>1 DEF Interrupt, Kill, Restart, Legacy!Next
<1>2. CASE ShutdownReturns
  <2>1. PICK others \in BOOLEAN : Native!Server!ShutdownReturns(others \/ HandlersLeft)
    BY <1>2 DEF ShutdownReturns
  <2>2. PICK left \in BOOLEAN : left <=> others \/ \E c \in Calls : Native!InFlight(c)
    OBVIOUS
  <2>3. (left \/ \E c \in LegacyCalls : Legacy!InFlight(c)) <=> (others \/ HandlersLeft)
    BY <2>2 DEF HandlersLeft
  <2>4. Legacy!Server!ShutdownReturns(left \/ \E c \in LegacyCalls : Legacy!InFlight(c))
    BY <2>1, <2>3 DEF Native!Server!ShutdownReturns, Legacy!Server!ShutdownReturns
  <2>5. Legacy!ShutdownReturns
    BY <1>2, <2>4 DEF ShutdownReturns, CloseQueues, Legacy!ShutdownReturns
  <2> QED
    BY <2>5 DEF Legacy!Next
<1>3. CASE JoinReturns
  <2>1. Legacy!JoinReturns
    BY <1>3 DEF JoinReturns, Legacy!JoinReturns, Native!Server!JoinReturns,
                Legacy!Server!JoinReturns
  <2> QED
    BY <2>1 DEF Legacy!Next
<1> QED
  BY <1>1, <1>2, <1>3

\* The steps of the native queue change nothing of the legacy one.
LEMMA NativeIsSilent ==
  ASSUME (\E c \in Calls : Handle(c)) \/ Attempt \/ DeliverPayload
  PROVE  UNCHANGED Legacy!vars
<1>1. ASSUME NEW c \in Calls, Handle(c) PROVE UNCHANGED <<phase, overran>>
  BY <1>1 DEF Handle, Native!Arrive, Native!Schedule, Native!FetchSubscriptions,
              Native!FetchFails, Native!GiveUp, Native!QueueStage2, Native!Stage2Fails,
              Native!Commit, Native!CommitPanics, Native!EnqueueTask
<1>2. CASE Attempt
  BY <1>2 DEF Attempt, Native!Attempt
<1>3. CASE DeliverPayload
  BY <1>3 DEF DeliverPayload, Native!DeliverPayload, Native!BadRequest, Native!PostFails,
              Native!BodyUnreadable, Native!PostAnswered, Native!UpdateRecord,
              Native!UpdateFails, Native!Return
<1>4. CASE \E c \in Calls : Handle(c)
  BY <1>1, <1>4 DEF Handle
<1> QED
  BY <1>2, <1>3, <1>4

\* Server.Run and work.Join compose the queues without disturbing the legacy
\* one: every step of the daemon is a step of LegacyQueue or changes nothing
\* that LegacyQueue sees.
THEOREM LegacyAsAlone == Spec => ImplementsLegacy
<1>1. Init => Legacy!Init
  BY DEF Init
<1>2. [Next]_vars => [Legacy!Next]_(Legacy!vars)
  <2> SUFFICES ASSUME Next, ~UNCHANGED vars PROVE Legacy!Next \/ UNCHANGED Legacy!vars
    OBVIOUS
  <2>1. ASSUME NEW c \in LegacyCalls, LegacyHandle(c) PROVE Legacy!Next
    BY <2>1 DEF LegacyHandle, Legacy!Next
  <2>2. CASE LegacyAttempt \/ LegacyPrepare \/ LegacyDeliverPayload
    BY <2>2 DEF LegacyAttempt, LegacyPrepare, LegacyDeliverPayload, Legacy!Next
  <2> QED
    BY <2>1, <2>2, NativeIsSilent, RunIsLegacy DEF Next
<1> QED
  BY <1>1, <1>2, PTL DEF Spec, ImplementsLegacy, Legacy!Spec

-----------------------------------------------------------------------------
\* Server.Run and work.Join: what is proved of either queue alone is true of a
\* daemon that runs both.
THEOREM QueuesAsAlone == Spec => ImplementsQueues
BY NativeAsAlone, LegacyAsAlone DEF ImplementsQueues
=============================================================================
