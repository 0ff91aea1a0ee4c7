----------------------------- MODULE EmailQueue -----------------------------
(***************************************************************************)
(* Outgoing mail: email/worker.go and email/send.go, run by a daemon whose *)
(* life is ServerRun on a work queue that is Dowork.                       *)
(*                                                                         *)
(* EnqueueStd runs in an HTTP handler: it writes the message through a     *)
(* quoted-printable encoder into a bytes.Buffer, hands a task with a       *)
(* pointer to that buffer to the queue, and closes the encoder on its way  *)
(* out.  The task's function, Send, reads the message from the same buffer *)
(* in the queue's goroutine.                                               *)
(*                                                                         *)
(* A message is abstracted to the parts of it that travel separately:      *)
(* "head" is what the encoder has written by the end of io.Copy, "tail" an *)
(* unterminated last line, which it keeps until it is closed.  A part cut  *)
(* in two counts as missing.                                               *)
(***************************************************************************)
EXTENDS Naturals, Sequences, FiniteSets

CONSTANTS
  Mails,        \* the calls of EnqueueStd
  MaxAttempts,  \* attempts that Retries(10) allows
  None

ASSUME BoundsAssumption == MaxAttempts \in Nat \ {0}
ASSUME NoneAssumption == None \notin Mails

VARIABLES
  phase, overran,                         \* the daemon (ServerRun)
  accepting, queue, running, attempts,    \* its work queue (Dowork)
  pc,           \* where each call of EnqueueStd is
  whole,        \* the parts each message has
  buf,          \* the unread parts in its bytes.Buffer
  step,         \* where the goroutine is in Send
  wire,         \* the parts written to the SMTP connection
  received,     \* the transmissions the SMTP server took responsibility for
  result,       \* task.Result() of the finished tasks
  raced,        \* history: mails whose first attempt began before body.Close()
  dropped       \* history: mails whose task was lost with the process

serverVars == <<phase, overran>>
queueVars == <<accepting, queue, running, attempts>>
callVars == <<pc, whole>>
taskVars == <<step, wire>>
historyVars == <<raced, dropped>>
vars == <<serverVars, queueVars, callVars, buf, taskVars, received, result,
          historyVars>>

Server == INSTANCE ServerRun
Queue == INSTANCE Dowork WITH Tasks <- Mails

Parts == {"head", "tail"}

\* "handling": the handler runs and has not composed the message yet
\* "composed": io.Copy is done, the encoder is open
\* "enqueued": Enqueue returned, the deferred body.Close() is still to run
PCs == {"none", "handling", "composed", "enqueued", "returned", "lost"}

InFlight(m) == pc[m] \in {"handling", "composed", "enqueued"}

TypeOK ==
  /\ Server!TypeOK
  /\ Queue!TypeOK
  /\ attempts \in [Mails -> 0..MaxAttempts]
  /\ pc \in [Mails -> PCs]
  /\ whole \in [Mails -> SUBSET Parts]
  /\ buf \in [Mails -> SUBSET Parts]
  /\ step \in {"idle", "dial", "commands", "copying", "closing"}
  /\ wire \subseteq Parts
  /\ received \in [Mails -> Seq(SUBSET Parts)]
  /\ result \in [Mails -> {"none", "sent", "failed"}]
  /\ raced \subseteq Mails
  /\ dropped \subseteq Mails

Init ==
  /\ Server!Init
  /\ Queue!Init
  /\ pc = [m \in Mails |-> "none"]
  /\ whole = [m \in Mails |-> {}]
  /\ buf = [m \in Mails |-> {}]
  /\ step = "idle"
  /\ wire = {}
  /\ received = [m \in Mails |-> <<>>]
  /\ result = [m \in Mails |-> "none"]
  /\ raced = {}
  /\ dropped = {}

-----------------------------------------------------------------------------
(***************************************************************************)
(* EnqueueStd, in the handler's goroutine                                  *)
(***************************************************************************)

Arrive(m) ==
  /\ phase = "running"
  /\ pc[m] = "none"
  /\ pc' = [pc EXCEPT ![m] = "handling"]
  /\ UNCHANGED <<serverVars, queueVars, whole, buf, taskVars, received, result,
                 historyVars>>

\* The To or the Cc header does not parse.
InvalidHeader(m) ==
  /\ pc[m] = "handling"
  /\ pc' = [pc EXCEPT ![m] = "returned"]
  /\ UNCHANGED <<serverVars, queueVars, whole, buf, taskVars, received, result,
                 historyVars>>

\* The headers are completed and the body is copied into the encoder; a last
\* line without a newline stays there.
Compose(m, parts) ==
  /\ pc[m] = "handling"
  /\ pc' = [pc EXCEPT ![m] = "composed"]
  /\ whole' = [whole EXCEPT ![m] = parts]
  /\ buf' = [buf EXCEPT ![m] = {"head"}]
  /\ UNCHANGED <<serverVars, queueVars, taskVars, received, result, historyVars>>

\* queue.Enqueue(NewTask(&buf, rcpts)), or its error, which is returned.
Enqueue(m) ==
  /\ pc[m] = "composed"
  /\ Queue!Enqueue(m) \/ (~accepting /\ UNCHANGED queueVars)
  /\ pc' = [pc EXCEPT ![m] = "enqueued"]
  /\ UNCHANGED <<serverVars, whole, buf, taskVars, received, result, historyVars>>

\* Mutant: nobody closes the encoder.
LeaveBodyOpen(m) ==
  /\ pc[m] = "enqueued"
  /\ pc' = [pc EXCEPT ![m] = "returned"]
  /\ UNCHANGED <<serverVars, queueVars, whole, buf, taskVars, received, result,
                 historyVars>>

\* The deferred body.Close() flushes the last line into the buffer.
CloseBody(m) ==
  /\ pc[m] = "enqueued"
  /\ pc' = [pc EXCEPT ![m] = "returned"]
  /\ buf' = [buf EXCEPT ![m] = @ \cup (whole[m] \ {"head"})]
  /\ UNCHANGED <<serverVars, queueVars, whole, taskVars, received, result,
                 historyVars>>

EnqueueStd(m) ==
  \/ InvalidHeader(m)
  \/ Compose(m, {"head"})
  \/ Compose(m, Parts)
  \/ Enqueue(m)
  \/ CloseBody(m)

-----------------------------------------------------------------------------
(***************************************************************************)
(* Send, in the queue's goroutine                                          *)
(***************************************************************************)

Attempt(m) ==
  /\ Queue!Attempt(m)
  /\ step' = "dial"
  /\ raced' = IF pc[m] = "enqueued" THEN raced \cup {m} ELSE raced
  /\ UNCHANGED <<serverVars, callVars, buf, wire, received, result, dropped>>

Idle == step' = "idle" /\ wire' = {}

\* Mutant: the count of retries is taken for the count of attempts.
FailsOneMore ==
  /\ Queue!Fail(MaxAttempts + 1)
  /\ result' = IF attempts[running] <= MaxAttempts
                 THEN result ELSE [result EXCEPT ![running] = "failed"]
  /\ Idle
  /\ UNCHANGED <<serverVars, callVars, historyVars>>

\* The task's function returns an error; After logs the last one.
Fails ==
  /\ Queue!Fail(MaxAttempts)
  /\ result' = IF attempts[running] < MaxAttempts
                 THEN result ELSE [result EXCEPT ![running] = "failed"]
  /\ Idle
  /\ UNCHANGED <<serverVars, callVars, historyVars>>

\* mailSetup: the server cannot be reached, or refuses the greeting, the TLS
\* handshake or the credentials.  What it panics about ends the process: Kill.
SetupFails ==
  /\ step = "dial"
  /\ Fails
  /\ UNCHANGED <<buf, received>>

MailSetup ==
  /\ step = "dial"
  /\ step' = "commands"
  /\ UNCHANGED <<serverVars, queueVars, callVars, buf, wire, received, result,
                 historyVars>>

\* SendMail: MAIL, RCPT or DATA is refused before the message is read.
CommandRefused ==
  /\ step = "commands"
  /\ Fails
  /\ UNCHANGED <<buf, received>>

\* SendMail copies the message: WriteTo of the buffer sends what is there...
CopyBegins ==
  /\ step = "commands"
  /\ wire' = buf[running]
  /\ step' = "copying"
  /\ UNCHANGED <<serverVars, queueVars, callVars, buf, received, result,
                 historyVars>>

\* Mutant: every attempt reads the message from a reader of its own.
CopyKeepsBuffer ==
  /\ step = "copying"
  /\ step' = "closing"
  /\ UNCHANGED <<serverVars, queueVars, callVars, buf, wire, received, result,
                 historyVars>>

\* ...and then resets the buffer, with what was added to it meanwhile.
CopyEnds ==
  /\ step = "copying"
  /\ buf' = [buf EXCEPT ![running] = {}]
  /\ step' = "closing"
  /\ UNCHANGED <<serverVars, queueVars, callVars, wire, received, result,
                 historyVars>>

\* The connection breaks; what was written so far has left the buffer.
CopyBreaks(written) ==
  /\ step = "copying"
  /\ written \subseteq wire
  /\ "tail" \in written => "head" \notin wire \ written
  /\ buf' = [buf EXCEPT ![running] = @ \ written]
  /\ Fails
  /\ UNCHANGED received

\* The server takes the message, and the task hears of it or does not.
Accepts(heard) ==
  /\ step = "closing"
  /\ received' = [received EXCEPT ![running] = Append(@, wire)]
  /\ IF heard
       THEN /\ Queue!Done
            /\ result' = [result EXCEPT ![running] = "sent"]
            /\ Idle
            /\ UNCHANGED <<serverVars, callVars, historyVars>>
       ELSE Fails
  /\ UNCHANGED buf

\* The server refuses the message it was sent.
Rejects ==
  /\ step = "closing"
  /\ Fails
  /\ UNCHANGED <<buf, received>>

Send ==
  \/ SetupFails
  \/ MailSetup
  \/ CommandRefused
  \/ CopyBegins
  \/ CopyEnds
  \/ \E written \in SUBSET Parts : CopyBreaks(written)
  \/ \E heard \in BOOLEAN : Accepts(heard)
  \/ Rejects

-----------------------------------------------------------------------------
(***************************************************************************)
(* The daemon around them                                                  *)
(***************************************************************************)

Interrupt ==
  /\ Server!Interrupt
  /\ UNCHANGED <<queueVars, callVars, buf, taskVars, received, result, historyVars>>

\* As in WebhookQueue; others: handlers are left that send no mail.
ShutdownReturns ==
  /\ \E others \in BOOLEAN :
       Server!ShutdownReturns(others \/ \E m \in Mails : InFlight(m))
  /\ Queue!Refuse
  /\ UNCHANGED <<callVars, buf, taskVars, received, result, historyVars>>

ProcessEnds ==
  /\ Queue!Lose
  /\ Idle
  /\ pc' = [m \in Mails |-> IF InFlight(m) THEN "lost" ELSE pc[m]]
  /\ buf' = [m \in Mails |-> {}]
  /\ dropped' = dropped \cup queue
  /\ UNCHANGED <<whole, received, result, raced>>

\* Mutant: the queue is stopped before it is drained.
JoinReturnsAtOnce ==
  /\ Server!JoinReturns(TRUE)
  /\ ProcessEnds

JoinReturns ==
  /\ Server!JoinReturns(Queue!Drained)
  /\ ProcessEnds

Kill ==
  /\ Server!Kill
  /\ ProcessEnds

Restart ==
  /\ Server!Restart
  /\ Queue!Reopen
  /\ UNCHANGED <<callVars, buf, taskVars, received, result, historyVars>>

Next ==
  \/ \E m \in Mails : Arrive(m) \/ EnqueueStd(m) \/ Attempt(m)
  \/ Send
  \/ Interrupt
  \/ ShutdownReturns
  \/ JoinReturns
  \/ Kill
  \/ Restart

Spec == Init /\ [][Next]_vars

\* The goroutine of the queue is only ever blocked on the SMTP connection,
\* whose client has timeouts; the other conjuncts are those of WebhookQueue.
Fairness ==
  /\ WF_vars(\E m \in Mails : Attempt(m))
  /\ WF_vars(Send)
  /\ WF_vars(ShutdownReturns)
  /\ WF_vars(JoinReturns)

FairSpec == Spec /\ Fairness

-----------------------------------------------------------------------------
(***************************************************************************)
(* Properties                                                              *)
(***************************************************************************)

\* The positions of the complete copies of m among the transmissions.
Complete(m) == {k \in DOMAIN received[m] : received[m][k] = whole[m]}

\* Send empties the buffer it reads from: however the attempts go, and even if
\* the server's reply is lost, the server is never given the whole message a
\* second time.
WholeAtMostOnce ==
  \A m \in Mails : Cardinality(Complete(m)) <= 1

\* A mail reported as sent by the first attempt, begun after EnqueueStd closed
\* the encoder, was received whole.
UndisturbedMailIsWhole ==
  \A m \in Mails :
    result[m] = "sent" /\ attempts[m] = 1 /\ m \notin raced
      => Complete(m) # {}

\* Where a mail is in the eyes of the ledger, as the one delivery of its call.
Standing(m) ==
  IF m \in dropped THEN "dropped"
  ELSE IF m \in queue THEN "pending"
  ELSE IF result[m] # "none" THEN "settled"
  ELSE "absent"

Ledger == INSTANCE DeliveryLedger WITH
            Calls <- Mails, MaxSubs <- 1,
            ledger <- [d \in Mails \X (1..1) |-> Standing(d[1])],
            tries <- [d \in Mails \X (1..1) |-> attempts[d[1]]]

\* EnqueueStd and Send keep the promise of DeliveryLedger, too: a mail is tried at
\* most MaxAttempts times and not after it has a result, and it gets one result
\* only, after a try, unless it is dropped with the process.
ImplementsLedger == Ledger!Spec

\* A task that the queue accepted is given a result unless the process dies,
\* and a warm shutdown waits for it.
EveryMailHasAResult ==
  \A m \in Mails :
    m \in queue ~> (result[m] # "none" \/ phase = "killed")

\* NewTask logs "Mail to %s sent" (email/worker.go:38) for a task whose result
\* is nil.  After a retry, the message so reported was received whole.
RetriedMailIsWhole ==
  \A m \in Mails :
    result[m] = "sent" /\ attempts[m] > 1 /\ m \notin raced
      => Complete(m) # {}

\* EnqueueStd "queues it for delivery" (email/worker.go:47) with the body it
\* was given: what the first attempt sends is the whole message.
FirstAttemptIsWhole ==
  \A m \in Mails :
    result[m] = "sent" /\ attempts[m] = 1 => Complete(m) # {}
=============================================================================
