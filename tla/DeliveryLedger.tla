--------------------------- MODULE DeliveryLedger ---------------------------
(***************************************************************************)
(* What a webhook queue or the mail queue promises, without queues,        *)
(* transactions or processes.  A call of Schedule publishes deliveries to  *)
(* a batch of subscriptions, the k-th delivery of call c being <<c, k>>; a *)
(* call of EnqueueStd publishes one mail.  The batch appears at once or    *)
(* not at all, and once only; a published delivery is tried at most        *)
(* MaxAttempts times, never before it is published and never after it is   *)
(* settled; it is settled only after a try; and the only other way out of  *)
(* "pending" is to be dropped.                                             *)
(***************************************************************************)
EXTENDS Naturals

CONSTANTS Calls, MaxSubs, MaxAttempts

Deliveries == Calls \X (1..MaxSubs)

VARIABLES
  ledger,       \* the standing of each delivery
  tries         \* how often it was tried

vars == <<ledger, tries>>

Standing == {"absent", "pending", "settled", "dropped"}

Init ==
  /\ ledger = [d \in Deliveries |-> "absent"]
  /\ tries = [d \in Deliveries |-> 0]

\* The first n deliveries of call c come into being, all with one standing:
\* "pending" as a rule, "dropped" when the publisher never learns that its
\* transaction went through.
Publish(c, n, standing) ==
  /\ \A k \in 1..MaxSubs : ledger[<<c, k>>] = "absent"
  /\ ledger' = [d \in Deliveries |->
                  IF d[1] = c /\ d[2] <= n THEN standing ELSE ledger[d]]
  /\ UNCHANGED tries

Try(d) ==
  /\ ledger[d] = "pending"
  /\ tries[d] < MaxAttempts
  /\ tries' = [tries EXCEPT ![d] = @ + 1]
  /\ UNCHANGED ledger

Settle(d) ==
  /\ ledger[d] = "pending"
  /\ tries[d] > 0
  /\ ledger' = [ledger EXCEPT ![d] = "settled"]
  /\ UNCHANGED tries

Drop(D) ==
  /\ \A d \in D : ledger[d] = "pending"
  /\ ledger' = [d \in Deliveries |-> IF d \in D THEN "dropped" ELSE ledger[d]]
  /\ UNCHANGED tries

Next ==
  \/ \E c \in Calls, n \in 1..MaxSubs, standing \in {"pending", "dropped"} :
       Publish(c, n, standing)
  \/ \E d \in Deliveries : Try(d) \/ Settle(d)
  \/ \E D \in SUBSET Deliveries : Drop(D)

Spec == Init /\ [][Next]_vars
=============================================================================
