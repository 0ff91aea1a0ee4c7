--------------------------- MODULE ResponseProofs ---------------------------
(***************************************************************************)
(* Proofs about Response and its transactions, for every number of root    *)
(* fields.  IInv is an inductive invariant: it relates where the resolver  *)
(* of a field is, where its transaction is, what PostgreSQL has of it, and *)
(* the errors of the response.                                             *)
(***************************************************************************)
EXTENDS Response, TLAPS

\* A transaction that is under way is open, or was undone by the end of the
\* request; one that has returned holds nothing.
TxInv ==
  \A f \in Fields :
    /\ at[f] \in {"idle", "begin"} =>
         effect[f] = "none" /\ f \notin conn \cup open \cup failed
    /\ at[f] \in {"fn", "rollback", "commit"} =>
         IF f \in open THEN effect[f] \in {"none", "made"}
         ELSE effect[f] = "undone" /\ cancelled
    /\ at[f] = "returned" => f \notin conn \cup open /\ effect[f] # "made"
    /\ at[f] = "returned" <=> result[f] # "none"

\* Only two results leave the writes of the transaction in the database.
ResultInv ==
  \A f \in Fields :
    /\ result[f] \in {"error", "cancel", "other"} => effect[f] \in {"none", "undone"}
    /\ result[f] = "cancel" => effect[f] = "undone"
    /\ result[f] = "nil" /\ ~cancelled => effect[f] = "committed" /\ f \notin failed

\* A resolver runs a transaction from the moment that it calls WithTx until it
\* answers, and data is the answer of one that returned nil.
ResolverInv ==
  \A f \in Fields :
    /\ pc[f] \in {"waiting", "validating"} => at[f] = "idle"
    /\ pc[f] = "running" => at[f] # "idle"
    /\ pc[f] = "answered" => at[f] \in {"idle", "returned"}
    /\ answer[f] = "none" <=> pc[f] # "answered"
    /\ answer[f] = "data" => result[f] = "nil"

\* A field adds errors when its turn has come, its own failed expectations
\* among them, and the fields of a mutation take turns.
ErrorInv ==
  /\ rejected \subseteq errors
  /\ \A f \in errors : pc[f] # "waiting"
  /\ kind = "mutation" =>
       \A f \in Fields : pc[f] # "waiting" => \A g \in 1..(f - 1) : pc[g] = "answered"

IInv ==
  /\ TypeOK
  /\ TxInv
  /\ ResultInv
  /\ ResolverInv
  /\ ErrorInv
  /\ NoWriteAfterFailure
  /\ AnswerMatchesStore
  /\ NullIsExplained

-----------------------------------------------------------------------------
USE DEF vars, ownVars, txVars

LEMMA InitIInv == Init => IInv
BY DEF Init, Tx!Init, IInv, TypeOK, Tx!TypeOK, Tx!Results, TxInv, ResultInv, ResolverInv,
       ErrorInv, NoWriteAfterFailure, Started, AnswerMatchesStore, NullIsExplained

\* What the steps of WithTx, of its function and of database/sql keep.
LEMMA TransactionNext ==
  ASSUME IInv, NEW f \in Fields, Proceed(f) \/ FnEnds(f) \/ Fn(f) \/ AwaitDone(f)
  PROVE  IInv'
<1> USE DEF TypeOK, Tx!TypeOK, Tx!Results
<1>0. TypeOK /\ TxInv /\ ResultInv /\ ResolverInv /\ ErrorInv
  BY DEF IInv
<1>1. UNCHANGED <<kind, pc, errors, rejected, answer, mailed>>
  BY DEF Proceed, FnEnds, Fn, AwaitDone
<1>2. ASSUME TypeOK', TxInv', ResultInv', at[f] # "returned", at'[f] # "idle", at[f] # "idle",
             UNCHANGED cancelled,
             \A g \in Fields : g # f => /\ at'[g] = at[g] /\ effect'[g] = effect[g]
                                        /\ result'[g] = result[g]
      PROVE  IInv'
  <2>1. pc[f] = "running" /\ answer[f] = "none"
    BY <1>0, <1>2 DEF ResolverInv
  <2>2. ResolverInv' /\ ErrorInv'
    BY <1>0, <1>1, <1>2, <2>1 DEF ResolverInv, ErrorInv
  <2>3. Started' = Started
    BY <1>2 DEF Started
  <2>4. NoWriteAfterFailure' /\ NullIsExplained'
    BY <1>1, <2>3 DEF IInv, NoWriteAfterFailure, NullIsExplained
  <2>5. AnswerMatchesStore'
    BY <1>1, <1>2, <2>1 DEF IInv, AnswerMatchesStore
  <2> QED
    BY <1>2, <2>2, <2>4, <2>5 DEF IInv
<1>3. ASSUME NEW r \in Tx!Results \ {"none"}, NEW e \in {"none", "committed", "undone"},
             at[f] \in {"begin", "fn", "rollback", "commit"}, Tx!Return(f, r, e),
             r \in {"error", "other"} => e \in {"none", "undone"},
             r = "cancel" => e = "undone",
             r = "nil" /\ ~cancelled => e = "committed" /\ f \notin failed
      PROVE  IInv'
  <2>1. TypeOK'
    BY <1>0, <1>1, <1>3 DEF Tx!Return
  <2>2. TxInv' /\ ResultInv'
    BY <1>0, <1>3 DEF Tx!Return, TxInv, ResultInv
  <2> QED
    BY <1>0, <1>2, <1>3, <2>1, <2>2 DEF Tx!Return
<1>4. CASE Proceed(f)
  <2>1. CASE Tx!BeginFails(f)
    BY <1>3, <2>1 DEF Tx!BeginFails
  <2>2. CASE Tx!Begin(f)
    <3>1. TypeOK' /\ TxInv' /\ ResultInv'
      BY <1>0, <1>1, <2>2 DEF Tx!Begin, TxInv, ResultInv
    <3> QED
      BY <1>0, <1>2, <2>2, <3>1 DEF Tx!Begin
  <2>3. CASE Tx!Rollback(f)
    BY <1>0, <1>3, <2>3 DEF Tx!Rollback, Tx!Undone, TxInv
  <2>4. CASE Tx!CommitTxDone(f)
    BY <1>0, <1>3, <2>4 DEF Tx!CommitTxDone, TxInv
  <2>5. CASE Tx!CommitCancelled(f) \/ Tx!CommitSucceeds(f) \/ Tx!CommitFails(f)
    BY <1>0, <1>3, <2>5 DEF Tx!CommitCancelled, Tx!CommitSucceeds, Tx!CommitFails, TxInv
  <2> QED
    BY <1>4, <2>1, <2>2, <2>3, <2>4, <2>5 DEF Proceed, Tx!Proceed
<1>5. CASE FnEnds(f)
  <2>1. ASSUME NEW r \in {"cancel", "fault", "other"}, Tx!FnPanics(f, r) PROVE IInv'
    BY <1>0, <1>3, <2>1 DEF Tx!FnPanics, Tx!Undone, TxInv
  <2>2. ASSUME NEW err \in BOOLEAN, Tx!FnReturns(f, err) PROVE IInv'
    <3>1. TypeOK' /\ TxInv' /\ ResultInv'
      BY <1>0, <1>1, <2>2 DEF Tx!FnReturns, TxInv, ResultInv
    <3> QED
      BY <1>0, <1>2, <2>2, <3>1 DEF Tx!FnReturns
  <2> QED
    BY <1>5, <2>1, <2>2 DEF FnEnds, Tx!FnEnds
<1>6. CASE Fn(f)
  <2>1. TypeOK' /\ TxInv' /\ ResultInv'
    BY <1>0, <1>1, <1>6 DEF Fn, Tx!Fn, Tx!Execute, Tx!ExecuteFails, TxInv, ResultInv
  <2> QED
    BY <1>0, <1>2, <1>6, <2>1 DEF Fn, Tx!Fn, Tx!Execute, Tx!ExecuteFails
<1>7. CASE AwaitDone(f)
  <2>1. at[f] \in {"fn", "rollback", "commit"}
    BY <1>0, <1>7 DEF AwaitDone, Tx!AwaitDone, TxInv
  <2>2. TypeOK' /\ TxInv' /\ ResultInv'
    BY <1>0, <1>1, <1>7, <2>1 DEF AwaitDone, Tx!AwaitDone, TxInv, ResultInv
  <2> QED
    BY <1>0, <1>2, <1>7, <2>1, <2>2 DEF AwaitDone, Tx!AwaitDone
<1> QED
  BY <1>4, <1>5, <1>6, <1>7

\* A field that is in its turn, or whose resolver runs, is answered with v.
LEMMA AnswerNext ==
  ASSUME IInv, NEW f \in Fields, Turn(f) \/ pc[f] \in {"validating", "running"},
         at[f] \in {"idle", "returned"},
         NEW v \in {"data", "null"}, Answer(f, v), UNCHANGED txVars,
         errors' = errors \/ errors' = errors \cup {f},
         mailed' = mailed \/ mailed' = mailed \cup {f},
         v = "data" => result[f] = "nil",
         v = "null" => f \in errors' \/ (errors' = errors /\ errors # {}),
         v = "null" /\ effect[f] = "committed" => f \in mailed' \/ ~ErrorMails
  PROVE  IInv'
<1> USE DEF TypeOK, Tx!TypeOK, Tx!Results
<1>0. TypeOK /\ TxInv /\ ResultInv /\ ResolverInv /\ ErrorInv
  BY DEF IInv
<1>1. /\ pc' = [pc EXCEPT ![f] = "answered"] /\ answer' = [answer EXCEPT ![f] = v]
      /\ UNCHANGED <<kind, rejected>> /\ pc[f] # "answered"
  BY DEF Answer, Turn
<1>2. TypeOK'
  BY <1>0, <1>1
<1>3. TxInv' /\ ResultInv'
  BY <1>0 DEF TxInv, ResultInv
<1>4. ResolverInv'
  BY <1>0, <1>1 DEF ResolverInv
<1>5. kind = "mutation" => \A g \in 1..(f - 1) : pc[g] = "answered"
  BY <1>0 DEF Turn, ErrorInv
<1>6. ErrorInv'
  BY <1>0, <1>1, <1>5 DEF ErrorInv
<1>7. NoWriteAfterFailure'
  <2>1. Started' = Started
    BY DEF Started
  <2>2. ASSUME kind = "mutation", NEW g \in Started, g \in Fields, f \in 1..(g - 1) PROVE FALSE
    <3>1. pc[g] # "waiting"
      BY <1>0, <2>2 DEF ResolverInv, Started
    <3> QED
      BY <1>0, <1>1, <2>2, <3>1 DEF ErrorInv
  <2> QED
    BY <1>1, <2>1, <2>2 DEF IInv, NoWriteAfterFailure, Started
<1>8. AnswerMatchesStore'
  BY <1>0, <1>1 DEF IInv, AnswerMatchesStore, ResultInv
<1>9. NullIsExplained'
  <2>1. v = "null" /\ kind = "mutation" => errors' \cap 1..f # {}
    <3>1. CASE f \in errors'
      BY <3>1 DEF Fields
    <3>2. ASSUME errors' = errors, errors # {}, v = "null", kind = "mutation" PROVE errors \cap 1..f # {}
      <4>1. PICK g \in errors : g \in Fields
        BY <1>0, <3>2
      <4>2. ~(f \in 1..(g - 1))
        BY <1>0, <1>1, <3>2, <4>1 DEF ErrorInv
      <4> QED
        BY <4>1, <4>2 DEF Fields
    <3> QED
      BY <3>1, <3>2
  <2>2. v = "null" => errors' # {}
    OBVIOUS
  <2>3. \A g \in Fields : g # f => answer'[g] = answer[g]
    BY <1>0, <1>1
  <2>4. answer'[f] = v
    BY <1>0, <1>1
  <2> QED
    BY <1>1, <2>1, <2>2, <2>3, <2>4 DEF IInv, NullIsExplained
<1> QED
  BY <1>2, <1>3, <1>4, <1>6, <1>7, <1>8, <1>9 DEF IInv

LEMMA ResolverNext ==
  ASSUME IInv, NEW f \in Fields,
         DirectivePasses(f) \/ DirectiveDenies(f) \/ DirectivePanics(f)
           \/ ValidateWithoutInput(f) \/ Reject(f) \/ RunTx(f) \/ Resolve(f)
  PROVE  IInv'
<1> USE DEF TypeOK, Tx!TypeOK, Tx!Results
<1>0. TypeOK /\ TxInv /\ ResultInv /\ ResolverInv /\ ErrorInv
  BY DEF IInv
<1>1. CASE DirectivePasses(f)
  <2>1. TypeOK' /\ TxInv' /\ ResultInv'
    BY <1>0, <1>1 DEF DirectivePasses, TxInv, ResultInv
  <2>2. ResolverInv' /\ ErrorInv'
    BY <1>0, <1>1 DEF DirectivePasses, Turn, ResolverInv, ErrorInv
  <2>3. NoWriteAfterFailure' /\ AnswerMatchesStore' /\ NullIsExplained'
    BY <1>1 DEF DirectivePasses, IInv, NoWriteAfterFailure, Started, AnswerMatchesStore,
                NullIsExplained
  <2> QED
    BY <2>1, <2>2, <2>3 DEF IInv
<1>2. CASE DirectiveDenies(f) \/ DirectivePanics(f)
  <2>1. at[f] = "idle" /\ effect[f] = "none"
    BY <1>0, <1>2 DEF DirectiveDenies, DirectivePanics, Turn, ResolverInv, TxInv
  <2> QED
    BY <1>2, <2>1, AnswerNext DEF DirectiveDenies, DirectivePanics, AnswerError, EmailRecover,
                                  Answer
<1>6. CASE ValidateWithoutInput(f)
  <2>1. at[f] = "idle" /\ effect[f] = "none"
    BY <1>0, <1>6 DEF ValidateWithoutInput, ResolverInv, TxInv
  <2> QED
    BY <1>6, <2>1, AnswerNext DEF ValidateWithoutInput, EmailRecover, Answer
<1>3. CASE Reject(f)
  <2>1. at[f] = "idle" /\ effect[f] = "none"
    BY <1>0, <1>3 DEF Reject, ResolverInv, TxInv
  <2> QED
    BY <1>3, <2>1, AnswerNext DEF Reject, Ok
<1>4. CASE RunTx(f)
  <2>1. TypeOK' /\ TxInv' /\ ResultInv'
    BY <1>0, <1>4 DEF RunTx, Tx!Call, TxInv, ResultInv
  <2>2. ResolverInv' /\ ErrorInv'
    BY <1>0, <1>4 DEF RunTx, Tx!Call, ResolverInv, ErrorInv
  <2>3. NoWriteAfterFailure'
    BY <1>0, <1>4 DEF RunTx, Ok, Tx!Call, ErrorInv, NoWriteAfterFailure, Started
  <2>4. AnswerMatchesStore' /\ NullIsExplained'
    BY <1>4 DEF RunTx, Tx!Call, IInv, AnswerMatchesStore, NullIsExplained
  <2> QED
    BY <2>1, <2>2, <2>3, <2>4 DEF IInv
<1>5. CASE Resolve(f)
  <2>1. result[f] # "none" /\ at[f] = "returned" /\ pc[f] = "running" /\ UNCHANGED txVars
    BY <1>0, <1>5 DEF Resolve, TxInv
  <2>2. CASE result[f] = "nil"
    <3>1. Answer(f, "data") /\ UNCHANGED <<errors, mailed>>
      BY <1>5, <2>2 DEF Resolve
    <3> QED
      BY <2>1, <2>2, <3>1, AnswerNext
  <2>3. CASE result[f] = "error"
    <3>1. AnswerError(f) /\ effect[f] # "committed"
      BY <1>0, <1>5, <2>3 DEF Resolve, ResultInv
    <3> QED
      BY <2>1, <3>1, AnswerNext DEF AnswerError
  <2>4. CASE result[f] \in {"cancel", "fault", "other"}
    <3>1. EmailRecover(f, result[f]) /\ (effect[f] = "committed" => result[f] = "fault")
      BY <1>0, <1>5, <2>4 DEF Resolve, ResultInv
    <3> QED
      BY <2>1, <2>4, <3>1, AnswerNext DEF EmailRecover
  <2> QED
    BY <1>0, <2>1, <2>2, <2>3, <2>4
<1> QED
  BY <1>1, <1>2, <1>3, <1>4, <1>5, <1>6

LEMMA ValidateNext ==
  ASSUME IInv, NEW f \in Fields, NEW check \in Checks, NEW value \in Values,
         NEW holds \in BOOLEAN, Validate(f, check, value, holds)
  PROVE  IInv'
<1> USE DEF TypeOK, Tx!TypeOK, Tx!Results
<1>0. TypeOK /\ TxInv /\ ResultInv /\ ResolverInv /\ ErrorInv
  BY DEF IInv
<1>1. /\ pc[f] = "validating" /\ UNCHANGED <<kind, pc, answer, mailed, txVars>>
      /\ \/ rejected' = rejected \cup {f} /\ errors' = errors \cup {f}
         \/ UNCHANGED <<rejected, errors>>
  BY DEF Validate
<1>2. TypeOK' /\ TxInv' /\ ResultInv' /\ ResolverInv'
  BY <1>0, <1>1 DEF TxInv, ResultInv, ResolverInv
<1>3. ErrorInv'
  BY <1>0, <1>1 DEF ErrorInv
<1>4. NoWriteAfterFailure'
  <2>1. Started' = Started /\ f \notin Started
    BY <1>0, <1>1 DEF Started, ResolverInv
  <2>2. ASSUME kind = "mutation", NEW g \in Started, f \in 1..(g - 1) PROVE FALSE
    <3>1. g \in Fields /\ pc[g] # "waiting"
      BY <1>0, <2>2 DEF ResolverInv, Started
    <3> QED
      BY <1>0, <1>1, <2>2, <3>1 DEF ErrorInv
  <2> QED
    BY <1>1, <2>1, <2>2 DEF IInv, NoWriteAfterFailure
<1>5. AnswerMatchesStore' /\ NullIsExplained'
  BY <1>1 DEF IInv, AnswerMatchesStore, NullIsExplained
<1> QED
  BY <1>2, <1>3, <1>4, <1>5 DEF IInv

LEMMA CancelNext == IInv /\ Cancel => IInv'
BY DEF Cancel, Tx!Cancel, IInv, TypeOK, Tx!TypeOK, TxInv, ResultInv, ResolverInv, ErrorInv,
       NoWriteAfterFailure, Started, AnswerMatchesStore, NullIsExplained

THEOREM Invariance == Spec => []IInv
<1>1. IInv /\ [Next]_vars => IInv'
  <2>1. ASSUME IInv, UNCHANGED vars PROVE IInv'
    BY <2>1 DEF IInv, TypeOK, Tx!TypeOK, TxInv, ResultInv, ResolverInv, ErrorInv,
                NoWriteAfterFailure, Started, AnswerMatchesStore, NullIsExplained
  <2> QED
    BY <2>1, TransactionNext, ResolverNext, ValidateNext, CancelNext DEF Next, Step
<1> QED
  BY <1>1, InitIInv, PTL DEF Spec

-----------------------------------------------------------------------------
\* Resolvers, their transactions and the list of errors stay in their types, for
\* any number of fields: errors and mails are of fields of this operation.
THEOREM TypeCorrect == Spec => []TypeOK
BY Invariance, PTL DEF IInv

\* No transaction is begun for input that was found wrong, nor after the
\* failure of an earlier field of a mutation.
THEOREM FailureStopsWrites == Spec => []NoWriteAfterFailure
BY Invariance, PTL DEF IInv

\* The client is told what happened to the database.
THEOREM AnswersAreTrue == Spec => []AnswerMatchesStore
BY Invariance, PTL DEF IInv

\* A null comes with an error.
THEOREM NullsAreExplained == Spec => []NullIsExplained
BY Invariance, PTL DEF IInv

\* What WithTx returns or panics with tells what became of the writes.
THEOREM ResultsAreTrue == Spec => []ResultTellsEffect
<1>1. IInv => ResultTellsEffect
  BY DEF IInv, ResultInv, ResultTellsEffect, Tx!ResultTellsEffect
<1> QED
  BY <1>1, Invariance, PTL

\* WithTx holds nothing after it has returned or panicked.
THEOREM TransactionsEnd == Spec => []NothingHeld
<1>1. IInv => NothingHeld
  BY DEF IInv, TxInv, NothingHeld, Tx!NothingHeld
<1> QED
  BY <1>1, Invariance, PTL
=============================================================================
