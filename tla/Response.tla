------------------------------ MODULE Response ------------------------------
(***************************************************************************)
(* The response to one GraphQL operation: each of its root fields passes a *)
(* directive (server/directives.go), validates its input (valid/valid.go), *)
(* and runs a transaction (WithTx, in module Transaction); a panic on the  *)
(* way is recovered by EmailRecover (server/email.go).                     *)
(*                                                                         *)
(* gqlgen runs the fields of a query at once, those of a mutation one      *)
(* after the other, and all add their errors to one list.  The resolvers   *)
(* belong to the services that use core-go: one validates, asks Ok(), and  *)
(* returns null, or returns what its transaction gives.                    *)
(***************************************************************************)
EXTENDS Naturals

CONSTANTS
  N,            \* the number of root fields
  ErrorMails    \* not config.Debug, and mail::error-to is an address

VARIABLES
  kind,         \* "query" or "mutation"; never changes
  pc,           \* where the resolver of each field is
  errors,       \* the fields that added to the errors of the response
  rejected,     \* history: the fields one of whose own expectations failed
  answer,       \* what the response has for each field
  mailed,       \* the fields whose failure was mailed to the administrator
  cancelled, at, conn, open, failed, effect, result     \* of Transaction

Fields == 1..N

Tx == INSTANCE Transaction WITH Txs <- Fields

txVars == <<cancelled, at, conn, open, failed, effect, result>>
ownVars == <<kind, pc, errors, rejected, answer, mailed>>
vars == <<ownVars, txVars>>

TypeOK ==
  /\ kind \in {"query", "mutation"}
  /\ pc \in [Fields -> {"waiting", "validating", "running", "answered"}]
  /\ errors \subseteq Fields
  /\ rejected \subseteq Fields
  /\ answer \in [Fields -> {"none", "data", "null"}]
  /\ mailed \subseteq Fields
  /\ Tx!TypeOK

Init ==
  /\ kind \in {"query", "mutation"}
  /\ pc = [f \in Fields |-> "waiting"]
  /\ errors = {}
  /\ rejected = {}
  /\ answer = [f \in Fields |-> "none"]
  /\ mailed = {}
  /\ Tx!Init

-----------------------------------------------------------------------------
(***************************************************************************)
(* How a field ends                                                        *)
(***************************************************************************)

Answer(f, value) ==
  /\ pc' = [pc EXCEPT ![f] = "answered"]
  /\ answer' = [answer EXCEPT ![f] = value]
  /\ UNCHANGED <<kind, rejected>>

\* The resolver or its directive returns an error.
AnswerError(f) ==
  /\ Answer(f, "null")
  /\ errors' = errors \cup {f}
  /\ UNCHANGED mailed

\* Mutant: a panic that is no error, or that nobody waits for, leaves no trace.
RecoverInSilence(f, cause) ==
  /\ Answer(f, "null")
  /\ errors' = IF cause = "fault" THEN errors \cup {f} ELSE errors
  /\ mailed' = IF cause = "fault" /\ ErrorMails THEN mailed \cup {f} ELSE mailed

\* Mutant: after any error of the context the administrator is not bothered.
RecoverIfPresent(f, cause) ==
  /\ Answer(f, "null")
  /\ errors' = errors \cup {f}
  /\ mailed' = IF cause = "fault" /\ ErrorMails /\ ~cancelled THEN mailed \cup {f}
               ELSE mailed

\* gqlgen recovers a panic with EmailRecover, and adds the error it returns:
\* a mail is for errors, other than those of a request that was cut short.
EmailRecover(f, cause) ==
  /\ Answer(f, "null")
  /\ errors' = errors \cup {f}
  /\ mailed' = IF cause = "fault" /\ ErrorMails THEN mailed \cup {f} ELSE mailed

-----------------------------------------------------------------------------
(***************************************************************************)
(* The fields                                                              *)
(***************************************************************************)

\* gqlgen comes to the field.
Turn(f) ==
  /\ pc[f] = "waiting"
  /\ kind = "mutation" => \A g \in 1..(f - 1) : pc[g] = "answered"

\* A directive lets the field through, denies it, or panics: Access does for an
\* unknown way to authenticate.
DirectivePasses(f) ==
  /\ Turn(f)
  /\ pc' = [pc EXCEPT ![f] = "validating"]
  /\ UNCHANGED <<kind, errors, rejected, answer, mailed, txVars>>

DirectiveDenies(f) ==
  /\ Turn(f)
  /\ AnswerError(f)
  /\ UNCHANGED txVars

DirectivePanics(f) ==
  /\ Turn(f)
  /\ EmailRecover(f, "fault")
  /\ UNCHANGED txVars

\* The value an input has, if it has any.
Values == {"absent", "null", "string", "bool", "number"}

Checks == {"Optional", "OptionalString", "NullableString", "OptionalBool"}

\* The validation adds an error by itself.
Mistyped(check, value) ==
  \/ check \in {"OptionalString", "NullableString"} /\ value \in {"bool", "number"}
  \/ check = "OptionalBool" /\ value \in {"string", "number"}

\* It runs its callback, which has expectations of the value.
RunsCallback(check, value) ==
  /\ value # "absent"
  /\ value = "null" => check = "NullableString"
  /\ ~Mistyped(check, value)

\* One validation of an input.  A chain of Expect and And adds the error of the
\* first condition that does not hold.
Validate(f, check, value, holds) ==
  LET bad == Mistyped(check, value) \/ (RunsCallback(check, value) /\ ~holds) IN
  /\ pc[f] = "validating"
  /\ rejected' = IF bad THEN rejected \cup {f} ELSE rejected
  /\ errors' = IF bad THEN errors \cup {f} ELSE errors
  /\ UNCHANGED <<kind, pc, answer, mailed, txVars>>

\* A validation of the resolver has no input: a panic with a string.
ValidateWithoutInput(f) ==
  /\ pc[f] = "validating"
  /\ EmailRecover(f, "other")
  /\ UNCHANGED txVars

\* Mutant: the errors of resolvers do not count.
OkSoFar == rejected = {}

\* valid.Ok(): no field of the response has added an error.
Ok == errors = {}

Reject(f) ==
  /\ pc[f] = "validating"
  /\ ~Ok
  /\ Answer(f, "null")
  /\ UNCHANGED <<errors, mailed, txVars>>

RunTx(f) ==
  /\ pc[f] = "validating"
  /\ Ok
  /\ pc' = [pc EXCEPT ![f] = "running"]
  /\ Tx!Call(f)
  /\ UNCHANGED <<kind, errors, rejected, answer, mailed>>

\* Mutant: only errors can be recovered.
ResolveErrors(f) ==
  /\ pc[f] = "running"
  /\ CASE result[f] = "nil" -> Answer(f, "data") /\ UNCHANGED <<errors, mailed>>
       [] result[f] = "error" -> AnswerError(f)
       [] result[f] \in {"cancel", "fault"} -> EmailRecover(f, result[f])
       [] OTHER -> FALSE
  /\ UNCHANGED txVars

\* What the resolver does with the result of WithTx.
Resolve(f) ==
  /\ pc[f] = "running"
  /\ CASE result[f] = "nil" -> Answer(f, "data") /\ UNCHANGED <<errors, mailed>>
       [] result[f] = "error" -> AnswerError(f)
       [] result[f] \in {"cancel", "fault", "other"} -> EmailRecover(f, result[f])
       [] OTHER -> FALSE
  /\ UNCHANGED txVars

\* The client disconnects, or the request takes longer than max-duration.
Cancel ==
  /\ \E f \in Fields : pc[f] # "answered"
  /\ Tx!Cancel
  /\ UNCHANGED ownVars

AwaitDone(f) == Tx!AwaitDone(f) /\ UNCHANGED ownVars
Proceed(f) == Tx!Proceed(f) /\ UNCHANGED ownVars
Fn(f) == Tx!Fn(f) /\ UNCHANGED ownVars
FnEnds(f) == Tx!FnEnds(f) /\ UNCHANGED ownVars

-----------------------------------------------------------------------------
\* What a field does without fail.
Step(f) ==
  \/ DirectivePasses(f)
  \/ DirectiveDenies(f)
  \/ DirectivePanics(f)
  \/ ValidateWithoutInput(f)
  \/ Reject(f)
  \/ RunTx(f)
  \/ Proceed(f)
  \/ FnEnds(f)
  \/ Resolve(f)

Next ==
  \/ \E f \in Fields : Step(f)
  \/ \E f \in Fields, check \in Checks, value \in Values, holds \in BOOLEAN :
       Validate(f, check, value, holds)
  \/ \E f \in Fields : Fn(f)
  \/ Cancel
  \/ \E f \in Fields : AwaitDone(f)

Spec == Init /\ [][Next]_vars

\* A resolver validates a finite number of times, its function returns, and the
\* database answers, fails, or is given up with the request; database/sql rolls
\* back what a cancelled request has left open.
FairSpec ==
  /\ Spec
  /\ \A f \in Fields : WF_vars(Step(f)) /\ WF_vars(AwaitDone(f))

-----------------------------------------------------------------------------
(***************************************************************************)
(* Properties                                                              *)
(***************************************************************************)

Started == {f \in Fields : at[f] # "idle"}

\* No transaction is begun for input that was found wrong, nor, in a mutation,
\* after a field before it has failed in any way.
NoWriteAfterFailure ==
  \A f \in Started :
    /\ f \notin rejected
    /\ kind = "mutation" => errors \cap 1..(f - 1) = {}

\* What the client is told is what happened: data was committed, unless nobody
\* waits for it any more, and null was not, but for a commit whose outcome is
\* unknown, which the administrator hears of.
AnswerMatchesStore ==
  \A f \in Fields :
    /\ answer[f] = "data" => effect[f] = "committed" \/ cancelled
    /\ answer[f] = "null" /\ effect[f] = "committed" => f \in mailed \/ ~ErrorMails

\* A null comes with an error.  It may be that of another field, whose failure
\* Ok() counts; in a mutation, of one before it.
NullIsExplained ==
  \A f \in Fields :
    answer[f] = "null" =>
      IF kind = "mutation" THEN errors \cap 1..f # {} ELSE errors # {}

\* However its resolvers fail, panic or are cut short, the operation is answered.
EveryFieldIsAnswered == \A f \in Fields : <>(pc[f] = "answered")

\* Transaction's, of the transactions of all fields.
ResultTellsEffect == Tx!ResultTellsEffect
NothingHeld == Tx!NothingHeld
=============================================================================
