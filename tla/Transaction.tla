---------------------------- MODULE Transaction -----------------------------
(***************************************************************************)
(* WithTx of database/middleware.go, for the transactions that one request *)
(* runs, and as much of database/sql and PostgreSQL as decides what WithTx *)
(* returns and what is left in the database.  Every action is a fragment:  *)
(* the module that runs the transactions says when they begin and what     *)
(* becomes of their results.                                               *)
(*                                                                         *)
(* All of them use the context of the request.  When it is cancelled, a    *)
(* goroutine of database/sql rolls an open transaction back, at any moment *)
(* of WithTx or of the function it was given.                              *)
(***************************************************************************)
CONSTANT Txs

VARIABLES
  cancelled,    \* the request's context is done
  at,           \* where WithTx is
  conn,         \* the transactions that hold a connection
  open,         \* the sql.Tx that are neither committed nor rolled back
  failed,       \* those in which a statement failed
  effect,       \* what PostgreSQL has of the transaction's writes
  result        \* what WithTx came to

vars == <<cancelled, at, conn, open, failed, effect, result>>

\* "error": returned an error; "nil": returned nil; "cancel": panicked with the
\* error of the context; "fault": with another error; "other": with a value that
\* is no error.
Results == {"none", "nil", "error", "cancel", "fault", "other"}

TypeOK ==
  /\ cancelled \in BOOLEAN
  /\ at \in [Txs -> {"idle", "begin", "fn", "rollback", "commit", "returned"}]
  /\ conn \subseteq Txs
  /\ open \subseteq Txs
  /\ failed \subseteq Txs
  /\ effect \in [Txs -> {"none", "made", "committed", "undone"}]
  /\ result \in [Txs -> Results]

Init ==
  /\ cancelled = FALSE
  /\ at = [t \in Txs |-> "idle"]
  /\ conn = {}
  /\ open = {}
  /\ failed = {}
  /\ effect = [t \in Txs |-> "none"]
  /\ result = [t \in Txs |-> "none"]

-----------------------------------------------------------------------------
\* The client disconnects, or the timeout of the request is over.
Cancel ==
  /\ ~cancelled
  /\ cancelled' = TRUE
  /\ UNCHANGED <<at, conn, open, failed, effect, result>>

\* The goroutine of database/sql that waits for the end of the context.
AwaitDone(t) ==
  /\ cancelled
  /\ t \in open
  /\ open' = open \ {t}
  /\ effect' = [effect EXCEPT ![t] = "undone"]
  /\ UNCHANGED <<cancelled, at, conn, failed, result>>

\* WithTx returns or panics with r: the deferred Rollback ends what is still
\* open, the deferred Close gives the connection back, whatever the way out.
Return(t, r, e) ==
  /\ at' = [at EXCEPT ![t] = "returned"]
  /\ result' = [result EXCEPT ![t] = r]
  /\ open' = open \ {t}
  /\ effect' = [effect EXCEPT ![t] = e]
  /\ conn' = conn \ {t}
  /\ UNCHANGED <<cancelled, failed>>

\* What a rollback leaves of t, if nothing else has ended it before.
Undone(t) == IF t \in open THEN "undone" ELSE effect[t]

-----------------------------------------------------------------------------
(***************************************************************************)
(* WithTx                                                                  *)
(***************************************************************************)

Call(t) ==
  /\ at[t] = "idle"
  /\ at' = [at EXCEPT ![t] = "begin"]
  /\ UNCHANGED <<cancelled, conn, open, failed, effect, result>>

\* No connection, or BEGIN fails; neither is tried with a context that is done.
BeginFails(t) ==
  /\ at[t] = "begin"
  /\ Return(t, "error", "none")

Begin(t) ==
  /\ at[t] = "begin"
  /\ ~cancelled
  /\ at' = [at EXCEPT ![t] = "fn"]
  /\ conn' = conn \cup {t}
  /\ open' = open \cup {t}
  /\ UNCHANGED <<cancelled, failed, effect, result>>

\* fn executes a statement that writes.
Execute(t) ==
  /\ at[t] = "fn"
  /\ t \in open \ failed
  /\ ~cancelled
  /\ effect' = [effect EXCEPT ![t] = "made"]
  /\ UNCHANGED <<cancelled, at, conn, open, failed, result>>

\* A statement fails: PostgreSQL rejects it and all that follow, the rows stop
\* coming, or the transaction is over.
ExecuteFails(t) ==
  /\ at[t] = "fn"
  /\ failed' = failed \cup {t}
  /\ UNCHANGED <<cancelled, at, conn, open, effect, result>>

\* fn returns err.  It need not have looked at the error of every statement:
\* a loop over rows.Next() that does not ask rows.Err() takes it for the end.
FnReturns(t, err) ==
  /\ at[t] = "fn"
  /\ at' = [at EXCEPT ![t] = IF err THEN "rollback" ELSE "commit"]
  /\ UNCHANGED <<cancelled, conn, open, failed, effect, result>>

\* Mutant: WithTx without the deferred Rollback.
PanicLeavesOpen(t, r) ==
  /\ at[t] = "fn"
  /\ at' = [at EXCEPT ![t] = "returned"]
  /\ result' = [result EXCEPT ![t] = r]
  /\ conn' = conn \ {t}
  /\ UNCHANGED <<cancelled, open, failed, effect>>

\* fn panics, with the error of a statement more often than not.
FnPanics(t, r) ==
  /\ at[t] = "fn"
  /\ r = "cancel" => cancelled
  /\ Return(t, r, Undone(t))

\* tx.Rollback(), whose ErrTxDone is ignored; any other error panics, and the
\* transaction ends with its connection.
Rollback(t) ==
  /\ at[t] = "rollback"
  /\ \/ Return(t, "error", Undone(t))
     \/ t \in open /\ Return(t, "fault", Undone(t))

\* tx.Commit() of a transaction that the goroutine has rolled back: ErrTxDone
\* is ignored, and WithTx returns the nil of fn.
CommitTxDone(t) ==
  /\ at[t] = "commit"
  /\ t \notin open
  /\ Return(t, "nil", effect[t])

\* Mutant: every error of Commit is ignored.
CommitIgnoresErrors(t) ==
  /\ at[t] = "commit"
  /\ t \in open
  /\ Return(t, "nil", IF cancelled \/ t \in failed THEN "undone" ELSE "committed")

\* It looks at the context first.
CommitCancelled(t) ==
  /\ at[t] = "commit"
  /\ t \in open
  /\ cancelled
  /\ Return(t, "cancel", "undone")

CommitSucceeds(t) ==
  /\ at[t] = "commit"
  /\ t \in open \ failed
  /\ Return(t, "nil", "committed")

\* The driver refuses to commit a transaction in which a statement failed, or
\* the connection breaks: then only PostgreSQL knows what came of it.
CommitFails(t) ==
  /\ at[t] = "commit"
  /\ t \in open
  /\ \/ Return(t, "fault", "undone")
     \/ t \notin failed /\ Return(t, "fault", "committed")

\* What WithTx does by itself.
Proceed(t) ==
  \/ BeginFails(t)
  \/ Begin(t)
  \/ Rollback(t)
  \/ CommitTxDone(t)
  \/ CommitCancelled(t)
  \/ CommitSucceeds(t)
  \/ CommitFails(t)

\* What the function it is given does, and how it ends.
FnEnds(t) ==
  \/ \E err \in BOOLEAN : FnReturns(t, err)
  \/ \E r \in {"cancel", "fault", "other"} : FnPanics(t, r)

Fn(t) ==
  \/ Execute(t)
  \/ ExecuteFails(t)

-----------------------------------------------------------------------------
(***************************************************************************)
(* Properties                                                              *)
(***************************************************************************)

\* WithTx: an error means that nothing was written.  A nil means that all was
\* written and no statement had failed, even where fn overlooks errors, except
\* for a request that is gone.  Only another panic of Commit leaves it open.
ResultTellsEffect ==
  \A t \in Txs :
    /\ result[t] = "error" => effect[t] \in {"none", "undone"}
    /\ result[t] = "nil" /\ ~cancelled => effect[t] = "committed" /\ t \notin failed
    /\ result[t] = "cancel" => effect[t] = "undone"

\* Whichever way WithTx ends, by return or by panic, it holds no connection
\* and no transaction afterwards, nor does anything stay undecided.
NothingHeld ==
  \A t \in Txs :
    at[t] = "returned" => t \notin conn \cup open /\ effect[t] # "made"
=============================================================================
