----------------------------- MODULE ServerRun ------------------------------
(***************************************************************************)
(* The life of one API daemon: Server.Run of server/server.go, from        *)
(* listening to the end of the warm shutdown, and its being killed and     *)
(* started again.  Every action is a fragment: the module that composes    *)
(* the daemon with its queues conjoins what happens to them.               *)
(***************************************************************************)
VARIABLES
  phase,        \* where Run is
  overran       \* qserver.Shutdown gave up with handlers of this
                \* process still running

vars == <<phase, overran>>

\* "running":  blocked on <-sig
\* "draining": in qserver.Shutdown, which waits for the handlers
\* "joining":  in work.Join, which waits for the queues
\* "exited":   Run returned (warm shutdown complete)
\* "killed":   the process ended any other way
Phases == {"running", "draining", "joining", "exited", "killed"}

Alive == phase \in {"running", "draining", "joining"}

TypeOK ==
  /\ phase \in Phases
  /\ overran \in BOOLEAN

Init ==
  /\ phase = "running"
  /\ overran = FALSE

\* First SIGINT: the signal handler is reset and the listener is closed.
Interrupt ==
  /\ phase = "running"
  /\ phase' = "draining"
  /\ UNCHANGED overran

\* qserver.Shutdown returns: no handler is left, or its 30 seconds are over.
\* Its error is ignored, so Run goes on to the queues in both cases.
ShutdownReturns(handlersLeft) ==
  /\ phase = "draining"
  /\ phase' = "joining"
  /\ overran' = handlersLeft

\* work.Join returns, qserver.Close cuts the remaining connections and Run
\* returns to main.
JoinReturns(drained) ==
  /\ phase = "joining"
  /\ drained
  /\ phase' = "exited"
  /\ overran' = FALSE

\* A second SIGINT (the default action is back in force), a panic in a
\* goroutine nobody recovers, SIGKILL, a power cut.
Kill ==
  /\ Alive
  /\ phase' = "killed"
  /\ overran' = FALSE

\* The service manager starts the daemon again.
Restart ==
  /\ ~Alive
  /\ phase' = "running"
  /\ overran' = FALSE
=============================================================================
