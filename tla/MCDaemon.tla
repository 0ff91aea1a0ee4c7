------------------------------ MODULE MCDaemon ------------------------------
(* Daemon on a small instance. *)
EXTENDS Daemon

CONSTANTS c1, c2

OneNative == {c1}
OneLegacy == {c2}
=============================================================================
