------------------------------ MODULE MCDaemon ------------------------------
(* Model values for Daemon: two processes that may be spawned, two clients.*)
EXTENDS Daemon

CONSTANTS c1, c2

MCClients == {c1, c2}
MCStarters == {c1}
=============================================================================
