------------------------------ MODULE MCDaemon ------------------------------
(* Instances of Daemon for TLC: daemons whose pids have one and two digits, and
   a file that an earlier daemon with a longer pid has left.                *)
EXTENDS Daemon

CONSTANTS d1, d2

MCPid == [d \in Daemons |-> IF d = d1 THEN <<1>> ELSE <<2, 2>>]
MCStale == <<9, 9, 9>>
=============================================================================
