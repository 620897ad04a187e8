--------------------------- MODULE MCTimerServer ---------------------------
(* Two clients, so that one may get the descriptor the other had. A request  *)
(* for a file waits longer than a line, and one per client is enough.        *)
EXTENDS TimerServer

Sends == [m \in Modes |-> IF m = "transfile" THEN 1 ELSE 2]

=============================================================================
