--------------------------- MODULE RuleDaemonMC ---------------------------
(* Two daemon processes; a client that makes a hook call, shuts the daemon *)
(* down or turns strict mode on, and one that reloads and then checks.     *)
(* What a request carries and the strict flag are handled by code both     *)
(* platforms share: the pipe's instance has what differs there.            *)
EXTENDS RuleDaemon

CONSTANTS c1, c2

MCPlan == [p \in Platforms |-> [c \in Clients |->
  IF c = c2 THEN <<{"reload"}, {"check"}>>
  ELSE <<{"hook", "shutdown"} \cup (IF p = "posix" THEN {"strict_on"} ELSE {})>>]]

MCPayloads == [p \in Platforms |->
  IF p = "posix" THEN {"plain", "SHUTDOWN", "RELOADED", "large"} ELSE {"plain"}]
=============================================================================
