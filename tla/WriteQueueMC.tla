--------------------------- MODULE WriteQueueMC ---------------------------
(* Two clients that enqueue, both of which also flush.                     *)
EXTENDS WriteQueue

CONSTANTS c1, c2

MCClients == {c1, c2}
=============================================================================
