------------------------ MODULE RecallCoherenceMC -------------------------
(* Two processes of one thread each on one database, or one process that   *)
(* opens two databases.                                                    *)
EXTENDS RecallCoherence

CONSTANTS p1, p2, t1, t2

MCProcOf == [t \in Threads |-> IF t = t2 THEN p2 ELSE p1]
=============================================================================
