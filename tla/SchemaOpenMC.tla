---------------------------- MODULE SchemaOpenMC --------------------------
(* SchemaOpen with two processes of one binary and one of an older one.    *)
EXTENDS SchemaOpen

CONSTANTS new1, new2, old

MCLast == [p \in Procs |-> IF p = old THEN 2 ELSE 4]
=============================================================================
