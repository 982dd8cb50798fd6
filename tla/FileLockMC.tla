----------------------------- MODULE FileLockMC ---------------------------
(* FileLock with three processes and one that died before.                 *)
EXTENDS FileLock
=============================================================================
