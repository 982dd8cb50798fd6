--------------------------- MODULE SharedCacheMC --------------------------
(* SharedCache with two keys and the one worker of servePipe.              *)
EXTENDS SharedCache
=============================================================================
