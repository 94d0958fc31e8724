------------------------ MODULE MCMemoryCompilation ------------------------
(* Instances of MemoryCompilation for TLC: attempts on one page in two processes. *)
EXTENDS MemoryCompilation, TLC
=============================================================================
