---------------------------- MODULE MCBufferCache ----------------------------
(* Processes and blocks are interchangeable; buffers are not (binit).      *)
EXTENDS BufferCache, TLC

Symmetric == Permutations(Procs) \cup Permutations(Blocks)
=============================================================================
