------------------------------ MODULE MCFiles ------------------------------
EXTENDS Files

CONSTANTS p1, p2

MCWrote == [i \in Inodes |-> i]

Workload(a, b, inodes, modes, counts, faults) ==
    [calls |-> [p \in Procs |-> IF p = p1 THEN a ELSE b],
     inodes |-> inodes, modes |-> modes, counts |-> counts, faults |-> faults]

(* Descriptors and pipes without data; a file written by two processes that *)
(* share it, with failing copies; a file read and written, with a count     *)
(* below zero too; two files that compete for blocks; files removed and     *)
(* made again from their blocks.                                            *)
MCWorkloads == {
    Workload({"open", "pipe", "close", "fork", "dup"}, {"dup", "close", "exit"}, {1}, {TRUE}, {}, FALSE),
    Workload({"open", "write", "fork"}, {"write"}, {1}, {TRUE}, {1, 5}, TRUE),
    Workload({"open", "write", "read", "fork"}, {"read"}, {1}, BOOLEAN, {-1, 5}, FALSE),
    Workload({"open", "write", "fork"}, {"write", "exit"}, {1, 2}, {TRUE}, {5}, FALSE),
    Workload({"open", "write", "unlink", "close"}, {}, {1, 2}, {TRUE}, {5}, FALSE)}

(* One process writes a file of several blocks, removes and closes it.      *)
TruncateWorkloads ==
    {Workload({"open", "write", "unlink", "close"}, {}, {1}, {TRUE}, {5}, FALSE)}
=============================================================================
