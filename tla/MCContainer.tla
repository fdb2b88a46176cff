---------------------------- MODULE MCContainer ----------------------------
EXTENDS Container

Work(pids, targets, start, calls) ==
    [pids |-> pids, targets |-> targets, start |-> start,
     calls |-> [s \in Slots |-> IF s <= Len(calls) THEN calls[s] ELSE {}]]

(* Forks at the limit from two processes of a container, while a lower slot *)
(* becomes free; kill among containers whose vpids collide, while slots are *)
(* reused; cinit by two processes, cstop, and forks in what they made.      *)
MCWorkloads == {
    Work(8, {}, <<0, 0, 1, 1>>, <<{}, {"exit"}, {"fork"}, {"fork"}, {"exit"}, {"exit"}>>),
    Work(6, {2, 3}, <<0, 1, 2, 1>>, <<{}, {"kill"}, {"fork"}, {"write"}, {"exit"}>>),
    Work(4, {}, <<0, 0, 0>>, <<{"cstop"}, {"cinit", "fork"}, {"cinit"}, {"exit"}>>)}

(* A fork, and two cinit, while the container they meet in is stopped.      *)
StopWorkloads == {
    Work(5, {}, <<0, 0, 0, 0>>, <<{"cstop"}, {"cinit", "fork"}, {"cinit"}, {"cinit"}>>)}

(* A process exits, another of its container kills it by its vpid when it   *)
(* has been waited for, and one of another container forks.                 *)
KillWorkloads == {
    Work(5, {2}, <<0, 1, 1, 2>>, <<{}, {"kill"}, {"exit"}, {"fork"}>>)}

(* The limit of ForkLimit whether or not a container is stopped.            *)
LimitAnyway == [][WithinLimit]_vars
=============================================================================
