------------------------------ MODULE MCInodes ------------------------------
(* The calls two processes make for TLC: p1 makes and removes what p2 walks  *)
(* through, works in and links.                                              *)
EXTENDS Inodes

CONSTANTS p1, p2

Op(op, abs, path) == [op |-> op, abs |-> abs, path |-> path]
LinkCall(from, to) == [op |-> "link", abs |-> TRUE, path |-> from,
                       new |-> [abs |-> TRUE, path |-> to]]

MCCalls ==
    [p \in Procs |-> IF p = p1
     THEN {Op("mkdir", TRUE, <<"a">>), Op("unlink", TRUE, <<"a">>),
           Op("unlink", TRUE, <<"a", "b">>), Op("unlink", TRUE, <<>>)}
     ELSE {Op("chdir", FALSE, <<"a">>), Op("chdir", FALSE, <<"b">>),
           Op("chdir", FALSE, <<"..">>), Op("open", TRUE, <<"b">>),
           Op("create", FALSE, <<"b">>), Op("mkdir", FALSE, <<"b">>),
           LinkCall(<<"a", "b">>, <<"b">>)}]

(* Processes that move into a container with root /a and use its root.      *)
ContainerCalls ==
    [p \in Procs |-> {Op("mkdir", FALSE, <<"a">>), Op("cinit", FALSE, <<"a">>),
                      Op("chdir", TRUE, <<"..">>), Op("open", TRUE, <<"b">>)}]

(* After a walk out of a removed directory nothing is claimed of the names; *)
(* what follows is explored to the end of that call only.                   *)
LostCallOnly == lost => call[p2] # NoCall
=============================================================================
