------------------------------- MODULE MCProc -------------------------------
(* The reuse of a parent's slot needs four slots and five pids.              *)
EXTENDS Proc

(* Process 4, in slot 2, kills what it finds in slot 3: process 3, or pid 0  *)
(* when the slot is free.                                                    *)
FewKills ==
  \A s \in Slots : pc[s] = "kill" =>
    s = 2 /\ pid[s] = 4 /\ other[s] = 3 /\ target[s] \in {0, 3}

NoKills == \A s \in Slots : pc[s] # "kill"
=============================================================================
