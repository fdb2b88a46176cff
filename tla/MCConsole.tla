----------------------------- MODULE MCConsole -----------------------------
EXTENDS Console

CallsRead(k, n) == [op |-> "read", k |-> k, n |-> n, target |-> n, bad |-> FALSE]
CallsReadBad(k) == [op |-> "read", k |-> k, n |-> 1, target |-> 1, bad |-> TRUE]
CallsWrite == [op |-> "write"]
CallsSleep(n) == [op |-> "sleep", n |-> n, t0 |-> -1]
CallsPrintf == [op |-> "printf", next |-> "sysret"]
CallsKill(p) == [op |-> "kill", p |-> p]

Work(calls, timers, input) == [calls |-> calls, timers |-> timers, input |-> input]

(* Two readers of a console; the clock, a sleeper and a printf; control-P   *)
(* and control-T with a writer; a reader that is killed; a line edited in a *)
(* buffer that it fills; one console too far.                               *)
MCWorkloads == {
    Work(<<<<CallsRead(1, 2)>>, <<CallsRead(1, 3)>>>>, <<0, 1>>, <<"x", "CR", "EOF">>),
    Work(<<<<CallsSleep(2)>>, <<CallsPrintf>>>>, <<2, 1>>, <<>>),
    Work(<<<<CallsWrite>>, <<CallsPrintf>>>>, <<0, 0>>, <<"PS", "SWITCH", "x">>),
    Work(<<<<CallsRead(1, 1)>>, <<CallsKill(1)>>>>, <<0, 1>>, <<"NUL", "NL">>),
    Work(<<<<CallsReadBad(1), CallsRead(1, 2)>>, <<>>>>, <<0, 0>>,
         <<"x", "BS", "x", "KILL", "NL", "x", "EOF">>),
    Work(<<<<CallsWrite>>, <<>>>>, <<0, 0>>, <<"SWITCH", "SWITCH", "x">>)}
=============================================================================
