----------------------------- MODULE Terminal -----------------------------
(***************************************************************************)
(* What a virtual console promises the processes that read it: the line    *)
(* being typed can be edited until it is complete, complete lines are      *)
(* delivered in order, each character once, and a read gets at most one    *)
(* line. An end of file ends a read and is not delivered.                  *)
(***************************************************************************)
EXTENDS Integers, Sequences, SequencesExt

CONSTANTS Consoles, Procs, Size, Ordinary

VARIABLES
    line,     \* what has been typed on each console and can still be edited
    ready,    \* what can be read from it
    got       \* what the read call a process is in has delivered to it

tvars == <<line, ready, got>>

Init ==
    /\ line = [k \in Consoles |-> <<>>] /\ ready = [k \in Consoles |-> <<>>]
    /\ got = [p \in Procs |-> <<>>]

Type(k, ch) ==
    LET typed == Append(line[k], ch) IN
    /\ Len(ready[k]) + Len(line[k]) < Size
    /\ IF ch \in {"NL", "EOF"} \/ Len(ready[k]) + Len(typed) = Size
       THEN /\ ready' = [ready EXCEPT ![k] = @ \o typed]
            /\ line' = [line EXCEPT ![k] = <<>>]
       ELSE line' = [line EXCEPT ![k] = typed] /\ UNCHANGED ready
    /\ UNCHANGED got

Erase(k) ==
    /\ line[k] # <<>>
    /\ line' = [line EXCEPT ![k] = Front(@)]
    /\ UNCHANGED <<ready, got>>

EraseLine(k) == line' = [line EXCEPT ![k] = <<>>] /\ UNCHANGED <<ready, got>>

(* A read takes characters up to the end of a line. An end of file is taken *)
(* only by a read that has got nothing else. What is not taken stays.       *)
Read(p, k) ==
    \E n \in 1 .. Len(ready[k]) :
      LET taken == SubSeq(ready[k], 1, n)
          bytes == SelectSeq(taken, LAMBDA ch : ch # "EOF")
      IN  /\ \A i \in 1 .. (n - 1) : taken[i] \in Ordinary
          /\ taken[n] = "EOF" => got[p] = <<>> /\ n = 1
          /\ ready' = [ready EXCEPT ![k] = SubSeq(@, n + 1, Len(@))]
          /\ \E m \in {Len(bytes), Len(bytes) - 1} \cap Nat :   \* the copy to the
               got' = [got EXCEPT ![p] = @ \o SubSeq(bytes, 1, m)]  \* user may fail
          /\ UNCHANGED line

NewCall(p) == got' = [got EXCEPT ![p] = <<>>] /\ UNCHANGED <<line, ready>>

Next ==
    \/ \E k \in Consoles :
         \/ \E ch \in Ordinary \cup {"NL", "EOF"} : Type(k, ch)
         \/ Erase(k) \/ EraseLine(k)
         \/ \E p \in Procs : Read(p, k)
    \/ \E p \in Procs : NewCall(p)

Spec == Init /\ [][Next]_tvars
=============================================================================
