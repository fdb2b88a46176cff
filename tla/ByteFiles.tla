------------------------------ MODULE ByteFiles ------------------------------
(***************************************************************************)
(* What the contents of files promise: each file is a sequence of cells. A *)
(* step writes one value over a run of cells that starts inside the file   *)
(* or right at its end, or throws a whole file away. No step changes two   *)
(* files, shortens one, or shows cells that nobody wrote.                  *)
(***************************************************************************)
EXTENDS Naturals, Sequences

CONSTANTS Inodes, Values

VARIABLE contents

Overwrite(s, off, n, v) ==
    [k \in 1 .. (IF off + n > Len(s) THEN off + n ELSE Len(s)) |->
        IF k > off /\ k <= off + n THEN v ELSE s[k]]

Write(i) ==
    \E off \in 0 .. Len(contents[i]), v \in Values :
        \E n \in 1 .. Len(contents'[i]) :
            contents' = [contents EXCEPT ![i] = Overwrite(@, off, n, v)]

Discard(i) == contents' = [contents EXCEPT ![i] = <<>>]

Init == contents = [i \in Inodes |-> <<>>]

Next == \E i \in Inodes : Write(i) \/ Discard(i)

Spec == Init /\ [][Next]_contents
=============================================================================
