------------------------------ MODULE MCMemory ------------------------------
EXTENDS Memory

Seg(va, mem, file, reads) == [va |-> va, mem |-> mem, file |-> file, reads |-> reads]

File(segs, args) == [segs |-> segs, argc |-> 1, argv |-> TRUE, args |-> args]

(* Good programs of no, one and two segments, one for each way exec has of  *)
(* refusing a file, with the first segment or later, and an argv of which   *)
(* the second string cannot be read.                                        *)
MCPrograms ==
    {File(<<Seg(0, 1, 1, 2)>>, PGSIZE),
     File(<<Seg(0, 3, 1, 2), Seg(PGSIZE, 1, 1, 2)>>, 1),
     File(<<>>, PGSIZE + 1),
     File(<<Seg(0, 1, 1, 0)>>, 1),
     File(<<Seg(0, 2, 2, 2), Seg(2 * PGSIZE, 2, 2, 1)>>, 1),
     File(<<Seg(0, 3, 2, 2), Seg(3, 2, 1, 2)>>, 1),
     [File(<<>>, 1) EXCEPT !.argc = 2, !.argv = FALSE]}

MCIncrements == {3, -1, -4}

(* Processes of less and of more than two pages, and one that shrinks or    *)
(* grows while it is suspended.                                             *)
MCImages == {<<1, 1>>, <<7, 7>>, <<7, 6>>, <<4, 7>>}

(* One kalloc of the call fails, or all from one on, or none.               *)
MCDenials == {{}} \cup {{k} : k \in 1 .. 10} \cup {k .. 13 : k \in 1 .. 10}

(* States that differ only in which pages are where are one: the free list  *)
(* is a set, and no step looks at a page's number; last matters after a     *)
(* panic. Where pages are not accounted for, nothing is identified.         *)
Shape(pt) ==
    <<Len(pt.hi), Len(pt.lo), pt.top, {v \in Vpns : pt.maps[v] # NoPage}, pt.guard>>
MCView ==
    IF Partition
    THEN <<[p \in Procs |-> <<procs[p].used, procs[p].sz, procs[p].odd, Shape(procs[p].pt)>>],
           Cardinality(free), panicked, IF panicked = "no" THEN "" ELSE last>>
    ELSE vars
=============================================================================
