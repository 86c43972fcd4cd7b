--------------------------- MODULE MCSensorTable ---------------------------
(* A small instance of SensorTable for TLC.                                *)
EXTENDS SensorTable, TLC

CONSTANTS n1, n2, n3, c1, c2, c3

ThreeNames == {n1, n2, n3}
ThreeCells == {c1, c2, c3}

(* All names in slot 0, for entries that are first, last and in the middle *)
(* of a chain; slot 1 stays empty.                                         *)
Colliding == [n \in ThreeNames |-> 0]

(* The names hash alike and the allocator may pick any free cell.          *)
Alike == Permutations(ThreeNames) \cup Permutations(ThreeCells)
=============================================================================
