---------------------------- MODULE ActuatorList ----------------------------
(***************************************************************************)
(* The gateway's list of authorized actuators (gateway_list.c), at the     *)
(* level of its pointers.  A cell is one malloc'ed struct actuator_entry;  *)
(* its address is its position in the sequence of all cells allocated so   *)
(* far.  delete_node never frees a cell, so an address is never reused.    *)
(***************************************************************************)
EXTENDS LinkedCells, Naturals, Sequences

Cells(names) == [name : names, next : Nat]

Named(cells, head, n) == {b \in Reach(cells, head) : cells[b].name = n}

(* node_exists and get_node.                                               *)
NodeExists(cells, head, n) == Named(cells, head, n) # {}

(* delete_node's walk stops at the first match; a list runs from newer     *)
(* cells to older ones, so that is the newest.                             *)
FirstNamed(cells, head, n) ==
  {b \in Named(cells, head, n) : \A c \in Named(cells, head, n) : c <= b}

(* delete_node's previous when its current is b.                           *)
Previous(cells, head, b) ==
  IF b = head THEN {NIL} ELSE {c \in Reach(cells, head) : cells[c].next = b}

=============================================================================
