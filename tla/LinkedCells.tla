---------------------------- MODULE LinkedCells ----------------------------
(***************************************************************************)
(* Singly linked cells, as the gateway's list of actuators and the chains  *)
(* of its hash table are made of.  cells maps the address of each cell to  *)
(* a record with a field next.                                             *)
(***************************************************************************)

NIL == 0                                        (* the NULL pointer        *)

(* The cells met by following next from address a, as the loops of         *)
(* gateway_list.c and gateway_hashtable.c do: the smallest set with a that *)
(* next does not leave.                                                    *)
Closed(cells, S) == \A b \in S : cells[b].next \in S \cup {NIL}

Reach(cells, a) ==
  {b \in DOMAIN cells :
     \A S \in SUBSET DOMAIN cells :
        a \in S \cup {NIL} /\ Closed(cells, S) => b \in S}

=============================================================================
