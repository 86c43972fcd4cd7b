---------------------------- MODULE SensorTable -----------------------------
(***************************************************************************)
(* gateway_hashtable.c at the level of its pointers: an array of slots,    *)
(* each with a chain of malloc'ed entries.  A cell of the heap that is     *)
(* freed may be handed out again by the next malloc, so that a pointer     *)
(* left behind would show.                                                 *)
(*                                                                         *)
(* Every function holds ht_lock from its first to its last access to the   *)
(* table and is one step here, except two: ht_del, which sends a packet    *)
(* between unlinking and freeing, and ht_wdt, one step per entry.          *)
(***************************************************************************)
EXTENDS Naturals, FiniteSets, LinkedCells

CONSTANTS
  Names,            (* the names of sensors                                *)
  Absent,           (* no name: the NULL that ht_get returns               *)
  TABLE_SIZE,       (* slots: 10                                           *)
  hash,             (* each name's slot                                    *)
  Addresses         (* bound: the cells of the heap                        *)

Slots == 0..(TABLE_SIZE - 1)

ASSUME TableAssumption ==
  /\ Absent \notin Names
  /\ TABLE_SIZE \in Nat \ {0}
  /\ hash \in [Names -> Slots]
  /\ NIL \notin Addresses

VARIABLES
  entries,          (* hashtable->entries                                  *)
  cell,             (* the contents of each heap cell                      *)
  allocated,        (* the cells malloc has handed out                     *)
  answer,           (* what the last look-up or deletion returned          *)
  doomed,           (* ht_del: the entry unlinked and not yet freed        *)
  i, entry          (* ht_wdt: the slot and the entry it is at             *)

vars == <<entries, cell, allocated, answer, doomed, i, entry>>

(* What add_sensor_entry writes into a new cell.                           *)
NewEntry(n) == [name |-> n, next |-> NIL, wdt |-> 0]

Init ==
  /\ entries = [slot \in Slots |-> NIL]
  /\ cell = [a \in Addresses |-> NewEntry(Absent)]
  /\ allocated = {}
  /\ answer = Absent
  /\ doomed = NIL
  /\ i = TABLE_SIZE /\ entry = NIL

-----------------------------------------------------------------------------
(* ht_lock is free: no function is between two of its steps.               *)
Unlocked == doomed = NIL /\ i = TABLE_SIZE

Chain(slot) == Reach(cell, entries[slot])

(* Variant: only the head of the chain is compared.                        *)
FoundFirst(key) ==
  {b \in {entries[hash[key]]} \ {NIL} : cell[b].name = key}

(* Where a walk along the chain of key stops: the first match, if any.     *)
Found(key) ==
  LET matches == {b \in Chain(hash[key]) : cell[b].name = key}
  IN  {b \in matches : \A c \in matches : b \notin Reach(cell, cell[c].next)}

Answer(key) == answer' = IF Found(key) # {} THEN key ELSE Absent

(* Variant: the new entry goes first, and forgets what was there.          *)
LinkFirst(slot, a, filled) ==
  entries' = [entries EXCEPT ![slot] = a] /\ cell' = filled

(* Cell a goes into the empty slot, or behind the last entry of its chain. *)
Link(slot, a, filled) ==
  \/ /\ entries[slot] = NIL
     /\ entries' = [entries EXCEPT ![slot] = a]
     /\ cell' = filled
  \/ \E last \in Chain(slot) :
       /\ cell[last].next = NIL
       /\ cell' = [filled EXCEPT ![last].next = a]
       /\ UNCHANGED entries

(* add_sensor_entry and ht_set.  The cell of a name that is in the table   *)
(* already is not linked, and never freed.                                 *)
ht_set(n) ==
  /\ Unlocked
  /\ \E a \in Addresses \ allocated :
       LET filled == [cell EXCEPT ![a] = NewEntry(n)]
       IN  /\ allocated' = allocated \cup {a}
           /\ \/ Found(n) = {} /\ Link(hash[n], a, filled)
              \/ Found(n) # {} /\ cell' = filled /\ UNCHANGED entries
  /\ UNCHANGED <<answer, doomed, i, entry>>

(* ht_get, and ht_get_node, which walks the same way.                      *)
ht_get(key) ==
  /\ Unlocked
  /\ Answer(key)
  /\ UNCHANGED <<entries, cell, allocated, doomed, i, entry>>

ht_update_time(key) ==
  /\ Unlocked
  /\ \/ \E b \in Found(key) : cell' = [cell EXCEPT ![b].wdt = 0]
     \/ Found(key) = {} /\ UNCHANGED cell
  /\ UNCHANGED <<entries, allocated, answer, doomed, i, entry>>

(* Variant: the slot is cleared although the chain goes on.                *)
UnlinkSlot(slot, b) ==
  \/ /\ entries[slot] = b
     /\ entries' = [entries EXCEPT ![slot] = NIL]
     /\ UNCHANGED cell
  \/ \E p \in Chain(slot) :
       /\ cell[p].next = b
       /\ cell' = [cell EXCEPT ![p].next = cell[b].next]
       /\ UNCHANGED entries

(* Variant: a later entry of a chain stays linked.                         *)
UnlinkFirstOnly(slot, b) ==
  /\ entries' = IF entries[slot] = b THEN [entries EXCEPT ![slot] = cell[b].next]
                                     ELSE entries
  /\ UNCHANGED cell

(* The four cases of ht_del, which are two: b first in its slot, or not.   *)
Unlink(slot, b) ==
  \/ /\ entries[slot] = b
     /\ entries' = [entries EXCEPT ![slot] = cell[b].next]
     /\ UNCHANGED cell
  \/ \E p \in Chain(slot) :
       /\ cell[p].next = b
       /\ cell' = [cell EXCEPT ![p].next = cell[b].next]
       /\ UNCHANGED entries

ht_del(key) ==
  /\ Unlocked
  /\ Answer(key)
  /\ \/ \E b \in Found(key) : Unlink(hash[key], b) /\ doomed' = b
     \/ Found(key) = {} /\ UNCHANGED <<entries, cell, doomed>>
  /\ UNCHANGED <<allocated, i, entry>>

(* After the packet is sent: name is the first field of the entry, so the  *)
(* two calls of free get one address; the second finds it free and gives   *)
(* up, as the allocator of the MSB-IoT build does.                         *)
ht_del_free ==
  /\ doomed # NIL
  /\ allocated' = allocated \ {doomed}
  /\ doomed' = NIL
  /\ UNCHANGED <<entries, cell, answer, i, entry>>

-----------------------------------------------------------------------------
(* ht_wdt.                                                                 *)

First(slot) == IF slot \in Slots THEN entries[slot] ELSE NIL

SweepBegins ==
  /\ Unlocked
  /\ i' = 0 /\ entry' = First(0)
  /\ UNCHANGED <<entries, cell, allocated, answer, doomed>>

(* Variant: the walk leaves a chain after its first entry.                 *)
LeavesChain(b) == NIL

Following(b) == cell[b].next

(* Variant: the counter has no ceiling.                                    *)
CountedOn(w) == w + 1

Counted(w) == IF w > 2 THEN w ELSE w + 1

Visit ==
  /\ entry # NIL
  /\ cell' = [cell EXCEPT ![entry].wdt = Counted(@)]
  /\ entry' = Following(entry)
  /\ UNCHANGED <<entries, allocated, answer, doomed, i>>

NextSlot ==
  /\ i < TABLE_SIZE /\ entry = NIL
  /\ i' = i + 1 /\ entry' = First(i + 1)
  /\ UNCHANGED <<entries, cell, allocated, answer, doomed>>

Next ==
  \/ \E n \in Names : ht_set(n) \/ ht_get(n) \/ ht_update_time(n) \/ ht_del(n)
  \/ ht_del_free
  \/ SweepBegins \/ Visit \/ NextSlot

Spec == Init /\ [][Next]_vars

-----------------------------------------------------------------------------
Linked == UNION {Chain(slot) : slot \in Slots}

(* Every variable has its type.                                            *)
TypeOK ==
  /\ entries \in [Slots -> Addresses \cup {NIL}]
  /\ cell \in [Addresses -> [name : Names \cup {Absent},
                             next : Addresses \cup {NIL}, wdt : 0..3]]
  /\ allocated \subseteq Addresses
  /\ answer \in Names \cup {Absent}
  /\ doomed \in Addresses \cup {NIL}
  /\ i \in 0..TABLE_SIZE /\ entry \in Addresses \cup {NIL}

(* The table holds no pointer to memory it has given back, nor to the      *)
(* entry it is about to give back (gateway_hashtable.c:182-211).           *)
NoDanglingEntry == Linked \subseteq allocated \ {doomed}

(* Each entry hangs in the slot its name hashes to and nowhere else, and   *)
(* no two entries have one name: a second one would survive the            *)
(* deauthorization of the first and could still raise the alarm            *)
(* (gateway_hashtable.c:48-87).                                            *)
OneEntryPerName ==
  /\ \A slot \in Slots : \A b \in Chain(slot) : hash[cell[b].name] = slot
  /\ \A b, c \in Linked : cell[b].name = cell[c].name => b = c

-----------------------------------------------------------------------------
(* The chains implement the registry that Gateway works with.              *)

NamesOf(S) == {cell[b].name : b \in S}

Registry == INSTANCE SensorRegistry WITH
  known    <- NamesOf(Linked),
  silence  <- [n \in Names |->
                IF Found(n) = {} THEN 0 ELSE cell[CHOOSE b \in Found(n) : TRUE].wdt],
  todo     <- NamesOf(Reach(cell, entry) \cup
                      UNION {Chain(slot) : slot \in {s \in Slots : s > i}}),
  sweeping <- i < TABLE_SIZE

(* What a caller of gateway_hashtable.c sees is a set of names with their  *)
(* counters: whatever the chains look like, an entry that is added is      *)
(* found until it is deleted, deleting one loses no other, and a sweep     *)
(* counts for each entry once.                                             *)
ImplementsRegistry == Registry!Spec

=============================================================================
