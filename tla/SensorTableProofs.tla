------------------------- MODULE SensorTableProofs -------------------------
(***************************************************************************)
(* Theorems about the chains of the hash table, for every set of names,    *)
(* every hash function, any number of slots and any heap: the entries are  *)
(* well kept, and what a caller sees of them is SensorRegistry.            *)
(***************************************************************************)
EXTENDS SensorTable, LinkedCellsProofs

USE TableAssumption DEF Slots, NIL

Entries == [name : Names \cup {Absent}, next : Addresses \cup {NIL}, wdt : 0..3]

-----------------------------------------------------------------------------
(* The three ways the code writes to a cell.                               *)

LEMMA SetNext ==
  ASSUME NEW H \in [Addresses -> Entries], NEW b \in Addresses,
         NEW a \in Addresses \cup {NIL}, NEW D, D = [H EXCEPT ![b].next = a]
  PROVE  /\ D \in [Addresses -> Entries]
         /\ \A c \in Addresses :
              /\ D[c].name = H[c].name /\ D[c].wdt = H[c].wdt
              /\ D[c].next = IF c = b THEN a ELSE H[c].next
  <1>1. H[b] \in Entries
    OBVIOUS
  <1>2. D = [H EXCEPT ![b] = [H[b] EXCEPT !.next = a]]
    OBVIOUS
  <1>3. /\ [H[b] EXCEPT !.next = a] \in Entries
        /\ [H[b] EXCEPT !.next = a].name = H[b].name
        /\ [H[b] EXCEPT !.next = a].wdt = H[b].wdt
        /\ [H[b] EXCEPT !.next = a].next = a
    BY <1>1 DEF Entries
  <1> QED BY <1>2, <1>3

LEMMA SetWdt ==
  ASSUME NEW H \in [Addresses -> Entries], NEW b \in Addresses, NEW w \in 0..3,
         NEW D, D = [H EXCEPT ![b].wdt = w]
  PROVE  /\ D \in [Addresses -> Entries]
         /\ \A c \in Addresses :
              /\ D[c].name = H[c].name /\ D[c].next = H[c].next
              /\ D[c].wdt = IF c = b THEN w ELSE H[c].wdt
  <1>1. H[b] \in Entries
    OBVIOUS
  <1>2. D = [H EXCEPT ![b] = [H[b] EXCEPT !.wdt = w]]
    OBVIOUS
  <1>3. /\ [H[b] EXCEPT !.wdt = w] \in Entries
        /\ [H[b] EXCEPT !.wdt = w].name = H[b].name
        /\ [H[b] EXCEPT !.wdt = w].wdt = w
        /\ [H[b] EXCEPT !.wdt = w].next = H[b].next
    BY <1>1 DEF Entries
  <1> QED BY <1>2, <1>3

LEMMA SetEntry ==
  ASSUME NEW H \in [Addresses -> Entries], NEW b \in Addresses, NEW n \in Names,
         NEW D, D = [H EXCEPT ![b] = NewEntry(n)]
  PROVE  /\ D \in [Addresses -> Entries]
         /\ D[b].name = n /\ D[b].next = NIL /\ D[b].wdt = 0
         /\ \A c \in Addresses \ {b} : D[c] = H[c]
  BY DEF NewEntry, Entries

-----------------------------------------------------------------------------
(* The chains as the code keeps them: none loops, every entry has a name,  *)
(* and its name is in its slot once.                                       *)
WellChained ==
  /\ OneEntryPerName
  /\ \A slot \in Slots : Acyclic(cell, entries[slot])
  /\ \A b \in Linked : cell[b].name \in Names

(* A deletion and a sweep exclude each other, and the sweep stands on an   *)
(* entry of its slot.                                                      *)
SweepOK ==
  /\ i < TABLE_SIZE => doomed = NIL
  /\ i = TABLE_SIZE => entry = NIL
  /\ entry # NIL => entry \in Chain(i)

TableInv == TypeOK /\ NoDanglingEntry /\ WellChained /\ SweepOK

LEMMA HeapPointed == TypeOK =>
  /\ Pointed(cell) /\ DOMAIN cell = Addresses /\ cell \in [Addresses -> Entries]
  /\ \A b \in Addresses : cell[b] \in Entries
  /\ \A a : Reach(cell, a) \subseteq Addresses
  BY ReachIsCells DEF TypeOK, Pointed, Entries

LEMMA ChainsAreCells == TypeOK =>
  /\ Linked \subseteq Addresses
  /\ \A slot \in Slots : Chain(slot) \subseteq Linked /\ entries[slot] \in Addresses \cup {NIL}
  /\ \A b \in Linked : \E slot \in Slots : b \in Chain(slot)
  BY HeapPointed DEF Linked, Chain, TypeOK

(* Under the invariant the walk for a key stops at the one entry that has  *)
(* it, and if it finds none then no chain has one.                         *)
LEMMA FoundIsNamed == TableInv =>
  \A key \in Names : Found(key) = {b \in Linked : cell[b].name = key}
<1> SUFFICES ASSUME TableInv, NEW key \in Names
             PROVE  Found(key) = {b \in Linked : cell[b].name = key}
  OBVIOUS
<1> USE DEF TableInv
<1>1. hash[key] \in Slots
  OBVIOUS
<1>2. \A b \in Linked : cell[b].name = key => b \in Chain(hash[key])
  BY ChainsAreCells DEF WellChained, OneEntryPerName
<1>3. Chain(hash[key]) \subseteq Linked
  BY <1>1, ChainsAreCells
<1>4. \A b \in Chain(hash[key]) : b \notin Reach(cell, cell[b].next)
  BY <1>1 DEF WellChained, Acyclic, Chain
<1>5. \A b, c \in Linked : cell[b].name = key /\ cell[c].name = key => b = c
  BY DEF WellChained, OneEntryPerName
<1> QED BY <1>2, <1>3, <1>4, <1>5 DEF Found

-----------------------------------------------------------------------------
(* What a step does to the chains.                                         *)

(* Nothing, as long as it keeps the names and pointers of what is linked.  *)
LEMMA KeepsChains ==
  ASSUME TypeOK, WellChained, entries' = entries, cell' \in [Addresses -> Entries],
         \A b \in Linked : cell'[b].name = cell[b].name /\ cell'[b].next = cell[b].next
  PROVE  /\ \A slot \in Slots : Chain(slot)' = Chain(slot)
         /\ Linked' = Linked
         /\ \A b \in Linked \cup {NIL} : Reach(cell', b) = Reach(cell, b)
         /\ WellChained'
<1>1. NIL \notin DOMAIN cell'
  OBVIOUS
<1>2. ASSUME NEW b \in Linked \cup {NIL} PROVE Reach(cell, b) \subseteq Linked
  <2>1. CASE b = NIL
    BY <2>1, ReachNil
  <2>2. CASE b \in Linked
    <3>1. PICK slot \in Slots : b \in Chain(slot)
      BY <2>2, ChainsAreCells
    <3> QED BY <3>1, HeapPointed, ReachTransitive, ChainsAreCells DEF Chain
  <2> QED BY <2>1, <2>2
<1>3. ASSUME NEW b \in Linked \cup {NIL} PROVE Reach(cell', b) = Reach(cell, b)
  BY <1>1, <1>2, HeapPointed, ChainsAreCells, ReachSame
<1>4. ASSUME NEW slot \in Slots PROVE Chain(slot)' = Chain(slot)
  <2>1. entries[slot] \in Linked \cup {NIL}
    BY HeapPointed, ChainsAreCells, ReachStart DEF Chain, Pointed
  <2> QED BY <1>3, <2>1 DEF Chain
<1>5. Linked' = Linked
  BY <1>4 DEF Linked
<1>6. ASSUME NEW slot \in Slots PROVE Acyclic(cell, entries[slot])'
  <2> SUFFICES ASSUME NEW b \in Chain(slot) PROVE b \notin Reach(cell', cell'[b].next)
    BY <1>4 DEF Acyclic, Chain
  <2>1. b \in Linked /\ cell[b].next \in Linked \cup {NIL}
    BY HeapPointed, ChainsAreCells, ReachClosed DEF Chain, Closed
  <2> QED BY <1>3, <2>1 DEF WellChained, Acyclic, Chain
<1>7. OneEntryPerName'
  BY <1>4, <1>5, ChainsAreCells DEF WellChained, OneEntryPerName
<1> QED BY <1>3, <1>4, <1>5, <1>6, <1>7 DEF WellChained

(* A step that changes one chain keeps the others.                         *)
LEMMA KeepsOthers ==
  ASSUME TypeOK, NEW slot \in Slots, entries'[slot] = entries[slot],
         cell' \in [Addresses -> Entries],
         \A b \in Chain(slot) : cell'[b].next = cell[b].next
  PROVE  /\ Chain(slot)' = Chain(slot)
         /\ Acyclic(cell, entries[slot]) => Acyclic(cell, entries[slot])'
<1>1. Pointed(cell) /\ NIL \notin DOMAIN cell' /\ DOMAIN cell' = DOMAIN cell
      /\ entries[slot] \in DOMAIN cell \cup {NIL}
  BY HeapPointed, ChainsAreCells
<1>2. Chain(slot)' = Chain(slot)
  BY <1>1, ReachIsCells, ReachSame DEF Chain
<1>3. ASSUME Acyclic(cell, entries[slot]), NEW b \in Chain(slot)
      PROVE  b \notin Reach(cell', cell'[b].next)
  <2>1. cell[b].next \in Chain(slot) \cup {NIL} /\ cell[b].next \in DOMAIN cell \cup {NIL}
    BY <1>1, ReachClosed, ReachIsCells DEF Chain, Closed
  <2>2. Reach(cell, cell[b].next) \subseteq Chain(slot)
    BY <1>1, <2>1, ReachTransitive DEF Chain
  <2>3. Reach(cell', cell[b].next) = Reach(cell, cell[b].next)
    BY <1>1, <2>1, <2>2, ReachIsCells, ReachSame
  <2> QED BY <1>3, <2>3 DEF Acyclic, Chain
<1> QED BY <1>2, <1>3 DEF Acyclic, Chain

(* ht_set links one entry more.                                            *)
LEMMA Links ==
  ASSUME TypeOK, WellChained, NoDanglingEntry, NEW n \in Names, \A b \in Linked : cell[b].name # n,
         NEW a \in Addresses \ allocated,
         Link(hash[n], a, [cell EXCEPT ![a] = NewEntry(n)])
  PROVE  /\ entries' \in [Slots -> Addresses \cup {NIL}]
         /\ cell' \in [Addresses -> Entries]
         /\ a \notin Linked /\ Linked' = Linked \cup {a}
         /\ cell'[a].name = n /\ cell'[a].wdt = 0
         /\ \A b \in Linked : cell'[b].name = cell[b].name /\ cell'[b].wdt = cell[b].wdt
         /\ WellChained'
<1> DEFINE filled == [cell EXCEPT ![a] = NewEntry(n)]
           home == hash[n]
<1>1. /\ filled \in [Addresses -> Entries]
      /\ filled[a].name = n /\ filled[a].next = NIL /\ filled[a].wdt = 0
      /\ \A c \in Addresses \ {a} : filled[c] = cell[c]
  BY HeapPointed, SetEntry
<1>2. home \in Slots /\ a \notin Linked /\ Pointed(cell) /\ DOMAIN cell = Addresses
  BY HeapPointed DEF NoDanglingEntry
<1>3. /\ \A slot \in Slots : Chain(slot) \subseteq Linked
      /\ Linked \subseteq Addresses
      /\ \A slot \in Slots : entries[slot] \in Addresses \cup {NIL}
  BY ChainsAreCells
<1>4. \A b \in Linked, slot \in Slots : b \in Chain(home) /\ b \in Chain(slot) => slot = home
  BY <1>2 DEF WellChained, OneEntryPerName
<1> HIDE DEF filled, home
<1> SUFFICES /\ entries' \in [Slots -> Addresses \cup {NIL}]
             /\ cell' \in [Addresses -> Entries]
             /\ cell'[a].name = n /\ cell'[a].wdt = 0
             /\ \A b \in Linked : cell'[b].name = cell[b].name /\ cell'[b].wdt = cell[b].wdt
             /\ Chain(home)' = Chain(home) \cup {a}
             /\ Acyclic(cell, entries[home])'
             /\ \A slot \in Slots \ {home} :
                  Chain(slot)' = Chain(slot) /\ Acyclic(cell, entries[slot])'
  <2>1. ASSUME /\ Chain(home)' = Chain(home) \cup {a}
               /\ \A slot \in Slots \ {home} : Chain(slot)' = Chain(slot)
        PROVE  Linked' = Linked \cup {a}
    BY <1>2, <2>1 DEF Linked
  <2>2. ASSUME /\ Linked' = Linked \cup {a} /\ cell'[a].name = n
               /\ \A b \in Linked : cell'[b].name = cell[b].name
               /\ Chain(home)' = Chain(home) \cup {a}
               /\ \A slot \in Slots \ {home} : Chain(slot)' = Chain(slot)
        PROVE  OneEntryPerName' /\ \A b \in Linked' : cell'[b].name \in Names
    BY <1>2, <1>3, <2>2 DEF WellChained, OneEntryPerName, home
  <2> QED BY <1>2, <2>1, <2>2 DEF WellChained
<1>5. CASE entries[home] = NIL /\ entries' = [entries EXCEPT ![home] = a] /\ cell' = filled
  <2>1. Chain(home) = {}
    BY <1>5, ReachNil DEF Chain
  <2>2. Reach(cell', NIL) = {}
    BY ReachNil
  <2>3. Pointed(cell') /\ DOMAIN cell' = Addresses
    BY <1>1, <1>5 DEF Pointed, Entries
  <2>4. Reach(cell', a) = {a}
    BY <1>1, <1>5, <2>2, <2>3, ReachNext
  <2>5. entries'[home] = a /\ \A slot \in Slots \ {home} : entries'[slot] = entries[slot]
    BY <1>2, <1>5 DEF TypeOK
  <2>6. Chain(home)' = Chain(home) \cup {a} /\ Acyclic(cell, entries[home])'
    BY <1>1, <1>5, <2>1, <2>2, <2>4, <2>5 DEF Chain, Acyclic
  <2>7. \A slot \in Slots \ {home} : Chain(slot)' = Chain(slot) /\ Acyclic(cell, entries[slot])'
    BY <1>1, <1>2, <1>3, <1>5, <2>5, KeepsOthers DEF WellChained
  <2> QED BY <1>1, <1>2, <1>3, <1>5, <2>6, <2>7 DEF TypeOK
<1>6. ASSUME NEW last \in Chain(home), cell[last].next = NIL,
             cell' = [filled EXCEPT ![last].next = a], entries' = entries
      PROVE  /\ entries' \in [Slots -> Addresses \cup {NIL}]
             /\ cell' \in [Addresses -> Entries]
             /\ cell'[a].name = n /\ cell'[a].wdt = 0
             /\ \A b \in Linked : cell'[b].name = cell[b].name /\ cell'[b].wdt = cell[b].wdt
             /\ Chain(home)' = Chain(home) \cup {a}
             /\ Acyclic(cell, entries[home])'
             /\ \A slot \in Slots \ {home} :
                  Chain(slot)' = Chain(slot) /\ Acyclic(cell, entries[slot])'
  <2>1. last \in Linked /\ last \in Addresses /\ last # a
    BY <1>2, <1>3
  <2>2. /\ cell' \in [Addresses -> Entries]
        /\ \A c \in Addresses :
             /\ cell'[c].name = filled[c].name /\ cell'[c].wdt = filled[c].wdt
             /\ cell'[c].next = IF c = last THEN a ELSE filled[c].next
    BY <1>1, <1>6, <2>1, SetNext
  <2>3. Pointed(cell') /\ DOMAIN cell' = Addresses
    BY <2>2 DEF Pointed, Entries
  <2>4. entries[home] \in Addresses
    BY <1>2, <1>3, ReachNil DEF Chain
  <2>5. \A b \in Addresses \ {last, a} : cell'[b].next = cell[b].next
    BY <1>1, <2>2
  <2>6. cell'[last].next = a /\ cell'[a].next = NIL
    BY <1>1, <2>1, <2>2
  <2>7. /\ Reach(cell', entries[home]) = Reach(cell, entries[home]) \cup {a}
        /\ \A b \in Addresses : Reach(cell', b) \subseteq Reach(cell, b) \cup {a}
    <3>1. last \in Reach(cell, entries[home]) /\ a \notin Reach(cell, entries[home])
      BY <1>2, <1>3, <1>6 DEF Chain
    <3>2. DOMAIN cell' = DOMAIN cell /\ DOMAIN cell = Addresses
      BY <1>2, <2>3
    <3>3. entries[home] \in DOMAIN cell /\ a \in DOMAIN cell
      BY <2>4, <3>2
    <3>4. \A b \in DOMAIN cell \ {last, a} : cell'[b].next = cell[b].next
      BY <2>5, <3>2
    <3>5. Pointed(cell) /\ Pointed(cell') /\ cell[last].next = NIL
      BY <1>2, <1>6, <2>3
    <3>6. /\ Reach(cell', entries[home]) = Reach(cell, entries[home]) \cup {a}
          /\ \A b \in DOMAIN cell : Reach(cell', b) \subseteq Reach(cell, b) \cup {a}
      BY ONLY <2>6, <3>1, <3>2, <3>3, <3>4, <3>5, ReachAppended
    <3> QED BY <3>2, <3>6
  <2>8. Reach(cell', NIL) = {} /\ Reach(cell', a) = {a}
    BY <2>3, <2>6, ReachNil, ReachNext
  <2>9. ASSUME NEW b \in Chain(home) \cup {a} PROVE b \notin Reach(cell', cell'[b].next)
    <3>1. CASE b = a \/ b = last
      BY <2>1, <2>6, <2>8, <3>1
    <3>2. CASE b \notin {a, last}
      <4>1. b \in Addresses /\ b \in Chain(home) /\ cell'[b].next = cell[b].next
        BY <1>2, <1>3, <2>5, <3>2
      <4>2. b \notin Reach(cell, cell[b].next)
        BY <1>2, <4>1 DEF WellChained, Acyclic, Chain
      <4> QED BY <1>2, <2>7, <2>8, <3>2, <4>1, <4>2 DEF Pointed
    <3> QED BY <3>1, <3>2
  <2>10. Chain(home)' = Chain(home) \cup {a} /\ Acyclic(cell, entries[home])'
    BY <1>6, <2>7, <2>9 DEF Chain, Acyclic
  <2>11. ASSUME NEW slot \in Slots \ {home}
         PROVE  Chain(slot)' = Chain(slot) /\ Acyclic(cell, entries[slot])'
    <3>1. last \notin Chain(slot) /\ a \notin Chain(slot)
      BY <1>2, <1>3, <1>4, <1>6, <2>1
    <3>2. \A b \in Chain(slot) : cell'[b].next = cell[b].next
      BY <1>3, <2>5, <3>1
    <3>3. entries'[slot] = entries[slot] /\ Acyclic(cell, entries[slot])
      BY <1>6 DEF WellChained
    <3> QED BY <2>2, <3>2, <3>3, KeepsOthers
  <2> QED BY <1>1, <1>2, <1>3, <1>6, <2>2, <2>10, <2>11 DEF TypeOK
<1> QED BY <1>5, <1>6 DEF Link, filled, home

(* ht_del unlinks exactly the entry it found.                              *)
LEMMA Unlinks ==
  ASSUME TypeOK, WellChained, NEW key \in Names,
         NEW b \in Linked, cell[b].name = key, Unlink(hash[key], b)
  PROVE  /\ entries' \in [Slots -> Addresses \cup {NIL}]
         /\ cell' \in [Addresses -> Entries]
         /\ Linked' = Linked \ {b}
         /\ \A c \in Addresses : cell'[c].name = cell[c].name /\ cell'[c].wdt = cell[c].wdt
         /\ WellChained'
<1> DEFINE home == hash[key]
<1>1. /\ home \in Slots /\ Pointed(cell) /\ DOMAIN cell = Addresses
      /\ cell \in [Addresses -> Entries]
  BY HeapPointed
<1>2. /\ \A slot \in Slots : Chain(slot) \subseteq Linked
      /\ Linked \subseteq Addresses
      /\ \A slot \in Slots : entries[slot] \in Addresses \cup {NIL}
      /\ \A c \in Linked : \E slot \in Slots : c \in Chain(slot)
  BY ChainsAreCells
<1>3. /\ \A c \in Linked, slot \in Slots : c \in Chain(home) /\ c \in Chain(slot) => slot = home
      /\ b \in Chain(home)
  BY <1>1, <1>2 DEF WellChained, OneEntryPerName
<1>4. cell[b].next \in Addresses \cup {NIL} /\ b \in Addresses
  BY <1>1, <1>2 DEF Pointed
<1> HIDE DEF home
<1> SUFFICES /\ entries' \in [Slots -> Addresses \cup {NIL}]
             /\ cell' \in [Addresses -> Entries]
             /\ \A c \in Addresses : cell'[c].name = cell[c].name /\ cell'[c].wdt = cell[c].wdt
             /\ Chain(home)' = Chain(home) \ {b}
             /\ Acyclic(cell, entries[home])'
             /\ \A slot \in Slots \ {home} :
                  Chain(slot)' = Chain(slot) /\ Acyclic(cell, entries[slot])'
  <2>1. ASSUME /\ Chain(home)' = Chain(home) \ {b}
               /\ \A slot \in Slots \ {home} : Chain(slot)' = Chain(slot)
        PROVE  Linked' = Linked \ {b}
    BY <1>1, <1>2, <1>3, <2>1 DEF Linked
  <2>2. ASSUME /\ Linked' = Linked \ {b}
               /\ \A c \in Addresses : cell'[c].name = cell[c].name
               /\ Chain(home)' = Chain(home) \ {b}
               /\ \A slot \in Slots \ {home} : Chain(slot)' = Chain(slot)
        PROVE  OneEntryPerName' /\ \A c \in Linked' : cell'[c].name \in Names
    BY <1>1, <1>2, <2>2 DEF WellChained, OneEntryPerName
  <2> QED BY <1>1, <2>1, <2>2 DEF WellChained
<1>5. CASE /\ entries[home] = b /\ entries' = [entries EXCEPT ![home] = cell[b].next]
           /\ cell' = cell
  <2>1. /\ entries'[home] = cell[b].next
        /\ \A slot \in Slots \ {home} : entries'[slot] = entries[slot]
        /\ entries' \in [Slots -> Addresses \cup {NIL}]
    BY <1>1, <1>4, <1>5 DEF TypeOK
  <2>2. Reach(cell, b) = {b} \cup Reach(cell, cell[b].next)
    BY <1>1, <1>4, ReachNext
  <2>3. b \notin Reach(cell, cell[b].next)
    BY <1>1, <1>3 DEF WellChained, Acyclic, Chain
  <2>4. Chain(home)' = Chain(home) \ {b}
    BY <1>5, <2>1, <2>2, <2>3 DEF Chain
  <2>5. Acyclic(cell, entries[home])'
    BY <1>1, <1>5, <2>1, <2>2 DEF WellChained, Acyclic
  <2>6. \A slot \in Slots \ {home} : Chain(slot)' = Chain(slot) /\ Acyclic(cell, entries[slot])'
    BY <1>5, <2>1 DEF WellChained, Chain
  <2> QED BY <1>1, <1>5, <2>1, <2>4, <2>5, <2>6
<1>6. ASSUME NEW p \in Chain(home), cell[p].next = b, entries' = entries,
             cell' = [cell EXCEPT ![p].next = cell[b].next]
      PROVE  /\ entries' \in [Slots -> Addresses \cup {NIL}]
             /\ cell' \in [Addresses -> Entries]
             /\ \A c \in Addresses : cell'[c].name = cell[c].name /\ cell'[c].wdt = cell[c].wdt
             /\ Chain(home)' = Chain(home) \ {b}
             /\ Acyclic(cell, entries[home])'
             /\ \A slot \in Slots \ {home} :
                  Chain(slot)' = Chain(slot) /\ Acyclic(cell, entries[slot])'
  <2>1. p \in Linked /\ p \in Addresses
    BY <1>1, <1>2
  <2>2. /\ cell' \in [Addresses -> Entries]
        /\ \A c \in Addresses :
             /\ cell'[c].name = cell[c].name /\ cell'[c].wdt = cell[c].wdt
             /\ cell'[c].next = IF c = p THEN cell[b].next ELSE cell[c].next
    BY <1>1, <1>4, <1>6, <2>1, SetNext
  <2>3. Bypassed(cell, cell', p, b)
    BY <1>1, <1>4, <1>6, <2>1, <2>2 DEF Bypassed
  <2>4. entries[home] \in DOMAIN cell /\ p \in Reach(cell, entries[home])
        /\ Acyclic(cell, entries[home])
    BY <1>1, <1>2, <1>6, ReachNil DEF Chain, WellChained
  <2>5. /\ Reach(cell', entries[home]) = Reach(cell, entries[home]) \ {b}
        /\ b # p
    BY ONLY <1>1, <2>3, <2>4, ReachUnlinked
  <2>6. \A a \in Addresses \cup {NIL} : Reach(cell', a) \subseteq Reach(cell, a)
    BY <1>1, <2>3, ReachBypassed
  <2>7. ASSUME NEW c \in Chain(home) PROVE c \notin Reach(cell', cell'[c].next)
    <3>1. c \in Addresses /\ c \notin Reach(cell, cell[c].next)
      BY <1>1, <1>2, <2>4 DEF Acyclic, Chain
    <3>2. CASE c # p
      BY <1>1, <2>2, <2>6, <3>1, <3>2 DEF Pointed
    <3>3. CASE c = p
      <4>1. Reach(cell, b) = {b} \cup Reach(cell, cell[b].next)
        BY <1>1, <1>4, ReachNext
      <4> QED BY <1>4, <1>6, <2>2, <2>6, <3>1, <3>3, <4>1
    <3> QED BY <3>2, <3>3
  <2>8. Chain(home)' = Chain(home) \ {b} /\ Acyclic(cell, entries[home])'
    BY <1>6, <2>5, <2>7 DEF Chain, Acyclic
  <2>9. ASSUME NEW slot \in Slots \ {home}
        PROVE  Chain(slot)' = Chain(slot) /\ Acyclic(cell, entries[slot])'
    <3>1. p \notin Chain(slot)
      BY <1>3, <1>6, <2>1
    <3>2. \A c \in Chain(slot) : cell'[c].next = cell[c].next
      BY <1>2, <2>2, <3>1
    <3>3. entries'[slot] = entries[slot] /\ Acyclic(cell, entries[slot])
      BY <1>6 DEF WellChained
    <3> QED BY <2>2, <3>2, <3>3, KeepsOthers
  <2> QED BY <1>6, <2>2, <2>8, <2>9 DEF TypeOK
<1> QED BY <1>5, <1>6 DEF Unlink, home

-----------------------------------------------------------------------------
(* Each operation keeps the invariant.                                     *)

LEMMA TableInit == Init => TableInv
<1> SUFFICES ASSUME Init PROVE TableInv
  OBVIOUS
<1> USE DEF Init
<1>1. TypeOK
  BY DEF TypeOK, NewEntry
<1>2. \A slot \in Slots : Chain(slot) = {} /\ Acyclic(cell, entries[slot])
  BY ReachNil DEF Chain, Acyclic
<1>3. Linked = {}
  BY <1>2 DEF Linked
<1> QED BY <1>1, <1>2, <1>3 DEF TableInv, NoDanglingEntry, WellChained, OneEntryPerName, SweepOK

(* What ht_set does: an entry more for a name that had none, and nothing   *)
(* that shows for a name that had one.                                     *)
LEMMA SetStep ==
  ASSUME TableInv, NEW n \in Names, ht_set(n)
  PROVE  /\ TableInv'
         /\ \A b \in Linked : cell'[b].name = cell[b].name /\ cell'[b].wdt = cell[b].wdt
         /\ \/ Linked' = Linked /\ \E b \in Linked : cell[b].name = n
            \/ /\ \A b \in Linked : cell[b].name # n
               /\ \E a \in Addresses : /\ Linked' = Linked \cup {a}
                                       /\ cell'[a].name = n /\ cell'[a].wdt = 0
<1> USE DEF TableInv
<1>1. PICK a \in Addresses \ allocated :
        /\ allocated' = allocated \cup {a}
        /\ \/ Found(n) = {} /\ Link(hash[n], a, [cell EXCEPT ![a] = NewEntry(n)])
           \/ Found(n) # {} /\ cell' = [cell EXCEPT ![a] = NewEntry(n)] /\ entries' = entries
  BY DEF ht_set
<1>2. a \notin Linked
  BY DEF NoDanglingEntry
<1>3. Found(n) = {b \in Linked : cell[b].name = n}
  BY FoundIsNamed
<1>4. UNCHANGED <<answer, doomed, i, entry>> /\ i = TABLE_SIZE
  BY DEF ht_set, Unlocked
<1>5. SweepOK'
  BY <1>4 DEF SweepOK
<1>6. ASSUME entries' \in [Slots -> Addresses \cup {NIL}], cell' \in [Addresses -> Entries]
      PROVE  TypeOK'
  BY <1>1, <1>4, <1>6 DEF TypeOK, Entries
<1>7. CASE Found(n) = {} /\ Link(hash[n], a, [cell EXCEPT ![a] = NewEntry(n)])
  <2>1. \A b \in Linked : cell[b].name # n
    BY <1>3, <1>7
  <2>2. /\ entries' \in [Slots -> Addresses \cup {NIL}]
        /\ cell' \in [Addresses -> Entries]
        /\ a \notin Linked /\ Linked' = Linked \cup {a}
        /\ cell'[a].name = n /\ cell'[a].wdt = 0
        /\ \A b \in Linked : cell'[b].name = cell[b].name /\ cell'[b].wdt = cell[b].wdt
        /\ WellChained'
    BY <1>7, <2>1, Links
  <2>3. NoDanglingEntry'
    <3>1. doomed = NIL
      BY DEF ht_set, Unlocked
    <3> QED BY <1>1, <1>4, <2>2, <3>1 DEF NoDanglingEntry
  <2> QED BY <1>5, <1>6, <2>1, <2>2, <2>3
<1>8. CASE /\ Found(n) # {} /\ cell' = [cell EXCEPT ![a] = NewEntry(n)]
           /\ entries' = entries
  <2>1. cell' \in [Addresses -> Entries] /\ \A c \in Addresses \ {a} : cell'[c] = cell[c]
    BY <1>8, HeapPointed, SetEntry
  <2>2. \A b \in Linked : cell'[b] = cell[b]
    BY <1>2, <2>1, ChainsAreCells
  <2>3. Linked' = Linked /\ WellChained'
    BY <1>8, <2>1, <2>2, KeepsChains
  <2>4. NoDanglingEntry'
    BY <1>1, <1>4, <2>3 DEF NoDanglingEntry
  <2>5. TypeOK'
    BY <1>6, <1>8, <2>1 DEF TypeOK
  <2> QED BY <1>3, <1>5, <1>8, <2>2, <2>3, <2>4, <2>5
<1> QED BY <1>1, <1>7, <1>8

(* What a step does that writes the counter of one entry and moves no      *)
(* pointer of a chain.                                                     *)
LEMMA CountStep ==
  ASSUME TableInv, NEW b \in Linked, NEW w \in 0..3, cell' = [cell EXCEPT ![b].wdt = w],
         entries' = entries, allocated' = allocated, doomed' = doomed
  PROVE  /\ cell' \in [Addresses -> Entries] /\ NoDanglingEntry' /\ WellChained'
         /\ Linked' = Linked /\ \A slot \in Slots : Chain(slot)' = Chain(slot)
         /\ \A c \in Linked \cup {NIL} : Reach(cell', c) = Reach(cell, c)
         /\ \A c \in Addresses :
              /\ cell'[c].name = cell[c].name /\ cell'[c].next = cell[c].next
              /\ cell'[c].wdt = IF c = b THEN w ELSE cell[c].wdt
<1> USE DEF TableInv
<1>1. b \in Addresses /\ Linked \subseteq Addresses
  BY ChainsAreCells
<1>2. /\ cell' \in [Addresses -> Entries]
      /\ \A c \in Addresses :
           /\ cell'[c].name = cell[c].name /\ cell'[c].next = cell[c].next
           /\ cell'[c].wdt = IF c = b THEN w ELSE cell[c].wdt
  <2>1. b \in Addresses /\ cell \in [Addresses -> Entries]
    BY <1>1, HeapPointed
  <2>2. w \in 0..3 /\ cell' = [cell EXCEPT ![b].wdt = w]
    OBVIOUS
  <2> QED BY ONLY <2>1, <2>2, SetWdt
<1>3. /\ \A slot \in Slots : Chain(slot)' = Chain(slot)
      /\ Linked' = Linked
      /\ \A c \in Linked \cup {NIL} : Reach(cell', c) = Reach(cell, c)
      /\ WellChained'
  BY <1>1, <1>2, KeepsChains
<1>4. NoDanglingEntry'
  BY <1>3 DEF NoDanglingEntry
<1> QED BY <1>2, <1>3, <1>4

LEMMA HeardStep ==
  ASSUME TableInv, NEW key \in Names, ht_update_time(key)
  PROVE  /\ TableInv' /\ Linked' = Linked
         /\ \A c \in Linked :
              /\ cell'[c].name = cell[c].name
              /\ cell'[c].wdt = IF cell[c].name = key THEN 0 ELSE cell[c].wdt
<1> USE DEF TableInv
<1>1. Found(key) = {b \in Linked : cell[b].name = key}
  BY FoundIsNamed
<1>2. UNCHANGED <<entries, allocated, answer, doomed, i, entry>> /\ i = TABLE_SIZE
  BY DEF ht_update_time, Unlocked
<1>3. SweepOK'
  BY <1>2 DEF SweepOK
<1>4. ASSUME cell' \in [Addresses -> Entries] PROVE TypeOK'
  BY <1>2, <1>4 DEF TypeOK, Entries
<1>5. ASSUME NEW b \in Found(key), cell' = [cell EXCEPT ![b].wdt = 0]
      PROVE  /\ TableInv' /\ Linked' = Linked
             /\ \A c \in Linked :
                  /\ cell'[c].name = cell[c].name
                  /\ cell'[c].wdt = IF cell[c].name = key THEN 0 ELSE cell[c].wdt
  <2>1. b \in Linked /\ cell[b].name = key
    BY <1>1
  <2>2. /\ cell' \in [Addresses -> Entries] /\ NoDanglingEntry' /\ WellChained'
        /\ Linked' = Linked
        /\ \A c \in Addresses : /\ cell'[c].name = cell[c].name
                                /\ cell'[c].wdt = IF c = b THEN 0 ELSE cell[c].wdt
    <3>1. 0 \in 0..3 /\ allocated' = allocated /\ doomed' = doomed /\ entries' = entries
      BY <1>2
    <3> QED BY ONLY <1>5, <2>1, <3>1, TableInv, CountStep
  <2>3. \A c \in Linked : cell[c].name = key <=> c = b
    BY <2>1 DEF WellChained, OneEntryPerName
  <2> QED BY <1>3, <1>4, <2>2, <2>3, ChainsAreCells
<1>6. CASE Found(key) = {} /\ cell' = cell
  <2>1. Linked' = Linked /\ WellChained'
    BY <1>2, <1>6, HeapPointed, KeepsChains
  <2>2. NoDanglingEntry'
    BY <1>2, <2>1 DEF NoDanglingEntry
  <2>3. TypeOK'
    BY <1>4, <1>6, HeapPointed
  <2> QED BY <1>1, <1>3, <1>6, <2>1, <2>2, <2>3
<1> QED BY <1>5, <1>6 DEF ht_update_time

LEMMA DeleteStep ==
  ASSUME TableInv, NEW key \in Names, ht_del(key)
  PROVE  /\ TableInv'
         /\ Linked' = {c \in Linked : cell[c].name # key}
         /\ \A c \in Linked : cell'[c].name = cell[c].name /\ cell'[c].wdt = cell[c].wdt
<1> USE DEF TableInv
<1>1. Found(key) = {b \in Linked : cell[b].name = key}
  BY FoundIsNamed
<1>2. UNCHANGED <<allocated, i, entry>> /\ i = TABLE_SIZE /\ entry = NIL /\ doomed = NIL
  BY DEF ht_del, Unlocked, SweepOK
<1>3. SweepOK'
  BY <1>2 DEF SweepOK
<1>4. answer' \in Names \cup {Absent}
  BY DEF ht_del, Answer
<1>5. ASSUME NEW b \in Found(key), Unlink(hash[key], b), doomed' = b
      PROVE  /\ TableInv'
             /\ Linked' = {c \in Linked : cell[c].name # key}
             /\ \A c \in Linked : cell'[c].name = cell[c].name /\ cell'[c].wdt = cell[c].wdt
  <2>1. b \in Linked /\ cell[b].name = key /\ Linked \subseteq Addresses
    BY <1>1, ChainsAreCells
  <2>2. /\ entries' \in [Slots -> Addresses \cup {NIL}]
        /\ cell' \in [Addresses -> Entries]
        /\ Linked' = Linked \ {b}
        /\ \A c \in Addresses : cell'[c].name = cell[c].name /\ cell'[c].wdt = cell[c].wdt
        /\ WellChained'
    BY <1>5, <2>1, Unlinks
  <2>3. TypeOK'
    BY <1>2, <1>4, <1>5, <2>1, <2>2 DEF TypeOK, Entries
  <2>4. NoDanglingEntry'
    BY <1>2, <1>5, <2>2 DEF NoDanglingEntry
  <2>5. \A c \in Linked : cell[c].name = key <=> c = b
    BY <2>1 DEF WellChained, OneEntryPerName
  <2> QED BY <1>3, <2>1, <2>2, <2>3, <2>4, <2>5
<1>6. CASE Found(key) = {} /\ UNCHANGED <<entries, cell, doomed>>
  <2>1. Linked' = Linked /\ WellChained'
    BY <1>6, HeapPointed, KeepsChains
  <2>2. NoDanglingEntry'
    BY <1>2, <1>6, <2>1 DEF NoDanglingEntry
  <2>3. TypeOK'
    BY <1>2, <1>4, <1>6 DEF TypeOK
  <2> QED BY <1>1, <1>3, <1>6, <2>1, <2>2, <2>3
<1> QED BY <1>5, <1>6 DEF ht_del

(* The sweep's step to the next entry of a chain.                          *)
LEMMA VisitStep ==
  ASSUME TableInv, Visit
  PROVE  /\ TableInv' /\ Linked' = Linked /\ i < TABLE_SIZE /\ entry \in Linked
         /\ \A slot \in Slots : Chain(slot)' = Chain(slot)
         /\ Reach(cell, entry) = {entry} \cup Reach(cell', entry')
         /\ entry \notin Reach(cell', entry')
         /\ \A c \in Linked :
              /\ cell'[c].name = cell[c].name
              /\ cell'[c].wdt = IF c = entry THEN Counted(cell[c].wdt) ELSE cell[c].wdt
<1> USE DEF TableInv
<1>1. /\ entry # NIL /\ cell' = [cell EXCEPT ![entry].wdt = Counted(cell[entry].wdt)]
      /\ entry' = cell[entry].next
      /\ UNCHANGED <<entries, allocated, answer, doomed, i>>
  BY DEF Visit, Following
<1>2. i \in Slots /\ entry \in Chain(i)
  BY <1>1 DEF SweepOK, TypeOK
<1>3. /\ entry \in Linked /\ entry \in Addresses /\ Chain(i) \subseteq Linked
      /\ Linked \subseteq Addresses
  BY <1>2, ChainsAreCells
<1>4. Counted(cell[entry].wdt) \in 0..3
  <2>1. cell[entry].wdt \in 0..3
    BY <1>3, HeapPointed DEF Entries
  <2> QED BY <2>1 DEF Counted
<1>5. /\ cell' \in [Addresses -> Entries] /\ NoDanglingEntry' /\ WellChained'
      /\ Linked' = Linked /\ \A slot \in Slots : Chain(slot)' = Chain(slot)
      /\ \A c \in Linked \cup {NIL} : Reach(cell', c) = Reach(cell, c)
      /\ \A c \in Addresses :
           /\ cell'[c].name = cell[c].name
           /\ cell'[c].wdt = IF c = entry THEN Counted(cell[entry].wdt) ELSE cell[c].wdt
  <2>1. PICK w \in 0..3 : w = Counted(cell[entry].wdt)
    BY <1>4
  <2>2. /\ cell' = [cell EXCEPT ![entry].wdt = w] /\ entry \in Linked
        /\ entries' = entries /\ allocated' = allocated /\ doomed' = doomed
    BY <1>1, <1>3, <2>1
  <2>3. /\ cell' \in [Addresses -> Entries] /\ NoDanglingEntry' /\ WellChained'
        /\ Linked' = Linked /\ \A slot \in Slots : Chain(slot)' = Chain(slot)
        /\ \A c \in Linked \cup {NIL} : Reach(cell', c) = Reach(cell, c)
        /\ \A c \in Addresses :
             /\ cell'[c].name = cell[c].name /\ cell'[c].next = cell[c].next
             /\ cell'[c].wdt = IF c = entry THEN w ELSE cell[c].wdt
    BY ONLY <2>2, TableInv, CountStep
  <2> QED BY <2>1, <2>3
<1>6. entry' \in Chain(i) \cup {NIL}
  BY <1>1, <1>2, HeapPointed, ReachClosed DEF Chain, Closed
<1>7. Reach(cell, entry) = {entry} \cup Reach(cell, entry')
  BY <1>1, <1>3, HeapPointed, ReachNext
<1>8. entry \notin Reach(cell, entry')
  BY <1>1, <1>2 DEF WellChained, Acyclic, Chain
<1>9. Reach(cell', entry') = Reach(cell, entry')
  BY <1>3, <1>5, <1>6
<1>10. TypeOK'
  <2>1. entry' \in Addresses \cup {NIL}
    BY <1>3, <1>6
  <2> QED BY <1>1, <1>5, <2>1 DEF TypeOK, Entries
<1>11. SweepOK'
  <2>1. i' = i /\ i # TABLE_SIZE /\ Chain(i)' = Chain(i)
    BY <1>1, <1>2, <1>5
  <2> QED BY <1>1, <1>2, <1>6, <2>1 DEF SweepOK
<1> QED BY <1>2, <1>3, <1>5, <1>7, <1>8, <1>9, <1>10, <1>11

LEMMA StartsInChain ==
  ASSUME TypeOK, NEW slot \in Slots, First(slot) # NIL PROVE First(slot) \in Chain(slot)
  BY HeapPointed, ChainsAreCells, ReachStart DEF First, Chain

(* The steps that leave the chains alone.                                  *)
LEMMA RestStep ==
  ASSUME TableInv,
         \/ \E key \in Names : ht_get(key)
         \/ ht_del_free \/ SweepBegins \/ NextSlot \/ UNCHANGED vars
  PROVE  /\ TableInv' /\ entries' = entries /\ cell' = cell
         /\ Linked' = Linked /\ \A slot \in Slots : Chain(slot)' = Chain(slot)
<1> USE DEF TableInv
<1>1. entries' = entries /\ cell' = cell
  BY DEF ht_get, ht_del_free, SweepBegins, NextSlot, vars
<1>2. Linked' = Linked /\ WellChained' /\ \A slot \in Slots : Chain(slot)' = Chain(slot)
  BY <1>1, HeapPointed, KeepsChains
<1>3. CASE (\E key \in Names : ht_get(key)) \/ UNCHANGED vars
  <2>1. answer' \in Names \cup {Absent}
    BY <1>3 DEF ht_get, Answer, TypeOK, vars
  <2>2. UNCHANGED <<allocated, doomed, i, entry>>
    BY <1>3 DEF ht_get, vars
  <2>3. entry # NIL => i \in Slots
    BY DEF SweepOK, TypeOK
  <2> QED BY <1>1, <1>2, <2>1, <2>2, <2>3 DEF TypeOK, NoDanglingEntry, SweepOK
<1>4. CASE ht_del_free
  <2>1. i = TABLE_SIZE
    BY <1>4 DEF ht_del_free, SweepOK, TypeOK
  <2> QED BY <1>1, <1>2, <1>4, <2>1 DEF ht_del_free, TypeOK, NoDanglingEntry, SweepOK
<1>5. CASE SweepBegins
  <2>1. /\ i' = 0 /\ entry' = First(0) /\ 0 \in Slots
        /\ UNCHANGED <<allocated, answer, doomed>> /\ doomed = NIL
    BY <1>5 DEF SweepBegins, Unlocked
  <2>2. entry' \in Addresses \cup {NIL}
    BY <2>1, ChainsAreCells DEF First
  <2>3. entry' # NIL => entry' \in Chain(0)'
    BY <1>2, <2>1, StartsInChain
  <2> QED BY <1>1, <1>2, <2>1, <2>2, <2>3 DEF TypeOK, NoDanglingEntry, SweepOK
<1>6. CASE NextSlot
  <2>1. /\ i' = i + 1 /\ entry' = First(i + 1) /\ i \in Slots
        /\ UNCHANGED <<allocated, answer, doomed>> /\ doomed = NIL
    BY <1>6 DEF NextSlot, SweepOK, TypeOK
  <2>2. i' \in 0..TABLE_SIZE /\ (i' = TABLE_SIZE => i' \notin Slots)
    BY <2>1
  <2>3. entry' \in Addresses \cup {NIL} /\ (i' = TABLE_SIZE => entry' = NIL)
    BY <2>1, <2>2, ChainsAreCells DEF First
  <2>4. entry' # NIL => (entry \in Chain(i))'
    <3>1. ASSUME NEW slot \in Slots, First(slot) # NIL PROVE First(slot) \in Chain(slot)'
      BY <1>2, <3>1, StartsInChain
    <3>2. CASE i + 1 \in Slots
      <4>1. \A slot \in Slots : i' = slot => Chain(i)' = Chain(slot)'
        BY DEF Chain
      <4> QED BY <2>1, <3>1, <3>2, <4>1
    <3>3. CASE i + 1 \notin Slots
      BY <2>1, <3>3 DEF First
    <3> QED BY <3>2, <3>3
  <2> QED BY <1>1, <1>2, <2>1, <2>2, <2>3, <2>4 DEF TypeOK, NoDanglingEntry, SweepOK
<1> QED BY <1>3, <1>4, <1>5, <1>6

LEMMA TableStep == TableInv /\ [Next]_vars => TableInv'
  BY SetStep, HeardStep, DeleteStep, VisitStep, RestStep DEF Next

LEMMA TableInvariant == Spec => []TableInv
  BY TableInit, TableStep, PTL DEF Spec

(* The variables keep their types.                                         *)
THEOREM TableTypeCorrect == Spec => []TypeOK
<1>1. TableInv => TypeOK
  BY DEF TableInv
<1> QED BY <1>1, TableInvariant, PTL

(* No chain reaches memory that was given back, or that ht_del is about to *)
(* give back.                                                              *)
THEOREM NothingDangles == Spec => []NoDanglingEntry
<1>1. TableInv => NoDanglingEntry
  BY DEF TableInv
<1> QED BY <1>1, TableInvariant, PTL

(* Each entry hangs where its name hashes to, and no name has two.         *)
THEOREM NamedOnce == Spec => []OneEntryPerName
<1>1. TableInv => OneEntryPerName
  BY DEF TableInv, WellChained
<1> QED BY <1>1, TableInvariant, PTL

-----------------------------------------------------------------------------
(* What SensorRegistry sees of the chains.                                 *)

Silence == [n \in Names |->
              IF Found(n) = {} THEN 0 ELSE cell[CHOOSE b \in Found(n) : TRUE].wdt]

Later(slot) == UNION {Chain(s) : s \in {t \in Slots : t > slot}}

Todo == NamesOf(Reach(cell, entry) \cup Later(i))

(* A known name counts what its entry counts, and the others nothing.      *)
Counting ==
  /\ \A b \in Linked : cell[b].name \in Names /\ Silence[cell[b].name] = cell[b].wdt
  /\ \A n \in Names \ NamesOf(Linked) : Silence[n] = 0

LEMMA Silent == TableInv => Counting
<1> SUFFICES ASSUME TableInv PROVE Counting
  OBVIOUS
<1>1. \A n \in Names : Found(n) = {b \in Linked : cell[b].name = n}
  BY FoundIsNamed
<1>2. ASSUME NEW b \in Linked
      PROVE  cell[b].name \in Names /\ Silence[cell[b].name] = cell[b].wdt
  <2>1. cell[b].name \in Names
    BY DEF TableInv, WellChained
  <2>2. Found(cell[b].name) = {b}
    BY <1>1, <2>1 DEF TableInv, WellChained, OneEntryPerName
  <2>3. (CHOOSE c \in Found(cell[b].name) : TRUE) = b
    BY <2>2
  <2> QED BY <2>1, <2>2, <2>3 DEF Silence
<1>3. ASSUME NEW n \in Names \ NamesOf(Linked) PROVE Silence[n] = 0
  BY <1>1 DEF Silence, NamesOf
<1> QED BY <1>2, <1>3 DEF Counting

LEMMA SilentNext == TableInv' => Counting'
  BY Silent, PTL

(* Between two sweeps nothing is left to visit.                            *)
LEMMA NothingLeft == i = TABLE_SIZE => Later(i) = {}
  BY DEF Later

Resting == i = TABLE_SIZE => Todo = {}

LEMMA NothingTodo == TableInv => Resting
  BY NothingLeft, ReachNil DEF TableInv, SweepOK, Todo, NamesOf, Resting

LEMMA NothingTodoNext == TableInv' => Resting'
  BY NothingTodo, PTL

(* Which counters a step must explain: those of the entries before it, of  *)
(* the entries after it, and none else.                                    *)
LEMMA SameSilence ==
  ASSUME TableInv, TableInv', NEW f \in [Names -> 0..3],
         \A b \in Linked' : f[cell'[b].name] = cell'[b].wdt,
         \A n \in Names \ NamesOf(Linked)' : f[n] = 0
  PROVE  Silence' = f
<1>1. Silence' \in [Names -> UNION {{Silence'[n]} : n \in Names}]
  BY DEF Silence
<1>2. ASSUME NEW n \in Names PROVE Silence'[n] = f[n]
  <2>1. CASE n \in NamesOf(Linked)'
    <3>1. PICK b \in Linked' : cell'[b].name = n
      BY <2>1 DEF NamesOf
    <3> QED BY <3>1, SilentNext DEF Counting
  <2>2. CASE n \notin NamesOf(Linked)'
    BY <2>2, SilentNext DEF Counting
  <2> QED BY <2>1, <2>2
<1> QED BY <1>1, <1>2

LEMMA SilenceType == TableInv => Silence \in [Names -> 0..3]
<1> SUFFICES ASSUME TableInv, NEW n \in Names PROVE Silence[n] \in 0..3
  BY DEF Silence
<1>1. CASE n \in NamesOf(Linked)
  <2>1. PICK b \in Linked : cell[b].name = n
    BY <1>1 DEF NamesOf
  <2>2. b \in Addresses /\ cell[b] \in Entries
    BY ChainsAreCells, HeapPointed DEF TableInv
  <2> QED BY <2>1, <2>2, Silent DEF Entries, Counting
<1>2. CASE n \notin NamesOf(Linked)
  BY <1>2, Silent DEF Counting
<1> QED BY <1>1, <1>2

LEMMA AnswerIsKnown ==
  ASSUME TableInv, NEW key \in Names, Answer(key)
  PROVE  answer' = IF key \in NamesOf(Linked) THEN key ELSE Absent
<1>1. Found(key) # {} <=> key \in NamesOf(Linked)
  BY FoundIsNamed DEF NamesOf
<1> QED BY <1>1 DEF Answer

-----------------------------------------------------------------------------
(* Every step of the chains is one of the registry, or none.               *)

LEMMA SameNames ==
  ASSUME Linked' = Linked, \A b \in Linked : cell'[b].name = cell[b].name
  PROVE  NamesOf(Linked)' = NamesOf(Linked)
  BY DEF NamesOf

LEMMA SetRefines ==
  ASSUME TableInv, NEW n \in Names, ht_set(n)
  PROVE  Registry!Set(n)
<1>1. TableInv' /\ i = TABLE_SIZE /\ (i = TABLE_SIZE)' /\ answer' = answer
  BY SetStep DEF ht_set, Unlocked
<1>2. Todo' = Todo
  BY <1>1, NothingTodo, NothingTodoNext DEF Resting
<1>3. NamesOf(Linked)' = NamesOf(Linked) \cup {n}
  BY SetStep DEF NamesOf
<1>4. Silence' = Silence
  <2>1. Silence \in [Names -> 0..3]
    BY SilenceType
  <2>2. ASSUME NEW b \in Linked' PROVE Silence[cell'[b].name] = cell'[b].wdt
    <3>1. CASE b \in Linked
      BY <3>1, SetStep, Silent DEF Counting
    <3>2. CASE b \notin Linked
      <4>1. cell'[b].name = n /\ cell'[b].wdt = 0 /\ n \notin NamesOf(Linked)
        BY <3>2, SetStep DEF NamesOf
      <4> QED BY <4>1, Silent DEF Counting
    <3> QED BY <3>1, <3>2
  <2>3. \A m \in Names \ NamesOf(Linked)' : Silence[m] = 0
    BY <1>3, Silent DEF Counting
  <2> QED BY <1>1, <2>1, <2>2, <2>3, SameSilence
<1> QED BY <1>1, <1>2, <1>3, <1>4 DEF Registry!Set, Silence, Todo, Later

LEMMA HeardRefines ==
  ASSUME TableInv, NEW n \in Names, ht_update_time(n)
  PROVE  Registry!Heard(n)
<1>1. TableInv' /\ i = TABLE_SIZE /\ (i = TABLE_SIZE)' /\ answer' = answer
  BY HeardStep DEF ht_update_time, Unlocked
<1>2. Todo' = Todo
  BY <1>1, NothingTodo, NothingTodoNext DEF Resting
<1>3. NamesOf(Linked)' = NamesOf(Linked)
  BY HeardStep, SameNames
<1> DEFINE f == IF n \in NamesOf(Linked) THEN [Silence EXCEPT ![n] = 0] ELSE Silence
<1>4. Silence \in [Names -> 0..3]
  BY SilenceType
<1>5. f \in [Names -> 0..3] /\ \A m \in Names : f[m] = IF m = n THEN 0 ELSE Silence[m]
  BY <1>4, Silent DEF Counting
<1>6. Silence' = f
  <2> HIDE DEF f
  <2>1. ASSUME NEW b \in Linked' PROVE f[cell'[b].name] = cell'[b].wdt
    BY <1>5, HeardStep, Silent DEF Counting
  <2>2. \A m \in Names \ NamesOf(Linked)' : f[m] = 0
    BY <1>3, <1>5, Silent DEF Counting
  <2> QED BY <1>1, <1>5, <2>1, <2>2, SameSilence
<1> QED BY <1>1, <1>2, <1>3, <1>6 DEF Registry!Heard, Silence, Todo, Later

LEMMA DeleteRefines ==
  ASSUME TableInv, NEW n \in Names, ht_del(n)
  PROVE  Registry!Delete(n)
<1>1. TableInv' /\ i = TABLE_SIZE /\ (i = TABLE_SIZE)'
  BY DeleteStep DEF ht_del, Unlocked
<1>2. Todo' = Todo
  BY <1>1, NothingTodo, NothingTodoNext DEF Resting
<1>3. NamesOf(Linked)' = NamesOf(Linked) \ {n}
  BY DeleteStep DEF NamesOf
<1>4. answer' = IF n \in NamesOf(Linked) THEN n ELSE Absent
  BY AnswerIsKnown DEF ht_del
<1> DEFINE f == [Silence EXCEPT ![n] = 0]
<1>5. f \in [Names -> 0..3] /\ \A m \in Names : f[m] = IF m = n THEN 0 ELSE Silence[m]
  BY SilenceType
<1>6. Silence' = f
  <2> HIDE DEF f
  <2>1. ASSUME NEW b \in Linked' PROVE f[cell'[b].name] = cell'[b].wdt
    BY <1>5, DeleteStep, Silent DEF Counting
  <2>2. \A m \in Names \ NamesOf(Linked)' : f[m] = 0
    BY <1>3, <1>5, Silent DEF Counting
  <2> QED BY <1>1, <1>5, <2>1, <2>2, SameSilence
<1> QED BY <1>1, <1>2, <1>3, <1>4, <1>6
        DEF Registry!Delete, Registry!Answer, Silence, Todo, Later

LEMMA SameTable ==
  ASSUME TableInv, TableInv', cell' = cell, Linked' = Linked
  PROVE  NamesOf(Linked)' = NamesOf(Linked) /\ Silence' = Silence
<1>1. NamesOf(Linked)' = NamesOf(Linked)
  BY DEF NamesOf
<1>2. Silence \in [Names -> 0..3]
  BY SilenceType
<1> QED BY <1>1, <1>2, Silent, SameSilence DEF Counting

LEMMA GetRefines ==
  ASSUME TableInv, NEW n \in Names, ht_get(n)
  PROVE  Registry!Get(n)
<1>1. TableInv' /\ cell' = cell /\ Linked' = Linked /\ i = TABLE_SIZE /\ (i = TABLE_SIZE)'
  BY RestStep DEF ht_get, Unlocked
<1>2. Todo' = Todo
  BY <1>1, NothingTodo, NothingTodoNext DEF Resting
<1>3. answer' = IF n \in NamesOf(Linked) THEN n ELSE Absent
  BY AnswerIsKnown DEF ht_get
<1> QED BY <1>1, <1>2, <1>3, SameTable
        DEF Registry!Get, Registry!Answer, Silence, Todo, Later

LEMMA FreeRefines ==
  ASSUME TableInv, ht_del_free \/ UNCHANGED vars
  PROVE  UNCHANGED <<NamesOf(Linked), Silence, Todo, i, answer>>
<1>1. /\ TableInv' /\ cell' = cell /\ Linked' = Linked
      /\ \A slot \in Slots : Chain(slot)' = Chain(slot)
  BY RestStep
<1>2. i' = i /\ entry' = entry /\ answer' = answer
  BY DEF ht_del_free, vars
<1>3. Todo' = Todo
  BY <1>1, <1>2 DEF Todo, Later, NamesOf
<1> QED BY <1>1, <1>2, <1>3, SameTable

LEMMA BeginsRefines ==
  ASSUME TableInv, SweepBegins
  PROVE  Registry!Sweep
<1>1. /\ TableInv' /\ cell' = cell /\ Linked' = Linked
      /\ \A slot \in Slots : Chain(slot)' = Chain(slot)
  BY RestStep
<1>2. i = TABLE_SIZE /\ i' = 0 /\ entry' = entries[0] /\ answer' = answer /\ 0 \in Slots
  BY DEF SweepBegins, Unlocked, First
<1>3. Todo' = NamesOf(Linked)
  <2>1. Reach(cell', entry') = Chain(0)
    BY <1>1, <1>2 DEF Chain
  <2>2. Later(i)' = UNION {Chain(s) : s \in {t \in Slots : t > 0}}
    BY <1>1, <1>2 DEF Later
  <2>3. Linked = Chain(0) \cup UNION {Chain(s) : s \in {t \in Slots : t > 0}}
    BY <1>2 DEF Linked
  <2> QED BY <1>1, <2>1, <2>2, <2>3 DEF Todo, NamesOf
<1> QED BY <1>1, <1>2, <1>3, SameTable DEF Registry!Sweep, Silence, Todo, Later

LEMMA NextSlotRefines ==
  ASSUME TableInv, NextSlot
  PROVE  \/ Registry!SweepEnds
         \/ UNCHANGED <<NamesOf(Linked), Silence, Todo, i < TABLE_SIZE, answer>>
<1>1. /\ TableInv' /\ cell' = cell /\ Linked' = Linked
      /\ \A slot \in Slots : Chain(slot)' = Chain(slot)
  BY RestStep
<1>2. /\ i \in Slots /\ i' = i + 1 /\ entry = NIL /\ answer' = answer
      /\ entry' = First(i + 1)
  BY DEF NextSlot, TableInv, TypeOK
<1>3. Reach(cell, entry) = {}
  BY <1>2, ReachNil
<1>4. CASE i + 1 \in Slots
  <2>1. Reach(cell', entry') = Chain(i + 1)
    BY <1>1, <1>2, <1>4 DEF Chain, First
  <2>2. Later(i)' = UNION {Chain(s) : s \in {t \in Slots : t > i + 1}}
    BY <1>1, <1>2 DEF Later
  <2>3. Later(i) = Chain(i + 1) \cup UNION {Chain(s) : s \in {t \in Slots : t > i + 1}}
    BY <1>2, <1>4 DEF Later
  <2>4. Todo' = Todo
    BY <1>1, <1>3, <2>1, <2>2, <2>3 DEF Todo, NamesOf
  <2>5. (i < TABLE_SIZE)' = (i < TABLE_SIZE)
    BY <1>2, <1>4
  <2> QED BY <1>1, <1>2, <2>4, <2>5, SameTable
<1>5. CASE i + 1 \notin Slots
  <2>1. i + 1 = TABLE_SIZE
    BY <1>2, <1>5
  <2>2. Later(i) = {}
    BY <1>2, <2>1 DEF Later
  <2>3. Todo = {}
    BY <1>3, <2>2 DEF Todo, NamesOf
  <2>4. Todo' = {}
    BY <1>1, <1>2, <2>1, NothingTodoNext DEF Resting
  <2>5. i < TABLE_SIZE /\ ~ (i < TABLE_SIZE)'
    BY <1>2, <2>1
  <2>6. NamesOf(Linked)' = NamesOf(Linked) /\ Silence' = Silence
    BY <1>1, SameTable
  <2>7. (i < TABLE_SIZE)' = FALSE
    BY <2>5
  <2> QED BY <1>2, <2>3, <2>4, <2>5, <2>6, <2>7
          DEF Registry!SweepEnds, Silence, Todo, Later
<1> QED BY <1>4, <1>5

LEMMA VisitRefines ==
  ASSUME TableInv, Visit
  PROVE  \E n \in Names : Registry!Visit(n)
<1> DEFINE n == cell[entry].name
<1>1. /\ TableInv' /\ Linked' = Linked /\ entry \in Linked /\ i' = i /\ answer' = answer
      /\ \A slot \in Slots : Chain(slot)' = Chain(slot)
      /\ Reach(cell, entry) = {entry} \cup Reach(cell', entry')
      /\ entry \notin Reach(cell', entry')
      /\ \A c \in Linked :
           /\ cell'[c].name = cell[c].name
           /\ cell'[c].wdt = IF c = entry THEN Counted(cell[c].wdt) ELSE cell[c].wdt
  BY VisitStep DEF Visit
<1>2. n \in Names /\ Silence[n] = cell[entry].wdt
  BY <1>1, Silent DEF Counting
<1>3. \A c \in Linked : cell[c].name = n <=> c = entry
  BY <1>1 DEF TableInv, WellChained, OneEntryPerName
<1>4. NamesOf(Linked)' = NamesOf(Linked)
  BY <1>1, SameNames
<1>5. n \in Todo
  BY <1>1 DEF Todo, NamesOf
<1>6. Todo' = Todo \ {n}
  <2>1. entry \in Chain(i) /\ i \in Slots
    BY DEF Visit, TableInv, SweepOK, TypeOK
  <2>2. entry \notin Later(i)
    BY <1>1, <2>1 DEF Later, TableInv, WellChained, OneEntryPerName
  <2>3. Later(i)' = Later(i) /\ Later(i) \subseteq Linked
    BY <1>1, ChainsAreCells DEF Later, TableInv
  <2>4. Reach(cell, entry) \subseteq Linked
    <3>1. Chain(i) \subseteq Linked
      BY <2>1, ChainsAreCells DEF TableInv
    <3> QED BY <2>1, <3>1, HeapPointed, ReachTransitive DEF TableInv, Chain
  <2> QED BY <1>1, <1>3, <2>2, <2>3, <2>4 DEF Todo, NamesOf
<1> DEFINE f == [Silence EXCEPT ![n] = IF @ > 2 THEN @ ELSE @ + 1]
<1>7. /\ f \in [Names -> 0..3]
      /\ \A m \in Names : f[m] = IF m = n THEN Counted(Silence[n]) ELSE Silence[m]
  BY <1>2, SilenceType DEF Counted
<1>8. Silence' = f
  <2> HIDE DEF f, n
  <2>1. ASSUME NEW b \in Linked' PROVE f[cell'[b].name] = cell'[b].wdt
    BY <1>1, <1>2, <1>3, <1>7, Silent DEF Counting
  <2>2. \A m \in Names \ NamesOf(Linked)' : f[m] = 0
    <3>1. n \in NamesOf(Linked)
      BY <1>1, <1>3 DEF NamesOf
    <3> QED BY <1>4, <1>7, <3>1, Silent DEF Counting
  <2> QED BY <1>1, <1>7, <2>1, <2>2, SameSilence
<1>9. (i < TABLE_SIZE)' = (i < TABLE_SIZE)
  BY <1>1
<1>10. Registry!Visit(n)
  BY <1>1, <1>4, <1>5, <1>6, <1>8, <1>9 DEF Registry!Visit, Silence, Todo, Later
<1> QED BY <1>2, <1>10

LEMMA InitRefines == Init => Registry!Init
<1> SUFFICES ASSUME Init PROVE Registry!Init
  OBVIOUS
<1>1. TableInv /\ i = TABLE_SIZE /\ answer = Absent
  BY TableInit DEF Init
<1>2. Todo = {}
  BY <1>1, NothingTodo DEF Resting
<1>3. NamesOf(Linked) = {}
  BY ReachNil DEF Init, NamesOf, Linked, Chain
<1>4. Silence = [n \in Names |-> 0]
  <2>1. \A n \in Names : Silence[n] = 0
    BY <1>1, <1>3, Silent DEF Counting
  <2> QED BY <2>1 DEF Silence
<1> QED BY <1>1, <1>2, <1>3, <1>4 DEF Registry!Init, Silence, Todo, Later

LEMMA NextRefines == TableInv /\ [Next]_vars => [Registry!Next]_(Registry!vars)
<1> SUFFICES ASSUME TableInv, [Next]_vars PROVE [Registry!Next]_(Registry!vars)
  OBVIOUS
<1>1. ASSUME NEW n \in Names, ht_set(n) \/ ht_get(n) \/ ht_update_time(n) \/ ht_del(n)
      PROVE  Registry!Next
  BY <1>1, SetRefines, GetRefines, HeardRefines, DeleteRefines DEF Registry!Next
<1>2. CASE ht_del_free \/ UNCHANGED vars
  BY <1>2, FreeRefines DEF Registry!vars, Silence, Todo, Later
<1>3. CASE SweepBegins
  BY <1>3, BeginsRefines DEF Registry!Next
<1>4. CASE NextSlot
  BY <1>4, NextSlotRefines DEF Registry!Next, Registry!vars, Silence, Todo, Later
<1>5. CASE Visit
  BY <1>5, VisitRefines DEF Registry!Next
<1> QED BY <1>1, <1>2, <1>3, <1>4, <1>5 DEF Next

(* Whatever the chains look like, the callers of gateway_hashtable.c see a *)
(* set of names with their counters: the chains implement the registry     *)
(* that the other threads of the gateway are modelled with.                *)
THEOREM ChainsImplementRegistry == Spec => ImplementsRegistry
  BY InitRefines, NextRefines, TableInvariant, PTL
     DEF Spec, ImplementsRegistry, Registry!Spec

=============================================================================
