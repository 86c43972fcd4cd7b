------------------------- MODULE LinkedCellsProofs -------------------------
(***************************************************************************)
(* What Reach computes, for any cells and without induction: the set of    *)
(* cells met is the smallest closed one, so that a fact about all of them  *)
(* follows from one closed set.                                            *)
(***************************************************************************)
EXTENDS LinkedCells, TLAPS

(* No pointer of a cell dangles.                                           *)
Pointed(C) ==
  /\ NIL \notin DOMAIN C
  /\ \A b \in DOMAIN C : C[b].next \in DOMAIN C \cup {NIL}

LEMMA ReachIsCells == ASSUME NEW C, NEW a PROVE Reach(C, a) \subseteq DOMAIN C
  BY DEF Reach

(* The list that starts nowhere is empty.                                  *)
LEMMA ReachNil == ASSUME NEW C PROVE Reach(C, NIL) = {}
  <1>1. {} \in SUBSET DOMAIN C /\ NIL \in {} \cup {NIL} /\ Closed(C, {})
    BY DEF Closed
  <1> QED BY <1>1 DEF Reach

(* Reach is within each closed set that has its start.                     *)
LEMMA ReachSmallest ==
  ASSUME NEW C, NEW a, NEW S \in SUBSET DOMAIN C, a \in S \cup {NIL}, Closed(C, S)
  PROVE  Reach(C, a) \subseteq S
  BY DEF Reach

LEMMA ReachStart ==
  ASSUME NEW C, NEW a \in DOMAIN C, NIL \notin DOMAIN C PROVE a \in Reach(C, a)
  BY DEF Reach

LEMMA ReachClosed ==
  ASSUME NEW C, Pointed(C), NEW a PROVE Closed(C, Reach(C, a))
  <1> SUFFICES ASSUME NEW b \in Reach(C, a), C[b].next # NIL
               PROVE  C[b].next \in Reach(C, a)
    BY DEF Closed
  <1>1. b \in DOMAIN C /\ C[b].next \in DOMAIN C
    BY ReachIsCells DEF Pointed
  <1>2. ASSUME NEW S \in SUBSET DOMAIN C, a \in S \cup {NIL}, Closed(C, S)
        PROVE  C[b].next \in S
    BY <1>2, <1>1 DEF Reach, Closed
  <1> QED BY <1>1, <1>2 DEF Reach

(* What a cell of the list leads to is in the list.                        *)
LEMMA ReachTransitive ==
  ASSUME NEW C, Pointed(C), NEW a, NEW b \in Reach(C, a) \cup {NIL}
  PROVE  Reach(C, b) \subseteq Reach(C, a)
  BY ReachSmallest, ReachClosed, ReachIsCells

LEMMA ReachNext ==
  ASSUME NEW C, Pointed(C), NEW a \in DOMAIN C
  PROVE  Reach(C, a) = {a} \cup Reach(C, C[a].next)
  <1> DEFINE S == {a} \cup Reach(C, C[a].next)
  <1>1. C[a].next \in Reach(C, C[a].next) \cup {NIL}
    BY ReachStart DEF Pointed
  <1>2. Closed(C, S)
    <2>1. Closed(C, Reach(C, C[a].next))
      BY ReachClosed
    <2> QED BY <1>1, <2>1 DEF Closed
  <1>3. Reach(C, a) \subseteq S
    BY <1>2, ReachSmallest, ReachIsCells
  <1>4. a \in Reach(C, a)
    BY ReachStart DEF Pointed
  <1>5. C[a].next \in Reach(C, a) \cup {NIL}
    BY <1>4, ReachClosed DEF Closed
  <1>6. Reach(C, C[a].next) \subseteq Reach(C, a)
    BY <1>5, ReachTransitive
  <1> QED BY <1>3, <1>4, <1>6

(* Of two cells of a list, one leads to the other.                         *)
LEMMA ReachTotal ==
  ASSUME NEW C, Pointed(C), NEW a \in DOMAIN C \cup {NIL},
         NEW b \in Reach(C, a), NEW c \in Reach(C, a)
  PROVE  b \in Reach(C, c) \/ c \in Reach(C, b)
  <1> DEFINE S == {d \in Reach(C, a) :
                     \A e \in Reach(C, a) : d \in Reach(C, e) \/ e \in Reach(C, d)}
  <1>1. a \in S \cup {NIL}
    BY ReachStart DEF Pointed
  <1>2. ASSUME NEW d \in S, C[d].next # NIL PROVE C[d].next \in S
    <2>1. d \in DOMAIN C /\ C[d].next \in Reach(C, a)
      BY <1>2, ReachIsCells, ReachClosed DEF Closed
    <2>2. Reach(C, d) = {d} \cup Reach(C, C[d].next)
      BY <2>1, ReachNext
    <2>3. ASSUME NEW e \in Reach(C, a)
          PROVE  C[d].next \in Reach(C, e) \/ e \in Reach(C, C[d].next)
      <3>1. Closed(C, Reach(C, e)) /\ Closed(C, Reach(C, d)) /\ d \in Reach(C, d)
        BY <2>2, ReachClosed
      <3> QED BY <1>2, <2>2, <3>1 DEF Closed
    <2> QED BY <2>1, <2>3
  <1>3. Reach(C, a) \subseteq S
    <2>1. Closed(C, S)
      BY <1>2 DEF Closed
    <2> QED BY <1>1, <2>1, ReachSmallest, ReachIsCells
  <1> QED BY <1>3

(* A list keeps its cells while nobody writes their pointers.              *)
LEMMA ReachSame ==
  ASSUME NEW C, Pointed(C), NEW D, NIL \notin DOMAIN D, NEW a \in DOMAIN C \cup {NIL},
         Reach(C, a) \subseteq DOMAIN D,
         \A b \in Reach(C, a) : D[b].next = C[b].next
  PROVE  Reach(D, a) = Reach(C, a)
  <1>1. Closed(C, Reach(C, a)) /\ Closed(D, Reach(C, a)) /\ a \in Reach(C, a) \cup {NIL}
    BY ReachClosed, ReachStart DEF Closed, Pointed
  <1>2. Reach(D, a) \subseteq Reach(C, a)
    BY <1>1, ReachSmallest
  <1>3. ASSUME NEW S \in SUBSET DOMAIN D, a \in S \cup {NIL}, Closed(D, S)
        PROVE  Reach(C, a) \subseteq S
    <2>1. S \cap Reach(C, a) \in SUBSET DOMAIN C
      BY ReachIsCells
    <2>2. Closed(C, S \cap Reach(C, a))
      BY <1>1, <1>3 DEF Closed
    <2> QED BY <1>1, <1>3, <2>1, <2>2, ReachSmallest
  <1>4. Reach(C, a) \subseteq Reach(D, a)
    BY <1>3 DEF Reach
  <1> QED BY <1>2, <1>4

-----------------------------------------------------------------------------
(* The list from a has no loop.                                            *)
Acyclic(C, a) == \A b \in Reach(C, a) : b \notin Reach(C, C[b].next)

(* D is C with p leading where c did.                                      *)
Bypassed(C, D, p, c) ==
  /\ p \in DOMAIN C /\ c \in DOMAIN C /\ C[p].next = c
  /\ DOMAIN D = DOMAIN C
  /\ \A b \in DOMAIN C : D[b].next = IF b = p THEN C[c].next ELSE C[b].next

(* Whatever cell a walk starts from, a bypass takes it past c only.        *)
LEMMA ReachBypassed ==
  ASSUME NEW C, Pointed(C), NEW D, NEW p, NEW c, Bypassed(C, D, p, c),
         NEW a \in DOMAIN C \cup {NIL}
  PROVE  /\ Pointed(D)
         /\ Reach(D, a) \subseteq Reach(C, a)
         /\ Reach(C, a) \ {c} \subseteq Reach(D, a)
  <1>1. Pointed(D)
    BY DEF Pointed, Bypassed
  <1>2. Reach(D, a) \subseteq Reach(C, a)
    <2>1. Closed(C, Reach(C, a)) /\ a \in Reach(C, a) \cup {NIL}
      BY ReachClosed, ReachStart DEF Pointed
    <2>2. Reach(C, a) \subseteq DOMAIN C
      BY ReachIsCells
    <2>3. Closed(D, Reach(C, a))
      BY <2>1, <2>2 DEF Closed, Bypassed, Pointed
    <2> QED BY <2>1, <2>2, <2>3, ReachSmallest DEF Bypassed
  <1>3. ASSUME NEW S \in SUBSET DOMAIN D, a \in S \cup {NIL}, Closed(D, S)
        PROVE  Reach(C, a) \subseteq S \cup {c}
    <2>1. CASE p \in S
      <3>1. Closed(C, S \cup {c})
        BY <1>3, <2>1 DEF Closed, Bypassed
      <3> QED BY <1>3, <3>1, ReachSmallest DEF Bypassed
    <2>2. CASE p \notin S
      <3>1. Closed(C, S)
        BY <1>3, <2>2 DEF Closed, Bypassed
      <3> QED BY <1>3, <3>1, ReachSmallest DEF Bypassed
    <2> QED BY <2>1, <2>2
  <1>4. Reach(C, a) \ {c} \subseteq Reach(D, a)
    <2>1. Reach(C, a) \subseteq DOMAIN D
      BY ReachIsCells DEF Bypassed
    <2> QED BY <1>3, <2>1 DEF Reach
  <1> QED BY <1>1, <1>2, <1>4

(* In the list that both are in, c is gone.                                *)
LEMMA ReachUnlinked ==
  ASSUME NEW C, Pointed(C), NEW D, NEW p, NEW c, Bypassed(C, D, p, c),
         NEW a \in DOMAIN C, p \in Reach(C, a), Acyclic(C, a)
  PROVE  /\ Reach(D, a) = Reach(C, a) \ {c}
         /\ c # a /\ c # p
  <1>1. /\ Closed(C, Reach(C, a)) /\ a \in Reach(C, a) /\ Reach(C, a) \subseteq DOMAIN C
        /\ c \in Reach(C, a)
    BY ReachClosed, ReachStart, ReachIsCells DEF Pointed, Closed, Bypassed
  <1>2. p \notin Reach(C, c) /\ c \notin Reach(C, C[c].next)
    BY <1>1 DEF Acyclic, Bypassed
  <1>3. c # a /\ c # p
    BY <1>1, <1>2, ReachStart DEF Pointed, Bypassed
  <1>4. ASSUME NEW b \in Reach(C, a) \ {c}, D[b].next # NIL
        PROVE  D[b].next \in Reach(C, a) \ {c}
    <2>1. CASE b = p
      <3>1. C[c].next \in Reach(C, a)
        BY <1>1, <1>4, <2>1 DEF Closed, Bypassed
      <3>2. C[c].next # c
        BY <1>1, <1>2, ReachStart DEF Pointed
      <3> QED BY <2>1, <3>1, <3>2, <1>1 DEF Bypassed
    <2>2. CASE b # p
      <3>1. D[b].next = C[b].next /\ C[b].next \in Reach(C, a)
        BY <1>1, <1>4, <2>2 DEF Closed, Bypassed
      <3>2. C[b].next # c
        <4> SUFFICES ASSUME C[b].next = c PROVE FALSE
          OBVIOUS
        <4>1. Reach(C, b) = {b} \cup Reach(C, c) /\ Reach(C, p) = {p} \cup Reach(C, c)
          BY <1>1, ReachNext DEF Bypassed
        <4>2. b \in Reach(C, c) \/ p \in Reach(C, c)
          BY <2>2, <4>1, ReachTotal
        <4>3. b \notin Reach(C, c)
          BY <1>4 DEF Acyclic
        <4> QED BY <1>2, <4>2, <4>3
      <3> QED BY <3>1, <3>2
    <2> QED BY <2>1, <2>2
  <1>5. Reach(D, a) \subseteq Reach(C, a) \ {c}
    <2>1. Closed(D, Reach(C, a) \ {c})
      BY <1>4 DEF Closed
    <2> QED BY <1>1, <1>3, <2>1, ReachSmallest DEF Bypassed
  <1> QED BY <1>3, <1>5, ReachBypassed

(* D is C with a cell x, that was in no use, behind the last one.          *)
LEMMA ReachAppended ==
  ASSUME NEW C, Pointed(C), NEW D, Pointed(D), DOMAIN D = DOMAIN C,
         NEW a \in DOMAIN C, NEW x \in DOMAIN C, x \notin Reach(C, a),
         NEW last \in Reach(C, a), C[last].next = NIL,
         D[last].next = x, D[x].next = NIL,
         \A b \in DOMAIN C \ {last, x} : D[b].next = C[b].next
  PROVE  /\ Reach(D, a) = Reach(C, a) \cup {x}
         /\ \A b \in DOMAIN C : Reach(D, b) \subseteq Reach(C, b) \cup {x}
  <1>1. /\ Closed(C, Reach(C, a)) /\ Closed(D, Reach(D, a))
        /\ Reach(C, a) \subseteq DOMAIN C /\ Reach(D, a) \subseteq DOMAIN C
        /\ a \in Reach(C, a) /\ a \in Reach(D, a)
    BY ReachClosed, ReachIsCells, ReachStart DEF Pointed
  <1>2. ASSUME NEW b \in DOMAIN C PROVE Reach(D, b) \subseteq Reach(C, b) \cup {x}
    <2>1. /\ Closed(C, Reach(C, b)) /\ Reach(C, b) \subseteq DOMAIN C
          /\ b \in Reach(C, b)
      BY ReachClosed, ReachIsCells, ReachStart DEF Pointed
    <2>2. Closed(D, Reach(C, b) \cup {x})
      BY <2>1 DEF Closed
    <2> QED BY <2>1, <2>2, ReachSmallest
  <1>3. Reach(C, a) \subseteq Reach(D, a)
    <2>1. Closed(C, Reach(C, a) \cap Reach(D, a))
      BY <1>1 DEF Closed
    <2> QED BY <1>1, <2>1, ReachSmallest
  <1>4. x \in Reach(D, a)
    BY <1>1, <1>3 DEF Closed, Pointed
  <1> QED BY <1>2, <1>3, <1>4
=============================================================================
