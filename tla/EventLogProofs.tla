--------------------------- MODULE EventLogProofs ---------------------------
(***************************************************************************)
(* Theorems about the event log, for a queue of any length and any number  *)
(* of naps: each line is written once and in its turn, and the log stands  *)
(* still while it is printed.                                              *)
(***************************************************************************)
EXTENDS EventLog, FiniteSetTheorems, SequenceTheorems, TLAPS

USE LogAssumption

-----------------------------------------------------------------------------
(* Where the threads are.                                                  *)

(* The calls outside of log_thread and show_log.                           *)
Plain == {"lock", "unlock", "nap", "log", "send"}

Calling == Plain \cup {"log_lock", "log_unlock", "print", "append", "receive"}

Written == <<"log_unlock", "receive">>
Writing == <<"append", "log_unlock", "receive">>
Shown == <<"log_unlock">>
Showing == <<"print", "log_unlock">>

CallsOK ==
  /\ todo \in [Threads -> Seq(Calling)]
  /\ todo["gcoap"] \in Seq(Plain) /\ todo["wdt"] \in Seq(Plain)
  /\ todo["log"] \in {<<>>, <<"receive">>, Written, Writing, Write}
  /\ \/ todo["shell"] \in Seq(Plain)
     \/ todo["shell"] \in {Shown, Showing, ShowLog}

SuffixOK == \A t \in Threads : todo[t] \in Suffixes[t]

RestOK == \A t \in resting :
  t \in Threads /\ todo[t] # <<>> /\ Head(todo[t]) \in {"nap", "send"}

(* The thread is between its calls of mutex_lock and mutex_unlock.         *)
InSection(t) ==
  \/ t = "log" /\ todo[t] \in {Writing, Written}
  \/ t = "shell" /\ todo[t] \in {Showing, Shown}

LocksOK ==
  /\ ht_lock \in Mutexes(Threads) /\ log_lock \in Mutexes(Threads)
  /\ log_lock.owner \notin log_lock.waiting
  /\ \A t \in Threads : t \in {log_lock.owner} \cup log_lock.waiting <=> InSection(t)

-----------------------------------------------------------------------------
(* Where the lines are: in the hand of log_thread, in the queue, and       *)
(* behind it with a thread that waits.                                     *)

LinesOK ==
  /\ queue \in Seq(Lines) /\ Len(queue) <= QueueSize
  /\ blocked \in [Threads -> Lines \cup {NoLine}]
  /\ \A t \in Threads : blocked[t] # NoLine =>
       t \in Senders /\ blocked[t][1] = t /\ Len(queue) = QueueSize
  /\ hand \in Lines \cup {NoLine}
  /\ hand # NoLine <=> todo["log"] \in {Write, Writing}
  /\ todo["log"] = <<>> => queue = <<>>
  /\ owed \in [Senders -> Nat]

Places == 0..(QueueSize + 1)

At(s, p) ==
  IF p = 0 THEN hand
  ELSE IF p \in 1..Len(queue) THEN queue[p]
  ELSE IF p = QueueSize + 1 /\ s \in Threads THEN blocked[s]
  ELSE NoLine

(* The place of each line of s in the order of its lines, counted from 1;  *)
(* 0 where no line of s is.                                                *)
RankOf(line, s) == IF line # NoLine /\ line[1] = s THEN line[2] + 1 ELSE 0

Rank(s) == [p \in Places |-> RankOf(At(s, p), s)]

(* The n lines are all there, and in their order.                          *)
Ranked(R, n) ==
  /\ R \in [Places -> Nat] /\ n \in Nat
  /\ \A k \in 1..n : \E p \in Places : R[p] = k
  /\ \A p \in Places : R[p] <= n
  /\ \A p, q \in Places : p < q /\ R[p] > 0 /\ R[q] > 0 => R[p] < R[q]

InOrder == \A s \in Senders : Ranked(Rank(s), owed[s])

LogInv == CallsOK /\ SuffixOK /\ RestOK /\ LocksOK /\ LinesOK /\ InOrder

-----------------------------------------------------------------------------
(* What may be done to the lines of one sender.                            *)

(* One more behind the others.                                             *)
LEMMA RankedAdd ==
  ASSUME NEW R, NEW n, Ranked(R, n), NEW place \in Places,
         \A p \in Places : p >= place => R[p] = 0,
         NEW S \in [Places -> Nat],
         \A p \in Places : S[p] = IF p = place THEN n + 1 ELSE R[p]
  PROVE  Ranked(S, n + 1)
<1>1. n \in Nat /\ n + 1 \in Nat /\ Places \subseteq Nat
  BY DEF Ranked, Places
<1>2. \A p \in Places : R[p] \in Nat /\ S[p] \in Nat /\ p \in Nat /\ R[p] <= n
  BY <1>1 DEF Ranked
<1>3. ASSUME NEW k \in 1..(n + 1) PROVE \E p \in Places : S[p] = k
  <2>1. CASE k = n + 1
    BY <2>1
  <2>2. CASE k # n + 1
    <3>1. k \in 1..n
      BY <1>1, <2>2
    <3>2. PICK p \in Places : R[p] = k
      BY <3>1 DEF Ranked
    <3>3. R[place] = 0
      BY <1>2
    <3> QED BY <3>1, <3>2, <3>3
  <2> QED BY <2>1, <2>2
<1>4. ASSUME NEW p \in Places PROVE S[p] <= n + 1
  BY <1>1, <1>2
<1>5. ASSUME NEW p \in Places, NEW q \in Places, p < q, S[p] > 0, S[q] > 0
      PROVE  S[p] < S[q]
  <2>1. p # place
    <3> SUFFICES ASSUME p = place PROVE FALSE
      OBVIOUS
    <3>1. q >= place /\ q # place
      BY <1>2, <1>5
    <3> QED BY <1>5, <3>1
  <2>2. S[p] = R[p] /\ R[p] > 0
    BY <1>5, <2>1
  <2>3. CASE q = place
    BY <1>1, <1>2, <2>2, <2>3
  <2>4. CASE q # place
    BY <1>5, <2>2, <2>4 DEF Ranked
  <2> QED BY <2>3, <2>4
<1> QED BY <1>1, <1>3, <1>4, <1>5 DEF Ranked

(* The line in hand is the first; without it the others move up.           *)
LEMMA RankedDrop ==
  ASSUME NEW R, NEW n, Ranked(R, n), R[0] > 0
  PROVE  /\ R[0] = 1 /\ n >= 1
         /\ \A S \in [Places -> Nat] :
              (\A p \in Places : S[p] = IF R[p] > 0 THEN R[p] - 1 ELSE 0) => Ranked(S, n - 1)
<1>1. 0 \in Places /\ n \in Nat /\ Places \subseteq Nat
  BY DEF Places, Ranked
<1>2. \A p \in Places : R[p] \in Nat /\ R[p] <= n /\ p \in Nat
  BY <1>1 DEF Ranked
<1>3. n >= 1 /\ 1 \in 1..n /\ n - 1 \in Nat
  BY <1>1, <1>2
<1>4. PICK p \in Places : R[p] = 1
  BY <1>3 DEF Ranked
<1>5. R[0] = 1
  <2>1. CASE p = 0
    BY <1>4, <2>1
  <2>2. CASE p # 0
    <3>1. 0 < p /\ R[p] > 0
      BY <1>1, <1>2, <1>4, <2>2
    <3>2. R[0] < R[p]
      BY <1>1, <3>1 DEF Ranked
    <3> QED BY <1>1, <1>2, <1>4, <3>2
  <2> QED BY <2>1, <2>2
<1>6. ASSUME NEW S \in [Places -> Nat],
             \A q \in Places : S[q] = IF R[q] > 0 THEN R[q] - 1 ELSE 0
      PROVE  Ranked(S, n - 1)
  <2>1. ASSUME NEW k \in 1..(n - 1) PROVE \E q \in Places : S[q] = k
    <3>1. k + 1 \in 1..n
      BY <1>1
    <3>2. PICK q \in Places : R[q] = k + 1
      BY <3>1 DEF Ranked
    <3> QED BY <1>6, <3>2
  <2>2. ASSUME NEW q \in Places PROVE S[q] <= n - 1
    BY <1>1, <1>2, <1>3, <1>6
  <2>3. ASSUME NEW q \in Places, NEW r \in Places, q < r, S[q] > 0, S[r] > 0
        PROVE  S[q] < S[r]
    <3>1. R[q] > 0 /\ R[r] > 0
      BY <1>2, <1>6, <2>3
    <3>2. R[q] < R[r]
      BY <2>3, <3>1 DEF Ranked
    <3>3. S[q] = R[q] - 1 /\ S[r] = R[r] - 1
      BY <1>6, <3>1
    <3> QED BY <1>2, <3>2, <3>3
  <2> QED BY <1>3, <2>1, <2>2, <2>3 DEF Ranked
<1> QED BY <1>3, <1>5, <1>6

(* All move up by a place when the first is taken into the empty hand; one *)
(* that waits behind the queue gets its last place, or stays.              *)
LEMMA RankedShift ==
  ASSUME NEW R, NEW n, Ranked(R, n), R[0] = 0, NEW e \in 1..QueueSize,
         NEW S \in [Places -> Nat],
         \A p \in Places : p < e => S[p] = R[p + 1],
         \A p \in Places : e < p /\ p <= QueueSize => R[p] = 0 /\ S[p] = 0,
         \/ S[e] = 0 /\ S[QueueSize + 1] = R[QueueSize + 1]
         \/ S[e] = R[QueueSize + 1] /\ S[QueueSize + 1] = 0
  PROVE  Ranked(S, n)
<1> DEFINE last == QueueSize + 1
<1>1. last \in Places /\ e \in Places /\ e < last /\ e \in Nat /\ last \in Nat /\ n \in Nat
  BY DEF Places, Ranked
<1>2. \A p \in Places : R[p] \in Nat /\ R[p] <= n /\ p \in Nat /\ S[p] \in Nat
  BY DEF Ranked, Places
<1>3. \A p \in Places : p < e => p + 1 \in Places /\ p + 1 < last
  BY DEF Places
<1>4. \A p \in Places : p < e \/ p = e \/ (e < p /\ p <= QueueSize) \/ p = last
  BY DEF Places
<1>5. ASSUME NEW k \in 1..n PROVE \E p \in Places : S[p] = k
  <2>1. PICK p \in Places : R[p] = k
    BY DEF Ranked
  <2>2. p \in 1..e \/ p = last
    BY <1>2, <1>4, <2>1
  <2>3. CASE p \in 1..e
    <3>1. p - 1 \in Places /\ p - 1 < e /\ (p - 1) + 1 = p
      BY <2>3 DEF Places
    <3>2. S[p - 1] = R[(p - 1) + 1]
      BY <3>1
    <3> QED BY <2>1, <3>1, <3>2
  <2>4. CASE p = last
    BY <1>1, <2>1, <2>4
  <2> QED BY <2>2, <2>3, <2>4
(* Each rank is one of before, from its place or a later one.              *)
<1>6. ASSUME NEW p \in Places, S[p] > 0
      PROVE  \/ p < e /\ p + 1 \in Places /\ S[p] = R[p + 1]
             \/ ~(p < e) /\ S[p] = R[last]
  BY <1>1, <1>3, <1>4, <1>6
<1>7. ASSUME NEW p \in Places PROVE S[p] <= n
  <2>1. CASE S[p] > 0
    BY <1>1, <1>2, <1>6, <2>1
  <2>2. CASE ~(S[p] > 0)
    BY <1>1, <1>2, <2>2
  <2> QED BY <2>1, <2>2
<1>8. ASSUME NEW p \in Places, NEW q \in Places, p < q, S[p] > 0, S[q] > 0
      PROVE  S[p] < S[q]
  <2>1. p < e
    <3> SUFFICES ASSUME ~(p < e) PROVE FALSE
      OBVIOUS
    <3>1. p # last
      BY <1>1, <1>2, <1>8 DEF Places
    <3>2. p = e
      BY <1>1, <1>2, <1>4, <1>8, <3>1
    <3>3. S[e] = R[last] /\ S[last] = 0
      BY <1>1, <1>8, <3>2
    <3>4. q = last
      BY <1>1, <1>2, <1>4, <1>8, <3>2
    <3> QED BY <1>8, <3>3, <3>4
  <2>2. p + 1 \in Places /\ p + 1 < last /\ S[p] = R[p + 1]
    BY <1>3, <2>1
  <2>3. CASE q < e
    <3>1. q + 1 \in Places /\ S[q] = R[q + 1]
      BY <1>3, <2>3
    <3>2. p + 1 < q + 1
      BY <1>2, <1>8
    <3> QED BY <1>8, <2>2, <3>1, <3>2 DEF Ranked
  <2>4. CASE ~(q < e)
    <3>1. S[q] = R[last]
      BY <1>6, <1>8, <2>4
    <3> QED BY <1>1, <1>8, <2>2, <3>1 DEF Ranked
  <2> QED BY <2>3, <2>4
<1> QED BY <1>1, <1>5, <1>7, <1>8 DEF Ranked

(* There are no more lines than places, and fewer when one is empty.       *)
LEMMA RankedBound ==
  ASSUME NEW R, NEW n, Ranked(R, n)
  PROVE  /\ n <= QueueSize + 2
         /\ \A p \in Places : R[p] = 0 => n <= QueueSize + 1
<1> DEFINE f == [k \in 1..n |-> CHOOSE p \in Places : R[p] = k]
<1>1. \A k \in 1..n : f[k] \in Places /\ R[f[k]] = k
  BY DEF Ranked
<1>2. n \in Nat /\ IsFiniteSet(1..n) /\ Cardinality(1..n) = n
  BY FS_Interval DEF Ranked
<1>3. QueueSize + 1 \in Int /\ IsFiniteSet(Places) /\ Cardinality(Places) = QueueSize + 2
  BY FS_Interval DEF Places
<1>4. ASSUME NEW T, T \subseteq Places, IsFiniteSet(T), \A k \in 1..n : f[k] \in T
      PROVE  n <= Cardinality(T)
  <2>1. f \in [1..n -> T]
    BY <1>4
  <2> HIDE DEF f
  <2>2. \A j, k \in 1..n : f[j] = f[k] => j = k
    BY <1>1
  <2>3. Cardinality(T) \in Nat
    BY <1>4, FS_CardinalityType
  <2> QED BY <1>2, <1>4, <2>1, <2>2, <2>3, FS_PigeonHole
<1>5. n <= QueueSize + 2
  BY <1>1, <1>3, <1>4
<1>6. ASSUME NEW p \in Places, R[p] = 0 PROVE n <= QueueSize + 1
  <2>1. \A k \in 1..n : f[k] \in Places \ {p}
    BY <1>1, <1>6
  <2>2. IsFiniteSet(Places \ {p}) /\ Cardinality(Places \ {p}) = QueueSize + 1
    BY <1>3, FS_RemoveElement
  <2> QED BY <1>4, <2>1, <2>2
<1> QED BY <1>5, <1>6

-----------------------------------------------------------------------------
(* The sequences of calls.                                                 *)

LEMMA PlainScripts ==
  /\ Handlers \subseteq Seq(Plain) /\ Scripts["wdt"] \subseteq Seq(Plain)
  /\ Commands \subseteq Seq(Plain) \cup {ShowLog}
<1>1. Section \in Seq(Plain) /\ <<"log">> \in Seq(Plain) /\ <<"send">> \in Seq(Plain)
      /\ <<"log", "send">> \in Seq(Plain) /\ <<"send", "log">> \in Seq(Plain)
      /\ DeauthSensor \in Seq(Plain)
  BY DEF Section, Plain, DeauthSensor
<1>2. ASSUME NEW n \in Nat PROVE Naps(n) \in Seq(Plain)
  BY DEF Naps, Plain
<1>3. \A r, s \in Seq(Plain) : r \o s \in Seq(Plain)
  BY ConcatProperties
<1>4. Handlers \subseteq Seq(Plain) /\ Scripts["wdt"] \subseteq Seq(Plain)
  <2>1. Section \o Section \in Seq(Plain) /\ Section \o <<"log">> \in Seq(Plain)
    BY <1>1, <1>3
  <2> QED BY <1>1, <2>1 DEF Handlers, Scripts
<1>5. ASSUME NEW n \in Nat
      PROVE  AuthSensor(n) \in Seq(Plain) /\ AuthActuator(n) \in Seq(Plain)
  <2>1. Naps(n) \in Seq(Plain) /\ Section \o Naps(n) \in Seq(Plain)
    BY <1>1, <1>2, <1>3
  <2>2. Section \o Naps(n) \o <<"log">> \in Seq(Plain)
    BY <1>1, <1>3, <2>1
  <2>3. Section \o Naps(n) \o <<"log">> \o Section \in Seq(Plain)
    BY <1>1, <1>3, <2>2
  <2> QED BY <1>1, <1>3, <2>1, <2>3 DEF AuthSensor, AuthActuator
<1>6. Section \o Naps(Polls) \in Seq(Plain) /\ Naps(Polls) \in Seq(Plain)
  BY <1>1, <1>2, <1>3
<1>7. DeauthActuator \in Seq(Plain)
  BY <1>1 DEF DeauthActuator
<1>8. \A n \in 0..Polls : n \in Nat
  OBVIOUS
<1> QED BY <1>1, <1>4, <1>5, <1>6, <1>7, <1>8 DEF Commands

LEMMA AllScripts == \A t \in Threads : Scripts[t] \subseteq Seq(Calling)
<1>1. ASSUME NEW r \in Seq(Plain) PROVE r \in Seq(Calling)
  <2>1. Plain \subseteq Calling
    BY DEF Calling
  <2> QED BY ONLY <1>1, <2>1, SeqMonotonic
<1>2. Write \in Seq(Calling) /\ ShowLog \in Seq(Calling)
  BY DEF Write, ShowLog, Calling
<1> QED BY <1>1, <1>2, PlainScripts DEF Scripts, Threads

LEMMA Tails ==
  /\ Head(Write) = "log_lock" /\ Tail(Write) = Writing
  /\ Head(Writing) = "append" /\ Tail(Writing) = Written
  /\ Head(Written) = "log_unlock" /\ Tail(Written) = <<"receive">>
  /\ Head(<<"receive">>) = "receive" /\ Tail(<<"receive">>) = <<>>
  /\ Head(ShowLog) = "log_lock" /\ Tail(ShowLog) = Showing
  /\ Head(Showing) = "print" /\ Tail(Showing) = Shown
  /\ Head(Shown) = "log_unlock" /\ Tail(Shown) = <<>>
  BY DEF Write, Writing, Written, ShowLog, Showing, Shown

LEMMA Differ ==
  /\ Write # Writing /\ Write # Written /\ Writing # Written
  /\ <<>> \notin {<<"receive">>, Written, Writing, Write, Shown, Showing, ShowLog}
  /\ <<"receive">> \notin {Written, Writing, Write}
  /\ ShowLog # Showing /\ ShowLog # Shown /\ Showing # Shown
  /\ {Shown, Showing, ShowLog} \cap Seq(Plain) = {}
<1>1. \A r \in Seq(Plain) : r # <<>> => Head(r) \in Plain
  BY HeadTailProperties
<1>2. /\ "log_lock" \notin Plain /\ "print" \notin Plain /\ "log_unlock" \notin Plain
  BY DEF Plain
<1>3. <<>> \notin {<<"receive">>, Written, Writing, Write, Shown, Showing, ShowLog}
  BY DEF Write, Writing, Written, ShowLog, Showing, Shown
<1> QED BY <1>1, <1>2, <1>3, Tails

LEMMA SuffixesAre ==
  ASSUME NEW t \in Threads, NEW u
  PROVE  u \in Suffixes[t] <=>
           \E s \in Scripts[t] : \E k \in 1..(Len(s) + 1) : u = SubSeq(s, k, Len(s))
<1> DEFINE Ends(s) == {SubSeq(s, k, Len(s)) : k \in 1..(Len(s) + 1)}
<1>1. Suffixes[t] = UNION {Ends(s) : s \in Scripts[t]}
  BY DEF Suffixes
<1>2. u \in Suffixes[t] <=> \E s \in Scripts[t] : u \in Ends(s)
  <2> HIDE DEF Ends
  <2> QED BY <1>1
<1>3. \A s : u \in Ends(s) <=> \E k \in 1..(Len(s) + 1) : u = SubSeq(s, k, Len(s))
  OBVIOUS
<1> QED BY <1>2, <1>3

LEMMA TailOfSuffix ==
  ASSUME NEW t \in Threads, NEW u \in Suffixes[t], u # <<>>
  PROVE  Tail(u) \in Suffixes[t]
<1>1. PICK s \in Scripts[t] : \E k \in 1..(Len(s) + 1) : u = SubSeq(s, k, Len(s))
  BY SuffixesAre
<1>2. PICK k \in 1..(Len(s) + 1) : u = SubSeq(s, k, Len(s))
  BY <1>1
<1>3. s \in Seq(Calling) /\ Len(s) \in Nat
  BY AllScripts
<1>4. k # Len(s) + 1
  BY <1>2, <1>3, SubSeqEmpty
<1>5. k \in 1..Len(s) /\ Len(s) \in k..Len(s) /\ k + 1 \in 1..(Len(s) + 1)
  BY <1>3, <1>4
<1>6. Tail(u) = SubSeq(s, k + 1, Len(s))
  BY <1>2, <1>3, <1>5, HeadTailOfSubSeq
<1>7. \E j \in 1..(Len(s) + 1) : Tail(u) = SubSeq(s, j, Len(s))
  BY <1>5, <1>6
<1> QED BY <1>7, SuffixesAre

LEMMA WholeScripts == \A t \in Threads : Scripts[t] \subseteq Suffixes[t]
<1> SUFFICES ASSUME NEW t \in Threads, NEW s \in Scripts[t] PROVE s \in Suffixes[t]
  OBVIOUS
<1>1. s \in Seq(Calling) /\ 1 \in 1..(Len(s) + 1)
  BY AllScripts
<1>2. SubSeq(s, 1, Len(s)) = s
  BY <1>1, SubSeqFull
<1> QED BY <1>1, <1>2, SuffixesAre

LEMMA TailsOfPlain == \A r \in Seq(Plain) : r # <<>> => Tail(r) \in Seq(Plain)
  BY HeadTailProperties

(* A thread stays where it is, comes back from a call, or begins a script. *)
Moves(t) ==
  \/ todo'[t] = todo[t]
  \/ todo[t] # <<>> /\ todo'[t] = Tail(todo[t])
  \/ todo'[t] \in Scripts[t]

LEMMA CallsKept ==
  ASSUME CallsOK, SuffixOK, DOMAIN todo' = Threads, todo' = [t \in Threads |-> todo'[t]],
         \A t \in Threads : Moves(t)
  PROVE  CallsOK' /\ SuffixOK'
<1>1. ASSUME NEW t \in Threads PROVE todo'[t] \in Suffixes[t]
  <2>1. Moves(t) /\ todo[t] \in Suffixes[t] /\ Scripts[t] \subseteq Suffixes[t]
    BY WholeScripts DEF SuffixOK
  <2> QED BY <2>1, TailOfSuffix DEF Moves
<1>2. ASSUME NEW t \in Threads PROVE todo'[t] \in Seq(Calling)
  <2>1. Moves(t) /\ todo[t] \in Seq(Calling) /\ Scripts[t] \subseteq Seq(Calling)
    BY AllScripts DEF CallsOK
  <2> QED BY <2>1, HeadTailProperties DEF Moves
<1>3. todo'["gcoap"] \in Seq(Plain) /\ todo'["wdt"] \in Seq(Plain)
  <2>1. Moves("gcoap") /\ Moves("wdt")
    BY DEF Threads
  <2>2. Scripts["gcoap"] \subseteq Seq(Plain) /\ Scripts["wdt"] \subseteq Seq(Plain)
    BY PlainScripts DEF Scripts
  <2> QED BY <2>1, <2>2, TailsOfPlain DEF CallsOK, Moves
<1>4. todo'["log"] \in {<<>>, <<"receive">>, Written, Writing, Write}
  <2>1. Moves("log")
    BY DEF Threads
  <2> QED BY <2>1, Tails DEF CallsOK, Moves, Scripts
<1>5. todo'["shell"] \in Seq(Plain) \cup {Shown, Showing, ShowLog}
  <2>1. Moves("shell")
    BY DEF Threads
  <2>2. <<>> \in Seq(Plain)
    BY EmptySeq
  <2>3. Scripts["shell"] \subseteq Seq(Plain) \cup {ShowLog}
    BY PlainScripts DEF Scripts
  <2>4. CASE todo'["shell"] = todo["shell"] \/ todo'["shell"] \in Scripts["shell"]
    BY <2>3, <2>4 DEF CallsOK
  <2>5. CASE todo["shell"] # <<>> /\ todo'["shell"] = Tail(todo["shell"])
    BY <2>2, <2>5, Tails, TailsOfPlain DEF CallsOK
  <2> QED BY <2>1, <2>4, <2>5 DEF Moves
<1> QED BY <1>1, <1>2, <1>3, <1>4, <1>5 DEF CallsOK, SuffixOK

-----------------------------------------------------------------------------
(* Which thread may make which call.                                       *)

LEMMA Positions ==
  ASSUME CallsOK, NEW t \in Threads, todo[t] # <<>>
  PROVE  /\ Head(todo[t]) \in Plain =>
              t # "log" /\ ~InSection(t) /\ Tail(todo[t]) \in Seq(Plain)
         /\ Head(todo[t]) = "log_lock" =>
              (t = "log" /\ todo[t] = Write) \/ (t = "shell" /\ todo[t] = ShowLog)
         /\ Head(todo[t]) = "log_unlock" =>
              (t = "log" /\ todo[t] = Written) \/ (t = "shell" /\ todo[t] = Shown)
         /\ Head(todo[t]) = "print" => t = "shell" /\ todo[t] = Showing
         /\ Head(todo[t]) = "append" => t = "log" /\ todo[t] = Writing
         /\ Head(todo[t]) = "receive" => t = "log" /\ todo[t] = <<"receive">>
<1>1. /\ {"log_lock", "log_unlock", "print", "append", "receive"} \cap Plain = {}
      /\ "log_lock" # "log_unlock" /\ "print" \notin {"log_lock", "log_unlock"}
      /\ "append" \notin {"log_lock", "log_unlock", "print"}
      /\ "receive" \notin {"log_lock", "log_unlock", "print", "append"}
  BY DEF Plain
<1>2. t \in {"gcoap", "log", "shell", "wdt"}
  BY DEF Threads
<1>3. CASE todo[t] \in Seq(Plain) /\ t # "log"
  <2>1. Head(todo[t]) \in Plain /\ Tail(todo[t]) \in Seq(Plain)
    BY <1>3, HeadTailProperties
  <2> QED BY <1>1, <1>3, <2>1, Differ DEF InSection
<1>4. CASE t = "log"
  BY <1>1, <1>4, Tails, Differ DEF CallsOK
<1>5. CASE t = "shell" /\ todo[t] \in {Shown, Showing, ShowLog}
  BY <1>1, <1>5, Tails, Differ
<1> QED BY <1>2, <1>3, <1>4, <1>5 DEF CallsOK

LEMMA CallOf ==
  ASSUME NEW t \in Threads, NEW op, Calls(t, op)
  PROVE  todo[t] # <<>> /\ Head(todo[t]) = op /\ ~Waiting(t)
  BY DEF Calls, Foremost, Ready

(* A mutex keeps its type, and only the caller joins or leaves it.         *)
LEMMA MutexLocked ==
  ASSUME NEW m \in Mutexes(Threads), NEW t \in Threads
  PROVE  LET l == MutexLock(m, t) IN
         /\ l \in Mutexes(Threads)
         /\ m.owner \notin m.waiting /\ t \notin {m.owner} \cup m.waiting
              => l.owner \notin l.waiting
         /\ \A u \in Threads : u \in {l.owner} \cup l.waiting
                                 <=> u = t \/ u \in {m.owner} \cup m.waiting
  BY DEF Mutexes, MutexLock, NoThread, Threads

LEMMA MutexUnlocked ==
  ASSUME NEW m \in Mutexes(Threads), NEW l \in MutexUnlock(m, Priority)
  PROVE  /\ l \in Mutexes(Threads)
         /\ l.owner \notin l.waiting
         /\ m.owner \notin m.waiting =>
              \A u \in Threads : u \in {l.owner} \cup l.waiting <=> u \in m.waiting
  BY DEF Mutexes, MutexUnlock, FreeMutex, NoThread, Threads

-----------------------------------------------------------------------------
(* What a step that is not about them leaves of the parts of LogInv.       *)

LEMMA RestKept ==
  ASSUME RestOK, resting' \subseteq resting, \A u \in resting' : todo'[u] = todo[u]
  PROVE  RestOK'
  BY DEF RestOK

LEMMA LocksKept ==
  ASSUME LocksOK, ht_lock' \in Mutexes(Threads), log_lock' = log_lock,
         \A t \in Threads : InSection(t)' <=> InSection(t)
  PROVE  LocksOK'
  BY DEF LocksOK

LEMMA LinesKept ==
  ASSUME LinesOK, InOrder, UNCHANGED lines,
         todo'["log"] \in {Write, Writing} <=> todo["log"] \in {Write, Writing},
         todo'["log"] = <<>> => todo["log"] = <<>>
  PROVE  LinesOK' /\ InOrder'
<1>1. LinesOK'
  BY DEF LinesOK, lines
<1>2. \A s \in Senders : Rank(s)' = Rank(s) /\ owed'[s] = owed[s]
  BY DEF Rank, At, RankOf, lines
<1> QED BY <1>1, <1>2 DEF InOrder

(* A call of one of Plain returns.                                         *)
LEMMA PlainReturn ==
  ASSUME LogInv, NEW t \in Threads, todo[t] # <<>>, Head(todo[t]) \in Plain, Returns(t),
         resting' \subseteq resting \ {t}
  PROVE  /\ CallsOK' /\ SuffixOK' /\ RestOK'
         /\ \A u \in Threads : InSection(u)' <=> InSection(u)
         /\ todo'["log"] = todo["log"]
<1> USE DEF LogInv
<1>1. t # "log" /\ ~InSection(t) /\ Tail(todo[t]) \in Seq(Plain)
  BY Positions
<1>2. /\ todo'[t] = Tail(todo[t])
      /\ \A u \in Threads \ {t} : todo'[u] = todo[u]
      /\ todo' = [u \in Threads |-> todo'[u]] /\ DOMAIN todo' = Threads
  BY DEF Returns, CallsOK
<1>3. CallsOK' /\ SuffixOK'
  BY <1>2, CallsKept DEF Moves
<1>4. RestOK'
  BY <1>2, RestKept DEF RestOK
<1>5. ~InSection(t)'
  BY <1>1, <1>2, Differ DEF InSection
<1>6. \A u \in Threads \ {t} : InSection(u)' <=> InSection(u)
  BY <1>2 DEF InSection
<1> QED BY <1>1, <1>2, <1>3, <1>4, <1>5, <1>6 DEF Threads

-----------------------------------------------------------------------------
(* The steps that move no line.                                            *)

LEMMA BeginStep ==
  ASSUME LogInv, NEW t \in Threads, Begin(t) PROVE LogInv'
<1> USE DEF LogInv
<1>1. t # "log" /\ todo[t] = <<>> /\ t \notin resting /\ todo'[t] \in Scripts[t]
  BY DEF Begin, Idle, Waiting, CallsOK
<1>2. /\ \A u \in Threads \ {t} : todo'[u] = todo[u]
      /\ todo' = [u \in Threads |-> todo'[u]] /\ DOMAIN todo' = Threads
      /\ UNCHANGED <<locks, resting, lines>>
  BY DEF Begin, CallsOK
<1>3. CallsOK' /\ SuffixOK'
  BY <1>1, <1>2, CallsKept DEF Moves
<1>4. RestOK'
  BY <1>1, <1>2, RestKept DEF RestOK
<1>5. ~InSection(t) /\ ~InSection(t)'
  <2>1. ~InSection(t)
    BY <1>1, Differ DEF InSection
  <2>2. t = "shell" => todo'[t] \in Seq(Plain) \cup {ShowLog}
    BY <1>1, PlainScripts DEF Scripts
  <2> QED BY <1>1, <2>1, <2>2, Differ DEF InSection
<1>6. LocksOK'
  BY <1>2, <1>5, LocksKept DEF LocksOK, locks, InSection
<1>7. LinesOK' /\ InOrder'
  <2>1. todo'["log"] = todo["log"]
    BY <1>1, <1>2 DEF Threads
  <2> QED BY <1>2, <2>1, LinesKept
<1> QED BY <1>3, <1>4, <1>6, <1>7

LEMMA HtStep ==
  ASSUME LogInv, NEW t \in Threads, HtLock(t) \/ HtUnlock(t) PROVE LogInv'
<1> USE DEF LogInv
<1>1. /\ todo[t] # <<>> /\ Head(todo[t]) \in Plain /\ ~Waiting(t) /\ Returns(t)
      /\ UNCHANGED <<log_lock, resting, lines>>
  BY CallOf DEF HtLock, HtUnlock, Plain
<1>2. resting' \subseteq resting \ {t}
  BY <1>1 DEF Waiting
<1>3. ht_lock' \in Mutexes(Threads)
  BY MutexLocked, MutexUnlocked DEF HtLock, HtUnlock, LocksOK
<1>4. /\ CallsOK' /\ SuffixOK' /\ RestOK'
      /\ \A u \in Threads : InSection(u)' <=> InSection(u)
      /\ todo'["log"] = todo["log"]
  BY <1>1, <1>2, PlainReturn
<1>5. LocksOK'
  BY <1>1, <1>3, <1>4, LocksKept
<1>6. LinesOK' /\ InOrder'
  BY <1>1, <1>4, LinesKept
<1> QED BY <1>4, <1>5, <1>6

LEMMA RestsStep ==
  ASSUME LogInv, NEW t \in Threads, Rests(t) PROVE LogInv'
<1> USE DEF LogInv
<1>1. /\ todo[t] # <<>> /\ Head(todo[t]) \in {"nap", "send"} /\ resting' = resting \cup {t}
      /\ UNCHANGED <<todo, locks, lines>>
  BY CallOf DEF Rests
<1>2. RestOK'
  BY <1>1 DEF RestOK
<1>3. CallsOK' /\ SuffixOK' /\ LocksOK'
  BY <1>1 DEF CallsOK, SuffixOK, LocksOK, locks, InSection
<1>4. LinesOK' /\ InOrder'
  BY <1>1, LinesKept
<1> QED BY <1>2, <1>3, <1>4

LEMMA WakesStep ==
  ASSUME LogInv, NEW t \in Threads, Wakes(t) PROVE LogInv'
<1> USE DEF LogInv
<1>1. /\ todo[t] # <<>> /\ Head(todo[t]) \in Plain /\ Returns(t)
      /\ resting' \subseteq resting \ {t} /\ UNCHANGED <<locks, lines>>
  BY DEF Wakes, RestOK, Plain
<1>2. /\ CallsOK' /\ SuffixOK' /\ RestOK'
      /\ \A u \in Threads : InSection(u)' <=> InSection(u)
      /\ todo'["log"] = todo["log"]
  BY <1>1, PlainReturn
<1>3. LocksOK'
  BY <1>1, <1>2, LocksKept DEF locks, LocksOK
<1>4. LinesOK' /\ InOrder'
  BY <1>1, <1>2, LinesKept
<1> QED BY <1>2, <1>3, <1>4

(* mutex_lock, mutex_unlock and puts around the text of the log.           *)
LEMMA LogLockStep ==
  ASSUME LogInv, NEW t \in Threads, LogLock(t) \/ LogUnlock(t) \/ (t = "shell" /\ Prints)
  PROVE  LogInv'
<1> USE DEF LogInv
<1>1. /\ todo[t] # <<>> /\ ~Waiting(t) /\ Returns(t) /\ UNCHANGED <<ht_lock, resting, lines>>
      /\ Head(todo[t]) \in {"log_lock", "log_unlock", "print"}
  BY CallOf DEF LogLock, LogUnlock, Prints, locks
<1>2. /\ todo'[t] = Tail(todo[t])
      /\ \A u \in Threads \ {t} : todo'[u] = todo[u]
      /\ todo' = [u \in Threads |-> todo'[u]] /\ DOMAIN todo' = Threads
  BY <1>1 DEF Returns, CallsOK
<1>3. CallsOK' /\ SuffixOK'
  BY <1>1, <1>2, CallsKept DEF Moves
<1>4. RestOK'
  BY <1>1, <1>2, RestKept DEF RestOK, Waiting
<1>5. \A u \in Threads \ {t} : InSection(u)' <=> InSection(u)
  BY <1>2 DEF InSection
<1>6. CASE LogLock(t)
  <2>1. \/ t = "log" /\ todo[t] = Write /\ todo'[t] = Writing
        \/ t = "shell" /\ todo[t] = ShowLog /\ todo'[t] = Showing
    BY <1>1, <1>2, <1>6, CallOf, Positions, Tails DEF LogLock
  <2>2. ~InSection(t) /\ InSection(t)'
    BY <2>1, Differ DEF InSection
  <2>3. log_lock' = MutexLock(log_lock, t) /\ t \notin {log_lock.owner} \cup log_lock.waiting
    BY <1>6, <2>2 DEF LogLock, LocksOK
  <2>4. LocksOK'
    BY <1>1, <1>5, <2>2, <2>3, MutexLocked DEF LocksOK
  <2>5. LinesOK' /\ InOrder'
    <3>1. t = "log" \/ todo'["log"] = todo["log"]
      BY <1>2 DEF Threads
    <3> QED BY <1>1, <2>1, <3>1, LinesKept, Differ
  <2> QED BY <1>3, <1>4, <2>4, <2>5
<1>7. CASE LogUnlock(t)
  <2>1. \/ t = "log" /\ todo[t] = Written /\ todo'[t] = <<"receive">>
        \/ t = "shell" /\ todo[t] = Shown /\ todo'[t] = <<>>
    BY <1>1, <1>2, <1>7, CallOf, Positions, Tails DEF LogUnlock
  <2>2. InSection(t) /\ ~InSection(t)'
    BY <2>1, Differ DEF InSection
  <2>3. log_lock' \in MutexUnlock(log_lock, Priority) /\ t = log_lock.owner
    BY <1>1, <1>7, <2>2 DEF LogUnlock, LocksOK, Waiting
  <2>4. LocksOK'
    BY <1>1, <1>5, <2>2, <2>3, MutexUnlocked DEF LocksOK
  <2>5. LinesOK' /\ InOrder'
    <3>1. t = "log" \/ todo'["log"] = todo["log"]
      BY <1>2 DEF Threads
    <3> QED BY <1>1, <2>1, <3>1, LinesKept, Differ
  <2> QED BY <1>3, <1>4, <2>4, <2>5
<1>8. CASE t = "shell" /\ Prints
  <2>1. t = "shell" /\ todo[t] = Showing /\ todo'[t] = Shown /\ log_lock' = log_lock
    BY <1>1, <1>2, <1>8, CallOf, Positions, Tails DEF Prints, locks
  <2>2. InSection(t) /\ InSection(t)'
    BY <2>1 DEF InSection
  <2>3. LocksOK'
    BY <1>1, <1>5, <2>1, <2>2, LocksKept DEF LocksOK
  <2>4. LinesOK' /\ InOrder'
    <3>1. todo'["log"] = todo["log"]
      BY <1>2, <2>1 DEF Threads
    <3> QED BY <1>1, <3>1, LinesKept
  <2> QED BY <1>3, <1>4, <2>3, <2>4
<1> QED BY <1>6, <1>7, <1>8

-----------------------------------------------------------------------------
(* The steps that move a line.                                             *)

LEMMA NoRank == \A s : RankOf(NoLine, s) = 0
  BY DEF RankOf

LEMMA RankAt ==
  ASSUME InOrder, NEW s \in Senders
  PROVE  /\ Ranked(Rank(s), owed[s]) /\ owed[s] \in Nat
         /\ \A p \in Places : Rank(s)[p] = RankOf(At(s, p), s) /\ Rank(s)[p] \in Nat
  BY DEF InOrder, Ranked, Rank

(* The number a new line gets is in range, because a place is free for it. *)
LEMMA NewLine ==
  ASSUME InOrder, NEW s \in Senders, NEW p \in Places, Rank(s)[p] = 0
  PROVE  LET line == <<s, owed[s]>> IN
         /\ line \in Lines /\ line # NoLine /\ line[1] = s
         /\ \A u : RankOf(line, u) = IF u = s THEN owed[s] + 1 ELSE 0
<1>1. owed[s] \in 0..(QueueSize + 1)
  BY RankAt, RankedBound
<1>2. <<s, owed[s]>> # NoLine
  BY <1>1 DEF NoLine
<1> QED BY <1>1, <1>2 DEF Lines, RankOf

LEMMA Adds ==
  ASSUME InOrder, NEW s \in Senders, NEW place \in Places,
         \A p \in Places : p >= place => Rank(s)[p] = 0,
         owed' = [owed EXCEPT ![s] = @ + 1], DOMAIN owed = Senders,
         \A u \in Senders, p \in Places :
           RankOf(At(u, p), u)' = IF u = s /\ p = place THEN owed[s] + 1 ELSE Rank(u)[p]
  PROVE  InOrder'
<1>1. ASSUME NEW u \in Senders
      PROVE  \A p \in Places : Rank(u)'[p] = IF u = s /\ p = place THEN owed[s] + 1 ELSE Rank(u)[p]
  BY DEF Rank
<1>2. ASSUME NEW u \in Senders PROVE Rank(u)' \in [Places -> Nat]
  <2>1. \A p \in Places : Rank(u)'[p] \in Nat
    BY <1>1, RankAt
  <2> QED BY <2>1 DEF Rank
<1>3. Ranked(Rank(s)', owed'[s])
  <2>1. owed'[s] = owed[s] + 1
    OBVIOUS
  <2>2. \A p \in Places : Rank(s)'[p] = IF p = place THEN owed[s] + 1 ELSE Rank(s)[p]
    BY <1>1
  <2> QED BY <1>2, <2>1, <2>2, RankAt, RankedAdd
<1>4. ASSUME NEW u \in Senders \ {s} PROVE Ranked(Rank(u)', owed'[u])
  <2>1. Rank(u)' = Rank(u)
    <3>1. \A p \in Places : Rank(u)'[p] = Rank(u)[p]
      BY <1>1
    <3> QED BY <3>1 DEF Rank
  <2> QED BY <2>1, RankAt
<1> QED BY <1>3, <1>4 DEF InOrder

LEMMA AcceptLines ==
  ASSUME LinesOK, InOrder, NEW s \in Senders, Accept(s), blocked' = blocked,
         todo'["log"] = Awoken
  PROVE  LinesOK' /\ InOrder'
<1> DEFINE line == <<s, owed[s]>>
<1>1. Len(queue) \in Nat /\ Len(queue) <= QueueSize /\ owed' = [owed EXCEPT ![s] = @ + 1]
  BY DEF LinesOK, Accept
<1>2. owed' \in [Senders -> Nat] /\ DOMAIN owed = Senders
  BY <1>1 DEF LinesOK
<1>3. CASE Receptive /\ hand' = line /\ queue' = queue
  <2>1. /\ todo["log"] = <<>> /\ hand = NoLine /\ queue = <<>> /\ todo'["log"] = Write
        /\ \A t \in Threads : blocked[t] = NoLine
    BY <1>3, Differ DEF Receptive, LinesOK, Awoken
  <2>2. \A u \in Senders, p \in Places : At(u, p) = NoLine
    BY <2>1 DEF At
  <2>3. 0 \in Places /\ \A p \in Places : Rank(s)[p] = 0
    BY <2>2, RankAt, NoRank DEF Places
  <2>4. /\ line \in Lines /\ line # NoLine
        /\ \A u : RankOf(line, u) = IF u = s THEN owed[s] + 1 ELSE 0
    BY <2>3, NewLine
  <2> HIDE DEF line
  <2>5. LinesOK'
    BY <1>1, <1>2, <1>3, <2>1, <2>4 DEF LinesOK
  <2>6. ASSUME NEW u \in Senders, NEW p \in Places
        PROVE  RankOf(At(u, p), u)' = IF u = s /\ p = 0 THEN owed[s] + 1 ELSE Rank(u)[p]
    <3>1. At(u, p)' = IF p = 0 THEN line ELSE NoLine
      BY <1>3, <2>1 DEF At
    <3>2. Rank(u)[p] = 0
      BY <2>2, NoRank, RankAt
    <3> QED BY <2>4, <3>1, <3>2, NoRank DEF RankOf
  <2>7. \A p \in Places : p >= 0 => Rank(s)[p] = 0
    BY <2>3
  <2> QED BY <1>1, <1>2, <2>3, <2>5, <2>6, <2>7, Adds
<1>4. CASE ~Receptive /\ ~Full /\ queue' = Append(queue, line) /\ hand' = hand
  <2> DEFINE place == Len(queue) + 1
  <2>1. /\ todo["log"] # <<>> /\ todo'["log"] = todo["log"] /\ Len(queue) < QueueSize
        /\ \A t \in Threads : blocked[t] = NoLine
    BY <1>1, <1>4 DEF Receptive, LinesOK, Awoken, Full
  <2>2. place \in Places /\ place \in 1..QueueSize
    BY <1>1, <2>1 DEF Places
  <2>3. \A u \in Senders, p \in Places : p >= place => At(u, p) = NoLine
    BY <1>1, <2>1 DEF At, Places
  <2>4. \A p \in Places : p >= place => Rank(s)[p] = 0
    BY <2>3, RankAt, NoRank
  <2>5. /\ line \in Lines /\ line # NoLine
        /\ \A u : RankOf(line, u) = IF u = s THEN owed[s] + 1 ELSE 0
    BY <1>1, <2>2, <2>4, NewLine
  <2> HIDE DEF line
  <2>6. /\ queue' \in Seq(Lines) /\ Len(queue') = place /\ queue'[place] = line
        /\ \A p \in 1..Len(queue) : queue'[p] = queue[p]
    BY <1>4, <2>5, AppendProperties DEF LinesOK
  <2>7. LinesOK'
    BY <1>1, <1>2, <1>4, <2>1, <2>2, <2>6 DEF LinesOK
  <2>8. ASSUME NEW u \in Senders, NEW p \in Places
        PROVE  RankOf(At(u, p), u)' = IF u = s /\ p = place THEN owed[s] + 1 ELSE Rank(u)[p]
    <3>1. At(u, p)' = IF p = place THEN line ELSE At(u, p)
      BY <1>1, <1>4, <2>2, <2>6 DEF At, Places
    <3>2. Rank(u)[p] = RankOf(At(u, p), u) /\ (p = place => At(u, p) = NoLine)
      BY <2>2, <2>3, RankAt DEF Places
    <3> QED BY <2>5, <3>1, <3>2, NoRank DEF RankOf
  <2> QED BY <1>1, <1>2, <2>2, <2>4, <2>7, <2>8, Adds
<1> QED BY <1>3, <1>4 DEF Accept

LEMMA BlockLines ==
  ASSUME LinesOK, InOrder, NEW t \in Threads, t \in Senders, blocked[t] = NoLine, Block(t),
         todo'["log"] = Awoken
  PROVE  LinesOK' /\ InOrder'
<1> DEFINE line == <<t, owed[t]>>
           last == QueueSize + 1
<1>1. /\ Len(queue) = QueueSize /\ owed' = [owed EXCEPT ![t] = @ + 1]
      /\ blocked' = [blocked EXCEPT ![t] = line] /\ queue' = queue /\ hand' = hand
      /\ todo'["log"] = todo["log"]
  BY DEF LinesOK, Block, Full, Awoken
<1>2. owed' \in [Senders -> Nat] /\ DOMAIN owed = Senders
  BY <1>1 DEF LinesOK
<1>3. last \in Places /\ last # 0 /\ last \notin 1..Len(queue)
  BY <1>1 DEF Places
<1>4. Rank(t)[last] = 0
  BY <1>3, RankAt, NoRank DEF At
<1>5. \A p \in Places : p >= last => Rank(t)[p] = 0
  BY <1>4 DEF Places
<1>6. /\ line \in Lines /\ line # NoLine /\ line[1] = t
      /\ \A u : RankOf(line, u) = IF u = t THEN owed[t] + 1 ELSE 0
  BY <1>3, <1>4, NewLine
<1> HIDE DEF line
<1>7. LinesOK'
  BY <1>1, <1>2, <1>6 DEF LinesOK
<1>8. ASSUME NEW u \in Senders, NEW p \in Places
      PROVE  RankOf(At(u, p), u)' = IF u = t /\ p = last THEN owed[t] + 1 ELSE Rank(u)[p]
  <2>1. At(u, p)' = IF u = t /\ p = last THEN line ELSE At(u, p)
    BY <1>1, <1>3 DEF At, LinesOK
  <2> QED BY <1>6, <2>1, RankAt DEF RankOf
<1> QED BY <1>1, <1>2, <1>3, <1>5, <1>7, <1>8, Adds

LEMMA AdvancedLine ==
  ASSUME NEW line \in Lines \cup {NoLine}, NEW s \in Senders, RankOf(line, s) # 1
  PROVE  LET a == Advanced(line, s) IN
         /\ a \in Lines \cup {NoLine} /\ (a = NoLine <=> line = NoLine)
         /\ a[1] = line[1]
         /\ (line \in Lines => a \in Lines)
         /\ \A u : RankOf(a, u) = IF u = s /\ RankOf(line, s) > 0
                                     THEN RankOf(line, s) - 1 ELSE RankOf(line, u)
<1>1. CASE line # NoLine /\ line[1] = s
  <2>1. line \in Lines /\ line[2] \in 0..(QueueSize + 1) /\ line[2] # 0
    BY <1>1 DEF RankOf, Lines
  <2>2. Advanced(line, s) = <<s, line[2] - 1>>
    BY <1>1 DEF Advanced
  <2>3. line[2] - 1 \in 0..QueueSize
    BY <2>1
  <2>4. <<s, line[2] - 1>> # NoLine
    BY <2>3 DEF NoLine
  <2>5. <<s, line[2] - 1>> \in Lines
    BY <2>3 DEF Lines
  <2> QED BY <1>1, <2>1, <2>2, <2>3, <2>4, <2>5 DEF RankOf
<1>2. CASE ~(line # NoLine /\ line[1] = s)
  BY <1>2 DEF Advanced, RankOf
<1> QED BY <1>1, <1>2

LEMMA AppendsLines ==
  ASSUME LinesOK, InOrder, todo["log"] = Writing, todo'["log"] = Written, Appends
  PROVE  LinesOK' /\ InOrder' /\ hand[2] = 0
<1>0. hand \in Lines /\ hand # NoLine /\ hand[1] \in Senders /\ hand[2] \in Nat
  BY DEF LinesOK, Lines
<1> PICK s \in Senders : s = hand[1]
  BY <1>0
<1>1. hand \in Lines /\ hand # NoLine /\ hand[2] \in Nat /\ s = hand[1] /\ s \in Senders
  BY <1>0
<1>2. /\ hand' = NoLine /\ owed' = [owed EXCEPT ![s] = @ - 1]
      /\ queue' = [k \in DOMAIN queue |-> Advanced(queue[k], s)]
      /\ blocked' = [t \in Threads |-> Advanced(blocked[t], s)]
  BY <1>1 DEF Appends
<1>3. Len(queue) \in Nat /\ Len(queue) <= QueueSize /\ DOMAIN queue = 1..Len(queue)
      /\ \A k \in 1..Len(queue) : queue[k] \in Lines
  BY DEF LinesOK
<1>4. 0 \in Places /\ Rank(s)[0] = hand[2] + 1
  BY <1>1, RankAt DEF Places, At, RankOf
<1>5. /\ Rank(s)[0] = 1 /\ owed[s] >= 1
      /\ \A S \in [Places -> Nat] :
           (\A p \in Places : S[p] = IF Rank(s)[p] > 0 THEN Rank(s)[p] - 1 ELSE 0)
             => Ranked(S, owed[s] - 1)
  <2>1. Ranked(Rank(s), owed[s]) /\ Rank(s)[0] > 0
    BY <1>1, <1>4, RankAt
  <2> QED BY ONLY <2>1, RankedDrop
<1>6. hand[2] = 0
  BY <1>1, <1>4, <1>5
<1>7. \A p \in Places \ {0} : RankOf(At(s, p), s) # 1
  <2> SUFFICES ASSUME NEW p \in Places \ {0} PROVE Rank(s)[p] # 1
    BY <1>1, RankAt
  <2>1. 0 < p
    BY DEF Places
  <2> QED BY <1>1, <1>4, <1>5, <2>1, RankAt DEF Ranked
<1>8. ASSUME NEW k \in 1..Len(queue) PROVE RankOf(queue[k], s) # 1
  <2>1. k \in Places \ {0} /\ At(s, k) = queue[k]
    BY <1>3 DEF Places, At
  <2> QED BY <1>7, <2>1
<1>9. ASSUME NEW t \in Threads PROVE RankOf(blocked[t], s) # 1
  <2>1. CASE blocked[t] = NoLine
    BY <2>1, NoRank
  <2>2. CASE blocked[t] # NoLine /\ t = s
    <3>1. QueueSize + 1 \in Places \ {0} /\ At(s, QueueSize + 1) = blocked[s]
      BY <1>3, <2>2 DEF Places, At
    <3> QED BY <1>7, <2>2, <3>1
  <2>3. CASE blocked[t] # NoLine /\ t # s
    BY <2>3 DEF LinesOK, RankOf
  <2> QED BY <2>1, <2>2, <2>3
<1>10. /\ queue' \in Seq(Lines) /\ Len(queue') = Len(queue)
       /\ \A k \in 1..Len(queue) : queue'[k] = Advanced(queue[k], s)
  <2>1. \A k \in 1..Len(queue) : Advanced(queue[k], s) \in Lines
    BY <1>1, <1>3, <1>8, AdvancedLine
  <2> QED BY <1>2, <1>3, <2>1
<1>11. ASSUME NEW t \in Threads
       PROVE  /\ blocked'[t] \in Lines \cup {NoLine}
              /\ blocked'[t] = NoLine <=> blocked[t] = NoLine
              /\ blocked'[t][1] = blocked[t][1]
  <2>1. blocked[t] \in Lines \cup {NoLine} /\ blocked'[t] = Advanced(blocked[t], s)
    BY <1>2 DEF LinesOK
  <2> QED BY <1>1, <1>9, <2>1, AdvancedLine
<1>12. owed' \in [Senders -> Nat] /\ owed'[s] = owed[s] - 1
       /\ \A u \in Senders \ {s} : owed'[u] = owed[u]
  BY <1>1, <1>2, <1>5 DEF LinesOK
<1>13. LinesOK'
  <2>1. blocked' \in [Threads -> Lines \cup {NoLine}]
    BY <1>2, <1>11
  <2> QED BY <1>2, <1>3, <1>10, <1>11, <1>12, <2>1, Differ DEF LinesOK
<1>14. ASSUME NEW u \in Senders, NEW p \in Places
       PROVE  Rank(u)'[p] = IF u = s /\ Rank(s)[p] > 0 THEN Rank(s)[p] - 1
                            ELSE Rank(u)[p]
  <2>1. Rank(u)'[p] = RankOf(At(u, p)', u)
    BY DEF Rank, RankOf
  <2>2. CASE p = 0
    <3>1. Rank(u)'[p] = 0
      BY <1>2, <2>1, <2>2, NoRank DEF At
    <3>2. u # s => Rank(u)[p] = 0
      BY <2>2, RankAt DEF At, RankOf
    <3> QED BY <1>5, <2>2, <3>1, <3>2
  <2>3. CASE p # 0
    <3>1. At(u, p)' = IF At(u, p) = NoLine THEN NoLine ELSE Advanced(At(u, p), s)
      BY <1>2, <1>3, <1>10, <1>11, <2>3 DEF At, Advanced
    <3>2. At(u, p) \in Lines \cup {NoLine} /\ RankOf(At(u, p), s) # 1
      <4>1. CASE p \in 1..Len(queue)
        BY <1>3, <1>8, <2>3, <4>1 DEF At
      <4>2. CASE p \notin 1..Len(queue) /\ p = QueueSize + 1 /\ u \in Threads
        BY <1>9, <2>3, <4>2 DEF At, LinesOK
      <4>3. CASE p \notin 1..Len(queue) /\ ~(p = QueueSize + 1 /\ u \in Threads)
        BY <2>3, <4>3, NoRank DEF At
      <4> QED BY <4>1, <4>2, <4>3
    <3>3. At(u, p)' = Advanced(At(u, p), s)
      BY <3>1 DEF Advanced
    <3>4. RankOf(At(u, p)', u) = IF u = s /\ RankOf(At(u, p), s) > 0
                                   THEN RankOf(At(u, p), s) - 1 ELSE RankOf(At(u, p), u)
      BY <1>1, <3>2, <3>3, AdvancedLine
    <3> QED BY <2>1, <3>4, RankAt
  <2> QED BY <2>2, <2>3
<1>15. ASSUME NEW u \in Senders PROVE Ranked(Rank(u)', owed'[u])
  <2>1. Rank(u)' \in [Places -> Nat]
    <3>1. \A p \in Places : Rank(u)'[p] \in Nat
      BY <1>1, <1>14, RankAt
    <3> QED BY <3>1 DEF Rank
  <2>2. CASE u = s
    <3>1. ASSUME NEW p \in Places
          PROVE  Rank(s)'[p] = IF Rank(s)[p] > 0 THEN Rank(s)[p] - 1 ELSE 0
      BY <1>14, RankAt
    <3> QED BY <1>5, <1>12, <2>1, <2>2, <3>1
  <2>3. CASE u # s
    <3>1. Rank(u)' = Rank(u)
      <4>1. \A p \in Places : Rank(u)'[p] = Rank(u)[p]
        BY <1>14, <2>3
      <4> QED BY <4>1 DEF Rank
    <3> QED BY <1>12, <2>3, <3>1, RankAt
  <2> QED BY <2>2, <2>3
<1> QED BY <1>6, <1>13, <1>15 DEF InOrder

LEMMA ReceivesLines ==
  ASSUME LinesOK, InOrder, todo["log"] = <<"receive">>, DOMAIN todo = Threads, Receives
  PROVE  LinesOK' /\ InOrder'
<1>1. /\ hand = NoLine /\ owed' = owed
      /\ Len(queue) \in Nat /\ Len(queue) <= QueueSize /\ DOMAIN queue = 1..Len(queue)
  BY Differ DEF LinesOK, Receives
<1>2. CASE queue = <<>>
  <2>1. todo'["log"] = <<>> /\ UNCHANGED <<queue, blocked, hand>>
    BY <1>2, Tails DEF Receives, Returns, Threads
  <2>2. LinesOK'
    BY <1>1, <1>2, <2>1, Differ DEF LinesOK
  <2>3. \A s \in Senders : Rank(s)' = Rank(s) /\ owed'[s] = owed[s]
    BY <1>1, <2>1 DEF Rank, At, RankOf
  <2> QED BY <2>2, <2>3 DEF InOrder
<1>3. CASE queue # <<>>
  <2> DEFINE last == QueueSize + 1
  <2>0. Len(queue) \in 1..QueueSize /\ queue[1] \in Lines
    <3>1. queue \in Seq(Lines)
      BY DEF LinesOK
    <3>2. Len(queue) \in 1..QueueSize
      BY <1>1, <1>3, <3>1, EmptySeq
    <3> QED BY <3>1, <3>2, ElementOfSeq
  <2> PICK e \in 1..QueueSize : e = Len(queue)
    BY <2>0
  <2>1. todo'["log"] = Write /\ hand' = queue[1] /\ e \in 1..QueueSize /\ e = Len(queue)
    BY <1>3 DEF Receives, Threads
  <2>2. queue[1] \in Lines /\ queue[1] # NoLine
    BY <2>0 DEF Lines, NoLine
  <2>3. /\ Tail(queue) \in Seq(Lines) /\ Len(Tail(queue)) = e - 1
        /\ \A p \in 1..(e - 1) : Tail(queue)[p] = queue[p + 1]
    BY <1>3, HeadTailProperties DEF LinesOK
  <2>4. last \in Places /\ last # 0 /\ last \notin 1..e /\ e \in Places /\ e # 0
    BY <2>1 DEF Places
  <2> SUFFICES ASSUME LinesOK',
                      NEW u \in Senders,
                      \A p \in Places : p < e => At(u, p)' = At(u, p + 1),
                      \A p \in Places : e < p /\ p <= QueueSize => At(u, p)' = NoLine,
                      \/ RankOf(At(u, e)', u) = 0 /\ At(u, last)' = At(u, last)
                      \/ At(u, e)' = At(u, last) /\ At(u, last)' = NoLine
               PROVE  Ranked(Rank(u)', owed[u])
    <3>1. CASE queue' = Tail(queue) /\ blocked' = blocked /\ {t \in Threads : blocked[t] # NoLine} = {}
      <4>1. LinesOK'
        BY <1>1, <2>1, <2>2, <2>3, <3>1, Differ DEF LinesOK
      <4>2. ASSUME NEW u \in Senders
            PROVE  /\ \A p \in Places : p < e => At(u, p)' = At(u, p + 1)
                   /\ \A p \in Places : e < p /\ p <= QueueSize => At(u, p)' = NoLine
                   /\ At(u, e)' = NoLine /\ At(u, last)' = At(u, last)
        BY <1>1, <2>1, <2>3, <2>4, <3>1 DEF At, Places
      <4> QED BY <1>1, <4>1, <4>2, NoRank DEF InOrder
    <3>2. ASSUME NEW t \in Threads, blocked[t] # NoLine,
                 queue' = Append(Tail(queue), blocked[t]), blocked' = [blocked EXCEPT ![t] = NoLine]
          PROVE  LinesOK' /\ InOrder'
      <4>1. t \in Senders /\ blocked[t][1] = t /\ e = QueueSize /\ blocked[t] \in Lines
        BY <3>2 DEF LinesOK
      <4>2. /\ queue' \in Seq(Lines) /\ Len(queue') = e /\ queue'[e] = blocked[t]
            /\ \A p \in 1..(e - 1) : queue'[p] = queue[p + 1]
        BY <2>1, <2>3, <3>2, <4>1, AppendProperties
      <4>3. LinesOK'
        BY <1>1, <2>1, <2>2, <3>2, <4>1, <4>2, Differ DEF LinesOK
      <4>4. ASSUME NEW u \in Senders
            PROVE  /\ \A p \in Places : p < e => At(u, p)' = At(u, p + 1)
                   /\ \A p \in Places : e < p /\ p <= QueueSize => At(u, p)' = NoLine
                   /\ At(u, e)' = blocked[t]
                   /\ u # t => At(u, last)' = At(u, last)
                   /\ u = t => At(u, last) = blocked[t] /\ At(u, last)' = NoLine
        BY <1>1, <2>1, <2>4, <3>2, <4>1, <4>2 DEF At, Places, LinesOK
      <4>5. ASSUME NEW u \in Senders
            PROVE  \/ RankOf(At(u, e)', u) = 0 /\ At(u, last)' = At(u, last)
                   \/ At(u, e)' = At(u, last) /\ At(u, last)' = NoLine
        <5>1. u # t => RankOf(blocked[t], u) = 0
          BY <4>1 DEF RankOf
        <5> QED BY <4>4, <5>1
      <4> QED BY <1>1, <4>3, <4>4, <4>5 DEF InOrder
    <3> QED BY <1>3, <3>1, <3>2 DEF Receives
  <2> HIDE DEF last
  <2>5. \A p \in Places : Rank(u)'[p] = RankOf(At(u, p)', u)
    BY DEF Rank, RankOf
  <2>6. Rank(u)' \in [Places -> Nat]
    <3>1. ASSUME NEW p \in Places PROVE At(u, p)' \in Lines \cup {NoLine}
      BY DEF At, LinesOK
    <3>2. \A l \in Lines \cup {NoLine} : RankOf(l, u) \in Nat
      BY DEF RankOf, Lines
    <3> QED BY <2>5, <3>1, <3>2 DEF Rank
  <2>7. 0 \in Places /\ Rank(u)[0] = 0
    BY <1>1, RankAt, NoRank DEF At, Places
  <2>8. \A p \in Places : p < e => p + 1 \in Places /\ Rank(u)'[p] = Rank(u)[p + 1]
    <3>1. \A p \in Places : p < e => p + 1 \in Places
      BY <2>1 DEF Places
    <3> QED BY <2>5, <3>1, RankAt
  <2>9. \A p \in Places : e < p /\ p <= QueueSize => Rank(u)[p] = 0 /\ Rank(u)'[p] = 0
    <3>1. \A p \in Places : e < p /\ p <= QueueSize => At(u, p) = NoLine
      BY <2>1 DEF At, Places
    <3> QED BY <2>5, <3>1, RankAt, NoRank
  <2>10. \/ Rank(u)'[e] = 0 /\ Rank(u)'[last] = Rank(u)[last]
         \/ Rank(u)'[e] = Rank(u)[last] /\ Rank(u)'[last] = 0
    BY <2>4, <2>5, RankAt, NoRank
  <2> QED BY <2>1, <2>6, <2>7, <2>8, <2>9, <2>10, RankAt, RankedShift DEF last
<1> QED BY <1>2, <1>3

LEMMA SendLogStep ==
  ASSUME LogInv, NEW t \in Threads, t \in Senders, SendLog(t) PROVE LogInv'
<1> USE DEF LogInv
<1>1. todo[t] # <<>> /\ Head(todo[t]) = "log" /\ ~Waiting(t)
  BY CallOf DEF SendLog
<1>2. t # "log" /\ ~InSection(t) /\ Tail(todo[t]) \in Seq(Plain)
  BY <1>1, Positions DEF Plain
<1>3. /\ todo' = [todo EXCEPT ![t] = Tail(@), !["log"] = Awoken]
      /\ UNCHANGED <<ht_lock, log_lock, resting>>
  BY DEF SendLog, locks
<1>4. /\ todo'[t] = Tail(todo[t]) /\ todo'["log"] = Awoken
      /\ \A u \in Threads \ {t, "log"} : todo'[u] = todo[u]
      /\ todo' = [u \in Threads |-> todo'[u]] /\ DOMAIN todo' = Threads
  BY <1>2, <1>3 DEF CallsOK, Threads
<1>5. Awoken = todo["log"] \/ (todo["log"] = <<>> /\ Awoken = Write)
  BY DEF Awoken, Receptive
<1>6. CallsOK' /\ SuffixOK'
  <2>1. Scripts["log"] = {Write}
    BY DEF Scripts
  <2> QED BY <1>1, <1>4, <1>5, <2>1, CallsKept DEF Moves
<1>7. RestOK'
  <2>1. t \notin resting /\ "log" \notin resting
    BY <1>1, Positions DEF RestOK, Waiting, Plain
  <2> QED BY <1>3, <1>4, <2>1, RestKept DEF RestOK
<1>8. LocksOK'
  <2>1. ~InSection(t)'
    BY <1>2, <1>4, Differ DEF InSection
  <2>2. InSection("log")' <=> InSection("log")
    BY <1>4, <1>5, Differ DEF InSection
  <2>3. \A u \in Threads \ {t, "log"} : InSection(u)' <=> InSection(u)
    BY <1>4 DEF InSection
  <2> QED BY <1>2, <1>3, <2>1, <2>2, <2>3, LocksKept DEF LocksOK
<1>9. LinesOK' /\ InOrder'
  <2>1. blocked[t] = NoLine
    BY <1>1 DEF Waiting
  <2> QED BY <1>4, <2>1, AcceptLines, BlockLines DEF SendLog
<1> QED BY <1>6, <1>7, <1>8, <1>9

LEMMA ButtonStep == ASSUME LogInv, Button PROVE LogInv'
<1> USE DEF LogInv
<1>1. /\ todo' = [todo EXCEPT !["log"] = Awoken] /\ Buttons \in Senders /\ Accept(Buttons)
      /\ UNCHANGED <<ht_lock, log_lock, resting, blocked>>
  BY DEF Button, locks, Senders
<1>2. /\ todo'["log"] = Awoken
      /\ \A u \in Threads \ {"log"} : todo'[u] = todo[u]
      /\ todo' = [u \in Threads |-> todo'[u]] /\ DOMAIN todo' = Threads
  BY <1>1 DEF CallsOK, Threads
<1>3. Awoken = todo["log"] \/ (todo["log"] = <<>> /\ Awoken = Write)
  BY DEF Awoken, Receptive
<1>4. CallsOK' /\ SuffixOK'
  <2>1. Scripts["log"] = {Write}
    BY DEF Scripts
  <2> QED BY <1>2, <1>3, <2>1, CallsKept DEF Moves
<1>5. RestOK'
  <2>1. "log" \notin resting
    BY Positions DEF RestOK, Plain
  <2> QED BY <1>1, <1>2, <2>1, RestKept DEF RestOK
<1>6. LocksOK'
  <2>1. \A u \in Threads : InSection(u)' <=> InSection(u)
    BY <1>2, <1>3, Differ DEF InSection
  <2> QED BY <1>1, <2>1, LocksKept DEF LocksOK
<1>7. LinesOK' /\ InOrder'
  BY <1>1, <1>2, AcceptLines
<1> QED BY <1>4, <1>5, <1>6, <1>7

(* log_thread writes the line in its hand, with log_lock in its hold.      *)
LEMMA AppendsStep ==
  ASSUME LogInv, Appends
  PROVE  LogInv' /\ hand[2] = 0 /\ log_lock.owner = "log"
<1> USE DEF LogInv
<1>1. /\ todo["log"] = Writing /\ ~Waiting("log") /\ Returns("log")
      /\ UNCHANGED <<ht_lock, log_lock, resting>>
  BY CallOf, Positions DEF Appends, locks, Threads
<1>2. /\ todo'["log"] = Written
      /\ \A u \in Threads \ {"log"} : todo'[u] = todo[u]
      /\ todo' = [u \in Threads |-> todo'[u]] /\ DOMAIN todo' = Threads
  BY <1>1, Tails DEF Returns, CallsOK, Threads
<1>3. CallsOK' /\ SuffixOK'
  BY <1>1, <1>2, CallsKept, Differ, Tails DEF Moves
<1>4. RestOK'
  <2>1. "log" \notin resting
    BY Positions DEF RestOK, Plain
  <2> QED BY <1>1, <1>2, <2>1, RestKept DEF RestOK
<1>5. LocksOK'
  <2>1. \A u \in Threads : InSection(u)' <=> InSection(u)
    BY <1>1, <1>2 DEF InSection
  <2> QED BY <1>1, <2>1, LocksKept DEF LocksOK
<1>6. LinesOK' /\ InOrder' /\ hand[2] = 0
  BY <1>1, <1>2, AppendsLines
<1>7. log_lock.owner = "log"
  BY <1>1 DEF LocksOK, InSection, Waiting, Threads
<1> QED BY <1>3, <1>4, <1>5, <1>6, <1>7

LEMMA ReceivesStep ==
  ASSUME LogInv, Receives
  PROVE  LogInv' /\ hand = NoLine
<1> USE DEF LogInv
<1>1. /\ todo["log"] = <<"receive">> /\ DOMAIN todo = Threads
      /\ UNCHANGED <<ht_lock, log_lock, resting>>
  BY CallOf, Positions DEF Receives, locks, Threads, CallsOK
<1>2. /\ todo'["log"] \in {<<>>, Write}
      /\ \A u \in Threads \ {"log"} : todo'[u] = todo[u]
      /\ todo' = [u \in Threads |-> todo'[u]] /\ DOMAIN todo' = Threads
  BY <1>1, Tails DEF Receives, Returns, CallsOK, Threads
<1>3. CallsOK' /\ SuffixOK'
  <2>1. Scripts["log"] = {Write} /\ <<>> = Tail(todo["log"]) /\ todo["log"] # <<>>
    BY <1>1, Tails, Differ DEF Scripts
  <2> QED BY <1>2, <2>1, CallsKept DEF Moves
<1>4. RestOK'
  <2>1. "log" \notin resting
    BY Positions DEF RestOK, Plain
  <2> QED BY <1>1, <1>2, <2>1, RestKept DEF RestOK
<1>5. LocksOK'
  <2>1. \A u \in Threads : InSection(u)' <=> InSection(u)
    BY <1>1, <1>2, Differ DEF InSection
  <2> QED BY <1>1, <2>1, LocksKept DEF LocksOK
<1>6. LinesOK' /\ InOrder'
  BY <1>1, ReceivesLines
<1>7. hand = NoLine
  BY <1>1, Differ DEF LinesOK
<1> QED BY <1>3, <1>4, <1>5, <1>6, <1>7

-----------------------------------------------------------------------------
LEMMA LogInit == Init => LogInv
<1> SUFFICES ASSUME Init PROVE LogInv
  OBVIOUS
<1> USE DEF Init
<1>1. \A t \in Threads : todo[t] = <<>>
  OBVIOUS
<1>2. CallsOK
  <2>1. <<>> \in Seq(Plain) /\ <<>> \in Seq(Calling)
    BY EmptySeq
  <2> QED BY <1>1, <2>1 DEF CallsOK, Threads
<1>3. SuffixOK
  <2> SUFFICES ASSUME NEW t \in Threads PROVE <<>> \in Suffixes[t]
    BY <1>1 DEF SuffixOK
  <2>1. PICK s \in Scripts[t] : s \in Seq(Calling)
    <3>1. /\ ShowLog \in Scripts["shell"] /\ Section \in Scripts["gcoap"]
          /\ Write \in Scripts["log"] /\ Section \in Scripts["wdt"]
      BY DEF Scripts, Commands, Handlers
    <3>2. \E s : s \in Scripts[t]
      <4>1. t \in {"shell", "gcoap", "log", "wdt"}
        BY DEF Threads
      <4> QED BY <3>1, <4>1
    <3> QED BY <3>2, AllScripts
  <2>2. Len(s) \in Nat /\ Len(s) + 1 \in 1..(Len(s) + 1)
    BY <2>1
  <2>3. SubSeq(s, Len(s) + 1, Len(s)) = <<>>
    BY <2>2, SubSeqEmpty
  <2> QED BY <2>2, <2>3, SuffixesAre
<1>4. RestOK
  BY DEF RestOK
<1>5. LocksOK
  <2>1. \A t \in Threads : ~InSection(t)
    BY <1>1, Differ DEF InSection
  <2> QED BY <2>1 DEF LocksOK, FreeMutex, Mutexes, NoThread, Threads
<1>6. LinesOK
  BY <1>1, EmptySeq, Differ DEF LinesOK, Threads
<1>7. InOrder
  <2> SUFFICES ASSUME NEW s \in Senders PROVE Ranked(Rank(s), 0)
    BY DEF InOrder
  <2>1. \A p \in Places : At(s, p) = NoLine
    BY DEF At
  <2>2. Rank(s) = [p \in Places |-> 0]
    BY <2>1, NoRank DEF Rank
  <2> QED BY <2>2 DEF Ranked
<1> QED BY <1>2, <1>3, <1>4, <1>5, <1>6, <1>7 DEF LogInv

LEMMA LogStep == LogInv /\ [Next]_vars => LogInv'
<1> SUFFICES ASSUME LogInv, [Next]_vars PROVE LogInv'
  OBVIOUS
<1>1. ASSUME NEW t \in Threads, Begin(t) \/ Step(t) \/ Wakes(t) PROVE LogInv'
  BY <1>1, BeginStep, WakesStep, HtStep, LogLockStep, RestsStep, SendLogStep, AppendsStep,
     ReceivesStep DEF Step
<1>2. CASE UNCHANGED vars
  <2>1. UNCHANGED <<todo, ht_lock, log_lock, resting>> /\ UNCHANGED lines
    BY <1>2 DEF vars, lines
  <2>2. CallsOK' /\ SuffixOK' /\ RestOK' /\ LocksOK'
    BY <2>1 DEF LogInv, CallsOK, SuffixOK, RestOK, LocksOK, InSection
  <2> QED BY <2>1, <2>2, LinesKept DEF LogInv
<1> QED BY <1>1, <1>2, ButtonStep DEF Next

LEMMA LogInvariant == Spec => []LogInv
  BY LogInit, LogStep, PTL DEF Spec

(* The variables keep their types: the queue never has more lines than     *)
(* places, and no sender more than QueueSize + 2 lines on their way.       *)
THEOREM LogTypeCorrect == Spec => []TypeOK
<1>1. LogInv => TypeOK
  <2> SUFFICES ASSUME LogInv PROVE TypeOK
    OBVIOUS
  <2>1. \A s \in Senders : owed[s] \in 0..(QueueSize + 2)
    BY RankAt, RankedBound DEF LogInv
  <2>2. owed \in [Senders -> 0..(QueueSize + 2)]
    BY <2>1 DEF LogInv, LinesOK
  <2> QED BY <2>2 DEF LogInv, SuffixOK, RestOK, LocksOK, LinesOK, TypeOK
<1> QED BY <1>1, LogInvariant, PTL

(* The only step that lets go of a line is the one that writes it.         *)
LEMMA OnlyAppends == LogInv /\ [Next]_vars /\ LogGrows => Appends
<1> SUFFICES ASSUME LogInv, [Next]_vars, LogGrows, ~Appends PROVE FALSE
  OBVIOUS
<1>1. hand # NoLine /\ hand' = NoLine
  BY DEF LogGrows
<1>2. ASSUME NEW s \in Senders, Accept(s) PROVE FALSE
  BY <1>1, <1>2, Differ DEF Accept, Receptive, LogInv, LinesOK
<1>3. ASSUME NEW t \in Threads, Begin(t) \/ Step(t) \/ Wakes(t) PROVE FALSE
  <2>1. CASE Receives
    BY <1>1, <2>1, ReceivesStep
  <2>2. CASE t \in Senders /\ SendLog(t)
    BY <1>1, <1>2, <2>2 DEF SendLog, Block
  <2> QED BY <1>1, <1>3, <2>1, <2>2
          DEF Begin, Step, Wakes, HtLock, HtUnlock, LogLock, LogUnlock, Prints, Rests, lines
<1>4. CASE UNCHANGED vars
  BY <1>1, <1>4 DEF vars
<1>5. CASE Button
  BY <1>2, <1>5 DEF Button, Senders
<1> QED BY <1>3, <1>4, <1>5 DEF Next

(* Each line that the queue took is written once, and in its turn.         *)
THEOREM WrittenInTurn == Spec => EachLineOnce
<1>1. LogInv /\ [Next]_vars => [LogGrows => hand[2] = 0]_vars
  BY OnlyAppends, AppendsStep
<1> QED BY <1>1, LogInvariant, PTL DEF Spec, EachLineOnce

(* log_thread does not write while show_log prints: the one that does has  *)
(* log_lock, and the other waits for it.                                   *)
THEOREM StillWhilePrinted == Spec => PrintsWhole
<1>1. LogInv /\ [Next]_vars => [Printing => ~LogGrows]_vars
  <2> SUFFICES ASSUME LogInv, [Next]_vars, Printing, LogGrows PROVE FALSE
    OBVIOUS
  <2>1. log_lock.owner = "log"
    BY OnlyAppends, AppendsStep
  <2>2. "shell" \in Threads /\ todo["shell"] # <<>> /\ Head(todo["shell"]) = "print"
        /\ ~Waiting("shell")
    BY DEF Printing, LogInv, CallsOK, Threads
  <2>3. todo["shell"] = Showing
    BY <2>2, Positions DEF LogInv
  <2>4. log_lock.owner = "shell"
    BY <2>2, <2>3 DEF LogInv, LocksOK, InSection, Waiting
  <2> QED BY <2>1, <2>4
<1> QED BY <1>1, LogInvariant, PTL DEF Spec, PrintsWhole

=============================================================================
