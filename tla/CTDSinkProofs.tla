----------------------------- MODULE CTDSinkProofs ----------------------------
(* Theorems about CTDSink, for a sink of any size, any readers and dwells,   *)
(* and any time.                                                             *)
EXTENDS CTDSink, FiniteSetTheorems, WellFoundedInduction, TLAPS

-----------------------------------------------------------------------------
(* The first and the last of a set of times.                               *)

LEMMA LeastExists ==
  ASSUME NEW S \in SUBSET Nat, S # {}
  PROVE  \E x \in S : \A y \in S : x <= y
<1> DEFINE R == OpToRel(<, Nat)
<1>1. \E x \in S : \A y \in S : ~ (<<y, x>> \in R)
  <2>1. IsWellFoundedOn(R, Nat)
    BY NatLessThanWellFounded
  <2> HIDE DEF R
  <2>2. QED  BY <2>1, WFMin
<1>2. PICK x \in S : \A y \in S : ~ (<<y, x>> \in R)
  BY <1>1
<1>3. \A y \in S : ~ (y < x)
  BY <1>2 DEF OpToRel
<1>4. QED  BY <1>3

LEMMA MinOfTimes ==
  ASSUME NEW S \in SUBSET Nat, S # {}
  PROVE  Min(S) \in S /\ \A y \in S : Min(S) <= y
BY LeastExists DEF Min

LEMMA MaxOfTimes ==
  ASSUME NEW S \in SUBSET Time, S # {}
  PROVE  Max(S) \in S /\ \A y \in S : y <= Max(S)
<1> DEFINE T == {MaxClock - x : x \in S}
<1>1. T \in SUBSET Nat /\ T # {}
  <2>1. \A x \in S : MaxClock - x \in Nat /\ MaxClock - x \in T
    BY SizeAssumption DEF Time
  <2>2. QED  BY <2>1
<1>2. PICK m \in T : \A y \in T : m <= y
  BY <1>1, LeastExists
<1>3. PICK x \in S : m = MaxClock - x
  BY <1>2
<1>4. \A y \in S : MaxClock - x <= MaxClock - y
  BY <1>2, <1>3
<1>5. \A y \in S : x >= y
  BY <1>4, SizeAssumption DEF Time
<1>6. QED  BY <1>5, SizeAssumption DEF Max, Time

-----------------------------------------------------------------------------
(* The sink.                                                               *)

SinkType ==
  /\ clock \in Time /\ wake \in Nat
  /\ nodes \in SUBSET Time /\ IsFiniteSet(nodes)
  /\ Cardinality(nodes) <= SINKLIMIT
  /\ taken \in SUBSET Time
  /\ r \in Time \cup {NULL}

\* A reading is taken after the sleep that follows the one before, and so is later
\* than all that were stored.
InOrder ==
  /\ \A x \in taken : x < wake
  /\ queryPC \in {"query", "add"} => wake <= clock
  /\ queryPC = "add" /\ r # NULL => wake <= r /\ r <= clock

SinkInv == SinkType /\ InOrder /\ KeepsNewest

LEMMA SinkInvInit == Init => SinkInv
<1> SUFFICES ASSUME Init
             PROVE  SinkInv
  OBVIOUS
<1>1. SinkType
  BY FS_EmptySet, SizeAssumption DEF Init, SinkType, Time
<1>2. InOrder /\ KeepsNewest
  BY DEF Init, InOrder, KeepsNewest
<1>3. QED  BY <1>1, <1>2 DEF SinkInv

\* addNode keeps the newest: what it discards is older than all others, and what it
\* adds is newer.
LEMMA AddNodeKeepsNewest ==
  ASSUME SinkInv, NEW t \in Time, \A x \in taken : x < t, AddNode(t)
  PROVE  /\ nodes' \in SUBSET Time /\ IsFiniteSet(nodes')
         /\ Cardinality(nodes') <= SINKLIMIT
         /\ KeepsNewest'
<1> DEFINE rest == IF Cardinality(nodes) >= SINKLIMIT THEN nodes \ {Min(nodes)} ELSE nodes
<1>1. nodes' = rest \cup {t} /\ taken' = taken \cup {t}
  BY DEF AddNode
<1>2. /\ nodes \in SUBSET Time /\ IsFiniteSet(nodes) /\ nodes \subseteq taken
      /\ taken \in SUBSET Time
      /\ Cardinality(nodes) \in Nat /\ Cardinality(nodes) <= SINKLIMIT
      /\ SINKLIMIT \in Nat \ {0}
  BY FS_CardinalityType, SizeAssumption DEF SinkInv, SinkType, KeepsNewest
<1>3. /\ rest \subseteq nodes /\ IsFiniteSet(rest)
      /\ \A old \in taken \ rest : \A n \in rest : old < n
      /\ \/ Cardinality(rest) = SINKLIMIT - 1
         \/ rest = taken /\ Cardinality(rest) < SINKLIMIT
  <2>1. CASE Cardinality(nodes) >= SINKLIMIT
    <3>1. nodes # {} /\ nodes \in SUBSET Nat
      BY <1>2, <2>1, FS_EmptySet DEF Time
    <3>2. Min(nodes) \in nodes /\ \A n \in nodes : Min(nodes) <= n
      BY <3>1, MinOfTimes
    <3>3. /\ rest = nodes \ {Min(nodes)} /\ IsFiniteSet(rest)
          /\ Cardinality(rest) = Cardinality(nodes) - 1
      BY <1>2, <2>1, <3>2, FS_RemoveElement
    <3>4. \A n \in rest : Min(nodes) < n
      <4>1. \A n \in nodes : n \in Nat
        BY <3>1
      <4>2. \A n \in nodes \ {Min(nodes)} : Min(nodes) < n
        BY <3>2, <4>1
      <4> HIDE DEF rest
      <4>3. QED  BY <3>3, <4>2
    <3>5. \A old \in taken \ nodes : \A n \in nodes : old < n
      BY DEF SinkInv, KeepsNewest
    <3>6. Cardinality(rest) = SINKLIMIT - 1
      BY <1>2, <2>1, <3>3
    <3>7. QED  BY <3>3, <3>4, <3>5, <3>6
  <2>2. CASE ~(Cardinality(nodes) >= SINKLIMIT)
    <3>1. rest = nodes /\ Cardinality(nodes) < SINKLIMIT
      BY <1>2, <2>2
    <3>2. taken = nodes
      BY <1>2, <3>1 DEF SinkInv, KeepsNewest
    <3>3. QED  BY <1>2, <3>1, <3>2
  <2>3. QED  BY <2>1, <2>2
<1> HIDE DEF rest
<1>4. t \notin rest /\ rest \in SUBSET Time
  BY <1>2, <1>3 DEF Time
<1>5. IsFiniteSet(nodes') /\ Cardinality(nodes') = Cardinality(rest) + 1
  BY <1>1, <1>3, <1>4, FS_AddElement
<1>6. Cardinality(rest) \in Nat
  BY <1>3, FS_CardinalityType
<1>7. nodes' \in SUBSET Time /\ Cardinality(nodes') <= SINKLIMIT
  BY <1>1, <1>2, <1>3, <1>4, <1>5, <1>6
<1>8. nodes' \subseteq taken'
  BY <1>1, <1>2, <1>3
<1>9. \A old \in taken' \ nodes' : \A n \in nodes' : old < n
  BY <1>1, <1>3
<1>10. taken' # nodes' => Cardinality(nodes') = SINKLIMIT
  BY <1>1, <1>2, <1>3, <1>5
<1>11. QED  BY <1>5, <1>7, <1>8, <1>9, <1>10 DEF KeepsNewest

LEMMA SinkStore == SinkInv /\ Store => SinkInv'
<1> SUFFICES ASSUME SinkInv, Store
             PROVE  SinkInv'
  OBVIOUS
<1>1. /\ queryPC = "add" /\ queryPC' = "sleep" /\ wake' = clock + 1
      /\ UNCHANGED <<clock, r>>
  BY DEF Store
<1>2. clock \in Nat /\ wake \in Nat /\ r \in Time \cup {NULL} /\ taken \in SUBSET Time
  BY DEF SinkInv, SinkType, Time
<1>3. CASE r = NULL
  <2>1. UNCHANGED <<nodes, taken>>
    BY <1>3 DEF Store
  <2>2. SinkType' /\ KeepsNewest'
    BY <1>1, <1>2, <2>1 DEF SinkInv, SinkType, KeepsNewest
  <2>3. \A x \in taken : x < clock + 1
    BY <1>1, <1>2, <1>3 DEF SinkInv, InOrder, Time
  <2>4. QED  BY <1>1, <2>1, <2>2, <2>3 DEF SinkInv, InOrder
<1>4. CASE r # NULL
  <2>1. AddNode(r) /\ r \in Time /\ r <= clock /\ wake <= r
    BY <1>1, <1>2, <1>4 DEF Store, SinkInv, InOrder
  <2>2. \A x \in taken : x < r
    BY <1>2, <2>1 DEF SinkInv, InOrder, Time
  <2>3. /\ nodes' \in SUBSET Time /\ IsFiniteSet(nodes')
        /\ Cardinality(nodes') <= SINKLIMIT /\ KeepsNewest'
    BY <2>1, <2>2, AddNodeKeepsNewest
  <2>4. taken' = taken \cup {r}
    BY <2>1 DEF AddNode
  <2>5. SinkType'
    BY <1>1, <1>2, <2>1, <2>3, <2>4 DEF SinkInv, SinkType
  <2>6. \A x \in taken' : x < clock + 1
    BY <1>2, <2>1, <2>2, <2>4 DEF Time
  <2>7. QED  BY <1>1, <2>3, <2>5, <2>6 DEF SinkInv, InOrder
<1>5. QED  BY <1>3, <1>4

LEMMA SinkInvStep == SinkInv /\ [Next]_vars => SinkInv'
<1> SUFFICES ASSUME SinkInv, [Next]_vars
             PROVE  SinkInv'
  OBVIOUS
<1>0. SinkType /\ InOrder /\ KeepsNewest
  BY DEF SinkInv
<1>1. CASE Tick
  <2>1. clock < MaxClock /\ clock' = clock + 1 /\ UNCHANGED sink
    BY <1>1 DEF Tick
  <2>2. SinkType' /\ InOrder'
    BY <1>0, <2>1, SizeAssumption DEF SinkType, InOrder, sink, Time, NULL
  <2>3. QED  BY <1>0, <2>1, <2>2 DEF SinkInv, KeepsNewest, sink
<1>2. CASE Query
  <2>1. /\ queryPC = "query" /\ r' \in {clock, NULL} /\ queryPC' = "add"
        /\ UNCHANGED <<clock, nodes, wake, taken>>
    BY <1>2 DEF Query
  <2>2. SinkType' /\ InOrder'
    BY <1>0, <2>1 DEF SinkType, InOrder, Time
  <2>3. QED  BY <1>0, <2>1, <2>2 DEF SinkInv, KeepsNewest
<1>3. CASE WakeUp
  <2>1. /\ clock >= wake /\ queryPC' = "query"
        /\ UNCHANGED <<clock, nodes, r, wake, taken>>
    BY <1>3 DEF WakeUp
  <2>2. SinkType' /\ InOrder'
    BY <1>0, <2>1 DEF SinkType, InOrder, Time
  <2>3. QED  BY <1>0, <2>1, <2>2 DEF SinkInv, KeepsNewest
<1>4. CASE UNCHANGED <<clock, sink>>
  BY <1>0, <1>4 DEF SinkInv, SinkType, InOrder, KeepsNewest, sink
<1>5. ASSUME NEW t \in Reader, Ask(t) \/ Log(t) \/ Return(t)
      PROVE  UNCHANGED <<clock, sink>>
  BY <1>5 DEF Ask, Log, Return
<1>6. QED
  BY <1>1, <1>2, <1>3, <1>4, <1>5, SinkStore DEF Next, vars

\* The sink holds the newest of all readings that were taken, as many as fit: for any
\* size and over any time.
THEOREM Newest == Spec => []KeepsNewest
<1>1. SinkInv => KeepsNewest
  BY DEF SinkInv
<1>2. QED  BY <1>1, SinkInvInit, SinkInvStep, PTL DEF Spec

-----------------------------------------------------------------------------
(* What a measurement gets.                                                *)

AnswerType ==
  /\ answer \in [Reader -> Time \cup {NULL}] /\ desired \in [Reader -> Int]
  /\ pc \in [Reader -> {"idle", "log", "return"}]

LEMMA AdjacentAnswer ==
  ASSUME SinkType, NEW time \in Int
  PROVE  LET a == GetClosestCTDReading(time) IN
           /\ a \in Time \cup {NULL}
           /\ nodes # {} => a \in nodes
           /\ ~ \E n \in nodes : time < n /\ n < a
           /\ a \in nodes => ~ \E n \in nodes : a < n /\ n < time
<1> DEFINE notBefore == {n \in nodes : n >= time}
           after == {n \in nodes : n > time}
<1>1. /\ nodes \in SUBSET Time
      /\ notBefore \in SUBSET Nat /\ after \in SUBSET Nat
  <2>1. nodes \in SUBSET Time /\ \A n \in nodes : n \in Nat
    BY DEF SinkType, Time
  <2>2. QED  BY <2>1
<1>2. CASE after # {}
  <2>1. notBefore # {}
    BY <1>1, <1>2 DEF Time
  <2>2. Min(notBefore) \in notBefore /\ \A n \in notBefore : Min(notBefore) <= n
    BY <1>1, <2>1, MinOfTimes
  <2>3. Min(after) \in after /\ \A n \in after : Min(after) <= n
    BY <1>1, <1>2, MinOfTimes
  <2>4. time - Min(notBefore) < Min(notBefore) - time => Min(notBefore) > time
    BY <1>1, <2>2
  <2>5. PICK a \in {Min(notBefore), Min(after)} :
          /\ a = GetClosestCTDReading(time)
          /\ a = Min(notBefore) => a > time \/ a = Min(after)
    BY <1>2, <2>4 DEF GetClosestCTDReading
  <2>6. a > time /\ a \in nodes /\ \A n \in nodes : n > time => a <= n
    BY <1>1, <2>2, <2>3, <2>5 DEF Time
  <2>7. /\ ~ \E n \in nodes : time < n /\ n < a
        /\ ~ \E n \in nodes : a < n /\ n < time
    BY <1>1, <2>6 DEF Time
  <2>8. QED  BY <1>1, <2>5, <2>6, <2>7
<1>3. CASE after = {} /\ nodes # {}
  <2>1. GetClosestCTDReading(time) = Max(nodes)
    BY <1>3 DEF GetClosestCTDReading
  <2>2. Max(nodes) \in nodes /\ \A n \in nodes : n <= Max(nodes)
    BY <1>1, <1>3, MaxOfTimes
  <2> DEFINE last == Max(nodes)
  <2>3. /\ \A n \in nodes : n \in Int /\ ~(n > time)
        /\ last \in nodes /\ \A n \in nodes : n <= last
    BY <1>1, <1>3, <2>2 DEF Time
  <2> HIDE DEF last
  <2>4. /\ ~ \E n \in nodes : time < n /\ n < last
        /\ ~ \E n \in nodes : last < n /\ n < time
    BY <2>3
  <2>5. GetClosestCTDReading(time) = last
    BY <2>1 DEF last
  <2>6. QED  BY <1>1, <2>3, <2>4, <2>5
<1>4. CASE nodes = {}
  BY <1>4 DEF GetClosestCTDReading
<1>5. QED  BY <1>2, <1>3, <1>4

\* Who is about to ask a second time was answered the first time, and a sink that has a
\* reading is never empty again.
Filled == ~crashed => \A t \in Reader : pc[t] = "return" => nodes # {}

LEMMA FilledStep ==
  ASSUME SinkInv, Filled, pc \in [Reader -> {"idle", "log", "return"}], [Next]_vars
  PROVE  Filled'
<1>1. CASE Tick \/ Query \/ WakeUp \/ UNCHANGED vars
  BY <1>1 DEF Tick, Query, WakeUp, Filled, vars, sink, readers
<1>2. CASE Store
  <2>1. UNCHANGED <<pc, crashed>> /\ (r # NULL => AddNode(r))
    BY <1>2 DEF Store, readers
  <2>2. nodes' = nodes \/ nodes' # {}
    BY <1>2, <2>1 DEF Store, AddNode
  <2>3. QED  BY <2>1, <2>2 DEF Filled
<1>3. ASSUME NEW t \in Reader, Ask(t)
      PROVE  Filled'
  <2>1. pc' = [pc EXCEPT ![t] = "log"] /\ UNCHANGED <<nodes, crashed>>
    BY <1>3 DEF Ask, sink
  <2>2. QED  BY <2>1 DEF Filled
<1>4. ASSUME NEW t \in Reader, Log(t)
      PROVE  Filled'
  <2>1. /\ crashed' = (GetClosestCTDReading(desired[t]) = NULL)
        /\ pc' = [pc EXCEPT ![t] = "return"] /\ UNCHANGED nodes
    BY <1>4 DEF Log, sink
  <2>2. nodes = {} => crashed'
    BY <2>1 DEF GetClosestCTDReading
  <2>3. QED  BY <2>1, <2>2 DEF Filled
<1>5. ASSUME NEW t \in Reader, Return(t)
      PROVE  Filled'
  <2>1. pc' = [pc EXCEPT ![t] = "idle"] /\ UNCHANGED <<nodes, crashed>>
    BY <1>5 DEF Return, sink
  <2>2. QED  BY <2>1 DEF Filled
<1>6. QED  BY <1>1, <1>2, <1>3, <1>4, <1>5 DEF Next

LEMMA AnswerTyping == Spec => [](SinkInv /\ AnswerType /\ Filled)
<1>1. Init => AnswerType
  BY DEF Init, AnswerType
<1>2. SinkInv /\ AnswerType /\ [Next]_vars => AnswerType'
  <2> SUFFICES ASSUME SinkInv, AnswerType, [Next]_vars
               PROVE  AnswerType'
    OBVIOUS
  <2>1. ASSUME NEW t \in Reader, Ask(t)
        PROVE  AnswerType'
    <3>1. PICK d \in Dwell : desired' = [desired EXCEPT ![t] = clock - d]
      BY <2>1 DEF Ask
    <3>2. clock - d \in Int
      BY <3>1, SizeAssumption DEF SinkInv, SinkType, Time
    <3>3. QED  BY <2>1, <3>1, <3>2 DEF Ask, AnswerType
  <2>2. ASSUME NEW t \in Reader, Log(t)
        PROVE  AnswerType'
    BY <2>2 DEF Log, AnswerType
  <2>3. ASSUME NEW t \in Reader, Return(t)
        PROVE  AnswerType'
    <3>1. GetClosestCTDReading(desired[t]) \in Time \cup {NULL}
      BY AdjacentAnswer DEF SinkInv, AnswerType
    <3>2. QED  BY <2>3, <3>1 DEF Return, AnswerType
  <2>4. CASE UNCHANGED readers
    BY <2>4 DEF readers, AnswerType
  <2>5. CASE Tick \/ Query \/ Store \/ WakeUp
    BY <2>4, <2>5 DEF Tick, Query, Store, WakeUp
  <2>6. QED  BY <2>1, <2>2, <2>3, <2>4, <2>5 DEF Next, vars
<1>3. Init => Filled
  BY DEF Init, Filled
<1>4. SinkInv /\ AnswerType /\ Filled /\ [Next]_vars => Filled'
  BY FilledStep DEF AnswerType
<1>5. QED  BY <1>1, <1>2, <1>3, <1>4, SinkInvInit, SinkInvStep, PTL DEF Spec

\* A measurement gets a reading that is in the sink and next to the moment it asks for:
\* for any readers and dwells, whatever is stored between the two calls.
THEOREM Adjacent == Spec => AdjacentReading
<1> DEFINE Gets(t) == /\ answer'[t] \in nodes
                      /\ ~ \E n \in nodes : \/ desired[t] < n /\ n < answer'[t]
                                            \/ answer'[t] < n /\ n < desired[t]
<1>1. ASSUME SinkInv, AnswerType, Filled, NEW t \in Reader, Return(t)
      PROVE  Gets(t)
  <2>1. answer'[t] = GetClosestCTDReading(desired[t])
    BY <1>1 DEF Return, AnswerType
  <2>2. SinkType /\ desired[t] \in Int
    BY <1>1 DEF SinkInv, AnswerType
  <2>3. nodes # {}
    BY <1>1 DEF Return, Filled
  <2>4. QED  BY <2>1, <2>2, <2>3, AdjacentAnswer
<1>2. SinkInv /\ AnswerType /\ Filled => [\A t \in Reader : Return(t) => Gets(t)]_vars
  BY <1>1
<1>3. QED  BY <1>2, AnswerTyping, PTL DEF AdjacentReading

=============================================================================
