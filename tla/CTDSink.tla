------------------------------- MODULE CTDSink -------------------------------
(***************************************************************************)
(* The store of CTD readings (CTDSink.cpp).  A thread of its own asks the  *)
(* CTD for a reading about once a second and stores it under its time; a   *)
(* measurement asks for the reading of the moment when the water it        *)
(* measures passed the CTD, dwell seconds ago.  The store is a map of      *)
(* bounded size.  A reading is its time here: mapMutex makes a step of     *)
(* each call of addNode and getClosestCTDReading.                          *)
(***************************************************************************)
EXTENDS Integers, FiniteSets, FiniteSetsExt

CONSTANTS Reader,   \* the threads that measure
          SINKLIMIT,
          Dwell,    \* the dwells that may be configured (seconds)
          MaxClock  \* bound of the model: seconds

ASSUME SizeAssumption == /\ SINKLIMIT \in Nat \ {0} /\ MaxClock \in Nat
                         /\ Dwell \subseteq Nat

-----------------------------------------------------------------------------
VARIABLES
  clock,   \* time(NULL)
  nodes,   \* the times of the readings in the map
  queryPC, \* where queryCTD is
  r,       \* r of queryCTD: the time of the reading it took, NULL
  wake,    \* when its sleep ends
  pc,      \* pc[t]: where getDwelledCTDValue is in thread t
  desired, \* desired[t]: its local
  answer,  \* answer[t]: the reading it returned last
  crashed, \* NULL was dereferenced
  taken    \* history: the times of all readings that were stored

sink == <<nodes, queryPC, r, wake, taken>>
readers == <<pc, desired, answer, crashed>>
vars == <<clock, sink, readers>>

NULL == -1
Abs(n) == IF n < 0 THEN -n ELSE n
Time == 0..MaxClock

TypeOK ==
  /\ clock \in Time
  /\ nodes \in SUBSET Time /\ Cardinality(nodes) <= SINKLIMIT
  /\ queryPC \in {"query", "add", "sleep"}
  /\ r \in Time \cup {NULL}
  /\ wake \in 0..(MaxClock + 1)
  /\ pc \in [Reader -> {"idle", "log", "return"}]
  /\ desired \in [Reader -> Int]
  /\ answer \in [Reader -> Time \cup {NULL}]
  /\ crashed \in BOOLEAN
  /\ taken \in SUBSET Time

Init ==
  /\ clock = 0
  /\ nodes = {} /\ taken = {}
  /\ queryPC = "query" /\ r = NULL /\ wake = 0
  /\ pc = [t \in Reader |-> "idle"]
  /\ desired = [t \in Reader |-> 0]
  /\ answer = [t \in Reader |-> NULL]
  /\ crashed = FALSE

-----------------------------------------------------------------------------
Tick ==
  /\ ~crashed /\ clock < MaxClock
  /\ clock' = clock + 1
  /\ UNCHANGED <<sink, readers>>

\* queryCTD: getCTDValues, which returns NULL if the LON does not answer well ...
Query ==
  /\ ~crashed
  /\ queryPC = "query"
  /\ r' \in {clock, NULL}
  /\ queryPC' = "add"
  /\ UNCHANGED <<clock, nodes, wake, taken, readers>>

\* Faulty: the newest is discarded.
AddNode_DropNewest(t) ==
  /\ nodes' = (IF Cardinality(nodes) >= SINKLIMIT THEN nodes \ {Max(nodes)} ELSE nodes)
              \cup {t}
  /\ taken' = taken \cup {t}

\* addNode: a full map loses its first element.
AddNode(t) ==
  /\ nodes' = (IF Cardinality(nodes) >= SINKLIMIT THEN nodes \ {Min(nodes)} ELSE nodes)
              \cup {t}
  /\ taken' = taken \cup {t}

\* ... stored if there is one; then sleep(1).
Store ==
  /\ ~crashed
  /\ queryPC = "add"
  /\ IF r = NULL THEN UNCHANGED <<nodes, taken>> ELSE AddNode(r)
  /\ wake' = clock + 1
  /\ queryPC' = "sleep"
  /\ UNCHANGED <<clock, r, readers>>

WakeUp ==
  /\ ~crashed
  /\ queryPC = "sleep" /\ clock >= wake
  /\ queryPC' = "query"
  /\ UNCHANGED <<clock, nodes, r, wake, taken, readers>>

-----------------------------------------------------------------------------
\* Faulty: begin() instead of rbegin().
GetClosestCTDReading_Begin(time) ==
  LET after == {n \in nodes : n > time}
  IN IF after # {} THEN Min(after) ELSE IF nodes # {} THEN Min(nodes) ELSE NULL

\* getClosestCTDReading.  equal_range yields the first node not before time and the
\* first node after it; the second is past the end where the first is, or is last.
GetClosestCTDReading(time) ==
  LET notBefore == {n \in nodes : n >= time}
      after == {n \in nodes : n > time}
      lowDiff == time - Min(notBefore)
      highDiff == Min(notBefore) - time
  IN IF after # {} THEN IF lowDiff < highDiff THEN Min(notBefore) ELSE Min(after)
     ELSE IF nodes # {} THEN Max(nodes) ELSE NULL

\* getDwelledCTDValue: the time that is asked for is computed once, ...
Ask(t) ==
  /\ ~crashed
  /\ pc[t] = "idle"
  /\ \E d \in Dwell : desired' = [desired EXCEPT ![t] = clock - d]
  /\ pc' = [pc EXCEPT ![t] = "log"]
  /\ UNCHANGED <<clock, sink, answer, crashed>>

\* ... the reading asked for a first time, for the log, which dereferences it, ...
Log(t) ==
  /\ ~crashed
  /\ pc[t] = "log"
  /\ crashed' = (GetClosestCTDReading(desired[t]) = NULL)
  /\ pc' = [pc EXCEPT ![t] = "return"]
  /\ UNCHANGED <<clock, sink, desired, answer>>

\* ... and a second time for the caller.
Return(t) ==
  /\ ~crashed
  /\ pc[t] = "return"
  /\ answer' = [answer EXCEPT ![t] = GetClosestCTDReading(desired[t])]
  /\ pc' = [pc EXCEPT ![t] = "idle"]
  /\ UNCHANGED <<clock, sink, desired, crashed>>

Next == Tick \/ Query \/ Store \/ WakeUp
        \/ \E t \in Reader : Ask(t) \/ Log(t) \/ Return(t)

Spec == Init /\ [][Next]_vars

-----------------------------------------------------------------------------
(* Properties.                                                              *)

\* "Once limit is reached, the oldest reading is discarded" (CTDSink.h): the map
\* holds the SINKLIMIT newest of all the readings that were ever taken.
KeepsNewest ==
  /\ nodes \subseteq taken
  /\ \A old \in taken \ nodes : \A n \in nodes : old < n
  /\ taken # nodes => Cardinality(nodes) = SINKLIMIT

\* A measurement gets a reading that is in the sink, and none that is stored lies
\* between it and the moment asked for, on whichever side it is: whatever was stored or
\* discarded since the first of its two calls, which must have found the sink in use.
\* It is one of the two readings around that moment; which of them, Closest asks.
AdjacentReading ==
  [][\A t \in Reader : Return(t) =>
       /\ answer'[t] \in nodes
       /\ ~ \E n \in nodes : \/ desired[t] < n /\ n < answer'[t]
                             \/ answer'[t] < n /\ n < desired[t]]_vars

\* "Clients may request the closest value to time x from the sink" (CTDSink.h): no
\* stored reading is closer to the moment asked for than the one that is returned.
\* The code does not do so: it returns the first reading after that moment where the
\* one before, or the one of that very moment, is closer.
Closest ==
  [][\A t \in Reader : Return(t) =>
       \A n \in nodes : Abs(answer'[t] - desired[t]) <= Abs(n - desired[t])]_vars

=============================================================================
