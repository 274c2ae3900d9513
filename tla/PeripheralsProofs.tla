-------------------------- MODULE PeripheralsProofs --------------------------
(* Theorems about Peripherals, for any number of threads, pumps and nodes,  *)
(* any menu of requests, and whether or not LON commands get lost.           *)
EXTENDS Peripherals, SequenceTheorems, TLAPS

-----------------------------------------------------------------------------
(* The nodes of the pumps, and the heater's.                               *)

LEMMA DivMonotone ==
  ASSUME NEW k \in Nat \ {0}, NEW a \in Nat, NEW b \in Nat, a <= b
  PROVE  a \div k \in Nat /\ b \div k \in Nat /\ a \div k <= b \div k
OBVIOUS

LEMMA PumpNodes ==
  ASSUME NEW p \in Pump
  PROVE  NodeOf(p) \in Node /\ NodeOf(p) # HeaterNode
<1>1. p - 1 \in Nat /\ NumPumps - 1 \in Nat /\ p - 1 <= NumPumps - 1
  BY SizeAssumption DEF Pump
<1>2. /\ NodeOf(p) \in Nat
      /\ NodeOf(NumPumps) \in Nat
      /\ NodeOf(p) <= NodeOf(NumPumps)
  BY <1>1, DivMonotone, SizeAssumption DEF NodeOf
<1>3. QED  BY <1>2 DEF Node, HeaterNode

LEMMA HeaterNodeType == HeaterNode \in Node
<1>1. NumPumps - 1 \in Nat
  BY SizeAssumption
<1>2. NodeOf(NumPumps) \in Nat
  BY <1>1, DivMonotone, SizeAssumption DEF NodeOf
<1>3. QED  BY <1>2 DEF Node, HeaterNode

-----------------------------------------------------------------------------
(* Steps and sequences of steps.                                           *)

\* Every step but the second half of switchPumpNode: taken without the mutex.
FreeStep == {s \in Step : s.do # "pumpGPIO"}

LEMMA StepFields ==
  ASSUME NEW s \in Step
  PROVE  /\ s.do = "switchPump" => s.id \in Pump /\ s.on \in BOOLEAN
         /\ s.do = "pumpGPIO" => s.id \in Pump /\ s.was \in BOOLEAN
         /\ s.do = "sleep" => s.node \in Node
         /\ s.do = "loadPercent" => s.id \in Pump
         /\ s.do = "testNode" => s.id \in Pump /\ s.val \in Nat
         /\ s.do = "storePercent" =>
              s.id \in Pump /\ s.val \in Nat /\ s.isOn \in BOOLEAN
         /\ s.do = "sendPercent" => s.id \in Pump /\ s.val \in Percent
         /\ s.do = "sendPump" => s.id \in Pump /\ s.on \in BOOLEAN
         /\ s.do \in {"switchHeater", "storeHeater", "sendHeater", "sendLamp"}
              => s.on \in BOOLEAN
         /\ s.do \in {"storeTemp", "testHeater", "sendTemp"} => s.val \in Temp
BY DEF Step

LEMMA HeadStep ==
  ASSUME TypeOK, NEW t \in Thread, todo[t] # <<>>
  PROVE  Head(todo[t]) \in Step /\ Tail(todo[t]) \in Seq(Step)
<1>1. todo[t] \in Seq(Step)
  BY DEF TypeOK
<1>2. QED  BY <1>1, HeadTailProperties

LEMMA ContinueType ==
  ASSUME TypeOK, NEW t \in Thread, todo[t] # <<>>,
         NEW s \in Seq(Step), Continue(t, s)
  PROVE  todo' \in [Thread -> Seq(Step)]
<1>1. s \o Tail(todo[t]) \in Seq(Step)
  BY HeadStep, ConcatProperties
<1>2. QED  BY <1>1 DEF TypeOK, Continue

LEMMA FreeIsStep ==
  ASSUME NEW s \in Seq(FreeStep)
  PROVE  s \in Seq(Step)
<1>1. FreeStep \subseteq Step
  BY DEF FreeStep
<1>2. QED  BY <1>1, SeqMonotonic

LEMMA PumpSequences ==
  ASSUME NEW p \in Pump
  PROVE  /\ pumpOn(p) \in Seq(FreeStep)
         /\ pumpOff(p) \in Seq(FreeStep)
         /\ \A v \in Nat : setPumpPercent(p, v) \in Seq(FreeStep)
<1>1. /\ [do |-> "switchPump", id |-> p, on |-> TRUE] \in FreeStep
      /\ [do |-> "switchPump", id |-> p, on |-> FALSE] \in FreeStep
      /\ [do |-> "loadPercent", id |-> p] \in FreeStep
      /\ [do |-> "sendPump", id |-> p, on |-> TRUE] \in FreeStep
      /\ [do |-> "sendPump", id |-> p, on |-> FALSE] \in FreeStep
      /\ \A v \in Nat : [do |-> "testNode", id |-> p, val |-> v] \in FreeStep
  BY DEF Step, FreeStep
<1>2. QED  BY <1>1 DEF pumpOn, pumpOff, setPumpPercent

LEMMA SwitchSteps ==
  ASSUME NEW b \in BOOLEAN
  PROVE  /\ [do |-> "switchHeater", on |-> b] \in FreeStep
         /\ [do |-> "storeHeater", on |-> b] \in FreeStep
         /\ [do |-> "sendHeater", on |-> b] \in FreeStep
         /\ [do |-> "sendLamp", on |-> b] \in FreeStep
BY DEF Step, FreeStep

LEMMA HeaterSequences ==
  /\ heaterOn \in Seq(FreeStep)
  /\ heaterOff \in Seq(FreeStep)
  /\ \A v \in Temp : setHeaterTemp(v) \in Seq(FreeStep)
  /\ switchLamp(TRUE) \in Seq(FreeStep) /\ switchLamp(FALSE) \in Seq(FreeStep)
<1>1. [do |-> "loadTemp"] \in FreeStep
  BY DEF Step, FreeStep
<1>2. ASSUME NEW v \in Temp
      PROVE  setHeaterTemp(v) \in Seq(FreeStep)
  <2>1. /\ [do |-> "storeTemp", val |-> v] \in FreeStep
        /\ [do |-> "testHeater", val |-> v] \in FreeStep
    BY DEF Step, FreeStep
  <2>2. QED  BY <2>1 DEF setHeaterTemp
<1>3. /\ [do |-> "switchHeater", on |-> TRUE] \in FreeStep
      /\ [do |-> "switchHeater", on |-> FALSE] \in FreeStep
      /\ [do |-> "sendHeater", on |-> TRUE] \in FreeStep
      /\ [do |-> "sendHeater", on |-> FALSE] \in FreeStep
      /\ [do |-> "sendLamp", on |-> TRUE] \in FreeStep
      /\ [do |-> "sendLamp", on |-> FALSE] \in FreeStep
  BY SwitchSteps
<1>4. QED  BY <1>1, <1>2, <1>3 DEF heaterOn, heaterOff, switchLamp

LEMMA RequestSequences ==
  ASSUME NEW r \in Request
  PROVE  Steps(r) \in Seq(FreeStep)
<1>1. CASE r.op = "pumpOn"
  BY <1>1, PumpSequences DEF Request, Steps
<1>2. CASE r.op = "pumpOff"
  BY <1>2, PumpSequences DEF Request, Steps
<1>3. CASE r.op \in {"pumpPercent", "methodPumpOn"}
  <2>1. r.id \in Pump /\ r.raw \in Nat
    BY <1>3 DEF Request
  <2>2. PercentArg(r.raw) \in Nat
    BY <2>1 DEF PercentArg
  <2>3. setPumpPercent(r.id, PercentArg(r.raw)) \in Seq(FreeStep)
    BY <2>1, <2>2, PumpSequences
  <2>4. pumpOn(r.id) \o setPumpPercent(r.id, PercentArg(r.raw)) \in Seq(FreeStep)
    BY <2>1, <2>3, PumpSequences, ConcatProperties
  <2>5. QED  BY <1>3, <2>3, <2>4 DEF Steps
<1>4. CASE r.op \in {"heaterOn", "heaterOff", "lampOn", "lampOff"}
  BY <1>4, HeaterSequences DEF Steps
<1>5. CASE r.op \in {"heaterTemp", "methodHeaterOn"}
  <2>1. r.temp \in Temp
    BY <1>5 DEF Request
  <2>2. heaterOn \o setHeaterTemp(r.temp) \in Seq(FreeStep)
    BY <2>1, HeaterSequences, ConcatProperties
  <2>3. QED  BY <1>5, <2>1, <2>2, HeaterSequences DEF Steps
<1>6. QED  BY <1>1, <1>2, <1>3, <1>4, <1>5 DEF Request

-----------------------------------------------------------------------------
(* Type correctness.                                                       *)

\* What SwitchGPIO does to a node keeps the types of the nodes' state.
LEMMA SwitchGPIOType ==
  ASSUME TypeOK, NEW t \in Thread, NEW n \in Node, NEW on \in BOOLEAN,
         SwitchGPIO(t, n, on)
  PROVE  /\ power' \in [Node -> BOOLEAN]
         /\ booting' \in [Node -> Thread \cup {NoThread}]
         /\ pumpRuns' \in [Pump -> BOOLEAN]
         /\ pumpLevel' \in [Pump -> Percent \cup {Unset}]
         /\ heaterRuns' \in BOOLEAN
         /\ heaterLevel' \in Temp \cup {Unset}
         /\ lamp' \in BOOLEAN
BY DEF TypeOK, SwitchGPIO

LEMMA BootedType ==
  ASSUME TypeOK, NEW n \in Node, NEW heard \in BOOLEAN, Booted(n, heard)
  PROVE  booting' \in [Node -> Thread \cup {NoThread}]
BY DEF TypeOK, Booted

LEMMA HearsType ==
  ASSUME NEW n \in Node
  PROVE  Hears(n) \subseteq BOOLEAN
BY DEF Hears

\* The type of todo' for every step of a thread.
LEMMA SleepType ==
  ASSUME NEW n \in Node
  PROVE  Sleep(n) \in Seq(FreeStep)
<1>1. [do |-> "sleep", node |-> n] \in FreeStep
  BY DEF Step, FreeStep
<1>2. QED  BY <1>1 DEF Sleep

LEMMA StepType ==
  ASSUME TypeOK, NEW t \in Thread, Run(t)
  PROVE  TypeOK'
<1>0. todo[t] # <<>> /\ Head(todo[t]) \in Step
  BY HeadStep DEF Run, At, SwitchPump, SwitchPumpGPIO, Wake, LoadPercent, TestNode,
     StorePercent, SwitchHeater, StoreHeater, LoadTemp, StoreTemp, TestHeater,
     SendPump, SendPercent, SendHeater, SendTemp, SendLamp
<1> DEFINE h == Head(todo[t])
<1>e. <<>> \in Seq(Step)
  OBVIOUS
<1>1. CASE SwitchPump(t)
  <2>1. h.do = "switchPump" /\ h.id \in Pump /\ h.on \in BOOLEAN
    BY <1>0, <1>1, StepFields DEF SwitchPump, At
  <2> DEFINE s == [do |-> "pumpGPIO", id |-> h.id,
                   was |-> getPumpLONState(pumpStatus, NodeOf(h.id))]
  <2>2. <<s>> \in Seq(Step)
    <3>1. s \in Step
      BY <2>1 DEF Step, getPumpLONState
    <3>2. QED  BY <3>1
  <2>3. todo' \in [Thread -> Seq(Step)]
    <3>1. Continue(t, <<s>>)
      BY <1>1 DEF SwitchPump
    <3>2. QED  BY <1>0, <2>2, <3>1, ContinueType
  <2>4. QED  BY <1>1, <2>1, <2>3 DEF TypeOK, SwitchPump, status, nodes
<1>2. CASE SwitchPumpGPIO(t)
  <2> DEFINE n == NodeOf(h.id)
             to == PumpGPIO(h.was, getPumpLONState(pumpStatus, n))
  <2>1. h.do = "pumpGPIO" /\ h.id \in Pump /\ h.was \in BOOLEAN
    BY <1>0, <1>2, StepFields DEF SwitchPumpGPIO, At
  <2>2. n \in Node
    BY <2>1, PumpNodes
  <2>3. (IF to = "on" THEN Sleep(n) ELSE <<>>) \in Seq(Step)
    BY <1>e, <2>2, SleepType, FreeIsStep
  <2>4. todo' \in [Thread -> Seq(Step)]
    BY <1>0, <1>2, <2>3, ContinueType DEF SwitchPumpGPIO
  <2>5. CASE UNCHANGED <<power, nodes>>
    BY <1>2, <2>4, <2>5 DEF TypeOK, SwitchPumpGPIO, status, nodes
  <2>6. CASE SwitchGPIO(t, n, to = "on")
    BY <1>2, <2>2, <2>4, <2>6, SwitchGPIOType DEF TypeOK, SwitchPumpGPIO, status
  <2>7. QED  BY <1>2, <2>5, <2>6 DEF SwitchPumpGPIO
<1>3. CASE Wake(t)
  <2>1. h.node \in Node
    BY <1>0, <1>3, StepFields DEF Wake, At
  <2>2. todo' \in [Thread -> Seq(Step)]
    BY <1>0, <1>e, <1>3, ContinueType DEF Wake
  <2>3. QED  BY <1>3, <2>1, <2>2 DEF TypeOK, Wake, status, nodes
<1>4. CASE LoadPercent(t)
  <2>1. h.id \in Pump
    BY <1>0, <1>4, StepFields DEF LoadPercent, At
  <2>2. pumpPercents[h.id] \in Nat
    BY <2>1, SizeAssumption DEF TypeOK, Percent
  <2>3. setPumpPercent(h.id, pumpPercents[h.id]) \in Seq(Step)
    BY <2>1, <2>2, PumpSequences, FreeIsStep
  <2>4. todo' \in [Thread -> Seq(Step)]
    BY <1>0, <1>4, <2>3, ContinueType DEF LoadPercent
  <2>5. QED  BY <1>4, <2>4 DEF TypeOK, LoadPercent, status, nodes
<1>5. CASE TestNode(t)
  <2>1. h.id \in Pump /\ h.val \in Nat
    BY <1>0, <1>5, StepFields DEF TestNode, At
  <2> DEFINE s == [do |-> "storePercent", id |-> h.id, val |-> h.val,
                   isOn |-> getPumpLONState(pumpStatus, NodeOf(h.id))]
  <2>2. <<s>> \in Seq(Step)
    <3>1. s \in Step
      BY <2>1 DEF Step, getPumpLONState
    <3>2. QED  BY <3>1
  <2>3. todo' \in [Thread -> Seq(Step)]
    <3>1. Continue(t, <<s>>)
      BY <1>5 DEF TestNode
    <3>2. QED  BY <1>0, <2>2, <3>1, ContinueType
  <2>4. QED  BY <1>5, <2>3 DEF TypeOK, TestNode, status, nodes
<1>6. CASE StorePercent(t)
  <2>1. h.id \in Pump /\ h.val \in Nat
    BY <1>0, <1>6, StepFields DEF StorePercent, At
  <2>2. CASE h.val <= MaxPercent
    <3>1. h.val \in Percent
      BY <2>1, <2>2, SizeAssumption DEF Percent
    <3>2. [do |-> "sendPercent", id |-> h.id, val |-> h.val] \in Step
      BY <2>1, <3>1 DEF Step
    <3>3. (IF h.isOn THEN << [do |-> "sendPercent", id |-> h.id, val |-> h.val] >>
                     ELSE <<>>) \in Seq(Step)
      BY <1>e, <3>2
    <3>4. todo' \in [Thread -> Seq(Step)]
      BY <1>0, <1>6, <2>2, <3>3, ContinueType DEF StorePercent
    <3>5. pumpPercents' \in [Pump -> Percent]
      BY <1>6, <2>1, <2>2, <3>1 DEF TypeOK, StorePercent
    <3>6. QED  BY <1>6, <3>4, <3>5 DEF TypeOK, StorePercent, nodes
  <2>3. CASE ~(h.val <= MaxPercent)
    <3>1. todo' \in [Thread -> Seq(Step)]
      BY <1>0, <1>e, <1>6, <2>3, ContinueType DEF StorePercent
    <3>2. QED  BY <1>6, <2>3, <3>1 DEF TypeOK, StorePercent, nodes
  <2>4. QED  BY <2>2, <2>3
<1>7. CASE SwitchHeater(t)
  <2>1. h.on \in BOOLEAN
    BY <1>0, <1>7, StepFields DEF SwitchHeater, At
  <2> DEFINE s == << [do |-> "storeHeater", on |-> h.on] >>
                  \o IF h.on /\ ~heaterStatus THEN Sleep(HeaterNode) ELSE <<>>
  <2>2. << [do |-> "storeHeater", on |-> h.on] >> \in Seq(Step)
    <3>1. [do |-> "storeHeater", on |-> h.on] \in Step
      BY <2>1 DEF Step
    <3>2. QED  BY <3>1
  <2>3. (IF h.on /\ ~heaterStatus THEN Sleep(HeaterNode) ELSE <<>>) \in Seq(Step)
    BY <1>e, SleepType, HeaterNodeType, FreeIsStep
  <2>4. s \in Seq(Step)
    BY <2>2, <2>3, ConcatProperties
  <2>5. todo' \in [Thread -> Seq(Step)]
    BY <1>0, <1>7, <2>4, ContinueType DEF SwitchHeater
  <2>6. CASE UNCHANGED <<power, nodes>>
    BY <1>7, <2>5, <2>6 DEF TypeOK, SwitchHeater, status, nodes
  <2>7. CASE SwitchGPIO(t, HeaterNode, h.on)
    BY <1>7, <2>1, <2>5, <2>7, SwitchGPIOType, HeaterNodeType
       DEF TypeOK, SwitchHeater, status
  <2>8. QED  BY <1>7, <2>6, <2>7 DEF SwitchHeater
<1>8. CASE StoreHeater(t)
  <2>1. h.on \in BOOLEAN
    BY <1>0, <1>8, StepFields DEF StoreHeater, At
  <2>2. todo' \in [Thread -> Seq(Step)]
    BY <1>0, <1>e, <1>8, ContinueType DEF StoreHeater
  <2>3. QED  BY <1>8, <2>1, <2>2 DEF TypeOK, StoreHeater, nodes
<1>9. CASE LoadTemp(t)
  <2>1. setHeaterTemp(heaterSetTemp) \in Seq(Step)
    BY HeaterSequences, FreeIsStep DEF TypeOK
  <2>2. todo' \in [Thread -> Seq(Step)]
    BY <1>0, <1>9, <2>1, ContinueType DEF LoadTemp
  <2>3. QED  BY <1>9, <2>2 DEF TypeOK, LoadTemp, status, nodes
<1>10. CASE StoreTemp(t)
  <2>1. h.val \in Temp
    BY <1>0, <1>10, StepFields DEF StoreTemp, At
  <2>2. todo' \in [Thread -> Seq(Step)]
    BY <1>0, <1>e, <1>10, ContinueType DEF StoreTemp
  <2>3. QED  BY <1>10, <2>1, <2>2 DEF TypeOK, StoreTemp, nodes
<1>11. CASE TestHeater(t)
  <2>1. h.val \in Temp
    BY <1>0, <1>11, StepFields DEF TestHeater, At
  <2>2. /\ [do |-> "switchHeater", on |-> TRUE] \in Step
        /\ [do |-> "sendTemp", val |-> h.val] \in Step
    BY <2>1 DEF Step
  <2>3. (IF heaterStatus THEN << [do |-> "switchHeater", on |-> TRUE],
                                 [do |-> "sendTemp", val |-> h.val] >>
                         ELSE <<>>) \in Seq(Step)
    BY <1>e, <2>2
  <2>4. todo' \in [Thread -> Seq(Step)]
    BY <1>0, <1>11, <2>3, ContinueType DEF TestHeater
  <2>5. QED  BY <1>11, <2>4 DEF TypeOK, TestHeater, status, nodes
<1>12. CASE SendPump(t)
  <2>1. h.id \in Pump /\ h.on \in BOOLEAN /\ NodeOf(h.id) \in Node
    BY <1>0, <1>12, StepFields, PumpNodes DEF SendPump, At
  <2>2. todo' \in [Thread -> Seq(Step)]
    BY <1>0, <1>e, <1>12, ContinueType DEF SendPump
  <2>3. PICK heard \in BOOLEAN :
          /\ Booted(NodeOf(h.id), heard)
          /\ pumpRuns' = IF heard THEN [pumpRuns EXCEPT ![h.id] = h.on] ELSE pumpRuns
    BY <1>12, <2>1, HearsType DEF SendPump
  <2>4. QED  BY <1>12, <2>1, <2>2, <2>3, BootedType DEF TypeOK, SendPump, status
<1>13. CASE SendPercent(t)
  <2>1. h.id \in Pump /\ h.val \in Percent /\ NodeOf(h.id) \in Node
    BY <1>0, <1>13, StepFields, PumpNodes DEF SendPercent, At
  <2>2. todo' \in [Thread -> Seq(Step)]
    BY <1>0, <1>e, <1>13, ContinueType DEF SendPercent
  <2>3. PICK heard \in BOOLEAN :
          /\ Booted(NodeOf(h.id), heard)
          /\ pumpLevel' = IF heard THEN [pumpLevel EXCEPT ![h.id] = h.val]
                                   ELSE pumpLevel
    BY <1>13, <2>1, HearsType DEF SendPercent
  <2>4. QED  BY <1>13, <2>1, <2>2, <2>3, BootedType DEF TypeOK, SendPercent, status
<1>14. CASE SendHeater(t)
  <2>1. h.on \in BOOLEAN
    BY <1>0, <1>14, StepFields DEF SendHeater, At
  <2>2. todo' \in [Thread -> Seq(Step)]
    BY <1>0, <1>e, <1>14, ContinueType DEF SendHeater
  <2>3. PICK heard \in BOOLEAN :
          /\ Booted(HeaterNode, heard)
          /\ heaterRuns' = IF heard THEN h.on ELSE heaterRuns
    BY <1>14, HearsType, HeaterNodeType DEF SendHeater
  <2>4. QED  BY <1>14, <2>1, <2>2, <2>3, BootedType, HeaterNodeType
             DEF TypeOK, SendHeater, status
<1>15. CASE SendTemp(t)
  <2>1. h.val \in Temp
    BY <1>0, <1>15, StepFields DEF SendTemp, At
  <2>2. todo' \in [Thread -> Seq(Step)]
    BY <1>0, <1>e, <1>15, ContinueType DEF SendTemp
  <2>3. PICK heard \in BOOLEAN :
          /\ Booted(HeaterNode, heard)
          /\ heaterLevel' = IF heard THEN h.val ELSE heaterLevel
    BY <1>15, HearsType, HeaterNodeType DEF SendTemp
  <2>4. QED  BY <1>15, <2>1, <2>2, <2>3, BootedType, HeaterNodeType
             DEF TypeOK, SendTemp, status
<1>16. CASE SendLamp(t)
  <2>1. h.on \in BOOLEAN
    BY <1>0, <1>16, StepFields DEF SendLamp, At
  <2>2. todo' \in [Thread -> Seq(Step)]
    BY <1>0, <1>e, <1>16, ContinueType DEF SendLamp
  <2>3. QED  BY <1>16, <2>1, <2>2 DEF TypeOK, SendLamp, status
<1>17. QED
  BY <1>1, <1>2, <1>3, <1>4, <1>5, <1>6, <1>7, <1>8, <1>9, <1>10, <1>11, <1>12,
     <1>13, <1>14, <1>15, <1>16 DEF Run

LEMMA IssueType ==
  ASSUME TypeOK, NEW t \in Thread, NEW r \in Menu[t], Issue(t, r)
  PROVE  TypeOK'
<1>1. r \in Request
  BY MenuAssumption
<1>2. Steps(r) \in Seq(Step)
  BY <1>1, RequestSequences, FreeIsStep
<1>3. QED  BY <1>2 DEF TypeOK, Issue, status, nodes

\* The types hold in every reachable state: in particular no stored percent
\* exceeds MAX_PUMP_PERCENT, whatever the clients and the methods ask for.
THEOREM Typing == Spec => []TypeOK
<1>1. Init => TypeOK
  <2>1. <<>> \in Seq(Step)
    OBVIOUS
  <2>2. QED  BY <2>1, BenchAssumption DEF Init, TypeOK
<1>2. TypeOK /\ [Next]_vars => TypeOK'
  <2>1. CASE UNCHANGED vars
    BY <2>1 DEF TypeOK, vars, status, nodes
  <2>2. TypeOK /\ Next => TypeOK'
    BY StepType, IssueType DEF Next
  <2>3. QED
    BY <2>2 DEF TypeOK, vars, status, nodes
<1>3. QED  BY <1>1, <1>2, PTL DEF Spec

-----------------------------------------------------------------------------
(* The power of the pump nodes.  NodePowered says nothing while the mutex  *)
(* is held.  What makes it inductive: only a thread in the second half of  *)
(* switchPumpNode holds the mutex, no other thread is there, and until it  *)
(* switches the GPIO line the node is as powered as it noted on entry.     *)

Shape(t) ==
  IF mutex = t THEN At(t, "pumpGPIO") /\ Tail(todo[t]) \in Seq(FreeStep)
               ELSE todo[t] \in Seq(FreeStep)

Locked(p) == mutex # NoThread /\ NodeOf(p) = NodeOf(Head(todo[mutex]).id)

PowerOf(p) == IF Locked(p) THEN Head(todo[mutex]).was
              ELSE getPumpLONState(pumpStatus, NodeOf(p))

PowerInv ==
  /\ \A t \in Thread : Shape(t)
  /\ \A p \in Pump : power[NodeOf(p)] = PowerOf(p)

\* A thread that is not in the second half of switchPumpNode holds no mutex.
LEMMA FreeThread ==
  ASSUME TypeOK, PowerInv, NEW t \in Thread, ~At(t, "pumpGPIO")
  PROVE  mutex # t /\ todo[t] \in Seq(FreeStep)
BY DEF PowerInv, Shape

\* A step outside switchPumpNode touches nothing of the invariant.
LEMMA FreeContinue ==
  ASSUME TypeOK, PowerInv, NEW t \in Thread, todo[t] # <<>>, ~At(t, "pumpGPIO"),
         NEW s \in Seq(FreeStep), Continue(t, s),
         mutex' = mutex, pumpStatus' = pumpStatus,
         \A p \in Pump : power'[NodeOf(p)] = power[NodeOf(p)]
  PROVE  PowerInv'
<1>1. mutex # t /\ todo[t] \in Seq(FreeStep)
  BY FreeThread
<1>2. Tail(todo[t]) \in Seq(FreeStep)
  BY <1>1, HeadTailProperties
<1>3. s \o Tail(todo[t]) \in Seq(FreeStep)
  BY <1>2, ConcatProperties
<1>4. /\ todo'[t] \in Seq(FreeStep)
      /\ \A u \in Thread \ {t} : todo'[u] = todo[u]
  BY <1>3 DEF Continue, TypeOK
<1>5. \A u \in Thread : Shape(u)'
  BY <1>1, <1>4 DEF PowerInv, Shape, At
<1>6. ASSUME NEW p \in Pump
      PROVE  PowerOf(p)' = PowerOf(p)
  BY <1>1, <1>4 DEF PowerOf, Locked, TypeOK
<1>7. QED  BY <1>5, <1>6 DEF PowerInv

LEMMA IssuePower ==
  ASSUME TypeOK, PowerInv, NEW t \in Thread, NEW r \in Menu[t], Issue(t, r)
  PROVE  PowerInv'
<1>1. Steps(r) \in Seq(FreeStep)
  BY MenuAssumption, RequestSequences
<1>2. mutex # t
  BY DEF PowerInv, Shape, At, Issue
<1>3. /\ todo'[t] \in Seq(FreeStep)
      /\ \A u \in Thread \ {t} : todo'[u] = todo[u]
  BY <1>1 DEF Issue, TypeOK
<1>4. mutex' = mutex /\ pumpStatus' = pumpStatus /\ power' = power
  BY DEF Issue, status
<1>5. \A u \in Thread : Shape(u)'
  BY <1>2, <1>3, <1>4 DEF PowerInv, Shape, At
<1>6. ASSUME NEW p \in Pump
      PROVE  PowerOf(p)' = PowerOf(p)
  BY <1>2, <1>3, <1>4 DEF PowerOf, Locked, TypeOK
<1>7. QED  BY <1>4, <1>5, <1>6 DEF PowerInv

\* The first half of switchPumpNode.
LEMMA SwitchPumpPower ==
  ASSUME TypeOK, PowerInv, NEW t \in Thread, SwitchPump(t)
  PROVE  PowerInv'
<1> DEFINE h == Head(todo[t])
           s == [do |-> "pumpGPIO", id |-> h.id,
                 was |-> getPumpLONState(pumpStatus, NodeOf(h.id))]
<1>1. h.id \in Pump /\ h.on \in BOOLEAN /\ todo[t] # <<>>
  BY HeadStep, StepFields DEF SwitchPump, At
<1>2. todo[t] \in Seq(FreeStep) /\ Tail(todo[t]) \in Seq(FreeStep)
  <2>1. ~At(t, "pumpGPIO")
    BY DEF SwitchPump, At
  <2>2. QED  BY <1>1, <2>1, FreeThread, HeadTailProperties
<1>3. <<s>> \in Seq(Step) /\ Tail(todo[t]) \in Seq(Step)
  <2>1. s \in Step
    BY <1>1 DEF Step, getPumpLONState
  <2>2. QED  BY <1>2, <2>1, FreeIsStep
<1>4. /\ todo'[t] = <<s>> \o Tail(todo[t])
      /\ \A u \in Thread \ {t} : todo'[u] = todo[u]
  <2>1. Continue(t, <<s>>)
    BY DEF SwitchPump
  <2>2. QED  BY <2>1 DEF Continue, TypeOK
<1>5. /\ todo'[t] # <<>>
      /\ Head(todo'[t]) = s
      /\ Tail(todo'[t]) = Tail(todo[t])
  <2> HIDE DEF s
  <2> DEFINE q == Tail(todo[t])
  <2> HIDE DEF q
  <2>1. ASSUME <<s>> \in Seq(Step), q \in Seq(Step)
        PROVE  /\ <<s>> \o q # <<>>
               /\ Head(<<s>> \o q) = s
               /\ Tail(<<s>> \o q) = q
    BY <2>1
  <2>2. QED  BY <1>3, <1>4, <2>1 DEF q
<1>6. mutex = NoThread /\ mutex' = t /\ power' = power
  BY DEF SwitchPump
<1>7. \A u \in Thread : Shape(u)'
  <2>1. Shape(t)'
    <3>1. s.do = "pumpGPIO"
      OBVIOUS
    <3> HIDE DEF s
    <3>2. At(t, "pumpGPIO")'
      BY <1>5, <3>1 DEF At
    <3>3. QED  BY <1>2, <1>5, <1>6, <3>2 DEF Shape
  <2>2. ASSUME NEW u \in Thread \ {t}
        PROVE  Shape(u)'
    <3>1. mutex # u /\ mutex' # u
      BY <1>6, NoThreadAssumption
    <3>2. QED  BY <1>4, <3>1 DEF PowerInv, Shape
  <2>3. QED  BY <2>1, <2>2
<1>8. ASSUME NEW p \in Pump
      PROVE  power'[NodeOf(p)] = PowerOf(p)'
  <2>1. power'[NodeOf(p)] = getPumpLONState(pumpStatus, NodeOf(p))
    BY <1>6 DEF PowerInv, PowerOf, Locked
  <2>2. Head(todo'[mutex']).id = h.id
    BY <1>5, <1>6
  <2>3. CASE NodeOf(p) = NodeOf(h.id)
    <3>1. Head(todo'[mutex']).was = getPumpLONState(pumpStatus, NodeOf(p))
      BY <1>5, <1>6, <2>3
    <3>2. Locked(p)'
      BY <1>6, <2>2, <2>3, NoThreadAssumption DEF Locked
    <3>3. QED  BY <2>1, <3>1, <3>2 DEF PowerOf
  <2>4. CASE NodeOf(p) # NodeOf(h.id)
    <3>1. ~Locked(p)'
      BY <2>2, <2>4 DEF Locked
    <3>2. \A q \in Pump : NodeOf(q) = NodeOf(p) => pumpStatus'[q] = pumpStatus[q]
      BY <1>1, <2>4 DEF SwitchPump, TypeOK
    <3>3. getPumpLONState(pumpStatus', NodeOf(p))
            = getPumpLONState(pumpStatus, NodeOf(p))
      BY <3>2 DEF getPumpLONState
    <3>4. QED  BY <2>1, <3>1, <3>3 DEF PowerOf
  <2>5. QED  BY <2>3, <2>4
<1>9. QED  BY <1>7, <1>8 DEF PowerInv

\* The second half of switchPumpNode.
LEMMA SwitchPumpGPIOPower ==
  ASSUME TypeOK, PowerInv, NEW t \in Thread, SwitchPumpGPIO(t)
  PROVE  PowerInv'
<1> DEFINE h == Head(todo[t])
           n == NodeOf(h.id)
           next == getPumpLONState(pumpStatus, n)
           to == PumpGPIO(h.was, next)
           s == IF to = "on" THEN Sleep(n) ELSE <<>>
<1>1. todo[t] # <<>> /\ h.id \in Pump /\ h.was \in BOOLEAN /\ n \in Node
  BY HeadStep, StepFields, PumpNodes DEF SwitchPumpGPIO, At
<1>2. mutex = t
  <2>1. At(t, "pumpGPIO")
    BY DEF SwitchPumpGPIO
  <2>2. CASE mutex # t
    <3>1. todo[t] \in Seq(FreeStep)
      BY <2>2 DEF PowerInv, Shape
    <3>2. h \in FreeStep
      BY <1>1, <3>1, HeadTailProperties
    <3>3. QED  BY <2>1, <3>2 DEF FreeStep, At
  <2>3. QED  BY <2>2
<1>3. /\ Tail(todo[t]) \in Seq(FreeStep)
      /\ \A u \in Thread \ {t} : todo[u] \in Seq(FreeStep)
  BY <1>2 DEF PowerInv, Shape
<1>4. s \o Tail(todo[t]) \in Seq(FreeStep)
  <2>1. s \in Seq(FreeStep)
    <3>1. <<>> \in Seq(FreeStep)
      OBVIOUS
    <3>2. QED  BY <1>1, <3>1, SleepType
  <2>2. QED  BY <1>3, <2>1, ConcatProperties
<1>5. mutex' = NoThread /\ pumpStatus' = pumpStatus
  BY DEF SwitchPumpGPIO, status
<1>6. \A u \in Thread : Shape(u)'
  <2>1. /\ todo'[t] = s \o Tail(todo[t])
        /\ \A u \in Thread \ {t} : todo'[u] = todo[u]
    <3>1. Continue(t, s)
      BY DEF SwitchPumpGPIO
    <3>2. QED  BY <3>1 DEF Continue, TypeOK
  <2>2. \A u \in Thread : todo'[u] \in Seq(FreeStep) /\ mutex' # u
    BY <1>3, <1>4, <1>5, <2>1, NoThreadAssumption
  <2>3. QED  BY <2>2 DEF Shape
<1>7. ASSUME NEW p \in Pump
      PROVE  power[NodeOf(p)] = IF NodeOf(p) = n THEN h.was
                                ELSE getPumpLONState(pumpStatus, NodeOf(p))
  BY <1>2, NoThreadAssumption DEF PowerInv, PowerOf, Locked
<1>8. next \in BOOLEAN
  BY DEF getPumpLONState
<1>9. ASSUME NEW p \in Pump
      PROVE  power'[NodeOf(p)] = getPumpLONState(pumpStatus, NodeOf(p))
  <2>1. NodeOf(p) \in Node
    BY PumpNodes
  <2>2. CASE to = "keep"
    <3>1. power' = power
      BY <2>2 DEF SwitchPumpGPIO
    <3>2. h.was = next
      BY <1>1, <1>8, <2>2 DEF PumpGPIO
    <3>3. QED  BY <1>7, <3>1, <3>2
  <2>3. CASE to # "keep"
    <3>1. power' = [power EXCEPT ![n] = (to = "on")]
      BY <2>3 DEF SwitchPumpGPIO, SwitchGPIO
    <3>2. (to = "on") = next
      BY <1>1, <1>8, <2>3 DEF PumpGPIO
    <3>3. power' = [power EXCEPT ![n] = next]
      BY <3>1, <3>2
    <3>4. QED
      BY <1>1, <1>7, <2>1, <3>3 DEF TypeOK
  <2>4. QED  BY <2>2, <2>3
<1>10. \A p \in Pump : PowerOf(p)' = getPumpLONState(pumpStatus, NodeOf(p))
  BY <1>5 DEF PowerOf, Locked
<1>11. QED  BY <1>6, <1>9, <1>10 DEF PowerInv

\* switchHeaterNode switches a GPIO line, but not that of a pump node.
LEMMA SwitchHeaterPower ==
  ASSUME TypeOK, PowerInv, NEW t \in Thread, SwitchHeater(t)
  PROVE  PowerInv'
<1> DEFINE h == Head(todo[t])
           a == << [do |-> "storeHeater", on |-> h.on] >>
           b == IF h.on /\ ~heaterStatus THEN Sleep(HeaterNode) ELSE <<>>
<1>1. h.on \in BOOLEAN /\ todo[t] # <<>> /\ ~At(t, "pumpGPIO")
  BY HeadStep, StepFields DEF SwitchHeater, At
<1>2. a \o b \in Seq(FreeStep)
  <2>1. a \in Seq(FreeStep)
    <3>1. [do |-> "storeHeater", on |-> h.on] \in FreeStep
      BY <1>1 DEF Step, FreeStep
    <3>2. QED  BY <3>1
  <2>2. b \in Seq(FreeStep)
    <3>1. <<>> \in Seq(FreeStep)
      OBVIOUS
    <3>2. QED  BY <3>1, SleepType, HeaterNodeType
  <2>3. QED  BY <2>1, <2>2, ConcatProperties
<1>3. Continue(t, a \o b) /\ mutex' = mutex /\ pumpStatus' = pumpStatus
  BY DEF SwitchHeater, status
<1>4. ASSUME NEW p \in Pump
      PROVE  power'[NodeOf(p)] = power[NodeOf(p)]
  BY PumpNodes DEF SwitchHeater, SwitchGPIO, TypeOK
<1>5. QED  BY <1>1, <1>2, <1>3, <1>4, FreeContinue

\* Every other step of a thread.
LEMMA OtherPower ==
  ASSUME TypeOK, PowerInv, NEW t \in Thread, Run(t),
         ~SwitchPump(t), ~SwitchPumpGPIO(t), ~SwitchHeater(t)
  PROVE  PowerInv'
<1> DEFINE h == Head(todo[t])
<1>1. todo[t] # <<>> /\ h \in Step /\ ~At(t, "pumpGPIO")
  BY HeadStep DEF Run, At, Wake, LoadPercent, TestNode, StorePercent, StoreHeater,
     LoadTemp, StoreTemp, TestHeater, SendPump, SendPercent, SendHeater, SendTemp,
     SendLamp
<1>2. mutex' = mutex /\ pumpStatus' = pumpStatus /\ power' = power
  BY DEF Run, status, Wake, LoadPercent, TestNode, StorePercent, StoreHeater,
     LoadTemp, StoreTemp, TestHeater, SendPump, SendPercent, SendHeater, SendTemp,
     SendLamp
<1>3. \E s \in Seq(FreeStep) : Continue(t, s)
  <2>0. <<>> \in Seq(FreeStep)
    OBVIOUS
  <2>1. CASE \/ Wake(t) \/ StoreHeater(t) \/ StoreTemp(t) \/ SendPump(t)
             \/ SendPercent(t) \/ SendHeater(t) \/ SendTemp(t) \/ SendLamp(t)
    BY <2>0, <2>1 DEF Wake, StoreHeater, StoreTemp, SendPump, SendPercent,
       SendHeater, SendTemp, SendLamp
  <2>2. CASE LoadPercent(t)
    <3>1. h.id \in Pump
      BY <1>1, <2>2, StepFields DEF LoadPercent, At
    <3>2. pumpPercents[h.id] \in Nat
      BY <3>1, SizeAssumption DEF TypeOK, Percent
    <3>3. QED  BY <2>2, <3>1, <3>2, PumpSequences DEF LoadPercent
  <2>3. CASE TestNode(t)
    <3> DEFINE s == [do |-> "storePercent", id |-> h.id, val |-> h.val,
                     isOn |-> getPumpLONState(pumpStatus, NodeOf(h.id))]
    <3>1. h.id \in Pump /\ h.val \in Nat
      BY <1>1, <2>3, StepFields DEF TestNode, At
    <3>2. s \in FreeStep
      BY <3>1 DEF Step, FreeStep, getPumpLONState
    <3>3. Continue(t, <<s>>)
      BY <2>3 DEF TestNode
    <3> HIDE DEF s
    <3>4. <<s>> \in Seq(FreeStep)
      BY <3>2
    <3>5. QED  BY <3>3, <3>4
  <2>4. CASE StorePercent(t)
    <3>1. h.id \in Pump /\ h.val \in Nat
      BY <1>1, <2>4, StepFields DEF StorePercent, At
    <3>2. h.val <= MaxPercent =>
            << [do |-> "sendPercent", id |-> h.id, val |-> h.val] >> \in Seq(FreeStep)
      <4>1. h.val <= MaxPercent =>
              [do |-> "sendPercent", id |-> h.id, val |-> h.val] \in FreeStep
        BY <3>1, SizeAssumption DEF Step, FreeStep, Percent
      <4>2. QED  BY <4>1
    <3>3. QED  BY <2>0, <2>4, <3>2 DEF StorePercent
  <2>5. CASE LoadTemp(t)
    BY <2>5, HeaterSequences DEF LoadTemp, TypeOK
  <2>6. CASE TestHeater(t)
    <3>1. h.val \in Temp
      BY <1>1, <2>6, StepFields DEF TestHeater, At
    <3>2. << [do |-> "switchHeater", on |-> TRUE],
             [do |-> "sendTemp", val |-> h.val] >> \in Seq(FreeStep)
      <4>1. /\ [do |-> "switchHeater", on |-> TRUE] \in FreeStep
            /\ [do |-> "sendTemp", val |-> h.val] \in FreeStep
        BY <3>1 DEF Step, FreeStep
      <4>2. QED  BY <4>1
    <3>3. QED  BY <2>0, <2>6, <3>2 DEF TestHeater
  <2>7. QED  BY <2>1, <2>2, <2>3, <2>4, <2>5, <2>6 DEF Run
<1>4. QED  BY <1>1, <1>2, <1>3, FreeContinue

LEMMA PowerInvInit == Init => PowerInv
<1> SUFFICES ASSUME Init PROVE PowerInv
  OBVIOUS
<1>1. <<>> \in Seq(FreeStep)
  OBVIOUS
<1>2. \A t \in Thread : Shape(t)
  BY <1>1, NoThreadAssumption DEF Init, Shape
<1>3. ASSUME NEW p \in Pump
      PROVE  power[NodeOf(p)] = PowerOf(p)
  BY PumpNodes DEF Init, PowerOf, Locked, getPumpLONState
<1>4. QED  BY <1>2, <1>3 DEF PowerInv

LEMMA PowerInvStep == TypeOK /\ PowerInv /\ [Next]_vars => PowerInv'
<1>1. ASSUME TypeOK, PowerInv, NEW t \in Thread, Run(t)
      PROVE  PowerInv'
  BY <1>1, SwitchPumpPower, SwitchPumpGPIOPower, SwitchHeaterPower, OtherPower
<1>2. ASSUME TypeOK, PowerInv, UNCHANGED vars
      PROVE  PowerInv'
  BY <1>2 DEF PowerInv, Shape, At, PowerOf, Locked, vars, status
<1>3. QED  BY <1>1, <1>2, IssuePower DEF Next

\* A pump node is powered exactly if one of its pumps is commanded on, whenever
\* no thread is inside switchPumpNode: for any number of threads and pumps, any
\* mix of requests, and whatever the LON line loses.
THEOREM NodePower == Spec => []NodePowered
<1>1. TypeOK /\ PowerInv => NodePowered
  BY NoThreadAssumption DEF PowerInv, PowerOf, Locked, NodePowered
<1>2. QED
  BY <1>1, Typing, PowerInvInit, PowerInvStep, PTL DEF Spec

\* switchPumpNode's critical sections exclude each other: two threads are never
\* both between its lock and its unlock.
THEOREM OneInSwitchPumpNode == Spec => []OneSwitches
<1>1. TypeOK /\ PowerInv => OneSwitches
  <2> SUFFICES ASSUME TypeOK, PowerInv, NEW t \in Thread, At(t, "pumpGPIO")
               PROVE  mutex = t
    BY DEF OneSwitches
  <2>1. CASE mutex # t
    <3>1. todo[t] \in Seq(FreeStep) /\ todo[t] # <<>>
      BY <2>1 DEF PowerInv, Shape, At
    <3>2. Head(todo[t]) \in FreeStep
      BY <3>1, HeadTailProperties
    <3>3. QED  BY <3>2 DEF FreeStep, At
  <2>2. QED  BY <2>1
<1>2. QED
  BY <1>1, Typing, PowerInvInit, PowerInvStep, PTL DEF Spec

-----------------------------------------------------------------------------
(* What is left of a request.                                              *)

Pending(t) == {todo[t][j] : j \in DOMAIN todo[t]}

\* The steps that a step of a function is followed by at once.
Expands(h, s) ==
  \/ /\ s = <<>>
     /\ h.do \in {"pumpGPIO", "sleep", "storePercent", "storeHeater", "storeTemp", "testHeater",
                  "sendPump", "sendPercent", "sendHeater", "sendTemp", "sendLamp"}
     /\ h.do = "testHeater" => ~heaterStatus
     /\ h.do = "storePercent" => ~(h.val <= MaxPercent /\ h.isOn)
  \/ /\ h.do = "switchPump"
     /\ s = << [do |-> "pumpGPIO", id |-> h.id, was |-> getPumpLONState(pumpStatus, NodeOf(h.id))] >>
  \/ h.do = "pumpGPIO" /\ s = << [do |-> "sleep", node |-> NodeOf(h.id)] >>
  \/ h.do = "loadPercent" /\ s = << [do |-> "testNode", id |-> h.id, val |-> pumpPercents[h.id]] >>
  \/ /\ h.do = "testNode"
     /\ s = << [do |-> "storePercent", id |-> h.id, val |-> h.val,
                isOn |-> getPumpLONState(pumpStatus, NodeOf(h.id))] >>
  \/ /\ h.do = "storePercent" /\ h.val <= MaxPercent /\ h.isOn
     /\ s = << [do |-> "sendPercent", id |-> h.id, val |-> h.val] >>
  \/ /\ h.do = "switchHeater" /\ ~(h.on /\ ~heaterStatus)
     /\ s = << [do |-> "storeHeater", on |-> h.on] >>
  \/ /\ h.do = "switchHeater" /\ h.on /\ ~heaterStatus
     /\ s = << [do |-> "storeHeater", on |-> h.on], [do |-> "sleep", node |-> HeaterNode] >>
  \/ /\ h.do = "loadTemp"
     /\ s = << [do |-> "storeTemp", val |-> heaterSetTemp], [do |-> "testHeater", val |-> heaterSetTemp] >>
  \/ /\ h.do = "testHeater" /\ heaterStatus
     /\ s = << [do |-> "switchHeater", on |-> TRUE], [do |-> "sendTemp", val |-> h.val] >>

LEMMA OneByOne ==
  ASSUME NEW a \in Step, NEW b \in Step
  PROVE  <<a>> \o <<b>> = <<a, b>> /\ <<a>> \o <<>> = <<a>>
<1>1. <<a>> \in Seq(Step) /\ <<a>> \o <<b>> \in Seq(Step) /\ <<a, b>> \in Seq(Step)
  OBVIOUS
<1>2. Len(<<a>> \o <<b>>) = 2 /\ Len(<<a, b>>) = 2
  OBVIOUS
<1>3. \A j \in 1..2 : (<<a>> \o <<b>>)[j] = <<a, b>>[j]
  OBVIOUS
<1>4. QED  BY <1>1, <1>2, <1>3, SeqEqual, ConcatEmptySeq

LEMMA RunExpands ==
  ASSUME TypeOK, NEW t \in Thread, Run(t)
  PROVE  /\ todo[t] # <<>> /\ Head(todo[t]) \in Step
         /\ \E s \in Seq(Step) : Continue(t, s) /\ Expands(Head(todo[t]), s)
<1> DEFINE h == Head(todo[t])
<1>1. todo[t] # <<>> /\ h \in Step
  BY HeadStep DEF Run, At, SwitchPump, SwitchPumpGPIO, Wake, LoadPercent, TestNode,
     StorePercent, SwitchHeater, StoreHeater, LoadTemp, StoreTemp, TestHeater,
     SendPump, SendPercent, SendHeater, SendTemp, SendLamp
<1>2. \E s : Continue(t, s) /\ Expands(h, s)
  <2>1. CASE \/ Wake(t) \/ StoreHeater(t) \/ StoreTemp(t) \/ SendPump(t)
             \/ SendPercent(t) \/ SendHeater(t) \/ SendTemp(t) \/ SendLamp(t)
    <3>1. Continue(t, <<>>) /\ h.do \in {"sleep", "storeHeater", "storeTemp", "sendPump",
                                         "sendPercent", "sendHeater", "sendTemp", "sendLamp"}
      BY <2>1 DEF Wake, StoreHeater, StoreTemp, SendPump, SendPercent, SendHeater, SendTemp,
         SendLamp, At
    <3>2. QED  BY <3>1 DEF Expands
  <2>2. CASE SwitchPump(t)
    BY <2>2 DEF SwitchPump, At, Expands
  <2>3. CASE SwitchPumpGPIO(t)
    BY <2>3 DEF SwitchPumpGPIO, At, Expands, Sleep
  <2>4. CASE LoadPercent(t)
    BY <2>4 DEF LoadPercent, At, Expands, setPumpPercent
  <2>5. CASE TestNode(t)
    BY <2>5 DEF TestNode, At, Expands
  <2>6. CASE StorePercent(t)
    <3>1. h.do = "storePercent"
      BY <2>6 DEF StorePercent, At
    <3>2. CASE h.val <= MaxPercent /\ h.isOn
      BY <2>6, <3>1, <3>2 DEF StorePercent, Expands
    <3>3. CASE ~(h.val <= MaxPercent /\ h.isOn)
      <4>1. Continue(t, <<>>)
        BY <2>6, <3>3 DEF StorePercent
      <4>2. QED  BY <3>1, <3>3, <4>1 DEF Expands
    <3>4. QED  BY <3>2, <3>3
  <2>7. CASE SwitchHeater(t)
    <3> DEFINE a == [do |-> "storeHeater", on |-> h.on]
               b == [do |-> "sleep", node |-> HeaterNode]
    <3>1. h.do = "switchHeater"
          /\ Continue(t, <<a>> \o IF h.on /\ ~heaterStatus THEN <<b>> ELSE <<>>)
      BY <2>7 DEF SwitchHeater, At, Sleep
    <3>2. <<a>> \o <<b>> = <<a, b>> /\ <<a>> \o <<>> = <<a>>
      <4>1. a \in Step /\ b \in Step
        BY <1>1, <3>1, StepFields, HeaterNodeType DEF Step
      <4> HIDE DEF a, b
      <4>2. QED  BY <4>1, OneByOne
    <3>3. CASE h.on /\ ~heaterStatus
      BY <3>1, <3>2, <3>3 DEF Expands
    <3>4. CASE ~(h.on /\ ~heaterStatus)
      BY <3>1, <3>2, <3>4 DEF Expands
    <3>5. QED  BY <3>3, <3>4
  <2>8. CASE LoadTemp(t)
    BY <2>8 DEF LoadTemp, At, Expands, setHeaterTemp
  <2>9. CASE TestHeater(t)
    BY <2>9 DEF TestHeater, At, Expands
  <2>10. QED
    BY <2>1, <2>2, <2>3, <2>4, <2>5, <2>6, <2>7, <2>8, <2>9 DEF Run
<1>3. ASSUME NEW s, Expands(h, s)
      PROVE  s \in Seq(Step)
  <2>1. CASE s = <<>>
    BY <2>1
  <2>2. CASE \E a \in Step : s = <<a>>
    BY <2>2
  <2>3. CASE \E a, b \in Step : s = <<a, b>>
    BY <2>3
  <2>4. \/ s = <<>> \/ (\E a \in Step : s = <<a>>) \/ (\E a, b \in Step : s = <<a, b>>)
    <3>1. /\ h.do = "switchPump" \/ h.do = "testNode" => h.id \in Pump
          /\ getPumpLONState(pumpStatus, NodeOf(h.id)) \in BOOLEAN
          /\ h.do = "pumpGPIO" => NodeOf(h.id) \in Node
          /\ h.do = "loadPercent" => h.id \in Pump /\ pumpPercents[h.id] \in Nat
      BY <1>1, StepFields, PumpNodes, SizeAssumption DEF TypeOK, Percent, getPumpLONState
    <3>2. CASE h.do \in {"switchPump", "testNode", "loadPercent", "pumpGPIO"}
      BY <1>1, <1>3, <3>1, <3>2, StepFields DEF Expands, Step
    <3>3. CASE h.do = "storePercent"
      <4>1. h.val <= MaxPercent => h.val \in Percent
        BY <1>1, <3>3, StepFields, SizeAssumption DEF Percent
      <4>2. QED  BY <1>1, <1>3, <3>3, <4>1, StepFields DEF Expands, Step
    <3>4. CASE h.do \in {"switchHeater", "loadTemp", "testHeater"}
      BY <1>1, <1>3, <3>4, StepFields, HeaterNodeType DEF Expands, Step, TypeOK
    <3>5. CASE h.do \notin {"switchPump", "testNode", "loadPercent", "pumpGPIO", "storePercent",
                            "switchHeater", "loadTemp", "testHeater"}
      BY <1>3, <3>5 DEF Expands
    <3>6. QED  BY <3>2, <3>3, <3>4, <3>5
  <2>5. QED  BY <2>1, <2>2, <2>3, <2>4
<1>4. QED  BY <1>1, <1>2, <1>3

\* The steps after the one that was taken move up, behind those that it expands to.
LEMMA Continued ==
  ASSUME TypeOK, NEW t \in Thread, todo[t] # <<>>, NEW s \in Seq(Step), Continue(t, s)
  PROVE  /\ todo'[t] \in Seq(Step)
         /\ Len(todo'[t]) = Len(s) + Len(todo[t]) - 1
         /\ \A j \in 1..Len(s) : todo'[t][j] = s[j]
         /\ \A j \in 2..Len(todo[t]) : todo'[t][Len(s) + j - 1] = todo[t][j]
         /\ \A j \in DOMAIN todo'[t] :
              j \in 1..Len(s) \/ \E m \in 2..Len(todo[t]) : j = Len(s) + m - 1
         /\ \A u \in Thread \ {t} : todo'[u] = todo[u]
<1> DEFINE q == todo[t]
<1>1. q \in Seq(Step) /\ Len(q) \in Nat /\ Len(q) >= 1
  BY DEF TypeOK
<1>2. todo'[t] = s \o Tail(q) /\ \A u \in Thread \ {t} : todo'[u] = todo[u]
  BY DEF Continue, TypeOK
<1>3. /\ Tail(q) \in Seq(Step) /\ Len(Tail(q)) = Len(q) - 1
      /\ \A j \in 1..(Len(q) - 1) : Tail(q)[j] = q[j + 1]
  BY <1>1, HeadTailProperties
<1> HIDE DEF q
<1> DEFINE r == Tail(q)
<1>4. /\ s \o r \in Seq(Step)
      /\ Len(s \o r) = Len(s) + Len(r)
      /\ \A j \in 1..(Len(s) + Len(r)) :
           (s \o r)[j] = IF j <= Len(s) THEN s[j] ELSE r[j - Len(s)]
  BY <1>3, ConcatProperties
<1> HIDE DEF r
<1>5. Len(s) \in Nat /\ Len(r) = Len(q) - 1 /\ \A j \in 1..(Len(q) - 1) : r[j] = q[j + 1]
  BY <1>3 DEF r
<1>6. todo'[t] = s \o r
  BY <1>2 DEF q, r
<1>7. \A j \in 2..Len(q) : (s \o r)[Len(s) + j - 1] = q[j]
  <2> SUFFICES ASSUME NEW j \in 2..Len(q)
               PROVE  (s \o r)[Len(s) + j - 1] = q[j]
    OBVIOUS
  <2>1. j - 1 \in 1..(Len(q) - 1) /\ Len(s) + j - 1 \in 1..(Len(s) + Len(r)) /\ ~(Len(s) + j - 1 <= Len(s))
    BY <1>1, <1>5
  <2>2. (s \o r)[Len(s) + j - 1] = r[(Len(s) + j - 1) - Len(s)]
    BY <1>4, <2>1
  <2>3. (Len(s) + j - 1) - Len(s) = j - 1 /\ (j - 1) + 1 = j
    BY <1>1, <1>5
  <2>4. QED  BY <1>5, <2>1, <2>2, <2>3
<1>8. ASSUME NEW j \in 1..(Len(s) + Len(r))
      PROVE  j \in 1..Len(s) \/ \E m \in 2..Len(q) : j = Len(s) + m - 1
  <2>1. CASE j <= Len(s)
    BY <1>5, <2>1
  <2>2. CASE ~(j <= Len(s))
    <3>1. j - Len(s) + 1 \in 2..Len(q) /\ j = Len(s) + (j - Len(s) + 1) - 1
      BY <1>1, <1>5, <2>2
    <3>2. QED  BY <3>1
  <2>3. QED  BY <2>1, <2>2
<1>9. \A j \in 1..Len(s) : (s \o r)[j] = s[j]
  BY <1>1, <1>4, <1>5
<1>10. DOMAIN (s \o r) = 1..(Len(s) + Len(r)) /\ Len(s \o r) = Len(s) + Len(q) - 1
  BY <1>1, <1>4, <1>5
<1>11. QED
  BY <1>2, <1>4, <1>6, <1>7, <1>8, <1>9, <1>10 DEF q


\* The steps of each request, one by one.
LEMMA FourSteps ==
  ASSUME NEW a \in Step, NEW b \in Step, NEW c \in Step, NEW d \in Step
  PROVE  <<a, b, c>> \o <<d>> = <<a, b, c, d>>
<1>1. <<a, b, c>> \in Seq(Step) /\ <<d>> \in Seq(Step) /\ <<a, b, c, d>> \in Seq(Step)
  OBVIOUS
<1>2. Len(<<a, b, c>>) = 3 /\ Len(<<d>>) = 1 /\ Len(<<a, b, c, d>>) = 4
  OBVIOUS
<1>3. /\ <<a, b, c>> \o <<d>> \in Seq(Step) /\ Len(<<a, b, c>> \o <<d>>) = 4
      /\ \A j \in 1..4 : (<<a, b, c>> \o <<d>>)[j] = IF j <= 3 THEN <<a, b, c>>[j] ELSE <<d>>[j - 3]
  BY <1>1, <1>2, ConcatProperties
<1>4. \A j \in 1..4 : (<<a, b, c>> \o <<d>>)[j] = <<a, b, c, d>>[j]
  BY <1>3
<1>5. QED  BY <1>1, <1>2, <1>3, <1>4, SeqEqual

LEMMA FiveSteps ==
  ASSUME NEW a \in Step, NEW b \in Step, NEW c \in Step, NEW d \in Step, NEW e \in Step
  PROVE  <<a, b, c>> \o <<d, e>> = <<a, b, c, d, e>>
<1>1. <<a, b, c>> \in Seq(Step) /\ <<d, e>> \in Seq(Step) /\ <<a, b, c, d, e>> \in Seq(Step)
  OBVIOUS
<1>2. Len(<<a, b, c>>) = 3 /\ Len(<<d, e>>) = 2 /\ Len(<<a, b, c, d, e>>) = 5
  OBVIOUS
<1>3. /\ <<a, b, c>> \o <<d, e>> \in Seq(Step) /\ Len(<<a, b, c>> \o <<d, e>>) = 5
      /\ \A j \in 1..5 : (<<a, b, c>> \o <<d, e>>)[j] = IF j <= 3 THEN <<a, b, c>>[j] ELSE <<d, e>>[j - 3]
  BY <1>1, <1>2, ConcatProperties
<1>4. \A j \in 1..5 : (<<a, b, c>> \o <<d, e>>)[j] = <<a, b, c, d, e>>[j]
  BY <1>3
<1>5. QED  BY <1>1, <1>2, <1>3, <1>4, SeqEqual

PowerStep(p, b) == [do |-> "switchPump", id |-> p, on |-> b]
EnableStep(p, b) == [do |-> "sendPump", id |-> p, on |-> b]
LoadStep(p) == [do |-> "loadPercent", id |-> p]

LEMMA MethodPumpSteps ==
  ASSUME NEW p \in Pump, NEW v \in Nat
  PROVE  pumpOn(p) \o setPumpPercent(p, v)
           = << PowerStep(p, TRUE), LoadStep(p), EnableStep(p, TRUE),
                [do |-> "testNode", id |-> p, val |-> v] >>
<1>1. /\ PowerStep(p, TRUE) \in Step /\ LoadStep(p) \in Step /\ EnableStep(p, TRUE) \in Step
      /\ [do |-> "testNode", id |-> p, val |-> v] \in Step
  BY DEF Step, PowerStep, LoadStep, EnableStep
<1>2. /\ pumpOn(p) = << PowerStep(p, TRUE), LoadStep(p), EnableStep(p, TRUE) >>
      /\ setPumpPercent(p, v) = << [do |-> "testNode", id |-> p, val |-> v] >>
  BY DEF pumpOn, setPumpPercent, PowerStep, LoadStep, EnableStep
<1>3. ASSUME NEW a \in Step, NEW b \in Step, NEW c \in Step, NEW d \in Step,
             pumpOn(p) = <<a, b, c>>, setPumpPercent(p, v) = <<d>>
      PROVE  pumpOn(p) \o setPumpPercent(p, v) = <<a, b, c, d>>
  BY <1>3, FourSteps
<1>4. QED  BY <1>1, <1>2, <1>3

LEMMA MethodHeaterSteps ==
  ASSUME NEW v \in Temp
  PROVE  heaterOn \o setHeaterTemp(v)
           = << [do |-> "switchHeater", on |-> TRUE], [do |-> "loadTemp"],
                [do |-> "sendHeater", on |-> TRUE],
                [do |-> "storeTemp", val |-> v], [do |-> "testHeater", val |-> v] >>
<1>1. /\ [do |-> "switchHeater", on |-> TRUE] \in Step /\ [do |-> "loadTemp"] \in Step
      /\ [do |-> "sendHeater", on |-> TRUE] \in Step
      /\ [do |-> "storeTemp", val |-> v] \in Step /\ [do |-> "testHeater", val |-> v] \in Step
  BY DEF Step
<1>2. ASSUME NEW a \in Step, NEW b \in Step, NEW c \in Step, NEW d \in Step, NEW e \in Step,
             heaterOn = <<a, b, c>>, setHeaterTemp(v) = <<d, e>>
      PROVE  heaterOn \o setHeaterTemp(v) = <<a, b, c, d, e>>
  BY <1>2, FiveSteps
<1>3. QED  BY <1>1, <1>2 DEF heaterOn, setHeaterTemp

-----------------------------------------------------------------------------
(* The order in which a pump is powered and enabled.                       *)

\* Thread t may switch pump p.
Switches(t, p) ==
  \E r \in Menu[t] : r.op \in {"pumpOn", "pumpOff", "methodPumpOn"} /\ r.id = p

Powers(s, p, b) == s.do = "switchPump" /\ s.id = p /\ s.on = b
Enables(s, p, b) == s.do = "sendPump" /\ s.id = p /\ s.on = b
Loads(s, p) == s.do = "loadPercent" /\ s.id = p

\* A pump is powered first, and then told its percent and enabled; it is disabled
\* right before it is switched off, and nothing follows that.
SwitchOrder(t) ==
  \A j \in DOMAIN todo[t], p \in Pump :
    /\ todo[t][j].do \in {"switchPump", "sendPump"} /\ todo[t][j].id = p => Switches(t, p)
    /\ Powers(todo[t][j], p, TRUE) =>
         /\ j = 1
         /\ \E s \in Pending(t) : Loads(s, p)
         /\ \E s \in Pending(t) : Enables(s, p, TRUE)
    /\ Powers(todo[t][j], p, FALSE) =>
         /\ j = Len(todo[t])
         /\ j = 1 \/ (j = 2 /\ Enables(todo[t][1], p, FALSE))
    /\ Enables(todo[t][j], p, FALSE) =>
         j = 1 /\ Len(todo[t]) = 2 /\ Powers(todo[t][2], p, FALSE)

\* A function does not switch a pump off first, and what enables one powers it first.
Begins(t) ==
  \A p \in Pump : todo[t] # <<>> =>
    /\ ~Powers(todo[t][1], p, FALSE)
    /\ (\E s \in Pending(t) : Enables(s, p, TRUE)) => Powers(todo[t][1], p, TRUE)

LEMMA SwitchOrderIssue ==
  ASSUME TypeOK, NEW t \in Thread, NEW r \in Menu[t], Issue(t, r)
  PROVE  SwitchOrder(t)' /\ Begins(t)' /\ \A u \in Thread \ {t} : todo'[u] = todo[u]
<1>1. r \in Request
  BY MenuAssumption
<1>2. todo'[t] = Steps(r) /\ \A u \in Thread \ {t} : todo'[u] = todo[u]
  BY DEF Issue, TypeOK
<1> DEFINE q == Steps(r)
<1>3. CASE r.op = "pumpOn"
  <2>0. r.id \in Pump /\ Switches(t, r.id)
    BY <1>1, <1>3 DEF Request, Switches
  <2>1. q = << PowerStep(r.id, TRUE), LoadStep(r.id), EnableStep(r.id, TRUE) >>
    BY <1>3 DEF Steps, pumpOn, PowerStep, LoadStep, EnableStep
  <2> HIDE DEF q
  <2>2. /\ DOMAIN q = 1..3
        /\ Powers(q[1], r.id, TRUE) /\ Loads(q[2], r.id) /\ Enables(q[3], r.id, TRUE)
    BY <2>1 DEF Powers, Loads, Enables, PowerStep, LoadStep, EnableStep
  <2>3. q[2] \in Pending(t)' /\ q[3] \in Pending(t)' /\ todo'[t] = q
    BY <1>2, <2>2 DEF q, Pending
  <2>4. QED  BY <1>2, <2>0, <2>2, <2>3 DEF SwitchOrder, Begins, Pending, Powers, Loads, Enables
<1>4. CASE r.op = "methodPumpOn"
  <2>0. r.id \in Pump /\ r.raw \in Nat /\ Switches(t, r.id) /\ PercentArg(r.raw) \in Nat
    BY <1>1, <1>4 DEF Request, Switches, PercentArg
  <2>1. q = << PowerStep(r.id, TRUE), LoadStep(r.id), EnableStep(r.id, TRUE),
               [do |-> "testNode", id |-> r.id, val |-> PercentArg(r.raw)] >>
    BY <1>4, <2>0, MethodPumpSteps DEF Steps
  <2> HIDE DEF q
  <2>2. /\ DOMAIN q = 1..4 /\ q[4].do = "testNode"
        /\ Powers(q[1], r.id, TRUE) /\ Loads(q[2], r.id) /\ Enables(q[3], r.id, TRUE)
    BY <2>1 DEF Powers, Loads, Enables, PowerStep, LoadStep, EnableStep
  <2>3. q[2] \in Pending(t)' /\ q[3] \in Pending(t)' /\ todo'[t] = q
    BY <1>2, <2>2 DEF q, Pending
  <2>4. QED  BY <1>2, <2>0, <2>2, <2>3 DEF SwitchOrder, Begins, Pending, Powers, Loads, Enables
<1>5. CASE r.op = "pumpOff"
  <2>0. r.id \in Pump /\ Switches(t, r.id)
    BY <1>1, <1>5 DEF Request, Switches
  <2>1. q = << EnableStep(r.id, FALSE), PowerStep(r.id, FALSE) >>
    BY <1>5 DEF Steps, pumpOff, PowerStep, EnableStep
  <2> HIDE DEF q
  <2>2. /\ DOMAIN q = 1..2 /\ Len(q) = 2
        /\ Enables(q[1], r.id, FALSE) /\ Powers(q[2], r.id, FALSE)
    BY <2>1 DEF Powers, Enables, PowerStep, EnableStep
  <2>3. todo'[t] = q
    BY <1>2 DEF q
  <2>4. QED  BY <1>2, <2>0, <2>2, <2>3 DEF SwitchOrder, Begins, Pending, Powers, Enables
<1>6. CASE r.op \notin {"pumpOn", "methodPumpOn", "pumpOff"}
  <2>1. \A j \in DOMAIN q : q[j].do \notin {"switchPump", "sendPump"}
    <3>1. CASE r.op = "methodHeaterOn"
      <4>1. r.temp \in Temp
        BY <1>1, <3>1 DEF Request
      <4>2. q = << [do |-> "switchHeater", on |-> TRUE], [do |-> "loadTemp"],
                   [do |-> "sendHeater", on |-> TRUE],
                   [do |-> "storeTemp", val |-> r.temp], [do |-> "testHeater", val |-> r.temp] >>
        BY <3>1, <4>1, MethodHeaterSteps DEF Steps
      <4> HIDE DEF q
      <4>3. QED  BY <4>2
    <3>2. CASE r.op # "methodHeaterOn"
      BY <1>1, <1>6, <3>2
      DEF Request, Steps, setPumpPercent, heaterOn, heaterOff, setHeaterTemp, switchLamp
    <3>3. QED  BY <3>1, <3>2
  <2> HIDE DEF q
  <2>2. todo'[t] = q
    BY <1>2 DEF q
  <2>3. q \in Seq(Step)
    BY <1>1, RequestSequences, FreeIsStep DEF q
  <2>4. QED  BY <1>2, <2>1, <2>2, <2>3 DEF SwitchOrder, Begins, Pending, Powers, Enables
<1>7. QED  BY <1>2, <1>3, <1>4, <1>5, <1>6

LEMMA SwitchOrderRun ==
  ASSUME TypeOK, NEW t \in Thread, SwitchOrder(t), Run(t)
  PROVE  SwitchOrder(t)' /\ \A u \in Thread \ {t} : todo'[u] = todo[u]
<1>1. PICK s \in Seq(Step) : Continue(t, s) /\ Expands(Head(todo[t]), s)
  BY RunExpands
<1>2. todo[t] # <<>> /\ todo[t] \in Seq(Step) /\ Head(todo[t]) = todo[t][1] /\ Len(todo[t]) \in Nat \ {0}
  BY RunExpands DEF TypeOK
<1>3. /\ \A j \in 1..Len(s) : s[j].do \notin {"switchPump", "sendPump"}
      /\ Head(todo[t]).do = "sendPump" => s = <<>>
  BY <1>1 DEF Expands
<1>4. /\ todo'[t] \in Seq(Step)
      /\ Len(todo'[t]) = Len(s) + Len(todo[t]) - 1
      /\ \A j \in 1..Len(s) : todo'[t][j] = s[j]
      /\ \A j \in 2..Len(todo[t]) : todo'[t][Len(s) + j - 1] = todo[t][j]
      /\ \A j \in DOMAIN todo'[t] :
           j \in 1..Len(s) \/ \E m \in 2..Len(todo[t]) : j = Len(s) + m - 1
      /\ \A u \in Thread \ {t} : todo'[u] = todo[u]
  BY <1>1, <1>2, Continued
<1>5. DOMAIN todo[t] = 1..Len(todo[t])
  BY <1>2
<1> SUFFICES ASSUME NEW j \in DOMAIN todo'[t], NEW p \in Pump,
                    todo'[t][j].do \in {"switchPump", "sendPump"}, todo'[t][j].id = p
             PROVE  /\ Switches(t, p)
                    /\ ~Powers(todo'[t][j], p, TRUE) /\ ~Enables(todo'[t][j], p, FALSE)
                    /\ Powers(todo'[t][j], p, FALSE) => j = Len(todo'[t]) /\ j = 1
  BY <1>4 DEF SwitchOrder, Powers, Enables
<1>6. PICK m \in 2..Len(todo[t]) : j = Len(s) + m - 1
  BY <1>3, <1>4
<1>7. todo'[t][j] = todo[t][m] /\ m \in DOMAIN todo[t] /\ m # 1
  BY <1>4, <1>5, <1>6
<1>8. Switches(t, p) /\ ~Powers(todo[t][m], p, TRUE) /\ ~Enables(todo[t][m], p, FALSE)
  BY <1>7 DEF SwitchOrder
<1>9. ASSUME Powers(todo[t][m], p, FALSE)
      PROVE  j = Len(todo'[t]) /\ j = 1
  <2>1. m = Len(todo[t]) /\ m = 2 /\ Enables(todo[t][1], p, FALSE)
    BY <1>7, <1>9 DEF SwitchOrder
  <2>2. s = <<>> /\ Len(s) = 0
    BY <1>2, <1>3, <2>1 DEF Enables
  <2>3. QED  BY <1>4, <1>6, <2>1, <2>2
<1>10. QED  BY <1>7, <1>8, <1>9

LEMMA PendingAfter ==
  ASSUME TypeOK, NEW t \in Thread, todo[t] # <<>>, NEW s \in Seq(Step), Continue(t, s)
  PROVE  /\ \A x \in Pending(t)' :
              (\E j \in 1..Len(s) : x = s[j]) \/ \E m \in 2..Len(todo[t]) : x = todo[t][m]
         /\ \A m \in 2..Len(todo[t]) : todo[t][m] \in Pending(t)'
         /\ \A j \in 1..Len(s) : s[j] \in Pending(t)'
         /\ todo'[t] # <<>> => todo'[t][1] = IF s = <<>> THEN todo[t][2] ELSE s[1]
         /\ todo'[t] # <<>> /\ s = <<>> => 2 \in 2..Len(todo[t])
<1>1. /\ todo'[t] \in Seq(Step)
      /\ Len(todo'[t]) = Len(s) + Len(todo[t]) - 1
      /\ \A j \in 1..Len(s) : todo'[t][j] = s[j]
      /\ \A j \in 2..Len(todo[t]) : todo'[t][Len(s) + j - 1] = todo[t][j]
      /\ \A j \in DOMAIN todo'[t] :
           j \in 1..Len(s) \/ \E m \in 2..Len(todo[t]) : j = Len(s) + m - 1
  BY Continued
<1>2. /\ Len(s) \in Nat /\ Len(todo[t]) \in Nat \ {0} /\ (s = <<>> <=> Len(s) = 0)
      /\ DOMAIN todo'[t] = 1..Len(todo'[t])
  BY <1>1 DEF TypeOK
<1>3. /\ \A m \in 2..Len(todo[t]) : Len(s) + m - 1 \in DOMAIN todo'[t]
      /\ \A j \in 1..Len(s) : j \in DOMAIN todo'[t]
  BY <1>1, <1>2
<1>4. todo'[t] # <<>> /\ s = <<>> => 2 \in 2..Len(todo[t]) /\ Len(s) + 2 - 1 = 1
  BY <1>1, <1>2
<1>5. s # <<>> => 1 \in 1..Len(s)
  BY <1>2
<1>6. ASSUME NEW x \in Pending(t)'
      PROVE  (\E j \in 1..Len(s) : x = s[j]) \/ \E m \in 2..Len(todo[t]) : x = todo[t][m]
  <2>1. PICK j \in DOMAIN todo'[t] : x = todo'[t][j]
    BY DEF Pending
  <2>2. QED  BY <1>1, <2>1
<1>7. /\ \A m \in 2..Len(todo[t]) : todo[t][m] \in Pending(t)'
      /\ \A j \in 1..Len(s) : s[j] \in Pending(t)'
  BY <1>1, <1>3 DEF Pending
<1>8. todo'[t] # <<>> => todo'[t][1] = IF s = <<>> THEN todo[t][2] ELSE s[1]
  BY <1>1, <1>4, <1>5
<1>9. QED  BY <1>4, <1>6, <1>7, <1>8


\* A step that expands to nothing.
LEMMA Popped ==
  ASSUME TypeOK, NEW t \in Thread, todo[t] # <<>>, Continue(t, <<>>)
  PROVE  /\ \A x \in Pending(t)' : \E m \in 2..Len(todo[t]) : x = todo[t][m]
         /\ \A x \in Pending(t)' : x \in Pending(t)
         /\ \A m \in 2..Len(todo[t]) : m \in DOMAIN todo[t] /\ todo[t][m] \in Pending(t)'
         /\ todo'[t] # <<>> => todo'[t][1] = todo[t][2] /\ 2 \in DOMAIN todo[t]
         /\ \A u \in Thread \ {t} : todo'[u] = todo[u] /\ Pending(u)' = Pending(u)
<1> DEFINE s == <<>>
<1>1. s \in Seq(Step) /\ Len(s) = 0 /\ s = <<>> /\ Continue(t, s)
  OBVIOUS
<1> HIDE DEF s
<1>2. /\ \A x \in Pending(t)' :
           (\E j \in 1..Len(s) : x = s[j]) \/ \E m \in 2..Len(todo[t]) : x = todo[t][m]
      /\ \A m \in 2..Len(todo[t]) : todo[t][m] \in Pending(t)'
      /\ todo'[t] # <<>> => todo'[t][1] = IF s = <<>> THEN todo[t][2] ELSE s[1]
      /\ todo'[t] # <<>> /\ s = <<>> => 2 \in 2..Len(todo[t])
  BY <1>1, PendingAfter
<1>3. \A m \in 2..Len(todo[t]) : m \in DOMAIN todo[t] /\ todo[t][m] \in Pending(t)
  <2>1. todo[t] \in Seq(Step) /\ DOMAIN todo[t] = 1..Len(todo[t]) /\ Len(todo[t]) \in Nat
    BY DEF TypeOK
  <2>2. \A m \in 2..Len(todo[t]) : m \in DOMAIN todo[t]
    BY <2>1
  <2>3. QED  BY <2>2 DEF Pending
<1>4. 1..Len(s) = {}
  BY <1>1
<1>5. \A x \in Pending(t)' : \E m \in 2..Len(todo[t]) : x = todo[t][m]
  BY <1>2, <1>4
<1>6. \A u \in Thread \ {t} : todo'[u] = todo[u]
  BY <1>1, Continued
<1>7. \A u \in Thread \ {t} : todo'[u] = todo[u] /\ Pending(u)' = Pending(u)
  BY <1>6 DEF Pending
<1>8. QED  BY <1>1, <1>2, <1>3, <1>5, <1>7

LEMMA SwitchesPending ==
  ASSUME NEW u \in Thread, SwitchOrder(u), NEW p \in Pump, NEW x \in Pending(u),
         x.do \in {"switchPump", "sendPump"}, x.id = p
  PROVE  Switches(u, p)
<1>1. PICK j \in DOMAIN todo[u] : x = todo[u][j]
  BY DEF Pending
<1>2. QED  BY <1>1 DEF SwitchOrder

-----------------------------------------------------------------------------
(* A pump that runs is commanded on, if no command is lost and one thread   *)
(* switches it.                                                            *)

Owned(p) == \A t, u \in Thread : Switches(t, p) /\ Switches(u, p) => t = u

\* What runs has power, and is past its boot: a command to it is heard.
Awake(p) == pumpRuns[p] => power[NodeOf(p)] /\ booting[NodeOf(p)] = NoThread

\* A pump does not run when it is about to be switched off, and is commanded on
\* when it is about to be enabled.
RunInv(p) ==
  /\ pumpRuns[p] => pumpStatus[p]
  /\ \A t \in Thread : todo[t] # <<>> =>
       /\ Powers(todo[t][1], p, FALSE) => ~pumpRuns[p]
       /\ (\E s \in Pending(t) : Enables(s, p, TRUE)) => pumpStatus[p] \/ Powers(todo[t][1], p, TRUE)

LEMMA AwakeGPIO ==
  ASSUME TypeOK, NEW p \in Pump, Awake(p), NEW t \in Thread, NEW n \in Node, NEW on \in BOOLEAN,
         SwitchGPIO(t, n, on)
  PROVE  Awake(p)' /\ (pumpRuns'[p] => pumpRuns[p])
BY PumpNodes DEF TypeOK, Awake, SwitchGPIO

LEMMA AwakeBooted ==
  ASSUME TypeOK, NEW p \in Pump, Awake(p), NEW n \in Node, NEW heard, Booted(n, heard),
         UNCHANGED <<power, pumpRuns>>
  PROVE  Awake(p)'
BY PumpNodes DEF TypeOK, Awake, Booted

LEMMA AwakeSendPump ==
  ASSUME TypeOK, NEW p \in Pump, Awake(p), NEW t \in Thread, SendPump(t)
  PROVE  Awake(p)'
<1> DEFINE h == Head(todo[t])
           n == NodeOf(h.id)
<1>1. h.id \in Pump /\ n \in Node
  BY HeadStep, StepFields, PumpNodes DEF SendPump, At
<1>2. PICK heard \in Hears(n) :
        /\ Booted(n, heard)
        /\ pumpRuns' = IF heard THEN [pumpRuns EXCEPT ![h.id] = h.on] ELSE pumpRuns
  BY DEF SendPump
<1>3. power' = power
  BY DEF SendPump
<1>4. CASE heard
  <2>1. power[n] /\ booting' = [booting EXCEPT ![n] = NoThread]
    BY <1>2, <1>4 DEF Hears, Booted
  <2>2. booting'[n] = NoThread /\ \A m \in Node \ {n} : booting'[m] = booting[m]
    BY <1>1, <2>1 DEF TypeOK
  <2>3. \A q \in Pump : q # h.id => pumpRuns'[q] = pumpRuns[q]
    BY <1>2, <1>4 DEF TypeOK
  <2>4. QED  BY <1>1, <1>3, <2>1, <2>2, <2>3, PumpNodes DEF Awake
<1>5. CASE ~heard
  BY <1>2, <1>3, <1>5 DEF Booted, Awake
<1>6. QED  BY <1>4, <1>5

LEMMA AwakeRun ==
  ASSUME TypeOK, NEW p \in Pump, Awake(p), NEW t \in Thread, Run(t)
  PROVE  Awake(p)' /\ (~SendPump(t) => (pumpRuns'[p] => pumpRuns[p]))
<1> DEFINE h == Head(todo[t])
<1>1. CASE \/ SwitchPump(t) \/ LoadPercent(t) \/ TestNode(t) \/ StorePercent(t) \/ StoreHeater(t)
           \/ LoadTemp(t) \/ StoreTemp(t) \/ TestHeater(t) \/ SendLamp(t)
  BY <1>1 DEF SwitchPump, LoadPercent, TestNode, StorePercent, StoreHeater, LoadTemp, StoreTemp,
     TestHeater, SendLamp, nodes, Awake
<1>2. CASE SwitchPumpGPIO(t)
  <2>1. h.id \in Pump /\ NodeOf(h.id) \in Node
    BY <1>2, HeadStep, StepFields, PumpNodes DEF SwitchPumpGPIO, At
  <2>2. UNCHANGED <<power, nodes>> \/ \E on \in BOOLEAN : SwitchGPIO(t, NodeOf(h.id), on)
    BY <1>2 DEF SwitchPumpGPIO
  <2>3. QED  BY <2>1, <2>2, AwakeGPIO DEF nodes, Awake
<1>3. CASE SwitchHeater(t)
  <2>1. h.on \in BOOLEAN
    BY <1>3, HeadStep, StepFields DEF SwitchHeater, At
  <2>2. UNCHANGED <<power, nodes>> \/ SwitchGPIO(t, HeaterNode, h.on)
    BY <1>3 DEF SwitchHeater
  <2>3. QED  BY <2>1, <2>2, AwakeGPIO, HeaterNodeType DEF nodes, Awake
<1>4. CASE Wake(t)
  <2>1. h.node \in Node
    BY <1>4, HeadStep, StepFields DEF Wake, At
  <2>2. UNCHANGED booting \/ booting' = [booting EXCEPT ![h.node] = NoThread]
    BY <1>4 DEF Wake
  <2>3. QED  BY <1>4, <2>1, <2>2, PumpNodes DEF Wake, Awake, TypeOK
<1>5. CASE SendPump(t)
  BY <1>5, AwakeSendPump
<1>6. CASE SendPercent(t)
  <2>1. NodeOf(h.id) \in Node
    BY <1>6, HeadStep, StepFields, PumpNodes DEF SendPercent, At
  <2>2. QED  BY <1>6, <2>1, AwakeBooted DEF SendPercent
<1>7. CASE SendHeater(t) \/ SendTemp(t)
  BY <1>7, AwakeBooted, HeaterNodeType DEF SendHeater, SendTemp
<1>8. QED  BY <1>1, <1>2, <1>3, <1>4, <1>5, <1>6, <1>7 DEF Run

\* Steps that neither switch nor enable a pump.
LEMMA RunQuiet ==
  ASSUME TypeOK, NEW p \in Pump, RunInv(p), NEW t \in Thread, SwitchOrder(t), Run(t),
         Head(todo[t]).do \notin {"switchPump", "sendPump"},
         pumpStatus' = pumpStatus, pumpRuns'[p] => pumpRuns[p]
  PROVE  RunInv(p)'
<1>1. PICK s \in Seq(Step) : Continue(t, s) /\ Expands(Head(todo[t]), s)
  BY RunExpands
<1>2. todo[t] # <<>> /\ todo[t] \in Seq(Step) /\ Head(todo[t]) = todo[t][1]
      /\ DOMAIN todo[t] = 1..Len(todo[t])
  BY RunExpands DEF TypeOK
<1>3. /\ \A j \in 1..Len(s) : s[j].do \notin {"switchPump", "sendPump"}
      /\ s # <<>> => 1 \in 1..Len(s)
  BY <1>1 DEF Expands
<1>4. /\ \A x \in Pending(t)' :
           (\E j \in 1..Len(s) : x = s[j]) \/ \E m \in 2..Len(todo[t]) : x = todo[t][m]
      /\ todo'[t] # <<>> => todo'[t][1] = IF s = <<>> THEN todo[t][2] ELSE s[1]
      /\ todo'[t] # <<>> /\ s = <<>> => 2 \in 2..Len(todo[t])
  BY <1>1, <1>2, PendingAfter
<1>5. \A m \in 2..Len(todo[t]) : m \in DOMAIN todo[t] /\ todo[t][m] \in Pending(t)
  BY <1>2 DEF Pending
<1>6. \A u \in Thread \ {t} : todo'[u] = todo[u] /\ Pending(u)' = Pending(u)
  BY <1>1, <1>2, Continued DEF Pending
<1>7. ASSUME todo'[t] # <<>>, Powers(todo'[t][1], p, FALSE)
      PROVE  FALSE
  <2>1. s = <<>>
    BY <1>3, <1>4, <1>7 DEF Powers
  <2>2. 2 \in DOMAIN todo[t] /\ Powers(todo[t][2], p, FALSE)
    BY <1>4, <1>5, <1>7, <2>1
  <2>3. Enables(todo[t][1], p, FALSE)
    BY <2>2 DEF SwitchOrder, Powers, Enables
  <2>4. QED  BY <1>2, <2>3 DEF Enables
<1>8. ASSUME NEW x \in Pending(t)', Enables(x, p, TRUE)
      PROVE  pumpStatus[p]
  <2>1. x \in Pending(t)
    BY <1>3, <1>4, <1>5, <1>8 DEF Enables
  <2>2. QED  BY <1>2, <1>8, <2>1 DEF RunInv, Powers
<1>9. QED  BY <1>6, <1>7, <1>8 DEF RunInv

\* switchPumpNode records what it was told.
LEMMA RunSwitch ==
  ASSUME TypeOK, NEW p \in Pump, Owned(p), RunInv(p), \A u \in Thread : SwitchOrder(u),
         NEW t \in Thread, SwitchPump(t)
  PROVE  RunInv(p)'
<1> DEFINE h == todo[t][1]
           s == << [do |-> "pumpGPIO", id |-> h.id, was |-> getPumpLONState(pumpStatus, NodeOf(h.id))] >>
<1>1. /\ todo[t] # <<>> /\ todo[t] \in Seq(Step) /\ Head(todo[t]) = h
      /\ DOMAIN todo[t] = 1..Len(todo[t]) /\ 1 \in DOMAIN todo[t]
  BY DEF SwitchPump, At, TypeOK
<1>2. /\ h.do = "switchPump" /\ h.id \in Pump /\ h.on \in BOOLEAN
      /\ Continue(t, s) /\ pumpRuns' = pumpRuns
      /\ pumpStatus' = [pumpStatus EXCEPT ![h.id] = h.on]
  BY <1>1, HeadStep, StepFields DEF SwitchPump, At, nodes
<1>3. s \in Seq(Step) /\ Len(s) = 1 /\ s[1].do = "pumpGPIO" /\ s # <<>>
  <2>1. [do |-> "pumpGPIO", id |-> h.id, was |-> getPumpLONState(pumpStatus, NodeOf(h.id))] \in Step
    BY <1>2 DEF Step, getPumpLONState
  <2>2. QED  BY <2>1
<1> HIDE DEF s
<1>4. /\ \A x \in Pending(t)' :
           (\E j \in 1..Len(s) : x = s[j]) \/ \E m \in 2..Len(todo[t]) : x = todo[t][m]
      /\ todo'[t] # <<>> => todo'[t][1] = s[1]
  BY <1>1, <1>2, <1>3, PendingAfter
<1>5. \A u \in Thread \ {t} : todo'[u] = todo[u] /\ Pending(u)' = Pending(u)
  BY <1>1, <1>2, <1>3, Continued DEF Pending
<1>6. \A x \in Pending(t)' : Enables(x, p, TRUE) => \E m \in 2..Len(todo[t]) : x = todo[t][m]
  BY <1>3, <1>4 DEF Enables
<1>7. \A x \in Pending(t)' : Enables(x, p, TRUE) => x \in Pending(t)
  <2>1. \A m \in 2..Len(todo[t]) : todo[t][m] \in Pending(t)
    BY <1>1 DEF Pending
  <2>2. QED  BY <1>6, <2>1
<1>8. todo'[t] # <<>> => ~Powers(todo'[t][1], p, FALSE)
  BY <1>3, <1>4 DEF Powers
<1>9. CASE h.id # p
  <2>1. pumpStatus'[p] = pumpStatus[p] /\ ~Powers(h, p, TRUE)
    BY <1>2, <1>9 DEF TypeOK, Powers
  <2>2. QED  BY <1>1, <1>2, <1>5, <1>7, <1>8, <2>1 DEF RunInv
<1>10. CASE h.id = p /\ h.on
  <2>1. pumpStatus'[p]
    BY <1>2, <1>10 DEF TypeOK
  <2>2. QED  BY <1>2, <1>5, <1>8, <2>1 DEF RunInv
<1>11. CASE h.id = p /\ ~h.on
  <2>1. Powers(h, p, FALSE) /\ Switches(t, p)
    BY <1>1, <1>2, <1>11 DEF Powers, SwitchOrder
  <2>2. ~pumpRuns[p] /\ Len(todo[t]) = 1
    BY <1>1, <2>1 DEF RunInv, SwitchOrder
  <2>3. \A x \in Pending(t)' : ~Enables(x, p, TRUE)
    <3>1. 2..Len(todo[t]) = {}
      BY <2>2
    <3>2. QED  BY <1>6, <3>1
  <2>4. \A u \in Thread \ {t} : \A x \in Pending(u) : ~Enables(x, p, TRUE)
    <3>1. \A u \in Thread \ {t} : ~Switches(u, p)
      BY <2>1 DEF Owned
    <3>2. QED  BY <3>1, SwitchesPending DEF Enables
  <2>5. QED  BY <1>2, <1>5, <1>8, <2>2, <2>3, <2>4 DEF RunInv
<1>12. QED  BY <1>2, <1>9, <1>10, <1>11

\* A running pump hears that it is disabled.
LEMMA RunSend ==
  ASSUME TypeOK, ~Lossy, NEW p \in Pump, Owned(p), Awake(p), RunInv(p),
         \A u \in Thread : SwitchOrder(u), NEW t \in Thread, SendPump(t)
  PROVE  RunInv(p)'
<1> DEFINE h == todo[t][1]
<1>1. /\ todo[t] # <<>> /\ todo[t] \in Seq(Step) /\ Head(todo[t]) = h
      /\ DOMAIN todo[t] = 1..Len(todo[t]) /\ 1 \in DOMAIN todo[t] /\ <<>> \in Seq(Step)
  BY DEF SendPump, At, TypeOK
<1>2. /\ h.do = "sendPump" /\ h.id \in Pump /\ h.on \in BOOLEAN
      /\ Continue(t, <<>>) /\ pumpStatus' = pumpStatus
  BY <1>1, HeadStep, StepFields DEF SendPump, At, status
<1>3. PICK heard \in Hears(NodeOf(h.id)) :
        pumpRuns' = IF heard THEN [pumpRuns EXCEPT ![h.id] = h.on] ELSE pumpRuns
  BY <1>1 DEF SendPump
<1>4. /\ \A x \in Pending(t)' : x \in Pending(t)
      /\ todo'[t] # <<>> => todo'[t][1] = todo[t][2] /\ 2 \in DOMAIN todo[t]
      /\ \A u \in Thread \ {t} : todo'[u] = todo[u] /\ Pending(u)' = Pending(u)
  BY <1>1, <1>2, Popped
<1>7. \A x \in Pending(t)' : Enables(x, p, TRUE) => pumpStatus[p]
  BY <1>1, <1>2, <1>4 DEF RunInv, Powers
<1>8. todo'[t] # <<>> /\ Powers(todo'[t][1], p, FALSE) => Enables(h, p, FALSE)
  BY <1>1, <1>4 DEF SwitchOrder, Powers, Enables
<1>9. CASE h.id # p
  <2>1. pumpRuns'[p] = pumpRuns[p] /\ ~Enables(h, p, FALSE)
    BY <1>2, <1>3, <1>9 DEF TypeOK, Enables
  <2>2. QED  BY <1>2, <1>4, <1>7, <1>8, <2>1 DEF RunInv
<1>10. CASE h.id = p /\ h.on
  <2>1. /\ Enables(h, p, TRUE) /\ h \in Pending(t) /\ ~Powers(h, p, TRUE)
        /\ ~Enables(h, p, FALSE) /\ Switches(t, p)
    BY <1>1, <1>2, <1>10 DEF Enables, Powers, Pending, SwitchOrder
  <2>2. pumpStatus[p]
    BY <1>1, <2>1 DEF RunInv
  <2>3. \A u \in Thread \ {t} : todo[u] # <<>> => ~Powers(todo[u][1], p, FALSE)
    <3>1. \A u \in Thread \ {t} : ~Switches(u, p)
      BY <2>1 DEF Owned
    <3>2. \A u \in Thread : todo[u] # <<>> => 1 \in DOMAIN todo[u]
      BY DEF TypeOK
    <3>3. QED  BY <3>1, <3>2 DEF SwitchOrder, Powers
  <2>4. QED  BY <1>2, <1>4, <1>7, <1>8, <2>1, <2>2, <2>3 DEF RunInv
<1>11. CASE h.id = p /\ ~h.on
  <2>1. ~pumpRuns'[p]
    <3>1. CASE ~pumpRuns[p]
      BY <1>2, <1>3, <1>11, <3>1 DEF TypeOK
    <3>2. CASE pumpRuns[p]
      <4>1. power[NodeOf(p)] /\ booting[NodeOf(p)] = NoThread
        BY <3>2 DEF Awake
      <4>2. heard
        BY <1>3, <1>11, <4>1 DEF Hears
      <4>3. QED  BY <1>2, <1>3, <1>11, <4>2 DEF TypeOK
    <3>3. QED  BY <3>1, <3>2
  <2>2. QED  BY <1>2, <1>4, <1>7, <2>1 DEF RunInv
<1>12. QED  BY <1>2, <1>9, <1>10, <1>11


RunsInv ==
  /\ \A t \in Thread : SwitchOrder(t)
  /\ \A p \in Pump : Awake(p)
  /\ \A p \in Pump : Owned(p) => RunInv(p)

LEMMA SwitchOrderSame ==
  ASSUME NEW u \in Thread, SwitchOrder(u), todo'[u] = todo[u]
  PROVE  SwitchOrder(u)' /\ Pending(u)' = Pending(u)
BY DEF SwitchOrder, Pending, Powers, Enables, Loads

LEMMA RunsInit == Init => RunsInv
BY PumpNodes DEF Init, RunsInv, SwitchOrder, Awake, RunInv

LEMMA RunsRun ==
  ASSUME TypeOK, RunsInv, ~Lossy, NEW t \in Thread, Run(t)
  PROVE  RunsInv'
<1>1. \A u \in Thread : SwitchOrder(u)'
  <2>1. SwitchOrder(t)' /\ \A u \in Thread \ {t} : todo'[u] = todo[u]
    BY SwitchOrderRun DEF RunsInv
  <2>2. QED  BY <2>1, SwitchOrderSame DEF RunsInv
<1>2. ASSUME NEW p \in Pump
      PROVE  Awake(p)' /\ (~SendPump(t) => (pumpRuns'[p] => pumpRuns[p]))
  BY AwakeRun DEF RunsInv
<1>3. ASSUME NEW p \in Pump, Owned(p)
      PROVE  RunInv(p)'
  <2>1. CASE SwitchPump(t)
    BY <1>3, <2>1, RunSwitch DEF RunsInv
  <2>2. CASE SendPump(t)
    BY <1>3, <2>2, RunSend DEF RunsInv
  <2>3. CASE ~SwitchPump(t) /\ ~SendPump(t)
    <3>1. Head(todo[t]).do \notin {"switchPump", "sendPump"} /\ pumpStatus' = pumpStatus
      BY <2>3 DEF Run, At, SwitchPumpGPIO, Wake, LoadPercent, TestNode, StorePercent,
         SwitchHeater, StoreHeater, LoadTemp, StoreTemp, TestHeater, SendPercent, SendHeater,
         SendTemp, SendLamp, status
    <3>2. pumpRuns'[p] => pumpRuns[p]
      BY <1>2, <2>3
    <3>3. QED  BY <1>3, <3>1, <3>2, RunQuiet DEF RunsInv
  <2>4. QED  BY <2>1, <2>2, <2>3
<1>4. QED  BY <1>1, <1>2, <1>3 DEF RunsInv

LEMMA RunsIssue ==
  ASSUME TypeOK, RunsInv, NEW t \in Thread, NEW r \in Menu[t], Issue(t, r)
  PROVE  RunsInv'
<1>1. SwitchOrder(t)' /\ Begins(t)' /\ \A u \in Thread \ {t} : todo'[u] = todo[u]
  BY SwitchOrderIssue
<1>2. UNCHANGED <<pumpStatus, pumpRuns, power, booting>>
  BY DEF Issue, status, nodes
<1>3. \A u \in Thread : SwitchOrder(u)'
  BY <1>1, SwitchOrderSame DEF RunsInv
<1>4. \A p \in Pump : Awake(p)'
  BY <1>2 DEF RunsInv, Awake
<1>5. ASSUME NEW p \in Pump, RunInv(p)
      PROVE  RunInv(p)'
  <2>1. todo'[t] # <<>> =>
          /\ ~Powers(todo'[t][1], p, FALSE)
          /\ (\E s \in Pending(t)' : Enables(s, p, TRUE)) => Powers(todo'[t][1], p, TRUE)
    BY <1>1 DEF Begins
  <2>2. \A u \in Thread \ {t} : todo'[u] = todo[u] /\ Pending(u)' = Pending(u)
    BY <1>1 DEF Pending
  <2>3. QED  BY <1>2, <1>5, <2>1, <2>2 DEF RunInv
<1>6. QED  BY <1>3, <1>4, <1>5 DEF RunsInv

LEMMA RunsStep == TypeOK /\ RunsInv /\ ~Lossy /\ [Next]_vars => RunsInv'
<1>1. ASSUME RunsInv, UNCHANGED vars
      PROVE  RunsInv'
  <2>1. \A u \in Thread : SwitchOrder(u)' /\ Pending(u)' = Pending(u)
    BY <1>1, SwitchOrderSame DEF vars, RunsInv
  <2>2. UNCHANGED <<todo, pumpStatus, pumpRuns, power, booting>>
    BY <1>1 DEF vars, status, nodes
  <2>3. QED  BY <1>1, <2>1, <2>2 DEF RunsInv, Awake, RunInv
<1>2. QED  BY <1>1, RunsRun, RunsIssue DEF Next

\* A pump that runs is commanded on, so that its node keeps its power: on a line that
\* loses no command, if one thread at most switches each pump, for any number of
\* threads, pumps and shared nodes, also while a sibling is switched, and although a
\* command to a node that boots may not be heard.
THEOREM CommandedWhenRunning ==
  ASSUME ~Lossy, \A p \in Pump : Owned(p)
  PROVE  Spec => []RunningIsCommanded
<1>1. RunsInv => RunningIsCommanded
  BY DEF RunsInv, RunInv, RunningIsCommanded
<1>2. QED
  BY <1>1, Typing, RunsInit, RunsStep, PTL DEF Spec

\* Under the same conditions no step cuts the power of a node while one of its pumps
\* runs: switchPumpNode switches the line off only if all pumps of the node are
\* commanded off, and then none runs.
THEOREM PowerKept ==
  ASSUME ~Lossy, \A p \in Pump : Owned(p)
  PROVE  Spec => NoPowerCut
<1> DEFINE Kept == \A p \in Pump : pumpRuns[p] /\ power[NodeOf(p)] => power'[NodeOf(p)]
<1>1. ASSUME TypeOK, RunsInv, NEW t \in Thread, Run(t)
      PROVE  Kept
  <2>1. CASE SwitchPumpGPIO(t)
    <3> DEFINE h == Head(todo[t])
               n == NodeOf(h.id)
    <3>1. n \in Node
      BY <1>1, <2>1, HeadStep, StepFields, PumpNodes DEF SwitchPumpGPIO, At
    <3>2. \/ power' = power
          \/ power' = [power EXCEPT ![n] = TRUE]
          \/ power' = [power EXCEPT ![n] = FALSE] /\ ~getPumpLONState(pumpStatus, n)
      BY <2>1 DEF SwitchPumpGPIO, SwitchGPIO, PumpGPIO
    <3>3. \A p \in Pump : pumpRuns[p] => pumpStatus[p]
      BY <1>1 DEF RunsInv, RunInv
    <3>4. QED  BY <1>1, <3>1, <3>2, <3>3, PumpNodes DEF getPumpLONState, TypeOK
  <2>2. CASE SwitchHeater(t)
    <3>1. \/ power' = power
          \/ \E on : power' = [power EXCEPT ![HeaterNode] = on]
      BY <2>2 DEF SwitchHeater, SwitchGPIO
    <3>2. QED  BY <1>1, <3>1, PumpNodes DEF TypeOK
  <2>3. CASE ~SwitchPumpGPIO(t) /\ ~SwitchHeater(t)
    <3>1. power' = power
      BY <1>1, <2>3 DEF Run, SwitchPump, Wake, LoadPercent, TestNode, StorePercent, StoreHeater,
         LoadTemp, StoreTemp, TestHeater, SendPump, SendPercent, SendHeater, SendTemp, SendLamp
    <3>2. QED  BY <3>1
  <2>4. QED  BY <2>1, <2>2, <2>3
<1>2. TypeOK /\ RunsInv /\ [Next]_vars => [Kept]_vars
  <2>1. ASSUME NEW t \in Thread, NEW r \in Menu[t], Issue(t, r)
        PROVE  Kept
    BY <2>1 DEF Issue
  <2>2. QED  BY <1>1, <2>1 DEF Next
<1>3. QED
  BY <1>2, Typing, RunsInit, RunsStep, PTL DEF Spec, NoPowerCut


-----------------------------------------------------------------------------
(* The pumps of a node that one thread drives.                             *)

\* Only who may ask about a node's pumps has steps that concern them.
Driven(t) ==
  \A x \in Pending(t) :
    x.do \in {"switchPump", "pumpGPIO", "loadPercent", "testNode", "storePercent",
              "sendPercent", "sendPump"} => Drives(t, NodeOf(x.id))

\* Steps that act on what was just read or recorded come next, or not at all.
Halves == {"pumpGPIO", "storePercent", "sendPercent"}
AtOnce(t) == \A j \in DOMAIN todo[t] : todo[t][j].do \in Halves => j = 1

\* The percent of pump p is still to be sent.
ToCome(x, p) ==
  \/ Loads(x, p)
  \/ x.do = "testNode" /\ x.id = p /\ x.val <= MaxPercent
  \/ x.do = "storePercent" /\ x.id = p /\ x.val <= MaxPercent /\ x.isOn
  \/ x.do = "sendPercent" /\ x.id = p

\* The pump is still to be enabled, or about to be switched off.
ToEnable(x, p) == Enables(x, p, TRUE) \/ Powers(x, p, FALSE)

\* Who powered the node sleeps until it has booted.
Boots(p) ==
  LET n == NodeOf(p) IN
    booting[n] # NoThread =>
      /\ Drives(booting[n], n) /\ todo[booting[n]] # <<>>
      /\ todo[booting[n]][1].do = "sleep" /\ todo[booting[n]][1].node = n

LevelSent(p) ==
  pumpStatus[p] => \/ pumpLevel[p] = pumpPercents[p]
                   \/ \E t \in Thread : \E x \in Pending(t) : ToCome(x, p)

Enabled(p) ==
  pumpStatus[p] => pumpRuns[p] \/ \E t \in Thread : \E x \in Pending(t) : ToEnable(x, p)

\* What thread t has read or recorded holds until it acts on it.
Current(t, p) ==
  todo[t] # <<>> => LET h == todo[t][1] IN
    /\ h.do = "pumpGPIO" /\ h.id = p /\ pumpStatus[p] =>
         /\ \E x \in Pending(t) : Loads(x, p)
         /\ \E x \in Pending(t) : ToEnable(x, p)
    /\ h.do = "pumpGPIO" /\ NodeOf(h.id) = NodeOf(p) /\ p # h.id /\ pumpStatus[p] => h.was
    /\ h.do = "storePercent" /\ h.id = p => h.isOn = getPumpLONState(pumpStatus, NodeOf(p))
    /\ h.do = "sendPercent" /\ h.id = p => h.val = pumpPercents[p]

AgreeInv(p) ==
  /\ Boots(p) /\ LevelSent(p) /\ Enabled(p)
  /\ \A t \in Thread : Current(t, p)

LEMMA DrivenIssue ==
  ASSUME TypeOK, NEW t \in Thread, NEW r \in Menu[t], Issue(t, r)
  PROVE  Driven(t)' /\ AtOnce(t)' /\ \A x \in Pending(t)' : x.do \notin Halves
<1>1. r \in Request
  BY MenuAssumption
<1>2. todo'[t] = Steps(r)
  BY DEF Issue, TypeOK
<1> DEFINE q == Steps(r)
           kinds == {"switchPump", "pumpGPIO", "loadPercent", "testNode", "storePercent",
                     "sendPercent", "sendPump"}
<1>3. \A j \in DOMAIN q : /\ q[j].do \notin Halves
                          /\ q[j].do \in kinds => "id" \in DOMAIN r /\ q[j].id = r.id
  <2>1. CASE r.op \in {"pumpOn", "pumpOff", "pumpPercent"}
    <3>1. "id" \in DOMAIN r
      BY <1>1, <2>1 DEF Request
    <3>2. CASE r.op = "pumpOn"
      BY <3>1, <3>2 DEF Steps, pumpOn, Halves
    <3>3. CASE r.op = "pumpOff"
      BY <3>1, <3>3 DEF Steps, pumpOff, Halves
    <3>4. CASE r.op = "pumpPercent"
      BY <3>1, <3>4 DEF Steps, setPumpPercent, Halves
    <3>5. QED  BY <2>1, <3>2, <3>3, <3>4
  <2>2. CASE r.op = "methodPumpOn"
    <3>1. "id" \in DOMAIN r /\ r.id \in Pump /\ r.raw \in Nat /\ PercentArg(r.raw) \in Nat
      BY <1>1, <2>2 DEF Request, PercentArg
    <3>2. q = << PowerStep(r.id, TRUE), LoadStep(r.id), EnableStep(r.id, TRUE),
                 [do |-> "testNode", id |-> r.id, val |-> PercentArg(r.raw)] >>
      BY <2>2, <3>1, MethodPumpSteps DEF Steps
    <3> HIDE DEF q
    <3>3. QED  BY <3>1, <3>2 DEF PowerStep, LoadStep, EnableStep, Halves
  <2>3. CASE r.op = "methodHeaterOn"
    <3>1. r.temp \in Temp
      BY <1>1, <2>3 DEF Request
    <3>2. q = << [do |-> "switchHeater", on |-> TRUE], [do |-> "loadTemp"],
                 [do |-> "sendHeater", on |-> TRUE],
                 [do |-> "storeTemp", val |-> r.temp], [do |-> "testHeater", val |-> r.temp] >>
      BY <2>3, <3>1, MethodHeaterSteps DEF Steps
    <3> HIDE DEF q
    <3>3. QED  BY <3>2 DEF Halves
  <2>4. CASE r.op \in {"heaterOn", "heaterOff", "heaterTemp", "lampOn", "lampOff"}
    BY <2>4 DEF Steps, heaterOn, heaterOff, setHeaterTemp, switchLamp, Halves
  <2>5. QED  BY <1>1, <2>1, <2>2, <2>3, <2>4 DEF Request
<1> HIDE DEF q
<1>4. todo'[t] = q
  BY <1>2 DEF q
<1>5. Driven(t)'
  <2> SUFFICES ASSUME NEW x \in Pending(t)', x.do \in kinds
               PROVE  Drives(t, NodeOf(x.id))
    BY DEF Driven
  <2>1. PICK j \in DOMAIN q : x = q[j]
    BY <1>4 DEF Pending
  <2>2. QED  BY <1>3, <2>1 DEF Drives
<1>6. QED  BY <1>3, <1>4, <1>5 DEF AtOnce, Pending

LEMMA DrivenRun ==
  ASSUME TypeOK, NEW t \in Thread, Driven(t), AtOnce(t), Run(t)
  PROVE  Driven(t)' /\ AtOnce(t)'
<1> DEFINE kinds == {"switchPump", "pumpGPIO", "loadPercent", "testNode", "storePercent",
                     "sendPercent", "sendPump"}
<1>1. PICK s \in Seq(Step) : Continue(t, s) /\ Expands(Head(todo[t]), s)
  BY RunExpands
<1>2. todo[t] # <<>> /\ todo[t] \in Seq(Step) /\ Head(todo[t]) = todo[t][1]
      /\ DOMAIN todo[t] = 1..Len(todo[t]) /\ 1 \in DOMAIN todo[t]
  BY RunExpands DEF TypeOK
<1>3. /\ \A j \in 1..Len(s) : s[j].do \in Halves => j = 1
      /\ \A j \in 1..Len(s) : s[j].do \in kinds =>
           Head(todo[t]).do \in kinds /\ s[j].id = Head(todo[t]).id
  BY <1>1 DEF Expands, Halves
<1>4. /\ todo'[t] \in Seq(Step)
      /\ \A j \in 1..Len(s) : todo'[t][j] = s[j]
      /\ \A j \in 2..Len(todo[t]) : todo'[t][Len(s) + j - 1] = todo[t][j]
      /\ \A j \in DOMAIN todo'[t] :
           j \in 1..Len(s) \/ \E m \in 2..Len(todo[t]) : j = Len(s) + m - 1
  BY <1>1, <1>2, Continued
<1>5. /\ \A m \in 2..Len(todo[t]) : m \in DOMAIN todo[t] /\ m # 1
      /\ \A m \in DOMAIN todo[t] : todo[t][m] \in Pending(t)
  BY <1>2 DEF Pending
<1>6. AtOnce(t)'
  <2> SUFFICES ASSUME NEW j \in DOMAIN todo'[t], todo'[t][j].do \in Halves
               PROVE  j = 1
    BY DEF AtOnce
  <2>1. CASE j \in 1..Len(s)
    BY <1>3, <1>4, <2>1
  <2>2. CASE \E m \in 2..Len(todo[t]) : j = Len(s) + m - 1
    BY <1>4, <1>5, <2>2 DEF AtOnce
  <2>3. QED  BY <1>4, <2>1, <2>2
<1>7. Driven(t)'
  <2> SUFFICES ASSUME NEW x \in Pending(t)', x.do \in kinds
               PROVE  Drives(t, NodeOf(x.id))
    BY DEF Driven
  <2>1. (\E j \in 1..Len(s) : x = s[j]) \/ \E m \in 2..Len(todo[t]) : x = todo[t][m]
    BY <1>1, <1>2, PendingAfter
  <2>2. CASE \E j \in 1..Len(s) : x = s[j]
    <3>1. Head(todo[t]).do \in kinds /\ x.id = Head(todo[t]).id
      BY <1>3, <2>2
    <3>2. Head(todo[t]) \in Pending(t)
      BY <1>2, <1>5
    <3>3. QED  BY <3>1, <3>2 DEF Driven
  <2>3. CASE \E m \in 2..Len(todo[t]) : x = todo[t][m]
    BY <1>5, <2>3 DEF Driven
  <2>4. QED  BY <2>1, <2>2, <2>3
<1>8. QED  BY <1>6, <1>7

LEMMA DrivenSame ==
  ASSUME NEW u \in Thread, Driven(u), AtOnce(u), todo'[u] = todo[u]
  PROVE  Driven(u)' /\ AtOnce(u)' /\ Pending(u)' = Pending(u)
BY DEF Driven, AtOnce, Pending


\* What a step of thread t does to the steps that are left.
Moved(t, s) ==
  /\ \A x \in Pending(t) : x = todo[t][1] \/ x \in Pending(t)'
  /\ \A j \in 1..Len(s) : s[j] \in Pending(t)'
  /\ todo'[t] # <<>> =>
       IF s = <<>> THEN todo'[t][1].do \notin Halves ELSE todo'[t][1] = s[1]
  /\ \A u \in Thread \ {t} : todo'[u] = todo[u] /\ Pending(u)' = Pending(u)
  /\ \A u \in Thread : Driven(u)' /\ AtOnce(u)'

LEMMA RunMoves ==
  ASSUME TypeOK, NEW t \in Thread, \A u \in Thread : Driven(u) /\ AtOnce(u), Run(t)
  PROVE  /\ todo[t] # <<>> /\ todo[t][1] = Head(todo[t])
         /\ todo[t][1] \in Step /\ todo[t][1] \in Pending(t)
         /\ \E s \in Seq(Step) : Expands(todo[t][1], s) /\ Moved(t, s)
<1>1. PICK s \in Seq(Step) : Continue(t, s) /\ Expands(Head(todo[t]), s)
  BY RunExpands
<1>2. todo[t] # <<>> /\ todo[t] \in Seq(Step) /\ Head(todo[t]) = todo[t][1]
      /\ DOMAIN todo[t] = 1..Len(todo[t]) /\ 1 \in DOMAIN todo[t] /\ todo[t][1] \in Step
  BY RunExpands DEF TypeOK
<1>3. todo[t][1] \in Pending(t)
  BY <1>2 DEF Pending
<1>4. /\ \A m \in 2..Len(todo[t]) : todo[t][m] \in Pending(t)'
      /\ \A j \in 1..Len(s) : s[j] \in Pending(t)'
      /\ todo'[t] # <<>> => todo'[t][1] = IF s = <<>> THEN todo[t][2] ELSE s[1]
      /\ todo'[t] # <<>> /\ s = <<>> => 2 \in 2..Len(todo[t])
  BY <1>1, <1>2, PendingAfter
<1>5. \A x \in Pending(t) : x = todo[t][1] \/ x \in Pending(t)'
  <2>1. \A m \in DOMAIN todo[t] : m = 1 \/ m \in 2..Len(todo[t])
    BY <1>2
  <2>2. QED  BY <1>4, <2>1 DEF Pending
<1>6. todo'[t] # <<>> /\ s = <<>> => todo'[t][1].do \notin Halves
  <2>1. 2 \in 2..Len(todo[t]) => 2 \in DOMAIN todo[t]
    BY <1>2
  <2>2. QED  BY <1>4, <2>1 DEF AtOnce
<1>7. \A u \in Thread \ {t} : todo'[u] = todo[u]
  BY <1>1, <1>2, Continued
<1>8. \A u \in Thread \ {t} : Driven(u)' /\ AtOnce(u)' /\ Pending(u)' = Pending(u)
  BY <1>7, DrivenSame
<1>9. Driven(t)' /\ AtOnce(t)'
  BY DrivenRun
<1>10. Moved(t, s)
  BY <1>4, <1>5, <1>6, <1>7, <1>8, <1>9 DEF Moved
<1>11. QED  BY <1>1, <1>2, <1>3, <1>10

LEMMA LevelKept ==
  ASSUME NEW p \in Pump, LevelSent(p), NEW t \in Thread, NEW s, Moved(t, s),
         pumpStatus'[p] => pumpStatus[p] /\ pumpLevel'[p] = pumpLevel[p]
                                         /\ pumpPercents'[p] = pumpPercents[p],
         pumpStatus'[p] /\ ToCome(todo[t][1], p) => \E x \in Pending(t)' : ToCome(x, p)
  PROVE  LevelSent(p)'
BY DEF LevelSent, Moved

LEMMA EnabledKept ==
  ASSUME NEW p \in Pump, Enabled(p), NEW t \in Thread, NEW s, Moved(t, s),
         pumpStatus'[p] => pumpStatus[p] /\ pumpRuns'[p] = pumpRuns[p],
         pumpStatus'[p] /\ ToEnable(todo[t][1], p) => \E x \in Pending(t)' : ToEnable(x, p)
  PROVE  Enabled(p)'
BY DEF Enabled, Moved

LEMMA BootsKept ==
  ASSUME TypeOK, NEW p \in Pump, Boots(p), NEW t \in Thread, NEW s, Moved(t, s),
         booting'[NodeOf(p)] \in {booting[NodeOf(p)], NoThread},
         booting[NodeOf(p)] = t => booting'[NodeOf(p)] = NoThread
  PROVE  Boots(p)'
BY PumpNodes DEF TypeOK, Boots, Moved

\* Who does not sleep has not just powered the node.
LEMMA Awakened ==
  ASSUME NEW p \in Pump, Boots(p), NEW t \in Thread, t # NoThread, todo[t][1].do # "sleep"
  PROVE  booting[NodeOf(p)] # t
BY DEF Boots

\* A step does not change what holds for another thread, if that one drives the node.
LEMMA CurrentOthers ==
  ASSUME TypeOK, NEW p \in Pump, NodeOf(p) \in PrivateNodes, NEW t \in Thread, NEW s, Moved(t, s),
         \A u \in Thread : Current(u, p),
         \/ Drives(t, NodeOf(p))
         \/ /\ \A q \in Pump : NodeOf(q) = NodeOf(p) => pumpStatus'[q] = pumpStatus[q]
            /\ pumpPercents'[p] = pumpPercents[p]
  PROVE  \A u \in Thread \ {t} : Current(u, p)'
<1> SUFFICES ASSUME NEW u \in Thread \ {t}
             PROVE  Current(u, p)'
  OBVIOUS
<1>1. todo'[u] = todo[u] /\ Pending(u)' = Pending(u) /\ Driven(u)'
  BY DEF Moved
<1>2. CASE Drives(t, NodeOf(p))
  <2>1. ~Drives(u, NodeOf(p))
    BY <1>2 DEF PrivateNodes
  <2>2. todo[u] # <<>> => todo[u][1] \in Pending(u)
    <3>1. todo[u] # <<>> => 1 \in DOMAIN todo[u]
      BY DEF TypeOK
    <3>2. QED  BY <3>1 DEF Pending
  <2>3. todo[u] # <<>> /\ todo[u][1].do \in Halves => NodeOf(todo[u][1].id) # NodeOf(p)
    BY <1>1, <2>1, <2>2 DEF Driven, Halves
  <2>4. QED  BY <1>1, <2>3 DEF Current, Halves
<1>3. CASE /\ \A q \in Pump : NodeOf(q) = NodeOf(p) => pumpStatus'[q] = pumpStatus[q]
           /\ pumpPercents'[p] = pumpPercents[p]
  <2>1. getPumpLONState(pumpStatus, NodeOf(p))' = getPumpLONState(pumpStatus, NodeOf(p))
    BY <1>3 DEF getPumpLONState
  <2>2. pumpStatus'[p] = pumpStatus[p]
    BY <1>3
  <2>3. QED  BY <1>1, <1>3, <2>1, <2>2 DEF Current
<1>4. QED  BY <1>2, <1>3

\* The thread itself holds nothing that concerns the pump.
LEMMA CurrentPlain ==
  ASSUME NEW p \in Pump, NEW t \in Thread, NEW s, Moved(t, s),
         s # <<>> => \/ s[1].do \notin Halves
                     \/ s[1].do \in {"storePercent", "sendPercent"} /\ s[1].id # p
  PROVE  Current(t, p)'
BY DEF Moved, Current, Halves

\* A step that changes nothing of the pump, and takes nothing from what is to come.
LEMMA AgreeQuiet ==
  ASSUME TypeOK, NEW p \in Pump, NodeOf(p) \in PrivateNodes, AgreeInv(p),
         NEW t \in Thread, NEW s, Moved(t, s),
         pumpStatus' = pumpStatus, pumpPercents'[p] = pumpPercents[p],
         pumpLevel'[p] = pumpLevel[p], pumpRuns'[p] = pumpRuns[p],
         booting'[NodeOf(p)] \in {booting[NodeOf(p)], NoThread},
         booting[NodeOf(p)] = t => booting'[NodeOf(p)] = NoThread,
         ~ToCome(todo[t][1], p), ~ToEnable(todo[t][1], p),
         s # <<>> => \/ s[1].do \notin Halves
                     \/ s[1].do \in {"storePercent", "sendPercent"} /\ s[1].id # p
  PROVE  AgreeInv(p)'
<1>1. Boots(p)'
  BY BootsKept DEF AgreeInv
<1>2. LevelSent(p)'
  BY LevelKept DEF AgreeInv
<1>3. Enabled(p)'
  BY EnabledKept DEF AgreeInv
<1>4. Current(t, p)'
  BY CurrentPlain
<1>5. \A u \in Thread \ {t} : Current(u, p)'
  BY CurrentOthers DEF AgreeInv
<1>6. QED  BY <1>1, <1>2, <1>3, <1>4, <1>5 DEF AgreeInv

-----------------------------------------------------------------------------
(* One step of a thread, for one pump of a private node.                   *)

Taking(p, t, s) ==
  /\ TypeOK /\ PowerInv
  /\ NodeOf(p) \in PrivateNodes /\ AgreeInv(p)
  /\ \A u \in Thread : SwitchOrder(u) /\ Driven(u) /\ AtOnce(u)
  /\ todo[t] # <<>> /\ todo[t][1] = Head(todo[t])
  /\ todo[t][1] \in Step /\ todo[t][1] \in Pending(t)
  /\ Expands(todo[t][1], s) /\ Moved(t, s)

\* Commands to a pump that is commanded on are heard: nobody else is inside
\* switchPumpNode for its node, or sleeps after it.
LEMMA HearsOn ==
  ASSUME ~Lossy, NEW p \in Pump, NEW t \in Thread, NEW s, Taking(p, t, s),
         Drives(t, NodeOf(p)), todo[t][1].do \notin {"pumpGPIO", "sleep"}, pumpStatus[p]
  PROVE  Hears(NodeOf(p)) = {TRUE}
<1> DEFINE n == NodeOf(p)
<1>1. \A u \in Thread : Drives(u, n) => u = t
  BY DEF Taking, PrivateNodes
<1>2. booting[n] = NoThread
  <2>1. booting[n] \in Thread \cup {NoThread}
    BY PumpNodes DEF Taking, TypeOK
  <2>2. QED  BY <1>1, <2>1 DEF Taking, AgreeInv, Boots
<1>3. ~Locked(p)
  <2> SUFFICES ASSUME Locked(p) PROVE FALSE
    OBVIOUS
  <2>1. mutex \in Thread /\ todo[mutex] # <<>> /\ Head(todo[mutex]).do = "pumpGPIO"
        /\ NodeOf(Head(todo[mutex]).id) = n
    BY DEF Taking, TypeOK, Locked, PowerInv, Shape, At
  <2>2. Head(todo[mutex]) \in Pending(mutex)
    <3>1. 1 \in DOMAIN todo[mutex] /\ Head(todo[mutex]) = todo[mutex][1]
      BY <2>1 DEF Taking, TypeOK
    <3>2. QED  BY <3>1 DEF Pending
  <2>3. Drives(mutex, n)
    BY <2>1, <2>2 DEF Taking, Driven
  <2>4. QED  BY <1>1, <2>1, <2>3 DEF Taking
<1>4. power[n]
  BY <1>3 DEF Taking, PowerInv, PowerOf, getPumpLONState
<1>5. QED  BY <1>2, <1>4 DEF Hears

LEMMA AgreeSwitch ==
  ASSUME NEW p \in Pump, NEW t \in Thread, NEW s, Taking(p, t, s), SwitchPump(t)
  PROVE  AgreeInv(p)'
<1> DEFINE h == todo[t][1]
           was == getPumpLONState(pumpStatus, NodeOf(h.id))
<1>1. h.do = "switchPump" /\ h.id \in Pump /\ h.on \in BOOLEAN
  BY StepFields DEF Taking, SwitchPump, At
<1>2. UNCHANGED <<pumpPercents, nodes>> /\ pumpStatus' = [pumpStatus EXCEPT ![h.id] = h.on]
  BY DEF Taking, SwitchPump
<1>3. todo'[t] # <<>> => /\ todo'[t][1].do = "pumpGPIO" /\ todo'[t][1].id = h.id
                         /\ todo'[t][1].was = was
  <2>1. s = << [do |-> "pumpGPIO", id |-> h.id, was |-> was] >>
    BY <1>1 DEF Taking, Expands
  <2>2. s # <<>> /\ s[1].do = "pumpGPIO" /\ s[1].id = h.id /\ s[1].was = was
    BY <2>1
  <2>3. QED  BY <2>2 DEF Taking, Moved
<1>4. UNCHANGED <<booting, pumpRuns, pumpLevel>>
  BY <1>2 DEF nodes
<1>5. Boots(p)'
  <2>1. booting[NodeOf(p)] # t
    BY <1>1, Awakened, NoThreadAssumption DEF Taking, AgreeInv
  <2>2. QED  BY <1>4, <2>1, BootsKept DEF Taking, AgreeInv
<1>6. \A u \in Thread \ {t} : Current(u, p)'
  <2>1. CASE NodeOf(h.id) = NodeOf(p)
    <3>1. Drives(t, NodeOf(p))
      BY <1>1, <2>1 DEF Taking, Driven
    <3>2. QED  BY <3>1, CurrentOthers DEF Taking, AgreeInv
  <2>2. CASE NodeOf(h.id) # NodeOf(p)
    <3>1. \A q \in Pump : NodeOf(q) = NodeOf(p) => pumpStatus'[q] = pumpStatus[q]
      BY <1>1, <1>2, <2>2 DEF Taking, TypeOK
    <3>2. QED  BY <1>2, <3>1, CurrentOthers DEF Taking, AgreeInv
  <2>3. QED  BY <2>1, <2>2
<1>7. CASE h.id = p /\ h.on
  <2>1. Powers(h, p, TRUE) /\ 1 \in DOMAIN todo[t]
    BY <1>1, <1>7 DEF Powers, Taking, TypeOK
  <2>2. PICK x \in Pending(t) : Loads(x, p)
    BY <2>1 DEF Taking, SwitchOrder
  <2>3. PICK y \in Pending(t) : Enables(y, p, TRUE)
    BY <2>1 DEF Taking, SwitchOrder
  <2>4. x \in Pending(t)' /\ y \in Pending(t)'
    BY <1>1, <2>2, <2>3 DEF Loads, Enables, Taking, Moved
  <2>5. LevelSent(p)' /\ Enabled(p)'
    BY <2>2, <2>3, <2>4 DEF LevelSent, Enabled, ToCome, ToEnable
  <2>6. Current(t, p)'
    BY <1>3, <1>7, <2>2, <2>3, <2>4 DEF Current, ToEnable
  <2>7. QED  BY <1>5, <1>6, <2>5, <2>6 DEF AgreeInv
<1>8. CASE h.id = p /\ ~h.on
  <2>1. ~pumpStatus'[p]
    BY <1>2, <1>8 DEF Taking, TypeOK
  <2>2. Current(t, p)'
    BY <1>3, <2>1 DEF Current
  <2>3. QED  BY <1>5, <1>6, <2>1, <2>2 DEF AgreeInv, LevelSent, Enabled
<1>9. CASE h.id # p
  <2>1. pumpStatus'[p] = pumpStatus[p]
    BY <1>1, <1>2, <1>9 DEF Taking, TypeOK
  <2>2. ~ToCome(h, p) /\ ~ToEnable(h, p)
    BY <1>1, <1>9 DEF ToCome, ToEnable, Loads, Enables, Powers
  <2>3. LevelSent(p)' /\ Enabled(p)'
    BY <1>2, <1>4, <2>1, <2>2, LevelKept, EnabledKept DEF Taking, AgreeInv
  <2>4. Current(t, p)'
    <3>1. NodeOf(h.id) = NodeOf(p) /\ pumpStatus[p] => was
      BY DEF getPumpLONState
    <3>2. QED  BY <1>3, <1>9, <2>1, <3>1 DEF Current
  <2>5. QED  BY <1>5, <1>6, <2>3, <2>4 DEF AgreeInv
<1>10. QED  BY <1>1, <1>7, <1>8, <1>9

LEMMA AgreeGPIO ==
  ASSUME NEW p \in Pump, NEW t \in Thread, NEW s, Taking(p, t, s), SwitchPumpGPIO(t)
  PROVE  AgreeInv(p)'
<1> DEFINE h == todo[t][1]
           n == NodeOf(h.id)
           to == PumpGPIO(h.was, getPumpLONState(pumpStatus, n))
<1>1. h.do = "pumpGPIO" /\ h.id \in Pump /\ h.was \in BOOLEAN /\ n \in Node
  BY StepFields, PumpNodes DEF Taking, SwitchPumpGPIO, At
<1>2. UNCHANGED <<pumpStatus, pumpPercents>>
      /\ (IF to = "keep" THEN UNCHANGED <<power, nodes>> ELSE SwitchGPIO(t, n, to = "on"))
      /\ Continue(t, IF to = "on" THEN Sleep(n) ELSE <<>>)
  BY DEF Taking, SwitchPumpGPIO, status
<1>3. booting[NodeOf(p)] # t /\ ~ToCome(h, p) /\ ~ToEnable(h, p)
  BY <1>1, Awakened, NoThreadAssumption
  DEF Taking, AgreeInv, ToCome, ToEnable, Loads, Enables, Powers
<1>4. s # <<>> => s[1].do \notin Halves
  BY <1>1 DEF Taking, Expands, Halves
<1>5. CASE to = "keep" \/ n # NodeOf(p)
  <2>1. /\ booting'[NodeOf(p)] = booting[NodeOf(p)]
        /\ pumpLevel'[p] = pumpLevel[p] /\ pumpRuns'[p] = pumpRuns[p]
    BY <1>1, <1>2, <1>5, PumpNodes DEF Taking, TypeOK, SwitchGPIO, nodes
  <2>2. QED  BY <1>2, <1>3, <1>4, <2>1, AgreeQuiet DEF Taking
<1>6. CASE to # "keep" /\ n = NodeOf(p)
  <2>0. Drives(t, NodeOf(p))
    BY <1>1, <1>6 DEF Taking, Driven
  <2>1. \A u \in Thread \ {t} : Current(u, p)'
    BY <2>0, CurrentOthers DEF Taking, AgreeInv
  <2>2. Current(t, p)'
    BY <1>4, CurrentPlain DEF Taking
  <2>3. SwitchGPIO(t, n, to = "on")
    BY <1>2, <1>6
  <2>4. CASE to = "on"
    <3>1. booting'[n] = t
      BY <1>1, <2>3, <2>4 DEF Taking, TypeOK, SwitchGPIO
    <3>2. todo'[t] # <<>> /\ todo'[t][1].do = "sleep" /\ todo'[t][1].node = n
      <4> DEFINE q == Sleep(n)
      <4>1. q \in Seq(Step) /\ q # <<>> /\ Len(q) = 1 /\ q[1].do = "sleep" /\ q[1].node = n
        BY <1>1, SleepType, FreeIsStep DEF Sleep
      <4>2. Continue(t, q)
        BY <1>2, <2>4
      <4> HIDE DEF q
      <4>3. todo'[t] \in Seq(Step) /\ Len(todo'[t]) = Len(q) + Len(todo[t]) - 1 /\ todo'[t][1] = q[1]
        BY <4>1, <4>2, Continued DEF Taking
      <4>4. Len(todo[t]) \in Nat \ {0}
        BY DEF Taking, TypeOK
      <4>5. todo'[t] # <<>>
        BY <4>1, <4>3, <4>4
      <4>6. QED  BY <4>1, <4>3, <4>5
    <3>3. Boots(p)'
      BY <1>6, <2>0, <3>1, <3>2 DEF Boots
    <3>4. ~h.was
      BY <2>4 DEF PumpGPIO
    <3>5. ASSUME pumpStatus[p]
          PROVE  /\ \E x \in Pending(t)' : Loads(x, p)
                 /\ \E x \in Pending(t)' : ToEnable(x, p)
      <4>1. h.id = p
        BY <1>1, <1>6, <3>4, <3>5 DEF Taking, AgreeInv, Current
      <4>2. PICK x \in Pending(t) : Loads(x, p)
        BY <1>1, <3>5, <4>1 DEF Taking, AgreeInv, Current
      <4>3. PICK y \in Pending(t) : ToEnable(y, p)
        BY <1>1, <3>5, <4>1 DEF Taking, AgreeInv, Current
      <4>4. x # h /\ y # h
        BY <1>1, <4>2, <4>3 DEF Loads, ToEnable, Enables, Powers
      <4>5. QED  BY <4>2, <4>3, <4>4 DEF Taking, Moved
    <3>6. LevelSent(p)' /\ Enabled(p)'
      BY <1>2, <3>5 DEF LevelSent, Enabled, ToCome
    <3>7. QED  BY <2>1, <2>2, <3>3, <3>6 DEF AgreeInv
  <2>5. CASE to # "on"
    <3>1. ~pumpStatus[p]
      BY <1>1, <1>6, <2>5 DEF PumpGPIO, getPumpLONState
    <3>2. booting'[NodeOf(p)] = NoThread
      BY <1>1, <1>6, <2>3, <2>5 DEF Taking, TypeOK, SwitchGPIO
    <3>3. Boots(p)'
      BY <3>2, BootsKept DEF Taking, AgreeInv
    <3>4. QED  BY <1>2, <2>1, <2>2, <3>1, <3>3 DEF AgreeInv, LevelSent, Enabled
  <2>6. QED  BY <2>4, <2>5
<1>7. QED  BY <1>5, <1>6


\* The steps of setPumpPercent, with or without what pumpOn reads for it.
LEMMA AgreePercent ==
  ASSUME NEW p \in Pump, NEW t \in Thread, NEW s, Taking(p, t, s),
         LoadPercent(t) \/ TestNode(t) \/ StorePercent(t)
  PROVE  AgreeInv(p)'
<1> DEFINE h == todo[t][1]
           isOn == getPumpLONState(pumpStatus, NodeOf(h.id))
<1>1. /\ h.do \in {"loadPercent", "testNode", "storePercent"} /\ h.id \in Pump
      /\ h.do \in {"testNode", "storePercent"} => h.val \in Nat
      /\ h.do = "storePercent" => h.isOn \in BOOLEAN
  BY StepFields DEF Taking, LoadPercent, TestNode, StorePercent, At
<1>2. UNCHANGED <<pumpStatus, booting, pumpRuns, pumpLevel>>
  BY DEF LoadPercent, TestNode, StorePercent, status, nodes
<1>3. pumpPercents' = IF h.do = "storePercent" /\ h.val <= MaxPercent
                        THEN [pumpPercents EXCEPT ![h.id] = h.val] ELSE pumpPercents
  BY <1>1 DEF Taking, LoadPercent, TestNode, StorePercent, status, At
<1>4. booting[NodeOf(p)] # t /\ ~ToEnable(h, p)
  BY <1>1, Awakened, NoThreadAssumption DEF Taking, AgreeInv, ToEnable, Enables, Powers
<1>5. /\ h.do = "loadPercent" =>
           s # <<>> /\ s[1].do = "testNode" /\ s[1].id = h.id /\ s[1].val = pumpPercents[h.id]
      /\ h.do = "testNode" =>
           s # <<>> /\ s[1].do = "storePercent" /\ s[1].id = h.id /\ s[1].val = h.val /\ s[1].isOn = isOn
      /\ h.do = "storePercent" /\ h.val <= MaxPercent /\ h.isOn =>
           s # <<>> /\ s[1].do = "sendPercent" /\ s[1].id = h.id /\ s[1].val = h.val
      /\ h.do = "storePercent" /\ ~(h.val <= MaxPercent /\ h.isOn) => s = <<>>
  <2>1. CASE h.do = "loadPercent"
    <3>1. s = << [do |-> "testNode", id |-> h.id, val |-> pumpPercents[h.id]] >>
      BY <2>1 DEF Taking, Expands
    <3>2. QED  BY <2>1, <3>1
  <2>2. CASE h.do = "testNode"
    <3>1. s = << [do |-> "storePercent", id |-> h.id, val |-> h.val, isOn |-> isOn] >>
      BY <2>2 DEF Taking, Expands
    <3>2. QED  BY <2>2, <3>1
  <2>3. CASE h.do = "storePercent"
    <3>1. h.val <= MaxPercent /\ h.isOn => s = << [do |-> "sendPercent", id |-> h.id, val |-> h.val] >>
      BY <2>3 DEF Taking, Expands
    <3>2. ~(h.val <= MaxPercent /\ h.isOn) => s = <<>>
      BY <2>3 DEF Taking, Expands
    <3>3. QED  BY <2>3, <3>1, <3>2
  <2>4. QED  BY <1>1, <2>1, <2>2, <2>3
<1>6. CASE h.id # p
  <2>1. pumpPercents'[p] = pumpPercents[p] /\ ~ToCome(h, p)
    BY <1>1, <1>3, <1>6 DEF Taking, TypeOK, ToCome, Loads
  <2>2. s # <<>> => s[1].do \notin Halves \/ (s[1].do \in {"storePercent", "sendPercent"} /\ s[1].id # p)
    BY <1>1, <1>5, <1>6 DEF Halves
  <2>3. QED  BY <1>2, <1>4, <2>1, <2>2, AgreeQuiet DEF Taking
<1>7. CASE h.id = p
  <2>1. Boots(p)' /\ Enabled(p)'
    BY <1>2, <1>4, BootsKept, EnabledKept DEF Taking, AgreeInv
  <2>2. \A u \in Thread \ {t} : Current(u, p)'
    <3>1. Drives(t, NodeOf(p))
      BY <1>1, <1>7 DEF Taking, Driven
    <3>2. QED  BY <3>1, CurrentOthers DEF Taking, AgreeInv
  <2>3. s # <<>> => 1 \in 1..Len(s)
    BY <1>1, <1>5 DEF Taking, Expands
  <2>4. s # <<>> => s[1] \in Pending(t)' /\ (todo'[t] # <<>> => todo'[t][1] = s[1])
    BY <2>3 DEF Taking, Moved
  <2>5. pumpStatus[p] => isOn
    BY <1>7 DEF getPumpLONState
  <2>6. CASE h.do = "loadPercent"
    <3>1. ToCome(s[1], p) /\ s[1] \in Pending(t)'
      BY <1>5, <1>7, <2>4, <2>6, SizeAssumption DEF ToCome, Taking, TypeOK, Percent
    <3>2. LevelSent(p)'
      BY <3>1 DEF LevelSent
    <3>3. Current(t, p)'
      BY <1>5, <2>6, CurrentPlain DEF Taking, Halves
    <3>4. QED  BY <2>1, <2>2, <3>2, <3>3 DEF AgreeInv
  <2>7. CASE h.do = "testNode"
    <3>1. pumpStatus[p] /\ ToCome(h, p) => ToCome(s[1], p) /\ s[1] \in Pending(t)'
      BY <1>5, <1>7, <2>4, <2>5, <2>7 DEF ToCome, Loads
    <3>2. LevelSent(p)'
      BY <1>2, <1>3, <2>7, <3>1, LevelKept DEF Taking, AgreeInv
    <3>3. getPumpLONState(pumpStatus, NodeOf(p))' = getPumpLONState(pumpStatus, NodeOf(p))
      BY <1>2 DEF getPumpLONState
    <3>4. Current(t, p)'
      BY <1>2, <1>5, <1>7, <2>4, <2>7, <3>3 DEF Current
    <3>5. QED  BY <2>1, <2>2, <3>2, <3>4 DEF AgreeInv
  <2>8. CASE h.do = "storePercent" /\ h.val <= MaxPercent /\ h.isOn
    <3>1. ToCome(s[1], p) /\ s[1] \in Pending(t)'
      BY <1>5, <1>7, <2>4, <2>8 DEF ToCome
    <3>2. LevelSent(p)'
      BY <3>1 DEF LevelSent
    <3>3. pumpPercents'[p] = h.val
      BY <1>3, <1>7, <2>8 DEF Taking, TypeOK
    <3>4. Current(t, p)'
      BY <1>5, <2>4, <2>8, <3>3 DEF Current
    <3>5. QED  BY <2>1, <2>2, <3>2, <3>4 DEF AgreeInv
  <2>9. CASE h.do = "storePercent" /\ h.val <= MaxPercent /\ ~h.isOn
    <3>1. ~pumpStatus'[p]
      BY <1>2, <1>7, <2>5, <2>9 DEF Taking, AgreeInv, Current
    <3>2. LevelSent(p)'
      BY <3>1 DEF LevelSent
    <3>3. Current(t, p)'
      BY <1>5, <2>9, CurrentPlain DEF Taking
    <3>4. QED  BY <2>1, <2>2, <3>2, <3>3 DEF AgreeInv
  <2>10. CASE h.do = "storePercent" /\ ~(h.val <= MaxPercent)
    <3>1. LevelSent(p)'
      BY <1>2, <1>3, <2>10, LevelKept DEF Taking, AgreeInv, ToCome, Loads
    <3>2. Current(t, p)'
      BY <1>5, <2>10, CurrentPlain DEF Taking
    <3>3. QED  BY <2>1, <2>2, <3>1, <3>2 DEF AgreeInv
  <2>11. QED  BY <1>1, <2>6, <2>7, <2>8, <2>9, <2>10
<1>8. QED  BY <1>6, <1>7

LEMMA AgreeSend ==
  ASSUME ~Lossy, NEW p \in Pump, NEW t \in Thread, NEW s, Taking(p, t, s),
         SendPump(t) \/ SendPercent(t)
  PROVE  AgreeInv(p)'
<1> DEFINE h == todo[t][1]
           n == NodeOf(h.id)
<1>1. /\ h.do \in {"sendPump", "sendPercent"} /\ h.id \in Pump /\ n \in Node
      /\ h.do = "sendPump" => h.on \in BOOLEAN
      /\ h.do = "sendPercent" => h.val \in Percent
  BY StepFields, PumpNodes DEF Taking, SendPump, SendPercent, At
<1>2. PICK heard \in Hears(n) :
        /\ Booted(n, heard)
        /\ pumpRuns' = IF heard /\ h.do = "sendPump" THEN [pumpRuns EXCEPT ![h.id] = h.on] ELSE pumpRuns
        /\ pumpLevel' = IF heard /\ h.do = "sendPercent" THEN [pumpLevel EXCEPT ![h.id] = h.val]
                                                         ELSE pumpLevel
  BY DEF Taking, SendPump, SendPercent, At
<1>3. UNCHANGED <<pumpStatus, pumpPercents>> /\ s = <<>>
  BY <1>1 DEF Taking, Expands, SendPump, SendPercent, status
<1>4. booting[NodeOf(p)] # t
  BY <1>1, Awakened, NoThreadAssumption DEF Taking, AgreeInv
<1>5. booting'[NodeOf(p)] \in {booting[NodeOf(p)], NoThread}
  BY <1>1, <1>2, PumpNodes DEF Taking, TypeOK, Booted
<1>6. CASE h.id # p
  <2>1. pumpRuns'[p] = pumpRuns[p] /\ pumpLevel'[p] = pumpLevel[p]
    BY <1>1, <1>2, <1>6 DEF Taking, TypeOK
  <2>2. ~ToCome(h, p) /\ ~ToEnable(h, p)
    BY <1>1, <1>6 DEF ToCome, ToEnable, Loads, Enables, Powers
  <2>3. QED  BY <1>3, <1>4, <1>5, <2>1, <2>2, AgreeQuiet DEF Taking
<1>7. CASE h.id = p
  <2>0. Drives(t, NodeOf(p))
    BY <1>1, <1>7 DEF Taking, Driven
  <2>1. Boots(p)' /\ Current(t, p)' /\ \A u \in Thread \ {t} : Current(u, p)'
    BY <1>3, <1>4, <1>5, <2>0, BootsKept, CurrentPlain, CurrentOthers DEF Taking, AgreeInv
  <2>2. pumpStatus[p] => heard
    <3>1. pumpStatus[p] => Hears(NodeOf(p)) = {TRUE}
      BY <1>1, <2>0, HearsOn
    <3>2. pumpStatus[p] => heard \in {TRUE}
      BY <1>2, <1>7, <3>1
    <3>3. QED  BY <3>2
  <2>3. CASE h.do = "sendPercent"
    <3>1. pumpStatus[p] => pumpLevel'[p] = pumpPercents[p]
      BY <1>1, <1>2, <1>7, <2>2, <2>3 DEF Taking, TypeOK, AgreeInv, Current
    <3>2. LevelSent(p)'
      BY <1>3, <3>1 DEF LevelSent
    <3>3. ~ToEnable(h, p) /\ pumpRuns' = pumpRuns
      BY <1>2, <2>3 DEF ToEnable, Enables, Powers
    <3>4. Enabled(p)'
      BY <1>3, <3>3, EnabledKept DEF Taking, AgreeInv
    <3>5. QED  BY <2>1, <3>2, <3>4 DEF AgreeInv
  <2>4. CASE h.do = "sendPump"
    <3>1. ~ToCome(h, p) /\ pumpLevel' = pumpLevel
      BY <1>2, <2>4 DEF ToCome, Loads
    <3>2. LevelSent(p)'
      BY <1>3, <3>1, LevelKept DEF Taking, AgreeInv
    <3>3. CASE h.on
      <4>1. pumpStatus[p] => pumpRuns'[p]
        BY <1>1, <1>2, <1>7, <2>2, <2>4, <3>3 DEF Taking, TypeOK
      <4>2. Enabled(p)'
        BY <1>3, <4>1 DEF Enabled
      <4>3. QED  BY <2>1, <3>2, <4>2 DEF AgreeInv
    <3>4. CASE ~h.on
      <4>1. Enables(h, p, FALSE) /\ 1 \in DOMAIN todo[t]
        BY <1>1, <1>7, <2>4, <3>4 DEF Enables, Taking, TypeOK
      <4>2. Len(todo[t]) = 2 /\ Powers(todo[t][2], p, FALSE)
        BY <4>1 DEF Taking, SwitchOrder
      <4>3. todo[t][2] \in Pending(t)
        <5>1. 2 \in DOMAIN todo[t]
          BY <4>2 DEF Taking, TypeOK
        <5>2. QED  BY <5>1 DEF Pending
      <4>4. todo[t][2] \in Pending(t)' /\ ToEnable(todo[t][2], p)
        BY <2>4, <4>2, <4>3 DEF Taking, Moved, Powers, ToEnable
      <4>5. Enabled(p)'
        BY <4>4 DEF Enabled
      <4>6. QED  BY <2>1, <3>2, <4>5 DEF AgreeInv
    <3>5. QED  BY <1>1, <2>4, <3>3, <3>4
  <2>5. QED  BY <1>1, <2>3, <2>4
<1>8. QED  BY <1>6, <1>7

\* The heater's, the lamp's and the sleeper's steps.
LEMMA AgreeOther ==
  ASSUME NEW p \in Pump, NEW t \in Thread, NEW s, Taking(p, t, s),
         \/ Wake(t) \/ SwitchHeater(t) \/ StoreHeater(t) \/ LoadTemp(t) \/ StoreTemp(t)
         \/ TestHeater(t) \/ SendHeater(t) \/ SendTemp(t) \/ SendLamp(t)
  PROVE  AgreeInv(p)'
<1> DEFINE h == todo[t][1]
           others == {"switchHeater", "storeHeater", "loadTemp", "storeTemp", "testHeater",
                      "sendHeater", "sendTemp", "sendLamp"}
<1>1. h.do \in others \/ (Wake(t) /\ h.do = "sleep")
  BY DEF Taking, At, Wake, SwitchHeater, StoreHeater, LoadTemp, StoreTemp, TestHeater, SendHeater,
     SendTemp, SendLamp
<1>2. ~ToCome(h, p) /\ ~ToEnable(h, p)
  BY <1>1 DEF ToCome, ToEnable, Loads, Enables, Powers
<1>3. s # <<>> => s[1].do \notin Halves
  BY <1>1 DEF Taking, Expands, Halves
<1>4. UNCHANGED <<pumpStatus, pumpPercents>>
  BY DEF Wake, SwitchHeater, StoreHeater, LoadTemp, StoreTemp, TestHeater, SendHeater, SendTemp,
     SendLamp, status
<1>5. /\ pumpLevel'[p] = pumpLevel[p] /\ pumpRuns'[p] = pumpRuns[p]
      /\ booting'[NodeOf(p)] \in {booting[NodeOf(p)], NoThread}
      /\ booting[NodeOf(p)] = t => booting'[NodeOf(p)] = NoThread
  <2>1. CASE h.do \in others
    <3>1. booting[NodeOf(p)] # t
      BY <2>1, Awakened, NoThreadAssumption DEF Taking, AgreeInv
    <3>2. pumpLevel'[p] = pumpLevel[p] /\ pumpRuns'[p] = pumpRuns[p]
      BY <2>1, PumpNodes DEF Taking, At, TypeOK, Wake, SwitchHeater, SwitchGPIO, StoreHeater, LoadTemp,
         StoreTemp, TestHeater, SendHeater, SendTemp, SendLamp, nodes
    <3>3. CASE SwitchHeater(t)
      <4>1. booting'[NodeOf(p)] = booting[NodeOf(p)]
        BY <3>3, PumpNodes DEF Taking, TypeOK, SwitchHeater, SwitchGPIO, nodes
      <4>2. QED  BY <3>1, <3>2, <4>1
    <3>4. CASE SendHeater(t) \/ SendTemp(t)
      <4>1. booting' \in {booting, [booting EXCEPT ![HeaterNode] = NoThread]}
        BY <3>4 DEF SendHeater, SendTemp, Booted
      <4>2. booting'[NodeOf(p)] = booting[NodeOf(p)]
        BY <4>1, PumpNodes DEF Taking, TypeOK
      <4>3. QED  BY <3>1, <3>2, <4>2
    <3>5. CASE ~SwitchHeater(t) /\ ~SendHeater(t) /\ ~SendTemp(t)
      <4>1. booting' = booting
        BY <2>1, <3>5 DEF Taking, At, Wake, StoreHeater, LoadTemp, StoreTemp, TestHeater, SendLamp, nodes
      <4>2. QED  BY <3>1, <3>2, <4>1
    <3>6. QED  BY <3>3, <3>4, <3>5
  <2>2. CASE Wake(t) /\ h.do = "sleep"
    <3>1. h.node \in Node
      BY <2>2, StepFields DEF Taking
    <3>2. booting' = IF booting[h.node] = t THEN [booting EXCEPT ![h.node] = NoThread] ELSE booting
      BY <2>2 DEF Wake, Taking
    <3>3. booting[NodeOf(p)] = t => h.node = NodeOf(p)
      BY NoThreadAssumption DEF Taking, AgreeInv, Boots
    <3>4. QED  BY <2>2, <3>1, <3>2, <3>3, PumpNodes DEF Taking, TypeOK, Wake
  <2>3. QED  BY <1>1, <2>1, <2>2
<1>6. QED  BY <1>2, <1>3, <1>4, <1>5, AgreeQuiet DEF Taking


AgreesInv ==
  /\ \A t \in Thread : Driven(t) /\ AtOnce(t)
  /\ \A p \in Pump : NodeOf(p) \in PrivateNodes => AgreeInv(p)

LEMMA AgreesInit == Init => AgreesInv
BY PumpNodes DEF Init, AgreesInv, Driven, AtOnce, Pending, AgreeInv, Boots, LevelSent, Enabled, Current

LEMMA AgreesRun ==
  ASSUME TypeOK, PowerInv, RunsInv, AgreesInv, ~Lossy, NEW t \in Thread, Run(t)
  PROVE  AgreesInv'
<1>1. \A u \in Thread : Driven(u) /\ AtOnce(u) /\ SwitchOrder(u)
  BY DEF AgreesInv, RunsInv
<1>2. PICK s \in Seq(Step) : Expands(todo[t][1], s) /\ Moved(t, s)
  BY <1>1, RunMoves
<1>3. /\ todo[t] # <<>> /\ todo[t][1] = Head(todo[t])
      /\ todo[t][1] \in Step /\ todo[t][1] \in Pending(t)
  BY <1>1, RunMoves
<1>4. ASSUME NEW p \in Pump, NodeOf(p) \in PrivateNodes
      PROVE  AgreeInv(p)'
  <2>1. Taking(p, t, s)
    BY <1>1, <1>2, <1>3, <1>4 DEF Taking, AgreesInv
  <2>2. QED  BY <2>1, AgreeSwitch, AgreeGPIO, AgreePercent, AgreeSend, AgreeOther DEF Run
<1>5. QED  BY <1>2, <1>4 DEF AgreesInv, Moved

LEMMA AgreesIssue ==
  ASSUME TypeOK, AgreesInv, NEW t \in Thread, NEW r \in Menu[t], Issue(t, r)
  PROVE  AgreesInv'
<1>1. /\ Driven(t)' /\ AtOnce(t)' /\ \A x \in Pending(t)' : x.do \notin Halves
  BY DrivenIssue
<1>2. \A u \in Thread \ {t} : todo'[u] = todo[u]
  BY DEF Issue, TypeOK
<1>3. \A u \in Thread \ {t} : Driven(u)' /\ AtOnce(u)' /\ Pending(u)' = Pending(u)
  BY <1>2, DrivenSame DEF AgreesInv
<1>4. /\ todo[t] = <<>> /\ Pending(t) = {}
      /\ UNCHANGED <<pumpStatus, pumpPercents, pumpRuns, pumpLevel, booting>>
  BY DEF Issue, status, nodes, Pending
<1>5. todo'[t] # <<>> => todo'[t][1].do \notin Halves
  <2>1. todo'[t] # <<>> => 1 \in DOMAIN todo'[t]
    BY IssueType DEF TypeOK
  <2>2. QED  BY <1>1, <2>1 DEF Pending
<1>6. ASSUME NEW p \in Pump, AgreeInv(p)
      PROVE  AgreeInv(p)'
  <2>1. Boots(p)'
    <3>1. booting[NodeOf(p)] \in Thread \cup {NoThread}
      BY PumpNodes DEF TypeOK
    <3>2. QED  BY <1>2, <1>4, <1>6, <3>1 DEF AgreeInv, Boots
  <2>2. LevelSent(p)' /\ Enabled(p)'
    BY <1>3, <1>4, <1>6 DEF AgreeInv, LevelSent, Enabled
  <2>3. Current(t, p)'
    BY <1>5 DEF Current, Halves
  <2>4. \A u \in Thread \ {t} : Current(u, p)'
    BY <1>2, <1>3, <1>4, <1>6 DEF AgreeInv, Current, getPumpLONState
  <2>5. QED  BY <2>1, <2>2, <2>3, <2>4 DEF AgreeInv
<1>7. QED  BY <1>1, <1>3, <1>6 DEF AgreesInv

LEMMA AgreesStep == TypeOK /\ PowerInv /\ RunsInv /\ AgreesInv /\ ~Lossy /\ [Next]_vars => AgreesInv'
<1>1. ASSUME AgreesInv, UNCHANGED vars
      PROVE  AgreesInv'
  <2>1. UNCHANGED <<todo, pumpStatus, pumpPercents, pumpRuns, pumpLevel, booting>>
    BY <1>1 DEF vars, status, nodes
  <2>2. \A u \in Thread : Driven(u)' /\ AtOnce(u)' /\ Pending(u)' = Pending(u)
    BY <1>1, <2>1, DrivenSame DEF AgreesInv
  <2>3. ASSUME NEW p \in Pump, AgreeInv(p)
        PROVE  AgreeInv(p)'
    <3>1. Boots(p)' /\ LevelSent(p)' /\ Enabled(p)'
      BY <2>1, <2>2, <2>3 DEF AgreeInv, Boots, LevelSent, Enabled
    <3>2. \A u \in Thread : Current(u, p)'
      BY <2>1, <2>2, <2>3 DEF AgreeInv, Current, getPumpLONState
    <3>3. QED  BY <3>1, <3>2 DEF AgreeInv
  <2>4. QED  BY <1>1, <2>2, <2>3 DEF AgreesInv
<1>2. QED  BY <1>1, AgreesRun, AgreesIssue DEF Next

\* Who may switch a pump drives its node.
LEMMA PrivateIsOwned ==
  ASSUME NEW p \in Pump, NodeOf(p) \in PrivateNodes
  PROVE  Owned(p)
<1>1. ASSUME NEW t \in Thread, Switches(t, p)
      PROVE  Drives(t, NodeOf(p))
  <2>1. PICK r \in Menu[t] : r.op \in {"pumpOn", "pumpOff", "methodPumpOn"} /\ r.id = p
    BY <1>1 DEF Switches
  <2>2. r \in Request
    BY MenuAssumption
  <2>3. "id" \in DOMAIN r
    BY <2>1, <2>2 DEF Request
  <2>4. QED  BY <2>1, <2>3 DEF Drives
<1>2. QED  BY <1>1 DEF Owned, PrivateNodes

\* Once every request about a pump is done, the pump runs exactly if it is commanded
\* on, and at the percent the server remembers: on a line that loses no command, for
\* each pump whose node one thread drives, whatever the other threads do to other
\* nodes and to the heater.  It rests on the order of the steps (power, percent,
\* enable; disable, power off), on setPumpPercent's test of the node's state, which
\* nobody can make stale, and on the second that switchPumpNode sleeps.
THEOREM PumpsAgree ==
  ASSUME ~Lossy
  PROVE  Spec => []PumpAgrees
<1>1. ASSUME TypeOK, RunsInv, AgreesInv
      PROVE  PumpAgrees
  <2> SUFFICES ASSUME NEW p \in Pump, NodeOf(p) \in PrivateNodes, PumpSettled(p)
               PROVE  /\ pumpRuns[p] = pumpStatus[p]
                      /\ pumpStatus[p] => pumpLevel[p] = pumpPercents[p]
    BY DEF PumpAgrees
  <2>1. AgreeInv(p) /\ RunInv(p)
    BY <1>1, PrivateIsOwned DEF AgreesInv, RunsInv
  <2>2. ASSUME NEW t \in Thread, NEW x \in Pending(t)
        PROVE  ~ToCome(x, p) /\ ~ToEnable(x, p)
    BY DEF PumpSettled, PumpStep, Pending, ToCome, ToEnable, Loads, Enables, Powers
  <2>3. pumpStatus[p] => pumpRuns[p] /\ pumpLevel[p] = pumpPercents[p]
    BY <2>1, <2>2 DEF AgreeInv, LevelSent, Enabled
  <2>4. pumpRuns[p] => pumpStatus[p]
    BY <2>1 DEF RunInv
  <2>5. pumpRuns[p] \in BOOLEAN /\ pumpStatus[p] \in BOOLEAN
    BY <1>1 DEF TypeOK
  <2>6. QED  BY <2>3, <2>4, <2>5
<1>2. QED
  BY <1>1, Typing, PowerInvInit, PowerInvStep, RunsInit, RunsStep, AgreesInit, AgreesStep, PTL DEF Spec


-----------------------------------------------------------------------------
(* The heater, if one thread at most drives it.                            *)

Warms(t) ==
  \E r \in Menu[t] : r.op \in {"heaterOn", "heaterOff", "heaterTemp", "methodHeaterOn"}

Sole == \A t, u \in Thread : Warms(t) /\ Warms(u) => t = u

HeaterKinds == {"switchHeater", "storeHeater", "sendHeater", "loadTemp", "storeTemp", "testHeater",
                "sendTemp"}

HeatSleeps(x) == x.do = "sleep" /\ x.node = HeaterNode
HeatPowers(x, b) == x.do = "switchHeater" /\ x.on = b
HeatEnables(x, b) == x.do = "sendHeater" /\ x.on = b
Sets(x, v) == x.do = "storeTemp" /\ x.val = v
Tests(x, v) == x.do = "testHeater" /\ x.val = v

\* The heater is switched on first, or again, and disabled right before it is switched
\* off; a set point is stored, tested and sent without another in between.
HeaterOrder(t) ==
  \A j \in DOMAIN todo[t] : LET x == todo[t][j] IN
    /\ x.do \in HeaterKinds \/ HeatSleeps(x) => Warms(t)
    /\ HeatEnables(x, FALSE) => j < Len(todo[t]) /\ HeatPowers(todo[t][j + 1], FALSE)
    /\ x.do = "storeHeater" => j = 1
    /\ HeatPowers(x, TRUE) =>
         /\ j = 1
         /\ \/ heaterStatus
            \/ /\ \E y \in Pending(t) : HeatEnables(y, TRUE)
               /\ \E y \in Pending(t) : y.do = "loadTemp"
    /\ x.do = "storeTemp" => j < Len(todo[t]) /\ Tests(todo[t][j + 1], x.val)
    /\ x.do = "testHeater" =>
         IF j = 1 THEN x.val = heaterSetTemp ELSE Sets(todo[t][j - 1], x.val)
    /\ x.do = "sendTemp" =>
         /\ x.val = heaterSetTemp
         /\ \A k \in 1..(j - 1) : todo[t][k].do \in {"switchHeater", "storeHeater", "sleep"}

LEMMA HeaterOrderIssue ==
  ASSUME TypeOK, NEW t \in Thread, NEW r \in Menu[t], Issue(t, r)
  PROVE  HeaterOrder(t)' /\ \A x \in Pending(t)' : x.do # "storeHeater" /\ x.do # "sleep"
<1>1. r \in Request
  BY MenuAssumption
<1>2. todo'[t] = Steps(r) /\ UNCHANGED <<heaterStatus, heaterSetTemp>>
  BY DEF Issue, TypeOK, status
<1> DEFINE q == Steps(r)
<1>3. CASE r.op \notin {"heaterOn", "heaterOff", "heaterTemp", "methodHeaterOn"}
  <2>1. \A j \in DOMAIN q : q[j].do \notin HeaterKinds /\ q[j].do # "sleep"
    <3>1. CASE r.op = "methodPumpOn"
      <4>1. r.id \in Pump /\ PercentArg(r.raw) \in Nat
        BY <1>1, <3>1 DEF Request, PercentArg
      <4>2. q = << PowerStep(r.id, TRUE), LoadStep(r.id), EnableStep(r.id, TRUE),
                   [do |-> "testNode", id |-> r.id, val |-> PercentArg(r.raw)] >>
        BY <3>1, <4>1, MethodPumpSteps DEF Steps
      <4> HIDE DEF q
      <4>3. QED  BY <4>2 DEF PowerStep, LoadStep, EnableStep, HeaterKinds
    <3>2. CASE r.op # "methodPumpOn"
      <4>1. CASE r.op = "pumpOn"
        BY <4>1 DEF Steps, pumpOn, HeaterKinds
      <4>2. CASE r.op = "pumpOff"
        BY <4>2 DEF Steps, pumpOff, HeaterKinds
      <4>3. CASE r.op = "pumpPercent"
        BY <4>3 DEF Steps, setPumpPercent, HeaterKinds
      <4>4. CASE r.op \in {"lampOn", "lampOff"}
        <5>1. \E b : q = << [do |-> "sendLamp", on |-> b] >>
          BY <4>4 DEF Steps, switchLamp
        <5> HIDE DEF q
        <5>2. QED  BY <5>1 DEF HeaterKinds
      <4>5. QED  BY <1>1, <1>3, <3>2, <4>1, <4>2, <4>3, <4>4 DEF Request
    <3>3. QED  BY <3>1, <3>2
  <2> HIDE DEF q
  <2>2. todo'[t] = q
    BY <1>2 DEF q
  <2>3. QED
    BY <2>1, <2>2 DEF HeaterOrder, Pending, HeaterKinds, HeatSleeps, HeatPowers, HeatEnables
<1>4. CASE r.op = "heaterOff"
  <2>0. Warms(t)
    BY <1>4 DEF Warms
  <2>1. q = << [do |-> "sendHeater", on |-> FALSE], [do |-> "switchHeater", on |-> FALSE] >>
    BY <1>4 DEF Steps, heaterOff
  <2> HIDE DEF q
  <2>2. DOMAIN q = 1..2 /\ Len(q) = 2 /\ HeatEnables(q[1], FALSE) /\ HeatPowers(q[2], FALSE)
    BY <2>1 DEF HeatEnables, HeatPowers
  <2>3. todo'[t] = q
    BY <1>2 DEF q
  <2>4. QED  BY <2>0, <2>2, <2>3 DEF HeaterOrder, Pending, HeatEnables, HeatPowers
<1>5. CASE r.op = "heaterTemp"
  <2>0. Warms(t)
    BY <1>5 DEF Warms
  <2>1. q = << [do |-> "storeTemp", val |-> r.temp], [do |-> "testHeater", val |-> r.temp] >>
    BY <1>5 DEF Steps, setHeaterTemp
  <2> HIDE DEF q
  <2>2. DOMAIN q = 1..2 /\ Len(q) = 2 /\ Sets(q[1], r.temp) /\ Tests(q[2], r.temp)
    BY <2>1 DEF Sets, Tests
  <2>3. todo'[t] = q
    BY <1>2 DEF q
  <2>4. \A j \in DOMAIN q : \/ j = 1 /\ q[j].do = "storeTemp" /\ Tests(q[j + 1], q[j].val)
                            \/ j = 2 /\ q[j].do = "testHeater" /\ Sets(q[j - 1], q[j].val)
    BY <2>2 DEF Sets, Tests
  <2>5. HeaterOrder(t)'
    BY <2>0, <2>2, <2>3, <2>4 DEF HeaterOrder, HeatEnables, HeatPowers
  <2>6. \A x \in Pending(t)' : x.do # "storeHeater" /\ x.do # "sleep"
    BY <2>3, <2>4 DEF Pending
  <2>7. QED  BY <2>5, <2>6
<1>6. CASE r.op \in {"heaterOn", "methodHeaterOn"}
  <2>0. Warms(t)
    BY <1>6 DEF Warms
  <2>1. /\ \/ DOMAIN q = 1..3 /\ Len(q) = 3
           \/ /\ DOMAIN q = 1..5 /\ Len(q) = 5
              /\ Sets(q[4], r.temp) /\ Tests(q[5], r.temp)
        /\ HeatPowers(q[1], TRUE) /\ q[2].do = "loadTemp" /\ HeatEnables(q[3], TRUE)
    <3>1. CASE r.op = "heaterOn"
      BY <3>1 DEF Steps, heaterOn, HeatPowers, HeatEnables
    <3>2. CASE r.op = "methodHeaterOn"
      <4>1. r.temp \in Temp
        BY <1>1, <3>2 DEF Request
      <4>2. q = << [do |-> "switchHeater", on |-> TRUE], [do |-> "loadTemp"],
                   [do |-> "sendHeater", on |-> TRUE],
                   [do |-> "storeTemp", val |-> r.temp], [do |-> "testHeater", val |-> r.temp] >>
        BY <3>2, <4>1, MethodHeaterSteps DEF Steps
      <4> HIDE DEF q
      <4>3. QED  BY <4>2 DEF HeatPowers, HeatEnables, Sets, Tests
    <3>3. QED  BY <1>6, <3>1, <3>2
  <2> HIDE DEF q
  <2>2. todo'[t] = q /\ q[2] \in Pending(t)' /\ q[3] \in Pending(t)'
    BY <1>2, <2>1 DEF q, Pending
  <2>3. QED  BY <2>0, <2>1, <2>2 DEF HeaterOrder, Pending, Sets, Tests, HeatEnables, HeatPowers
<1>7. QED  BY <1>3, <1>4, <1>5, <1>6

\* What the heater's steps expand to.
LEMMA ExpandsHeater ==
  ASSUME NEW h \in Step, NEW s \in Seq(Step), Expands(h, s), NEW j \in 1..Len(s)
  PROVE  /\ s[j].do \in HeaterKinds \/ HeatSleeps(s[j]) => h.do \in HeaterKinds
         /\ s[j].do \notin {"sendHeater", "loadTemp"}
         /\ s[j].do = "storeHeater" => j = 1
         /\ s[j].do = "switchHeater" => j = 1 /\ heaterStatus
         /\ s[j].do = "storeTemp" => j = 1 /\ Len(s) = 2 /\ Tests(s[2], s[1].val)
         /\ s[j].do = "testHeater" => j = 2 /\ Sets(s[1], s[2].val)
         /\ s[j].do = "sendTemp" =>
              j = 2 /\ h.do = "testHeater" /\ s[2].val = h.val /\ s[1].do = "switchHeater"
         /\ h.do \in {"switchHeater", "storeHeater", "sleep"} => s[j].do \in {"storeHeater", "sleep"}
<1>1. CASE h.do \in {"switchHeater", "testHeater", "loadTemp"}
  BY <1>1 DEF Expands, HeaterKinds, HeatSleeps, Sets, Tests
<1>2. CASE h.do = "pumpGPIO"
  <2>1. NodeOf(h.id) # HeaterNode
    BY <1>2, StepFields, PumpNodes
  <2>2. QED  BY <1>2, <2>1 DEF Expands, HeaterKinds, HeatSleeps
<1>3. CASE h.do \notin {"switchHeater", "testHeater", "loadTemp", "pumpGPIO"}
  BY <1>3 DEF Expands, HeaterKinds, HeatSleeps
<1>4. QED  BY <1>1, <1>2, <1>3


LEMMA HeaterStored ==
  ASSUME TypeOK, NEW t \in Thread, Run(t)
  PROVE  LET h == todo[t][1] IN
         /\ heaterSetTemp' = IF h.do = "storeTemp" THEN h.val ELSE heaterSetTemp
         /\ heaterStatus' = IF h.do = "storeHeater" THEN h.on ELSE heaterStatus
<1> DEFINE h == todo[t][1]
<1>1. Head(todo[t]) = h
  BY RunExpands DEF TypeOK
<1>2. CASE StoreHeater(t)
  BY <1>1, <1>2 DEF StoreHeater, At
<1>3. CASE StoreTemp(t)
  BY <1>1, <1>3 DEF StoreTemp, At
<1>4. CASE ~StoreHeater(t) /\ ~StoreTemp(t)
  BY <1>1, <1>4 DEF Run, At, status, SwitchPump, SwitchPumpGPIO, Wake, LoadPercent, TestNode,
     StorePercent, SwitchHeater, LoadTemp, TestHeater, SendPump, SendPercent, SendHeater, SendTemp,
     SendLamp
<1>5. QED  BY <1>2, <1>3, <1>4

LEMMA HeaterOrderRun ==
  ASSUME TypeOK, NEW t \in Thread, HeaterOrder(t), Run(t)
  PROVE  HeaterOrder(t)'
<1> DEFINE h == todo[t][1]
           n == Len(todo[t])
<1>1. PICK s \in Seq(Step) : Continue(t, s) /\ Expands(Head(todo[t]), s)
  BY RunExpands
<1>2. todo[t] # <<>> /\ todo[t] \in Seq(Step) /\ Head(todo[t]) = h /\ h \in Step
      /\ n \in Nat \ {0} /\ DOMAIN todo[t] = 1..n /\ 1 \in 1..n
  BY RunExpands DEF TypeOK
<1>3. /\ todo'[t] \in Seq(Step)
      /\ Len(todo'[t]) = Len(s) + n - 1
      /\ \A j \in 1..Len(s) : todo'[t][j] = s[j]
      /\ \A j \in 2..n : todo'[t][Len(s) + j - 1] = todo[t][j]
      /\ \A j \in DOMAIN todo'[t] : j \in 1..Len(s) \/ \E m \in 2..n : j = Len(s) + m - 1
  BY <1>1, <1>2, Continued
<1>4. /\ heaterSetTemp' = IF h.do = "storeTemp" THEN h.val ELSE heaterSetTemp
      /\ heaterStatus' = IF h.do = "storeHeater" THEN h.on ELSE heaterStatus
  BY HeaterStored
<1>5. Len(s) \in Nat /\ (s = <<>> <=> Len(s) = 0)
  OBVIOUS
<1>6. /\ h.do = "storeTemp" => s = <<>>
      /\ h.do = "storeHeater" => s = <<>>
  BY <1>1, <1>2 DEF Expands
<1> SUFFICES ASSUME NEW j \in DOMAIN todo'[t]
             PROVE  LET x == todo'[t][j] IN
    /\ x.do \in HeaterKinds \/ HeatSleeps(x) => Warms(t)
    /\ HeatEnables(x, FALSE) => j < Len(todo'[t]) /\ HeatPowers(todo'[t][j + 1], FALSE)
    /\ x.do = "storeHeater" => j = 1
    /\ HeatPowers(x, TRUE) => j = 1 /\ heaterStatus'
    /\ x.do = "storeTemp" => j < Len(todo'[t]) /\ Tests(todo'[t][j + 1], x.val)
    /\ x.do = "testHeater" =>
         IF j = 1 THEN x.val = heaterSetTemp' ELSE Sets(todo'[t][j - 1], x.val)
    /\ x.do = "sendTemp" =>
         /\ x.val = heaterSetTemp'
         /\ \A k \in 1..(j - 1) : todo'[t][k].do \in {"switchHeater", "storeHeater", "sleep"}
  BY DEF HeaterOrder, HeatSleeps, HeatEnables, HeatPowers, Sets, Tests
<1> DEFINE x == todo'[t][j]
<1>7. CASE j \in 1..Len(s)
  <2>1. x = s[j]
    BY <1>3, <1>7
  <2>2. /\ x.do \in HeaterKinds \/ HeatSleeps(x) => h.do \in HeaterKinds
        /\ x.do \notin {"sendHeater", "loadTemp"}
        /\ x.do = "storeHeater" => j = 1
        /\ x.do = "switchHeater" => j = 1 /\ heaterStatus
        /\ x.do = "storeTemp" => j = 1 /\ Len(s) = 2 /\ Tests(s[2], s[1].val)
        /\ x.do = "testHeater" => j = 2 /\ Sets(s[1], s[2].val)
        /\ x.do = "sendTemp" =>
             j = 2 /\ h.do = "testHeater" /\ s[2].val = h.val /\ s[1].do = "switchHeater"
    BY <1>1, <1>2, <1>7, <2>1, ExpandsHeater
  <2>3. h.do \notin {"storeTemp", "storeHeater"}
    BY <1>6, <1>5, <1>7
  <2>4. x.do \in HeaterKinds \/ HeatSleeps(x) => Warms(t)
    BY <1>2, <2>2 DEF HeaterOrder
  <2>5. HeatPowers(x, TRUE) => j = 1 /\ heaterStatus'
    BY <1>4, <2>2, <2>3 DEF HeatPowers
  <2>6. x.do = "storeTemp" => j < Len(todo'[t]) /\ Tests(todo'[t][j + 1], x.val)
    <3>1. ASSUME x.do = "storeTemp"
          PROVE  j < Len(todo'[t]) /\ Tests(todo'[t][j + 1], x.val)
      <4>1. j = 1 /\ Len(s) = 2 /\ Tests(s[2], s[1].val)
        BY <2>2, <3>1
      <4>2. todo'[t][j + 1] = s[2] /\ x = s[1]
        BY <1>3, <2>1, <4>1
      <4>3. j < Len(todo'[t])
        BY <1>2, <1>3, <4>1
      <4>4. QED  BY <4>1, <4>2, <4>3
    <3>2. QED  BY <3>1
  <2>7. x.do \in {"testHeater", "sendTemp"} => j # 1 /\ todo'[t][j - 1] = s[1] /\ j = 2 /\ x = s[2]
    BY <1>3, <1>5, <1>7, <2>1, <2>2
  <2>8. x.do = "testHeater" => IF j = 1 THEN x.val = heaterSetTemp' ELSE Sets(todo'[t][j - 1], x.val)
    BY <2>2, <2>7
  <2>9. x.do = "sendTemp" =>
          /\ x.val = heaterSetTemp'
          /\ \A k \in 1..(j - 1) : todo'[t][k].do \in {"switchHeater", "storeHeater", "sleep"}
    <3>1. ASSUME x.do = "sendTemp"
          PROVE  x.val = heaterSetTemp'
      BY <1>2, <1>4, <2>2, <2>3, <2>7, <3>1 DEF HeaterOrder
    <3>2. ASSUME x.do = "sendTemp", NEW k \in 1..(j - 1)
          PROVE  todo'[t][k].do \in {"switchHeater", "storeHeater", "sleep"}
      <4>1. k = 1 /\ j - 1 = 1
        BY <2>7, <3>2
      <4>2. QED  BY <2>2, <2>7, <3>2, <4>1
    <3>3. QED  BY <3>1, <3>2
  <2>10. QED  BY <2>2, <2>4, <2>5, <2>6, <2>8, <2>9 DEF HeatEnables
<1>8. CASE \E m \in 2..n : j = Len(s) + m - 1
  <2>1. PICK m \in 2..n : j = Len(s) + m - 1
    BY <1>8
  <2>2. m \in DOMAIN todo[t] /\ m # 1 /\ x = todo[t][m]
    BY <1>2, <1>3, <2>1
  <2>3. /\ x.do \in HeaterKinds \/ HeatSleeps(x) => Warms(t)
        /\ x.do # "storeHeater" /\ ~HeatPowers(x, TRUE)
        /\ HeatEnables(x, FALSE) => m < n /\ HeatPowers(todo[t][m + 1], FALSE)
        /\ x.do = "storeTemp" => m < n /\ Tests(todo[t][m + 1], x.val)
        /\ x.do = "testHeater" => Sets(todo[t][m - 1], x.val)
        /\ x.do = "sendTemp" =>
             /\ x.val = heaterSetTemp
             /\ \A k \in 1..(m - 1) : todo[t][k].do \in {"switchHeater", "storeHeater", "sleep"}
    BY <2>2 DEF HeaterOrder
  <2>4. m < n => j < Len(todo'[t]) /\ todo'[t][j + 1] = todo[t][m + 1]
    <3>1. ASSUME m < n
          PROVE  j < Len(todo'[t]) /\ todo'[t][j + 1] = todo[t][m + 1]
      <4>1. m + 1 \in 2..n /\ j + 1 = Len(s) + (m + 1) - 1 /\ j < Len(s) + n - 1
        BY <1>2, <1>5, <2>1, <3>1
      <4>2. QED  BY <1>3, <4>1
    <3>2. QED  BY <3>1
  <2>5. x.do = "testHeater" => IF j = 1 THEN x.val = heaterSetTemp' ELSE Sets(todo'[t][j - 1], x.val)
    <3>1. CASE m = 2
      <4>1. ASSUME x.do = "testHeater"
            PROVE  j = 1 /\ x.val = heaterSetTemp'
        <5>1. Sets(h, x.val)
          BY <2>3, <3>1, <4>1
        <5>2. QED  BY <1>4, <1>5, <1>6, <2>1, <3>1, <5>1 DEF Sets
      <4>2. QED  BY <4>1
    <3>2. CASE m # 2
      <4>1. m - 1 \in 2..n /\ j - 1 = Len(s) + (m - 1) - 1 /\ j # 1
        BY <1>2, <1>5, <2>1, <3>2
      <4>2. todo'[t][j - 1] = todo[t][m - 1]
        BY <1>3, <4>1
      <4>3. QED  BY <2>3, <4>1, <4>2
    <3>3. QED  BY <3>1, <3>2
  <2>6. x.do = "sendTemp" =>
          /\ x.val = heaterSetTemp'
          /\ \A k \in 1..(j - 1) : todo'[t][k].do \in {"switchHeater", "storeHeater", "sleep"}
    <3>1. ASSUME x.do = "sendTemp"
          PROVE  h.do \in {"switchHeater", "storeHeater", "sleep"} /\ x.val = heaterSetTemp'
      <4>1. 1 \in 1..(m - 1)
        BY <2>1, <1>2
      <4>2. QED  BY <1>4, <2>3, <3>1, <4>1
    <3>2. ASSUME x.do = "sendTemp", NEW k \in 1..(j - 1)
          PROVE  todo'[t][k].do \in {"switchHeater", "storeHeater", "sleep"}
      <4>1. CASE k \in 1..Len(s)
        BY <1>1, <1>2, <1>3, <3>1, <3>2, <4>1, ExpandsHeater
      <4>2. CASE k \notin 1..Len(s)
        <5>1. k - Len(s) + 1 \in 2..n /\ k - Len(s) + 1 \in 1..(m - 1)
              /\ k = Len(s) + (k - Len(s) + 1) - 1
          BY <1>2, <1>5, <2>1, <4>2
        <5>2. todo'[t][k] = todo[t][k - Len(s) + 1]
          BY <1>3, <5>1
        <5>3. QED  BY <2>3, <3>2, <5>1, <5>2
      <4>3. QED  BY <4>1, <4>2
    <3>3. QED  BY <3>1, <3>2
  <2>7. QED  BY <2>3, <2>4, <2>5, <2>6
<1>9. QED  BY <1>3, <1>7, <1>8


\* Who powered the heater sleeps until its node has booted, once it has recorded it.
HeatBoots ==
  booting[HeaterNode] # NoThread => LET q == todo[booting[HeaterNode]] IN
    /\ Warms(booting[HeaterNode]) /\ q # <<>>
    /\ \/ HeatSleeps(q[1])
       \/ q[1].do = "storeHeater" /\ Len(q) >= 2 /\ HeatSleeps(q[2])

\* The heater's node is as powered as the status says, or is about to say.
Stores(t) == todo[t] # <<>> /\ todo[t][1].do = "storeHeater"
HeatPower ==
  /\ heaterRuns => power[HeaterNode]
  /\ \A t \in Thread : Stores(t) => power[HeaterNode] = todo[t][1].on
  /\ (\A t \in Thread : ~Stores(t)) => power[HeaterNode] = heaterStatus

\* A powered heater is enabled, or about to be enabled or switched off.
ToHeat(x) == HeatEnables(x, TRUE) \/ HeatPowers(x, FALSE)
HeatEnabled ==
  power[HeaterNode] => heaterRuns \/ \E t \in Thread : \E x \in Pending(t) : ToHeat(x)

\* A powered heater is set to what the server remembers, or is about to be.
ToSet(x) ==
  x.do \in {"loadTemp", "storeTemp", "sendTemp"} \/ (x.do = "testHeater" /\ x.val = heaterSetTemp)
HeatSet ==
  power[HeaterNode] =>
    heaterLevel = heaterSetTemp \/ \E t \in Thread : \E x \in Pending(t) : ToSet(x)

HeatInv ==
  /\ \A t \in Thread : HeaterOrder(t)
  /\ HeatBoots /\ HeatPower /\ HeatEnabled /\ HeatSet

\* Thread t takes a step, which is followed by the steps s.
Heating(t, s) ==
  /\ TypeOK /\ HeatInv
  /\ todo[t] # <<>> /\ todo[t][1] = Head(todo[t])
  /\ todo[t][1] \in Step /\ todo[t][1] \in Pending(t) /\ 1 \in DOMAIN todo[t]
  /\ s \in Seq(Step) /\ Expands(todo[t][1], s)
  /\ \A u \in Thread : HeaterOrder(u)'
  /\ \A u \in Thread \ {t} : todo'[u] = todo[u] /\ Pending(u)' = Pending(u)
  /\ \A x \in Pending(t) : x = todo[t][1] \/ x \in Pending(t)'
  /\ \A j \in 1..Len(s) : s[j] \in Pending(t)' /\ todo'[t][j] = s[j]
  /\ s # <<>> => todo'[t] # <<>> /\ Len(todo'[t]) >= Len(s)
  /\ s = <<>> /\ todo'[t] # <<>> => todo'[t][1] = todo[t][2] /\ 2 \in DOMAIN todo[t]
  /\ s = <<>> => Len(todo'[t]) = Len(todo[t]) - 1

LEMMA RunHeats ==
  ASSUME TypeOK, HeatInv, Sole, NEW t \in Thread, Run(t)
  PROVE  \E s : Heating(t, s)
<1> DEFINE h == todo[t][1]
           n == Len(todo[t])
<1>1. PICK s \in Seq(Step) : Continue(t, s) /\ Expands(Head(todo[t]), s)
  BY RunExpands
<1>2. todo[t] # <<>> /\ todo[t] \in Seq(Step) /\ Head(todo[t]) = h /\ h \in Step
      /\ n \in Nat \ {0} /\ DOMAIN todo[t] = 1..n /\ 1 \in DOMAIN todo[t]
  BY RunExpands DEF TypeOK
<1>3. /\ todo'[t] \in Seq(Step)
      /\ Len(todo'[t]) = Len(s) + n - 1
      /\ \A j \in 1..Len(s) : todo'[t][j] = s[j]
      /\ \A u \in Thread \ {t} : todo'[u] = todo[u]
  BY <1>1, <1>2, Continued
<1>4. /\ \A m \in 2..n : todo[t][m] \in Pending(t)'
      /\ \A j \in 1..Len(s) : s[j] \in Pending(t)'
      /\ todo'[t] # <<>> => todo'[t][1] = IF s = <<>> THEN todo[t][2] ELSE s[1]
      /\ todo'[t] # <<>> /\ s = <<>> => 2 \in 2..n
  BY <1>1, <1>2, PendingAfter
<1>5. h \in Pending(t) /\ \A x \in Pending(t) : x = h \/ x \in Pending(t)'
  <2>1. \A m \in DOMAIN todo[t] : m = 1 \/ m \in 2..n
    BY <1>2
  <2>2. QED  BY <1>2, <1>4, <2>1 DEF Pending
<1>6. s # <<>> => todo'[t] # <<>> /\ Len(todo'[t]) >= Len(s)
  BY <1>2, <1>3
<1>7. HeaterOrder(t)'
  BY HeaterOrderRun DEF HeatInv
<1>8. ASSUME NEW u \in Thread \ {t}
      PROVE  HeaterOrder(u)' /\ todo'[u] = todo[u] /\ Pending(u)' = Pending(u)
  <2>1. todo'[u] = todo[u] /\ Pending(u)' = Pending(u)
    BY <1>3 DEF Pending
  <2>2. UNCHANGED <<heaterStatus, heaterSetTemp>> \/ Warms(t)
    BY <1>2, HeaterStored DEF HeatInv, HeaterOrder, HeaterKinds
  <2>3. CASE UNCHANGED <<heaterStatus, heaterSetTemp>>
    <3>1. HeaterOrder(u)
      BY DEF HeatInv
    <3>2. QED  BY <2>1, <2>3, <3>1 DEF HeaterOrder, HeatSleeps, HeatPowers, HeatEnables, Sets, Tests
  <2>4. CASE Warms(t)
    <3>1. \A j \in DOMAIN todo[u] : todo[u][j].do \notin HeaterKinds /\ ~HeatSleeps(todo[u][j])
      BY <2>4 DEF Sole, HeatInv, HeaterOrder
    <3>2. QED  BY <2>1, <3>1 DEF HeaterOrder, HeaterKinds, HeatSleeps, HeatPowers, HeatEnables
  <2>5. QED  BY <2>1, <2>2, <2>3, <2>4
<1>9. 2 \in 2..n => 2 \in DOMAIN todo[t]
  BY <1>2
<1>10. s = <<>> => Len(todo'[t]) = n - 1
  BY <1>2, <1>3
<1>11. \A u \in Thread : HeaterOrder(u)'
  BY <1>7, <1>8
<1>12. Heating(t, s)
  BY <1>1, <1>2, <1>3, <1>4, <1>5, <1>6, <1>8, <1>9, <1>10, <1>11 DEF Heating
<1>13. QED  BY <1>12

\* The heater's commands are heard while it is powered, and it is not booting while
\* its thread is at another of its steps.
LEMMA HeaterAlone ==
  ASSUME Sole, NEW t \in Thread, NEW s, Heating(t, s), todo[t][1].do \in HeaterKinds
  PROVE  /\ \A u \in Thread \ {t} : ~Stores(u)
         /\ booting[HeaterNode] \in {t, NoThread}
         /\ todo[t][1].do # "storeHeater" =>
              booting[HeaterNode] = NoThread /\ power[HeaterNode] = heaterStatus
<1>1. Warms(t)
  BY DEF Heating, HeatInv, HeaterOrder
<1>2. \A u \in Thread : Warms(u) => u = t
  BY <1>1 DEF Sole
<1>3. ASSUME NEW u \in Thread \ {t}, Stores(u)
      PROVE  FALSE
  <2>1. 1 \in DOMAIN todo[u]
    BY <1>3 DEF Heating, TypeOK, Stores
  <2>2. Warms(u)
    BY <1>3, <2>1 DEF Heating, HeatInv, HeaterOrder, Stores, HeaterKinds
  <2>3. QED  BY <1>2, <2>2
<1>4. booting[HeaterNode] \in {t, NoThread}
  <2>1. booting[HeaterNode] \in Thread \cup {NoThread}
    BY HeaterNodeType DEF Heating, TypeOK
  <2>2. QED  BY <1>2, <2>1 DEF Heating, HeatInv, HeatBoots
<1>5. ASSUME todo[t][1].do # "storeHeater"
      PROVE  booting[HeaterNode] = NoThread /\ power[HeaterNode] = heaterStatus
  <2>1. \A u \in Thread : ~Stores(u)
    BY <1>3, <1>5 DEF Stores
  <2>2. QED
    BY <1>4, <1>5, <2>1 DEF Heating, HeatInv, HeatBoots, HeatPower, HeatSleeps, HeaterKinds
<1>6. QED  BY <1>3, <1>4, <1>5

LEMMA HeatEnabledKept ==
  ASSUME NEW t \in Thread, NEW s, Heating(t, s),
         power'[HeaterNode] => power[HeaterNode] /\ heaterRuns' = heaterRuns,
         power'[HeaterNode] /\ ToHeat(todo[t][1]) => \E x \in Pending(t)' : ToHeat(x)
  PROVE  HeatEnabled'
BY DEF Heating, HeatInv, HeatEnabled, ToHeat, HeatEnables, HeatPowers

LEMMA HeatSetKept ==
  ASSUME NEW t \in Thread, NEW s, Heating(t, s),
         heaterSetTemp' = heaterSetTemp,
         power'[HeaterNode] => power[HeaterNode] /\ heaterLevel' = heaterLevel,
         power'[HeaterNode] /\ ToSet(todo[t][1]) => \E x \in Pending(t)' : ToSet(x)
  PROVE  HeatSet'
BY DEF Heating, HeatInv, HeatSet, ToSet

\* Whoever's step it is, only the thread that is at storeHeater is there.
LEMMA StoresAfter ==
  ASSUME NEW t \in Thread, NEW s, Heating(t, s)
  PROVE  /\ \A u \in Thread \ {t} : Stores(u)' = Stores(u)
         /\ Stores(t)' => s # <<>> /\ s[1].do = "storeHeater"
<1>1. \A u \in Thread \ {t} : Stores(u)' = Stores(u)
  BY DEF Heating, Stores
<1>2. ASSUME Stores(t)'
      PROVE  s # <<>> /\ s[1].do = "storeHeater"
  <2>1. CASE s = <<>>
    <3>1. 2 \in DOMAIN todo[t] /\ todo[t][2].do = "storeHeater"
      BY <1>2, <2>1 DEF Heating, Stores
    <3>2. HeaterOrder(t)
      BY DEF Heating, HeatInv
    <3>3. \A j \in DOMAIN todo[t] : todo[t][j].do = "storeHeater" => j = 1
      BY <3>2 DEF HeaterOrder
    <3>4. QED  BY <3>1, <3>3
  <2>2. CASE s # <<>>
    <3>1. 1 \in 1..Len(s)
      BY <2>2 DEF Heating
    <3>2. QED  BY <1>2, <2>2, <3>1 DEF Heating, Stores
  <2>3. QED  BY <2>1, <2>2
<1>3. QED  BY <1>1, <1>2


LEMMA HeatBootsKept ==
  ASSUME NEW t \in Thread, NEW s, Heating(t, s),
         booting'[HeaterNode] \in {booting[HeaterNode], NoThread},
         booting[HeaterNode] = t => booting'[HeaterNode] = NoThread
  PROVE  HeatBoots'
<1>1. booting[HeaterNode] \in Thread \cup {NoThread}
  BY HeaterNodeType DEF Heating, TypeOK
<1>2. QED  BY <1>1 DEF Heating, HeatInv, HeatBoots, HeatSleeps

LEMMA HeatPowerKept ==
  ASSUME NEW t \in Thread, NEW s, Heating(t, s),
         power'[HeaterNode] = power[HeaterNode], heaterStatus' = heaterStatus,
         heaterRuns' => heaterRuns \/ power[HeaterNode],
         todo[t][1].do \notin {"switchHeater", "storeHeater"}
  PROVE  HeatPower'
<1>1. ~Stores(t)' /\ ~Stores(t)
  <2>1. s # <<>> => s[1].do # "storeHeater"
    BY DEF Heating, Expands
  <2>2. QED  BY <2>1, StoresAfter DEF Stores
<1>2. \A u \in Thread \ {t} : Stores(u)' = Stores(u) /\ todo'[u] = todo[u]
  BY StoresAfter DEF Heating
<1>3. QED  BY <1>1, <1>2 DEF Heating, HeatInv, HeatPower

\* Steps that do not concern the heater, but for the sleep after it is powered.
LEMMA HeatQuiet ==
  ASSUME NEW t \in Thread, NEW s, Heating(t, s),
         \/ SwitchPump(t) \/ SwitchPumpGPIO(t) \/ Wake(t) \/ LoadPercent(t) \/ TestNode(t)
         \/ StorePercent(t) \/ SendPump(t) \/ SendPercent(t) \/ SendLamp(t)
  PROVE  HeatInv'
<1> DEFINE h == todo[t][1]
           H == HeaterNode
<1>1. h.do \notin HeaterKinds /\ (h.do # "sleep" \/ Wake(t))
  BY DEF Heating, At, HeaterKinds, SwitchPump, SwitchPumpGPIO, Wake, LoadPercent, TestNode,
     StorePercent, SendPump, SendPercent, SendLamp
<1>2. UNCHANGED <<heaterStatus, heaterSetTemp>>
  BY DEF status, SwitchPump, SwitchPumpGPIO, Wake, LoadPercent, TestNode, StorePercent, SendPump,
     SendPercent, SendLamp
<1>3. /\ power'[H] = power[H] /\ heaterRuns' = heaterRuns /\ heaterLevel' = heaterLevel
      /\ booting'[H] \in {booting[H], NoThread}
      /\ booting[H] = t => booting'[H] = NoThread
  <2>0. h.do # "sleep" => booting[H] # t
    BY <1>1, NoThreadAssumption DEF Heating, HeatInv, HeatBoots, HeatSleeps, HeaterKinds
  <2>1. CASE SwitchPumpGPIO(t)
    <3>1. h.do = "pumpGPIO" /\ NodeOf(h.id) # H /\ NodeOf(h.id) \in Node
      BY <2>1, StepFields, PumpNodes DEF Heating, SwitchPumpGPIO, At
    <3>2. UNCHANGED <<power, nodes>> \/ \E on : SwitchGPIO(t, NodeOf(h.id), on)
      BY <2>1 DEF Heating, SwitchPumpGPIO
    <3>3. power'[H] = power[H] /\ booting'[H] = booting[H] /\ heaterLevel' = heaterLevel
      BY <3>1, <3>2, HeaterNodeType DEF Heating, TypeOK, SwitchGPIO, nodes
    <3>4. heaterRuns' = heaterRuns
      BY <3>1, <3>2 DEF Heating, TypeOK, SwitchGPIO, nodes
    <3>5. QED  BY <2>0, <3>1, <3>3, <3>4
  <2>2. CASE SendPump(t) \/ SendPercent(t)
    <3>1. h.do \in {"sendPump", "sendPercent"} /\ NodeOf(h.id) # H /\ NodeOf(h.id) \in Node
      BY <2>2, StepFields, PumpNodes DEF Heating, SendPump, SendPercent, At
    <3>2. booting' \in {booting, [booting EXCEPT ![NodeOf(h.id)] = NoThread]}
      BY <2>2 DEF Heating, SendPump, SendPercent, Booted
    <3>3. booting'[H] = booting[H]
      BY <3>1, <3>2, HeaterNodeType DEF Heating, TypeOK
    <3>4. QED  BY <2>0, <2>2, <3>1, <3>3 DEF SendPump, SendPercent
  <2>3. CASE Wake(t)
    <3>1. h.do = "sleep" /\ h.node \in Node
      BY <2>3, StepFields DEF Heating, Wake, At
    <3>2. booting' = IF booting[h.node] = t THEN [booting EXCEPT ![h.node] = NoThread] ELSE booting
      BY <2>3 DEF Heating, Wake
    <3>3. booting[H] = t => h.node = H
      BY <3>1, NoThreadAssumption DEF Heating, HeatInv, HeatBoots, HeatSleeps
    <3>4. QED  BY <2>3, <3>1, <3>2, <3>3, HeaterNodeType DEF Heating, TypeOK, Wake
  <2>4. CASE SwitchPump(t) \/ LoadPercent(t) \/ TestNode(t) \/ StorePercent(t) \/ SendLamp(t)
    <3>1. h.do # "sleep"
      BY <2>4 DEF Heating, At, SwitchPump, LoadPercent, TestNode, StorePercent, SendLamp
    <3>2. UNCHANGED <<power, booting, heaterRuns, heaterLevel>>
      BY <2>4 DEF nodes, SwitchPump, LoadPercent, TestNode, StorePercent, SendLamp
    <3>3. QED  BY <2>0, <3>1, <3>2
  <2>5. QED  BY <2>1, <2>2, <2>3, <2>4
<1>4. ~ToHeat(h) /\ ~ToSet(h)
  BY <1>1 DEF ToHeat, ToSet, HeaterKinds, HeatEnables, HeatPowers
<1>5. HeatBoots' /\ HeatPower'
  BY <1>1, <1>2, <1>3, HeatBootsKept, HeatPowerKept DEF HeaterKinds
<1>6. HeatEnabled' /\ HeatSet'
  BY <1>2, <1>3, <1>4, HeatEnabledKept, HeatSetKept
<1>7. QED  BY <1>5, <1>6 DEF HeatInv, Heating

\* switchHeaterNode, up to the unlock.
LEMMA HeatSwitch ==
  ASSUME Sole, NEW t \in Thread, NEW s, Heating(t, s), SwitchHeater(t)
  PROVE  HeatInv'
<1> DEFINE h == todo[t][1]
           H == HeaterNode
<1>1. h.do = "switchHeater" /\ h.on \in BOOLEAN /\ h.do \in HeaterKinds
  BY StepFields DEF Heating, SwitchHeater, At, HeaterKinds
<1>2. /\ UNCHANGED <<heaterStatus, heaterSetTemp>>
      /\ IF heaterStatus = h.on THEN UNCHANGED <<power, nodes>> ELSE SwitchGPIO(t, H, h.on)
  BY DEF Heating, SwitchHeater, status
<1>3. /\ \A u \in Thread \ {t} : ~Stores(u)
      /\ booting[H] = NoThread /\ power[H] = heaterStatus /\ Warms(t)
  BY <1>1, HeaterAlone DEF Heating, HeatInv, HeaterOrder
<1>4. /\ s # <<>> /\ 1 \in 1..Len(s) /\ s[1].do = "storeHeater" /\ s[1].on = h.on
      /\ h.on /\ ~heaterStatus => Len(s) = 2 /\ HeatSleeps(s[2])
  <2>1. CASE h.on /\ ~heaterStatus
    <3>1. s = << [do |-> "storeHeater", on |-> h.on], [do |-> "sleep", node |-> HeaterNode] >>
      BY <1>1, <2>1 DEF Heating, Expands
    <3>2. QED  BY <3>1 DEF HeatSleeps
  <2>2. CASE ~(h.on /\ ~heaterStatus)
    <3>1. s = << [do |-> "storeHeater", on |-> h.on] >>
      BY <1>1, <2>2 DEF Heating, Expands
    <3>2. QED  BY <2>2, <3>1
  <2>3. QED  BY <2>1, <2>2
<1>5. todo'[t] # <<>> /\ todo'[t][1] = s[1] /\ Stores(t)'
  BY <1>4 DEF Heating, Stores
<1>6. \A u \in Thread \ {t} : ~Stores(u)'
  BY <1>3, StoresAfter
<1>7. ~ToSet(h) /\ (ToHeat(h) => ~h.on)
  BY <1>1 DEF ToSet, ToHeat, HeatEnables, HeatPowers
<1>8. CASE heaterStatus = h.on
  <2>1. UNCHANGED <<power, booting, heaterRuns, heaterLevel>>
    BY <1>2, <1>8 DEF nodes
  <2>2. HeatBoots'
    BY <1>3, <2>1 DEF HeatBoots
  <2>3. HeatPower'
    BY <1>3, <1>4, <1>5, <1>6, <1>8, <2>1 DEF HeatPower, Heating, HeatInv
  <2>4. HeatEnabled' /\ HeatSet'
    BY <1>2, <1>3, <1>7, <1>8, <2>1, HeatEnabledKept, HeatSetKept
  <2>5. QED  BY <2>2, <2>3, <2>4 DEF HeatInv, Heating
<1>9. CASE heaterStatus # h.on
  <2>1. /\ power'[H] = h.on /\ ~heaterRuns'
        /\ booting'[H] = IF h.on THEN t ELSE NoThread
    BY <1>2, <1>9, HeaterNodeType DEF Heating, TypeOK, SwitchGPIO
  <2>2. HeatPower'
    BY <1>4, <1>5, <1>6, <2>1 DEF HeatPower
  <2>3. CASE h.on
    <3>1. ~heaterStatus
      BY <1>9, <2>3 DEF Heating, TypeOK
    <3>2. Len(todo'[t]) >= 2 /\ todo'[t][2] = s[2] /\ HeatSleeps(s[2])
      BY <1>4, <2>3, <3>1 DEF Heating
    <3>3. HeatSleeps(todo'[t][2])
      BY <3>2
    <3>4. HeatBoots'
      BY <1>3, <1>4, <1>5, <2>1, <2>3, <3>2, <3>3 DEF HeatBoots, HeatSleeps
    <3>5. HeatPowers(h, TRUE) /\ 1 \in DOMAIN todo[t]
      BY <1>1, <2>3 DEF HeatPowers, Heating
    <3>6. /\ \E y \in Pending(t) : HeatEnables(y, TRUE)
          /\ \E y \in Pending(t) : y.do = "loadTemp"
      BY <3>1, <3>5 DEF Heating, HeatInv, HeaterOrder
    <3>7. PICK y \in Pending(t) : HeatEnables(y, TRUE)
      BY <3>6
    <3>8. PICK z \in Pending(t) : z.do = "loadTemp"
      BY <3>6
    <3>9. y \in Pending(t)' /\ z \in Pending(t)'
      BY <1>1, <3>7, <3>8 DEF Heating, HeatEnables
    <3>10. HeatEnabled'
      BY <3>7, <3>9 DEF HeatEnabled, ToHeat
    <3>11. HeatSet'
      BY <3>8, <3>9 DEF HeatSet, ToSet
    <3>12. QED  BY <2>2, <3>4, <3>10, <3>11 DEF HeatInv, Heating
  <2>4. CASE ~h.on
    <3>1. HeatBoots' /\ HeatEnabled' /\ HeatSet'
      BY <2>1, <2>4 DEF HeatBoots, HeatEnabled, HeatSet
    <3>2. QED  BY <2>2, <3>1 DEF HeatInv, Heating
  <2>5. QED  BY <1>1, <2>3, <2>4
<1>10. QED  BY <1>8, <1>9


\* switchHeaterNode, after the unlock.
LEMMA HeatStore ==
  ASSUME Sole, NEW t \in Thread, NEW s, Heating(t, s), StoreHeater(t)
  PROVE  HeatInv'
<1> DEFINE h == todo[t][1]
           H == HeaterNode
<1>1. h.do = "storeHeater" /\ h.do \in HeaterKinds /\ Stores(t)
  BY DEF Heating, StoreHeater, At, HeaterKinds, Stores
<1>2. /\ heaterStatus' = h.on
      /\ UNCHANGED <<heaterSetTemp, power, booting, heaterRuns, heaterLevel>>
  BY DEF Heating, StoreHeater, nodes
<1>3. s = <<>>
  BY <1>1 DEF Heating, Expands
<1>4. \A u \in Thread : ~Stores(u)'
  BY <1>1, <1>3, StoresAfter, HeaterAlone
<1>5. HeatPower'
  BY <1>1, <1>2, <1>4 DEF HeatPower, Heating, HeatInv
<1>6. HeatBoots'
  <2>1. CASE booting[H] = NoThread
    BY <1>2, <2>1 DEF HeatBoots
  <2>2. CASE booting[H] = t
    <3>1. Warms(t) /\ Len(todo[t]) >= 2 /\ HeatSleeps(todo[t][2])
      BY <1>1, <2>2, NoThreadAssumption DEF Heating, HeatInv, HeatBoots, HeatSleeps
    <3>2. todo'[t] # <<>>
      <4>1. Len(todo'[t]) = Len(todo[t]) - 1 /\ todo[t] \in Seq(Step)
        BY <1>3 DEF Heating, TypeOK
      <4>2. Len(todo'[t]) # 0
        BY <3>1, <4>1
      <4>3. QED  BY <4>2
    <3>3. todo'[t][1] = todo[t][2]
      BY <1>3, <3>2 DEF Heating
    <3>4. QED  BY <1>2, <2>2, <3>1, <3>2, <3>3 DEF HeatBoots, HeatSleeps
  <2>3. QED  BY <1>1, <2>1, <2>2, HeaterAlone
<1>7. HeatEnabled' /\ HeatSet'
  BY <1>1, <1>2, HeatEnabledKept, HeatSetKept DEF ToHeat, ToSet, HeatEnables, HeatPowers
<1>8. QED  BY <1>5, <1>6, <1>7 DEF HeatInv, Heating

\* The steps of setHeaterTemp, with or without what heaterOn reads for it.
LEMMA HeatTemp ==
  ASSUME Sole, NEW t \in Thread, NEW s, Heating(t, s),
         LoadTemp(t) \/ StoreTemp(t) \/ TestHeater(t)
  PROVE  HeatInv'
<1> DEFINE h == todo[t][1]
           H == HeaterNode
<1>1. h.do \in {"loadTemp", "storeTemp", "testHeater"} /\ h.do \in HeaterKinds
  BY DEF Heating, LoadTemp, StoreTemp, TestHeater, At, HeaterKinds
<1>2. UNCHANGED <<heaterStatus, power, booting, heaterRuns, heaterLevel>>
  BY DEF LoadTemp, StoreTemp, TestHeater, status, nodes
<1>3. booting[H] = NoThread /\ power[H] = heaterStatus
  BY <1>1, HeaterAlone
<1>4. HeatBoots' /\ HeatPower' /\ HeatEnabled'
  BY <1>1, <1>2, <1>3, HeatBootsKept, HeatPowerKept, HeatEnabledKept
  DEF ToHeat, HeatEnables, HeatPowers
<1>5. HeatSet'
  <2>1. CASE StoreTemp(t)
    <3>1. h.do = "storeTemp" /\ heaterSetTemp' = h.val
      BY <2>1 DEF Heating, StoreTemp, At
    <3>2. 1 < Len(todo[t]) /\ Tests(todo[t][2], h.val)
      <4>1. HeaterOrder(t) /\ 1 \in DOMAIN todo[t]
        BY DEF Heating, HeatInv
      <4>2. 1 < Len(todo[t]) /\ Tests(todo[t][1 + 1], h.val)
        BY <3>1, <4>1 DEF HeaterOrder
      <4>3. QED  BY <4>2
    <3>3. todo[t][2] \in Pending(t)
      <4>1. 2 \in DOMAIN todo[t]
        BY <3>2 DEF Heating, TypeOK
      <4>2. QED  BY <4>1 DEF Pending
    <3>4. todo[t][2] \in Pending(t)' /\ todo[t][2].do = "testHeater" /\ todo[t][2].val = heaterSetTemp'
      BY <3>1, <3>2, <3>3 DEF Heating, Tests
    <3>5. QED  BY <3>4 DEF HeatSet, ToSet
  <2>2. CASE LoadTemp(t)
    <3>1. h.do = "loadTemp" /\ heaterSetTemp' = heaterSetTemp
      BY <2>2 DEF Heating, LoadTemp, At, status
    <3>2. s = << [do |-> "storeTemp", val |-> heaterSetTemp], [do |-> "testHeater", val |-> heaterSetTemp] >>
      BY <3>1 DEF Heating, Expands
    <3>3. 1 \in 1..Len(s) /\ s[1].do = "storeTemp"
      BY <3>2
    <3>4. s[1] \in Pending(t)' /\ ToSet(s[1])
      BY <3>3 DEF Heating, ToSet
    <3>5. QED  BY <1>2, <3>1, <3>4, HeatSetKept
  <2>3. CASE TestHeater(t)
    <3>1. h.do = "testHeater" /\ heaterSetTemp' = heaterSetTemp
      BY <2>3 DEF Heating, TestHeater, At, status
    <3>2. CASE heaterStatus
      <4>1. s = << [do |-> "switchHeater", on |-> TRUE], [do |-> "sendTemp", val |-> h.val] >>
        BY <3>1, <3>2 DEF Heating, Expands
      <4>2. 2 \in 1..Len(s) /\ s[2].do = "sendTemp"
        BY <4>1
      <4>3. s[2] \in Pending(t)' /\ ToSet(s[2])
        BY <4>2 DEF Heating, ToSet
      <4>4. QED  BY <1>2, <3>1, <4>3, HeatSetKept
    <3>3. CASE ~heaterStatus
      BY <1>2, <1>3, <3>3 DEF HeatSet
    <3>4. QED  BY <3>2, <3>3
  <2>4. QED  BY <2>1, <2>2, <2>3
<1>6. QED  BY <1>4, <1>5 DEF HeatInv, Heating

\* The commands to the heater are heard while it is powered.
LEMMA HeatSend ==
  ASSUME Sole, ~Lossy, NEW t \in Thread, NEW s, Heating(t, s), SendHeater(t) \/ SendTemp(t)
  PROVE  HeatInv'
<1> DEFINE h == todo[t][1]
           H == HeaterNode
<1>1. h.do \in {"sendHeater", "sendTemp"} /\ h.do \in HeaterKinds
      /\ (h.do = "sendHeater" => h.on \in BOOLEAN)
  BY StepFields DEF Heating, SendHeater, SendTemp, At, HeaterKinds
<1>2. PICK heard \in Hears(H) :
        /\ Booted(H, heard)
        /\ heaterRuns' = IF heard /\ h.do = "sendHeater" THEN h.on ELSE heaterRuns
        /\ heaterLevel' = IF heard /\ h.do = "sendTemp" THEN h.val ELSE heaterLevel
  BY DEF Heating, SendHeater, SendTemp, At
<1>3. UNCHANGED <<heaterStatus, heaterSetTemp, power>>
  BY DEF SendHeater, SendTemp, status
<1>4. booting[H] = NoThread
  BY <1>1, HeaterAlone
<1>5. heard <=> power[H]
  <2>1. Hears(H) = {power[H]}
    <3>1. power[H] \in BOOLEAN
      BY HeaterNodeType DEF Heating, TypeOK
    <3>2. QED  BY <1>4, <3>1 DEF Hears
  <2>2. heard = power[H]
    BY <1>2, <2>1
  <2>3. QED  BY <2>2
<1>6. HeatBoots'
  <2>1. booting'[H] = NoThread
    BY <1>2, <1>4, HeaterNodeType DEF Heating, TypeOK, Booted
  <2>2. QED  BY <2>1 DEF HeatBoots
<1>7. HeatPower'
  <2>1. heaterRuns' => heaterRuns \/ power[H]
    BY <1>2, <1>5
  <2>2. QED  BY <1>1, <1>3, <2>1, HeatPowerKept
<1>8. HeatEnabled'
  <2>1. CASE h.do = "sendTemp"
    BY <1>2, <1>3, <2>1, HeatEnabledKept DEF ToHeat, HeatEnables, HeatPowers
  <2>2. CASE h.do = "sendHeater" /\ h.on
    BY <1>2, <1>3, <1>5, <2>2 DEF HeatEnabled
  <2>3. CASE h.do = "sendHeater" /\ ~h.on
    <3>1. HeatEnables(h, FALSE) /\ 1 \in DOMAIN todo[t]
      BY <1>1, <2>3 DEF HeatEnables, Heating
    <3>2. 1 < Len(todo[t]) /\ HeatPowers(todo[t][2], FALSE)
      <4>1. HeaterOrder(t)
        BY DEF Heating, HeatInv
      <4>2. 1 < Len(todo[t]) /\ HeatPowers(todo[t][1 + 1], FALSE)
        BY <3>1, <4>1 DEF HeaterOrder
      <4>3. QED  BY <4>2 DEF HeatPowers
    <3>3. todo[t][2] \in Pending(t)
      <4>1. 2 \in DOMAIN todo[t]
        BY <3>2 DEF Heating, TypeOK
      <4>2. QED  BY <4>1 DEF Pending
    <3>4. todo[t][2] \in Pending(t)' /\ ToHeat(todo[t][2])
      BY <2>3, <3>2, <3>3 DEF Heating, ToHeat, HeatPowers
    <3>5. QED  BY <3>4 DEF HeatEnabled
  <2>4. QED  BY <1>1, <2>1, <2>2, <2>3
<1>9. HeatSet'
  <2>1. CASE h.do = "sendHeater"
    BY <1>2, <1>3, <2>1, HeatSetKept DEF ToSet
  <2>2. CASE h.do = "sendTemp"
    <3>1. h.val = heaterSetTemp
      BY <2>2 DEF Heating, HeatInv, HeaterOrder
    <3>2. QED  BY <1>2, <1>3, <1>5, <2>2, <3>1 DEF HeatSet
  <2>3. QED  BY <1>1, <2>1, <2>2
<1>10. QED  BY <1>6, <1>7, <1>8, <1>9 DEF HeatInv, Heating

LEMMA HeatInit == Init => HeatInv
<1> SUFFICES ASSUME Init PROVE HeatInv
  OBVIOUS
<1>1. /\ \A t \in Thread : todo[t] = <<>> /\ DOMAIN todo[t] = {}
      /\ power[HeaterNode] = FALSE /\ booting[HeaterNode] = NoThread
      /\ heaterRuns = FALSE /\ heaterStatus = FALSE
  BY HeaterNodeType DEF Init
<1>2. \A t \in Thread : HeaterOrder(t)
  BY <1>1 DEF HeaterOrder
<1>3. HeatBoots /\ HeatPower /\ HeatEnabled /\ HeatSet
  BY <1>1 DEF HeatBoots, HeatPower, HeatEnabled, HeatSet, Stores
<1>4. QED  BY <1>2, <1>3 DEF HeatInv

LEMMA HeatIssue ==
  ASSUME TypeOK, HeatInv, NEW t \in Thread, NEW r \in Menu[t], Issue(t, r)
  PROVE  HeatInv'
<1>1. HeaterOrder(t)' /\ \A x \in Pending(t)' : x.do # "storeHeater" /\ x.do # "sleep"
  BY HeaterOrderIssue
<1>2. \A u \in Thread \ {t} : todo'[u] = todo[u] /\ Pending(u)' = Pending(u)
  BY DEF Issue, TypeOK, Pending
<1>3. /\ todo[t] = <<>> /\ Pending(t) = {}
      /\ UNCHANGED <<heaterStatus, heaterSetTemp, power, booting, heaterRuns, heaterLevel>>
  BY DEF Issue, status, nodes, Pending
<1>4. \A u \in Thread \ {t} : HeaterOrder(u)'
  BY <1>2, <1>3 DEF HeatInv, HeaterOrder, HeatSleeps, HeatPowers, HeatEnables, Sets, Tests
<1>5. ~Stores(t) /\ ~Stores(t)' /\ \A u \in Thread \ {t} : Stores(u)' = Stores(u)
  <2>1. todo'[t] # <<>> => 1 \in DOMAIN todo'[t]
    BY IssueType DEF TypeOK
  <2>2. ~Stores(t)'
    BY <1>1, <2>1 DEF Stores, Pending
  <2>3. QED  BY <1>2, <1>3, <2>2 DEF Stores
<1>6. HeatBoots'
  <2>1. booting[HeaterNode] \in Thread \cup {NoThread}
    BY HeaterNodeType DEF TypeOK
  <2>2. QED  BY <1>2, <1>3, <2>1 DEF HeatInv, HeatBoots, HeatSleeps
<1>7. HeatPower'
  BY <1>2, <1>3, <1>5 DEF HeatInv, HeatPower
<1>8. HeatEnabled'
  BY <1>2, <1>3 DEF HeatInv, HeatEnabled, ToHeat, HeatEnables, HeatPowers
<1>9. HeatSet'
  BY <1>2, <1>3 DEF HeatInv, HeatSet, ToSet
<1>10. QED  BY <1>1, <1>4, <1>6, <1>7, <1>8, <1>9 DEF HeatInv

LEMMA HeatStep == TypeOK /\ HeatInv /\ Sole /\ ~Lossy /\ [Next]_vars => HeatInv'
<1>1. ASSUME HeatInv, UNCHANGED vars
      PROVE  HeatInv'
  <2>1. UNCHANGED <<todo, heaterStatus, heaterSetTemp, power, booting, heaterRuns, heaterLevel>>
    BY <1>1 DEF vars, status, nodes
  <2>2. \A u \in Thread : Pending(u)' = Pending(u) /\ Stores(u)' = Stores(u)
    BY <2>1 DEF Pending, Stores
  <2>3. \A u \in Thread : HeaterOrder(u)'
    BY <1>1, <2>1, <2>2 DEF HeatInv, HeaterOrder, HeatSleeps, HeatPowers, HeatEnables, Sets, Tests
  <2>4. HeatBoots' /\ HeatPower'
    BY <1>1, <2>1, <2>2 DEF HeatInv, HeatBoots, HeatPower, HeatSleeps
  <2>5. HeatEnabled' /\ HeatSet'
    BY <1>1, <2>1, <2>2 DEF HeatInv, HeatEnabled, HeatSet, ToHeat, ToSet, HeatEnables, HeatPowers
  <2>6. QED  BY <2>3, <2>4, <2>5 DEF HeatInv
<1>2. ASSUME TypeOK, HeatInv, Sole, ~Lossy, NEW t \in Thread, Run(t)
      PROVE  HeatInv'
  <2>1. PICK s : Heating(t, s)
    BY <1>2, RunHeats
  <2>2. QED  BY <1>2, <2>1, HeatQuiet, HeatSwitch, HeatStore, HeatTemp, HeatSend DEF Run
<1>3. QED  BY <1>1, <1>2, HeatIssue DEF Next

\* Once every request about the heater is done, its node is powered and enabled exactly
\* if status.heaterStatus says so, at the temperature remembered: on a line that loses
\* no command, if one thread at most drives the heater, whatever the others do to the
\* pumps.  Although setHeaterTemp switches the heater on again without looking further
\* than its own test, and switchHeaterNode records the state after it has unlocked, no
\* step of the one thread comes in between.
THEOREM HeaterIsAgreed ==
  ASSUME ~Lossy, Sole
  PROVE  Spec => []HeaterAgrees
<1>1. ASSUME TypeOK, HeatInv
      PROVE  HeaterAgrees
  <2> SUFFICES ASSUME HeaterSettled
               PROVE  /\ power[HeaterNode] = heaterStatus
                      /\ heaterRuns = heaterStatus
                      /\ heaterStatus => heaterLevel = heaterSetTemp
    BY DEF HeaterAgrees
  <2>1. \A t \in Thread : \A j \in DOMAIN todo[t] : todo[t][j].do \notin HeaterKinds
    BY DEF HeaterSettled, HeaterStep, HeaterKinds
  <2>2. ASSUME NEW t \in Thread
        PROVE  ~Stores(t) /\ \A x \in Pending(t) : ~ToHeat(x) /\ ~ToSet(x)
    <3>1. todo[t] # <<>> => 1 \in DOMAIN todo[t]
      BY <1>1 DEF TypeOK
    <3>2. ~Stores(t)
      BY <2>1, <3>1 DEF Stores, HeaterKinds
    <3>3. QED
      BY <2>1, <3>2 DEF Pending, HeaterKinds, ToHeat, ToSet, HeatEnables, HeatPowers
  <2>3. /\ power[HeaterNode] = heaterStatus /\ (heaterRuns => heaterStatus)
        /\ heaterStatus => heaterRuns /\ heaterLevel = heaterSetTemp
    BY <1>1, <2>2 DEF HeatInv, HeatPower, HeatEnabled, HeatSet
  <2>4. heaterRuns \in BOOLEAN /\ heaterStatus \in BOOLEAN
    BY <1>1 DEF TypeOK
  <2>5. QED  BY <2>3, <2>4
<1>2. QED
  BY <1>1, Typing, HeatInit, HeatStep, PTL DEF Spec


=============================================================================
