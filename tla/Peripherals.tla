----------------------------- MODULE Peripherals -----------------------------
(***************************************************************************)
(* The pumps, the heater and the lamp of the instrument, as the server     *)
(* drives them (SEASPeripheralCommands.c): the shared `status` record, the *)
(* GPIO lines that power the LON nodes, and the commands it sends to those *)
(* nodes.  Several threads call these functions at once: one per connected *)
(* client, and the one that executes a method file.                        *)
(*                                                                         *)
(* A request is expanded into the sequence of primitive steps that its C   *)
(* function and the functions it calls perform.  todo[t] holds the steps   *)
(* thread t has still to take; a value a step has read (a local variable   *)
(* of the C function) travels in the record of the steps that use it.      *)
(* One action is one step: a critical section or an access to shared state *)
(* outside one.  A command on the LON port is one step, because            *)
(* sendLONCommand holds the port's mutex from the write to the answer.     *)
(*                                                                         *)
(* The LON nodes are hardware.  They are modelled from what the code       *)
(* expects of them: a node without power forgets its settings and hears    *)
(* nothing, and one that was just powered may not hear a command until the *)
(* second that the code sleeps has passed.                                 *)
(***************************************************************************)
EXTENDS Integers, Sequences

CONSTANTS Thread,        \* threads that call the peripheral functions
          NoThread,      \* no thread
          NumPumps,      \* MAX_NUM_PUMPS
          PumpsPerNode,  \* NUM_PUMPS_PER_LON
          MaxPercent,    \* MAX_PUMP_PERCENT
          Temp,          \* heater set points
          BenchPercent,  \* pump percent of the bench configuration
          BenchTemp,     \* heater set point of the bench configuration
          Menu,          \* Menu[t]: the requests thread t may make
          Lossy          \* may a command to a running node be lost?

Pump == 1..NumPumps
Percent == 0..MaxPercent

\* pumpLONNode of a 1-based pump number; the heater has the node after them.
NodeOf(p) == (p - 1) \div PumpsPerNode
HeaterNode == NodeOf(NumPumps) + 1
Node == 0..HeaterNode

\* The setting of a node that was not told one since it was powered.
Unset == -1

\* What a client or a method may ask for.  An id above the last pump changes nothing:
\* switchPumpNode, pumpOn and setPumpPercent test it, and no node has the pump that
\* pumpOff disables.  Id 0 passes those tests, and reads and writes in front of
\* pumpPercents: that is left out.
Request == [op : {"pumpOn", "pumpOff"}, id : Pump]
      \cup [op : {"pumpPercent"}, id : Pump, raw : Nat]
      \cup [op : {"methodPumpOn"}, id : Pump, raw : Nat]
      \cup [op : {"heaterOn", "heaterOff", "lampOn", "lampOff"}]
      \cup [op : {"heaterTemp", "methodHeaterOn"}, temp : Temp]

ASSUME NoThreadAssumption == NoThread \notin Thread
ASSUME SizeAssumption ==
  /\ NumPumps \in Nat \ {0}
  /\ PumpsPerNode \in Nat \ {0}
  /\ MaxPercent \in Nat
ASSUME BenchAssumption == BenchPercent \in Percent /\ BenchTemp \in Temp
ASSUME MenuAssumption == Menu \in [Thread -> SUBSET Request]
ASSUME LossyAssumption == Lossy \in BOOLEAN

-----------------------------------------------------------------------------
VARIABLES
  pumpStatus,    \* status.pumpStatus: is the pump commanded on?
  pumpPercents,  \* status.pumpPercents
  heaterStatus,  \* status.heaterStatus
  heaterSetTemp, \* status.heaterSetTemp
  power,         \* the GPIO lines: power[n] says that node n is powered
  mutex,         \* holder of periphPMMutex
  todo,          \* todo[t]: the steps thread t has still to take
  booting,       \* booting[n]: the thread that powered n less than 1 s ago
  pumpRuns,      \* LON node: the pump is enabled
  pumpLevel,     \* LON node: the percent the pump was set to
  heaterRuns,    \* LON node: the heater is enabled
  heaterLevel,   \* LON node: the temperature the heater was set to
  lamp           \* LON node: the lamp is on

status == <<pumpStatus, pumpPercents, heaterStatus, heaterSetTemp>>
nodes == <<booting, pumpRuns, pumpLevel, heaterRuns, heaterLevel, lamp>>
vars == <<status, power, mutex, todo, nodes>>

\* The primitive steps, with the locals they carry.
Step == [do : {"switchPump"}, id : Pump, on : BOOLEAN]
   \cup [do : {"pumpGPIO"}, id : Pump, was : BOOLEAN]
   \cup [do : {"sleep"}, node : Node]
   \cup [do : {"loadPercent"}, id : Pump]
   \cup [do : {"testNode"}, id : Pump, val : Nat]
   \cup [do : {"storePercent"}, id : Pump, val : Nat, isOn : BOOLEAN]
   \cup [do : {"sendPercent"}, id : Pump, val : Percent]
   \cup [do : {"sendPump"}, id : Pump, on : BOOLEAN]
   \cup [do : {"switchHeater", "storeHeater", "sendHeater", "sendLamp"},
         on : BOOLEAN]
   \cup [do : {"loadTemp"}]
   \cup [do : {"storeTemp", "testHeater", "sendTemp"}, val : Temp]

TypeOK ==
  /\ pumpStatus \in [Pump -> BOOLEAN]
  /\ pumpPercents \in [Pump -> Percent]
  /\ heaterStatus \in BOOLEAN
  /\ heaterSetTemp \in Temp
  /\ power \in [Node -> BOOLEAN]
  /\ mutex \in Thread \cup {NoThread}
  /\ todo \in [Thread -> Seq(Step)]
  /\ booting \in [Node -> Thread \cup {NoThread}]
  /\ pumpRuns \in [Pump -> BOOLEAN]
  /\ pumpLevel \in [Pump -> Percent \cup {Unset}]
  /\ heaterRuns \in BOOLEAN
  /\ heaterLevel \in Temp \cup {Unset}
  /\ lamp \in BOOLEAN

\* The state initPeripherals leaves, before the first client is accepted.
Init ==
  /\ pumpStatus = [p \in Pump |-> FALSE]
  /\ pumpPercents = [p \in Pump |-> BenchPercent]
  /\ heaterStatus = FALSE
  /\ heaterSetTemp = BenchTemp
  /\ power = [n \in Node |-> FALSE]
  /\ mutex = NoThread
  /\ todo = [t \in Thread |-> <<>>]
  /\ booting = [n \in Node |-> NoThread]
  /\ pumpRuns = [p \in Pump |-> FALSE]
  /\ pumpLevel = [p \in Pump |-> Unset]
  /\ heaterRuns = FALSE
  /\ heaterLevel = Unset
  /\ lamp = FALSE

-----------------------------------------------------------------------------
(* The steps of each C function. *)

\* GUI clients and methods give tenths; the parameter is a uint16_t.
PercentArg(raw) == (raw * 10) % 65536

setPumpPercent(p, v) == << [do |-> "testNode", id |-> p, val |-> v] >>

\* Faulty: the node is powered and enabled without being told its percent.
pumpOn_NoPercent(p) == << [do |-> "switchPump", id |-> p, on |-> TRUE],
                          [do |-> "sendPump", id |-> p, on |-> TRUE] >>

pumpOn(p) == << [do |-> "switchPump", id |-> p, on |-> TRUE],
                [do |-> "loadPercent", id |-> p],
                [do |-> "sendPump", id |-> p, on |-> TRUE] >>

\* Faulty: power first, then the command.
pumpOff_PowerFirst(p) == << [do |-> "switchPump", id |-> p, on |-> FALSE],
                            [do |-> "sendPump", id |-> p, on |-> FALSE] >>

pumpOff(p) == << [do |-> "sendPump", id |-> p, on |-> FALSE],
                 [do |-> "switchPump", id |-> p, on |-> FALSE] >>

setHeaterTemp(v) == << [do |-> "storeTemp", val |-> v],
                       [do |-> "testHeater", val |-> v] >>

\* Faulty: the command first, then power.
heaterOn_EnableFirst == << [do |-> "sendHeater", on |-> TRUE],
                           [do |-> "switchHeater", on |-> TRUE],
                           [do |-> "loadTemp"] >>

heaterOn == << [do |-> "switchHeater", on |-> TRUE],
               [do |-> "loadTemp"],
               [do |-> "sendHeater", on |-> TRUE] >>

heaterOff == << [do |-> "sendHeater", on |-> FALSE],
                [do |-> "switchHeater", on |-> FALSE] >>

switchLamp(on) == << [do |-> "sendLamp", on |-> on] >>

Steps(r) ==
  CASE r.op = "pumpOn" -> pumpOn(r.id)
    [] r.op = "pumpOff" -> pumpOff(r.id)
    [] r.op = "pumpPercent" -> setPumpPercent(r.id, PercentArg(r.raw))
    [] r.op = "methodPumpOn" ->
         pumpOn(r.id) \o setPumpPercent(r.id, PercentArg(r.raw))
    [] r.op = "heaterOn" -> heaterOn
    [] r.op = "heaterOff" -> heaterOff
    [] r.op = "heaterTemp" -> setHeaterTemp(r.temp)
    [] r.op = "methodHeaterOn" -> heaterOn \o setHeaterTemp(r.temp)
    [] r.op = "lampOn" -> switchLamp(TRUE)
    [] r.op = "lampOff" -> switchLamp(FALSE)

-----------------------------------------------------------------------------
(* Taking a step.                                                          *)

\* Thread t is at a step of kind k.
At(t, k) == todo[t] # <<>> /\ Head(todo[t]).do = k

\* Thread t has taken its step, and continues with the steps s before the rest.
Continue(t, s) == todo' = [todo EXCEPT ![t] = s \o Tail(todo[t])]

Sleep(n) == << [do |-> "sleep", node |-> n] >>

\* Faulty: looks at the first pump of the node only.
getPumpLONState_First(st, n) == st[n * PumpsPerNode + 1]

\* getPumpLONState: is a pump of the node commanded on?
getPumpLONState(st, n) == \E p \in Pump : NodeOf(p) = n /\ st[p]

\* A handler or a method command starts.
Issue(t, r) ==
  /\ todo[t] = <<>>
  /\ todo' = [todo EXCEPT ![t] = Steps(r)]
  /\ UNCHANGED <<status, power, mutex, nodes>>

\* Faulty: does not wait for the mutex.
SwitchPump_NoLock(t) ==
  /\ At(t, "switchPump")
  /\ mutex' = t
  /\ LET p == Head(todo[t]).id
     IN /\ pumpStatus' = [pumpStatus EXCEPT ![p] = Head(todo[t]).on]
        /\ Continue(t, << [do |-> "pumpGPIO", id |-> p,
                           was |-> getPumpLONState(pumpStatus, NodeOf(p))] >>)
  /\ UNCHANGED <<pumpPercents, heaterStatus, heaterSetTemp, power, nodes>>

\* switchPumpNode, first half: lock, note the node's state, record the pump's.
SwitchPump(t) ==
  /\ At(t, "switchPump")
  /\ mutex = NoThread
  /\ mutex' = t
  /\ LET p == Head(todo[t]).id
     IN /\ pumpStatus' = [pumpStatus EXCEPT ![p] = Head(todo[t]).on]
        /\ Continue(t, << [do |-> "pumpGPIO", id |-> p,
                           was |-> getPumpLONState(pumpStatus, NodeOf(p))] >>)
  /\ UNCHANGED <<pumpPercents, heaterStatus, heaterSetTemp, power, nodes>>

\* The GPIO line of node n goes to `on`, and its LON node with it.
SwitchGPIO(t, n, on) ==
  /\ power' = [power EXCEPT ![n] = on]
  /\ booting' = [booting EXCEPT ![n] = IF on THEN t ELSE NoThread]
  /\ pumpRuns' = [p \in Pump |-> pumpRuns[p] /\ NodeOf(p) # n]
  /\ pumpLevel' = [p \in Pump |-> IF NodeOf(p) = n THEN Unset ELSE pumpLevel[p]]
  /\ heaterRuns' = (heaterRuns /\ n # HeaterNode)
  /\ heaterLevel' = IF n = HeaterNode THEN Unset ELSE heaterLevel
  /\ UNCHANGED lamp

\* What switchPumpNode does to the GPIO line, given the node's state before
\* and after: "on", "off" or "keep".
PumpGPIO(was, next) ==
  IF ~was /\ next THEN "on" ELSE IF was /\ ~next THEN "off" ELSE "keep"

\* Faulty: returns with the mutex if there is nothing to switch.
SwitchPumpGPIO_EarlyReturn(t) ==
  /\ At(t, "pumpGPIO")
  /\ LET n == NodeOf(Head(todo[t]).id)
         to == PumpGPIO(Head(todo[t]).was, getPumpLONState(pumpStatus, n))
     IN /\ IF to = "keep" THEN UNCHANGED <<mutex, power, nodes>>
                          ELSE SwitchGPIO(t, n, to = "on") /\ mutex' = NoThread
        /\ Continue(t, IF to = "on" THEN Sleep(n) ELSE <<>>)
  /\ UNCHANGED status

\* switchPumpNode, second half: switch the GPIO line if the node's state
\* changed, and unlock.  A thread that powered the node then sleeps.
SwitchPumpGPIO(t) ==
  /\ At(t, "pumpGPIO")
  /\ mutex' = NoThread
  /\ LET n == NodeOf(Head(todo[t]).id)
         to == PumpGPIO(Head(todo[t]).was, getPumpLONState(pumpStatus, n))
     IN /\ IF to = "keep" THEN UNCHANGED <<power, nodes>>
                          ELSE SwitchGPIO(t, n, to = "on")
        /\ Continue(t, IF to = "on" THEN Sleep(n) ELSE <<>>)
  /\ UNCHANGED status

\* The second is over.
Wake(t) ==
  /\ At(t, "sleep")
  /\ LET n == Head(todo[t]).node
     IN booting' = IF booting[n] = t THEN [booting EXCEPT ![n] = NoThread]
                                     ELSE booting
  /\ Continue(t, <<>>)
  /\ UNCHANGED <<status, power, mutex, pumpRuns, pumpLevel, heaterRuns,
                 heaterLevel, lamp>>

\* pumpOn evaluates status.pumpPercents as the argument of setPumpPercent.
LoadPercent(t) ==
  /\ At(t, "loadPercent")
  /\ LET p == Head(todo[t]).id
     IN Continue(t, setPumpPercent(p, pumpPercents[p]))
  /\ UNCHANGED <<status, power, mutex, nodes>>

\* setPumpPercent reads the node's state, without the mutex.
TestNode(t) ==
  /\ At(t, "testNode")
  /\ LET s == Head(todo[t])
     IN Continue(t, << [do |-> "storePercent", id |-> s.id, val |-> s.val,
                        isOn |-> getPumpLONState(pumpStatus, NodeOf(s.id))] >>)
  /\ UNCHANGED <<status, power, mutex, nodes>>

\* setPumpPercent stores a percent in range, and sends it if the node was on.
StorePercent(t) ==
  /\ At(t, "storePercent")
  /\ LET s == Head(todo[t])
     IN IF s.val <= MaxPercent
          THEN /\ pumpPercents' = [pumpPercents EXCEPT ![s.id] = s.val]
               /\ Continue(t, IF s.isOn
                                THEN << [do |-> "sendPercent", id |-> s.id,
                                         val |-> s.val] >>
                                ELSE <<>>)
          ELSE Continue(t, <<>>) /\ UNCHANGED pumpPercents
  /\ UNCHANGED <<pumpStatus, heaterStatus, heaterSetTemp, power, mutex, nodes>>

\* switchHeaterNode, the critical section: status.heaterStatus decides what
\* happens to the GPIO line.
SwitchHeater(t) ==
  /\ At(t, "switchHeater")
  /\ mutex = NoThread
  /\ LET on == Head(todo[t]).on
     IN /\ IF heaterStatus = on THEN UNCHANGED <<power, nodes>>
                                ELSE SwitchGPIO(t, HeaterNode, on)
        /\ Continue(t, << [do |-> "storeHeater", on |-> on] >>
                       \o IF on /\ ~heaterStatus THEN Sleep(HeaterNode) ELSE <<>>)
  /\ UNCHANGED <<status, mutex>>

\* switchHeaterNode, after the unlock: status.heaterStatus = powerOn.
StoreHeater(t) ==
  /\ At(t, "storeHeater")
  /\ heaterStatus' = Head(todo[t]).on
  /\ Continue(t, <<>>)
  /\ UNCHANGED <<pumpStatus, pumpPercents, heaterSetTemp, power, mutex, nodes>>

\* heaterOn evaluates status.heaterSetTemp as the argument of setHeaterTemp.
LoadTemp(t) ==
  /\ At(t, "loadTemp")
  /\ Continue(t, setHeaterTemp(heaterSetTemp))
  /\ UNCHANGED <<status, power, mutex, nodes>>

\* setHeaterTemp: the set point is stored whether or not the heater is on.
StoreTemp(t) ==
  /\ At(t, "storeTemp")
  /\ heaterSetTemp' = Head(todo[t]).val
  /\ Continue(t, <<>>)
  /\ UNCHANGED <<pumpStatus, pumpPercents, heaterStatus, power, mutex, nodes>>

\* setHeaterTemp tests status.heaterStatus, without the mutex; a heater that is
\* on is switched on again and told its temperature.
TestHeater(t) ==
  /\ At(t, "testHeater")
  /\ Continue(t, IF heaterStatus
                   THEN << [do |-> "switchHeater", on |-> TRUE],
                           [do |-> "sendTemp", val |-> Head(todo[t]).val] >>
                   ELSE <<>>)
  /\ UNCHANGED <<status, power, mutex, nodes>>

-----------------------------------------------------------------------------
(* Commands to the LON nodes: sendLONCommand, under the port's mutex.  The  *)
(* code only logs whether the answer was an ACK.                            *)

\* Whether a command to node n is heard.
Hears(n) ==
  IF ~power[n] THEN {FALSE}
  ELSE IF Lossy \/ booting[n] # NoThread THEN BOOLEAN
  ELSE {TRUE}

\* A node that has heard a command is no longer booting.
Booted(n, heard) ==
  booting' = IF heard THEN [booting EXCEPT ![n] = NoThread] ELSE booting

\* PMP PWR: enable or disable a pump.
SendPump(t) ==
  /\ At(t, "sendPump")
  /\ LET s == Head(todo[t])
     IN \E heard \in Hears(NodeOf(s.id)) :
          /\ Booted(NodeOf(s.id), heard)
          /\ pumpRuns' = IF heard THEN [pumpRuns EXCEPT ![s.id] = s.on]
                                  ELSE pumpRuns
  /\ Continue(t, <<>>)
  /\ UNCHANGED <<status, power, mutex, pumpLevel, heaterRuns, heaterLevel, lamp>>

\* PMP PWL: the percent of a pump.
SendPercent(t) ==
  /\ At(t, "sendPercent")
  /\ LET s == Head(todo[t])
     IN \E heard \in Hears(NodeOf(s.id)) :
          /\ Booted(NodeOf(s.id), heard)
          /\ pumpLevel' = IF heard THEN [pumpLevel EXCEPT ![s.id] = s.val]
                                   ELSE pumpLevel
  /\ Continue(t, <<>>)
  /\ UNCHANGED <<status, power, mutex, pumpRuns, heaterRuns, heaterLevel, lamp>>

\* HTR PWR: enable or disable the heater.
SendHeater(t) ==
  /\ At(t, "sendHeater")
  /\ \E heard \in Hears(HeaterNode) :
       /\ Booted(HeaterNode, heard)
       /\ heaterRuns' = IF heard THEN Head(todo[t]).on ELSE heaterRuns
  /\ Continue(t, <<>>)
  /\ UNCHANGED <<status, power, mutex, pumpRuns, pumpLevel, heaterLevel, lamp>>

\* HTR TMP: the heater's set point.
SendTemp(t) ==
  /\ At(t, "sendTemp")
  /\ \E heard \in Hears(HeaterNode) :
       /\ Booted(HeaterNode, heard)
       /\ heaterLevel' = IF heard THEN Head(todo[t]).val ELSE heaterLevel
  /\ Continue(t, <<>>)
  /\ UNCHANGED <<status, power, mutex, pumpRuns, pumpLevel, heaterRuns, lamp>>

\* LTE PWR: the lamp's node has no GPIO line; it is always powered.
SendLamp(t) ==
  /\ At(t, "sendLamp")
  /\ \E heard \in (IF Lossy THEN BOOLEAN ELSE {TRUE}) :
       lamp' = IF heard THEN Head(todo[t]).on ELSE lamp
  /\ Continue(t, <<>>)
  /\ UNCHANGED <<status, power, mutex, booting, pumpRuns, pumpLevel, heaterRuns,
                 heaterLevel>>

-----------------------------------------------------------------------------
\* Thread t takes its next step.
Run(t) ==
  \/ SwitchPump(t) \/ SwitchPumpGPIO(t) \/ Wake(t)
  \/ LoadPercent(t) \/ TestNode(t) \/ StorePercent(t)
  \/ SwitchHeater(t) \/ StoreHeater(t)
  \/ LoadTemp(t) \/ StoreTemp(t) \/ TestHeater(t)
  \/ SendPump(t) \/ SendPercent(t) \/ SendHeater(t) \/ SendTemp(t) \/ SendLamp(t)

Next == \E t \in Thread : Run(t) \/ \E r \in Menu[t] : Issue(t, r)

Spec == Init /\ [][Next]_vars

\* A thread that can take a step is scheduled.  Nothing makes a client ask.
FairSpec == Spec /\ \A t \in Thread : WF_vars(Run(t))

-----------------------------------------------------------------------------
(* Properties.                                                             *)

\* While nobody is inside switchPumpNode, a pump node is powered exactly if one
\* of its pumps is commanded on: neither pump of a node loses its power because
\* the other is switched off, and no node stays powered for nobody.
NodePowered ==
  mutex = NoThread =>
    \A p \in Pump : power[NodeOf(p)] = getPumpLONState(pumpStatus, NodeOf(p))

\* Two threads are never both inside switchPumpNode: one that has recorded its
\* pump's state and has yet to switch the GPIO line holds periphPMMutex.
OneSwitches == \A t \in Thread : At(t, "pumpGPIO") => mutex = t

\* A step of thread t that is still to come concerns pump p.
PumpStep(t, p) ==
  \E i \in DOMAIN todo[t] :
    /\ todo[t][i].do \in {"switchPump", "pumpGPIO", "loadPercent", "testNode",
                          "storePercent", "sendPercent", "sendPump"}
    /\ todo[t][i].id = p

\* A step of thread t that is still to come concerns the heater.
HeaterStep(t) ==
  \E i \in DOMAIN todo[t] :
    todo[t][i].do \in {"switchHeater", "storeHeater", "sendHeater", "loadTemp",
                       "storeTemp", "testHeater", "sendTemp"}

PumpSettled(p) == \A t \in Thread : ~PumpStep(t, p)
HeaterSettled == \A t \in Thread : ~HeaterStep(t)

\* The nodes with pumps that at most one thread drives.
Drives(t, n) == \E r \in Menu[t] : "id" \in DOMAIN r /\ NodeOf(r.id) = n
PrivateNodes == {n \in Node : \A t, u \in Thread : Drives(t, n) /\ Drives(u, n) => t = u}

\* Once every request about a pump is done, the pump runs exactly if it is
\* commanded on, and at the percent the server remembers: what pumpOn, pumpOff
\* and setPumpPercent sent has arrived and nothing a node was told is lost with
\* its power, nor by what others do to other nodes.  (A second client may find
\* the node booting, and what it sends lost: hence only for a private node.)
PumpAgrees ==
  \A p \in Pump : NodeOf(p) \in PrivateNodes /\ PumpSettled(p) =>
    /\ pumpRuns[p] = pumpStatus[p]
    /\ pumpStatus[p] => pumpLevel[p] = pumpPercents[p]

\* A pump never runs without being commanded on, so that getPumpLONState keeps
\* its node's power (and the server's idea of it) as long as it runs.
RunningIsCommanded == \A p \in Pump : pumpRuns[p] => pumpStatus[p]

\* No step cuts the power of a node while one of its pumps runs: pumpOff
\* disables the pump first, and the node of a running sibling stays powered.
NoPowerCut ==
  [][\A p \in Pump : pumpRuns[p] /\ power[NodeOf(p)] => power'[NodeOf(p)]]_vars

\* Once every request about the heater is done, its node is powered and enabled
\* exactly if status.heaterStatus says so, at the temperature remembered.
HeaterAgrees ==
  HeaterSettled =>
    /\ power[HeaterNode] = heaterStatus
    /\ heaterRuns = heaterStatus
    /\ heaterStatus => heaterLevel = heaterSetTemp

\* Once the clients stop asking, every request already made is completed: no
\* thread is left waiting for periphPMMutex.
RequestsComplete ==
  <>[][~\E t \in Thread : \E r \in Menu[t] : Issue(t, r)]_vars
    => <>[](\A t \in Thread : todo[t] = <<>>)

=============================================================================
