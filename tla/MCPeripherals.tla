---------------------------- MODULE MCPeripherals ----------------------------
(* Instances of Peripherals for TLC: two pumps on a node, and two threads    *)
(* with the requests each may make.                                          *)
EXTENDS Peripherals, TLC

CONSTANTS a, b

Requests(p) == [op : {"pumpOn", "pumpOff"}, id : {p}]
Percents(p, raws) == [op : {"pumpPercent", "methodPumpOn"}, id : {p}, raw : raws]
Heater == [op : {"heaterOn", "heaterOff"}]
     \cup [op : {"heaterTemp", "methodHeaterOn"}, temp : Temp]
Lamp == [op : {"lampOn", "lampOff"}]

\* The clients share the node of pumps 1 and 2; a drives pump 1, and b pump 2, the
\* node of pump 3, the heater and the lamp.
TwoClients ==
  (a :> Requests(1))
  @@ (b :> Requests(2) \cup Percents(2, {1, 2})
           \cup Requests(3) \cup Percents(3, {1}) \cup Heater \cup Lamp)

=============================================================================
