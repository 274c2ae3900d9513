--------------------------- MODULE MCSpectrometer ----------------------------
(* Spectrometer for TLC: two spectrometers, and on the bus also another      *)
(* device and a spectrometer that nobody asks for.                           *)
EXTENDS Spectrometer

CONSTANTS c1, c2, main, none

Clients == {c1, c2}
Serials == <<"A", "B">>
Devices == << [usb4000 |-> TRUE, serial |-> "C"], [usb4000 |-> TRUE, serial |-> "B"],
              [usb4000 |-> FALSE, serial |-> "A"], [usb4000 |-> TRUE, serial |-> "A"] >>

On(s, ops) == {[op |-> o, spec |-> s] : o \in ops}

\* Both clients use the first spectrometer; the second one has one client.
Menus ==
  (c1 :> On(1, {"read reference", "read sample", "pH", "write"})) @@
  (c2 :> On(1, {"RSS", "RRS", "RAD", "RAS", "RCD"}) \cup On(2, {"SSP", "RDS", "RFS", "no pH"})
           \cup {[op |-> "correction", spec |-> 1, other |-> 2]})

\* One client sets the integration time, or applies a configuration, while another
\* one records.
RaceMenus == (c1 :> On(1, {"RSS"})) @@ (c2 :> On(1, {"SSP", "SCP"}))

=============================================================================
