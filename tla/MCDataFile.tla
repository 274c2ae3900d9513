------------------------------ MODULE MCDataFile ------------------------------
(* Instances of DataFile for TLC: what the threads do.                       *)
EXTENDS DataFile, TLC

CONSTANTS a, b

Plain(ops) == {[op |-> o] : o \in ops}
On(ops, s) == {[op |-> o, spec |-> s] : o \in ops}

\* A method on the first spectrometer.  Meanwhile another client changes the
\* configuration of the second, and ends a method of its own, which closes the file.
OneWriter ==
  a :> (Plain({"open", "close"}) \cup On({"configure", "conc", "pH", "spectrum"}, 1))
  @@ b :> (Plain({"close"}) \cup On({"configure", "tune"}, 2))

\* How often each may call.
ThreeTwo == a :> 3 @@ b :> 2

=============================================================================
