------------------------------ MODULE MCSettings -----------------------------
(* Settings for TLC: two clients and two spectrometers of seven pixels,      *)
(* about 50 nm apart.                                                        *)
EXTENDS Settings

CONSTANTS c1, c2, none, default, unset, saved1, saved2

Clients == {c1, c2}
ClientSymmetry == Permutations(Clients)
Lambdas == << ComputeSpectrometerLambdaValues(<<400, 48, 1, 0>>, 7),
              ComputeSpectrometerLambdaValues(<<420, 50, 0, 0>>, 7) >>
ASSUME LambdasIncrease == \A s \in {1, 2} : Increasing(Lambdas[s])

Waves2 == {500, 615}
Labels == {7, 8, 9}
BenchValues == {saved1, saved2}

\* A count of wavelengths in use that grows, shrinks and is overridden by the
\* pH indicator; both spectrometers; slopes before and after the count changes.
Requests ==
  { [op |-> "SSP", spec |-> 1, time |-> 9, scans |-> 4],
    [op |-> "SVC"],
    [op |-> "SCP", spec |-> 1,
     block |-> [analyte |-> 9, count |-> 1, measure |-> "MCP", waves |-> <<500, 0>>,
                nonAbs |-> 615, cal |-> <<8, 7>>]],
    [op |-> "SCP", spec |-> 2,
     block |-> [analyte |-> 9, count |-> 1, measure |-> "TB", waves |-> <<615, 500>>,
                nonAbs |-> 500, cal |-> <<7, 7>>]],
    [op |-> "LSD", cal |-> << <<7, 8>>, <<8, 7>> >>],
    [op |-> "SMM", mode |-> "PROGRAM"],
    [op |-> "specParams", spec |-> 2, time |-> 9, scans |-> 4],
    [op |-> "absWaves", spec |-> 2, waves |-> <<500, 615>>],
    [op |-> "nonAbsWave", spec |-> 1, wave |-> 615],
    [op |-> "dwell", spec |-> 1, dwell |-> 3] }

=============================================================================
