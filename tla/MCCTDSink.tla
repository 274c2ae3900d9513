------------------------------ MODULE MCCTDSink -------------------------------
(* An instance of CTDSink for TLC: the method's thread is the one that       *)
(* measures.                                                                 *)
EXTENDS CTDSink

CONSTANT method

OneReader == {method}

\* No dwell, one shorter and one longer than what a full sink holds.
Dwells == {0, 2, 5}

=============================================================================
