------------------------------ MODULE MCLONLink ------------------------------
(* An instance of LONLink for TLC: a client and the query thread of the CTD  *)
(* sink.                                                                     *)
EXTENDS LONLink

CONSTANTS client, queryCTD

Threads == {client, queryCTD}

\* Data that is taken for a length: too short for any frame, and longer than the
\* frame that comes.
Misread == {3, 7}

=============================================================================
