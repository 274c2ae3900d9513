------------------------------ MODULE MCServer -------------------------------
(* Server for TLC: two bins, and a connection more.                          *)
EXTENDS Server

CONSTANTS runner, mainThread, nobody

=============================================================================
