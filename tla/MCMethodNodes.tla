----------------------------- MODULE MCMethodNodes ----------------------------
(* Instances of MethodNodes for TLC: small method files.                     *)
EXTENDS MethodNodes

CONSTANTS a, b

cmd == [k |-> "cmd"]
end == [k |-> "end"]
loop(n) == [k |-> "loop", n |-> n]
delay(n) == [k |-> "delay", n |-> n]

\* No control statement at all.
Straight == {<<>>, <<cmd>>, <<cmd, cmd, cmd>>}

\* Nested, empty, adjacent and zero-count loops, delays in and after them.
Closed == {<<loop(2), cmd, loop(3), delay(2), end, end, cmd>>,
           <<loop(2), end, delay(1), cmd>>,
           <<cmd, loop(0), cmd, end, loop(1), cmd, end>>}

\* A loop that the text never closes, alone and around a closed one.
Unclosed == {<<cmd, loop(2), cmd>>, <<loop(3), loop(2), cmd, end, delay(2)>>}

Methods == Straight \cup Closed \cup Unclosed

\* Every end closes a loop, as the theorem GraphIsText supposes.
ASSUME MethodsEnd == \A m \in Methods : Walk!EndsMatch(m)

=============================================================================
