----------------------------- MODULE MethodText ------------------------------
(***************************************************************************)
(* What executing a method file means, read off its text: an interpreter   *)
(* of the statements that the grammar of MethodParser.y accepts.  A loop   *)
(* and a delay count down on every visit, as decCounterToZero and          *)
(* methodDelay do: a loop of n runs its body n-1 times, a delay of n takes *)
(* n visits.  The counters are unsigned: below zero they wrap around.      *)
(*                                                                         *)
(* MethodNodes builds a graph of nodes from the text and walks it.  It     *)
(* implements this specification.                                          *)
(***************************************************************************)
EXTENDS Integers, Sequences, FiniteSetsExt

CONSTANTS Method,  \* the method files: sequences of statements [k |-> "cmd"],
                   \* [k |-> "end"], [k |-> "loop", n |-> 2], [k |-> "delay", n |-> 2]
          Wrap     \* ULONG_MAX + 1

\* The nesting depth of m before its i-th statement, counting from statement j.
Depth(m, j, i) == Cardinality({l \in j..(i - 1) : m[l].k = "loop"})
                  - Cardinality({l \in j..(i - 1) : m[l].k = "end"})

\* The statement after the end of the loop that starts at i, and the loop that
\* the end at i closes.  A loop that is never closed extends to the end of the
\* text; an end with no open loop closes none.
Ends(m, i) == {e \in (i + 1)..Len(m) : m[e].k = "end" /\ Depth(m, i, e) = 1}
AfterLoop(m, i) == IF Ends(m, i) = {} THEN Len(m) + 1 ELSE Min(Ends(m, i)) + 1
LoopOf(m, i) == Max({b \in 1..(i - 1) : m[b].k = "loop"
                                        /\ Ends(m, b) # {} /\ Min(Ends(m, b)) = i})

\* Every end of the text closes a loop.
EndsMatch(m) == \A i \in DOMAIN m : Depth(m, 1, i + 1) >= 0

\* Where control is when it reaches statement i: an end leads to its loop.
Land(m, i) == IF i \in DOMAIN m /\ m[i].k = "end" THEN LoopOf(m, i) ELSE i

\* Where a loop or a delay that is done counting leads.
After(m, i) == Land(m, IF m[i].k = "loop" THEN AfterLoop(m, i) ELSE i + 1)

InitialCount(m) ==
  [i \in DOMAIN m |-> IF m[i].k \in {"loop", "delay"} THEN m[i].n ELSE 0]

-----------------------------------------------------------------------------
VARIABLES text,   \* the method being executed
          pos,    \* the statement executed next; 0 when no method is executed
          count   \* the counters of the loops and delays

tvars == <<text, pos, count>>

TInit == text = <<>> /\ pos = 0 /\ count = <<>>

Start == /\ pos = 0
         /\ text' \in Method
         /\ pos' = Land(text', 1)
         /\ count' = InitialCount(text')

Command == /\ pos \in DOMAIN text
           /\ text[pos].k = "cmd"
           /\ pos' = Land(text, pos + 1)
           /\ UNCHANGED <<text, count>>

\* Counting down to zero resets the counter, so that an enclosing loop finds it
\* as it was at first.
Visit == /\ pos \in DOMAIN text
         /\ text[pos].k \in {"loop", "delay"}
         /\ LET c == (count[pos] - 1) % Wrap
            IN IF c # 0
                 THEN /\ count' = [count EXCEPT ![pos] = c]
                      /\ pos' = IF text[pos].k = "delay" THEN pos
                                ELSE Land(text, pos + 1)
                 ELSE /\ count' = [count EXCEPT ![pos] = text[pos].n]
                      /\ pos' = After(text, pos)
         /\ UNCHANGED text

\* At its end, or where the client terminates it.
Stop == /\ pos # 0
        /\ pos' = 0 /\ text' = <<>> /\ count' = <<>>

TNext == Start \/ Command \/ Visit \/ Stop

TSpec == TInit /\ [][TNext]_tvars

=============================================================================
