------------------------------- MODULE LONLink -------------------------------
(***************************************************************************)
(* The serial line to the LON (LONDispatch.c).  sendLONCommand writes a    *)
(* command and reads the answer, a byte at a time, under the mutex of the  *)
(* port; a thread of its own, the dispatcher, takes the mutex every two    *)
(* seconds to read whatever the LON sent unasked.                          *)
(*                                                                         *)
(* The line is slow and has no framing of its own: readLONResponse gives   *)
(* up when a byte does not come in time, and what comes later is found in  *)
(* the port by whoever reads next.  The bytes of an answer are abstracted  *)
(* to the command they answer and their place in the answer.  The LON      *)
(* answers with an acknowledgement of one byte, with one byte that is not  *)
(* an acknowledgement, or with a frame; an answer may be cut short, or     *)
(* not come at all, and it may be late.                                    *)
(***************************************************************************)
EXTENDS Integers, Sequences

CONSTANTS Thread,      \* the threads that send commands
          NoThread,
          FrameLen,    \* the length of a frame
          Garbage,     \* what bytes that are no length may read as
          MaxCommands  \* bound of the model: commands, and what comes unasked

ASSUME ThreadAssumption == NoThread \notin Thread
ASSUME SizeAssumption == /\ FrameLen \in Nat /\ FrameLen >= 5
                         /\ Garbage \subseteq Nat /\ Garbage # {}
                         /\ MaxCommands \in Nat

-----------------------------------------------------------------------------
VARIABLES
  wire,   \* the bytes that are still to come
  port,   \* the bytes that have come and were not read
  mutex,  \* holder of LONportMutex
  sent,   \* how many commands were written, or messages came unasked; each is its number
  pc,     \* pc[t]: where sendLONCommand is in thread t
  got,    \* got[t]: the bytes readLONResponse has read
  length, \* length[t]: responseLength, 0 while it is not known
  result, \* result[t]: "NAK", "ACK" or "frame"
  dirty   \* history: since the port was last clean, a read gave up, or something came
          \* unasked

line == <<wire, port, sent>>
locals == <<got, length, result>>
vars == <<line, mutex, pc, locals, dirty>>

\* A byte of an answer: of which command, of which kind of answer, at which place.
Kind == {"ACK", "other", "frame"}
Byte == [of : Nat, kind : Kind, at : 1..FrameLen]
Size(kind) == IF kind = "frame" THEN FrameLen ELSE 1

\* The first n bytes of the answer to command c.
Answer(c, kind, n) == [i \in 1..n |-> [of |-> c, kind |-> kind, at |-> i]]

TypeOK ==
  /\ wire \in Seq(Byte) /\ port \in Seq(Byte)
  /\ mutex \in Thread \cup {NoThread}
  /\ sent \in 0..MaxCommands
  /\ pc \in [Thread -> {"idle", "lock", "read", "overrun"}]
  /\ got \in [Thread -> Seq(Byte)]
  /\ length \in [Thread -> Nat]
  /\ result \in [Thread -> {"none", "NAK", "ACK", "frame"}]
  /\ dirty \in BOOLEAN

Init ==
  /\ wire = <<>> /\ port = <<>>
  /\ mutex = NoThread
  /\ sent = 0
  /\ pc = [t \in Thread |-> "idle"]
  /\ got = [t \in Thread |-> <<>>]
  /\ length = [t \in Thread |-> 0]
  /\ result = [t \in Thread |-> "none"]
  /\ dirty = FALSE

-----------------------------------------------------------------------------
\* sendLONCommand, up to the lock.
Call(t) ==
  /\ pc[t] = "idle"
  /\ pc' = [pc EXCEPT ![t] = "lock"]
  /\ result' = [result EXCEPT ![t] = "none"]
  /\ UNCHANGED <<line, mutex, got, length, dirty>>

\* The command is written; the LON decides what it will answer.
Write(t) ==
  /\ pc[t] = "lock"
  /\ mutex = NoThread
  /\ sent < MaxCommands
  /\ mutex' = t
  /\ sent' = sent + 1
  /\ \E kind \in Kind : \E n \in 0..Size(kind) : wire' = wire \o Answer(sent', kind, n)
  /\ pc' = [pc EXCEPT ![t] = "read"]
  /\ UNCHANGED <<port, got, length, result, dirty>>

\* The LON sends something unasked.
Unasked ==
  /\ sent < MaxCommands
  /\ sent' = sent + 1
  /\ \E kind \in Kind : wire' = wire \o Answer(sent', kind, Size(kind))
  /\ dirty' = TRUE
  /\ UNCHANGED <<port, mutex, pc, locals>>

\* The line delivers a byte.
Arrive ==
  /\ wire # <<>>
  /\ port' = Append(port, Head(wire))
  /\ wire' = Tail(wire)
  /\ UNCHANGED <<sent, mutex, pc, locals, dirty>>

\* readLONResponse returns r; the mutex is released.
Return(t, r) ==
  /\ result' = [result EXCEPT ![t] = r]
  /\ got' = [got EXCEPT ![t] = <<>>]
  /\ length' = [length EXCEPT ![t] = 0]
  /\ pc' = [pc EXCEPT ![t] = "idle"]
  /\ mutex' = NoThread

\* What the second and third byte read as.
LengthsOf(header) ==
  IF \A i \in 1..3 : header[i].kind = "frame" /\ header[i].at = i
    THEN {FrameLen} ELSE Garbage

\* The bytes read so far, with the one that readByte finds in the port.
Bytes(t) == Append(got[t], Head(port))
Keep(t) == got' = [got EXCEPT ![t] = Bytes(t)]

\* The first byte is an acknowledgement; a byte from within a frame may read as one.
Acknowledged(t) ==
  /\ got[t] = <<>>
  /\ \/ Head(port).kind = "ACK"
     \/ Head(port).kind = "frame" /\ Head(port).at > 1

\* readByte finds a byte, and readLONResponse puts it where it belongs: at first
\* in the header, whose last byte completes the length, ...
ReadHeader(t) ==
  /\ Len(got[t]) < 3
  /\ got[t] # <<>> \/ Head(port).kind # "ACK"
  /\ Keep(t)
  /\ IF Len(got[t]) < 2
       THEN UNCHANGED <<length, pc>>
       ELSE \E n \in LengthsOf(Bytes(t)) :
              /\ length' = [length EXCEPT ![t] = n]
              \* A buffer too short for a frame is overrun, here or by createLONResponse.
              /\ pc' = [pc EXCEPT ![t] = IF n < 5 THEN "overrun" ELSE "read"]
  /\ UNCHANGED <<result, mutex>>

\* ... then in the buffer.
ReadData(t) ==
  /\ Len(got[t]) >= 3 /\ Len(got[t]) + 1 < length[t]
  /\ Keep(t)
  /\ UNCHANGED <<length, pc, result, mutex>>

\* Faulty: the checksum is not read.
ReadLast_NoChecksum(t) ==
  \/ Acknowledged(t) /\ Return(t, "ACK")
  \/ Len(got[t]) >= 3 /\ Len(got[t]) + 2 = length[t] /\ Return(t, "frame")

\* An acknowledgement is one byte; a frame ends with its checksum.
ReadLast(t) ==
  \/ Acknowledged(t) /\ Return(t, "ACK")
  \/ Len(got[t]) >= 3 /\ Len(got[t]) + 1 = length[t] /\ Return(t, "frame")

ReadByte(t) ==
  /\ pc[t] = "read"
  /\ port # <<>>
  /\ port' = Tail(port)
  /\ ReadHeader(t) \/ ReadData(t) \/ ReadLast(t)
  /\ UNCHANGED <<wire, sent, dirty>>

\* Faulty: returns without unlocking.
GiveUp_KeepMutex(t) ==
  /\ pc[t] = "read"
  /\ port = <<>>
  /\ pc' = [pc EXCEPT ![t] = "idle"]
  /\ dirty' = TRUE
  /\ UNCHANGED <<line, mutex, locals>>

\* readByte finds nothing in four tries.  readLONResponse returns a NAK, but after
\* all bytes but the checksum it returns the frame: the -1 of readByte is true.
GiveUp(t) ==
  /\ pc[t] = "read"
  /\ port = <<>>
  /\ Return(t, IF Len(got[t]) >= 4 /\ Len(got[t]) + 1 = length[t] THEN "frame" ELSE "NAK")
  /\ dirty' = TRUE
  /\ UNCHANGED line

\* Faulty: reads between a command and its answer.
Drain_NoLock ==
  /\ port' = <<>>
  /\ dirty' = (dirty /\ wire # <<>>)
  /\ UNCHANGED <<wire, sent, mutex, pc, locals>>

\* The dispatcher reads what is in the port, up to 512 bytes, and drops it.
Drain ==
  /\ mutex = NoThread
  /\ port' = <<>>
  /\ dirty' = (dirty /\ wire # <<>>)
  /\ UNCHANGED <<wire, sent, mutex, pc, locals>>

Run(t) == Write(t) \/ ReadByte(t) \/ GiveUp(t)

Next == Arrive \/ Unasked \/ Drain \/ \E t \in Thread : Call(t) \/ Run(t)

Spec == Init /\ [][Next]_vars

\* The line delivers, and a thread that waits gets the mutex in the end.
FairSpec == Spec /\ WF_vars(Arrive) /\ \A t \in Thread : SF_vars(Run(t))

-----------------------------------------------------------------------------
(* Properties.                                                              *)

\* A command (the one written last: its thread holds the mutex) reads the answer
\* that was sent to it, from its first byte and in order, however the threads and
\* the dispatcher interleave, unless a read has given up, or the LON has sent something
\* unasked, since the port was last clean: only then other bytes may come, or be
\* mistaken for a length.  (What the commands read then is not restricted at all.)
OwnAnswer ==
  [][\A t \in Thread : ReadByte(t) /\ ~dirty =>
       /\ pc'[t] # "overrun"
       /\ \A i \in DOMAIN Bytes(t) : Bytes(t)[i].of = sent /\ Bytes(t)[i].at = i]_vars

\* Between two commands the port is clean, unless a read has given up, or something came
\* unasked.
CleanBetween == mutex = NoThread /\ ~dirty => port = <<>> /\ wire = <<>>

\* sendLONCommand returns, whatever the LON answers or does not, and whoever else
\* uses the port (but for what an overrun may do, and beyond the model's bound).
CommandReturns ==
  \A t \in Thread :
    pc[t] # "idle" ~> \/ pc[t] = "idle"
                      \/ \E u \in Thread : pc[u] = "overrun"
                      \/ pc[t] = "lock" /\ sent = MaxCommands

=============================================================================
