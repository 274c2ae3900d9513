---------------------------- MODULE LONLinkProofs ----------------------------
(* Theorems about LONLink, for any number of threads and commands, any frame *)
(* length, and whatever the LON answers, loses or delays.                     *)
EXTENDS LONLink, SequenceTheorems, TLAPS

-----------------------------------------------------------------------------
(* Bytes and sequences of bytes.                                             *)

LEMMA SizeType == ASSUME NEW kind \in Kind
                  PROVE  Size(kind) \in Nat /\ Size(kind) <= FrameLen
BY SizeAssumption DEF Size

\* The start of an answer is a sequence of bytes.
LEMMA AnswerType ==
  ASSUME NEW c \in Nat, NEW kind \in Kind, NEW n \in 0..Size(kind)
  PROVE  /\ Answer(c, kind, n) \in Seq(Byte)
         /\ Len(Answer(c, kind, n)) = n
         /\ \A i \in 1..n : Answer(c, kind, n)[i] = [of |-> c, kind |-> kind, at |-> i]
<1>1. n \in Nat /\ \A i \in 1..n : i \in 1..FrameLen
  BY SizeType, SizeAssumption
<1>2. \A i \in 1..n : [of |-> c, kind |-> kind, at |-> i] \in Byte
  BY <1>1 DEF Byte
<1>3. Answer(c, kind, n) \in [1..n -> Byte]
  BY <1>2 DEF Answer
<1>4. Answer(c, kind, n) \in Seq(Byte)
  BY <1>1, <1>3, SeqDef
<1>5. Len(Answer(c, kind, n)) = n
  BY <1>1, <1>3, <1>4, LenProperties
<1>6. QED  BY <1>4, <1>5 DEF Answer

\* A byte that moves from the head of a sequence to the end of the one before it
\* leaves their concatenation as it was.
LEMMA MoveByte ==
  ASSUME NEW S, NEW a \in Seq(S), NEW b \in Seq(S), b # <<>>
  PROVE  /\ Head(b) \in S
         /\ Tail(b) \in Seq(S)
         /\ Append(a, Head(b)) \in Seq(S)
         /\ Len(Append(a, Head(b))) = Len(a) + 1
         /\ Append(a, Head(b)) \o Tail(b) = a \o b
<1>1. Head(b) \in S /\ Tail(b) \in Seq(S)
  BY HeadTailProperties
<1>2. <<Head(b)>> \in Seq(S)
  BY <1>1
<1>3. Append(a, Head(b)) = a \o <<Head(b)>>
  BY <1>1, AppendIsConcat
<1>4. <<Head(b)>> \o Tail(b) = b
  OBVIOUS
<1>5. (a \o <<Head(b)>>) \o Tail(b) = a \o (<<Head(b)>> \o Tail(b))
  BY <1>1, <1>2, ConcatAssociative
<1>6. QED  BY <1>1, <1>3, <1>4, <1>5, AppendProperties

\* ConcatAssociative, in the form that is used for flows.
LEMMA Associative ==
  \A a, b, c \in Seq(Byte) : (a \o b) \o c = a \o (b \o c)
BY ConcatAssociative

-----------------------------------------------------------------------------
(* Type correctness.                                                         *)

LEMMA ReadByteType ==
  ASSUME TypeOK, NEW t \in Thread, ReadByte(t)
  PROVE  TypeOK'
<1>1. port \in Seq(Byte) /\ got[t] \in Seq(Byte) /\ port # <<>>
  BY DEF TypeOK, ReadByte
<1>2. Tail(port) \in Seq(Byte) /\ Bytes(t) \in Seq(Byte)
  BY <1>1, MoveByte DEF Bytes
<1>3. /\ wire' \in Seq(Byte) /\ port' \in Seq(Byte) /\ sent' \in 0..MaxCommands
      /\ dirty' \in BOOLEAN
  BY <1>2 DEF ReadByte, TypeOK
<1>4. CASE ReadHeader(t)
  <2>1. \A n \in LengthsOf(Bytes(t)) : n \in Nat
    BY SizeAssumption DEF LengthsOf
  <2>2. length' \in [Thread -> Nat]
        /\ pc' \in [Thread -> {"idle", "lock", "read", "overrun"}]
    BY <1>4, <2>1 DEF ReadHeader, TypeOK
  <2>3. QED  BY <1>2, <1>3, <1>4, <2>2 DEF ReadHeader, Keep, TypeOK
<1>5. CASE ReadData(t)
  BY <1>2, <1>3, <1>5 DEF ReadData, Keep, TypeOK
<1>6. CASE ReadLast(t)
  <2>1. <<>> \in Seq(Byte)
    OBVIOUS
  <2>2. PICK r \in {"ACK", "frame"} : Return(t, r)
    BY <1>6 DEF ReadLast
  <2>3. got' \in [Thread -> Seq(Byte)]
    BY <2>1, <2>2 DEF Return, TypeOK
  <2>4. /\ pc' \in [Thread -> {"idle", "lock", "read", "overrun"}]
        /\ length' \in [Thread -> Nat] /\ mutex' \in Thread \cup {NoThread}
        /\ result' \in [Thread -> {"none", "NAK", "ACK", "frame"}]
    BY <2>2 DEF Return, TypeOK
  <2>5. QED  BY <1>3, <2>3, <2>4 DEF TypeOK
<1>7. QED  BY <1>4, <1>5, <1>6 DEF ReadByte

LEMMA WriteType ==
  ASSUME TypeOK, NEW t \in Thread, Write(t)
  PROVE  TypeOK'
<1>1. sent' \in 0..MaxCommands /\ sent' \in Nat
  BY SizeAssumption DEF Write, TypeOK
<1>2. PICK kind \in Kind :
        \E n \in 0..Size(kind) : wire' = wire \o Answer(sent', kind, n)
  BY DEF Write
<1>3. PICK n \in 0..Size(kind) : wire' = wire \o Answer(sent', kind, n)
  BY <1>2
<1>4. wire' \in Seq(Byte)
  BY <1>1, <1>3, AnswerType, ConcatProperties DEF TypeOK
<1>5. QED  BY <1>1, <1>4 DEF Write, TypeOK

LEMMA UnaskedType == TypeOK /\ Unasked => TypeOK'
<1> SUFFICES ASSUME TypeOK, Unasked PROVE TypeOK'
  OBVIOUS
<1>1. sent' \in 0..MaxCommands /\ sent' \in Nat
  BY SizeAssumption DEF Unasked, TypeOK
<1>2. PICK kind \in Kind : wire' = wire \o Answer(sent', kind, Size(kind))
  BY DEF Unasked
<1>3. Size(kind) \in 0..Size(kind)
  BY SizeType
<1>4. wire' \in Seq(Byte)
  BY <1>1, <1>2, <1>3, AnswerType, ConcatProperties DEF TypeOK
<1>5. dirty' \in BOOLEAN /\ UNCHANGED <<port, mutex, pc, got, length, result>>
  BY DEF Unasked, locals
<1>6. QED  BY <1>1, <1>4, <1>5 DEF TypeOK

LEMMA InitTypes == Init => TypeOK
<1>1. <<>> \in Seq(Byte)
  OBVIOUS
<1>2. [t \in Thread |-> <<>>] \in [Thread -> Seq(Byte)]
  BY <1>1
<1>3. /\ 0 \in 0..MaxCommands /\ 0 \in Nat
      /\ [t \in Thread |-> 0] \in [Thread -> Nat]
  BY SizeAssumption
<1>4. /\ [t \in Thread |-> "idle"] \in [Thread -> {"idle", "lock", "read", "overrun"}]
      /\ [t \in Thread |-> "none"] \in [Thread -> {"none", "NAK", "ACK", "frame"}]
  OBVIOUS
<1>5. QED  BY <1>1, <1>2, <1>3, <1>4, Zenon DEF Init, TypeOK

\* The type invariant holds, for any number of threads and commands.
THEOREM Typing == Spec => []TypeOK
<1>1. Init => TypeOK
  BY InitTypes
<1>2. TypeOK /\ [Next]_vars => TypeOK'
  <2> SUFFICES ASSUME TypeOK, [Next]_vars PROVE TypeOK'
    OBVIOUS
  <2> <<>> \in Seq(Byte)
    OBVIOUS
  <2>1. CASE Arrive
    BY <2>1, MoveByte DEF Arrive, TypeOK, locals
  <2>2. CASE Drain
    BY <2>2 DEF Drain, TypeOK, locals
  <2>a. CASE Unasked
    BY <2>a, UnaskedType
  <2>3. ASSUME NEW t \in Thread, Call(t) PROVE TypeOK'
    BY <2>3 DEF Call, TypeOK, line
  <2>4. ASSUME NEW t \in Thread, GiveUp(t) PROVE TypeOK'
    BY <2>4 DEF GiveUp, Return, TypeOK, line
  <2>5. CASE UNCHANGED vars
    BY <2>5 DEF TypeOK, vars, line, locals
  <2>6. QED  BY <2>1, <2>2, <2>3, <2>4, <2>5, <2>a, ReadByteType, WriteType DEF Next, Run
<1>3. QED  BY <1>1, <1>2, PTL DEF Spec

-----------------------------------------------------------------------------
(* Own answers.  The port alone does not tell whose bytes it holds: what is  *)
(* invariant is the flow of a command, the bytes it has read followed by     *)
(* those in the port and those on the wire.  Until a read gives up, the flow *)
(* of the command that holds the mutex is the start of its own answer.       *)

Flow(t) == (got[t] \o port) \o wire

\* f is the start of an answer of this kind to the command written last.
OwnStart(f, kind) ==
  /\ Len(f) <= Size(kind)
  /\ \A i \in 1..Len(f) : f[i] = [of |-> sent, kind |-> kind, at |-> i]

\* The threads and the mutex.
Locks ==
  \A t \in Thread : /\ pc[t] \in {"read", "overrun"} <=> mutex = t
                    /\ mutex # t => got[t] = <<>>

\* A command that reads its own answer, and what it knows of it.
Reading(t) ==
  /\ pc[t] = "read"
  /\ Len(got[t]) < FrameLen
  /\ Len(got[t]) >= 3 => length[t] = FrameLen
  /\ \E kind \in Kind : OwnStart(Flow(t), kind) /\ (got[t] # <<>> => kind # "ACK")

Clean == /\ mutex = NoThread => port = <<>> /\ wire = <<>>
         /\ \A t \in Thread : mutex = t => Reading(t)

LineInv == TypeOK /\ Locks /\ (~dirty => Clean)

\* What a thread finds when it reads a byte before anything went wrong: its flow
\* starts an answer of its own, and the bytes it has, with the new one, start it.
LEMMA ReadsOwn ==
  ASSUME LineInv, NEW t \in Thread, ReadByte(t), ~dirty
  PROVE  /\ mutex = t
         /\ Len(got[t]) \in Nat /\ Len(got[t]) < FrameLen
         /\ Len(got[t]) >= 3 => length[t] = FrameLen
         /\ Len(Bytes(t)) = Len(got[t]) + 1
         /\ (Bytes(t) \o Tail(port)) \o wire = Flow(t)
         /\ Len(Flow(t)) = Len(got[t]) + 1 + Len(Tail(port)) + Len(wire)
         /\ \E kind \in Kind :
              /\ OwnStart(Flow(t), kind)
              /\ got[t] # <<>> => kind # "ACK"
              /\ Head(port) = [of |-> sent, kind |-> kind, at |-> Len(got[t]) + 1]
              /\ \A i \in 1..Len(Bytes(t)) :
                   Bytes(t)[i] = [of |-> sent, kind |-> kind, at |-> i]
<1>1. /\ port \in Seq(Byte) /\ wire \in Seq(Byte) /\ got[t] \in Seq(Byte)
      /\ port # <<>> /\ pc[t] = "read"
  BY DEF LineInv, TypeOK, ReadByte
<1>2. mutex = t /\ Reading(t)
  BY <1>1 DEF LineInv, Locks, Clean
<1>3. PICK kind \in Kind : OwnStart(Flow(t), kind) /\ (got[t] # <<>> => kind # "ACK")
  BY <1>2 DEF Reading
<1>4. /\ Bytes(t) \in Seq(Byte) /\ Tail(port) \in Seq(Byte)
      /\ Len(Bytes(t)) = Len(got[t]) + 1
      /\ Bytes(t) \o Tail(port) = got[t] \o port
  BY <1>1, MoveByte DEF Bytes
<1>5. (Bytes(t) \o Tail(port)) \o wire = Flow(t)
  BY <1>4 DEF Flow
<1>6. /\ Len(got[t]) \in Nat /\ Len(Tail(port)) \in Nat /\ Len(wire) \in Nat
      /\ Len(Flow(t)) = Len(got[t]) + 1 + Len(Tail(port)) + Len(wire)
  <2>1. Bytes(t) \o Tail(port) \in Seq(Byte)
        /\ Len(Bytes(t) \o Tail(port)) = Len(Bytes(t)) + Len(Tail(port))
    BY <1>4, ConcatProperties
  <2>2. Len((Bytes(t) \o Tail(port)) \o wire) = Len(Bytes(t)) + Len(Tail(port)) + Len(wire)
    BY <1>1, <2>1, ConcatProperties
  <2>3. Len(got[t]) \in Nat /\ Len(Tail(port)) \in Nat /\ Len(wire) \in Nat
    BY <1>1, <1>4, LenProperties
  <2>4. QED  BY <1>4, <1>5, <2>2, <2>3
<1>7. \A i \in 1..Len(Bytes(t)) : Bytes(t)[i] = Flow(t)[i] /\ i \in 1..Len(Flow(t))
  <2> SUFFICES ASSUME NEW i \in 1..Len(Bytes(t))
               PROVE  Bytes(t)[i] = Flow(t)[i] /\ i \in 1..Len(Flow(t))
    OBVIOUS
  <2>1. i \in 1..Len(Flow(t))
    BY <1>4, <1>6
  <2>2. Bytes(t) \o Tail(port) \in Seq(Byte)
        /\ i \in 1..Len(Bytes(t) \o Tail(port))
        /\ (Bytes(t) \o Tail(port))[i] = Bytes(t)[i]
    BY <1>4, <1>6, ConcatProperties
  <2>3. ((Bytes(t) \o Tail(port)) \o wire)[i] = (Bytes(t) \o Tail(port))[i]
    BY <1>1, <2>2, ConcatProperties
  <2>4. QED  BY <1>5, <2>1, <2>2, <2>3
<1>8. \A i \in 1..Len(Bytes(t)) : Bytes(t)[i] = [of |-> sent, kind |-> kind, at |-> i]
  BY <1>3, <1>7 DEF OwnStart
<1>9. Head(port) = [of |-> sent, kind |-> kind, at |-> Len(got[t]) + 1]
  <2>1. Bytes(t)[Len(got[t]) + 1] = Head(port)
    BY <1>1, MoveByte, AppendProperties DEF Bytes
  <2>2. Len(got[t]) + 1 \in 1..Len(Bytes(t))
    BY <1>4, <1>6
  <2>3. QED  BY <1>8, <2>1, <2>2
<1>10. QED  BY <1>2, <1>3, <1>4, <1>5, <1>6, <1>8, <1>9 DEF Reading

\* The dispatcher, the LON, Call, Arrive and Write keep the invariant.
LEMMA DrainKeeps == LineInv /\ TypeOK' /\ Drain => LineInv'
<1> SUFFICES ASSUME LineInv, TypeOK', Drain PROVE LineInv'
  OBVIOUS
<1>1. Locks'
  BY DEF LineInv, Locks, Drain, locals
<1>2. ASSUME ~dirty' PROVE Clean'
  BY <1>2, ThreadAssumption DEF LineInv, Clean, Drain
<1>3. QED  BY <1>1, <1>2 DEF LineInv

LEMMA UnaskedKeeps == LineInv /\ TypeOK' /\ Unasked => LineInv'
<1> SUFFICES ASSUME LineInv, TypeOK', Unasked PROVE LineInv'
  OBVIOUS
<1>1. Locks'
  BY DEF LineInv, Locks, Unasked, locals
<1>2. dirty'
  BY DEF Unasked
<1>3. QED  BY <1>1, <1>2 DEF LineInv

LEMMA CallKeeps ==
  ASSUME LineInv, TypeOK', NEW t \in Thread, Call(t)
  PROVE  LineInv'
<1>1. Locks'
  BY DEF LineInv, TypeOK, Locks, Call
<1>2. ASSUME ~dirty' PROVE Clean'
  <2>1. Clean /\ UNCHANGED <<port, wire, mutex, got, length, sent>> /\ mutex # t
    BY <1>2 DEF LineInv, Locks, Call, line
  <2>2. ASSUME NEW u \in Thread, mutex' = u PROVE Reading(u)'
    <3>1. Reading(u) /\ u # t
      BY <2>1, <2>2 DEF Clean
    <3>2. pc'[u] = "read"
      BY <3>1 DEF Call, LineInv, TypeOK, Reading
    <3>3. Flow(u)' = Flow(u) /\ \A kind : OwnStart(Flow(u), kind)' = OwnStart(Flow(u), kind)
      BY <2>1 DEF Flow, OwnStart
    <3>4. QED  BY <2>1, <3>1, <3>2, <3>3 DEF Reading
  <2>3. QED  BY <2>1, <2>2 DEF Clean
<1>3. QED  BY <1>1, <1>2 DEF LineInv

LEMMA ArriveKeeps == LineInv /\ TypeOK' /\ Arrive => LineInv'
<1> SUFFICES ASSUME LineInv, TypeOK', Arrive PROVE LineInv'
  OBVIOUS
<1>1. Locks'
  BY DEF LineInv, Locks, Arrive, locals
<1>2. ASSUME ~dirty' PROVE Clean'
  <2>1. Clean /\ UNCHANGED <<pc, mutex, got, length, sent>> /\ wire # <<>>
    BY <1>2 DEF LineInv, Arrive, locals
  <2>2. ASSUME NEW u \in Thread, mutex' = u PROVE Reading(u)'
    <3>1. Reading(u)
      BY <2>1, <2>2 DEF Clean
    <3>2. /\ port \in Seq(Byte) /\ wire \in Seq(Byte) /\ got[u] \in Seq(Byte)
          /\ port' \in Seq(Byte) /\ wire' \in Seq(Byte)
      BY DEF LineInv, TypeOK
    <3>3. port' \o wire' = port \o wire
      BY <2>1, <3>2, MoveByte DEF Arrive
    <3>4. /\ (got[u] \o port) \o wire = got[u] \o (port \o wire)
          /\ (got[u] \o port') \o wire' = got[u] \o (port' \o wire')
      BY <3>2, Associative
    <3>5. (got[u] \o port') \o wire' = (got[u] \o port) \o wire
      BY <3>3, <3>4
    <3>6. Flow(u)' = Flow(u) /\ \A kind : OwnStart(Flow(u), kind)' = OwnStart(Flow(u), kind)
      BY <2>1, <3>5 DEF Flow, OwnStart
    <3>7. QED  BY <2>1, <3>1, <3>6 DEF Reading
  <2>3. QED  BY <2>1, <2>2 DEF Clean
<1>3. QED  BY <1>1, <1>2 DEF LineInv

LEMMA WriteKeeps ==
  ASSUME LineInv, TypeOK', NEW t \in Thread, Write(t)
  PROVE  LineInv'
<1>1. Locks'
  BY ThreadAssumption DEF LineInv, TypeOK, Locks, Write
<1>2. ASSUME ~dirty' PROVE Clean'
  <2>1. port = <<>> /\ wire = <<>> /\ got[t] = <<>> /\ got' = got /\ port' = port
    BY <1>2, ThreadAssumption DEF LineInv, Clean, Locks, Write
  <2>2. PICK kind \in Kind :
          \E n \in 0..Size(kind) : wire' = wire \o Answer(sent', kind, n)
    BY DEF Write
  <2>3. PICK n \in 0..Size(kind) : wire' = wire \o Answer(sent', kind, n)
    BY <2>2
  <2>4. sent' \in Nat
    BY SizeAssumption DEF LineInv, TypeOK
  <2>5. /\ Answer(sent', kind, n) \in Seq(Byte)
        /\ Len(Answer(sent', kind, n)) = n
        /\ \A i \in 1..n : Answer(sent', kind, n)[i] = [of |-> sent', kind |-> kind, at |-> i]
    BY <2>4, AnswerType
  <2>6. Flow(t)' = Answer(sent', kind, n)
    <3>1. (<<>> \o <<>>) \o (<<>> \o Answer(sent', kind, n)) = Answer(sent', kind, n)
      BY <2>5, ConcatEmptySeq
    <3>2. QED  BY <2>1, <2>3, <3>1 DEF Flow
  <2>7. OwnStart(Flow(t), kind)'
    BY <2>5, <2>6 DEF OwnStart
  <2>8. pc'[t] = "read" /\ Len(got'[t]) = 0
    BY <2>1 DEF Write, LineInv, TypeOK
  <2>9. Reading(t)'
    BY <2>1, <2>7, <2>8, SizeAssumption DEF Reading
  <2>10. QED  BY <2>9, ThreadAssumption DEF Clean, Write
<1>3. QED  BY <1>1, <1>2 DEF LineInv

LEMMA GiveUpKeeps ==
  ASSUME LineInv, TypeOK', NEW t \in Thread, GiveUp(t)
  PROVE  LineInv'
<1>1. mutex = t
  BY DEF LineInv, Locks, GiveUp
<1>2. Locks'
  BY <1>1, ThreadAssumption DEF LineInv, TypeOK, Locks, GiveUp, Return
<1>3. QED  BY <1>2 DEF LineInv, GiveUp

\* Reading a byte keeps the invariant: before a read has given up the header is that
\* of the command's own frame, so its length is known, and the last byte of the
\* answer is the last of the flow.
LEMMA ReadByteKeeps ==
  ASSUME LineInv, TypeOK', NEW t \in Thread, ReadByte(t)
  PROVE  /\ LineInv'
         /\ ~dirty => pc'[t] # "overrun"
<1>1. mutex = t /\ pc[t] = "read"
  BY DEF LineInv, Locks, ReadByte
<1>2. Locks'
  <2>1. CASE ReadHeader(t)
    <3>1. mutex' = t /\ pc' \in {pc, [pc EXCEPT ![t] = "overrun"], [pc EXCEPT ![t] = "read"]}
      BY <1>1, <2>1 DEF ReadHeader
    <3>2. pc'[t] \in {"read", "overrun"} /\ \A u \in Thread : u # t => pc'[u] = pc[u]
      BY <1>1, <3>1 DEF LineInv, TypeOK
    <3>3. \A u \in Thread : u # t => got'[u] = got[u]
      BY <2>1 DEF LineInv, TypeOK, ReadHeader, Keep
    <3>4. QED  BY <1>1, <3>1, <3>2, <3>3 DEF LineInv, Locks
  <2>2. CASE ReadData(t)
    BY <1>1, <2>2 DEF LineInv, TypeOK, Locks, ReadData, Keep
  <2>3. CASE ReadLast(t)
    BY <1>1, <2>3, ThreadAssumption DEF LineInv, TypeOK, Locks, ReadLast, Return
  <2>4. QED  BY <2>1, <2>2, <2>3 DEF ReadByte
<1>3. ASSUME ~dirty PROVE Clean' /\ pc'[t] # "overrun"
  <2>1. /\ Len(got[t]) \in Nat /\ Len(got[t]) < FrameLen
        /\ Len(got[t]) >= 3 => length[t] = FrameLen
        /\ Len(Bytes(t)) = Len(got[t]) + 1
        /\ (Bytes(t) \o Tail(port)) \o wire = Flow(t)
        /\ Len(Flow(t)) = Len(got[t]) + 1 + Len(Tail(port)) + Len(wire)
    BY <1>3, ReadsOwn
  <2>2. PICK kind \in Kind :
          /\ OwnStart(Flow(t), kind)
          /\ got[t] # <<>> => kind # "ACK"
          /\ Head(port) = [of |-> sent, kind |-> kind, at |-> Len(got[t]) + 1]
          /\ \A i \in 1..Len(Bytes(t)) :
               Bytes(t)[i] = [of |-> sent, kind |-> kind, at |-> i]
    BY <1>3, ReadsOwn
  <2>3. /\ Tail(port) \in Seq(Byte) /\ wire \in Seq(Byte)
        /\ Len(Tail(port)) \in Nat /\ Len(wire) \in Nat
        /\ got[t] \in Seq(Byte)
    BY MoveByte, LenProperties DEF LineInv, TypeOK, ReadByte
  <2>4. UNCHANGED <<wire, sent, dirty>> /\ port' = Tail(port)
    BY DEF ReadByte
  <2>5. CASE got'[t] = Bytes(t) /\ mutex' = mutex /\ (ReadHeader(t) \/ ReadData(t))
    <3>1. /\ Flow(t)' = Flow(t)
          /\ \A k \in Kind : OwnStart(Flow(t), k)' = OwnStart(Flow(t), k)
      BY <2>1, <2>4, <2>5 DEF Flow, OwnStart
    <3>2. kind # "ACK"
      <4>1. CASE got[t] # <<>>
        BY <2>2, <4>1
      <4>2. CASE got[t] = <<>>
        <5>1. Len(got[t]) = 0
          BY <4>2
        <5>2. Head(port).kind # "ACK"
          BY <2>5, <4>2, <5>1 DEF ReadHeader, ReadData
        <5>3. QED  BY <2>2, <5>2
      <4>3. QED  BY <4>1, <4>2
    <3>3. /\ pc'[t] = "read" /\ Len(got'[t]) < FrameLen
          /\ Len(got'[t]) >= 3 => length'[t] = FrameLen
      <4>1. CASE ReadHeader(t) /\ Len(got[t]) < 2
        BY <1>1, <2>1, <2>5, <4>1, SizeAssumption DEF ReadHeader
      <4>2. CASE ReadHeader(t) /\ Len(got[t]) >= 2
        <5>0. Len(got[t]) \in Nat /\ Len(got[t]) < 3 /\ Len(got[t]) >= 2
          BY <2>1, <4>2, Zenon DEF ReadHeader
        <5>1. Len(got[t]) = 2
          <6>1. \A n \in Nat : n < 3 /\ n >= 2 => n = 2
            OBVIOUS
          <6>2. QED  BY <5>0, <6>1, Zenon
        <5>2. kind = "frame"
          BY <2>1, <2>2, <2>3, <5>1 DEF OwnStart, Size
        <5>3. LengthsOf(Bytes(t)) = {FrameLen}
          <6>1. \A i \in 1..3 : Bytes(t)[i] = [of |-> sent, kind |-> "frame", at |-> i]
            BY <2>1, <2>2, <5>1, <5>2
          <6>2. \A i \in 1..3 : Bytes(t)[i].kind = "frame" /\ Bytes(t)[i].at = i
            BY <6>1
          <6>3. QED  BY <6>2 DEF LengthsOf
        <5>4. /\ length' = [length EXCEPT ![t] = FrameLen]
              /\ pc' = [pc EXCEPT ![t] = "read"]
          BY <4>2, <5>1, <5>3, SizeAssumption DEF ReadHeader
        <5>5. length'[t] = FrameLen /\ pc'[t] = "read"
          BY <5>4 DEF LineInv, TypeOK
        <5>6. QED  BY <2>1, <2>5, <5>1, <5>5, SizeAssumption
      <4>3. CASE ReadData(t)
        BY <1>1, <2>1, <2>5, <4>3, SizeAssumption DEF ReadData
      <4>4. QED  BY <2>1, <2>5, <4>1, <4>2, <4>3
    <3>4. Reading(t)'
      BY <2>2, <3>1, <3>2, <3>3 DEF Reading
    <3>5. QED  BY <1>1, <2>5, <3>3, <3>4, ThreadAssumption DEF Clean
  <2>6. CASE ReadLast(t)
    <3>1. Len(Flow(t)) = Len(got[t]) + 1
      <4>1. CASE Acknowledged(t)
        <5>1. Len(got[t]) = 0
          BY <4>1 DEF Acknowledged
        <5>2. kind = "ACK"
          BY <2>2, <4>1, <5>1 DEF Acknowledged
        <5>3. Len(Flow(t)) <= 1
          BY <2>2, <5>2 DEF OwnStart, Size
        <5>4. QED  BY <2>1, <2>3, <5>1, <5>3
      <4>2. CASE Len(got[t]) >= 3 /\ Len(got[t]) + 1 = length[t]
        <5>1. Len(got[t]) + 1 = FrameLen
          BY <2>1, <4>2
        <5>2. Len(Flow(t)) <= FrameLen
          BY <2>2, SizeType, SizeAssumption, <2>1, <2>3 DEF OwnStart
        <5>3. QED  BY <2>1, <2>3, <5>1, <5>2, SizeAssumption
      <4>3. QED  BY <2>6, <4>1, <4>2 DEF ReadLast
    <3>2. Tail(port) = <<>> /\ wire = <<>>
      BY <2>1, <2>3, <3>1, EmptySeq
    <3>3. mutex' = NoThread /\ pc'[t] = "idle"
      BY <2>6 DEF ReadLast, Return, LineInv, TypeOK
    <3>4. QED  BY <2>4, <3>2, <3>3, ThreadAssumption DEF Clean
  <2>7. QED  BY <2>5, <2>6 DEF ReadByte, ReadHeader, ReadData, Keep, LineInv, TypeOK
<1>4. dirty' = dirty
  BY DEF ReadByte
<1>5. QED  BY <1>2, <1>3, <1>4 DEF LineInv

LEMMA LineInvariance == Spec => []LineInv
<1>1. Init => LineInv
  <2> SUFFICES ASSUME Init PROVE LineInv
    OBVIOUS
  <2>1. \A t \in Thread : pc[t] = "idle" /\ got[t] = <<>> /\ mutex # t
    BY ThreadAssumption DEF Init
  <2>2. port = <<>> /\ wire = <<>> /\ TypeOK
    BY InitTypes DEF Init
  <2>3. QED  BY <2>1, <2>2 DEF LineInv, Locks, Clean
<1>2. LineInv /\ TypeOK' /\ [Next]_vars => LineInv'
  <2> SUFFICES ASSUME LineInv, TypeOK', [Next]_vars PROVE LineInv'
    OBVIOUS
  <2>1. CASE UNCHANGED vars
    <3>1. Locks' /\ (~dirty => (Clean' <=> Clean)) /\ dirty' = dirty
      BY <2>1 DEF vars, line, locals, LineInv, Locks, Clean, Reading, Flow, OwnStart
    <3>2. QED  BY <3>1 DEF LineInv
  <2>2. QED
    BY <2>1, ArriveKeeps, DrainKeeps, UnaskedKeeps, CallKeeps, WriteKeeps, ReadByteKeeps,
       GiveUpKeeps
    DEF Next, Run
<1>3. QED  BY <1>1, <1>2, Typing, PTL DEF Spec

\* Between two commands the line is clean, unless a read has given up or something came
\* unasked: a command is
\* never written over bytes that its own or another's answer has left.
THEOREM Cleanliness == Spec => []CleanBetween
<1>1. LineInv => CleanBetween
  BY DEF LineInv, Clean, CleanBetween
<1>2. QED  BY <1>1, LineInvariance, PTL

\* Until a read gives up or something comes unasked, the command that reads gets the answer that was sent to it,
\* from its first byte and in order, and no buffer is overrun.
THEOREM Answers == Spec => OwnAnswer
<1>1. LineInv /\ TypeOK' /\ [Next]_vars =>
        [\A t \in Thread : ReadByte(t) /\ ~dirty =>
           /\ pc'[t] # "overrun"
           /\ \A i \in DOMAIN Bytes(t) : Bytes(t)[i].of = sent /\ Bytes(t)[i].at = i]_vars
  <2> SUFFICES ASSUME LineInv, TypeOK', NEW t \in Thread, ReadByte(t), ~dirty
               PROVE  /\ pc'[t] # "overrun"
                      /\ \A i \in DOMAIN Bytes(t) :
                           Bytes(t)[i].of = sent /\ Bytes(t)[i].at = i
    OBVIOUS
  <2>1. pc'[t] # "overrun"
    BY ReadByteKeeps
  <2>2. Bytes(t) \in Seq(Byte)
    BY MoveByte DEF LineInv, TypeOK, ReadByte, Bytes
  <2>3. DOMAIN Bytes(t) = 1..Len(Bytes(t))
    BY <2>2, LenProperties
  <2>4. PICK kind \in Kind : \A i \in 1..Len(Bytes(t)) :
               Bytes(t)[i] = [of |-> sent, kind |-> kind, at |-> i]
    BY ReadsOwn
  <2>5. QED  BY <2>1, <2>3, <2>4
<1>2. QED  BY <1>1, LineInvariance, Typing, PTL DEF Spec, OwnAnswer

=============================================================================
