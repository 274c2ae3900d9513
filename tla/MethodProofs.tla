----------------------------- MODULE MethodProofs ----------------------------
(* Theorems about MethodFiles, for any clients, names, sizes of the stream   *)
(* buffer and of the uploads, and any number of requests and restarts; and,  *)
(* in the second part, about MethodNodes, for any methods and executions: no *)
(* node is used after it was freed, and the graph of a method is its text.   *)
EXTENDS MethodFiles, MethodNodes, SequenceTheorems, FiniteSetTheorems, WellFoundedInduction,
        TLAPS

-----------------------------------------------------------------------------
(* The invariant.                                                          *)

Stream == [file : Nat, at : Nat, buffer : Seq(Nat), id : Nat, pieces : Nat]
Uploading(t) == doing[t] = "uploading"

Types ==
  /\ data \in Seq(Seq(Nat)) /\ stored \in Seq(Seq(Nat)) /\ Len(stored) = Len(data)
  /\ dir \in [Name -> 0..Len(data)]
  /\ active \in Name \cup {Empty, Mixed, NoSelection}
  /\ phase \in {"up", "exiting", "down"}
  /\ doing \in [Client -> {"idle", "uploading", "reading", "selecting", "opening"}]
  /\ name \in [Client -> Name \cup {Empty, Mixed, NoSelection}]
  /\ stream \in [Client -> Stream] /\ left \subseteq Stream
  /\ file \in [Client -> Nat]
  /\ got \in [Client -> Seq(Nat)] /\ want \in [Client -> Seq(Nat)]
  /\ contested \in [Client -> BOOLEAN] /\ disturbed \in [Client -> BOOLEAN]
  /\ requests \in Nat

\* What is open is there.
Opened ==
  /\ \A t \in Client : Uploading(t) => name[t] \in Name /\ stream[t].file \in 1..Len(data)
  /\ \A s \in left : s.file \in 1..Len(data)

\* A file has one name at most: that under which it is uploaded.
OneName ==
  /\ \A n \in Name, m \in Name : dir[n] # 0 /\ dir[n] = dir[m] => n = m
  /\ \A t \in Client, n \in Name : Uploading(t) /\ dir[n] = stream[t].file => n = name[t]

\* A file that may still be written was not acked.
Pending ==
  /\ \A t \in Client : Uploading(t) => stored[stream[t].file] = Unknown
  /\ \A s \in left : stored[s.file] = Unknown

\* Who shares a file with another stream knows it.
Shared ==
  /\ \A t \in Client, u \in Client : Uploading(t) /\ Uploading(u) /\ t # u
                                     /\ stream[t].file = stream[u].file => contested[t]
  /\ \A t \in Client, s \in left : Uploading(t) /\ stream[t].file = s.file => contested[t]

\* The pieces of an upload so far, in its file and then in its buffer.
InFile(d, s) == Len(d) = s.at /\ \A k \in 1..Len(d) : d[k] = s.id
InBuffer(s) == /\ s.pieces = s.at + Len(s.buffer)
               /\ \A k \in 1..Len(s.buffer) : s.buffer[k] = s.id

Progress == \A t \in Client : Uploading(t) /\ ~contested[t] =>
                                InFile(data[stream[t].file], stream[t]) /\ InBuffer(stream[t])

Acked == \A f \in 1..Len(data) : stored[f] # Unknown => data[f] = stored[f]

FileInv == Opened /\ OneName /\ Pending /\ Shared /\ Progress /\ Acked

\* A process that is not up has no threads.
Stopped == phase # "up" => \A t \in Client : doing[t] = "idle" /\ want[t] = Unknown

\* What is read is there, and a method that is executed was selected.
ToRead ==
  /\ \A t \in Client : doing[t] = "reading" => file[t] \in 1..Len(data)
  /\ \A t \in Client : doing[t] = "opening" => name[t] # NoSelection

\* Who selects alone finds the file empty when it closes it.
SelectInv ==
  /\ chosen # Empty => active = chosen /\ Selecting = {}
  /\ \A t \in Selecting : name[t] \in Name /\ (~contested[t] => active = Empty)
  /\ \A t \in Selecting, u \in Selecting : t # u => contested[t]

\* A reader that nobody disturbed has the beginning of what it should get.
Undisturbed(t) == ~disturbed[t] /\ want[t] # Unknown

ReadsOn(t) ==
  /\ name[t] \in Name /\ file[t] = dir[name[t]] /\ dir[name[t]] # 0
  /\ want[t] = stored[file[t]]
  /\ Len(got[t]) <= Len(data[file[t]])
  /\ \A k \in 1..Len(got[t]) : got[t][k] = data[file[t]][k]

Reader(t) ==
  Undisturbed(t) =>
    /\ doing[t] = "reading" => ReadsOn(t)
    /\ doing[t] = "opening" => name[t] \in Name /\ want[t] = Expected(name[t])
    /\ phase = "up" /\ doing[t] \notin {"reading", "opening"} => got[t] = want[t]

ReadInv == \A t \in Client : Reader(t)

Inv == Types /\ FileInv /\ Stopped /\ ToRead /\ SelectInv /\ ReadInv

-----------------------------------------------------------------------------
(* What the operations of a stream do to its file.                         *)

LEMMA ListIsSeq ==
  ASSUME NEW n \in Nat, NEW f \in [1..n -> Nat]
  PROVE  f \in Seq(Nat) /\ Len(f) = n
OBVIOUS

LEMMA WrittenIs ==
  ASSUME NEW d \in Seq(Nat), NEW at \in Nat, NEW s \in Seq(Nat)
  PROVE  /\ Written(d, at, s) \in Seq(Nat)
         /\ Len(d) = at => /\ Len(Written(d, at, s)) = at + Len(s)
                           /\ \A k \in 1..at : Written(d, at, s)[k] = d[k]
                           /\ \A k \in at + 1..at + Len(s) : Written(d, at, s)[k] = s[k - at]
<1> DEFINE n == IF Len(d) > at + Len(s) THEN Len(d) ELSE at + Len(s)
           e(k) == IF k > at /\ k <= at + Len(s) THEN s[k - at]
                   ELSE IF k <= Len(d) THEN d[k] ELSE 0
<1>1. Len(d) \in Nat /\ Len(s) \in Nat /\ n \in Nat
  OBVIOUS
<1>2. \A k \in 1..n : e(k) \in Nat
  <2> SUFFICES ASSUME NEW k \in 1..n  PROVE e(k) \in Nat
    OBVIOUS
  <2>1. CASE k > at /\ k <= at + Len(s)
    <3>1. k - at \in 1..Len(s)
      BY <1>1, <2>1
    <3>2. s[k - at] \in Nat
      BY <3>1, ElementOfSeq
    <3>3. QED  BY <2>1, <3>2
  <2>2. CASE ~(k > at /\ k <= at + Len(s)) /\ k <= Len(d)
    <3>1. d[k] \in Nat
      BY <1>1, <2>2, ElementOfSeq
    <3>2. QED  BY <2>2, <3>1
  <2>3. QED  BY <2>1, <2>2
<1>3. Written(d, at, s) = [k \in 1..n |-> e(k)]
  BY DEF Written
<1>4. Written(d, at, s) \in [1..n -> Nat]
  BY <1>2, <1>3
<1>5. Written(d, at, s) \in Seq(Nat) /\ Len(Written(d, at, s)) = n
  <2> HIDE DEF n
  <2>1. QED  BY <1>1, <1>4, ListIsSeq
<1>6. ASSUME Len(d) = at
      PROVE  n = at + Len(s)
  BY <1>1, <1>6
<1>7. ASSUME Len(d) = at, NEW k \in 1..at
      PROVE  Written(d, at, s)[k] = d[k]
  BY <1>1, <1>3, <1>6, <1>7
<1>8. ASSUME Len(d) = at, NEW k \in at + 1..at + Len(s)
      PROVE  Written(d, at, s)[k] = s[k - at]
  BY <1>1, <1>3, <1>6, <1>8
<1>9. QED  BY <1>5, <1>6, <1>7, <1>8

\* A flush changes one file, and puts the buffer behind what is there.
LEMMA FlushedIs ==
  ASSUME NEW d \in Seq(Seq(Nat)), NEW s \in Stream, s.file \in 1..Len(d)
  PROVE  /\ Flushed(d, s) \in Seq(Seq(Nat)) /\ Len(Flushed(d, s)) = Len(d)
         /\ \A f \in 1..Len(d) : f # s.file => Flushed(d, s)[f] = d[f]
         /\ InFile(d[s.file], s) /\ InBuffer(s) =>
              /\ Len(Flushed(d, s)[s.file]) = s.pieces
              /\ \A k \in 1..s.pieces : Flushed(d, s)[s.file][k] = s.id
<1>1. s.at \in Nat /\ s.buffer \in Seq(Nat) /\ s.pieces \in Nat
  BY DEF Stream
<1>2. d[s.file] \in Seq(Nat)
  BY ElementOfSeq
<1> DEFINE w == Written(d[s.file], s.at, s.buffer)
<1>3. /\ w \in Seq(Nat)
      /\ Len(d[s.file]) = s.at =>
           /\ Len(w) = s.at + Len(s.buffer)
           /\ \A k \in 1..s.at : w[k] = d[s.file][k]
           /\ \A k \in s.at + 1..s.at + Len(s.buffer) : w[k] = s.buffer[k - s.at]
  BY <1>1, <1>2, WrittenIs
<1>4. Flushed(d, s) = [d EXCEPT ![s.file] = w]
  BY DEF Flushed
<1> HIDE DEF w
<1>5. /\ Flushed(d, s) \in Seq(Seq(Nat)) /\ Len(Flushed(d, s)) = Len(d)
      /\ \A f \in 1..Len(d) : Flushed(d, s)[f] = IF f = s.file THEN w ELSE d[f]
  BY <1>3, <1>4, ExceptSeq
<1>6. ASSUME InFile(d[s.file], s), InBuffer(s)
      PROVE  Len(w) = s.pieces /\ \A k \in 1..s.pieces : w[k] = s.id
  <2>1. /\ Len(d[s.file]) = s.at /\ \A k \in 1..s.at : d[s.file][k] = s.id
        /\ s.pieces = s.at + Len(s.buffer) /\ \A k \in 1..Len(s.buffer) : s.buffer[k] = s.id
    BY <1>6 DEF InFile, InBuffer
  <2>2. Len(s.buffer) \in Nat
    BY <1>1
  <2>3. ASSUME NEW k \in 1..s.pieces
        PROVE  w[k] = s.id
    <3>1. CASE k <= s.at
      BY <1>1, <1>3, <2>1, <3>1
    <3>2. CASE k > s.at
      <4>1. k \in s.at + 1..s.at + Len(s.buffer) /\ k - s.at \in 1..Len(s.buffer)
        BY <1>1, <2>1, <2>2, <3>2
      <4>2. QED  BY <1>3, <2>1, <4>1
    <3>3. QED  BY <1>1, <3>1, <3>2
  <2>4. QED  BY <1>3, <2>1, <2>3
<1>7. QED  BY <1>5, <1>6

\* So does a piece that is put, whether it goes to the buffer or flushes it first.
LEMMA PutIs ==
  ASSUME NEW d \in Seq(Seq(Nat)), NEW s \in Stream, s.file \in 1..Len(d)
  PROVE  /\ Put(d, s) \in Seq(Seq(Nat)) /\ Len(Put(d, s)) = Len(d)
         /\ \A f \in 1..Len(d) : f # s.file => Put(d, s)[f] = d[f]
         /\ PutIn(s) \in Stream /\ PutIn(s).file = s.file
         /\ InFile(d[s.file], s) /\ InBuffer(s) =>
              InFile(Put(d, s)[s.file], PutIn(s)) /\ InBuffer(PutIn(s))
<1>1. /\ s.at \in Nat /\ s.buffer \in Seq(Nat) /\ s.pieces \in Nat /\ s.id \in Nat
      /\ Len(s.buffer) \in Nat /\ Buffer \in Nat
  BY FilesAssumption DEF Stream
<1>2. /\ PutIn(s).file = s.file /\ PutIn(s).id = s.id /\ PutIn(s).pieces = s.pieces + 1
      /\ PutIn(s) \in Stream
  <2> DEFINE full == Len(s.buffer) >= Buffer
             at == IF full THEN s.at + Len(s.buffer) ELSE s.at
             buffer == IF full THEN <<s.id>> ELSE Append(s.buffer, s.id)
  <2>1. PutIn(s) = [s EXCEPT !.at = at, !.buffer = buffer, !.pieces = s.pieces + 1]
    BY DEF PutIn
  <2>2. at \in Nat /\ buffer \in Seq(Nat) /\ s.pieces + 1 \in Nat
    BY <1>1
  <2> HIDE DEF at, buffer
  <2>3. QED  BY <2>1, <2>2 DEF Stream
<1>3. CASE Len(s.buffer) < Buffer
  <2>1. /\ Put(d, s) = d /\ PutIn(s).at = s.at /\ PutIn(s).buffer = Append(s.buffer, s.id)
    BY <1>1, <1>3 DEF Put, PutIn, Stream
  <2>2. /\ Len(PutIn(s).buffer) = Len(s.buffer) + 1
        /\ \A k \in 1..Len(s.buffer) + 1 :
             PutIn(s).buffer[k] = IF k <= Len(s.buffer) THEN s.buffer[k] ELSE s.id
    BY <1>1, <2>1
  <2>3. InBuffer(s) => InBuffer(PutIn(s))
    <3> SUFFICES ASSUME InBuffer(s)  PROVE InBuffer(PutIn(s))
      OBVIOUS
    <3>1. s.pieces = s.at + Len(s.buffer) /\ \A k \in 1..Len(s.buffer) : s.buffer[k] = s.id
      BY DEF InBuffer
    <3>2. PutIn(s).pieces = PutIn(s).at + Len(PutIn(s).buffer)
      BY <1>1, <1>2, <2>1, <2>2, <3>1
    <3>3. ASSUME NEW k \in 1..Len(PutIn(s).buffer)
          PROVE  PutIn(s).buffer[k] = PutIn(s).id
      <4>1. CASE k <= Len(s.buffer)
        <5>1. k \in 1..Len(s.buffer) /\ k \in 1..Len(s.buffer) + 1
          BY <1>1, <2>2, <4>1
        <5>2. PutIn(s).buffer[k] = s.buffer[k] /\ s.buffer[k] = s.id
          BY <2>2, <3>1, <4>1, <5>1
        <5>3. QED  BY <1>2, <5>2
      <4>2. CASE k = Len(s.buffer) + 1
        <5>1. k \in 1..Len(s.buffer) + 1 /\ ~(k <= Len(s.buffer))
          BY <1>1, <2>2, <4>2
        <5>2. QED  BY <1>2, <2>2, <5>1
      <4>3. QED  BY <1>1, <2>2, <4>1, <4>2
    <3>4. QED  BY <3>2, <3>3 DEF InBuffer
  <2>4. InFile(d[s.file], s) => InFile(Put(d, s)[s.file], PutIn(s))
    BY <1>2, <2>1 DEF InFile
  <2>5. QED  BY <1>2, <2>1, <2>3, <2>4 DEF Stream
<1>4. CASE ~(Len(s.buffer) < Buffer)
  <2>1. /\ Put(d, s) = Flushed(d, s) /\ PutIn(s).at = s.at + Len(s.buffer)
        /\ PutIn(s).buffer = <<s.id>>
    BY <1>1, <1>4 DEF Put, PutIn, Stream
  <2>2. InBuffer(s) => InBuffer(PutIn(s)) /\ s.pieces = s.at + Len(s.buffer)
    BY <1>1, <1>2, <2>1 DEF InBuffer
  <2>3. ASSUME InFile(d[s.file], s), InBuffer(s)
        PROVE  InFile(Put(d, s)[s.file], PutIn(s))
    <3>1. /\ Len(Flushed(d, s)[s.file]) = s.pieces
          /\ \A k \in 1..s.pieces : Flushed(d, s)[s.file][k] = s.id
      BY <2>3, FlushedIs
    <3>2. QED  BY <1>2, <2>1, <2>2, <2>3, <3>1 DEF InFile
  <2>4. QED  BY <1>2, <2>1, <2>2, <2>3, FlushedIs DEF Stream
<1>5. QED  BY <1>3, <1>4

-----------------------------------------------------------------------------
(* The types.                                                              *)

LEMMA NamesDiffer ==
  /\ Empty # Mixed /\ Empty # NoSelection /\ Mixed # NoSelection
  /\ Empty \notin Name /\ Mixed \notin Name /\ NoSelection \notin Name
<1>1. Cardinality({Empty, Mixed, NoSelection}) = 3
  BY FilesAssumption
<1>2. ASSUME NEW x, NEW y, {Empty, Mixed, NoSelection} = {x, y}
      PROVE  FALSE
  <2>1. Cardinality({x, y}) <= 2
    <3>1. IsFiniteSet({x}) /\ Cardinality({x}) = 1
      BY FS_Singleton
    <3>2. Cardinality({x} \cup {y}) = IF y \in {x} THEN 1 ELSE 2
      BY <3>1, FS_AddElement
    <3>3. {x} \cup {y} = {x, y}
      OBVIOUS
    <3>4. QED  BY <3>2, <3>3
  <2>2. QED  BY <1>1, <1>2, <2>1
<1>3. ~(Empty = Mixed \/ Empty = NoSelection \/ Mixed = NoSelection)
  <2>1. Empty = Mixed => {Empty, Mixed, NoSelection} = {Empty, NoSelection}
    OBVIOUS
  <2>2. Empty = NoSelection => {Empty, Mixed, NoSelection} = {Empty, Mixed}
    OBVIOUS
  <2>3. Mixed = NoSelection => {Empty, Mixed, NoSelection} = {Empty, Mixed}
    OBVIOUS
  <2>4. QED  BY <1>2, <2>1, <2>2, <2>3
<1>4. QED  BY <1>3, FilesAssumption

LEMMA NothingOpen == NoStream \in Stream /\ Unknown \in Seq(Nat)
BY DEF NoStream, Stream, Unknown

LEMMA InvInit == FInit => Inv
<1> SUFFICES ASSUME FInit  PROVE Inv
  OBVIOUS
<1>1. /\ data = <<>> /\ stored = <<>> /\ left = {} /\ requests = 0 /\ phase = "up"
      /\ active = NoSelection /\ chosen = NoSelection /\ doing = [t \in Client |-> "idle"]
      /\ name = [t \in Client |-> Empty] /\ stream = [t \in Client |-> NoStream]
      /\ file = [t \in Client |-> 0] /\ got = [t \in Client |-> Unknown]
      /\ want = [t \in Client |-> Unknown] /\ dir = [n \in Name |-> 0]
      /\ contested = [t \in Client |-> FALSE] /\ disturbed = [t \in Client |-> FALSE]
  BY DEF FInit
<1>2. data \in Seq(Seq(Nat)) /\ stored \in Seq(Seq(Nat)) /\ Len(data) = 0 /\ Len(stored) = 0
  BY <1>1, EmptySeq
<1>3. Types
  <2>1. 0 \in 0..Len(data)
    BY <1>2
  <2>2. QED  BY <1>1, <1>2, <2>1, NothingOpen DEF Types
<1>4. FileInv
  BY <1>1, <1>2
  DEF FileInv, Opened, OneName, Pending, Shared, Progress, Acked, Uploading
<1>5. Stopped /\ ToRead /\ SelectInv /\ ReadInv
  BY <1>1 DEF Stopped, ToRead, SelectInv, Selecting, ReadInv, Reader, Undisturbed
<1>6. QED  BY <1>3, <1>4, <1>5 DEF Inv

LEMMA ExpectedType ==
  ASSUME Types, NEW n \in Name
  PROVE  Expected(n) \in Seq(Nat)
<1>1. dir[n] \in 0..Len(data) /\ Len(stored) = Len(data) /\ stored \in Seq(Seq(Nat))
  BY DEF Types
<1>2. CASE dir[n] = 0
  BY <1>2, EmptySeq DEF Expected
<1>3. CASE dir[n] # 0
  <2>1. dir[n] \in 1..Len(stored)
    BY <1>1, <1>3
  <2>2. stored[dir[n]] \in Seq(Nat)
    BY <1>1, <2>1, ElementOfSeq
  <2>3. QED  BY <1>3, <2>2 DEF Expected
<1>4. QED  BY <1>2, <1>3

\* What is acked of an upload: nothing, when somebody else had the file open.
LEMMA AckedType ==
  ASSUME NEW s \in Stream, NEW b \in BOOLEAN
  PROVE  /\ [k \in 1..s.pieces |-> s.id] \in Seq(Nat)
         /\ (IF b THEN Unknown ELSE [k \in 1..s.pieces |-> s.id]) \in Seq(Nat)
<1>1. s.pieces \in Nat /\ [k \in 1..s.pieces |-> s.id] \in [1..s.pieces -> Nat]
  BY DEF Stream
<1>2. [k \in 1..s.pieces |-> s.id] \in Seq(Nat)
  BY <1>1, ListIsSeq
<1>3. QED  BY <1>2, NothingOpen

\* The file of an upload, and what it is when it is new.
LEMMA UploadTypes ==
  ASSUME Types, NEW t \in Client, NEW n \in Name, receiveMethodFile(t, n)
  PROVE  Types'
<1> DEFINE f == IF dir[n] = 0 THEN Len(data) + 1 ELSE dir[n]
           s == [NoStream EXCEPT !.file = f, !.id = requests + 1]
<1>1. /\ data \in Seq(Seq(Nat)) /\ stored \in Seq(Seq(Nat)) /\ Len(stored) = Len(data)
      /\ Len(data) \in Nat /\ dir \in [Name -> 0..Len(data)] /\ dir[n] \in 0..Len(data)
      /\ requests \in Nat
  BY DEF Types
<1>2. <<>> \in Seq(Nat) /\ Unknown \in Seq(Nat)
  BY NothingOpen, EmptySeq
<1>3. /\ data' \in Seq(Seq(Nat)) /\ stored' \in Seq(Seq(Nat)) /\ Len(stored') = Len(data')
      /\ Len(data) <= Len(data') /\ f \in 1..Len(data') /\ Len(data') \in Nat
  <2> DEFINE none == <<>>
  <2>a. none \in Seq(Nat)
    BY <1>2
  <2>1. CASE dir[n] = 0
    <3>1. data' = Append(data, none) /\ stored' = Append(stored, Unknown) /\ f = Len(data) + 1
      BY <2>1 DEF receiveMethodFile
    <3> HIDE DEF none, f
    <3>2. QED  BY <1>1, <1>2, <2>a, <3>1
  <2>2. CASE dir[n] # 0
    <3>1. data' = [data EXCEPT ![f] = none] /\ stored' = [stored EXCEPT ![f] = Unknown]
      BY <2>2 DEF receiveMethodFile
    <3>2. f \in 1..Len(data) /\ f \in 1..Len(stored)
      BY <1>1, <2>2
    <3> HIDE DEF none, f
    <3>3. QED  BY <1>1, <1>2, <2>a, <3>1, <3>2, ExceptSeq
  <2>3. QED  BY <2>1, <2>2
<1>4. s \in Stream
  <2>1. f \in Nat /\ requests + 1 \in Nat
    BY <1>1, <1>3
  <2> HIDE DEF f
  <2>2. QED  BY <2>1, NothingOpen DEF Stream
<1>5. /\ dir' = [dir EXCEPT ![n] = f] /\ stream' = [stream EXCEPT ![t] = s]
      /\ name' = [name EXCEPT ![t] = n] /\ doing' = [doing EXCEPT ![t] = "uploading"]
      /\ requests' = requests + 1 /\ UNCHANGED <<active, phase, left, file, got, want, chosen>>
  BY DEF receiveMethodFile, Begin
<1>6. contested' \in [Client -> BOOLEAN] /\ disturbed' \in [Client -> BOOLEAN]
  BY DEF receiveMethodFile, Touch, Types
<1>7. dir' \in [Name -> 0..Len(data')]
  <2>1. \A m \in Name : dir'[m] \in 0..Len(data')
    BY <1>1, <1>3, <1>5
  <2>2. QED  BY <1>1, <1>5, <2>1
<1> HIDE DEF s, f
<1>8. stream' \in [Client -> Stream] /\ left' \subseteq Stream /\ requests' \in Nat
  BY <1>1, <1>4, <1>5 DEF Types
<1>9. /\ active' \in Name \cup {Empty, Mixed, NoSelection}
      /\ phase' \in {"up", "exiting", "down"}
      /\ doing' \in [Client -> {"idle", "uploading", "reading", "selecting", "opening"}]
      /\ name' \in [Client -> Name \cup {Empty, Mixed, NoSelection}]
      /\ file' \in [Client -> Nat]
      /\ got' \in [Client -> Seq(Nat)] /\ want' \in [Client -> Seq(Nat)]
  BY <1>5 DEF Types
<1>10. QED  BY <1>3, <1>6, <1>7, <1>8, <1>9 DEF Types

LEMMA PieceTypes ==
  ASSUME Types, Opened, NEW t \in Client, ReceivePiece(t)
  PROVE  Types'
<1>1. /\ Uploading(t) /\ stream[t] \in Stream /\ stream[t].file \in 1..Len(data)
      /\ data \in Seq(Seq(Nat))
  BY DEF Types, Opened, ReceivePiece, Uploading
<1>2. Put(data, stream[t]) \in Seq(Seq(Nat)) /\ Len(Put(data, stream[t])) = Len(data)
      /\ PutIn(stream[t]) \in Stream
  BY <1>1, PutIs
<1>3. /\ data' = Put(data, stream[t]) /\ stream' = [stream EXCEPT ![t] = PutIn(stream[t])]
      /\ UNCHANGED <<dir, active, phase, doing, name, left, file, got, requests, stored,
                     contested, want, chosen>>
  BY DEF ReceivePiece
<1>4. disturbed' \in [Client -> BOOLEAN]
  BY DEF ReceivePiece, Touch, Types
<1>5. QED  BY <1>2, <1>3, <1>4 DEF Types

LEMMA LastTypes ==
  ASSUME Types, Opened, NEW t \in Client, ReceiveLast(t)
  PROVE  Types'
<1> DEFINE s == PutIn(stream[t])
           acked == IF contested[t] THEN Unknown ELSE [k \in 1..s.pieces |-> s.id]
<1>1. /\ Uploading(t) /\ stream[t] \in Stream /\ stream[t].file \in 1..Len(data)
      /\ data \in Seq(Seq(Nat)) /\ contested[t] \in BOOLEAN
  BY DEF Types, Opened, ReceiveLast, Uploading
<1>2. /\ Put(data, stream[t]) \in Seq(Seq(Nat)) /\ Len(Put(data, stream[t])) = Len(data)
      /\ s \in Stream /\ s.file = stream[t].file
  BY <1>1, PutIs
<1>3. acked \in Seq(Nat)
  BY <1>1, <1>2, AckedType
<1>4. /\ data' = Flushed(Put(data, stream[t]), s) /\ stored' = [stored EXCEPT ![s.file] = acked]
      /\ stream' = [stream EXCEPT ![t] = NoStream] /\ doing' = [doing EXCEPT ![t] = "idle"]
      /\ UNCHANGED <<dir, active, phase, name, left, file, got, requests, contested, want, chosen>>
  BY DEF ReceiveLast
<1>5. disturbed' \in [Client -> BOOLEAN]
  BY DEF ReceiveLast, Touch, Types
<1> HIDE DEF s, acked
<1>6. data' \in Seq(Seq(Nat)) /\ Len(data') = Len(data)
  BY <1>1, <1>2, <1>4, FlushedIs
<1>7. stored' \in Seq(Seq(Nat)) /\ Len(stored') = Len(stored)
  <2>1. stored \in Seq(Seq(Nat)) /\ s.file \in 1..Len(stored)
    BY <1>1, <1>2 DEF Types
  <2>2. QED  BY <1>3, <1>4, <2>1, ExceptSeq
<1>8. QED  BY <1>4, <1>5, <1>6, <1>7, NothingOpen DEF Types

\* What is lost changes no type.
LEMMA LostTypes ==
  ASSUME Types, Opened, NEW t \in Client, LosePiece(t) \/ LoseLast(t)
  PROVE  Types'
<1>1. /\ Uploading(t) /\ stream[t] \in Stream /\ stream[t].file \in 1..Len(data)
      /\ data \in Seq(Seq(Nat)) /\ stored \in Seq(Seq(Nat)) /\ Len(stored) = Len(data)
      /\ stream \in [Client -> Stream]
  BY DEF Types, Opened, LosePiece, LoseLast, Uploading
<1>2. CASE LosePiece(t)
  <2> DEFINE none == <<>>
             s == [stream[t] EXCEPT !.buffer = none, !.pieces = @ + 1]
  <2>1. none \in Seq(Nat) /\ stream[t].pieces + 1 \in Nat
    BY <1>1, EmptySeq DEF Stream
  <2>2. stream' = [stream EXCEPT ![t] = s]
    BY <1>1, <1>2 DEF LosePiece
  <2>3. s \in Stream
    <3> HIDE DEF none
    <3>1. QED  BY <1>1, <2>1 DEF Stream
  <2> HIDE DEF s, none
  <2>4. stream' \in [Client -> Stream]
    BY <1>1, <2>2, <2>3
  <2>5. contested' \in [Client -> BOOLEAN]
    BY <1>2 DEF LosePiece, Types
  <2>6. UNCHANGED <<disk, phase, doing, name, left, file, got, requests, stored, want, disturbed,
                    chosen>>
    BY <1>2 DEF LosePiece
  <2>7. QED  BY <2>4, <2>5, <2>6 DEF Types, disk
<1>3. CASE LoseLast(t)
  <2>1. data' \in Seq(Seq(Nat)) /\ Len(data') = Len(data)
    BY <1>1, <1>3, PutIs DEF LoseLast
  <2>2. stored' \in Seq(Seq(Nat)) /\ Len(stored') = Len(stored)
    <3>1. stored' = [stored EXCEPT ![stream[t].file] = Unknown]
      BY <1>3 DEF LoseLast
    <3>2. QED  BY <1>1, <3>1, NothingOpen, ExceptSeq
  <2>3. disturbed' \in [Client -> BOOLEAN]
    BY <1>3 DEF LoseLast, Touch, Types
  <2>4. /\ stream' = [stream EXCEPT ![t] = NoStream] /\ doing' = [doing EXCEPT ![t] = "idle"]
        /\ UNCHANGED <<dir, active, phase, name, left, file, got, requests, contested, want,
                       chosen>>
    BY <1>3 DEF LoseLast
  <2>5. QED  BY <2>1, <2>2, <2>3, <2>4, NothingOpen DEF Types
<1>4. QED  BY <1>2, <1>3

LEMMA BlockTypes ==
  ASSUME Types, ToRead, NEW t \in Client, SendBlock(t)
  PROVE  Types'
<1>1. /\ UNCHANGED <<disk, phase, name, stream, left, file, requests, history>>
      /\ doing' \in [Client -> {"idle", "uploading", "reading", "selecting", "opening"}]
  BY DEF Types, SendBlock
<1>2. got' \in [Client -> Seq(Nat)]
  <2> DEFINE g == got[t]
             d == data[file[t]]
  <2>1. g \in Seq(Nat) /\ d \in Seq(Nat) /\ Len(g) \in Nat /\ Len(d) \in Nat
    <3>1. data \in Seq(Seq(Nat)) /\ file[t] \in 1..Len(data) /\ g \in Seq(Nat)
      BY DEF Types, ToRead, SendBlock
    <3>2. QED  BY <3>1, ElementOfSeq
  <2>2. CASE Len(g) < Len(d)
    <3>1. Len(g) + 1 \in 1..Len(d)
      BY <2>1, <2>2
    <3>2. d[Len(g) + 1] \in Nat
      BY <2>1, <3>1, ElementOfSeq
    <3>3. got' = [got EXCEPT ![t] = Append(g, d[Len(g) + 1])]
      BY <2>2 DEF SendBlock
    <3> HIDE DEF g, d
    <3>4. Append(g, d[Len(g) + 1]) \in Seq(Nat)
      BY <2>1, <3>2
    <3>5. QED  BY <3>3, <3>4 DEF Types
  <2>3. CASE ~(Len(g) < Len(d))
    BY <2>3 DEF SendBlock, Types
  <2>4. QED  BY <2>2, <2>3
<1>3. QED  BY <1>1, <1>2 DEF Types, disk, history

LEMMA FlushTypes ==
  ASSUME Types, Opened, FlushAtExit
  PROVE  Types'
<1>1. PICK s \in left : data' \in {data, Flushed(data, s)} /\ left' = left \ {s}
  BY DEF FlushAtExit
<1>2. s \in Stream /\ s.file \in 1..Len(data) /\ data \in Seq(Seq(Nat))
  BY DEF Types, Opened
<1>3. data' \in Seq(Seq(Nat)) /\ Len(data') = Len(data)
  BY <1>1, <1>2, FlushedIs
<1>4. QED  BY <1>1, <1>3 DEF Types, FlushAtExit, history

LEMMA ExitTypes ==
  ASSUME Types, exit, UNCHANGED <<dir, data, name, file, got, requests, chosen>>
  PROVE  Types'
<1>1. active' \in Name \cup {Empty, Mixed, NoSelection}
  <2>1. active' \in {active} \cup {name[t] : t \in Selecting} \cup {Mixed}
    BY DEF exit
  <2>2. \A t \in Selecting : name[t] \in Name \cup {Empty, Mixed, NoSelection}
    BY DEF Types, Selecting
  <2>3. QED  BY <2>1, <2>2 DEF Types
<1>2. left' \subseteq Stream
  BY DEF Types, exit
<1>3. stream' \in [Client -> Stream] /\ want' \in [Client -> Seq(Nat)]
  BY NothingOpen DEF Types, exit, StopThreads
<1>4. QED  BY <1>1, <1>2, <1>3 DEF Types, exit, StopThreads

LEMMA RequestTypes ==
  ASSUME Types, NEW t \in Client, NEW n \in Name,
         \/ sendMethodFile(t, n) \/ receiveDeleteMethodFile(t, n)
         \/ receiveSetCurrentMethodFile(t, n) \/ CannotCreate(t, n)
  PROVE  Types'
<1>1. CASE sendMethodFile(t, n)
  <2>1. got' \in [Client -> Seq(Nat)] /\ want' \in [Client -> Seq(Nat)]
    <3> DEFINE none == <<>>
    <3>1. none \in Seq(Nat) /\ Expected(n) \in Seq(Nat)
      BY ExpectedType, EmptySeq
    <3>2. got' = [got EXCEPT ![t] = none] /\ want' = [want EXCEPT ![t] = Expected(n)]
      BY <1>1 DEF sendMethodFile
    <3> HIDE DEF none
    <3>3. QED  BY <3>1, <3>2 DEF Types
  <2>2. file' \in [Client -> Nat]
    BY <1>1 DEF Types, sendMethodFile
  <2>3. requests' \in Nat /\ name' \in [Client -> Name \cup {Empty, Mixed, NoSelection}]
    BY <1>1 DEF Types, sendMethodFile, Begin
  <2>4. /\ doing' \in [Client -> {"idle", "uploading", "reading", "selecting", "opening"}]
        /\ disturbed' \in [Client -> BOOLEAN]
    BY <1>1 DEF Types, sendMethodFile
  <2>5. UNCHANGED <<disk, phase, stream, left, stored, contested, chosen>>
    BY <1>1 DEF sendMethodFile
  <2>6. QED  BY <2>1, <2>2, <2>3, <2>4, <2>5 DEF Types, disk
<1>2. CASE receiveDeleteMethodFile(t, n)
  <2>1. dir' \in [Name -> 0..Len(data)]
    BY <1>2 DEF Types, receiveDeleteMethodFile
  <2>2. requests' \in Nat /\ name' \in [Client -> Name \cup {Empty, Mixed, NoSelection}]
    BY <1>2 DEF Types, receiveDeleteMethodFile, Begin
  <2>3. disturbed' \in [Client -> BOOLEAN]
    BY <1>2 DEF Types, receiveDeleteMethodFile, Touch
  <2>4. UNCHANGED <<data, active, phase, doing, stream, left, file, got, stored, contested, want,
                    chosen>>
    BY <1>2 DEF receiveDeleteMethodFile
  <2>5. QED  BY <2>1, <2>2, <2>3, <2>4 DEF Types
<1>3. CASE receiveSetCurrentMethodFile(t, n)
  <2>1. requests' \in Nat /\ name' \in [Client -> Name \cup {Empty, Mixed, NoSelection}]
    BY <1>3 DEF Types, receiveSetCurrentMethodFile, Begin
  <2>2. /\ doing' \in [Client -> {"idle", "uploading", "reading", "selecting", "opening"}]
        /\ active' = Empty
    BY <1>3 DEF Types, receiveSetCurrentMethodFile
  <2>3. contested' \in [Client -> BOOLEAN]
    BY <1>3 DEF Types, receiveSetCurrentMethodFile
  <2>4. UNCHANGED <<dir, data, phase, stream, left, file, got, stored, want, disturbed>>
    BY <1>3 DEF receiveSetCurrentMethodFile
  <2>5. QED  BY <2>1, <2>2, <2>3, <2>4 DEF Types
<1>4. CASE CannotCreate(t, n)
  <2>1. requests' \in Nat /\ name' \in [Client -> Name \cup {Empty, Mixed, NoSelection}]
    BY <1>4 DEF Types, CannotCreate, Begin
  <2>2. UNCHANGED <<disk, phase, doing, stream, left, file, got, history>>
    BY <1>4 DEF CannotCreate
  <2>3. QED  BY <2>1, <2>2 DEF Types, disk, history
<1>5. QED  BY <1>1, <1>2, <1>3, <1>4

LEMMA OwnTypes ==
  ASSUME Types, NEW t \in Client,
         LoseConnection(t) \/ CloseSelection(t) \/ receiveExecuteMethod(t)
  PROVE  Types'
<1>1. CASE LoseConnection(t)
  BY <1>1, NothingOpen DEF Types, LoseConnection, disk, history
<1>2. CASE CloseSelection(t)
  <2>1. active' \in Name \cup {Empty, Mixed, NoSelection}
    BY <1>2 DEF Types, CloseSelection
  <2>2. QED  BY <1>2, <2>1 DEF Types, CloseSelection
<1>3. CASE receiveExecuteMethod(t)
  <2>1. want' \in [Client -> Seq(Nat)]
    <3> DEFINE w == IF chosen \notin Name THEN Unknown ELSE Expected(chosen)
    <3>1. w \in Seq(Nat)
      BY ExpectedType, NothingOpen
    <3>2. want' = [want EXCEPT ![t] = w]
      BY <1>3 DEF receiveExecuteMethod
    <3> HIDE DEF w
    <3>3. QED  BY <3>1, <3>2 DEF Types
  <2>2. requests' \in Nat /\ name' \in [Client -> Name \cup {Empty, Mixed, NoSelection}]
    BY <1>3 DEF Types, receiveExecuteMethod, Begin
  <2>3. /\ doing' \in [Client -> {"idle", "uploading", "reading", "selecting", "opening"}]
        /\ disturbed' \in [Client -> BOOLEAN] /\ got' \in [Client -> Seq(Nat)]
    BY <1>3, NothingOpen DEF Types, receiveExecuteMethod
  <2>4. UNCHANGED <<disk, phase, stream, left, file, stored, contested, chosen>>
    BY <1>3 DEF receiveExecuteMethod
  <2>5. QED  BY <2>1, <2>2, <2>3, <2>4 DEF Types, disk
<1>4. QED  BY <1>1, <1>2, <1>3

LEMMA ProcessTypes ==
  ASSUME Types, Crash \/ Restart
  PROVE  Types'
<1>1. CASE Crash
  BY <1>1, NothingOpen DEF Types, Crash, StopThreads, disk
<1>2. CASE Restart
  BY <1>2 DEF Types, Restart, disk, history
<1>3. QED  BY <1>1, <1>2

LEMMA OpenTypes ==
  ASSUME Types, ToRead, NEW t \in Client, OpenMethod(t)
  PROVE  Types'
<1>1. CASE name[t] = Empty
  BY <1>1, ExitTypes DEF OpenMethod
<1>2. CASE name[t] # Empty
  <2> DEFINE read == IF name[t] = Mixed \/ dir[name[t]] = 0 THEN <<>> ELSE data[dir[name[t]]]
  <2>1. /\ got' = [got EXCEPT ![t] = read] /\ doing' = [doing EXCEPT ![t] = "idle"]
        /\ UNCHANGED <<active, phase, stream, left, name, file, history, dir, data, requests>>
    BY <1>2 DEF OpenMethod
  <2>2. read \in Seq(Nat)
    <3>1. CASE name[t] = Mixed \/ dir[name[t]] = 0
      BY <3>1, EmptySeq
    <3>2. CASE ~(name[t] = Mixed \/ dir[name[t]] = 0) /\ name[t] \in Name
      <4>1. dir[name[t]] \in 1..Len(data) /\ data \in Seq(Seq(Nat))
        <5>1. dir[name[t]] \in 0..Len(data) /\ dir[name[t]] # 0 /\ data \in Seq(Seq(Nat))
          BY <3>2 DEF Types
        <5>2. QED  BY <5>1
      <4>2. data[dir[name[t]]] \in Seq(Nat)
        BY <4>1, ElementOfSeq
      <4>3. QED  BY <3>2, <4>2
    <3>3. name[t] \in Name \cup {Mixed}
      BY <1>2 DEF Types, ToRead, OpenMethod
    <3>4. QED  BY <3>1, <3>2, <3>3
  <2> HIDE DEF read
  <2>3. QED  BY <2>1, <2>2 DEF Types, history
<1>3. QED  BY <1>1, <1>2

LEMMA TypesStep ==
  ASSUME Types, FileInv, ToRead, [FNext]_fvars
  PROVE  Types'
<1>1. ASSUME NEW t \in Client, Request(t)
      PROVE  Types'
  BY <1>1, UploadTypes, RequestTypes, OwnTypes DEF Request
<1>2. ASSUME NEW t \in Client, Work(t)
      PROVE  Types'
  BY <1>2, PieceTypes, LastTypes, LostTypes, OwnTypes, BlockTypes, OpenTypes DEF Work, FileInv
<1>3. CASE ExitOnTerm \/ FlushAtExit \/ Crash \/ Restart
  BY <1>3, ExitTypes, FlushTypes, ProcessTypes DEF ExitOnTerm, FileInv
<1>4. CASE UNCHANGED fvars
  BY <1>4 DEF Types, fvars, disk, history
<1>5. QED  BY <1>1, <1>2, <1>3, <1>4 DEF FNext

-----------------------------------------------------------------------------
(* The files of uploads.                                                   *)

\* Steps that write no file: uploads may end, without an ack, and names go.
LEMMA FilesKept ==
  ASSUME Types, FileInv, UNCHANGED <<data, stored>>,
         \A u \in Client : Uploading(u)' =>
           /\ Uploading(u) /\ stream'[u] = stream[u]
           /\ name'[u] = name[u] /\ contested'[u] = contested[u],
         left' \subseteq
           left \cup {stream[u] : u \in {v \in Client : Uploading(v) /\ ~Uploading(v)'}},
         \A n \in Name : dir'[n] \in {0, dir[n]}
  PROVE  FileInv'
<1>1. \A s \in left' : \/ s \in left
                       \/ \E u \in Client : Uploading(u) /\ ~Uploading(u)' /\ s = stream[u]
  OBVIOUS
<1>2. Opened' /\ Pending'
  BY <1>1 DEF FileInv, Opened, Pending, Uploading
<1>3. OneName'
  <2>1. \A n \in Name, m \in Name : dir'[n] # 0 /\ dir'[n] = dir'[m] => n = m
    BY DEF FileInv, OneName
  <2>2. ASSUME NEW t \in Client, NEW n \in Name, Uploading(t)', dir'[n] = stream'[t].file
        PROVE  n = name'[t]
    <3>1. Uploading(t) /\ stream'[t] = stream[t] /\ name'[t] = name[t]
      BY <2>2
    <3>2. stream[t].file # 0
      BY <3>1 DEF FileInv, Opened
    <3>3. dir[n] = stream[t].file
      BY <2>2, <3>1, <3>2
    <3>4. QED  BY <3>1, <3>3 DEF FileInv, OneName
  <2>3. QED  BY <2>1, <2>2 DEF OneName, Uploading
<1>4. Shared'
  <2>1. ASSUME NEW t \in Client, NEW s \in left', Uploading(t)', stream'[t].file = s.file
        PROVE  contested'[t]
    <3>1. Uploading(t) /\ stream'[t] = stream[t] /\ contested'[t] = contested[t]
      BY <2>1
    <3>2. CASE s \in left
      BY <2>1, <3>1, <3>2 DEF FileInv, Shared
    <3>3. CASE \E u \in Client : Uploading(u) /\ ~Uploading(u)' /\ s = stream[u]
      BY <2>1, <3>1, <3>3 DEF FileInv, Shared
    <3>4. QED  BY <1>1, <3>2, <3>3
  <2>2. QED  BY <2>1 DEF FileInv, Shared, Uploading
<1>5. Progress'
  BY DEF FileInv, Progress, Uploading
<1>6. QED  BY <1>2, <1>3, <1>4, <1>5 DEF FileInv, Acked

LEMMA UploadFiles ==
  ASSUME Types, FileInv, NEW t \in Client, NEW n \in Name, receiveMethodFile(t, n)
  PROVE  FileInv'
<1> DEFINE f == IF dir[n] = 0 THEN Len(data) + 1 ELSE dir[n]
           none == <<>>
<1>1. /\ data \in Seq(Seq(Nat)) /\ stored \in Seq(Seq(Nat)) /\ Len(stored) = Len(data)
      /\ Len(data) \in Nat /\ dir \in [Name -> 0..Len(data)] /\ dir[n] \in 0..Len(data)
      /\ stream \in [Client -> Stream] /\ doing[t] = "idle"
  BY DEF Types, receiveMethodFile, Begin
<1>2. /\ Len(data') \in Nat /\ Len(data) <= Len(data') /\ f \in 1..Len(data') /\ Len(none) = 0
      /\ data'[f] = none /\ stored'[f] = Unknown
      /\ \A g \in 1..Len(data') : g # f =>
           g \in 1..Len(data) /\ data'[g] = data[g] /\ stored'[g] = stored[g]
  <2>1. none \in Seq(Nat) /\ Unknown \in Seq(Nat) /\ Len(none) = 0
    BY NothingOpen, EmptySeq
  <2>2. CASE dir[n] = 0
    <3>1. data' = Append(data, none) /\ stored' = Append(stored, Unknown) /\ f = Len(data) + 1
      BY <2>2 DEF receiveMethodFile
    <3> HIDE DEF none, f
    <3>2. /\ Len(data') = Len(data) + 1 /\ data'[f] = none
          /\ \A g \in 1..Len(data) : data'[g] = data[g]
      BY <1>1, <2>1, <3>1
    <3>3. stored'[f] = Unknown /\ \A g \in 1..Len(data) : stored'[g] = stored[g]
      BY <1>1, <2>1, <3>1
    <3>4. \A g \in 1..(Len(data) + 1) : g # Len(data) + 1 => g \in 1..Len(data)
      BY <1>1
    <3>5. Len(data') \in Nat /\ Len(data) <= Len(data') /\ f \in 1..Len(data')
      BY <1>1, <3>1, <3>2
    <3>6. \A g \in 1..Len(data') : g # f => g \in 1..Len(data)
      BY <3>1, <3>2, <3>4
    <3>7. QED  BY <2>1, <3>2, <3>3, <3>5, <3>6
  <2>3. CASE dir[n] # 0
    <3>1. data' = [data EXCEPT ![f] = none] /\ stored' = [stored EXCEPT ![f] = Unknown]
      BY <2>3 DEF receiveMethodFile
    <3>2. f \in 1..Len(data) /\ f \in 1..Len(stored)
      BY <1>1, <2>3
    <3> HIDE DEF none, f
    <3>3. /\ Len(data') = Len(data) /\ Len(stored') = Len(stored)
          /\ \A g \in 1..Len(data) : data'[g] = IF g = f THEN none ELSE data[g]
          /\ \A g \in 1..Len(stored) : stored'[g] = IF g = f THEN Unknown ELSE stored[g]
      BY <1>1, <2>1, <3>1, <3>2, ExceptSeq
    <3>4. QED  BY <1>1, <2>1, <3>2, <3>3
  <2>4. QED  BY <2>2, <2>3
<1>3. /\ stream' = [stream EXCEPT ![t] = [NoStream EXCEPT !.file = f, !.id = requests + 1]]
      /\ name' = [name EXCEPT ![t] = n] /\ doing' = [doing EXCEPT ![t] = "uploading"]
      /\ dir' = [dir EXCEPT ![n] = f] /\ left' = left
  BY DEF receiveMethodFile, Begin
<1>4. /\ contested'[t] = (OnFile(f) # {} \/ Writers(f) # {})
      /\ \A u \in Client \ {t} : contested'[u] = (contested[u] \/ u \in Writers(f))
  BY DEF receiveMethodFile
<1>5. /\ stream'[t].file = f /\ stream'[t].at = 0 /\ stream'[t].buffer = none
      /\ stream'[t].pieces = 0 /\ name'[t] = n /\ Uploading(t)' /\ ~Uploading(t)
  BY <1>1, <1>3 DEF NoStream, Uploading, Types
<1>6. \A u \in Client \ {t} : /\ stream'[u] = stream[u] /\ name'[u] = name[u]
                              /\ (Uploading(u)' <=> Uploading(u))
  BY <1>3 DEF Uploading, Types
<1>7. dir[n] = 0 => f = Len(data) + 1
  OBVIOUS
<1>8. dir[n] # 0 => f = dir[n]
  OBVIOUS
<1> HIDE DEF f, none
<1>9. Opened'
  <2>1. ASSUME NEW u \in Client, Uploading(u)'
        PROVE  name'[u] \in Name /\ stream'[u].file \in 1..Len(data')
    <3>1. CASE u = t
      BY <1>2, <1>5, <3>1
    <3>2. CASE u # t
      <4>1. name[u] \in Name /\ stream[u].file \in 1..Len(data)
        BY <1>6, <2>1, <3>2 DEF FileInv, Opened
      <4>2. QED  BY <1>1, <1>2, <1>6, <3>2, <4>1
    <3>3. QED  BY <3>1, <3>2
  <2>2. ASSUME NEW s \in left'
        PROVE  s.file \in 1..Len(data')
    <3>1. s.file \in 1..Len(data)
      BY <1>3 DEF FileInv, Opened
    <3>2. QED  BY <1>1, <1>2, <3>1
  <2>3. QED  BY <2>1, <2>2 DEF Opened, Uploading
<1>10. OneName'
  <2>1. \A m \in Name : m # n => dir'[m] = dir[m] /\ dir[m] # f
    <3>1. ASSUME NEW m \in Name, m # n
          PROVE  dir'[m] = dir[m] /\ dir[m] # f
      <4>1. dir[m] \in 0..Len(data)
        BY <1>1
      <4>2. dir[n] # 0 => dir[m] # dir[n]
        BY <3>1 DEF FileInv, OneName
      <4>3. QED  BY <1>1, <1>3, <1>7, <1>8, <3>1, <4>1, <4>2
    <3>2. QED  BY <3>1
  <2>2. dir'[n] = f
    BY <1>1, <1>3
  <2>3. ASSUME NEW u \in Client, NEW m \in Name, Uploading(u)', dir'[m] = stream'[u].file
        PROVE  m = name'[u]
    <3>1. CASE u = t
      BY <1>5, <2>1, <2>3, <3>1
    <3>2. CASE u # t /\ m # n
      BY <1>6, <2>1, <2>3, <3>2 DEF FileInv, OneName
    <3>3. CASE u # t /\ m = n
      <4>1. stream[u].file = f /\ Uploading(u) /\ stream[u].file \in 1..Len(data)
        BY <1>6, <2>2, <2>3, <3>3 DEF FileInv, Opened
      <4>2. dir[n] = f
        BY <1>1, <1>7, <1>8, <4>1
      <4>3. QED  BY <1>6, <3>3, <4>1, <4>2 DEF FileInv, OneName
    <3>4. QED  BY <3>1, <3>2, <3>3
  <2>4. \A m \in Name, k \in Name : dir'[m] # 0 /\ dir'[m] = dir'[k] => m = k
    BY <2>1, <2>2 DEF FileInv, OneName
  <2>5. \A u \in Client, m \in Name : doing'[u] = "uploading" /\ dir'[m] = stream'[u].file
                                        => m = name'[u]
    BY <2>3 DEF Uploading
  <2>6. QED  BY <2>4, <2>5 DEF OneName, Uploading
<1>11. Pending'
  <2>1. ASSUME NEW u \in Client, Uploading(u)'
        PROVE  stored'[stream'[u].file] = Unknown
    <3>1. CASE u = t \/ stream'[u].file = f
      BY <1>2, <1>5, <3>1
    <3>2. CASE u # t /\ stream'[u].file # f
      BY <1>2, <1>6, <1>9, <2>1, <3>2 DEF FileInv, Pending, Opened, Uploading
    <3>3. QED  BY <3>1, <3>2
  <2>2. ASSUME NEW s \in left'
        PROVE  stored'[s.file] = Unknown
    BY <1>2, <1>3, <1>9 DEF FileInv, Pending, Opened
  <2>3. QED  BY <2>1, <2>2 DEF Pending, Uploading
<1>12. Shared'
  <2>1. \A u \in Client : Uploading(u) /\ stream[u].file = f => u \in Writers(f)
    BY DEF Uploading, Writers
  <2>2. \A s \in left : s.file = f => s \in OnFile(f)
    BY DEF OnFile
  <2>3. ASSUME NEW u \in Client, NEW v \in Client, Uploading(u)', Uploading(v)', u # v,
               stream'[u].file = stream'[v].file
        PROVE  contested'[u]
    <3>1. CASE u = t
      BY <1>4, <1>5, <1>6, <2>1, <2>3, <3>1
    <3>2. CASE v = t
      BY <1>4, <1>5, <1>6, <2>1, <2>3, <3>2
    <3>3. CASE u # t /\ v # t
      BY <1>4, <1>6, <2>3, <3>3 DEF FileInv, Shared
    <3>4. QED  BY <3>1, <3>2, <3>3
  <2>4. ASSUME NEW u \in Client, NEW s \in left', Uploading(u)', stream'[u].file = s.file
        PROVE  contested'[u]
    <3>1. CASE u = t
      BY <1>3, <1>4, <1>5, <2>2, <2>4, <3>1
    <3>2. CASE u # t
      BY <1>3, <1>4, <1>6, <2>4, <3>2 DEF FileInv, Shared
    <3>3. QED  BY <3>1, <3>2
  <2>5. QED  BY <2>3, <2>4 DEF Shared, Uploading
<1>13. Progress'
  <2>1. ASSUME NEW u \in Client, Uploading(u)', ~contested'[u]
        PROVE  InFile(data'[stream'[u].file], stream'[u]) /\ InBuffer(stream'[u])
    <3>1. CASE u = t
      BY <1>2, <1>5, <3>1 DEF InFile, InBuffer
    <3>2. CASE u # t
      <4>1. Uploading(u) /\ ~contested[u] /\ stream'[u] = stream[u]
        BY <1>4, <1>6, <2>1, <3>2
      <4>2. stream[u].file # f
        BY <1>4, <2>1, <3>2, <4>1 DEF Uploading, Writers
      <4>3. stream[u].file \in 1..Len(data')
        BY <1>9, <2>1, <4>1 DEF Opened, Uploading
      <4>4. data'[stream[u].file] = data[stream[u].file]
        BY <1>2, <4>2, <4>3
      <4>5. QED  BY <4>1, <4>4 DEF FileInv, Progress
    <3>3. QED  BY <3>1, <3>2
  <2>2. QED  BY <2>1 DEF Progress, Uploading
<1>14. Acked'
  BY <1>2 DEF FileInv, Acked
<1>15. QED  BY <1>9, <1>10, <1>11, <1>12, <1>13, <1>14 DEF FileInv

\* Who writes a file writes no upload that is alone with its file, but its own.
LEMMA OthersFiles ==
  ASSUME Types, FileInv, NEW t \in Client, Uploading(t),
         \A f \in 1..Len(data) : f # stream[t].file => data'[f] = data[f]
  PROVE  \A u \in Client : u # t /\ Uploading(u) /\ ~contested[u]
                             => data'[stream[u].file] = data[stream[u].file]
<1> SUFFICES ASSUME NEW u \in Client, u # t, Uploading(u), ~contested[u]
             PROVE  data'[stream[u].file] = data[stream[u].file]
  OBVIOUS
<1>1. stream[u].file \in 1..Len(data)
  BY DEF FileInv, Opened
<1>2. stream[u].file # stream[t].file
  BY DEF FileInv, Shared
<1>3. QED  BY <1>1, <1>2

LEMMA PieceFiles ==
  ASSUME Types, FileInv, NEW t \in Client, ReceivePiece(t)
  PROVE  FileInv'
<1> DEFINE s == stream[t]
<1>1. /\ Uploading(t) /\ s \in Stream /\ s.file \in 1..Len(data) /\ data \in Seq(Seq(Nat))
      /\ stream \in [Client -> Stream] /\ stored[s.file] = Unknown
  BY DEF Types, FileInv, Opened, Pending, ReceivePiece, Uploading
<1>2. /\ data' = Put(data, s) /\ stream' = [stream EXCEPT ![t] = PutIn(s)]
      /\ UNCHANGED <<dir, doing, name, left, stored, contested>>
  BY DEF ReceivePiece
<1> HIDE DEF s
<1>3. /\ Len(data') = Len(data) /\ \A f \in 1..Len(data) : f # s.file => data'[f] = data[f]
      /\ PutIn(s).file = s.file
      /\ InFile(data[s.file], s) /\ InBuffer(s) =>
           InFile(data'[s.file], PutIn(s)) /\ InBuffer(PutIn(s))
  BY <1>1, <1>2, PutIs
<1>4. /\ stream'[t] = PutIn(s) /\ \A u \in Client \ {t} : stream'[u] = stream[u]
      /\ s = stream[t]
  BY <1>1, <1>2 DEF s
<1>5. \A u \in Client : stream'[u].file = stream[u].file
  BY <1>3, <1>4
<1>6. Opened'
  BY <1>2, <1>3, <1>5 DEF FileInv, Opened, Uploading
<1>7. OneName'
  BY <1>2, <1>5 DEF FileInv, OneName, Uploading
<1>8. Pending'
  BY <1>2, <1>5 DEF FileInv, Pending, Uploading
<1>9. Shared'
  BY <1>2, <1>5 DEF FileInv, Shared, Uploading
<1>10. Progress'
  <2>1. ASSUME NEW u \in Client, Uploading(u), ~contested[u]
        PROVE  InFile(data'[stream'[u].file], stream'[u]) /\ InBuffer(stream'[u])
    <3>1. CASE u = t
      BY <1>3, <1>4, <2>1, <3>1 DEF FileInv, Progress
    <3>2. CASE u # t
      <4>1. data'[stream[u].file] = data[stream[u].file]
        BY <1>1, <1>3, <1>4, <2>1, <3>2, OthersFiles
      <4>2. QED  BY <1>4, <2>1, <3>2, <4>1 DEF FileInv, Progress
    <3>3. QED  BY <3>1, <3>2
  <2>2. QED  BY <1>2, <2>1 DEF Progress, Uploading
<1>11. Acked'
  BY <1>1, <1>2, <1>3 DEF FileInv, Acked
<1>12. QED  BY <1>6, <1>7, <1>8, <1>9, <1>10, <1>11 DEF FileInv

LEMMA LastFiles ==
  ASSUME Types, FileInv, NEW t \in Client, ReceiveLast(t)
  PROVE  FileInv'
<1> DEFINE old == stream[t]
           d == Put(data, old)
           s == PutIn(old)
           acked == [k \in 1..s.pieces |-> s.id]
<1>1. /\ Uploading(t) /\ old \in Stream /\ old.file \in 1..Len(data) /\ data \in Seq(Seq(Nat))
      /\ stream \in [Client -> Stream] /\ stored \in Seq(Seq(Nat)) /\ Len(stored) = Len(data)
      /\ contested[t] \in BOOLEAN
  BY DEF Types, FileInv, Opened, ReceiveLast, Uploading
<1>2. /\ data' = Flushed(d, s)
      /\ stored' = [stored EXCEPT ![s.file] = IF contested[t] THEN Unknown ELSE acked]
      /\ stream' = [stream EXCEPT ![t] = NoStream] /\ doing' = [doing EXCEPT ![t] = "idle"]
      /\ UNCHANGED <<dir, name, left, contested>>
  BY DEF ReceiveLast
<1>3. /\ s \in Stream /\ s.file = old.file /\ d \in Seq(Seq(Nat)) /\ Len(d) = Len(data)
      /\ \A f \in 1..Len(data) : f # s.file => d[f] = data[f]
      /\ InFile(data[s.file], old) /\ InBuffer(old) => InFile(d[s.file], s) /\ InBuffer(s)
  BY <1>1, PutIs
<1>4. acked \in Seq(Nat) /\ (IF contested[t] THEN Unknown ELSE acked) \in Seq(Nat)
  BY <1>1, <1>3, AckedType
<1>5. Len(acked) = s.pieces /\ \A k \in 1..s.pieces : acked[k] = s.id
  <2>1. s.pieces \in Nat
    BY <1>3 DEF Stream
  <2>2. QED  BY <2>1
<1>6. old = stream[t]
  OBVIOUS
<1> HIDE DEF old, d, s, acked
<1>7. /\ Len(data') = Len(data) /\ data' \in Seq(Seq(Nat)) /\ s.file \in 1..Len(data)
      /\ \A f \in 1..Len(data) : f # s.file => data'[f] = data[f]
      /\ InFile(d[s.file], s) /\ InBuffer(s) =>
           /\ Len(data'[s.file]) = s.pieces
           /\ \A k \in 1..s.pieces : data'[s.file][k] = s.id
  <2>1. s.file \in 1..Len(d) /\ s \in Stream /\ d \in Seq(Seq(Nat))
    BY <1>1, <1>3
  <2>2. /\ Flushed(d, s) \in Seq(Seq(Nat)) /\ Len(Flushed(d, s)) = Len(d)
        /\ \A f \in 1..Len(d) : f # s.file => Flushed(d, s)[f] = d[f]
        /\ InFile(d[s.file], s) /\ InBuffer(s) =>
             /\ Len(Flushed(d, s)[s.file]) = s.pieces
             /\ \A k \in 1..s.pieces : Flushed(d, s)[s.file][k] = s.id
    BY <2>1, FlushedIs
  <2>3. QED  BY <1>2, <1>3, <2>1, <2>2
<1>8. /\ Len(stored') = Len(data)
      /\ \A f \in 1..Len(data) : stored'[f] =
           IF f = s.file THEN (IF contested[t] THEN Unknown ELSE acked) ELSE stored[f]
  BY <1>1, <1>2, <1>4, <1>7, ExceptSeq
<1>9. \A u \in Client : /\ Uploading(u)' <=> Uploading(u) /\ u # t
                        /\ u # t => stream'[u] = stream[u]
  BY <1>1, <1>2 DEF Uploading, Types
<1>10. Opened'
  BY <1>2, <1>7, <1>9 DEF FileInv, Opened, Uploading
<1>11. OneName'
  BY <1>2, <1>9 DEF FileInv, OneName, Uploading
<1>12. Pending'
  <2>1. ASSUME NEW u \in Client, u # t, Uploading(u)
        PROVE  stored'[stream[u].file] = Unknown
    <3>1. stream[u].file \in 1..Len(data) /\ stored[stream[u].file] = Unknown
      BY <2>1 DEF FileInv, Opened, Pending
    <3>2. stream[u].file = s.file => contested[t]
      BY <1>1, <1>3, <1>6, <2>1 DEF FileInv, Shared
    <3>3. QED  BY <1>8, <3>1, <3>2
  <2>2. ASSUME NEW r \in left
        PROVE  stored'[r.file] = Unknown
    <3>1. r.file \in 1..Len(data) /\ stored[r.file] = Unknown
      BY DEF FileInv, Opened, Pending
    <3>2. r.file = s.file => contested[t]
      BY <1>1, <1>3, <1>6 DEF FileInv, Shared
    <3>3. QED  BY <1>8, <3>1, <3>2
  <2>3. QED  BY <1>2, <1>9, <2>1, <2>2 DEF Pending
<1>13. Shared'
  BY <1>2, <1>9 DEF FileInv, Shared
<1>14. Progress'
  <2>1. ASSUME NEW u \in Client, u # t, Uploading(u), ~contested[u]
        PROVE  InFile(data'[stream[u].file], stream[u]) /\ InBuffer(stream[u])
    <3>1. data'[stream[u].file] = data[stream[u].file]
      BY <1>1, <1>3, <1>6, <1>7, <2>1, OthersFiles
    <3>2. QED  BY <2>1, <3>1 DEF FileInv, Progress
  <2>2. QED  BY <1>2, <1>9, <2>1 DEF Progress
<1>15. Acked'
  <2>1. ASSUME NEW f \in 1..Len(data), stored'[f] # Unknown
        PROVE  data'[f] = stored'[f]
    <3>1. CASE f # s.file
      BY <1>7, <1>8, <2>1, <3>1 DEF FileInv, Acked
    <3>2. CASE f = s.file
      <4>1. ~contested[t] /\ stored'[f] = acked
        BY <1>8, <2>1, <3>2
      <4>2. InFile(d[s.file], s) /\ InBuffer(s)
        BY <1>1, <1>3, <1>6, <4>1 DEF FileInv, Progress
      <4>3. /\ Len(data'[f]) = s.pieces /\ data'[f] \in Seq(Nat)
            /\ \A k \in 1..s.pieces : data'[f][k] = s.id
        BY <1>7, <3>2, <4>2, ElementOfSeq
      <4>4. \A k \in 1..Len(data'[f]) : data'[f][k] = acked[k]
        BY <1>5, <4>3
      <4>5. data'[f] = acked
        BY <1>4, <1>5, <4>3, <4>4, SeqEqual
      <4>6. QED  BY <4>1, <4>5
    <3>3. QED  BY <3>1, <3>2
  <2>2. QED  BY <1>7, <2>1 DEF Acked
<1>16. QED  BY <1>10, <1>11, <1>12, <1>13, <1>14, <1>15 DEF FileInv

\* Who lost a piece is not acked; its file is written by it, if at all.
LEMMA LostPieceFiles ==
  ASSUME Types, FileInv, NEW t \in Client, LosePiece(t)
  PROVE  FileInv'
<1>1. /\ UNCHANGED <<data, dir, doing, name, left, stored>> /\ stream \in [Client -> Stream]
      /\ contested' = [contested EXCEPT ![t] = TRUE] /\ contested \in [Client -> BOOLEAN]
  BY DEF Types, LosePiece, disk
<1>2. \A u \in Client : stream'[u].file = stream[u].file /\ (u # t => stream'[u] = stream[u])
  <2>1. stream' = [stream EXCEPT ![t].buffer = <<>>, ![t].pieces = @ + 1]
    BY DEF LosePiece
  <2>2. stream[t] \in Stream
    BY <1>1
  <2>3. QED  BY <1>1, <2>1, <2>2 DEF Stream
<1>3. contested'[t] /\ \A u \in Client : contested[u] => contested'[u]
  BY <1>1
<1>4. Opened' /\ Pending' /\ OneName'
  BY <1>1, <1>2 DEF FileInv, Opened, Pending, OneName, Uploading
<1>5. Shared'
  BY <1>1, <1>2, <1>3 DEF FileInv, Shared, Uploading
<1>6. Progress'
  <2>1. ASSUME NEW u \in Client, Uploading(u), ~contested'[u]
        PROVE  InFile(data[stream[u].file], stream[u]) /\ InBuffer(stream[u]) /\ u # t
    BY <1>3, <2>1 DEF FileInv, Progress
  <2>2. QED  BY <1>1, <1>2, <2>1 DEF Progress, Uploading
<1>7. QED  BY <1>1, <1>4, <1>5, <1>6 DEF FileInv, Acked

LEMMA LostLastFiles ==
  ASSUME Types, FileInv, NEW t \in Client, LoseLast(t)
  PROVE  FileInv'
<1> DEFINE old == stream[t]
<1>1. /\ Uploading(t) /\ old \in Stream /\ old.file \in 1..Len(data) /\ data \in Seq(Seq(Nat))
      /\ stream \in [Client -> Stream] /\ stored \in Seq(Seq(Nat)) /\ Len(stored) = Len(data)
  BY DEF Types, FileInv, Opened, LoseLast, Uploading
<1>2. /\ data' \in {data, Put(data, old)} /\ stored' = [stored EXCEPT ![old.file] = Unknown]
      /\ stream' = [stream EXCEPT ![t] = NoStream] /\ doing' = [doing EXCEPT ![t] = "idle"]
      /\ UNCHANGED <<dir, name, left, contested>>
  BY DEF LoseLast
<1>3. old = stream[t]
  OBVIOUS
<1> HIDE DEF old
<1>4. Len(data') = Len(data) /\ \A f \in 1..Len(data) : f # old.file => data'[f] = data[f]
  <2>1. Len(Put(data, old)) = Len(data)
        /\ \A f \in 1..Len(data) : f # old.file => Put(data, old)[f] = data[f]
    BY <1>1, PutIs
  <2>2. CASE data' = data
    BY <2>2
  <2>3. CASE data' = Put(data, old)
    BY <2>1, <2>3
  <2>4. QED  BY <1>2, <2>2, <2>3
<1>5. \A f \in 1..Len(data) : stored'[f] = IF f = old.file THEN Unknown ELSE stored[f]
  BY <1>1, <1>2, NothingOpen, ExceptSeq
<1>6. \A u \in Client : /\ Uploading(u)' <=> Uploading(u) /\ u # t
                        /\ u # t => stream'[u] = stream[u]
  BY <1>1, <1>2 DEF Uploading, Types
<1>7. Opened'
  BY <1>2, <1>4, <1>6 DEF FileInv, Opened, Uploading
<1>8. OneName'
  BY <1>2, <1>6 DEF FileInv, OneName, Uploading
<1>9. Pending'
  <2>1. ASSUME NEW u \in Client, u # t, Uploading(u)
        PROVE  stored'[stream[u].file] = Unknown
    BY <1>5, <2>1 DEF FileInv, Opened, Pending
  <2>2. \A r \in left : stored'[r.file] = Unknown
    BY <1>5 DEF FileInv, Opened, Pending
  <2>3. QED  BY <1>2, <1>6, <2>1, <2>2 DEF Pending
<1>10. Shared'
  BY <1>2, <1>6 DEF FileInv, Shared
<1>11. Progress'
  <2>1. ASSUME NEW u \in Client, u # t, Uploading(u), ~contested[u]
        PROVE  InFile(data'[stream[u].file], stream[u]) /\ InBuffer(stream[u])
    <3>1. data'[stream[u].file] = data[stream[u].file]
      BY <1>1, <1>3, <1>4, <2>1, OthersFiles
    <3>2. QED  BY <2>1, <3>1 DEF FileInv, Progress
  <2>2. QED  BY <1>2, <1>6, <2>1 DEF Progress
<1>12. Acked'
  BY <1>4, <1>5 DEF FileInv, Acked
<1>13. QED  BY <1>7, <1>8, <1>9, <1>10, <1>11, <1>12 DEF FileInv

LEMMA FlushFiles ==
  ASSUME Types, FileInv, Stopped, FlushAtExit
  PROVE  FileInv'
<1>1. PICK s \in left : data' \in {data, Flushed(data, s)} /\ left' = left \ {s}
  BY DEF FlushAtExit
<1>2. s \in Stream /\ s.file \in 1..Len(data) /\ data \in Seq(Seq(Nat)) /\ stored[s.file] = Unknown
  BY DEF Types, FileInv, Opened, Pending
<1>3. Len(data') = Len(data) /\ \A f \in 1..Len(data) : f # s.file => data'[f] = data[f]
  BY <1>1, <1>2, FlushedIs
<1>4. UNCHANGED <<dir, doing, name, stream, stored, contested>> /\ \A u \in Client : ~Uploading(u)
  BY DEF FlushAtExit, Stopped, Uploading, history
<1>5. Opened' /\ OneName' /\ Pending' /\ Shared' /\ Progress'
  BY <1>1, <1>3, <1>4 DEF FileInv, Opened, OneName, Pending, Shared, Progress, Uploading
<1>6. Acked'
  BY <1>2, <1>3, <1>4 DEF FileInv, Acked
<1>7. QED  BY <1>5, <1>6 DEF FileInv

LEMMA ExitFiles ==
  ASSUME Types, FileInv, exit, UNCHANGED <<dir, data, name, file, got, requests, chosen>>
  PROVE  FileInv'
<1>1. \A u \in Client : ~Uploading(u)'
  BY DEF exit, StopThreads, Uploading
<1>2. left' = left \cup {stream[u] : u \in {v \in Client : Uploading(v)}}
  BY DEF exit, Uploading
<1>3. UNCHANGED <<data, stored>> /\ \A n \in Name : dir'[n] \in {0, dir[n]}
  BY DEF exit, StopThreads
<1>4. left' \subseteq left \cup {stream[u] : u \in {v \in Client : Uploading(v) /\ ~Uploading(v)'}}
  BY <1>1, <1>2
<1>5. QED  BY <1>1, <1>3, <1>4, FilesKept

LEMMA FilesStep ==
  ASSUME Types, FileInv, Stopped, [FNext]_fvars
  PROVE  FileInv'
<1>1. ASSUME NEW t \in Client, Work(t)
      PROVE  FileInv'
  <2>1. CASE LoseConnection(t)
    <3>1. /\ Uploading(t) /\ ~Uploading(t)' /\ UNCHANGED <<data, stored, dir, name, contested>>
          /\ \A u \in Client \ {t} : stream'[u] = stream[u] /\ (Uploading(u)' <=> Uploading(u))
          /\ left' = left \cup {stream[t]}
      BY <2>1 DEF LoseConnection, Uploading, Types, disk, history
    <3>2. left' \subseteq
            left \cup {stream[u] : u \in {v \in Client : Uploading(v) /\ ~Uploading(v)'}}
      BY <3>1
    <3>3. QED  BY <3>1, <3>2, FilesKept
  <2>2. CASE SendBlock(t) \/ CloseSelection(t)
    <3>1. /\ UNCHANGED <<data, stored, dir, name, contested, stream, left>>
          /\ \A u \in Client : Uploading(u)' => Uploading(u)
      BY <2>2 DEF SendBlock, CloseSelection, Uploading, Types, disk, history
    <3>2. QED  BY <3>1, FilesKept
  <2>3. CASE OpenMethod(t)
    <3>1. CASE name[t] = Empty
      BY <2>3, <3>1, ExitFiles DEF OpenMethod
    <3>2. CASE name[t] # Empty
      <4>1. /\ UNCHANGED <<data, stored, dir, name, contested, stream, left>>
            /\ \A u \in Client : Uploading(u)' => Uploading(u)
        BY <2>3, <3>2 DEF OpenMethod, Uploading, Types, history
      <4>2. QED  BY <4>1, FilesKept
    <3>3. QED  BY <3>1, <3>2
  <2>4. QED  BY <1>1, <2>1, <2>2, <2>3, PieceFiles, LastFiles, LostPieceFiles, LostLastFiles
             DEF Work
<1>2. ASSUME NEW t \in Client, Request(t)
      PROVE  FileInv'
  <2>1. CASE \E n \in Name : receiveMethodFile(t, n)
    BY <2>1, UploadFiles
  <2>2. CASE \/ receiveExecuteMethod(t)
             \/ \E n \in Name : \/ sendMethodFile(t, n) \/ receiveDeleteMethodFile(t, n)
                                \/ CannotCreate(t, n)
    <3>1. /\ UNCHANGED <<data, stored, contested, stream, left>>
          /\ \A u \in Client : Uploading(u)' => Uploading(u) /\ name'[u] = name[u]
      BY <2>2 DEF receiveExecuteMethod, sendMethodFile, receiveDeleteMethodFile, CannotCreate,
                  Begin, Uploading, Types, disk, history
    <3>2. \A n \in Name : dir'[n] \in {0, dir[n]}
      BY <2>2 DEF receiveExecuteMethod, sendMethodFile, receiveDeleteMethodFile, CannotCreate,
                  Types, disk
    <3>3. QED  BY <3>1, <3>2, FilesKept
  <2>3. CASE \E n \in Name : receiveSetCurrentMethodFile(t, n)
    <3>1. UNCHANGED <<data, stored, dir, stream, left>>
      BY <2>3 DEF receiveSetCurrentMethodFile
    <3>2. ASSUME NEW u \in Client, Uploading(u)'
          PROVE  Uploading(u) /\ name'[u] = name[u] /\ contested'[u] = contested[u]
      <4>1. u # t /\ Uploading(u) /\ u \notin Selecting
        BY <2>3, <3>2 DEF receiveSetCurrentMethodFile, Begin, Uploading, Types, Selecting
      <4>2. contested'[u] = (contested[u] \/ u \in Selecting) /\ contested[u] \in BOOLEAN
        BY <2>3, <4>1 DEF receiveSetCurrentMethodFile, Types
      <4>3. name'[u] = name[u]
        BY <2>3, <4>1 DEF receiveSetCurrentMethodFile, Begin, Types
      <4>4. QED  BY <4>1, <4>2, <4>3
    <3>3. \A n \in Name : dir'[n] \in {0, dir[n]}
      BY <3>1
    <3>4. QED  BY <3>1, <3>2, <3>3, FilesKept
  <2>4. QED  BY <1>2, <2>1, <2>2, <2>3 DEF Request
<1>3. CASE ExitOnTerm \/ FlushAtExit
  BY <1>3, ExitFiles, FlushFiles DEF ExitOnTerm
<1>4. CASE Crash \/ Restart
  <2>1. /\ UNCHANGED <<data, stored, dir, name, contested>> /\ left' \subseteq left
        /\ \A u \in Client : Uploading(u)' => Uploading(u) /\ stream'[u] = stream[u]
    BY <1>4 DEF Crash, Restart, StopThreads, Uploading, disk, history
  <2>2. QED  BY <2>1, FilesKept
<1>5. CASE UNCHANGED fvars
  BY <1>5, FilesKept DEF fvars, disk, history, Uploading
<1>6. QED  BY <1>1, <1>2, <1>3, <1>4, <1>5 DEF FNext

-----------------------------------------------------------------------------
(* The selection.                                                          *)

LEMMA StoppedStep ==
  ASSUME Types, Stopped, [FNext]_fvars
  PROVE  Stopped'
<1>1. ASSUME NEW t \in Client, Request(t) \/ (Work(t) /\ ~(OpenMethod(t) /\ name[t] = Empty))
      PROVE  phase' = "up"
  BY <1>1
  DEF Request, Work, Begin, receiveExecuteMethod, receiveMethodFile, sendMethodFile,
      receiveDeleteMethodFile, receiveSetCurrentMethodFile, CannotCreate, ReceivePiece,
      ReceiveLast, LosePiece, LoseLast, LoseConnection, SendBlock, CloseSelection, OpenMethod
<1>2. ASSUME exit \/ Crash
      PROVE  Stopped'
  BY <1>2 DEF exit, Crash, StopThreads, Stopped
<1>3. ASSUME FlushAtExit \/ UNCHANGED fvars
      PROVE  Stopped'
  BY <1>3 DEF FlushAtExit, Stopped, fvars, history
<1>4. Restart => phase' = "up"
  BY DEF Restart
<1>5. \A t \in Client : OpenMethod(t) /\ name[t] = Empty => exit
  BY DEF OpenMethod
<1>6. ExitOnTerm => exit
  BY DEF ExitOnTerm
<1>7. phase' = "up" => Stopped'
  BY DEF Stopped
<1>8. QED  BY <1>1, <1>2, <1>3, <1>4, <1>5, <1>6, <1>7 DEF FNext

LEMMA ToReadStep ==
  ASSUME Types, FileInv, ToRead, [FNext]_fvars
  PROVE  ToRead'
<1>1. Len(data) <= Len(data') /\ Len(data) \in Nat /\ Len(data') \in Nat
  <2>1. Len(data) \in Nat
    BY DEF Types
  <2>2. CASE UNCHANGED data
    BY <2>1, <2>2
  <2>3. ASSUME NEW t \in Client, NEW n \in Name, receiveMethodFile(t, n)
        PROVE  Len(data) <= Len(data') /\ Len(data') \in Nat
    <3> DEFINE none == <<>>
    <3>1. none \in Seq(Nat) /\ data \in Seq(Seq(Nat)) /\ dir[n] \in 0..Len(data)
      BY EmptySeq DEF Types
    <3>2. data' = IF dir[n] = 0 THEN Append(data, none) ELSE [data EXCEPT ![dir[n]] = none]
      BY <2>3 DEF receiveMethodFile
    <3> HIDE DEF none
    <3>3. CASE dir[n] = 0
      BY <2>1, <3>1, <3>2, <3>3
    <3>4. CASE dir[n] # 0
      <4>1. dir[n] \in 1..Len(data) /\ data' = [data EXCEPT ![dir[n]] = none]
        BY <3>1, <3>2, <3>4
      <4>2. QED  BY <2>1, <3>1, <4>1, ExceptSeq
    <3>5. QED  BY <3>3, <3>4
  <2>4. ASSUME NEW t \in Client, ReceivePiece(t)
        PROVE  Len(data') = Len(data)
    <3>1. stream[t] \in Stream /\ stream[t].file \in 1..Len(data) /\ data \in Seq(Seq(Nat))
      BY <2>4 DEF Types, FileInv, Opened, ReceivePiece, Uploading
    <3>2. QED  BY <2>4, <3>1, PutIs DEF ReceivePiece
  <2>5. ASSUME NEW t \in Client, ReceiveLast(t)
        PROVE  Len(data') = Len(data)
    <3> DEFINE d == Put(data, stream[t])
               s == PutIn(stream[t])
    <3>1. stream[t] \in Stream /\ stream[t].file \in 1..Len(data) /\ data \in Seq(Seq(Nat))
      BY <2>5 DEF Types, FileInv, Opened, ReceiveLast, Uploading
    <3>2. d \in Seq(Seq(Nat)) /\ Len(d) = Len(data) /\ s \in Stream /\ s.file \in 1..Len(d)
      BY <3>1, PutIs
    <3>3. data' = Flushed(d, s)
      BY <2>5 DEF ReceiveLast
    <3> HIDE DEF d, s
    <3>4. QED  BY <3>2, <3>3, FlushedIs
  <2>6. ASSUME FlushAtExit
        PROVE  Len(data') = Len(data)
    <3>1. PICK s \in left : data' \in {data, Flushed(data, s)}
      BY <2>6 DEF FlushAtExit
    <3>2. s \in Stream /\ s.file \in 1..Len(data) /\ data \in Seq(Seq(Nat))
      BY DEF Types, FileInv, Opened
    <3>3. QED  BY <3>1, <3>2, FlushedIs
  <2>7. ASSUME NEW t \in Client, LoseLast(t)
        PROVE  Len(data') = Len(data)
    <3>1. stream[t] \in Stream /\ stream[t].file \in 1..Len(data) /\ data \in Seq(Seq(Nat))
      BY <2>7 DEF Types, FileInv, Opened, LoseLast, Uploading
    <3>2. QED  BY <2>7, <3>1, PutIs DEF LoseLast
  <2>8. ASSUME \/ ExitOnTerm \/ Crash \/ Restart \/ UNCHANGED fvars
               \/ \E t \in Client :
                    \/ LosePiece(t) \/ LoseConnection(t) \/ SendBlock(t) \/ CloseSelection(t)
                    \/ OpenMethod(t) \/ receiveExecuteMethod(t)
                    \/ \E n \in Name : \/ sendMethodFile(t, n) \/ receiveDeleteMethodFile(t, n)
                                       \/ receiveSetCurrentMethodFile(t, n) \/ CannotCreate(t, n)
        PROVE  UNCHANGED data
    BY <2>8
    DEF ExitOnTerm, Crash, Restart, fvars, disk, LosePiece, LoseConnection, SendBlock,
        CloseSelection, OpenMethod, receiveExecuteMethod, sendMethodFile, receiveDeleteMethodFile,
        receiveSetCurrentMethodFile, CannotCreate
  <2>9. QED
    BY <2>1, <2>2, <2>3, <2>4, <2>5, <2>6, <2>7, <2>8 DEF FNext, Request, Work
<1>2. ASSUME NEW t \in Client, doing'[t] = "reading"
      PROVE  \/ doing[t] = "reading" /\ file'[t] = file[t]
             \/ file'[t] \in 1..Len(data)
  <2>1. ASSUME NEW u \in Client, NEW n \in Name, sendMethodFile(u, n)
        PROVE  \/ doing[t] = "reading" /\ file'[t] = file[t]
               \/ file'[t] \in 1..Len(data)
    <3>1. CASE t # u
      BY <1>2, <2>1, <3>1 DEF sendMethodFile, Types
    <3>2. CASE t = u
      <4>1. file'[t] = dir[n] /\ dir[n] # 0 /\ dir[n] \in 0..Len(data)
        BY <1>2, <2>1, <3>2 DEF sendMethodFile, Types
      <4>2. QED  BY <1>1, <4>1
    <3>3. QED  BY <3>1, <3>2
  <2>2. ASSUME NEW u \in Client, Request(u), ~\E n \in Name : sendMethodFile(u, n)
        PROVE  doing[t] = "reading" /\ file'[t] = file[t]
    BY <1>2, <2>2
    DEF Request, receiveExecuteMethod, receiveMethodFile, receiveDeleteMethodFile,
        receiveSetCurrentMethodFile, CannotCreate, Types
  <2>3. ASSUME NEW u \in Client, Work(u)
        PROVE  doing[t] = "reading" /\ file'[t] = file[t]
    BY <1>2, <2>3
    DEF Work, ReceivePiece, LosePiece, ReceiveLast, LoseLast, LoseConnection, SendBlock,
        CloseSelection, OpenMethod, exit, StopThreads, Types
  <2>4. CASE ExitOnTerm \/ FlushAtExit \/ Crash \/ Restart \/ UNCHANGED fvars
    BY <1>2, <2>4 DEF ExitOnTerm, exit, StopThreads, FlushAtExit, Crash, Restart, fvars, Types
  <2>5. QED  BY <2>1, <2>2, <2>3, <2>4 DEF FNext
<1>3. ASSUME NEW t \in Client, doing'[t] = "opening"
      PROVE  name'[t] # NoSelection
  <2>1. ASSUME NEW u \in Client, receiveExecuteMethod(u)
        PROVE  name'[t] # NoSelection
    BY <1>3, <2>1 DEF receiveExecuteMethod, Begin, Types, ToRead
  <2>2. ASSUME NEW u \in Client, Request(u), ~receiveExecuteMethod(u)
        PROVE  doing[t] = "opening" /\ name'[t] = name[t]
    BY <1>3, <2>2
    DEF Request, Begin, sendMethodFile, receiveMethodFile, receiveDeleteMethodFile,
        receiveSetCurrentMethodFile, CannotCreate, Types
  <2>3. ASSUME NEW u \in Client, Work(u)
        PROVE  doing[t] = "opening" /\ name'[t] = name[t]
    BY <1>3, <2>3
    DEF Work, ReceivePiece, LosePiece, ReceiveLast, LoseLast, LoseConnection, SendBlock,
        CloseSelection, OpenMethod, exit, StopThreads, Types
  <2>4. CASE ExitOnTerm \/ FlushAtExit \/ Crash \/ Restart \/ UNCHANGED fvars
    BY <1>3, <2>4 DEF ExitOnTerm, exit, StopThreads, FlushAtExit, Crash, Restart, fvars, Types,
         ToRead
  <2>5. QED  BY <2>1, <2>2, <2>3, <2>4 DEF FNext, ToRead
<1>4. QED  BY <1>1, <1>2, <1>3 DEF ToRead

\* Steps that select nothing.
LEMMA SelectionKept ==
  ASSUME Types, SelectInv, UNCHANGED <<active, chosen>>, Selecting' \subseteq Selecting,
         \A u \in Selecting' : name'[u] = name[u] /\ (contested[u] => contested'[u])
  PROVE  SelectInv'
BY DEF SelectInv

LEMMA SelectBegin ==
  ASSUME Types, SelectInv, NEW t \in Client, NEW n \in Name, receiveSetCurrentMethodFile(t, n)
  PROVE  SelectInv'
<1>1. /\ active' = Empty /\ chosen' = Empty /\ doing[t] = "idle"
      /\ doing' = [doing EXCEPT ![t] = "selecting"] /\ name' = [name EXCEPT ![t] = n]
      /\ contested'[t] = (Selecting # {})
      /\ \A u \in Client \ {t} : contested'[u] = (contested[u] \/ u \in Selecting)
  BY DEF receiveSetCurrentMethodFile, Begin
<1>2. Selecting' = Selecting \cup {t} /\ t \notin Selecting /\ Selecting \subseteq Client
  BY <1>1 DEF Selecting, Types
<1>3. \A u \in Selecting : name'[u] = name[u] /\ contested'[u]
  BY <1>1, <1>2 DEF Types
<1>4. name'[t] = n
  BY <1>1 DEF Types
<1>5. QED  BY <1>1, <1>2, <1>3, <1>4 DEF SelectInv

LEMMA SelectEnd ==
  ASSUME Types, SelectInv, NEW t \in Client, CloseSelection(t)
  PROVE  SelectInv'
<1>1. t \in Selecting /\ Selecting' = Selecting \ {t} /\ UNCHANGED <<name, contested>>
  BY DEF CloseSelection, Selecting, Types
<1>2. CASE ~contested[t]
  <2>1. Selecting' = {}
    BY <1>1, <1>2 DEF SelectInv
  <2>2. active = Empty /\ chosen' = name[t] /\ active' = name[t]
    BY <1>1, <1>2 DEF SelectInv, CloseSelection
  <2>3. QED  BY <2>1, <2>2 DEF SelectInv
<1>3. CASE contested[t]
  <2>1. chosen' = Empty
    BY <1>3 DEF CloseSelection
  <2>2. ASSUME NEW u \in Selecting'
        PROVE  contested[u] /\ name[u] \in Name
    BY <1>1 DEF SelectInv
  <2>3. QED  BY <1>1, <2>1, <2>2 DEF SelectInv
<1>4. QED  BY <1>2, <1>3

LEMMA SelectExit ==
  ASSUME Types, SelectInv, exit, UNCHANGED chosen
  PROVE  SelectInv'
<1>1. Selecting' = {}
  BY DEF exit, StopThreads, Selecting
<1>2. ASSUME chosen # Empty
      PROVE  active' = active
  <2>1. Selecting = {}
    BY <1>2 DEF SelectInv
  <2>2. Cardinality(Selecting) = 0
    BY <2>1, FS_EmptySet
  <2>3. ~(Cardinality(Selecting) > 1)
    BY <2>2
  <2>4. QED  BY <2>1, <2>3 DEF exit
<1>3. QED  BY <1>1, <1>2 DEF SelectInv

LEMMA SelectStep ==
  ASSUME Types, SelectInv, [FNext]_fvars
  PROVE  SelectInv'
<1>1. ASSUME NEW t \in Client, NEW n \in Name,
             sendMethodFile(t, n) \/ receiveDeleteMethodFile(t, n) \/ CannotCreate(t, n)
      PROVE  SelectInv'
  <2>1. /\ UNCHANGED <<active, chosen, contested>> /\ Selecting' \subseteq Selecting
        /\ \A u \in Selecting' : name'[u] = name[u]
    BY <1>1 DEF sendMethodFile, receiveDeleteMethodFile, CannotCreate, Begin, disk, history,
                Selecting, Types
  <2>2. QED  BY <2>1, SelectionKept
<1>2. ASSUME NEW t \in Client, NEW n \in Name, receiveMethodFile(t, n)
      PROVE  SelectInv'
  <2>1. UNCHANGED <<active, chosen>> /\ Selecting' \subseteq Selecting
    BY <1>2 DEF receiveMethodFile, Begin, Selecting, Types
  <2>2. ASSUME NEW u \in Selecting'
        PROVE  name'[u] = name[u] /\ (contested[u] => contested'[u])
    <3>1. u # t /\ u \in Client
      BY <1>2 DEF receiveMethodFile, Begin, Selecting, Types
    <3>2. QED  BY <1>2, <3>1 DEF receiveMethodFile, Begin, Types
  <2>3. QED  BY <2>1, <2>2, SelectionKept
<1>3. ASSUME NEW t \in Client,
             \/ ReceivePiece(t) \/ LosePiece(t) \/ ReceiveLast(t) \/ LoseLast(t)
             \/ LoseConnection(t) \/ SendBlock(t)
             \/ OpenMethod(t) /\ name[t] # Empty
      PROVE  SelectInv'
  <2>1. UNCHANGED <<active, chosen, name>> /\ Selecting' \subseteq Selecting
    BY <1>3 DEF ReceivePiece, LosePiece, ReceiveLast, LoseLast, LoseConnection, SendBlock,
                OpenMethod, disk, history, Selecting, Types
  <2>2. \A u \in Client : contested[u] => contested'[u]
    BY <1>3 DEF ReceivePiece, LosePiece, ReceiveLast, LoseLast, LoseConnection, SendBlock,
                OpenMethod, history, Types
  <2>3. \A u \in Selecting' : u \in Client
    BY DEF Selecting
  <2>4. QED  BY <2>1, <2>2, <2>3, SelectionKept
<1>4. ASSUME FlushAtExit \/ Crash \/ Restart \/ UNCHANGED fvars
      PROVE  SelectInv'
  <2>1. UNCHANGED <<active, chosen, contested, name>> /\ Selecting' \subseteq Selecting
    BY <1>4 DEF FlushAtExit, Crash, Restart, StopThreads, fvars, disk, history, Selecting, Types
  <2>2. QED  BY <2>1, SelectionKept
<1>5. ASSUME NEW t \in Client, OpenMethod(t), name[t] = Empty
      PROVE  SelectInv'
  BY <1>5, SelectExit DEF OpenMethod
<1>6. ExitOnTerm => SelectInv'
  BY SelectExit DEF ExitOnTerm
<1>7. ASSUME NEW t \in Client, receiveExecuteMethod(t)
      PROVE  SelectInv'
  <2>1. /\ UNCHANGED <<active, chosen, contested>> /\ Selecting' \subseteq Selecting
        /\ \A u \in Selecting' : name'[u] = name[u]
    BY <1>7 DEF receiveExecuteMethod, Begin, disk, Selecting, Types
  <2>2. QED  BY <2>1, SelectionKept
<1>8. QED
  BY <1>1, <1>2, <1>3, <1>4, <1>5, <1>6, <1>7, SelectBegin, SelectEnd DEF FNext, Request, Work

-----------------------------------------------------------------------------
(* The readers.                                                            *)

\* A step leaves a reader as it is, if it leaves what it reads, or disturbs it.
LEMMA ReaderKept ==
  ASSUME Types, NEW u \in Client, Reader(u),
         doing'[u] = doing[u] \/ {doing[u], doing'[u]} \cap {"reading", "opening"} = {},
         name'[u] = name[u] \/ doing'[u] \notin {"reading", "opening"},
         file'[u] = file[u], got'[u] = got[u], want'[u] = want[u],
         disturbed[u] => disturbed'[u],
         phase' = "up" => phase = "up",
         Undisturbed(u)' /\ doing[u] = "reading" =>
           /\ dir'[name[u]] = dir[name[u]]
           /\ stored'[file[u]] = stored[file[u]] /\ data'[file[u]] = data[file[u]],
         Undisturbed(u)' /\ doing[u] = "opening" => Expected(name[u])' = Expected(name[u])
  PROVE  Reader(u)'
<1> SUFFICES ASSUME Undisturbed(u)'  PROVE Reader(u)'
  BY DEF Reader
<1>1. Undisturbed(u)
  BY DEF Undisturbed
<1>2. CASE doing'[u] = "reading"
  <2>1. doing[u] = "reading" /\ name'[u] = name[u] /\ ReadsOn(u)
    BY <1>1, <1>2 DEF Reader
  <2>2. ReadsOn(u)'
    BY <2>1 DEF ReadsOn
  <2>3. QED  BY <1>2, <2>2 DEF Reader
<1>3. CASE doing'[u] = "opening"
  <2>1. /\ doing[u] = "opening" /\ name'[u] = name[u] /\ name[u] \in Name
        /\ want[u] = Expected(name[u])
    BY <1>1, <1>3 DEF Reader
  <2>2. want'[u] = Expected(name[u])'
    BY <2>1
  <2>3. QED  BY <1>3, <2>1, <2>2 DEF Reader
<1>4. CASE doing'[u] \notin {"reading", "opening"}
  BY <1>1, <1>4 DEF Reader
<1>5. QED  BY <1>2, <1>3, <1>4

\* A file has one reader's name, or none: what else is written is not what it reads.
LEMMA OtherReaders ==
  ASSUME Types, FileInv, ReadInv, NEW t \in Client, NEW n \in Name, NEW f,
         Touch(t, n), UNCHANGED <<phase, file, want>>,
         \A m \in Name : m # n => dir'[m] = dir[m] /\ dir[m] # f,
         \A g \in 1..Len(data) : g # f => data'[g] = data[g] /\ stored'[g] = stored[g],
         NEW u \in Client, u # t, doing'[u] = doing[u], name'[u] = name[u], got'[u] = got[u]
  PROVE  Reader(u)'
<1>1. /\ Reader(u)
      /\ disturbed'[u] = (disturbed[u] \/ (doing[u] \in {"reading", "opening"} /\ name[u] = n))
  BY DEF ReadInv, Touch
<1>2. ASSUME Undisturbed(u)', doing[u] \in {"reading", "opening"}
      PROVE  /\ name[u] \in Name /\ name[u] # n /\ dir'[name[u]] = dir[name[u]]
             /\ dir[name[u]] # f /\ dir[name[u]] \in 0..Len(data)
  <2>1. Undisturbed(u) /\ name[u] # n
    BY <1>1, <1>2 DEF Undisturbed
  <2>2. name[u] \in Name
    BY <1>1, <1>2, <2>1 DEF Reader, ReadsOn
  <2>3. QED  BY <2>1, <2>2 DEF Types
<1>3. ASSUME Undisturbed(u)', doing[u] = "reading"
      PROVE  stored'[file[u]] = stored[file[u]] /\ data'[file[u]] = data[file[u]]
  <2>1. Undisturbed(u)
    BY <1>1, <1>3 DEF Undisturbed
  <2>2. file[u] = dir[name[u]] /\ dir[name[u]] # 0
    BY <1>1, <1>3, <2>1 DEF Reader, ReadsOn
  <2>3. file[u] \in 1..Len(data) /\ file[u] # f
    BY <1>2, <1>3, <2>2
  <2>4. QED  BY <2>3
<1>4. ASSUME Undisturbed(u)', doing[u] = "opening"
      PROVE  Expected(name[u])' = Expected(name[u])
  <2>1. dir'[name[u]] = dir[name[u]] /\ dir[name[u]] # f /\ dir[name[u]] \in 0..Len(data)
    BY <1>2, <1>4
  <2>2. dir[name[u]] # 0 => stored'[dir[name[u]]] = stored[dir[name[u]]]
    BY <2>1
  <2>3. QED  BY <2>1, <2>2 DEF Expected
<1>5. QED  BY <1>1, <1>2, <1>3, <1>4, ReaderKept

\* Who uploads reads nothing; what it read before was right.
LEMMA UploadReads ==
  ASSUME Types, FileInv, ReadInv, NEW t \in Client, NEW n \in Name, receiveMethodFile(t, n)
  PROVE  ReadInv'
<1> DEFINE f == IF dir[n] = 0 THEN Len(data) + 1 ELSE dir[n]
<1>1. /\ Touch(t, n) /\ UNCHANGED <<phase, file, want, got>> /\ doing[t] = "idle"
      /\ dir' = [dir EXCEPT ![n] = f] /\ dir \in [Name -> 0..Len(data)] /\ Len(data) \in Nat
      /\ doing' = [doing EXCEPT ![t] = "uploading"] /\ name' = [name EXCEPT ![t] = n]
  BY DEF receiveMethodFile, Begin, Types
<1>2. ASSUME NEW m \in Name, m # n
      PROVE  dir'[m] = dir[m] /\ dir[m] # f
  <2>1. dir[m] \in 0..Len(data)
    BY <1>1
  <2>2. dir[n] # 0 => dir[m] # dir[n]
    BY <1>2 DEF FileInv, OneName
  <2>3. QED  BY <1>1, <1>2, <2>1, <2>2
<1>3. ASSUME NEW g \in 1..Len(data), g # f
      PROVE  data'[g] = data[g] /\ stored'[g] = stored[g]
  <2> DEFINE none == <<>>
  <2>1. /\ none \in Seq(Nat) /\ Unknown \in Seq(Nat) /\ dir[n] \in 0..Len(data)
        /\ data \in Seq(Seq(Nat)) /\ stored \in Seq(Seq(Nat)) /\ Len(stored) = Len(data)
    BY EmptySeq, NothingOpen DEF Types
  <2>2. CASE dir[n] = 0
    <3>1. data' = Append(data, none) /\ stored' = Append(stored, Unknown)
      BY <2>2 DEF receiveMethodFile
    <3> HIDE DEF none, f
    <3>2. data'[g] = data[g]
      BY <1>1, <2>1, <3>1
    <3>3. stored'[g] = stored[g]
      BY <1>1, <2>1, <3>1
    <3>4. QED  BY <3>2, <3>3
  <2>3. CASE dir[n] # 0
    <3>1. data' = [data EXCEPT ![f] = none] /\ stored' = [stored EXCEPT ![f] = Unknown]
      BY <2>3 DEF receiveMethodFile
    <3>2. f \in 1..Len(data) /\ f \in 1..Len(stored)
      BY <1>1, <2>1, <2>3
    <3> HIDE DEF none, f
    <3>3. QED  BY <1>3, <2>1, <3>1, <3>2, ExceptSeq
  <2>4. QED  BY <2>2, <2>3
<1> HIDE DEF f
<1>4. ASSUME NEW u \in Client, u # t
      PROVE  Reader(u)'
  <2>1. doing'[u] = doing[u] /\ name'[u] = name[u] /\ got'[u] = got[u]
    BY <1>1, <1>4 DEF Types
  <2>2. Touch(t, n) /\ UNCHANGED <<phase, file, want>>
    BY <1>1
  <2>3. QED  BY <1>2, <1>3, <1>4, <2>1, <2>2, OtherReaders
<1>5. Reader(t)'
  <2>1. doing'[t] = "uploading" /\ disturbed'[t] = disturbed[t]
    BY <1>1 DEF Types, Touch
  <2>2. QED  BY <1>1, <2>1, ReaderKept DEF ReadInv
<1>6. QED  BY <1>4, <1>5 DEF ReadInv

LEMMA WriteReads ==
  ASSUME Types, FileInv, ReadInv, NEW t \in Client,
         ReceivePiece(t) \/ ReceiveLast(t) \/ LoseLast(t)
  PROVE  ReadInv'
<1> DEFINE f == stream[t].file
<1>1. /\ Uploading(t) /\ name[t] \in Name /\ f \in 1..Len(data) /\ stream[t] \in Stream
      /\ data \in Seq(Seq(Nat)) /\ Touch(t, name[t])
      /\ UNCHANGED <<phase, file, want, got, name, dir>>
      /\ doing'[t] \in {"uploading", "idle"} /\ \A u \in Client \ {t} : doing'[u] = doing[u]
  BY DEF ReceivePiece, ReceiveLast, LoseLast, Uploading, Types, FileInv, Opened
<1>2. \A m \in Name : m # name[t] => dir'[m] = dir[m] /\ dir[m] # f
  BY <1>1 DEF FileInv, OneName
<1>3. ASSUME NEW g \in 1..Len(data), g # f
      PROVE  data'[g] = data[g] /\ stored'[g] = stored[g]
  <2> DEFINE d == Put(data, stream[t])
             s == PutIn(stream[t])
  <2>1. /\ d \in Seq(Seq(Nat)) /\ Len(d) = Len(data) /\ d[g] = data[g]
        /\ s \in Stream /\ s.file = f
    BY <1>1, <1>3, PutIs
  <2>2. CASE ReceivePiece(t)
    BY <2>1, <2>2 DEF ReceivePiece
  <2>3. CASE ReceiveLast(t)
    <3> DEFINE acked == IF contested[t] THEN Unknown ELSE [k \in 1..s.pieces |-> s.id]
    <3>1. data' = Flushed(d, s) /\ stored' = [stored EXCEPT ![s.file] = acked]
      BY <2>3 DEF ReceiveLast
    <3>2. stored'[g] = stored[g]
      <4> HIDE DEF acked, s
      <4>1. g \in DOMAIN stored
        BY DEF Types
      <4>2. QED  BY <1>3, <2>1, <3>1, <4>1
    <3>3. data'[g] = d[g]
      <4> HIDE DEF d, s, f
      <4>1. s.file \in 1..Len(d) /\ g \in 1..Len(d)
        BY <1>1, <2>1
      <4>2. QED  BY <1>3, <2>1, <3>1, <4>1, FlushedIs
    <3>4. QED  BY <2>1, <3>2, <3>3
  <2>4. CASE LoseLast(t)
    <3>1. data' \in {data, d} /\ stored' = [stored EXCEPT ![f] = Unknown]
      BY <2>4 DEF LoseLast
    <3>2. g \in DOMAIN stored
      BY DEF Types
    <3>3. QED  BY <1>3, <2>1, <3>1, <3>2
  <2>5. QED  BY <2>2, <2>3, <2>4
<1> HIDE DEF f
<1>4. ASSUME NEW u \in Client, u # t
      PROVE  Reader(u)'
  <2>1. doing'[u] = doing[u] /\ name'[u] = name[u] /\ got'[u] = got[u]
    BY <1>1, <1>4
  <2>2. QED  BY <1>1, <1>2, <1>3, <1>4, <2>1, OtherReaders
<1>5. Reader(t)'
  <2>1. disturbed'[t] = disturbed[t] /\ doing[t] = "uploading"
    BY <1>1 DEF Types, Touch, Uploading
  <2>2. QED  BY <1>1, <2>1, ReaderKept DEF ReadInv
<1>6. QED  BY <1>4, <1>5 DEF ReadInv

LEMMA DeleteReads ==
  ASSUME Types, FileInv, ReadInv, NEW t \in Client, NEW n \in Name, receiveDeleteMethodFile(t, n)
  PROVE  ReadInv'
<1>1. /\ Touch(t, n) /\ doing[t] = "idle"
      /\ UNCHANGED <<phase, file, want, got, doing, data, stored>>
      /\ \A m \in Name : m # n => dir'[m] = dir[m]
      /\ \A u \in Client \ {t} : name'[u] = name[u]
  BY DEF receiveDeleteMethodFile, Begin, Types
<1>2. ASSUME NEW u \in Client, u # t
      PROVE  Reader(u)'
  <2>1. \A m \in Name : m # n => dir'[m] = dir[m] /\ dir[m] # Len(data) + 1
    BY <1>1 DEF Types
  <2>2. \A g \in 1..Len(data) : g # Len(data) + 1 => data'[g] = data[g] /\ stored'[g] = stored[g]
    BY <1>1
  <2>3. doing'[u] = doing[u] /\ name'[u] = name[u] /\ got'[u] = got[u]
    BY <1>1, <1>2
  <2>4. QED  BY <1>1, <1>2, <2>1, <2>2, <2>3, OtherReaders
<1>3. Reader(t)'
  <2>1. disturbed'[t] = disturbed[t]
    BY <1>1 DEF Types, Touch
  <2>2. QED  BY <1>1, <2>1, ReaderKept DEF ReadInv
<1>4. QED  BY <1>2, <1>3 DEF ReadInv

\* Steps that change no file.
LEMMA ReadersKept ==
  ASSUME Types, ReadInv, UNCHANGED <<dir, data, stored>>, phase' = "up" => phase = "up",
         NEW u \in Client,
         doing'[u] = doing[u] \/ {doing[u], doing'[u]} \cap {"reading", "opening"} = {},
         name'[u] = name[u] \/ doing'[u] \notin {"reading", "opening"},
         file'[u] = file[u], got'[u] = got[u], want'[u] = want[u], disturbed'[u] = disturbed[u]
  PROVE  Reader(u)'
<1>1. doing[u] = "opening" => Expected(name[u])' = Expected(name[u])
  BY DEF Expected
<1>2. Reader(u) /\ (disturbed[u] => disturbed'[u])
  BY DEF ReadInv
<1>3. /\ dir'[name[u]] = dir[name[u]]
      /\ stored'[file[u]] = stored[file[u]] /\ data'[file[u]] = data[file[u]]
  OBVIOUS
<1>4. QED  BY <1>1, <1>2, <1>3, ReaderKept

\* Another thread's step that changes no file.
LEMMA OthersKept ==
  ASSUME Types, ReadInv, UNCHANGED <<dir, data, stored>>, phase' = "up" => phase = "up",
         NEW t \in Client,
         \A u \in Client \ {t} :
           /\ doing'[u] = doing[u] /\ name'[u] = name[u] /\ file'[u] = file[u]
           /\ got'[u] = got[u] /\ want'[u] = want[u] /\ disturbed'[u] = disturbed[u],
         Reader(t)'
  PROVE  ReadInv'
<1>1. ASSUME NEW u \in Client, u # t
      PROVE  Reader(u)'
  <2>1. /\ doing'[u] = doing[u] /\ name'[u] = name[u] /\ file'[u] = file[u]
        /\ got'[u] = got[u] /\ want'[u] = want[u] /\ disturbed'[u] = disturbed[u]
    BY <1>1
  <2>2. QED  BY <2>1, ReadersKept
<1>2. QED  BY <1>1 DEF ReadInv

LEMMA SendReads ==
  ASSUME Types, FileInv, ReadInv, NEW t \in Client, NEW n \in Name, sendMethodFile(t, n)
  PROVE  ReadInv'
<1> DEFINE none == <<>>
<1>1. /\ UNCHANGED <<dir, data, stored, phase>>
      /\ name' = [name EXCEPT ![t] = n] /\ file' = [file EXCEPT ![t] = dir[n]]
      /\ got' = [got EXCEPT ![t] = none] /\ want' = [want EXCEPT ![t] = Expected(n)]
      /\ disturbed' = [disturbed EXCEPT ![t] = FALSE]
      /\ doing' = [doing EXCEPT ![t] = IF dir[n] = 0 THEN "idle" ELSE "reading"]
  BY DEF sendMethodFile, Begin, disk
<1>2. /\ name'[t] = n /\ file'[t] = dir[n] /\ got'[t] = none /\ want'[t] = Expected(n)
      /\ doing'[t] = IF dir[n] = 0 THEN "idle" ELSE "reading"
  BY <1>1 DEF Types
<1>3. \A u \in Client \ {t} :
        /\ doing'[u] = doing[u] /\ name'[u] = name[u] /\ file'[u] = file[u]
        /\ got'[u] = got[u] /\ want'[u] = want[u] /\ disturbed'[u] = disturbed[u]
  BY <1>1 DEF Types
<1>4. Reader(t)'
  <2>1. CASE dir[n] = 0
    <3>1. Expected(n) = none
      BY <2>1 DEF Expected
    <3> HIDE DEF none
    <3>2. QED  BY <1>2, <2>1, <3>1 DEF Reader
  <2>2. CASE dir[n] # 0
    <3>1. dir[n] \in 1..Len(data) /\ data[dir[n]] \in Seq(Nat) /\ Len(none) = 0
      <4>1. dir[n] \in 1..Len(data) /\ data \in Seq(Seq(Nat))
        <5>1. dir[n] \in 0..Len(data) /\ data \in Seq(Seq(Nat))
          BY DEF Types
        <5>2. QED  BY <2>2, <5>1
      <4>2. QED  BY <4>1, ElementOfSeq, EmptySeq
    <3>2. Expected(n) = stored[dir[n]]
      BY <2>2 DEF Expected
    <3>3. Len(data[dir[n]]) \in Nat
      BY <3>1
    <3> HIDE DEF none
    <3>4. /\ n \in Name /\ file'[t] = dir'[name'[t]] /\ dir'[name'[t]] # 0
          /\ want'[t] = stored'[file'[t]] /\ Len(got'[t]) = 0
          /\ Len(got'[t]) <= Len(data'[file'[t]])
      BY <1>1, <1>2, <2>2, <3>1, <3>2, <3>3
    <3>5. ReadsOn(t)'
      BY <1>2, <3>4 DEF ReadsOn
    <3>6. QED  BY <1>2, <2>2, <3>5 DEF Reader
  <2>3. QED  BY <2>1, <2>2
<1>5. QED  BY <1>1, <1>3, <1>4, OthersKept

LEMMA BlockReads ==
  ASSUME Types, FileInv, ToRead, ReadInv, NEW t \in Client, SendBlock(t)
  PROVE  ReadInv'
<1> DEFINE g == got[t]
           d == data[file[t]]
<1>1. /\ UNCHANGED <<dir, data, stored, phase, name, file, want, disturbed>> /\ doing[t] = "reading"
      /\ g \in Seq(Nat) /\ d \in Seq(Nat) /\ Len(g) \in Nat /\ Len(d) \in Nat
      /\ file[t] \in 1..Len(data)
  <2>1. file[t] \in 1..Len(data) /\ data \in Seq(Seq(Nat)) /\ g \in Seq(Nat)
    BY DEF Types, ToRead, SendBlock
  <2>2. d \in Seq(Nat)
    BY <2>1, ElementOfSeq
  <2>3. QED  BY <2>1, <2>2 DEF SendBlock, disk, history
<1>2. \A u \in Client \ {t} :
        /\ doing'[u] = doing[u] /\ name'[u] = name[u] /\ file'[u] = file[u]
        /\ got'[u] = got[u] /\ want'[u] = want[u] /\ disturbed'[u] = disturbed[u]
  BY <1>1 DEF SendBlock, Types
<1>3. Reader(t)'
  <2> SUFFICES ASSUME Undisturbed(t)'  PROVE Reader(t)'
    BY DEF Reader
  <2>1. Undisturbed(t) /\ ReadsOn(t)
    BY <1>1 DEF Undisturbed, ReadInv, Reader
  <2>2. Len(g) <= Len(d) /\ \A k \in 1..Len(g) : g[k] = d[k]
    BY <2>1 DEF ReadsOn
  <2>3. CASE Len(g) < Len(d)
    <3>1. got' = [got EXCEPT ![t] = Append(g, d[Len(g) + 1])] /\ doing' = doing
      BY <2>3 DEF SendBlock
    <3>2. got'[t] = Append(g, d[Len(g) + 1])
      BY <3>1 DEF Types
    <3>3. Len(got'[t]) = Len(g) + 1 /\ \A k \in 1..Len(g) + 1 : got'[t][k] = d[k]
      <4> DEFINE x == d[Len(g) + 1]
      <4>1. Len(g) + 1 \in 1..Len(d)
        BY <1>1, <2>3
      <4>2. x \in Nat
        BY <1>1, <4>1, ElementOfSeq
      <4>3. d[Len(g) + 1] = x
        OBVIOUS
      <4> HIDE DEF x, g, d
      <4>4. Len(Append(g, x)) = Len(g) + 1
        BY <1>1, <4>2
      <4>5. \A k \in 1..Len(g) + 1 : Append(g, x)[k] = IF k <= Len(g) THEN g[k] ELSE x
        BY <1>1, <4>2
      <4>6. ASSUME NEW k \in 1..Len(g) + 1
            PROVE  Append(g, x)[k] = d[k]
        <5>1. CASE k <= Len(g)
          <6>1. k \in 1..Len(g)
            BY <1>1, <5>1
          <6>2. QED  BY <2>2, <4>5, <5>1, <6>1
        <5>2. CASE ~(k <= Len(g))
          <6>1. k = Len(g) + 1
            BY <1>1, <5>2
          <6>2. QED  BY <4>3, <4>5, <5>2, <6>1
        <5>3. QED  BY <5>1, <5>2
      <4>7. QED  BY <3>2, <4>3, <4>4, <4>6
    <3>4. Len(got'[t]) <= Len(data'[file'[t]])
      BY <1>1, <2>3, <3>3
    <3>5. ReadsOn(t)'
      BY <1>1, <2>1, <3>3, <3>4 DEF ReadsOn
    <3>6. QED  BY <1>1, <3>1, <3>5 DEF Reader
  <2>4. CASE ~(Len(g) < Len(d))
    <3>1. got' = got /\ doing'[t] = "idle"
      BY <2>4 DEF SendBlock, Types
    <3>2. g = d
      <4> HIDE DEF g, d
      <4>1. Len(g) = Len(d)
        BY <1>1, <2>2, <2>4
      <4>2. QED  BY <1>1, <2>2, <4>1, SeqEqual
    <3>3. stored[file[t]] # Unknown
      BY <2>1 DEF Undisturbed, ReadsOn
    <3>4. d = stored[file[t]]
      BY <1>1, <3>3 DEF FileInv, Acked
    <3>5. got'[t] = want'[t]
      BY <1>1, <2>1, <3>1, <3>2, <3>4 DEF ReadsOn
    <3>6. QED  BY <3>1, <3>5 DEF Reader
  <2>5. QED  BY <2>3, <2>4
<1>4. QED  BY <1>1, <1>2, <1>3, OthersKept

LEMMA ExecuteReads ==
  ASSUME Types, SelectInv, ReadInv, NEW t \in Client, receiveExecuteMethod(t)
  PROVE  ReadInv'
<1>1. /\ UNCHANGED <<dir, data, stored, phase, file>> /\ name'[t] = active
      /\ want'[t] = (IF chosen \notin Name THEN Unknown ELSE Expected(chosen))
      /\ doing'[t] = (IF active = NoSelection THEN "idle" ELSE "opening")
  BY DEF receiveExecuteMethod, Begin, disk, Types
<1>2. \A u \in Client \ {t} :
        /\ doing'[u] = doing[u] /\ name'[u] = name[u] /\ file'[u] = file[u]
        /\ got'[u] = got[u] /\ want'[u] = want[u] /\ disturbed'[u] = disturbed[u]
  BY DEF receiveExecuteMethod, Begin, Types
<1>3. Reader(t)'
  <2> SUFFICES ASSUME Undisturbed(t)'  PROVE Reader(t)'
    BY DEF Reader
  <2>1. chosen \in Name /\ want'[t] = Expected(chosen)
    BY <1>1 DEF Undisturbed
  <2>2. active = chosen /\ active # NoSelection
    BY <2>1, NamesDiffer DEF SelectInv
  <2>3. doing'[t] = "opening" /\ name'[t] \in Name
    BY <1>1, <2>1, <2>2
  <2>4. Expected(name[t])' = Expected(chosen)
    BY <1>1, <2>2 DEF Expected
  <2>5. QED  BY <2>1, <2>3, <2>4 DEF Reader
<1>4. QED  BY <1>1, <1>2, <1>3, OthersKept

LEMMA OpenReads ==
  ASSUME Types, FileInv, ReadInv, NEW t \in Client, OpenMethod(t), name[t] # Empty
  PROVE  ReadInv'
<1> DEFINE read == IF name[t] = Mixed \/ dir[name[t]] = 0 THEN <<>> ELSE data[dir[name[t]]]
<1>1. /\ UNCHANGED <<dir, data, stored, phase, name, file, want, disturbed>> /\ doing[t] = "opening"
      /\ got' = [got EXCEPT ![t] = read] /\ doing' = [doing EXCEPT ![t] = "idle"]
  BY DEF OpenMethod, history
<1>2. \A u \in Client \ {t} :
        /\ doing'[u] = doing[u] /\ name'[u] = name[u] /\ file'[u] = file[u]
        /\ got'[u] = got[u] /\ want'[u] = want[u] /\ disturbed'[u] = disturbed[u]
  BY <1>1 DEF Types
<1>3. Reader(t)'
  <2> SUFFICES ASSUME Undisturbed(t)'  PROVE Reader(t)'
    BY DEF Reader
  <2>1. Undisturbed(t) /\ name[t] \in Name /\ want[t] = Expected(name[t])
    BY <1>1 DEF Undisturbed, ReadInv, Reader
  <2>2. read = want[t]
    <3>1. CASE dir[name[t]] = 0
      BY <2>1, <3>1 DEF Expected
    <3>2. CASE dir[name[t]] # 0
      <4>1. dir[name[t]] \in 1..Len(data)
        <5>1. dir[name[t]] \in 0..Len(data)
          BY <2>1 DEF Types
        <5>2. QED  BY <3>2, <5>1
      <4>2. want[t] = stored[dir[name[t]]] /\ want[t] # Unknown
        BY <2>1, <3>2 DEF Expected, Undisturbed
      <4>3. data[dir[name[t]]] = want[t]
        BY <4>1, <4>2 DEF FileInv, Acked
      <4>4. name[t] # Mixed
        BY <2>1, NamesDiffer
      <4>5. QED  BY <3>2, <4>3, <4>4
    <3>3. QED  BY <3>1, <3>2
  <2> HIDE DEF read
  <2>3. got'[t] = read /\ doing'[t] = "idle"
    BY <1>1 DEF Types
  <2>4. QED  BY <1>1, <2>2, <2>3 DEF Reader
<1>4. QED  BY <1>1, <1>2, <1>3, OthersKept

LEMMA ReadStep ==
  ASSUME Inv, [FNext]_fvars
  PROVE  ReadInv'
<1> USE DEF Inv
<1>1. ASSUME NEW t \in Client,
             \/ LosePiece(t) \/ LoseConnection(t) \/ CloseSelection(t)
             \/ \E n \in Name : receiveSetCurrentMethodFile(t, n) \/ CannotCreate(t, n)
      PROVE  ReadInv'
  <2>1. /\ UNCHANGED <<dir, data, stored, phase, file, want, got, disturbed>>
        /\ {doing[t], doing'[t]} \cap {"reading", "opening"} = {}
        /\ \A u \in Client \ {t} : doing'[u] = doing[u] /\ name'[u] = name[u]
    BY <1>1 DEF LosePiece, LoseConnection, CloseSelection, receiveSetCurrentMethodFile,
                CannotCreate, Begin, disk, history, Types
  <2>2. Reader(t)'
    BY <2>1, ReadersKept
  <2>3. QED  BY <2>1, <2>2, OthersKept
<1>2. ASSUME exit \/ Crash
      PROVE  ReadInv'
  BY <1>2 DEF exit, Crash, StopThreads, ReadInv, Reader, Undisturbed
<1>3. ASSUME FlushAtExit \/ Restart
      PROVE  ReadInv'
  <2>1. \A t \in Client : want'[t] = Unknown
    BY <1>3 DEF FlushAtExit, Restart, Stopped, history
  <2>2. QED  BY <2>1 DEF ReadInv, Reader, Undisturbed
<1>4. ASSUME UNCHANGED fvars
      PROVE  ReadInv'
  BY <1>4, ReadersKept DEF fvars, disk, history, ReadInv
<1>5. ASSUME NEW t \in Client, Request(t)
      PROVE  ReadInv'
  BY <1>1, <1>5, UploadReads, SendReads, DeleteReads, ExecuteReads DEF Request
<1>6. ASSUME NEW t \in Client, OpenMethod(t)
      PROVE  ReadInv'
  BY <1>2, <1>6, OpenReads DEF OpenMethod
<1>7. ASSUME NEW t \in Client, Work(t)
      PROVE  ReadInv'
  BY <1>1, <1>6, <1>7, WriteReads, BlockReads DEF Work
<1>8. ExitOnTerm => exit
  BY DEF ExitOnTerm
<1>9. QED  BY <1>2, <1>3, <1>4, <1>5, <1>7, <1>8 DEF FNext

-----------------------------------------------------------------------------
(* The theorems.                                                           *)

LEMMA InvStep == Inv /\ [FNext]_fvars => Inv'
BY TypesStep, FilesStep, StoppedStep, ToReadStep, SelectStep, ReadStep DEF Inv

\* The state has its types: what is on disk, open, read and expected.
THEOREM Typing == FSpec => []FTypeOK
<1>1. Inv => FTypeOK
  BY DEF Inv, Types, FileInv, Opened, FTypeOK
<1>2. QED  BY <1>1, InvInit, InvStep, PTL DEF FSpec

\* An upload that was acked to its end stays on disk as it was sent, and the method
\* that was selected stays selected, over exits, crashes and restarts; unless the disk
\* was full, or two streams were open on the file, also one whose connection was lost.
THEOREM UploadsAreStored == FSpec => []StoredWhole
<1>1. Inv => StoredWhole
  BY DEF Inv, FileInv, Acked, SelectInv, StoredWhole
<1>2. QED  BY <1>1, InvInit, InvStep, PTL DEF FSpec

\* A client gets, and the server executes, the last such upload of the file it asked
\* for, unless the file changed meanwhile.
THEOREM ReadsAreStored == FSpec => []ReadsStored
<1>1. Inv => ReadsStored
  BY DEF Inv, ReadInv, Reader, Undisturbed, ReadsStored
<1>2. QED  BY <1>1, InvInit, InvStep, PTL DEF FSpec

-----------------------------------------------------------------------------
(* The graph of the method that is executed (MethodNodes).                   *)

\* Only w executes and terminates methods, of whatever statements.
GraphAssumption(w) ==
  /\ w \in Thread /\ Executor \cup Terminator \subseteq {w}
  /\ Method \subseteq Seq(Stmt) /\ Wrap \in Nat \ {0}

GraphTypes(w) ==
  /\ nodes \in Seq(Node) /\ stack \in Seq(Nat) /\ haveStack \in BOOLEAN
  /\ pc \in [Thread -> PC] /\ node \in [Thread -> Nat]
  /\ text \in [Thread -> Seq(Stmt)] /\ line \in [Thread -> Nat] /\ runs \in Nat
  /\ \A t \in Thread \ {w} : pc[t] = "idle"

Pointers(w) ==
  /\ \A d \in 1..Len(nodes) : nodes[d].next \in 0..Len(nodes) /\ nodes[d].branch \in 0..Len(nodes)
  /\ head \in 0..Len(nodes) /\ current \in 0..Len(nodes) /\ node[w] \in 0..Len(nodes)
  /\ freed \subseteq 1..Len(nodes)
  /\ \A i \in 1..Len(stack) : stack[i] \in 1..Len(nodes)

\* d was allocated after every node that was freed.
Younger(d) == \A f \in freed : f < d

\* Before there is a stack the graph is a list, and what is linked later is younger.
ListOnly ==
  ~haveStack => /\ stack = <<>>
                /\ \A d \in 1..Len(nodes) : /\ nodes[d].closed /\ nodes[d].branch = 0
                                            /\ nodes[d].next = 0 \/ d < nodes[d].next

\* No pointer leads back from what is in use.
Links ==
  \A d \in 1..Len(nodes) : Younger(d) => /\ nodes[d].next = 0 \/ Younger(nodes[d].next)
                                         /\ nodes[d].branch = 0 \/ Younger(nodes[d].branch)

\* While the list is freed its head is not reset yet.
Freeing(w) == pc[w] \in {"lock", "free", "stop"} \/ (pc[w] = "reset" /\ ~haveStack)

Roots(w) ==
  /\ pc[w] \in {"lock", "free", "stop"} => ~haveStack
  /\ head # 0 \/ haveStack => current # 0
  /\ ~Freeing(w) => /\ head = 0 \/ Younger(head)
                    /\ head # 0 \/ haveStack => Younger(current)
  /\ \A i \in 1..Len(stack) : Younger(stack[i])
  /\ pc[w] \in {"lock", "free", "evaluate", "command", "poll"} => node[w] = 0 \/ Younger(node[w])
  /\ pc[w] = "command" => node[w] # 0

GraphInv(w) == GraphTypes(w) /\ Pointers(w) /\ ListOnly /\ Links /\ Roots(w)

LEMMA GraphBegins ==
  ASSUME NEW w, GraphAssumption(w), Init
  PROVE  GraphInv(w)
<1>1. /\ nodes = <<>> /\ freed = {} /\ head = 0 /\ current = 0 /\ stack = <<>> /\ haveStack = FALSE
      /\ pc = [t \in Thread |-> "idle"] /\ text = [t \in Thread |-> <<>>]
      /\ line = [t \in Thread |-> 0] /\ node = [t \in Thread |-> 0] /\ runs = 0 /\ w \in Thread
  BY DEF Init, NULL, GraphAssumption
<1>2. Len(nodes) = 0 /\ Len(stack) = 0
  BY <1>1
<1>3. nodes \in Seq(Node) /\ stack \in Seq(Nat) /\ text \in [Thread -> Seq(Stmt)]
  <2>1. \A S : <<>> \in Seq(S)
    BY EmptySeq
  <2>2. QED  BY <1>1, <2>1
<1>4. GraphTypes(w)
  BY <1>1, <1>3 DEF GraphTypes, PC
<1>5. Pointers(w) /\ Links
  BY <1>1, <1>2 DEF Pointers, Links
<1>6. ListOnly /\ Roots(w)
  BY <1>1, <1>2 DEF ListOnly, Roots, Freeing, Younger
<1>7. QED  BY <1>4, <1>5, <1>6 DEF GraphInv

\* The links of the nodes and what leads to them stay.
SameGraph ==
  /\ Len(nodes') = Len(nodes)
  /\ \A d \in 1..Len(nodes) : /\ nodes'[d].next = nodes[d].next
                              /\ nodes'[d].branch = nodes[d].branch
                              /\ nodes'[d].closed = nodes[d].closed
  /\ UNCHANGED <<freed, head, current, stack, haveStack>>

LEMMA GraphStays ==
  ASSUME NEW w, GraphInv(w), GraphTypes(w)', SameGraph,
         node'[w] \in 0..Len(nodes),
         Freeing(w) => Freeing(w)',
         pc'[w] \in {"lock", "free", "stop"} => ~haveStack,
         pc'[w] \in {"lock", "free", "evaluate", "command", "poll"} =>
           node'[w] = 0 \/ Younger(node'[w]),
         pc'[w] = "command" => node'[w] # 0
  PROVE  GraphInv(w)'
<1>1. Len(stack') = Len(stack) /\ \A d : Younger(d)' <=> Younger(d)
  BY DEF SameGraph, Younger
<1>2. Pointers(w)'
  BY DEF GraphInv, Pointers, SameGraph
<1>3. ListOnly'
  BY DEF GraphInv, ListOnly, SameGraph
<1>4. Links'
  BY <1>1 DEF GraphInv, Links, SameGraph
<1>5. Roots(w)'
  BY <1>1 DEF GraphInv, Roots, SameGraph, Younger
<1>6. QED  BY <1>2, <1>3, <1>4, <1>5 DEF GraphInv

\* A thread that executes nothing does nothing.
LEMMA OnlyOneActs ==
  ASSUME NEW w, GraphAssumption(w), GraphInv(w), NEW t \in Thread,
         Execute(t) \/ Terminate(t) \/ Run(t)
  PROVE  t = w
<1>1. CASE Execute(t) \/ Terminate(t)
  BY <1>1 DEF GraphAssumption, Execute, Terminate
<1>2. CASE Run(t)
  <2>1. pc[t] # "idle"
    BY <1>2 DEF Run, ReadHead, LockNodes, FreeNode, UnlockNodes,
         StopTraversing, ResetHead, Parse, AddCommandNode,
         AddControlNode, CloseControlNode, ParseEnd, AtStatement,
         Fetch, CallCommand, ReturnCommand, VisitControl, Poll,
         EndOfList, Finish
  <2>2. QED  BY <2>1 DEF GraphInv, GraphTypes
<1>3. QED  BY <1>1, <1>2

\* Where the threads are, and their locals.
LEMMA GraphGoes ==
  ASSUME NEW w, GraphAssumption(w), GraphTypes(w), NEW l \in PC, Goto(w, l)
  PROVE  /\ pc'[w] = l /\ pc' \in [Thread -> PC]
         /\ \A t \in Thread \ {w} : pc'[t] = "idle"
BY DEF GraphAssumption, GraphTypes, Goto

\* The steps that read the list or walk the graph.
LEMMA GraphWalks ==
  ASSUME NEW w, GraphAssumption(w), GraphInv(w),
         \/ ReadHead(w) \/ LockNodes(w) \/ UnlockNodes(w)
         \/ StopTraversing(w) \/ ParseEnd(w) \/ Fetch(w) \/ CallCommand(w)
         \/ ReturnCommand(w) \/ Poll(w) \/ EndOfList(w)
  PROVE  GraphInv(w)'
<1>. UNCHANGED <<nodes, freed, head, current, stack, haveStack>>
  BY DEF ReadHead, LockNodes, UnlockNodes, StopTraversing, ParseEnd,
         Fetch, CallCommand, ReturnCommand, Poll, EndOfList,
         list
<1>0. /\ w \in Thread /\ GraphTypes(w) /\ SameGraph /\ node \in [Thread -> Nat]
      /\ node[w] \in 0..Len(nodes) /\ head \in 0..Len(nodes) /\ haveStack \in BOOLEAN
  BY DEF GraphAssumption, GraphInv, GraphTypes, Pointers, SameGraph
<1>1. ASSUME NEW l \in PC, Goto(w, l), UNCHANGED <<text, line, runs>>,
             node' \in [Thread -> Nat]
      PROVE  GraphTypes(w)' /\ pc'[w] = l
  <2>1. /\ pc'[w] = l /\ pc' \in [Thread -> PC]
        /\ \A t \in Thread \ {w} : pc'[t] = "idle"
    BY <1>0, <1>1, GraphGoes
  <2>2. QED  BY <1>0, <1>1, <2>1 DEF GraphTypes
<1>2. CASE ReadHead(w)
  <2>1. CASE haveStack
    <3>1. Goto(w, "reset") /\ UNCHANGED <<node, text, line, runs>> /\ pc[w] = "clear"
      BY <1>2, <2>1 DEF ReadHead
    <3>2. GraphTypes(w)' /\ pc'[w] = "reset"
      BY <1>0, <1>1, <3>1 DEF PC
    <3>3. QED  BY <1>0, <3>1, <3>2, GraphStays DEF Freeing
  <2>2. CASE ~haveStack
    <3>1. /\ Goto(w, "lock") /\ UNCHANGED <<text, line, runs>> /\ pc[w] = "clear"
          /\ node' = [node EXCEPT ![w] = head]
      BY <1>2, <2>2 DEF ReadHead
    <3>2. node' \in [Thread -> Nat] /\ node'[w] = head
      BY <1>0, <3>1
    <3>3. GraphTypes(w)' /\ pc'[w] = "lock"
      BY <1>0, <1>1, <3>1, <3>2 DEF PC
    <3>4. head = 0 \/ Younger(head)
      BY <3>1 DEF GraphInv, Roots, Freeing
    <3>5. QED  BY <1>0, <2>2, <3>1, <3>2, <3>3, <3>4, GraphStays DEF Freeing
  <2>3. QED  BY <2>1, <2>2
<1>3. CASE LockNodes(w)
  <2>1. Goto(w, "free") /\ UNCHANGED <<node, text, line, runs>> /\ pc[w] = "lock"
    BY <1>3 DEF LockNodes
  <2>2. GraphTypes(w)' /\ pc'[w] = "free"
    BY <1>0, <1>1, <2>1 DEF PC
  <2>3. ~haveStack /\ (node[w] = 0 \/ Younger(node[w]))
    BY <2>1 DEF GraphInv, Roots
  <2>4. QED  BY <1>0, <2>1, <2>2, <2>3, GraphStays DEF Freeing
<1>4. CASE UnlockNodes(w) \/ StopTraversing(w)
  <2>1. PICK l \in {"stop", "reset"} :
          /\ Goto(w, l) /\ UNCHANGED <<node, text, line, runs>>
          /\ pc[w] \in {"free", "stop"}
    BY <1>4 DEF UnlockNodes, StopTraversing
  <2>2. GraphTypes(w)' /\ pc'[w] = l
    BY <1>0, <1>1, <2>1 DEF PC
  <2>3. ~haveStack /\ haveStack' = haveStack
    BY <1>0, <2>1 DEF GraphInv, Roots, SameGraph
  <2>4. QED  BY <1>0, <2>1, <2>2, <2>3, GraphStays DEF Freeing
<1>5. CASE ParseEnd(w) \/ EndOfList(w)
  <2>1. PICK l \in {"fetch", "finish"} :
          /\ Goto(w, l) /\ UNCHANGED <<node, text, line, runs>>
          /\ pc[w] \in {"parse", "evaluate"}
    BY <1>5 DEF ParseEnd, EndOfList
  <2>2. GraphTypes(w)' /\ pc'[w] = l
    BY <1>0, <1>1, <2>1 DEF PC
  <2>3. QED  BY <1>0, <2>1, <2>2, GraphStays DEF Freeing
<1>6. CASE Fetch(w)
  <2>1. /\ Goto(w, "evaluate") /\ UNCHANGED <<text, line, runs>> /\ pc[w] = "fetch"
        /\ node' = [node EXCEPT ![w] = head]
    BY <1>6 DEF Fetch
  <2>2. node' \in [Thread -> Nat] /\ node'[w] = head
    BY <1>0, <2>1
  <2>3. GraphTypes(w)' /\ pc'[w] = "evaluate"
    BY <1>0, <1>1, <2>1, <2>2 DEF PC
  <2>4. head = 0 \/ Younger(head)
    BY <2>1 DEF GraphInv, Roots, Freeing
  <2>5. QED  BY <1>0, <2>1, <2>2, <2>3, <2>4, GraphStays DEF Freeing
<1>7. CASE CallCommand(w) \/ Poll(w)
  <2>1. PICK l \in {"command", "evaluate", "finish"} :
          /\ Goto(w, l) /\ UNCHANGED <<node, text, line, runs>>
          /\ pc[w] \in {"evaluate", "poll"} /\ (l = "command" => node[w] # 0)
    BY <1>7 DEF CallCommand, Poll, NULL
  <2>2. GraphTypes(w)' /\ pc'[w] = l
    BY <1>0, <1>1, <2>1 DEF PC
  <2>3. node[w] = 0 \/ Younger(node[w])
    BY <2>1 DEF GraphInv, Roots
  <2>4. QED  BY <1>0, <2>1, <2>2, <2>3, GraphStays DEF Freeing
<1>8. CASE ReturnCommand(w)
  <2>1. /\ Goto(w, "poll") /\ UNCHANGED <<text, line, runs>> /\ pc[w] = "command"
        /\ node' = [node EXCEPT ![w] = nodes[node[w]].next]
    BY <1>8 DEF ReturnCommand
  <2>2. node[w] \in 1..Len(nodes) /\ Younger(node[w])
    BY <1>0, <2>1 DEF GraphInv, Roots
  <2>3. /\ nodes[node[w]].next \in 0..Len(nodes)
        /\ nodes[node[w]].next = 0 \/ Younger(nodes[node[w]].next)
    BY <2>2 DEF GraphInv, Pointers, Links
  <2>4. node' \in [Thread -> Nat] /\ node'[w] = nodes[node[w]].next
    BY <1>0, <2>1, <2>3
  <2>5. GraphTypes(w)' /\ pc'[w] = "poll"
    BY <1>0, <1>1, <2>1, <2>4 DEF PC
  <2>6. QED  BY <1>0, <2>1, <2>3, <2>4, <2>5, GraphStays DEF Freeing
<1>9. QED  BY <1>2, <1>3, <1>4, <1>5, <1>6, <1>7, <1>8

LEMMA GraphVisits ==
  ASSUME NEW w, GraphAssumption(w), GraphInv(w), VisitControl(w)
  PROVE  GraphInv(w)'
<1> DEFINE d == node[w]
           c == nodes[d]
           more == Decremented(c) # 0
           argc == IF more THEN Decremented(c) ELSE c.argv
           next == IF more THEN c.branch ELSE c.next
<1>1. /\ pc[w] = "evaluate" /\ d # 0
      /\ nodes' = [nodes EXCEPT ![d].argc = argc] /\ node' = [node EXCEPT ![w] = next]
      /\ Goto(w, "poll")
      /\ UNCHANGED <<freed, head, current, stack, haveStack, text, line, runs>>
  BY DEF VisitControl, NULL
<1>2. /\ w \in Thread /\ GraphTypes(w) /\ nodes \in Seq(Node) /\ node \in [Thread -> Nat]
      /\ d \in 1..Len(nodes) /\ Younger(d)
  BY <1>1 DEF GraphAssumption, GraphInv, GraphTypes, Pointers, Roots
<1>3. /\ c.next \in 0..Len(nodes) /\ c.branch \in 0..Len(nodes)
      /\ c.next = 0 \/ Younger(c.next)
      /\ c.branch = 0 \/ Younger(c.branch)
  BY <1>2 DEF GraphInv, Pointers, Links
<1>4. c \in Node
  BY <1>2
<1>5. argc \in Nat
  <2>1. c.argc \in Nat /\ c.argv \in Nat
    BY <1>4 DEF Node
  <2>2. Decremented(c) \in Nat
    BY <2>1 DEF GraphAssumption, Decremented
  <2>3. QED  BY <2>1, <2>2
<1> HIDE DEF argc, more
<1>6. nodes' \in Seq(Node) /\ Len(nodes') = Len(nodes)
      /\ \A k \in 1..Len(nodes) : nodes'[k] = IF k = d THEN [c EXCEPT !.argc = argc] ELSE nodes[k]
  <2>1. [c EXCEPT !.argc = argc] \in Node
    BY <1>4, <1>5 DEF Node
  <2>2. QED  BY <1>1, <1>2, <2>1, ExceptSeq
<1>7. SameGraph
  <2>1. LET e == [c EXCEPT !.argc = argc]
        IN e.next = c.next /\ e.branch = c.branch /\ e.closed = c.closed
    BY <1>4 DEF Node
  <2>2. QED  BY <1>1, <1>6, <2>1 DEF SameGraph
<1>8. next \in 0..Len(nodes) /\ (next = 0 \/ Younger(next))
  BY <1>3
<1> HIDE DEF next
<1>9. node' \in [Thread -> Nat] /\ node'[w] = next
  BY <1>1, <1>2, <1>8
<1>10. /\ pc'[w] = "poll" /\ pc' \in [Thread -> PC]
       /\ \A t \in Thread \ {w} : pc'[t] = "idle"
  BY <1>1, <1>2, GraphGoes DEF PC
<1>11. GraphTypes(w)'
  BY <1>1, <1>2, <1>6, <1>9, <1>10 DEF GraphTypes
<1>12. QED  BY <1>1, <1>2, <1>7, <1>8, <1>9, <1>10, <1>11, GraphStays DEF Freeing

\* A method is begun, or terminated, or has come to its end.
LEMMA GraphCommands ==
  ASSUME NEW w, GraphAssumption(w), GraphInv(w),
         Execute(w) \/ Terminate(w) \/ Finish(w)
  PROVE  GraphInv(w)'
<1>1. PICK l \in {"clear", "idle"} :
        /\ pc[w] \in {"idle", "finish"} /\ Goto(w, l)
        /\ UNCHANGED <<nodes, freed, head, current, stack, haveStack>>
  BY DEF Execute, Terminate, Finish, list
<1>2. w \in Thread /\ GraphTypes(w) /\ node[w] \in 0..Len(nodes) /\ SameGraph
  BY <1>1 DEF GraphAssumption, GraphInv, Pointers, SameGraph
<1>3. /\ pc'[w] = l /\ pc' \in [Thread -> PC]
      /\ \A t \in Thread \ {w} : pc'[t] = "idle"
  BY <1>1, <1>2, GraphGoes DEF PC
<1>4. /\ runs' \in Nat /\ text' \in [Thread -> Seq(Stmt)] /\ line' \in [Thread -> Nat]
      /\ node' \in [Thread -> Nat] /\ node'[w] \in {node[w], 0}
  <2>1. CASE Execute(w)
    <3>1. PICK m \in Method : text' = [text EXCEPT ![w] = m]
      BY <2>1 DEF Execute
    <3>2. m \in Seq(Stmt)
      BY DEF GraphAssumption
    <3>3. /\ line' = [line EXCEPT ![w] = 1] /\ node' = node /\ runs' = runs + 1
      BY <2>1 DEF Execute
    <3>4. QED  BY <1>2, <3>1, <3>2, <3>3 DEF GraphTypes
  <2>2. CASE Terminate(w)
    BY <1>2, <2>2 DEF Terminate, GraphTypes
  <2>3. CASE Finish(w)
    <3>1. <<>> \in Seq(Stmt)
      BY EmptySeq
    <3>2. /\ text' = [text EXCEPT ![w] = <<>>] /\ line' = [line EXCEPT ![w] = 0]
          /\ node' = [node EXCEPT ![w] = 0] /\ runs' = runs
      BY <2>3 DEF Finish, NULL
    <3>3. QED  BY <1>2, <3>1, <3>2 DEF GraphTypes
  <2>4. QED  BY <2>1, <2>2, <2>3
<1>5. GraphTypes(w)'
  BY <1>1, <1>2, <1>3, <1>4 DEF GraphTypes
<1>6. node'[w] \in 0..Len(nodes)
  BY <1>2, <1>4 DEF GraphTypes
<1>7. QED  BY <1>1, <1>2, <1>3, <1>5, <1>6, GraphStays DEF Freeing

\* The list is freed from its head: what is left is younger than what was freed.
LEMMA GraphFrees ==
  ASSUME NEW w, GraphAssumption(w), GraphInv(w), FreeNode(w)
  PROVE  GraphInv(w)'
<1>1. /\ pc[w] = "free" /\ node[w] # 0 /\ freed' = freed \cup {node[w]}
      /\ node' = [node EXCEPT ![w] = nodes[node[w]].next]
      /\ UNCHANGED <<nodes, head, current, stack, haveStack, pc, text, line, runs>>
  BY DEF FreeNode, NULL
<1>2. /\ w \in Thread /\ GraphTypes(w) /\ node \in [Thread -> Nat]
      /\ node[w] \in 1..Len(nodes) /\ Younger(node[w])
  BY <1>1 DEF GraphAssumption, GraphInv, GraphTypes, Pointers, Roots
<1>3. ~haveStack /\ stack = <<>> /\ Len(stack) = 0 /\ Freeing(w)
      /\ \A d \in 1..Len(nodes) : /\ nodes[d].next \in 0..Len(nodes) /\ nodes[d].branch = 0
                                  /\ nodes[d].next = 0 \/ d < nodes[d].next
  BY <1>1 DEF GraphInv, Roots, ListOnly, Pointers, Freeing
<1>4. node' \in [Thread -> Nat] /\ node'[w] = nodes[node[w]].next
  BY <1>1, <1>2, <1>3
<1>5. GraphTypes(w)'
  BY <1>1, <1>2, <1>4 DEF GraphTypes
<1>6. freed \subseteq 1..Len(nodes) /\ freed' \subseteq 1..Len(nodes)
  BY <1>1, <1>2 DEF GraphInv, Pointers
<1>7. Pointers(w)'
  BY <1>1, <1>2, <1>3, <1>4, <1>6 DEF GraphInv, Pointers
<1>8. ListOnly'
  BY <1>1 DEF GraphInv, ListOnly
<1>9. Links'
  BY <1>1, <1>3, <1>6 DEF Links, Younger
<1>10. node'[w] = 0 \/ \A f \in freed' : f < node'[w]
  BY <1>1, <1>2, <1>3, <1>4, <1>6 DEF Younger
<1>11. Freeing(w)'
  BY <1>1, <1>3 DEF Freeing
<1>12. Roots(w)'
  BY <1>1, <1>3, <1>10, <1>11 DEF GraphInv, Roots, Younger
<1>13. QED  BY <1>5, <1>7, <1>8, <1>9, <1>12 DEF GraphInv

\* Then there is no graph.
LEMMA GraphResets ==
  ASSUME NEW w, GraphAssumption(w), GraphInv(w), ResetHead(w)
  PROVE  GraphInv(w)'
<1>1. PICK l \in {"idle", "parse"} :
        /\ pc[w] = "reset" /\ Goto(w, l) /\ head' = 0 /\ node' = [node EXCEPT ![w] = 0]
        /\ UNCHANGED <<nodes, freed, current, stack, haveStack, text, line, runs>>
  BY DEF ResetHead, NULL
<1>2. w \in Thread /\ GraphTypes(w)
  BY DEF GraphAssumption, GraphInv
<1>3. /\ pc'[w] = l /\ pc' \in [Thread -> PC]
      /\ \A t \in Thread \ {w} : pc'[t] = "idle"
  BY <1>1, <1>2, GraphGoes DEF PC
<1>4. node' \in [Thread -> Nat] /\ node'[w] = 0
  BY <1>1, <1>2 DEF GraphTypes
<1>5. GraphTypes(w)'
  BY <1>1, <1>2, <1>3, <1>4 DEF GraphTypes
<1>6. Len(nodes) \in Nat
  BY <1>2 DEF GraphTypes
<1>7. Pointers(w)'
  BY <1>1, <1>4, <1>6 DEF GraphInv, Pointers
<1>8. ListOnly' /\ Links'
  BY <1>1 DEF GraphInv, ListOnly, Links, Younger
<1>9. haveStack => current # 0 /\ Younger(current)
  BY <1>1 DEF GraphInv, Roots, Freeing
<1>10. Roots(w)'
  BY <1>1, <1>3, <1>9 DEF GraphInv, Roots, Younger
<1>11. QED  BY <1>5, <1>7, <1>8, <1>10 DEF GraphInv

\* A link that a step changes leads from the current node to one that is in use.
LEMMA GraphLinks ==
  ASSUME NEW w, GraphAssumption(w), GraphInv(w), GraphTypes(w)', ~Freeing(w), ListOnly',
         Len(nodes) <= Len(nodes'), freed' = freed, node'[w] = node[w],
         \A d \in 1..Len(nodes') :
           /\ nodes'[d].next \in 0..Len(nodes') /\ nodes'[d].branch \in 0..Len(nodes')
           /\ Younger(d) =>
                /\ nodes'[d].next = 0 \/ Younger(nodes'[d].next)
                /\ nodes'[d].branch = 0 \/ Younger(nodes'[d].branch),
         head' \in {0} \cup 1..Len(nodes'), head' = 0 \/ Younger(head'),
         current' \in 0..Len(nodes'),
         head' # 0 \/ haveStack' => current' # 0 /\ Younger(current'),
         \A i \in 1..Len(stack') : stack'[i] \in 1..Len(nodes') /\ Younger(stack'[i]),
         pc'[w] \in {"parse", "closeDelay"}
  PROVE  GraphInv(w)'
<1>1. Len(nodes) \in Nat /\ Len(nodes') \in Nat
  BY DEF GraphInv, GraphTypes
<1>2. Pointers(w)'
  BY <1>1 DEF GraphInv, Pointers
<1>3. Links'
  BY DEF Links, Younger
<1>4. Roots(w)'
  BY DEF Roots, Younger
<1>5. QED  BY <1>2, <1>3, <1>4 DEF GraphInv

LEMMA NodeFields ==
  ASSUME NEW c \in Node, NEW id \in Nat
  PROVE  /\ [c EXCEPT !.next = id] \in Node
         /\ [c EXCEPT !.branch = id] \in Node
         /\ [c EXCEPT !.closed = TRUE] \in Node
         /\ [c EXCEPT !.next = id].next = id /\ [c EXCEPT !.next = id].branch = c.branch
         /\ [c EXCEPT !.branch = id].branch = id /\ [c EXCEPT !.branch = id].next = c.next
         /\ [c EXCEPT !.next = id].closed = c.closed /\ [c EXCEPT !.branch = id].closed = c.closed
         /\ [c EXCEPT !.closed = TRUE].next = c.next
         /\ [c EXCEPT !.closed = TRUE].branch = c.branch
BY DEF Node

\* linkNode.
LEMMA GraphGrows ==
  ASSUME NEW w, GraphAssumption(w), GraphInv(w), ~Freeing(w), NEW d \in Node,
         LinkNode(d), d.next = 0, d.branch = 0
  PROVE  /\ nodes' \in Seq(Node) /\ Len(nodes') = Len(nodes) + 1
         /\ current' = Len(nodes) + 1
         /\ head' = IF head = 0 THEN Len(nodes) + 1 ELSE head
         /\ nodes'[Len(nodes) + 1] = d
         /\ \A k \in 1..Len(nodes) :
              /\ nodes'[k].closed = nodes[k].closed
              /\ \/ nodes'[k].next = nodes[k].next
                 \/ nodes'[k].next = Len(nodes) + 1 /\ nodes[k].closed
              /\ \/ nodes'[k].branch = nodes[k].branch
                 \/ nodes'[k].branch = Len(nodes) + 1 /\ ~nodes[k].closed
<1> DEFINE id == Len(nodes) + 1
           linked == IF head = 0 THEN nodes
                     ELSE IF nodes[current].closed THEN [nodes EXCEPT ![current].next = id]
                          ELSE [nodes EXCEPT ![current].branch = id]
<1>1. nodes \in Seq(Node) /\ Len(nodes) \in Nat /\ (head # 0 => current \in 1..Len(nodes))
  BY DEF GraphInv, GraphTypes, Pointers, Roots
<1>2. nodes' = Append(linked, d) /\ current' = id /\ head' = IF head = 0 THEN id ELSE head
  BY DEF LinkNode, NULL
<1>3. /\ linked \in Seq(Node) /\ Len(linked) = Len(nodes)
      /\ \A k \in 1..Len(nodes) :
           /\ linked[k].closed = nodes[k].closed
           /\ linked[k].next = nodes[k].next \/ (linked[k].next = id /\ nodes[k].closed)
           /\ linked[k].branch = nodes[k].branch \/ (linked[k].branch = id /\ ~nodes[k].closed)
  <2>1. CASE head = 0
    BY <1>1, <2>1
  <2>2. CASE head # 0 /\ nodes[current].closed
    <3> DEFINE e == [nodes[current] EXCEPT !.next = id]
    <3>1. nodes[current] \in Node /\ current \in 1..Len(nodes) /\ id \in Nat
      BY <1>1, <2>2
    <3>2. /\ e \in Node /\ e.closed = nodes[current].closed
          /\ e.branch = nodes[current].branch /\ e.next = id
      BY <3>1, NodeFields, Zenon
    <3>3. linked = [nodes EXCEPT ![current] = e]
      BY <2>2
    <3> HIDE DEF e, linked
    <3>4. /\ linked \in Seq(Node) /\ Len(linked) = Len(nodes)
          /\ \A k \in 1..Len(nodes) : linked[k] = IF k = current THEN e ELSE nodes[k]
      BY <1>1, <3>1, <3>2, <3>3, ExceptSeq
    <3>5. QED  BY <2>2, <3>2, <3>4
  <2>3. CASE head # 0 /\ ~nodes[current].closed
    <3> DEFINE e == [nodes[current] EXCEPT !.branch = id]
    <3>1. nodes[current] \in Node /\ current \in 1..Len(nodes) /\ id \in Nat
      BY <1>1, <2>3
    <3>2. /\ e \in Node /\ e.closed = nodes[current].closed
          /\ e.next = nodes[current].next /\ e.branch = id
      BY <3>1, NodeFields, Zenon
    <3>3. linked = [nodes EXCEPT ![current] = e]
      BY <2>3
    <3> HIDE DEF e, linked
    <3>4. /\ linked \in Seq(Node) /\ Len(linked) = Len(nodes)
          /\ \A k \in 1..Len(nodes) : linked[k] = IF k = current THEN e ELSE nodes[k]
      BY <1>1, <3>1, <3>2, <3>3, ExceptSeq
    <3>5. QED  BY <2>3, <3>2, <3>4
  <2>4. QED  BY <2>1, <2>2, <2>3
<1> HIDE DEF linked
<1>4. /\ nodes' \in Seq(Node) /\ Len(nodes') = Len(nodes) + 1 /\ nodes'[id] = d
      /\ \A k \in 1..Len(nodes) : nodes'[k] = linked[k]
  BY <1>1, <1>2, <1>3
<1>5. QED  BY <1>2, <1>3, <1>4

\* A node that is made is in the graph, and no link leads back from it.
LEMMA NodeIsMade ==
  ASSUME NEW w, GraphTypes(w), w \in Thread, NEW type \in {"cmd", "loop", "delay"}, NEW n \in Nat
  PROVE  LET d == NewNode(w, type, n)
         IN d \in Node /\ d.next = 0 /\ d.branch = 0 /\ (d.closed <=> type = "cmd")
BY DEF GraphTypes, NewNode, Node, NULL

LEMMA GraphAdds ==
  ASSUME NEW w, GraphAssumption(w), GraphInv(w),
         AddCommandNode(w) \/ \E type \in {"loop", "delay"} : AddControlNode(w, type)
  PROVE  GraphInv(w)'
<1> DEFINE id == Len(nodes) + 1
<1>1. PICK type \in {"cmd", "loop", "delay"}, n \in Nat :
        /\ pc[w] = "parse" /\ LinkNode(NewNode(w, type, n))
        /\ freed' = freed /\ node' = node /\ text' = text /\ runs' = runs
        /\ line' = line \/ line' = [line EXCEPT ![w] = @ + 1]
        /\ pc' = pc \/ Goto(w, "closeDelay")
        /\ \/ type = "cmd" /\ stack' = stack /\ haveStack' = haveStack
           \/ haveStack' = TRUE /\ stack' = Append(stack, id)
  <2>1. CASE AddCommandNode(w)
    BY <2>1 DEF AddCommandNode, AtStatement, NextLine
  <2>2. ASSUME NEW type \in {"loop", "delay"}, AddControlNode(w, type)
        PROVE  \E n \in Nat :
          /\ pc[w] = "parse" /\ LinkNode(NewNode(w, type, n))
          /\ freed' = freed /\ node' = node /\ text' = text /\ runs' = runs
          /\ line' = line \/ line' = [line EXCEPT ![w] = @ + 1]
          /\ pc' = pc \/ Goto(w, "closeDelay")
          /\ haveStack' = TRUE /\ stack' = Append(stack, id)
    <3>1. line[w] \in DOMAIN text[w] /\ text[w][line[w]].k = type
      BY <2>2 DEF AddControlNode, AtStatement
    <3>2. text[w] \in Seq(Stmt)
      BY DEF GraphAssumption, GraphInv, GraphTypes
    <3>3. text[w][line[w]] \in Stmt
      BY <3>1, <3>2
    <3>4. text[w][line[w]].n \in Nat
      BY <2>2, <3>1, <3>3 DEF Stmt
    <3>5. /\ pc[w] = "parse" /\ LinkNode(NewNode(w, type, text[w][line[w]].n))
          /\ freed' = freed /\ node' = node /\ text' = text /\ runs' = runs
          /\ line' = line \/ line' = [line EXCEPT ![w] = @ + 1]
          /\ pc' = pc \/ Goto(w, "closeDelay")
          /\ haveStack' = TRUE /\ stack' = Append(stack, id)
      BY <2>2 DEF AddControlNode, AtStatement, NextLine, initStack,
                  stackPush
    <3>6. QED  BY <3>4, <3>5
  <2>3. QED  BY <2>1, <2>2
<1>2. w \in Thread /\ GraphTypes(w) /\ ~Freeing(w)
  BY <1>1 DEF GraphAssumption, GraphInv, Freeing
<1> DEFINE d == NewNode(w, type, n)
<1>3. d \in Node /\ d.next = 0 /\ d.branch = 0 /\ (d.closed <=> type = "cmd")
  BY <1>2, NodeIsMade
<1> HIDE DEF d
<1>4. /\ nodes' \in Seq(Node) /\ Len(nodes') = id /\ current' = id
      /\ head' = IF head = 0 THEN id ELSE head
      /\ nodes'[id] = d
      /\ \A k \in 1..Len(nodes) :
           /\ nodes'[k].closed = nodes[k].closed
           /\ nodes'[k].next = nodes[k].next \/ (nodes'[k].next = id /\ nodes[k].closed)
           /\ nodes'[k].branch = nodes[k].branch \/ (nodes'[k].branch = id /\ ~nodes[k].closed)
  <2>1. LinkNode(d)
    BY <1>1 DEF d
  <2>2. QED  BY <1>2, <1>3, <2>1, GraphGrows
<1>5. Len(nodes) \in Nat /\ id \in Nat /\ freed \subseteq 1..Len(nodes) /\ Younger(id)
  <2>1. Len(nodes) \in Nat /\ id \in Nat
    BY <1>2 DEF GraphTypes
  <2>2. freed \subseteq 1..Len(nodes)
    BY DEF GraphInv, Pointers
  <2>3. \A f \in freed : f < id
    BY <2>1, <2>2
  <2>4. QED  BY <2>1, <2>2, <2>3 DEF Younger
<1>6. /\ pc'[w] \in {"parse", "closeDelay"} /\ pc' \in [Thread -> PC]
      /\ \A t \in Thread \ {w} : pc'[t] = "idle"
  <2>1. CASE pc' = pc
    BY <1>1, <1>2, <2>1 DEF GraphTypes
  <2>2. CASE Goto(w, "closeDelay")
    BY <1>2, <2>2, GraphGoes DEF PC
  <2>3. QED  BY <1>1, <2>1, <2>2
<1>7. /\ stack' \in Seq(Nat)
      /\ \A i \in 1..Len(stack') : stack'[i] \in 1..Len(nodes') /\ Younger(stack'[i])
  <2>1. /\ stack \in Seq(Nat)
        /\ \A i \in 1..Len(stack) : stack[i] \in 1..Len(nodes) /\ Younger(stack[i])
    BY <1>2 DEF GraphInv, GraphTypes, Pointers, Roots
  <2>2. CASE stack' = stack
    BY <1>4, <1>5, <2>1, <2>2
  <2>3. CASE stack' = Append(stack, id)
    <3>1. /\ stack' \in Seq(Nat) /\ Len(stack') = Len(stack) + 1 /\ stack'[Len(stack) + 1] = id
          /\ \A i \in 1..Len(stack) : stack'[i] = stack[i]
      BY <1>5, <2>1, <2>3
    <3>2. \A i \in 1..Len(stack') : i \in 1..Len(stack) \/ i = Len(stack) + 1
      BY <2>1, <3>1
    <3>3. QED  BY <1>4, <1>5, <2>1, <3>1, <3>2
  <2>4. QED  BY <1>1, <2>2, <2>3
<1>8. GraphTypes(w)'
  <2>1. line' \in [Thread -> Nat]
    <3>1. line' = line \/ line' = [line EXCEPT ![w] = @ + 1]
      BY <1>1
    <3>2. line \in [Thread -> Nat] /\ line[w] + 1 \in Nat
      BY <1>2 DEF GraphTypes
    <3>3. QED  BY <3>1, <3>2
  <2>2. QED  BY <1>1, <1>2, <1>4, <1>6, <1>7, <2>1 DEF GraphTypes
<1>9. \A k \in 1..Len(nodes') :
        /\ nodes'[k].next \in 0..Len(nodes') /\ nodes'[k].branch \in 0..Len(nodes')
        /\ Younger(k) =>
             /\ nodes'[k].next = 0 \/ Younger(nodes'[k].next)
             /\ nodes'[k].branch = 0 \/ Younger(nodes'[k].branch)
  <2>1. ASSUME NEW k \in 1..Len(nodes)
        PROVE  /\ nodes'[k].next \in 0..Len(nodes') /\ nodes'[k].branch \in 0..Len(nodes')
               /\ Younger(k) =>
                    /\ nodes'[k].next = 0 \/ Younger(nodes'[k].next)
                    /\ nodes'[k].branch = 0 \/ Younger(nodes'[k].branch)
    <3>1. /\ nodes[k].next \in 0..Len(nodes) /\ nodes[k].branch \in 0..Len(nodes)
          /\ Younger(k) => /\ nodes[k].next = 0 \/ Younger(nodes[k].next)
                           /\ nodes[k].branch = 0 \/ Younger(nodes[k].branch)
      BY DEF GraphInv, Pointers, Links
    <3>2. nodes'[k].next \in {nodes[k].next, id} /\ nodes'[k].branch \in {nodes[k].branch, id}
      BY <1>4
    <3>3. id \in 0..Len(nodes') /\ 0..Len(nodes) \subseteq 0..Len(nodes')
      BY <1>4, <1>5
    <3> HIDE DEF id
    <3>4. QED  BY <1>5, <3>1, <3>2, <3>3
  <2>2. nodes'[id].next = 0 /\ nodes'[id].branch = 0
    BY <1>3, <1>4
  <2>3. \A k \in 1..Len(nodes') : k \in 1..Len(nodes) \/ k = id
    BY <1>4, <1>5
  <2>4. QED  BY <1>4, <1>5, <2>1, <2>2, <2>3
<1>10. ListOnly'
  <2>1. SUFFICES ASSUME ~haveStack'
                 PROVE  /\ stack' = <<>>
                        /\ \A k \in 1..Len(nodes') : /\ nodes'[k].closed /\ nodes'[k].branch = 0
                                                     /\ nodes'[k].next = 0 \/ k < nodes'[k].next
    BY DEF ListOnly
  <2>2. type = "cmd" /\ stack' = stack /\ ~haveStack
    BY <1>1, <2>1
  <2>3. /\ stack = <<>>
        /\ \A k \in 1..Len(nodes) : /\ nodes[k].closed /\ nodes[k].branch = 0
                                    /\ nodes[k].next = 0 \/ k < nodes[k].next
    BY <2>2 DEF GraphInv, ListOnly
  <2>4. ASSUME NEW k \in 1..Len(nodes)
        PROVE  /\ nodes'[k].closed /\ nodes'[k].branch = 0
               /\ nodes'[k].next = 0 \/ k < nodes'[k].next
    <3>1. nodes[k].closed /\ nodes[k].branch = 0 /\ (nodes[k].next = 0 \/ k < nodes[k].next)
      BY <2>3
    <3>2. /\ nodes'[k].closed = nodes[k].closed
          /\ nodes'[k].next = nodes[k].next \/ nodes'[k].next = id
          /\ nodes'[k].branch = nodes[k].branch \/ ~nodes[k].closed
      BY <1>4
    <3>3. k < id
      BY <1>5
    <3> HIDE DEF id
    <3>4. QED  BY <3>1, <3>2, <3>3
  <2>5. nodes'[id].closed /\ nodes'[id].branch = 0 /\ nodes'[id].next = 0
    BY <1>3, <1>4, <2>2
  <2>6. \A k \in 1..Len(nodes') : k \in 1..Len(nodes) \/ k = id
    BY <1>4, <1>5
  <2>7. QED  BY <2>2, <2>3, <2>4, <2>5, <2>6
<1>11. /\ head' \in {0} \cup 1..Len(nodes') /\ (head' = 0 \/ Younger(head'))
       /\ current' \in 0..Len(nodes') /\ current' # 0 /\ Younger(current')
  <2>1. head \in 0..Len(nodes) /\ (head = 0 \/ Younger(head))
    BY <1>2 DEF GraphInv, Pointers, Roots
  <2>2. QED  BY <1>4, <1>5, <2>1
<1>12. Len(nodes) <= Len(nodes')
  BY <1>4, <1>5
<1> HIDE DEF id
<1>13. QED  BY <1>1, <1>2, <1>6, <1>7, <1>8, <1>9, <1>10, <1>11, <1>12, GraphLinks

\* closeControlNode.  The nodes on the stack are as young as what is executed: they were
\* made when nothing was freed any more.
LEMMA GraphCloses ==
  ASSUME NEW w, GraphAssumption(w), GraphInv(w), CloseControlNode(w)
  PROVE  GraphInv(w)'
<1>1. /\ pc[w] \in {"parse", "closeDelay"} /\ Goto(w, "parse")
      /\ line' = [line EXCEPT ![w] = @ + 1]
      /\ UNCHANGED <<freed, head, haveStack, text, node, runs>>
  BY DEF CloseControlNode, AtStatement, NextLine
<1>2. /\ w \in Thread /\ GraphTypes(w) /\ ~Freeing(w) /\ node[w] \in 0..Len(nodes)
      /\ nodes \in Seq(Node) /\ stack \in Seq(Nat) /\ Len(nodes) \in Nat
      /\ head \in 0..Len(nodes) /\ (head = 0 \/ Younger(head))
      /\ \A i \in 1..Len(stack) : stack[i] \in 1..Len(nodes) /\ Younger(stack[i])
      /\ \A k \in 1..Len(nodes) :
           /\ nodes[k].next \in 0..Len(nodes) /\ nodes[k].branch \in 0..Len(nodes)
           /\ Younger(k) => /\ nodes[k].next = 0 \/ Younger(nodes[k].next)
                            /\ nodes[k].branch = 0 \/ Younger(nodes[k].branch)
  <2>1. /\ w \in Thread /\ GraphTypes(w) /\ ~Freeing(w)
        /\ nodes \in Seq(Node) /\ stack \in Seq(Nat) /\ Len(nodes) \in Nat
    BY <1>1 DEF GraphAssumption, GraphInv, GraphTypes, Freeing
  <2>2. /\ node[w] \in 0..Len(nodes) /\ head \in 0..Len(nodes) /\ (head = 0 \/ Younger(head))
        /\ \A i \in 1..Len(stack) : stack[i] \in 1..Len(nodes) /\ Younger(stack[i])
    BY <2>1 DEF GraphInv, Pointers, Roots
  <2>3. \A k \in 1..Len(nodes) :
          /\ nodes[k].next \in 0..Len(nodes) /\ nodes[k].branch \in 0..Len(nodes)
          /\ Younger(k) => /\ nodes[k].next = 0 \/ Younger(nodes[k].next)
                           /\ nodes[k].branch = 0 \/ Younger(nodes[k].branch)
    BY DEF GraphInv, Pointers, Links
  <2>4. QED  BY <2>1, <2>2, <2>3
<1>3. /\ pc'[w] = "parse" /\ pc' \in [Thread -> PC]
      /\ \A t \in Thread \ {w} : pc'[t] = "idle"
  BY <1>1, <1>2, GraphGoes DEF PC
<1>4. ASSUME nodes' \in Seq(Node), stack' \in Seq(Nat)
      PROVE  GraphTypes(w)'
  <2>1. line' \in [Thread -> Nat]
    <3>1. line \in [Thread -> Nat] /\ line[w] + 1 \in Nat
      BY <1>2 DEF GraphTypes
    <3>2. QED  BY <1>1, <3>1
  <2>2. QED  BY <1>1, <1>2, <1>3, <1>4, <2>1 DEF GraphTypes
<1>5. CASE stack = <<>>
  <2>1. UNCHANGED <<nodes, current, stack>>
    BY <1>5 DEF CloseControlNode, stackIsEmpty
  <2>2. GraphTypes(w)'
    BY <1>2, <1>4, <2>1
  <2>3. SameGraph
    BY <1>1, <2>1 DEF SameGraph
  <2>4. QED  BY <1>1, <1>2, <1>3, <2>2, <2>3, GraphStays
<1>6. CASE stack # <<>>
  <2> DEFINE d == stack[Len(stack)]
             c == nodes[current]
             e == IF d = current THEN [c EXCEPT !.branch = current] ELSE [c EXCEPT !.next = d]
             linked == [nodes EXCEPT ![current] = e]
  <2>1. /\ nodes' = [linked EXCEPT ![d].closed = TRUE] /\ current' = d
        /\ stack' = SubSeq(stack, 1, Len(stack) - 1)
    BY <1>6 DEF CloseControlNode, stackIsEmpty, stackPop
  <2>2. haveStack
    BY <1>6 DEF GraphInv, ListOnly
  <2>3. current \in 1..Len(nodes) /\ Younger(current)
    BY <1>2, <2>2 DEF GraphInv, Pointers, Roots
  <2>4. d \in 1..Len(nodes) /\ Younger(d)
    <3>1. Len(stack) \in 1..Len(stack)
      BY <1>2, <1>6
    <3>2. QED  BY <1>2, <3>1
  <2>5. /\ stack' \in Seq(Nat)
        /\ \A i \in 1..Len(stack') : stack'[i] \in 1..Len(nodes) /\ Younger(stack'[i])
    <3>1. /\ stack' \in Seq(Nat)
          /\ \A i \in 1..Len(stack') : i \in 1..Len(stack) /\ stack'[i] = stack[i]
      BY <1>2, <1>6, <2>1
    <3>2. QED  BY <1>2, <3>1
  <2> HIDE DEF d
  <2>6. c \in Node /\ current \in Nat /\ d \in Nat
    BY <1>2, <2>3, <2>4
  <2> HIDE DEF c
  <2>7. /\ e \in Node
        /\ e.next = c.next \/ e.next = d
        /\ e.branch = c.branch \/ e.branch = current
    BY <2>6, NodeFields, Zenon
  <2> HIDE DEF e
  <2>8. /\ linked \in Seq(Node) /\ Len(linked) = Len(nodes)
        /\ \A k \in 1..Len(nodes) : linked[k] = IF k = current THEN e ELSE nodes[k]
    BY <1>2, <2>3, <2>7, ExceptSeq
  <2> HIDE DEF linked
  <2> DEFINE g == [linked[d] EXCEPT !.closed = TRUE]
  <2>9. linked[d] \in Node
    BY <2>4, <2>8
  <2>10. g \in Node /\ g.next = linked[d].next /\ g.branch = linked[d].branch
    BY <2>6, <2>9, NodeFields, Zenon
  <2>11. nodes' = [linked EXCEPT ![d] = g]
    BY <2>1
  <2> HIDE DEF g
  <2>12. /\ nodes' \in Seq(Node) /\ Len(nodes') = Len(nodes)
         /\ \A k \in 1..Len(nodes) : nodes'[k] = IF k = d THEN g ELSE linked[k]
    BY <2>4, <2>8, <2>10, <2>11, ExceptSeq
  <2>13. \A k \in 1..Len(nodes) : /\ nodes'[k].next \in {nodes[k].next, d}
                                  /\ nodes'[k].branch \in {nodes[k].branch, current}
    <3>1. \A k \in 1..Len(nodes) : /\ linked[k].next \in {nodes[k].next, d}
                                   /\ linked[k].branch \in {nodes[k].branch, current}
      BY <2>7, <2>8 DEF c
    <3>2. QED  BY <2>4, <2>10, <2>12, <3>1
  <2>14. \A k \in 1..Len(nodes') :
           /\ nodes'[k].next \in 0..Len(nodes') /\ nodes'[k].branch \in 0..Len(nodes')
           /\ Younger(k) =>
                /\ nodes'[k].next = 0 \/ Younger(nodes'[k].next)
                /\ nodes'[k].branch = 0 \/ Younger(nodes'[k].branch)
    <3>1. d \in 0..Len(nodes) /\ current \in 0..Len(nodes)
      BY <2>3, <2>4
    <3>2. QED  BY <1>2, <2>3, <2>4, <2>12, <2>13, <3>1
  <2>15. ListOnly'
    BY <1>1, <2>2 DEF ListOnly
  <2>16. GraphTypes(w)'
    BY <1>4, <2>5, <2>12
  <2>17. /\ Len(nodes) <= Len(nodes') /\ node'[w] = node[w] /\ freed' = freed
         /\ head' \in {0} \cup 1..Len(nodes') /\ (head' = 0 \/ Younger(head'))
         /\ current' \in 0..Len(nodes') /\ current' # 0 /\ Younger(current')
    BY <1>1, <1>2, <2>1, <2>4, <2>12
  <2>18. QED  BY <1>2, <1>3, <2>5, <2>12, <2>14, <2>15, <2>16, <2>17, GraphLinks
<1>7. QED  BY <1>5, <1>6

LEMMA GraphStep ==
  ASSUME NEW w, GraphAssumption(w), GraphInv(w), [Next]_vars
  PROVE  GraphInv(w)'
<1>1. CASE UNCHANGED vars
  <2>1. UNCHANGED <<nodes, freed, head, current, stack, haveStack, pc, text, line, node, runs>>
    BY <1>1 DEF vars, list, locals
  <2>2. GraphTypes(w)' /\ Pointers(w)' /\ ListOnly'
    BY <2>1 DEF GraphInv, GraphTypes, Pointers, ListOnly
  <2>3. Links' /\ Roots(w)'
    BY <2>1 DEF GraphInv, Links, Roots, Younger, Freeing
  <2>4. QED  BY <2>2, <2>3 DEF GraphInv
<1>2. CASE Next
  <2>1. PICK t \in Thread : Execute(t) \/ Terminate(t) \/ Run(t)
    BY <1>2 DEF Next
  <2>2. Execute(w) \/ Terminate(w) \/ Run(w)
    BY <2>1, OnlyOneActs
  <2>3. CASE Run(w)
    BY <2>3, GraphWalks, GraphFrees, GraphResets, GraphAdds, GraphCloses, GraphVisits,
       GraphCommands DEF Run, Parse
  <2>4. QED  BY <2>2, <2>3, GraphCommands
<1>3. QED  BY <1>1, <1>2

\* One client executes methods, and terminates them: for any methods, whatever loops they
\* leave open, and however many are executed, no node is used after it was freed, neither
\* by the execution nor through the head of the list or the stack of open loops.
THEOREM NothingDangles ==
  ASSUME NEW w \in Thread, Executor \cup Terminator \subseteq {w}
  PROVE  Spec => []NoDangling
<1>0. GraphAssumption(w)
  BY MethodAssumption, SizeAssumption DEF GraphAssumption
<1>1. GraphInv(w) => NoDangling
  <2>1. SUFFICES ASSUME GraphInv(w) PROVE NoDangling
    OBVIOUS
  <2>2. \A d : Younger(d) => d \notin freed
    <3>1. \A f \in freed : f \in Nat
      BY <2>1 DEF GraphInv, GraphTypes, Pointers
    <3>2. ASSUME NEW d, Younger(d), d \in freed
          PROVE  FALSE
      <4>1. d \in Nat /\ d < d
        BY <3>1, <3>2 DEF Younger
      <4>2. QED  BY <4>1
    <3>3. QED  BY <3>2
  <2>3. ASSUME NEW t \in Thread, Executing(t), node[t] # 0
        PROVE  node[t] \notin freed
    <3>1. t = w
      BY <2>1, <2>3 DEF GraphInv, GraphTypes, Executing
    <3>2. QED  BY <2>1, <2>2, <2>3, <3>1 DEF GraphInv, Roots, Executing
  <2>4. ASSUME NEW t \in Thread, pc[t] = "parse", head # 0
        PROVE  {head, current} \cap freed = {}
    <3>1. t = w
      BY <2>1, <2>4 DEF GraphInv, GraphTypes
    <3>2. Younger(head) /\ Younger(current)
      BY <2>1, <2>4, <3>1 DEF GraphInv, Roots, Freeing
    <3>3. QED  BY <2>2, <3>2
  <2>5. \A i \in DOMAIN stack : stack[i] \notin freed
    <3>1. DOMAIN stack = 1..Len(stack)
      BY <2>1 DEF GraphInv, GraphTypes
    <3>2. QED  BY <2>1, <2>2, <3>1 DEF GraphInv, Roots
  <2>6. QED  BY <2>3, <2>4, <2>5 DEF NoDangling, NULL
<1>2. Init => GraphInv(w)
  BY <1>0, GraphBegins
<1>3. GraphInv(w) /\ [Next]_vars => GraphInv(w)'
  BY <1>0, GraphStep
<1>4. QED  BY <1>1, <1>2, <1>3, PTL DEF Spec

-----------------------------------------------------------------------------
(* The graph of the method that is executed is its text: the refinement of   *)
(* MethodText.  The thread that executes has built nodes of the first S      *)
(* statements of m; p is the delay whose node it has yet to close, or 0.     *)

\* d was built from statement i, in this execution.
At(i, d) == d \in 1..Len(nodes) /\ nodes[d].run = runs /\ nodes[d].stmt = i
Own(d) == d \in 1..Len(nodes) /\ nodes[d].run = runs

\* The pointer d leads to statement j, or nowhere as long as there is no such node.
Leads(m, S, d, j) == IF j > S THEN d = 0 ELSE At(Walk!Land(m, j), d)

\* The end of the loop at i is among the statements.
Closes(m, S, i) == Walk!Ends(m, i) # {} /\ Walk!Min(Walk!Ends(m, i)) <= S

\* Where a statement leads that is done.
Out(m, i) == IF m[i].k = "loop" THEN Walk!AfterLoop(m, i) ELSE i + 1

Linked(m, S, p, d) ==
  LET i == nodes[d].stmt
  IN /\ i \in 1..S /\ m[i].k = nodes[d].type /\ (m[i].k # "cmd" => nodes[d].argv = m[i].n)
     /\ Leads(m, S, nodes[d].next, Out(m, i))
     /\ m[i].k = "loop" => Leads(m, S, nodes[d].branch, i + 1)
     /\ m[i].k = "delay" /\ i # p => nodes[d].branch = d
     /\ i # p => (nodes[d].closed <=> (m[i].k = "loop" => Closes(m, S, i)))

\* Each statement has one node.
Covered(m, S) ==
  /\ \A i \in 1..S : m[i].k # "end" => \E d \in 1..Len(nodes) : At(i, d)
  /\ \A d, e \in 1..Len(nodes) : Own(d) /\ Own(e) /\ nodes[d].stmt = nodes[e].stmt => d = e

\* An end and the loop that it closes.
EndsLead(m, S) ==
  /\ \A e \in 1..S : m[e].k = "end" =>
       LET i == Walk!LoopOf(m, e)
       IN /\ i \in 1..e - 1 /\ m[i].k = "loop"
          /\ Walk!Ends(m, i) # {} /\ Walk!Min(Walk!Ends(m, i)) = e
  /\ \A i \in 1..S : m[i].k = "loop" /\ Closes(m, S, i) =>
       Walk!LoopOf(m, Walk!Min(Walk!Ends(m, i))) = i

\* The next node is linked to the one that the last statement leads to.
Ahead(m, S) ==
  IF S = 0 THEN head = 0 ELSE At(1, head) /\ At(Walk!Land(m, S), current)

\* The loops that are open are on top of the stack, one deeper than the other.
\* Below them is what earlier methods left.
Opens(m, S, i, g) ==
  m[i].k = "loop" /\ ~Closes(m, S, i) /\ Walk!Depth(m, i, S + 1) = g
OnStack(n, i) == n \in 1..Len(stack) /\ At(i, stack[n])
Stacked(m, S, k, base) ==
  /\ \A j \in 1..k : \E i \in 1..S : OnStack(base + j, i) /\ Opens(m, S, i, k - j + 1)
  /\ \A i \in 1..S : m[i].k = "loop" /\ ~Closes(m, S, i) =>
       \E j \in 1..k : OnStack(base + j, i)

OpenLoops(m, S, p) ==
  LET k == Walk!Depth(m, 1, S + 1)
  IN \E base \in 0..Len(stack) :
       /\ k \in Nat /\ Len(stack) = base + k + (IF p = 0 THEN 0 ELSE 1)
       /\ Stacked(m, S, k, base)
       /\ p # 0 => p = S /\ m[S].k = "delay" /\ stack[Len(stack)] = current

Built(m, S, p) ==
  /\ S \in 0..Len(m)
  /\ Covered(m, S)
  /\ \A d \in 1..Len(nodes) : Own(d) => Linked(m, S, p, d)
  /\ EndsLead(m, S) /\ Ahead(m, S) /\ OpenLoops(m, S, p)

\* No counter has been counted down yet.
Fresh == \A d \in 1..Len(nodes) : Own(d) => nodes[d].argc = nodes[d].argv

\* What is true of the graph where the thread w is.
BuildInv(w) ==
  /\ \A d \in 1..Len(nodes) : nodes[d].run <= runs
  /\ pc[w] = "idle" => line[w] = 0
  /\ pc[w] \in {"clear", "lock", "free", "stop", "reset"} =>
       line[w] = 0 \/ (line[w] = 1 /\ text[w] \in Method /\ \A d \in 1..Len(nodes) : ~Own(d))
  /\ pc[w] \in {"parse", "closeDelay", "fetch", "evaluate", "command", "poll"} =>
       text[w] \in Method
  /\ pc[w] = "parse" =>
       line[w] \in 1..Len(text[w]) + 1 /\ Built(text[w], line[w] - 1, 0) /\ Fresh
  /\ pc[w] = "closeDelay" =>
       line[w] \in 1..Len(text[w]) /\ Built(text[w], line[w], line[w]) /\ Fresh
  /\ pc[w] \in {"fetch", "evaluate", "command", "poll"} => Built(text[w], Len(text[w]), 0)
  /\ pc[w] = "fetch" => Fresh
  /\ pc[w] \in {"evaluate", "command", "poll"} => node[w] = 0 \/ Own(node[w])
  /\ pc[w] = "command" => Own(node[w]) /\ nodes[node[w]].type = "cmd"

-----------------------------------------------------------------------------
(* Depths and ends.                                                         *)

LEMMA LeastIs ==
  ASSUME NEW T \in SUBSET Nat, T # {}
  PROVE  Walk!Min(T) \in T /\ \A y \in T : Walk!Min(T) <= y
<1> DEFINE R == OpToRel(<, Nat)
<1>1. \E x \in T : \A y \in T : ~ (<<y, x>> \in R)
  <2>1. IsWellFoundedOn(R, Nat)
    BY NatLessThanWellFounded
  <2> HIDE DEF R
  <2>2. QED  BY <2>1, WFMin
<1>2. PICK x \in T : \A y \in T : ~ (<<y, x>> \in R)
  BY <1>1
<1>3. \A y \in T : ~ (y < x)
  BY <1>2 DEF OpToRel
<1>4. \A y \in T : x <= y
  BY <1>3
<1>5. QED  BY <1>4 DEF Walk!Min

\* Of one number.
LEMMA LeastOf ==
  ASSUME NEW T \in SUBSET Nat, NEW x \in T, \A y \in T : x <= y
  PROVE  Walk!Min(T) = x
<1>1. Walk!Min(T) \in T /\ Walk!Min(T) <= x
  BY LeastIs
<1>2. Walk!Min(T) \in Nat /\ x \in Nat /\ x <= Walk!Min(T)
  BY <1>1
<1>3. QED  BY <1>1, <1>2

LEMMA SameCardinality == \A S : Walk!Cardinality(S) = Cardinality(S)
BY DEF Cardinality, Walk!Cardinality

LEMMA DepthIs ==
  ASSUME NEW m, NEW j \in Nat, NEW i \in Nat, j <= i
  PROVE  /\ Walk!Depth(m, j, i) \in Int
         /\ j = i => Walk!Depth(m, j, i) = 0
         /\ Walk!Depth(m, j, i + 1) =
              Walk!Depth(m, j, i) + (IF m[i].k = "loop" THEN 1 ELSE 0)
                                  - (IF m[i].k = "end" THEN 1 ELSE 0)
<1> DEFINE Of(k, n) == {l \in j..n - 1 : m[l].k = k}
<1>1. ASSUME NEW k
      PROVE  /\ Cardinality(Of(k, i)) \in Nat
             /\ j = i => Cardinality(Of(k, i)) = 0
             /\ Cardinality(Of(k, i + 1)) =
                  Cardinality(Of(k, i)) + (IF m[i].k = k THEN 1 ELSE 0)
  <2>1. IsFiniteSet(j..i - 1)
    BY FS_Interval
  <2>2. IsFiniteSet(Of(k, i))
    BY <2>1, FS_Subset
  <2>3. Cardinality(Of(k, i)) \in Nat
    BY <2>2, FS_CardinalityType
  <2>4. ASSUME j = i  PROVE Cardinality(Of(k, i)) = 0
    <3>1. Of(k, i) = {}
      BY <2>4
    <3>2. QED  BY <3>1, FS_EmptySet
  <2>5. i \notin Of(k, i)
    OBVIOUS
  <2>6. Of(k, i + 1) = IF m[i].k = k THEN Of(k, i) \cup {i} ELSE Of(k, i)
    OBVIOUS
  <2> HIDE DEF Of
  <2>7. Cardinality(Of(k, i) \cup {i}) = Cardinality(Of(k, i)) + 1
    BY <2>2, <2>5, FS_AddElement
  <2>8. QED  BY <2>3, <2>4, <2>6, <2>7
<1>2. /\ Walk!Depth(m, j, i) = Cardinality(Of("loop", i)) - Cardinality(Of("end", i))
      /\ Walk!Depth(m, j, i + 1)
           = Cardinality(Of("loop", i + 1)) - Cardinality(Of("end", i + 1))
  BY SameCardinality DEF Walk!Depth
<1> HIDE DEF Of
<1>3. QED  BY <1>1, <1>2

LEMMA EndsAre ==
  ASSUME NEW m \in Seq(Stmt), NEW i \in 1..Len(m)
  PROVE  /\ Walk!Ends(m, i) \subseteq i + 1..Len(m)
         /\ Walk!Ends(m, i) # {} => /\ Walk!Min(Walk!Ends(m, i)) \in Walk!Ends(m, i)
                                    /\ Walk!AfterLoop(m, i) = Walk!Min(Walk!Ends(m, i)) + 1
         /\ Walk!Ends(m, i) = {} => Walk!AfterLoop(m, i) = Len(m) + 1
         /\ Out(m, i) \in i + 1..Len(m) + 1
<1>1. Len(m) \in Nat
  OBVIOUS
<1>2. Walk!Ends(m, i) \subseteq i + 1..Len(m)
  BY DEF Walk!Ends
<1>3. Walk!Ends(m, i) \subseteq Nat
  BY <1>1, <1>2
<1>4. Walk!Ends(m, i) # {} => Walk!Min(Walk!Ends(m, i)) \in Walk!Ends(m, i)
  BY <1>3, LeastIs
<1>5. Walk!AfterLoop(m, i) = IF Walk!Ends(m, i) = {} THEN Len(m) + 1
                             ELSE Walk!Min(Walk!Ends(m, i)) + 1
  BY DEF Walk!AfterLoop
<1>6. QED  BY <1>1, <1>2, <1>4, <1>5 DEF Out

-----------------------------------------------------------------------------
(* The graph while it is built.                                             *)

\* What a step leaves that only counts.
Unmoved ==
  /\ Len(nodes') = Len(nodes)
  /\ \A d \in 1..Len(nodes) :
       /\ nodes'[d].type = nodes[d].type /\ nodes'[d].argv = nodes[d].argv
       /\ nodes'[d].next = nodes[d].next /\ nodes'[d].branch = nodes[d].branch
       /\ nodes'[d].closed = nodes[d].closed
       /\ nodes'[d].stmt = nodes[d].stmt /\ nodes'[d].run = nodes[d].run
  /\ UNCHANGED <<head, current, stack, runs>>

LEMMA BuiltStays ==
  ASSUME NEW m, NEW S, NEW p, Built(m, S, p), Unmoved
  PROVE  Built(m, S, p)'
<1>1. \A i, d : At(i, d)' <=> At(i, d)
  BY DEF Unmoved, At
<1>2. \A d : Own(d)' <=> Own(d)
  BY DEF Unmoved, Own
<1>3. \A d, j : Leads(m, S, d, j)' <=> Leads(m, S, d, j)
  BY <1>1 DEF Leads
<1>4. Covered(m, S)'
  BY <1>1, <1>2 DEF Built, Covered, Unmoved
<1>5. ASSUME NEW d \in 1..Len(nodes), Own(d)
      PROVE  Linked(m, S, p, d)'
  <2>1. Linked(m, S, p, d)
    BY <1>5 DEF Built
  <2>2. QED  BY <1>3, <1>5, <2>1 DEF Linked, Unmoved
<1>6. Ahead(m, S)'
  BY <1>1 DEF Built, Ahead, Unmoved
<1>7. OpenLoops(m, S, p)'
  <2>1. \A n, i : OnStack(n, i)' <=> OnStack(n, i)
    BY <1>1 DEF OnStack, Unmoved
  <2>2. \A k, base : Stacked(m, S, k, base) => Stacked(m, S, k, base)'
    BY <2>1 DEF Stacked
  <2>3. QED  BY <2>2 DEF Built, OpenLoops, Unmoved
<1>8. QED  BY <1>2, <1>4, <1>5, <1>6, <1>7 DEF Built, EndsLead, Unmoved

\* The current node is the one that the last statement leads to.
LEMMA CurrentIs ==
  ASSUME NEW m \in Seq(Stmt), NEW S \in 1..Len(m) - 1, Built(m, S, 0), nodes \in Seq(Node),
         NEW d \in 1..Len(nodes), Own(d)
  PROVE  LET i == nodes[d].stmt
         IN /\ Out(m, i) = S + 1 <=> d = current /\ nodes[d].closed
            /\ m[i].k = "loop" /\ i = S <=> d = current /\ ~nodes[d].closed
<1> DEFINE i == nodes[d].stmt
           c == nodes[current].stmt
<1>1. Len(m) \in Nat /\ S \in Nat /\ S < Len(m) /\ S \in DOMAIN m
  OBVIOUS
<1>2. /\ i \in 1..S /\ m[i].k = nodes[d].type
      /\ nodes[d].closed <=> (m[i].k = "loop" => Closes(m, S, i))
  BY DEF Built, Linked
<1>3. nodes[d].type \in {"cmd", "loop", "delay"}
  <2>1. nodes[d] \in Node
    OBVIOUS
  <2>2. QED  BY <2>1 DEF Node
<1>4. current \in 1..Len(nodes) /\ Own(current) /\ c = Walk!Land(m, S)
  BY DEF Built, Ahead, At, Own
<1>5. d = current <=> i = c
  BY <1>4 DEF Built, Covered
<1>6. m[i].k = "loop" /\ Out(m, i) = S + 1 <=> /\ m[i].k = "loop" /\ Walk!Ends(m, i) # {}
                                               /\ Walk!Min(Walk!Ends(m, i)) = S
  <2>1. i \in 1..Len(m)
    BY <1>1, <1>2
  <2>2. /\ Walk!Ends(m, i) \subseteq i + 1..Len(m)
        /\ Walk!Ends(m, i) # {} => /\ Walk!Min(Walk!Ends(m, i)) \in Walk!Ends(m, i)
                                   /\ Walk!AfterLoop(m, i) = Walk!Min(Walk!Ends(m, i)) + 1
        /\ Walk!Ends(m, i) = {} => Walk!AfterLoop(m, i) = Len(m) + 1
    BY <2>1, EndsAre
  <2>3. QED  BY <1>1, <2>2 DEF Out
<1>7. m[i].k = "loop" /\ Walk!Ends(m, i) # {} =>
        /\ Walk!Min(Walk!Ends(m, i)) \in i + 1..Len(m)
        /\ m[Walk!Min(Walk!Ends(m, i))].k = "end"
  <2>1. i \in 1..Len(m)
    BY <1>1, <1>2
  <2>2. QED  BY <2>1, EndsAre DEF Walk!Ends
<1>8. CASE m[S].k # "end"
  <2>1. c = S
    BY <1>1, <1>4, <1>8 DEF Walk!Land
  <2>2. m[i].k = "loop" => Out(m, i) # S + 1
    BY <1>6, <1>7, <1>8
  <2>3. m[i].k # "loop" => Out(m, i) = i + 1 /\ nodes[d].closed
    BY <1>2 DEF Out
  <2>4. m[i].k = "loop" /\ i = S => ~nodes[d].closed
    BY <1>1, <1>2, <1>7 DEF Closes
  <2>5. QED  BY <1>1, <1>2, <1>5, <2>1, <2>2, <2>3, <2>4
<1>9. CASE m[S].k = "end"
  <2>1. /\ c = Walk!LoopOf(m, S) /\ c \in 1..S - 1 /\ m[c].k = "loop"
        /\ Walk!Ends(m, c) # {} /\ Walk!Min(Walk!Ends(m, c)) = S
    BY <1>1, <1>4, <1>9 DEF Walk!Land, Built, EndsLead
  <2>2. i = c => nodes[d].closed /\ Out(m, i) = S + 1
    BY <1>1, <1>2, <1>6, <2>1 DEF Closes
  <2>3. m[i].k # "loop" => Out(m, i) # S + 1
    BY <1>1, <1>2, <1>3, <1>9 DEF Out
  <2>4. m[i].k = "loop" /\ Out(m, i) = S + 1 => i = c
    BY <1>1, <1>2, <1>6, <2>1 DEF Built, EndsLead, Closes
  <2>5. ~(m[i].k = "loop" /\ i = S)
    BY <1>9
  <2>6. QED  BY <1>5, <2>2, <2>3, <2>4, <2>5
<1>10. QED  BY <1>8, <1>9

\* The links of the nodes that are there, when statement S + 1 leads to x.
LEMMA LinksGrow ==
  ASSUME NEW m \in Seq(Stmt), NEW S \in 0..Len(m) - 1, Built(m, S, 0), nodes \in Seq(Node),
         NEW x, NEW q, Len(nodes) <= Len(nodes'), Len(nodes') \in Nat, runs' = runs,
         At(Walk!Land(m, S + 1), x)',
         \A d \in 1..Len(nodes) :
           /\ nodes'[d].type = nodes[d].type /\ nodes'[d].argv = nodes[d].argv
           /\ nodes'[d].stmt = nodes[d].stmt /\ nodes'[d].run = nodes[d].run
           /\ S # 0 =>
                /\ nodes'[d].next
                     = IF d = current /\ nodes[d].closed THEN x ELSE nodes[d].next
                /\ nodes'[d].branch
                     = IF d = current /\ ~nodes[d].closed THEN x ELSE nodes[d].branch
           /\ Own(d) => (nodes'[d].closed <=>
                (m[nodes[d].stmt].k = "loop" => Closes(m, S + 1, nodes[d].stmt)))
  PROVE  \A d \in 1..Len(nodes) : Own(d) => Linked(m, S + 1, q, d)'
<1> SUFFICES ASSUME NEW d \in 1..Len(nodes), Own(d)
             PROVE  Linked(m, S + 1, q, d)'
  OBVIOUS
<1>0. PICK i, next, branch :
        i = nodes[d].stmt /\ next = nodes'[d].next /\ branch = nodes'[d].branch
  OBVIOUS
<1>1. Len(m) \in Nat /\ S \in Nat /\ S < Len(m)
  OBVIOUS
<1>2. Linked(m, S, 0, d) /\ i \in 1..S /\ S # 0 /\ S \in 1..Len(m) - 1 /\ i \in 1..Len(m)
  BY <1>0, <1>1 DEF Built, Linked
<1>3. /\ Out(m, i) = S + 1 <=> d = current /\ nodes[d].closed
      /\ m[i].k = "loop" /\ i = S <=> d = current /\ ~nodes[d].closed
  BY <1>0, <1>2, CurrentIs
<1>4. /\ next = IF Out(m, i) = S + 1 THEN x ELSE nodes[d].next
      /\ branch = IF m[i].k = "loop" /\ i = S THEN x ELSE nodes[d].branch
  BY <1>0, <1>2, <1>3
<1>5. ASSUME NEW j, NEW e, At(j, e)  PROVE At(j, e)'
  BY <1>5 DEF At
<1>6. ASSUME NEW j \in Nat, j # S + 1, NEW e, Leads(m, S, e, j)
      PROVE  Leads(m, S + 1, e, j)'
  BY <1>1, <1>5, <1>6 DEF Leads
<1>7. Leads(m, S + 1, x, S + 1)'
  BY <1>1 DEF Leads
<1>8. Out(m, i) \in Nat
  BY <1>1, <1>2, EndsAre
<1>9. Leads(m, S + 1, next, Out(m, i))'
  <2>1. PICK old : old = nodes[d].next
    OBVIOUS
  <2>2. Leads(m, S, old, Out(m, i))
    BY <1>0, <1>2, <2>1 DEF Linked
  <2>3. CASE Out(m, i) = S + 1
    BY <1>4, <1>7, <2>3
  <2>4. CASE Out(m, i) # S + 1
    <3>1. Leads(m, S + 1, old, Out(m, i))'
      BY <1>6, <1>8, <2>2, <2>4
    <3>2. QED  BY <1>4, <2>1, <2>4, <3>1
  <2>5. QED  BY <2>3, <2>4
<1>10. ASSUME m[i].k = "loop"  PROVE Leads(m, S + 1, branch, i + 1)'
  <2>1. PICK old : old = nodes[d].branch
    OBVIOUS
  <2>2. Leads(m, S, old, i + 1)
    BY <1>0, <1>2, <1>10, <2>1 DEF Linked
  <2>3. CASE i = S
    BY <1>4, <1>7, <1>10, <2>3
  <2>4. CASE i # S
    <3>1. i + 1 \in Nat /\ i + 1 # S + 1
      BY <1>1, <1>2, <2>4
    <3>2. Leads(m, S + 1, old, i + 1)'
      BY <1>6, <2>2, <3>1
    <3>3. QED  BY <1>4, <2>1, <2>4, <3>2
  <2>5. QED  BY <2>3, <2>4
<1>11. m[i].k = "delay" => branch = d
  BY <1>0, <1>2, <1>4 DEF Linked
<1>12. /\ nodes'[d].stmt = i /\ i \in 1..S + 1 /\ m[i].k = nodes'[d].type
       /\ m[i].k # "cmd" => nodes'[d].argv = m[i].n
       /\ nodes'[d].closed <=> (m[i].k = "loop" => Closes(m, S + 1, i))
  BY <1>0, <1>1, <1>2 DEF Linked
<1>13. QED  BY <1>0, <1>9, <1>10, <1>11, <1>12 DEF Linked

\* What of a node is never changed.
LEMMA NodeKeeps ==
  ASSUME NEW c \in Node, NEW id \in Nat
  PROVE  /\ [c EXCEPT !.next = id].type = c.type /\ [c EXCEPT !.branch = id].type = c.type
         /\ [c EXCEPT !.next = id].stmt = c.stmt /\ [c EXCEPT !.branch = id].stmt = c.stmt
         /\ [c EXCEPT !.next = id].run = c.run /\ [c EXCEPT !.branch = id].run = c.run
         /\ [c EXCEPT !.next = id].argv = c.argv /\ [c EXCEPT !.branch = id].argv = c.argv
         /\ [c EXCEPT !.next = id].argc = c.argc /\ [c EXCEPT !.branch = id].argc = c.argc
         /\ [c EXCEPT !.closed = TRUE].type = c.type /\ [c EXCEPT !.closed = TRUE].stmt = c.stmt
         /\ [c EXCEPT !.closed = TRUE].run = c.run /\ [c EXCEPT !.closed = TRUE].argv = c.argv
         /\ [c EXCEPT !.closed = TRUE].argc = c.argc /\ [c EXCEPT !.closed = TRUE].closed
BY DEF Node

\* The links of the current node lead to x from now on.
Led(c, x) == IF c.closed THEN [c EXCEPT !.next = x] ELSE [c EXCEPT !.branch = x]

LEMMA LedIs ==
  ASSUME NEW c \in Node, NEW x \in Nat
  PROVE  /\ Led(c, x) \in Node
         /\ Led(c, x).next = IF c.closed THEN x ELSE c.next
         /\ Led(c, x).branch = IF ~c.closed THEN x ELSE c.branch
         /\ Led(c, x).type = c.type /\ Led(c, x).stmt = c.stmt /\ Led(c, x).run = c.run
         /\ Led(c, x).argv = c.argv /\ Led(c, x).argc = c.argc /\ Led(c, x).closed = c.closed
<1>1. CASE c.closed
  <2> DEFINE e == [c EXCEPT !.next = x]
  <2>1. /\ e \in Node /\ e.next = x /\ e.branch = c.branch /\ e.closed = c.closed
        /\ e.type = c.type /\ e.stmt = c.stmt /\ e.run = c.run /\ e.argv = c.argv
        /\ e.argc = c.argc
    BY NodeFields, NodeKeeps, Zenon
  <2>2. Led(c, x) = e
    BY <1>1 DEF Led
  <2> HIDE DEF e
  <2>3. QED  BY <1>1, <2>1, <2>2
<1>2. CASE ~c.closed
  <2> DEFINE e == [c EXCEPT !.branch = x]
  <2>1. /\ e \in Node /\ e.branch = x /\ e.next = c.next /\ e.closed = c.closed
        /\ e.type = c.type /\ e.stmt = c.stmt /\ e.run = c.run /\ e.argv = c.argv
        /\ e.argc = c.argc
    BY NodeFields, NodeKeeps, Zenon
  <2>2. Led(c, x) = e
    BY <1>2 DEF Led
  <2> HIDE DEF e
  <2>3. QED  BY <1>2, <2>1, <2>2
<1>3. QED  BY <1>1, <1>2

LedFrom(e, c, x) ==
  /\ e.next = IF c.closed THEN x ELSE c.next
  /\ e.branch = IF ~c.closed THEN x ELSE c.branch
  /\ e.type = c.type /\ e.stmt = c.stmt /\ e.run = c.run
  /\ e.argv = c.argv /\ e.argc = c.argc /\ e.closed = c.closed

LEMMA LedFields ==
  ASSUME NEW c \in Node, NEW x \in Nat
  PROVE  LedFrom(Led(c, x), c, x)
BY LedIs, Zenon DEF LedFrom

\* linkNode, to the field.
LEMMA NodeJoins ==
  ASSUME NEW w, GraphInv(w), NEW d \in Node, LinkNode(d)
  PROVE  /\ Len(nodes) \in Nat /\ Len(nodes') = Len(nodes) + 1 /\ nodes'[Len(nodes) + 1] = d
         /\ current' = Len(nodes) + 1
         /\ head' = IF head = 0 THEN Len(nodes) + 1 ELSE head
         /\ \A k \in 1..Len(nodes) :
              nodes'[k] = IF head # 0 /\ k = current THEN Led(nodes[k], Len(nodes) + 1)
                          ELSE nodes[k]
<1> DEFINE id == Len(nodes) + 1
           linked == IF head = 0 THEN nodes
                     ELSE IF nodes[current].closed THEN [nodes EXCEPT ![current].next = id]
                          ELSE [nodes EXCEPT ![current].branch = id]
<1>1. nodes \in Seq(Node) /\ Len(nodes) \in Nat /\ (head # 0 => current \in 1..Len(nodes))
  BY DEF GraphInv, GraphTypes, Pointers, Roots
<1>2. nodes' = Append(linked, d) /\ current' = id /\ head' = IF head = 0 THEN id ELSE head
  BY DEF LinkNode, NULL
<1>3. /\ linked \in Seq(Node) /\ Len(linked) = Len(nodes)
      /\ \A k \in 1..Len(nodes) :
           linked[k] = IF head # 0 /\ k = current THEN Led(nodes[k], id) ELSE nodes[k]
  <2>1. CASE head = 0
    BY <1>1, <2>1
  <2>2. CASE head # 0
    <3>1. nodes[current] \in Node /\ current \in 1..Len(nodes) /\ id \in Nat
      BY <1>1, <2>2
    <3>2. Led(nodes[current], id) \in Node
      BY <3>1, LedIs
    <3>3. linked = [nodes EXCEPT ![current] = Led(nodes[current], id)]
      BY <2>2 DEF Led
    <3> HIDE DEF linked
    <3>4. /\ linked \in Seq(Node) /\ Len(linked) = Len(nodes)
          /\ \A k \in 1..Len(nodes) :
               linked[k] = IF k = current THEN Led(nodes[current], id) ELSE nodes[k]
      BY <1>1, <3>1, <3>2, <3>3, ExceptSeq
    <3>5. QED  BY <2>2, <3>4
  <2>3. QED  BY <2>1, <2>2
<1> HIDE DEF linked
<1>4. /\ Len(nodes') = Len(nodes) + 1 /\ nodes'[id] = d
      /\ \A k \in 1..Len(nodes) : nodes'[k] = linked[k]
  BY <1>1, <1>2, <1>3
<1>5. QED  BY <1>1, <1>2, <1>3, <1>4

\* One more node: statement S + 1 is no end.
LEMMA BuildGrows ==
  ASSUME NEW w, GraphInv(w), NEW m \in Seq(Stmt), NEW S \in 0..Len(m) - 1, Built(m, S, 0),
         m[S + 1].k # "end", NEW q, q = IF m[S + 1].k = "delay" THEN S + 1 ELSE 0,
         NEW d \in Node, LinkNode(d), runs' = runs,
         d.type = m[S + 1].k, d.stmt = S + 1, d.run = runs, d.next = 0, d.branch = 0,
         d.closed <=> d.type = "cmd", d.type # "cmd" => d.argv = m[S + 1].n,
         stack' = IF d.type = "cmd" THEN stack ELSE Append(stack, Len(nodes) + 1)
  PROVE  Built(m, S + 1, q)'
<1>0. PICK x : x = Len(nodes) + 1
  OBVIOUS
<1>1. /\ Len(m) \in Nat /\ S \in Nat /\ S < Len(m) /\ S + 1 \in 1..Len(m)
      /\ nodes \in Seq(Node) /\ stack \in Seq(Nat) /\ Len(stack) \in Nat
  BY DEF GraphInv, GraphTypes
<1>2. /\ Len(nodes) \in Nat /\ x \in Nat /\ Len(nodes') = x /\ nodes'[x] = d /\ current' = x
      /\ head' = IF head = 0 THEN x ELSE head
      /\ \A k \in 1..Len(nodes) :
           nodes'[k] = IF head # 0 /\ k = current THEN Led(nodes[k], x) ELSE nodes[k]
  BY <1>0, NodeJoins
<1>3. head = 0 <=> S = 0
  BY DEF Built, Ahead, At
<1>4. d.type \in {"cmd", "loop", "delay"}
  BY DEF Node
<1>5. \A k \in 1..Len(nodes) :
        /\ nodes'[k].type = nodes[k].type /\ nodes'[k].argv = nodes[k].argv
        /\ nodes'[k].stmt = nodes[k].stmt /\ nodes'[k].run = nodes[k].run
        /\ nodes'[k].closed = nodes[k].closed
        /\ S # 0 =>
             /\ nodes'[k].next = IF k = current /\ nodes[k].closed THEN x ELSE nodes[k].next
             /\ nodes'[k].branch = IF k = current /\ ~nodes[k].closed THEN x
                                   ELSE nodes[k].branch
  <2> TAKE k \in 1..Len(nodes)
  <2>1. nodes[k] \in Node
    BY <1>1
  <2>2. PICK e : e = Led(nodes[k], x)
    OBVIOUS
  <2>3. LedFrom(e, nodes[k], x)
    BY <1>2, <2>1, <2>2, LedFields
  <2>4. nodes'[k] = IF S # 0 /\ k = current THEN e ELSE nodes[k]
    BY <1>2, <1>3, <2>2
  <2>5. QED  BY <2>3, <2>4 DEF LedFrom
<1>6. /\ \A k \in 1..Len(nodes) : Own(k)' <=> Own(k)
      /\ Own(x)' /\ At(S + 1, x)'
      /\ \A i : \A k \in 1..Len(nodes) : At(i, k)' <=> At(i, k)
  <2>1. x \in 1..Len(nodes') /\ \A k \in 1..Len(nodes) : k \in 1..Len(nodes')
    BY <1>0, <1>2
  <2>2. Own(x)' /\ At(S + 1, x)'
    BY <1>2, <2>1 DEF Own, At
  <2>3. \A k \in 1..Len(nodes) : Own(k)' <=> Own(k)
    BY <1>5, <2>1 DEF Own
  <2>4. \A i : \A k \in 1..Len(nodes) : At(i, k)' <=> At(i, k)
    BY <1>5, <2>1 DEF At
  <2>5. QED  BY <2>2, <2>3, <2>4
<1>7. \A k \in 1..Len(nodes) : Own(k) => nodes[k].stmt \in 1..S
  BY DEF Built, Linked
<1>8. Walk!Land(m, S + 1) = S + 1
  BY DEF Walk!Land
<1>9. ASSUME NEW i \in 1..S + 1, m[i].k = "loop"
      PROVE  Closes(m, S + 1, i) <=> i # S + 1 /\ Closes(m, S, i)
  <2>1. i \in 1..Len(m)
    BY <1>1
  <2>2. Walk!Ends(m, i) # {} => /\ Walk!Min(Walk!Ends(m, i)) \in i + 1..Len(m)
                                /\ m[Walk!Min(Walk!Ends(m, i))].k = "end"
    BY <2>1, EndsAre DEF Walk!Ends
  <2>3. QED  BY <1>1, <2>2 DEF Closes
<1>10. Covered(m, S + 1)'
  <2>1. \A i \in 1..S + 1 : m[i].k # "end" => \E k \in 1..Len(nodes') : At(i, k)'
    <3>1. \A i \in 1..S : m[i].k # "end" => \E k \in 1..Len(nodes) : At(i, k)
      BY DEF Built, Covered
    <3>2. ASSUME NEW i \in 1..S + 1, m[i].k # "end"
          PROVE  \E k \in 1..Len(nodes') : At(i, k)'
      <4>1. x \in 1..Len(nodes') /\ \A k \in 1..Len(nodes) : k \in 1..Len(nodes')
        BY <1>0, <1>2
      <4>2. CASE i = S + 1
        BY <1>6, <4>1, <4>2
      <4>3. CASE i # S + 1
        <5>1. i \in 1..S
          BY <1>1, <4>3
        <5>2. PICK k \in 1..Len(nodes) : At(i, k)
          BY <3>1, <3>2, <5>1
        <5>3. QED  BY <1>6, <4>1, <5>2
      <4>4. QED  BY <4>2, <4>3
    <3>3. QED  BY <3>2
  <2>2. \A k, e \in 1..Len(nodes') :
          Own(k)' /\ Own(e)' /\ nodes'[k].stmt = nodes'[e].stmt => k = e
    <3>1. \A k, e \in 1..Len(nodes) :
            Own(k) /\ Own(e) /\ nodes[k].stmt = nodes[e].stmt => k = e
      BY DEF Built, Covered
    <3>2. \A k \in 1..Len(nodes') : k = x \/ k \in 1..Len(nodes)
      BY <1>0, <1>2
    <3>3. \A k \in 1..Len(nodes) : Own(k) => nodes'[k].stmt # S + 1
      BY <1>1, <1>5, <1>7
    <3>4. nodes'[x].stmt = S + 1
      BY <1>2
    <3>5. QED  BY <1>5, <1>6, <3>1, <3>2, <3>3, <3>4
  <2>3. QED  BY <2>1, <2>2 DEF Covered
<1>11. \A k \in 1..Len(nodes) : Own(k) => Linked(m, S + 1, q, k)'
  <2>1. \A k \in 1..Len(nodes) : Own(k) =>
          (nodes'[k].closed <=> (m[nodes[k].stmt].k = "loop" => Closes(m, S + 1, nodes[k].stmt)))
    <3> SUFFICES ASSUME NEW k \in 1..Len(nodes), Own(k)
                 PROVE  nodes'[k].closed <=>
                          (m[nodes[k].stmt].k = "loop" => Closes(m, S + 1, nodes[k].stmt))
      OBVIOUS
    <3>1. /\ nodes[k].stmt \in 1..S /\ nodes[k].stmt \in 1..S + 1 /\ nodes[k].stmt # S + 1
          /\ nodes[k].closed <=> (m[nodes[k].stmt].k = "loop" => Closes(m, S, nodes[k].stmt))
      BY <1>1, <1>7 DEF Built, Linked
    <3>2. QED  BY <1>5, <1>9, <3>1
  <2>2. At(Walk!Land(m, S + 1), x)'
    BY <1>6, <1>8
  <2>3. Len(nodes) <= Len(nodes') /\ Len(nodes') \in Nat
    BY <1>0, <1>2
  <2>4. QED  BY <1>1, <1>5, <2>1, <2>2, <2>3, LinksGrow
<1>12. Linked(m, S + 1, q, x)'
  <2>1. Out(m, S + 1) \in S + 2..Len(m) + 1
    BY <1>1, EndsAre
  <2>2. \A j : j > S + 1 => Leads(m, S + 1, 0, j)'
    BY DEF Leads
  <2>3. Leads(m, S + 1, 0, Out(m, S + 1))' /\ Leads(m, S + 1, 0, S + 2)'
    BY <1>1, <2>1, <2>2
  <2>4. m[S + 1].k = "loop" => ~Closes(m, S + 1, S + 1)
    BY <1>1, <1>9
  <2>5. /\ nodes'[x].stmt = S + 1 /\ S + 1 \in 1..S + 1 /\ m[S + 1].k = nodes'[x].type
        /\ m[S + 1].k # "cmd" => nodes'[x].argv = m[S + 1].n
        /\ nodes'[x].next = 0 /\ nodes'[x].branch = 0 /\ (S + 1) + 1 = S + 2
        /\ S + 1 # q => m[S + 1].k # "delay"
        /\ S + 1 # q => (nodes'[x].closed <=> (m[S + 1].k = "loop" => Closes(m, S + 1, S + 1)))
    BY <1>1, <1>2, <1>4, <2>4
  <2>6. QED  BY <2>3, <2>5 DEF Linked
<1>13. EndsLead(m, S + 1)
  <2>1. EndsLead(m, S)
    BY DEF Built
  <2>2. \A e \in 1..S + 1 : m[e].k = "end" => e \in 1..S
    BY <1>1
  <2>3. \A i \in 1..S + 1 : m[i].k = "loop" /\ Closes(m, S + 1, i) =>
          i \in 1..S /\ Closes(m, S, i)
    BY <1>1, <1>9
  <2>4. QED  BY <2>1, <2>2, <2>3 DEF EndsLead
<1>14. Ahead(m, S + 1)'
  <2>1. At(1, head)'
    <3>1. CASE S = 0
      BY <1>2, <1>3, <1>6, <3>1
    <3>2. CASE S # 0
      <4>1. At(1, head) /\ head \in 1..Len(nodes) /\ head' = head
        BY <1>2, <1>3, <3>2 DEF Built, Ahead, At
      <4>2. PICK h : h = head
        OBVIOUS
      <4>3. At(1, h)' /\ h = head'
        BY <1>6, <4>1, <4>2
      <4>4. QED  BY <4>3
    <3>3. QED  BY <3>1, <3>2
  <2>2. At(Walk!Land(m, S + 1), current)'
    BY <1>2, <1>6, <1>8
  <2>3. S + 1 # 0
    BY <1>1
  <2>4. QED  BY <2>1, <2>2, <2>3 DEF Ahead
<1>15. OpenLoops(m, S + 1, q)'
  <2>1. PICK k, kk : k = Walk!Depth(m, 1, S + 1) /\ kk = Walk!Depth(m, 1, (S + 1) + 1)
    OBVIOUS
  <2>2. PICK base \in Nat : /\ k \in Nat /\ Len(stack) = base + k
                           /\ Stacked(m, S, k, base)
    BY <1>1, <2>1 DEF Built, OpenLoops
  <2>3. kk = k + (IF m[S + 1].k = "loop" THEN 1 ELSE 0) /\ kk \in Nat
    <3>1. S + 1 \in Nat /\ 1 <= S + 1 /\ 1 \in Nat
      BY <1>1
    <3>2. kk = k + (IF m[S + 1].k = "loop" THEN 1 ELSE 0)
                 - (IF m[S + 1].k = "end" THEN 1 ELSE 0)
      BY <2>1, <3>1, DepthIs
    <3>3. QED  BY <2>2, <3>2
  <2>4. /\ base \in 0..Len(stack') /\ Len(stack') = base + kk + (IF q = 0 THEN 0 ELSE 1)
        /\ \A n \in 1..Len(stack) : n \in 1..Len(stack') /\ stack'[n] = stack[n]
        /\ d.type # "cmd" => stack'[Len(stack')] = x /\ Len(stack') = Len(stack) + 1
    BY <1>0, <1>1, <1>4, <2>2, <2>3
  <2>5. ASSUME NEW n, NEW i, OnStack(n, i)  PROVE OnStack(n, i)'
    <3>1. PICK s : s = stack[n]
      OBVIOUS
    <3>2. n \in 1..Len(stack) /\ At(i, s) /\ s \in 1..Len(nodes)
      BY <2>5, <3>1 DEF OnStack, At
    <3>3. n \in 1..Len(stack') /\ s = stack'[n] /\ At(i, s)'
      BY <1>6, <2>4, <3>1, <3>2
    <3>4. QED  BY <3>3 DEF OnStack
  <2>6. ASSUME m[S + 1].k = "loop"
        PROVE  OnStack(base + kk, S + 1)' /\ Opens(m, S + 1, S + 1, 1) /\ kk = k + 1
    <3>1. kk = k + 1 /\ base + kk = Len(stack) + 1 /\ base + kk \in 1..Len(stack')
      BY <1>1, <2>2, <2>3, <2>4, <2>6
    <3>2. stack'[base + kk] = x
      BY <2>4, <2>6, <3>1
    <3>3. ~Closes(m, S + 1, S + 1)
      BY <1>1, <1>9, <2>6
    <3>4. S + 1 \in Nat /\ S + 1 <= S + 1
      BY <1>1
    <3>5. Walk!Depth(m, S + 1, (S + 1) + 1) = 1
      <4>1. Walk!Depth(m, S + 1, S + 1) = 0
        BY <3>4, DepthIs
      <4>2. Walk!Depth(m, S + 1, (S + 1) + 1) =
              Walk!Depth(m, S + 1, S + 1) + (IF m[S + 1].k = "loop" THEN 1 ELSE 0)
                                          - (IF m[S + 1].k = "end" THEN 1 ELSE 0)
        BY <3>4, DepthIs
      <4>3. QED  BY <2>6, <4>1, <4>2
    <3>6. OnStack(base + kk, S + 1)'
      BY <1>6, <3>1, <3>2 DEF OnStack
    <3>7. QED  BY <2>6, <3>1, <3>3, <3>5, <3>6 DEF Opens
  <2>7. ASSUME NEW i \in 1..S, NEW g \in Int, Opens(m, S, i, g)
        PROVE  Opens(m, S + 1, i, g + (kk - k))
    <3>1. i \in Nat /\ S + 1 \in Nat /\ i <= S + 1 /\ i \in 1..S + 1 /\ i # S + 1
      BY <1>1
    <3>2. Walk!Depth(m, i, (S + 1) + 1) =
            Walk!Depth(m, i, S + 1) + (IF m[S + 1].k = "loop" THEN 1 ELSE 0)
                                    - (IF m[S + 1].k = "end" THEN 1 ELSE 0)
      BY <3>1, DepthIs
    <3>3. m[i].k = "loop" /\ ~Closes(m, S, i) /\ Walk!Depth(m, i, S + 1) = g
      BY <2>7 DEF Opens
    <3>4. ~Closes(m, S + 1, i)
      BY <1>9, <3>1, <3>3
    <3>5. Walk!Depth(m, i, (S + 1) + 1) = g + (kk - k)
      BY <2>2, <2>3, <3>2, <3>3
    <3>6. QED  BY <3>3, <3>4, <3>5 DEF Opens
  <2>8. ASSUME NEW j \in 1..kk
        PROVE  \E i \in 1..S + 1 : OnStack(base + j, i)' /\ Opens(m, S + 1, i, kk - j + 1)
    <3>1. CASE j \in 1..k
      <4>1. PICK i \in 1..S : OnStack(base + j, i) /\ Opens(m, S, i, k - j + 1)
        BY <2>2, <3>1 DEF Stacked
      <4>2. i \in 1..S + 1 /\ k - j + 1 \in Int /\ (k - j + 1) + (kk - k) = kk - j + 1
        BY <1>1, <2>2, <2>3, <3>1
      <4>3. Opens(m, S + 1, i, (k - j + 1) + (kk - k))
        BY <2>7, <4>1, <4>2
      <4>4. OnStack(base + j, i)'
        BY <2>5, <4>1
      <4>5. QED  BY <4>2, <4>3, <4>4
    <3>2. CASE j \notin 1..k
      <4>1. m[S + 1].k = "loop" /\ j = kk /\ kk - j + 1 = 1 /\ S + 1 \in 1..S + 1
        BY <1>1, <2>2, <2>3, <3>2
      <4>2. QED  BY <2>6, <4>1
    <3>3. QED  BY <3>1, <3>2
  <2>9. ASSUME NEW i \in 1..S + 1, m[i].k = "loop", ~Closes(m, S + 1, i)
        PROVE  \E j \in 1..kk : OnStack(base + j, i)'
    <3>1. CASE i = S + 1
      <4>1. kk \in 1..kk
        BY <2>2, <2>6, <2>9, <3>1
      <4>2. QED  BY <2>6, <2>9, <3>1, <4>1
    <3>2. CASE i # S + 1
      <4>1. i \in 1..S /\ ~Closes(m, S, i)
        BY <1>1, <1>9, <2>9, <3>2
      <4>2. PICK j \in 1..k : OnStack(base + j, i)
        BY <2>2, <2>9, <4>1 DEF Stacked
      <4>3. j \in 1..kk
        BY <2>2, <2>3
      <4>4. QED  BY <2>5, <4>2, <4>3
    <3>3. QED  BY <3>1, <3>2
  <2>10. Stacked(m, S + 1, kk, base)'
    BY <2>8, <2>9 DEF Stacked
  <2>11. q # 0 => q = S + 1 /\ m[S + 1].k = "delay" /\ stack'[Len(stack')] = current'
    BY <1>1, <1>2, <2>4
  <2>12. QED  BY <2>1, <2>3, <2>4, <2>10, <2>11 DEF OpenLoops
<1>16. \A k \in 1..Len(nodes') : k = x \/ k \in 1..Len(nodes)
  BY <1>0, <1>2
<1>17. S + 1 \in 0..Len(m)
  BY <1>1
<1>18. \A k \in 1..Len(nodes') : Own(k)' => Linked(m, S + 1, q, k)'
  BY <1>6, <1>11, <1>12, <1>16
<1>19. QED  BY <1>10, <1>13, <1>14, <1>15, <1>17, <1>18 DEF Built, EndsLead


\* What is left of closeControlNode when the stack is not empty.
Closing ==
  LET d == stack[Len(stack)]
      linked == IF d = current THEN [nodes EXCEPT ![current].branch = current]
                ELSE [nodes EXCEPT ![current].next = d]
  IN /\ nodes' = [linked EXCEPT ![d].closed = TRUE]
     /\ current' = d /\ stackPop
     /\ UNCHANGED <<head, runs>>

\* closeControlNode, to the field.
LEMMA NodeCloses ==
  ASSUME NEW w, GraphInv(w), NEW d, stack # <<>>, d = stack[Len(stack)],
         current \in 1..Len(nodes), Closing
  PROVE  /\ Len(nodes') = Len(nodes) /\ current' = d /\ d \in 1..Len(nodes)
         /\ \A k \in 1..Len(nodes) :
              /\ nodes'[k].type = nodes[k].type /\ nodes'[k].stmt = nodes[k].stmt
              /\ nodes'[k].run = nodes[k].run /\ nodes'[k].argv = nodes[k].argv
              /\ nodes'[k].argc = nodes[k].argc
              /\ nodes'[k].next = IF k = current /\ d # current THEN d ELSE nodes[k].next
              /\ nodes'[k].branch = IF k = current /\ d = current THEN d ELSE nodes[k].branch
              /\ k = d => nodes'[k].closed
              /\ k # d => (nodes'[k].closed <=> nodes[k].closed)
<1> DEFINE c == nodes[current]
           e == IF d = current THEN [c EXCEPT !.branch = d] ELSE [c EXCEPT !.next = d]
           linked == [nodes EXCEPT ![current] = e]
<1>1. /\ nodes \in Seq(Node) /\ Len(nodes) \in Nat /\ stack \in Seq(Nat)
      /\ \A i \in 1..Len(stack) : stack[i] \in 1..Len(nodes)
  BY DEF GraphInv, GraphTypes, Pointers
<1>2. nodes' = [linked EXCEPT ![d].closed = TRUE] /\ current' = d
  BY DEF Closing
<1>3. d \in 1..Len(nodes)
  <2>1. Len(stack) \in 1..Len(stack)
    BY <1>1
  <2>2. QED  BY <1>1, <2>1
<1>4. c \in Node /\ d \in Nat
  BY <1>1, <1>3
<1> HIDE DEF c
<1>5. /\ e \in Node /\ e.type = c.type /\ e.stmt = c.stmt /\ e.run = c.run
      /\ e.argv = c.argv /\ e.argc = c.argc /\ e.closed = c.closed
      /\ e.next = IF d # current THEN d ELSE c.next
      /\ e.branch = IF d = current THEN d ELSE c.branch
  <2>1. CASE d = current
    <3> DEFINE f == [c EXCEPT !.branch = d]
    <3>1. /\ f \in Node /\ f.type = c.type /\ f.stmt = c.stmt /\ f.run = c.run
          /\ f.argv = c.argv /\ f.argc = c.argc /\ f.closed = c.closed
          /\ f.next = c.next /\ f.branch = d
      BY <1>4, NodeFields, NodeKeeps, Zenon
    <3>2. e = f
      BY <2>1
    <3> HIDE DEF e, f
    <3>3. QED  BY <2>1, <3>1, <3>2
  <2>2. CASE d # current
    <3> DEFINE f == [c EXCEPT !.next = d]
    <3>1. /\ f \in Node /\ f.type = c.type /\ f.stmt = c.stmt /\ f.run = c.run
          /\ f.argv = c.argv /\ f.argc = c.argc /\ f.closed = c.closed
          /\ f.next = d /\ f.branch = c.branch
      BY <1>4, NodeFields, NodeKeeps, Zenon
    <3>2. e = f
      BY <2>2
    <3> HIDE DEF e, f
    <3>3. QED  BY <2>2, <3>1, <3>2
  <2>3. QED  BY <2>1, <2>2
<1> HIDE DEF e
<1>6. /\ linked \in Seq(Node) /\ Len(linked) = Len(nodes)
      /\ \A k \in 1..Len(nodes) : linked[k] = IF k = current THEN e ELSE nodes[k]
  BY <1>1, <1>5, ExceptSeq
<1> HIDE DEF linked
<1> DEFINE g == [linked[d] EXCEPT !.closed = TRUE]
<1>7. linked[d] \in Node
  BY <1>3, <1>6
<1>8. /\ g \in Node /\ g.type = linked[d].type /\ g.stmt = linked[d].stmt
      /\ g.run = linked[d].run /\ g.argv = linked[d].argv /\ g.argc = linked[d].argc
      /\ g.next = linked[d].next /\ g.branch = linked[d].branch /\ g.closed
  BY <1>4, <1>7, NodeFields, NodeKeeps, Zenon
<1>9. nodes' = [linked EXCEPT ![d] = g]
  BY <1>2
<1> HIDE DEF g
<1>10. /\ Len(nodes') = Len(nodes)
       /\ \A k \in 1..Len(nodes) : nodes'[k] = IF k = d THEN g ELSE linked[k]
  BY <1>3, <1>6, <1>8, <1>9, ExceptSeq
<1>11. ASSUME NEW k \in 1..Len(nodes)
       PROVE  /\ linked[k].type = nodes[k].type /\ linked[k].stmt = nodes[k].stmt
              /\ linked[k].run = nodes[k].run /\ linked[k].argv = nodes[k].argv
              /\ linked[k].argc = nodes[k].argc /\ linked[k].closed = nodes[k].closed
              /\ linked[k].next = IF k = current /\ d # current THEN d ELSE nodes[k].next
              /\ linked[k].branch = IF k = current /\ d = current THEN d ELSE nodes[k].branch
  <2>1. CASE k = current
    <3>1. linked[k] = e /\ nodes[k] = c
      BY <1>6, <2>1 DEF c
    <3>2. QED  BY <1>5, <2>1, <3>1
  <2>2. CASE k # current
    <3>1. linked[k] = nodes[k]
      BY <1>6, <2>2
    <3>2. QED  BY <2>2, <3>1
  <2>3. QED  BY <2>1, <2>2
<1>12. ASSUME NEW k \in 1..Len(nodes)
       PROVE  /\ nodes'[k].type = nodes[k].type /\ nodes'[k].stmt = nodes[k].stmt
              /\ nodes'[k].run = nodes[k].run /\ nodes'[k].argv = nodes[k].argv
              /\ nodes'[k].argc = nodes[k].argc
              /\ nodes'[k].next = IF k = current /\ d # current THEN d ELSE nodes[k].next
              /\ nodes'[k].branch = IF k = current /\ d = current THEN d ELSE nodes[k].branch
              /\ k = d => nodes'[k].closed
              /\ k # d => (nodes'[k].closed <=> nodes[k].closed)
  <2>1. CASE k = d
    <3>1. nodes'[k] = g
      BY <1>10, <2>1
    <3>2. QED  BY <1>8, <1>11, <2>1, <3>1
  <2>2. CASE k # d
    <3>1. nodes'[k] = linked[k]
      BY <1>10, <2>2
    <3>2. QED  BY <1>11, <2>2, <3>1
  <2>3. QED  BY <2>1, <2>2
<1>13. QED  BY <1>2, <1>3, <1>10, <1>12

\* The loop that an end closes is the one on top of the stack.
LEMMA TopIs ==
  ASSUME NEW w, GraphInv(w), NEW m \in Seq(Stmt), NEW S \in 0..Len(m) - 1, Built(m, S, 0),
         m[S + 1].k = "end", Walk!EndsMatch(m),
         NEW k, k = Walk!Depth(m, 1, S + 1), NEW base \in Nat, k \in Nat,
         Len(stack) = base + k, Stacked(m, S, k, base)
  PROVE  /\ k # 0 /\ Walk!Depth(m, 1, (S + 1) + 1) = k - 1
         /\ \E o \in 1..S :
              /\ OnStack(base + k, o) /\ Opens(m, S, o, 1)
              /\ Walk!Ends(m, o) # {} /\ Walk!Min(Walk!Ends(m, o)) = S + 1
              /\ Walk!LoopOf(m, S + 1) = o
              /\ \A i \in 1..S : m[i].k = "loop" /\ i # o =>
                   (Closes(m, S + 1, i) <=> Closes(m, S, i))
<1>1. Len(m) \in Nat /\ S \in Nat /\ S < Len(m) /\ S + 1 \in 1..Len(m) /\ 1 <= S + 1 /\ 1 \in Nat
  OBVIOUS
<1>2. Walk!Depth(m, 1, (S + 1) + 1) = k - 1 /\ k # 0
  <2>1. Walk!Depth(m, 1, (S + 1) + 1) =
          Walk!Depth(m, 1, S + 1) + (IF m[S + 1].k = "loop" THEN 1 ELSE 0)
                                  - (IF m[S + 1].k = "end" THEN 1 ELSE 0)
    <3>1. S + 1 \in Nat /\ 1 <= S + 1 /\ 1 \in Nat
      BY <1>1
    <3>2. QED  BY <3>1, DepthIs
  <2>2. Walk!Depth(m, 1, (S + 1) + 1) >= 0
    BY <1>1 DEF Walk!EndsMatch
  <2>3. QED  BY <2>1, <2>2
<1>3. PICK o \in 1..S : OnStack(base + k, o) /\ Opens(m, S, o, k - k + 1)
  <2>1. k \in 1..k
    BY <1>2
  <2>2. QED  BY <2>1 DEF Stacked
<1>4. Opens(m, S, o, 1) /\ m[o].k = "loop" /\ ~Closes(m, S, o) /\ Walk!Depth(m, o, S + 1) = 1
  <2>1. k - k + 1 = 1
    OBVIOUS
  <2>2. QED  BY <1>3, <2>1 DEF Opens
<1>5. Walk!Ends(m, o) # {} /\ Walk!Min(Walk!Ends(m, o)) = S + 1
  <2>1. S + 1 \in Walk!Ends(m, o) /\ o \in 1..Len(m)
    BY <1>1, <1>4 DEF Walk!Ends
  <2>2. Walk!Ends(m, o) \in SUBSET Nat /\ Walk!Ends(m, o) # {}
    BY <1>1, <2>1, EndsAre
  <2>3. /\ Walk!Min(Walk!Ends(m, o)) \in Nat
        /\ \A y \in Walk!Ends(m, o) : Walk!Min(Walk!Ends(m, o)) <= y
    BY <2>2, LeastIs
  <2>4. Walk!Min(Walk!Ends(m, o)) > S
    BY <1>1, <1>4, <2>2, <2>3 DEF Closes
  <2>5. Walk!Min(Walk!Ends(m, o)) <= S + 1
    BY <2>1, <2>3
  <2>6. QED  BY <1>1, <2>2, <2>3, <2>4, <2>5
<1>6. ASSUME NEW i \in 1..S, m[i].k = "loop", i # o
      PROVE  /\ Closes(m, S + 1, i) <=> Closes(m, S, i)
             /\ Walk!Ends(m, i) # {} => Walk!Min(Walk!Ends(m, i)) # S + 1
  <2>1. i \in 1..Len(m)
    BY <1>1
  <2>2. Walk!Ends(m, i) # {} => /\ Walk!Min(Walk!Ends(m, i)) \in Walk!Ends(m, i)
                                /\ Walk!Min(Walk!Ends(m, i)) \in i + 1..Len(m)
    BY <2>1, EndsAre
  <2>3. Closes(m, S, i) => Closes(m, S + 1, i)
    BY <1>1, <2>1, <2>2 DEF Closes
  <2>4. Walk!Ends(m, i) # {} => Walk!Min(Walk!Ends(m, i)) # S + 1
    <3>1. CASE Closes(m, S, i)
      BY <1>1, <2>1, <2>2, <3>1 DEF Closes
    <3>2. CASE ~Closes(m, S, i)
      <4>1. PICK j \in 1..k : OnStack(base + j, i)
        BY <1>6, <3>2 DEF Stacked
      <4>2. PICK b \in 1..S : OnStack(base + j, b) /\ Opens(m, S, b, k - j + 1)
        BY DEF Stacked
      <4>3. b = i
        BY <4>1, <4>2 DEF OnStack, At
      <4>4. j # k
        BY <1>3, <1>6, <4>1 DEF OnStack, At
      <4>5. Walk!Depth(m, i, S + 1) = k - j + 1 /\ k - j + 1 # 1
        BY <4>2, <4>3, <4>4 DEF Opens
      <4>6. S + 1 \notin Walk!Ends(m, i)
        BY <4>5 DEF Walk!Ends
      <4>7. QED  BY <2>2, <4>6
    <3>3. QED  BY <3>1, <3>2
  <2>5. Closes(m, S + 1, i) => Closes(m, S, i)
    BY <1>1, <2>1, <2>2, <2>4 DEF Closes
  <2>6. QED  BY <2>3, <2>4, <2>5
<1>7. Walk!LoopOf(m, S + 1) = o
  <2>1. {b \in 1..(S + 1) - 1 : m[b].k = "loop" /\ Walk!Ends(m, b) # {}
                                /\ Walk!Min(Walk!Ends(m, b)) = S + 1} = {o}
    <3>1. (S + 1) - 1 = S
      BY <1>1
    <3>2. QED  BY <1>4, <1>5, <1>6, <3>1
  <2>2. Walk!Max({o}) = o
    BY <1>1 DEF Walk!Max
  <2>3. QED  BY <2>1, <2>2 DEF Walk!LoopOf
<1>8. QED  BY <1>2, <1>3, <1>4, <1>5, <1>6, <1>7

LEMMA Popped ==
  ASSUME NEW s \in Seq(Nat), s # <<>>, NEW t, t = SubSeq(s, 1, Len(s) - 1)
  PROVE  Len(t) = Len(s) - 1 /\ \A n \in 1..Len(t) : n \in 1..Len(s) /\ t[n] = s[n]
<1>1. Len(s) \in Nat /\ Len(s) # 0
  OBVIOUS
<1>2. PICK n : n = Len(s) - 1
  OBVIOUS
<1>3. n \in Nat /\ n <= Len(s)
  BY <1>1, <1>2
<1>4. /\ Len(SubSeq(s, 1, n)) = n
      /\ \A i \in 1..n : SubSeq(s, 1, n)[i] = s[i]
  BY <1>1, <1>3
<1>5. QED  BY <1>1, <1>2, <1>3, <1>4

LEMMA ClosingPops ==
  ASSUME Closing
  PROVE  stack' = SubSeq(stack, 1, Len(stack) - 1) /\ head' = head /\ runs' = runs
BY DEF Closing, stackPop

\* The end of a loop: statement S + 1 closes the loop on top of the stack.
LEMMA BuildLoops ==
  ASSUME NEW w, GraphInv(w), NEW m \in Seq(Stmt), NEW S \in 0..Len(m) - 1, Built(m, S, 0),
         m[S + 1].k = "end", Walk!EndsMatch(m)
  PROVE  stack # <<>> /\ (Closing => Built(m, S + 1, 0)')
<1>1. /\ Len(m) \in Nat /\ S \in Nat /\ S < Len(m) /\ S + 1 \in 1..Len(m) /\ (S + 1) - 1 = S
      /\ nodes \in Seq(Node) /\ Len(nodes) \in Nat /\ stack \in Seq(Nat) /\ Len(stack) \in Nat
  <2>1. Len(m) \in Nat
    OBVIOUS
  <2>2. S \in Nat /\ S < Len(m) /\ S + 1 \in 1..Len(m) /\ (S + 1) - 1 = S
    BY <2>1
  <2>3. nodes \in Seq(Node) /\ stack \in Seq(Nat)
    BY DEF GraphInv, GraphTypes
  <2>4. Len(nodes) \in Nat /\ Len(stack) \in Nat
    BY <2>3
  <2>5. QED  BY <2>1, <2>2, <2>3, <2>4
<1>2. PICK k : k = Walk!Depth(m, 1, S + 1)
  OBVIOUS
<1>3. PICK base \in Nat : k \in Nat /\ Len(stack) = base + k /\ Stacked(m, S, k, base)
  BY <1>1, <1>2 DEF Built, OpenLoops
<1>4. PICK o \in 1..S :
        /\ OnStack(base + k, o) /\ Opens(m, S, o, 1)
        /\ Walk!Ends(m, o) # {} /\ Walk!Min(Walk!Ends(m, o)) = S + 1
        /\ Walk!LoopOf(m, S + 1) = o
        /\ \A i \in 1..S : m[i].k = "loop" /\ i # o =>
             (Closes(m, S + 1, i) <=> Closes(m, S, i))
  BY <1>2, <1>3, TopIs
<1>5. k # 0 /\ Walk!Depth(m, 1, (S + 1) + 1) = k - 1
  BY <1>2, <1>3, TopIs
<1>6. stack # <<>>
  BY <1>1, <1>3, <1>5
<1>7. ASSUME Closing  PROVE Built(m, S + 1, 0)'
  <2>1. PICK d : d = stack[Len(stack)]
    OBVIOUS
  <2>2. At(o, d) /\ Own(d) /\ d \in 1..Len(nodes) /\ nodes[d].stmt = o
    BY <1>3, <1>4, <2>1 DEF OnStack, At, Own
  <2>3. S \in 1..Len(m) - 1 /\ S # 0
    BY <1>1
  <2>4. /\ At(1, head) /\ head \in 1..Len(nodes) /\ current \in 1..Len(nodes) /\ Own(current)
    BY <2>3 DEF Built, Ahead, At, Own
  <2>5. /\ Len(nodes') = Len(nodes) /\ current' = d /\ head' = head /\ runs' = runs
        /\ \A n \in 1..Len(nodes) :
             /\ nodes'[n].type = nodes[n].type /\ nodes'[n].stmt = nodes[n].stmt
             /\ nodes'[n].run = nodes[n].run /\ nodes'[n].argv = nodes[n].argv
             /\ nodes'[n].next = IF n = current /\ d # current THEN d ELSE nodes[n].next
             /\ nodes'[n].branch = IF n = current /\ d = current THEN d ELSE nodes[n].branch
             /\ n = d => nodes'[n].closed
             /\ n # d => (nodes'[n].closed <=> nodes[n].closed)
    BY <1>6, <1>7, <2>1, <2>4, NodeCloses, ClosingPops
  <2>6. \A n : Own(n)' <=> Own(n)
    BY <2>5 DEF Own
  <2>7. \A i, n : At(i, n)' <=> At(i, n)
    BY <2>5 DEF At
  <2>8. \A n \in 1..Len(nodes) : Own(n) =>
          /\ nodes[n].stmt \in 1..S
          /\ nodes[n].closed <=> (m[nodes[n].stmt].k = "loop" => Closes(m, S, nodes[n].stmt))
    BY <2>3 DEF Built, Linked
  <2>9. m[o].k = "loop" /\ ~Closes(m, S, o) /\ Walk!Depth(m, o, S + 1) = 1 /\ Closes(m, S + 1, o)
    BY <1>1, <1>4 DEF Opens, Closes
  <2>10. d = current <=> ~nodes[current].closed
    <3>1. ASSUME d = current  PROVE ~nodes[current].closed
      BY <2>2, <2>8, <2>9, <3>1
    <3>2. ASSUME ~nodes[current].closed  PROVE d = current
      <4>1. nodes[current].stmt = S /\ m[S].k = "loop"
        BY <1>1, <2>3, <2>4, <3>2, CurrentIs
      <4>2. ~Closes(m, S, S)
        BY <2>4, <2>8, <3>2, <4>1
      <4>3. S \in 1..S
        BY <2>3
      <4>4. PICK j \in 1..k : OnStack(base + j, S)
        BY <1>3, <4>1, <4>2, <4>3 DEF Stacked
      <4>5. PICK i \in 1..S : OnStack(base + j, i) /\ Opens(m, S, i, k - j + 1)
        BY <1>3 DEF Stacked
      <4>6. i = S
        BY <4>4, <4>5 DEF OnStack, At
      <4>7. Walk!Depth(m, S, S + 1) = 1
        <5>1. S \in Nat /\ S <= S
          BY <1>1
        <5>2. Walk!Depth(m, S, S) = 0
          BY <5>1, DepthIs
        <5>3. Walk!Depth(m, S, S + 1) =
                Walk!Depth(m, S, S) + (IF m[S].k = "loop" THEN 1 ELSE 0)
                                    - (IF m[S].k = "end" THEN 1 ELSE 0)
          BY <5>1, DepthIs
        <5>4. QED  BY <4>1, <5>2, <5>3
      <4>8. j = k
        BY <1>3, <4>5, <4>6, <4>7 DEF Opens
      <4>9. o = S
        BY <1>4, <4>4, <4>8 DEF OnStack, At
      <4>10. QED  BY <2>2, <2>4, <4>1, <4>9 DEF Built, Covered
    <3>3. QED  BY <3>1, <3>2
  <2>11. ASSUME NEW n \in 1..Len(nodes), Own(n)
         PROVE  nodes'[n].closed <=>
                  (m[nodes[n].stmt].k = "loop" => Closes(m, S + 1, nodes[n].stmt))
    <3>1. PICK i : i = nodes[n].stmt
      OBVIOUS
    <3>2. i \in 1..S /\ (nodes[n].closed <=> (m[i].k = "loop" => Closes(m, S, i)))
      BY <2>8, <2>11, <3>1
    <3>3. CASE n = d
      BY <2>2, <2>5, <2>9, <3>1, <3>3
    <3>4. CASE n # d
      <4>1. i # o
        BY <2>2, <2>11, <3>1, <3>4 DEF Built, Covered
      <4>2. m[i].k = "loop" => (Closes(m, S + 1, i) <=> Closes(m, S, i))
        BY <1>4, <3>2, <4>1
      <4>3. nodes'[n].closed <=> nodes[n].closed
        BY <2>5, <3>4
      <4>4. QED  BY <3>1, <3>2, <4>2, <4>3
    <3>5. QED  BY <3>3, <3>4
  <2>12. Walk!Land(m, S + 1) = o /\ At(Walk!Land(m, S + 1), d)'
    <3>1. Walk!Land(m, S + 1) = o
      BY <1>1, <1>4 DEF Walk!Land
    <3>2. At(o, d)'
      BY <2>2, <2>7
    <3>3. QED  BY <3>1, <3>2
  <2>13. \A n \in 1..Len(nodes') : Own(n)' => Linked(m, S + 1, 0, n)'
    <3>1. ASSUME NEW n \in 1..Len(nodes)
          PROVE  /\ nodes'[n].next
                      = IF n = current /\ nodes[n].closed THEN d ELSE nodes[n].next
                 /\ nodes'[n].branch
                      = IF n = current /\ ~nodes[n].closed THEN d ELSE nodes[n].branch
      BY <2>5, <2>10
    <3>2. \A n \in 1..Len(nodes) : Own(n) => Linked(m, S + 1, 0, n)'
      <4>1. Len(nodes) <= Len(nodes') /\ Len(nodes') \in Nat
        BY <1>1, <2>5
      <4>2. \A n \in 1..Len(nodes) :
              /\ nodes'[n].type = nodes[n].type /\ nodes'[n].argv = nodes[n].argv
              /\ nodes'[n].stmt = nodes[n].stmt /\ nodes'[n].run = nodes[n].run
        BY <2>5
      <4>3. nodes \in Seq(Node) /\ runs' = runs /\ At(Walk!Land(m, S + 1), d)'
        BY <1>1, <2>5, <2>12
      <4>4. QED  BY <2>11, <3>1, <4>1, <4>2, <4>3, LinksGrow
    <3>3. QED  BY <2>5, <2>6, <3>2
  <2>14. Covered(m, S + 1)'
    <3>1. \A i \in 1..S + 1 : m[i].k # "end" => i \in 1..S
      BY <1>1
    <3>2. \A i \in 1..S : m[i].k # "end" => \E n \in 1..Len(nodes) : At(i, n)
      BY DEF Built, Covered
    <3>3. \A n, e \in 1..Len(nodes) : Own(n) /\ Own(e) /\ nodes[n].stmt = nodes[e].stmt => n = e
      BY DEF Built, Covered
    <3>4. \A n, e \in 1..Len(nodes') :
            Own(n)' /\ Own(e)' /\ nodes'[n].stmt = nodes'[e].stmt => n = e
      BY <2>5, <2>6, <3>3
    <3>5. \A i \in 1..S + 1 : m[i].k # "end" => \E n \in 1..Len(nodes') : At(i, n)'
      BY <2>5, <2>7, <3>1, <3>2
    <3>6. QED  BY <3>4, <3>5 DEF Covered
  <2>15. EndsLead(m, S + 1)
    <3>1. EndsLead(m, S) /\ \A i \in 1..S + 1 : i = S + 1 \/ i \in 1..S
      BY <1>1 DEF Built
    <3>2. o \in 1..(S + 1) - 1 /\ m[S + 1].k # "loop"
      BY <1>1
    <3>3. QED  BY <1>4, <2>9, <3>1, <3>2 DEF EndsLead
  <2>16. Ahead(m, S + 1)'
    <3>1. S + 1 # 0 /\ At(1, head)' /\ At(Walk!Land(m, S + 1), current)'
      <4>1. PICK h : h = head
        OBVIOUS
      <4>2. At(1, h)' /\ h = head'
        BY <2>4, <2>5, <2>7, <4>1
      <4>3. QED  BY <1>1, <2>5, <2>12, <4>2
    <3>2. QED  BY <3>1 DEF Ahead
  <2>17. OpenLoops(m, S + 1, 0)'
    <3>1. /\ Len(stack') = base + (k - 1) + 0 /\ k - 1 \in Nat /\ base \in 0..Len(stack')
          /\ \A n \in 1..Len(stack') : n \in 1..Len(stack) /\ stack'[n] = stack[n]
          /\ \A j \in 1..k - 1 : base + j \in 1..Len(stack')
      <4>1. stack' = SubSeq(stack, 1, Len(stack) - 1)
        BY <1>7, ClosingPops
      <4>2. /\ Len(stack') = Len(stack) - 1
            /\ \A n \in 1..Len(stack') : n \in 1..Len(stack) /\ stack'[n] = stack[n]
        BY <1>1, <1>6, <4>1, Popped
      <4>3. /\ k \in Nat /\ k # 0 /\ base \in Nat /\ Len(stack) = base + k
            /\ Len(stack') = Len(stack) - 1
        BY <1>3, <1>5, <4>2
      <4>4. /\ Len(stack') = base + (k - 1) + 0 /\ k - 1 \in Nat /\ base \in 0..Len(stack')
            /\ \A j \in 1..k - 1 : base + j \in 1..Len(stack')
        BY <4>3
      <4>5. QED  BY <4>2, <4>4
    <3>2. ASSUME NEW j \in 1..k - 1, NEW i, OnStack(base + j, i)
          PROVE  OnStack(base + j, i)'
      <4>1. PICK s : s = stack[base + j]
        OBVIOUS
      <4>2. base + j \in 1..Len(stack') /\ s = stack'[base + j] /\ At(i, s)'
        BY <2>7, <3>1, <3>2, <4>1 DEF OnStack
      <4>3. QED  BY <4>2 DEF OnStack
    <3>3. ASSUME NEW j \in 1..k - 1
          PROVE  \E i \in 1..S + 1 :
                   OnStack(base + j, i)' /\ Opens(m, S + 1, i, (k - 1) - j + 1)
      <4>1. j \in 1..k
        BY <1>3
      <4>2. PICK i \in 1..S : OnStack(base + j, i) /\ Opens(m, S, i, k - j + 1)
        BY <1>3, <4>1 DEF Stacked
      <4>3. Walk!Depth(m, i, S + 1) = k - j + 1 /\ m[i].k = "loop" /\ ~Closes(m, S, i)
        BY <4>2 DEF Opens
      <4>4. i # o
        BY <1>3, <2>9, <4>3
      <4>5. ~Closes(m, S + 1, i)
        BY <1>4, <4>3, <4>4
      <4>6. Walk!Depth(m, i, (S + 1) + 1) = (k - 1) - j + 1
        <5>1. i \in Nat /\ S + 1 \in Nat /\ i <= S + 1
          BY <1>1
        <5>2. Walk!Depth(m, i, (S + 1) + 1) =
                Walk!Depth(m, i, S + 1) + (IF m[S + 1].k = "loop" THEN 1 ELSE 0)
                                        - (IF m[S + 1].k = "end" THEN 1 ELSE 0)
          BY <5>1, DepthIs
        <5>3. QED  BY <1>3, <4>3, <5>2
      <4>7. i \in 1..S + 1
        BY <1>1
      <4>8. QED  BY <3>2, <4>2, <4>3, <4>5, <4>6, <4>7 DEF Opens
    <3>4. ASSUME NEW i \in 1..S + 1, m[i].k = "loop", ~Closes(m, S + 1, i)
          PROVE  \E j \in 1..k - 1 : OnStack(base + j, i)'
      <4>1. i \in 1..S /\ i # o
        BY <1>1, <2>9, <3>4
      <4>2. ~Closes(m, S, i)
        BY <1>4, <3>4, <4>1
      <4>3. PICK j \in 1..k : OnStack(base + j, i)
        BY <1>3, <3>4, <4>1, <4>2 DEF Stacked
      <4>4. j # k
        BY <1>4, <4>1, <4>3 DEF OnStack, At
      <4>5. j \in 1..k - 1
        BY <1>3, <4>4
      <4>6. QED  BY <3>2, <4>3, <4>5
    <3>5. Stacked(m, S + 1, k - 1, base)'
      BY <3>3, <3>4 DEF Stacked
    <3>6. QED  BY <1>5, <3>1, <3>5 DEF OpenLoops
  <2>18. S + 1 \in 0..Len(m)
    BY <1>1
  <2>19. QED  BY <2>13, <2>14, <2>15, <2>16, <2>17, <2>18 DEF Built, EndsLead
<1>8. QED  BY <1>6, <1>7

\* The node of a delay is closed: it is the branch of itself.
LEMMA BuildDelays ==
  ASSUME NEW w, GraphInv(w), NEW m \in Seq(Stmt), NEW S \in 1..Len(m), Built(m, S, S)
  PROVE  stack # <<>> /\ (Closing => Built(m, S, 0)')
<1>1. /\ Len(m) \in Nat /\ S \in Nat /\ S # 0
      /\ nodes \in Seq(Node) /\ Len(nodes) \in Nat /\ stack \in Seq(Nat) /\ Len(stack) \in Nat
  <2>1. Len(m) \in Nat
    OBVIOUS
  <2>2. S \in Nat /\ S # 0
    BY <2>1
  <2>3. nodes \in Seq(Node) /\ stack \in Seq(Nat)
    BY DEF GraphInv, GraphTypes
  <2>4. Len(nodes) \in Nat /\ Len(stack) \in Nat
    BY <2>3
  <2>5. QED  BY <2>1, <2>2, <2>3, <2>4
<1>2. PICK k : k = Walk!Depth(m, 1, S + 1)
  OBVIOUS
<1>3. PICK base \in Nat : /\ k \in Nat /\ Len(stack) = base + k + 1 /\ Stacked(m, S, k, base)
                          /\ m[S].k = "delay" /\ stack[Len(stack)] = current
  BY <1>1, <1>2 DEF Built, OpenLoops
<1>4. stack # <<>>
  BY <1>1, <1>3
<1>5. ASSUME Closing  PROVE Built(m, S, 0)'
  <2>1. PICK d : d = current
    OBVIOUS
  <2>2. /\ At(1, head) /\ At(S, d) /\ d \in 1..Len(nodes) /\ Own(d) /\ nodes[d].stmt = S
    <3>1. Walk!Land(m, S) = S
      BY <1>3 DEF Walk!Land
    <3>2. QED  BY <1>1, <2>1, <3>1 DEF Built, Ahead, At, Own
  <2>3. /\ Len(nodes') = Len(nodes) /\ current' = d /\ head' = head /\ runs' = runs
        /\ \A n \in 1..Len(nodes) :
             /\ nodes'[n].type = nodes[n].type /\ nodes'[n].stmt = nodes[n].stmt
             /\ nodes'[n].run = nodes[n].run /\ nodes'[n].argv = nodes[n].argv
             /\ nodes'[n].next = nodes[n].next
             /\ nodes'[n].branch = IF n = d THEN d ELSE nodes[n].branch
             /\ n = d => nodes'[n].closed
             /\ n # d => (nodes'[n].closed <=> nodes[n].closed)
    BY <1>3, <1>4, <1>5, <2>1, <2>2, NodeCloses, ClosingPops
  <2>4. \A n : Own(n)' <=> Own(n)
    BY <2>3 DEF Own
  <2>5. \A i, n : At(i, n)' <=> At(i, n)
    BY <2>3 DEF At
  <2>6. \A n, j : Leads(m, S, n, j)' <=> Leads(m, S, n, j)
    BY <2>5 DEF Leads
  <2>7. ASSUME NEW n \in 1..Len(nodes), Own(n)
        PROVE  Linked(m, S, 0, n)'
    <3>1. PICK i, next, branch : i = nodes[n].stmt /\ next = nodes'[n].next
                                                   /\ branch = nodes'[n].branch
      OBVIOUS
    <3>2. Linked(m, S, S, n)
      BY <2>7 DEF Built
    <3>3. i \in 1..S /\ nodes'[n].stmt = i /\ i # 0
      BY <2>3, <3>1, <3>2 DEF Linked
    <3>4. i = S <=> n = d
      BY <2>2, <2>7, <3>1 DEF Built, Covered
    <3>5. Leads(m, S, next, Out(m, i))'
      <4>1. Leads(m, S, next, Out(m, i))
        BY <2>3, <3>1, <3>2 DEF Linked
      <4>2. QED  BY <2>6, <4>1
    <3>6. ASSUME m[i].k = "loop"  PROVE Leads(m, S, branch, i + 1)'
      <4>1. n # d
        BY <1>3, <3>4, <3>6
      <4>2. Leads(m, S, branch, i + 1)
        BY <2>3, <3>1, <3>2, <3>6, <4>1 DEF Linked
      <4>3. QED  BY <2>6, <4>2
    <3>7. m[i].k = "delay" => branch = n
      BY <2>3, <3>1, <3>2, <3>4 DEF Linked
    <3>8. nodes'[n].closed <=> (m[i].k = "loop" => Closes(m, S, i))
      <4>1. CASE n = d
        BY <1>3, <2>3, <3>4, <4>1
      <4>2. CASE n # d
        <5>1. nodes'[n].closed <=> nodes[n].closed
          BY <2>3, <4>2
        <5>2. nodes[n].closed <=> (m[i].k = "loop" => Closes(m, S, i))
          BY <3>1, <3>2, <3>4, <4>2 DEF Linked
        <5>3. QED  BY <5>1, <5>2
      <4>3. QED  BY <4>1, <4>2
    <3>9. m[i].k = nodes'[n].type /\ (m[i].k # "cmd" => nodes'[n].argv = m[i].n)
      BY <2>3, <3>1, <3>2 DEF Linked
    <3>10. QED  BY <3>1, <3>3, <3>5, <3>6, <3>7, <3>8, <3>9 DEF Linked
  <2>8. Covered(m, S)'
    <3>1. /\ \A i \in 1..S : m[i].k # "end" => \E n \in 1..Len(nodes) : At(i, n)
          /\ \A n, e \in 1..Len(nodes) :
               Own(n) /\ Own(e) /\ nodes[n].stmt = nodes[e].stmt => n = e
      BY DEF Built, Covered
    <3>2. \A n, e \in 1..Len(nodes') :
            Own(n)' /\ Own(e)' /\ nodes'[n].stmt = nodes'[e].stmt => n = e
      BY <2>3, <2>4, <3>1
    <3>3. \A i \in 1..S : m[i].k # "end" => \E n \in 1..Len(nodes') : At(i, n)'
      BY <2>3, <2>5, <3>1
    <3>4. QED  BY <3>2, <3>3 DEF Covered
  <2>9. Ahead(m, S)'
    <3>1. PICK h : h = head
      OBVIOUS
    <3>2. At(1, h)' /\ h = head' /\ At(S, current)' /\ Walk!Land(m, S) = S
      BY <1>3, <2>2, <2>3, <2>5, <3>1 DEF Walk!Land
    <3>3. QED  BY <1>1, <3>2 DEF Ahead
  <2>10. OpenLoops(m, S, 0)'
    <3>1. /\ Len(stack') = base + k + 0 /\ base \in 0..Len(stack')
          /\ \A n \in 1..Len(stack') : n \in 1..Len(stack) /\ stack'[n] = stack[n]
          /\ \A j \in 1..k : base + j \in 1..Len(stack')
      <4>1. stack' = SubSeq(stack, 1, Len(stack) - 1)
        BY <1>5, ClosingPops
      <4>2. /\ Len(stack') = Len(stack) - 1
            /\ \A n \in 1..Len(stack') : n \in 1..Len(stack) /\ stack'[n] = stack[n]
        BY <1>1, <1>4, <4>1, Popped
      <4>3. QED  BY <1>1, <1>3, <4>2
    <3>2. ASSUME NEW j \in 1..k, NEW i, OnStack(base + j, i)
          PROVE  OnStack(base + j, i)'
      <4>1. PICK s : s = stack[base + j]
        OBVIOUS
      <4>2. base + j \in 1..Len(stack') /\ s = stack'[base + j] /\ At(i, s)'
        BY <2>5, <3>1, <3>2, <4>1 DEF OnStack
      <4>3. QED  BY <4>2 DEF OnStack
    <3>3. Stacked(m, S, k, base)'
      BY <1>3, <3>2 DEF Stacked
    <3>4. QED  BY <1>2, <1>3, <3>1, <3>3 DEF OpenLoops
  <2>11. \A n \in 1..Len(nodes') : Own(n)' => Linked(m, S, 0, n)'
    BY <2>3, <2>4, <2>7
  <2>12. QED  BY <2>8, <2>9, <2>10, <2>11 DEF Built, EndsLead
<1>6. QED  BY <1>4, <1>5

-----------------------------------------------------------------------------
(* The steps, one at a time.                                                *)

\* A method is begun, or terminated, or has come to its end.
LEMMA TextCommands ==
  ASSUME NEW w, GraphAssumption(w), GraphInv(w), BuildInv(w),
         Execute(w) \/ Terminate(w) \/ Finish(w)
  PROVE  BuildInv(w)'
<1>1. /\ w \in Thread /\ GraphTypes(w) /\ runs \in Nat /\ nodes \in Seq(Node)
      /\ text \in [Thread -> Seq(Stmt)] /\ line \in [Thread -> Nat] /\ nodes' = nodes
      /\ \A d \in 1..Len(nodes) : nodes[d].run <= runs /\ nodes[d].run \in Nat
  <2>1. \A d \in 1..Len(nodes) : nodes[d].run \in Nat
    <3>1. \A d \in 1..Len(nodes) : nodes[d] \in Node
      BY DEF GraphInv, GraphTypes
    <3>2. QED  BY <3>1 DEF Node
  <2>2. QED  BY <2>1 DEF GraphAssumption, GraphInv, GraphTypes, BuildInv, Execute, Terminate,
                         Finish, list
<1>2. CASE Execute(w)
  <2>1. /\ Goto(w, "clear") /\ runs' = runs + 1 /\ line' = [line EXCEPT ![w] = 1]
        /\ \E m \in Method : text' = [text EXCEPT ![w] = m]
    BY <1>2 DEF Execute
  <2>2. pc'[w] = "clear"
    BY <1>1, <2>1, GraphGoes DEF PC
  <2>3. line'[w] = 1 /\ text'[w] \in Method
    BY <1>1, <2>1
  <2>4. \A d \in 1..Len(nodes') : ~Own(d)' /\ nodes'[d].run <= runs'
    <3>1. \A d \in 1..Len(nodes) : nodes[d].run # runs + 1 /\ nodes[d].run <= runs + 1
      BY <1>1
    <3>2. QED  BY <1>1, <2>1, <3>1 DEF Own
  <2>5. QED  BY <2>2, <2>3, <2>4 DEF BuildInv
<1>3. CASE Terminate(w)
  <2>1. Goto(w, "clear") /\ runs' = runs /\ line' = line /\ pc[w] = "idle"
    BY <1>3 DEF Terminate
  <2>2. pc'[w] = "clear" /\ line'[w] = 0
    BY <1>1, <2>1, GraphGoes DEF PC, BuildInv
  <2>3. QED  BY <1>1, <2>1, <2>2 DEF BuildInv
<1>4. CASE Finish(w)
  <2>1. Goto(w, "idle") /\ runs' = runs /\ line' = [line EXCEPT ![w] = 0]
    BY <1>4 DEF Finish
  <2>2. pc'[w] = "idle" /\ line'[w] = 0
    BY <1>1, <2>1, GraphGoes DEF PC
  <2>3. QED  BY <1>1, <2>1, <2>2 DEF BuildInv
<1>5. QED  BY <1>2, <1>3, <1>4

\* The steps of clearNodes.
LEMMA TextClears ==
  ASSUME NEW w, GraphAssumption(w), GraphInv(w), BuildInv(w),
         \/ ReadHead(w) \/ LockNodes(w) \/ FreeNode(w) \/ UnlockNodes(w) \/ StopTraversing(w)
         \/ ResetHead(w)
  PROVE  BuildInv(w)'
<1>1. /\ w \in Thread /\ GraphTypes(w) /\ pc \in [Thread -> PC]
      /\ nodes' = nodes /\ stack' = stack /\ text' = text /\ line' = line /\ runs' = runs
      /\ pc[w] \in {"clear", "lock", "free", "stop", "reset"}
  BY DEF GraphAssumption, GraphInv, GraphTypes, ReadHead, LockNodes, FreeNode, UnlockNodes,
         StopTraversing, ResetHead
<1>2. /\ \A d \in 1..Len(nodes) : nodes[d].run <= runs
      /\ line[w] = 0 \/ (line[w] = 1 /\ text[w] \in Method /\ \A d \in 1..Len(nodes) : ~Own(d))
  BY <1>1 DEF BuildInv
<1>3. \A d \in 1..Len(nodes') : Own(d)' <=> Own(d)
  BY <1>1 DEF Own
<1>4. CASE ReadHead(w) \/ LockNodes(w) \/ FreeNode(w) \/ UnlockNodes(w) \/ StopTraversing(w)
  <2>1. \/ \E l \in {"lock", "free", "stop", "reset"} : Goto(w, l)
        \/ pc' = pc
    BY <1>4 DEF ReadHead, LockNodes, FreeNode, UnlockNodes, StopTraversing
  <2>2. pc'[w] \in {"clear", "lock", "free", "stop", "reset"}
    BY <1>1, <2>1, GraphGoes DEF PC
  <2>3. QED  BY <1>1, <1>2, <1>3, <2>2 DEF BuildInv
<1>5. CASE ResetHead(w)
  <2>1. Goto(w, IF line[w] = 0 THEN "idle" ELSE "parse") /\ head' = 0
    BY <1>5 DEF ResetHead, NULL
  <2>2. CASE line[w] = 0
    <3>1. pc'[w] = "idle"
      BY <1>1, <2>1, <2>2, GraphGoes DEF PC
    <3>2. QED  BY <1>1, <1>2, <2>2, <3>1 DEF BuildInv
  <2>3. CASE line[w] # 0
    <3>1. pc'[w] = "parse"
      BY <1>1, <2>1, <2>3, GraphGoes DEF PC
    <3>2. PICK m : m = text[w]
      OBVIOUS
    <3>3. /\ line[w] = 1 /\ m \in Method /\ m \in Seq(Stmt) /\ Len(m) \in Nat
          /\ \A d \in 1..Len(nodes') : ~Own(d)'
      BY <1>1, <1>2, <1>3, <2>3, <3>2 DEF GraphAssumption
    <3>4. Covered(m, 0)' /\ EndsLead(m, 0) /\ Ahead(m, 0)'
      BY <2>1, <3>3 DEF Covered, EndsLead, Ahead
    <3>5. OpenLoops(m, 0, 0)'
      <4>1. Walk!Depth(m, 1, 0 + 1) = 0
        <5>1. \A i \in Nat : Walk!Depth(m, i, i) = 0
          BY DepthIs
        <5>2. QED  BY <5>1
      <4>2. Stacked(m, 0, 0, Len(stack))'
        BY DEF Stacked
      <4>3. Len(stack) \in 0..Len(stack')
        BY <1>1 DEF GraphTypes
      <4>4. Len(stack') = Len(stack) + 0 + 0
        BY <1>1 DEF GraphTypes
      <4>5. QED  BY <4>1, <4>2, <4>3, <4>4 DEF OpenLoops
    <3>6. Built(m, 0, 0)'
      BY <3>3, <3>4, <3>5 DEF Built, EndsLead
    <3>7. Fresh'
      BY <3>3 DEF Fresh
    <3>8. text'[w] = m /\ line'[w] = 1 /\ line'[w] - 1 = 0 /\ 1 \in 1..Len(m) + 1
      BY <1>1, <3>2, <3>3
    <3>9. QED  BY <1>1, <1>2, <3>1, <3>3, <3>6, <3>7, <3>8 DEF BuildInv
  <2>4. QED  BY <2>2, <2>3
<1>6. QED  BY <1>4, <1>5

LEMMA NextIs ==
  ASSUME NEW w, GraphAssumption(w), GraphInv(w), NextLine(w)
  PROVE  line'[w] = line[w] + 1
BY DEF GraphAssumption, GraphInv, GraphTypes, NextLine

\* A node is made of the statement that is parsed.
LEMMA MadeIs ==
  ASSUME NEW w, GraphAssumption(w), GraphInv(w), NEW type \in {"cmd", "loop", "delay"},
         NEW n \in Nat
  PROVE  LET d == NewNode(w, type, n)
         IN /\ d \in Node /\ d.type = type /\ d.stmt = line[w] /\ d.run = runs
            /\ d.next = 0 /\ d.branch = 0 /\ d.argc = n /\ d.argv = n
            /\ d.closed <=> type = "cmd"
<1> DEFINE d == NewNode(w, type, n)
<1>1. d \in Node /\ d.next = 0 /\ d.branch = 0 /\ (d.closed <=> type = "cmd")
  BY NodeIsMade DEF GraphAssumption, GraphInv
<1>2. d.type = type /\ d.stmt = line[w] /\ d.run = runs /\ d.argc = n /\ d.argv = n
  BY DEF NewNode
<1> HIDE DEF d
<1>3. QED  BY <1>1, <1>2 DEF d

\* buildCommandNode and buildControlNode.
LEMMA TextAdds ==
  ASSUME NEW w, GraphAssumption(w), GraphInv(w), BuildInv(w),
         AddCommandNode(w) \/ \E type \in {"loop", "delay"} : AddControlNode(w, type)
  PROVE  BuildInv(w)'
<1>1. PICK m, i : m = text[w] /\ i = line[w]
  OBVIOUS
<1>2. PICK type \in {"cmd", "loop", "delay"}, n \in Nat :
        /\ pc[w] = "parse" /\ i \in DOMAIN m /\ m[i].k = type
        /\ LinkNode(NewNode(w, type, n)) /\ (type # "cmd" => n = m[i].n)
        /\ text' = text /\ runs' = runs
        /\ stack' = IF type = "cmd" THEN stack ELSE Append(stack, Len(nodes) + 1)
        /\ IF type = "delay" THEN Goto(w, "closeDelay") /\ line' = line
                             ELSE NextLine(w) /\ pc' = pc
  <2>1. CASE AddCommandNode(w)
    <3>1. /\ pc[w] = "parse" /\ i \in DOMAIN m /\ m[i].k = "cmd"
          /\ LinkNode(NewNode(w, "cmd", 0))
          /\ text' = text /\ runs' = runs /\ stack' = stack /\ NextLine(w) /\ pc' = pc
      BY <1>1, <2>1 DEF AddCommandNode, AtStatement
    <3>2. QED  BY <3>1
  <2>2. ASSUME NEW type \in {"loop", "delay"}, AddControlNode(w, type)
        PROVE  /\ pc[w] = "parse" /\ i \in DOMAIN m /\ m[i].k = type /\ m[i].n \in Nat
               /\ LinkNode(NewNode(w, type, m[i].n))
               /\ text' = text /\ runs' = runs /\ stack' = Append(stack, Len(nodes) + 1)
               /\ IF type = "delay" THEN Goto(w, "closeDelay") /\ line' = line
                                    ELSE NextLine(w) /\ pc' = pc
    <3>1. /\ pc[w] = "parse" /\ i \in DOMAIN m /\ m[i].k = type
          /\ LinkNode(NewNode(w, type, m[i].n))
          /\ text' = text /\ runs' = runs /\ stack' = Append(stack, Len(nodes) + 1)
          /\ IF type = "delay" THEN Goto(w, "closeDelay") /\ line' = line
                               ELSE NextLine(w) /\ pc' = pc
      BY <1>1, <2>2 DEF AddControlNode, AtStatement, stackPush
    <3>2. m \in Seq(Stmt)
      BY <1>1 DEF GraphAssumption, GraphInv, GraphTypes
    <3>3. m[i] \in Stmt
      BY <3>1, <3>2
    <3>4. m[i].n \in Nat
      BY <3>1, <3>3 DEF Stmt
    <3>5. QED  BY <3>1, <3>4
  <2>3. CASE \E type \in {"loop", "delay"} : AddControlNode(w, type)
    <3>1. PICK type \in {"loop", "delay"} : AddControlNode(w, type)
      BY <2>3
    <3>2. PICK n : n = m[i].n
      OBVIOUS
    <3>3. /\ pc[w] = "parse" /\ i \in DOMAIN m /\ m[i].k = type /\ n \in Nat
          /\ LinkNode(NewNode(w, type, n))
          /\ text' = text /\ runs' = runs /\ stack' = Append(stack, Len(nodes) + 1)
          /\ IF type = "delay" THEN Goto(w, "closeDelay") /\ line' = line
                               ELSE NextLine(w) /\ pc' = pc
      BY <2>2, <3>1, <3>2
    <3>4. type \in {"cmd", "loop", "delay"} /\ type # "cmd"
      OBVIOUS
    <3>5. QED  BY <3>2, <3>3, <3>4
  <2>4. QED  BY <2>1, <2>3
<1>3. PICK d : d = NewNode(w, type, n)
  OBVIOUS
<1>4. /\ pc[w] = "parse" /\ i \in DOMAIN m /\ m[i].k = type
      /\ d = NewNode(w, type, n) /\ LinkNode(d) /\ (type # "cmd" => n = m[i].n)
      /\ text' = text /\ runs' = runs
      /\ stack' = IF type = "cmd" THEN stack ELSE Append(stack, Len(nodes) + 1)
      /\ IF type = "delay" THEN Goto(w, "closeDelay") /\ line' = line
                           ELSE NextLine(w) /\ pc' = pc
  BY <1>2, <1>3
<1>5. /\ m \in Method /\ m \in Seq(Stmt) /\ Len(m) \in Nat /\ i \in 1..Len(m) + 1
      /\ Built(m, i - 1, 0) /\ Fresh /\ \A e \in 1..Len(nodes) : nodes[e].run <= runs
  BY <1>1, <1>4 DEF BuildInv, GraphAssumption
<1>6. PICK S : S = i - 1
  OBVIOUS
<1>7. S \in 0..Len(m) - 1 /\ i = S + 1 /\ i \in 1..Len(m)
  BY <1>4, <1>5, <1>6
<1>8. /\ d \in Node /\ d.type = type /\ d.stmt = S + 1 /\ d.run = runs
      /\ d.next = 0 /\ d.branch = 0 /\ d.argc = n /\ d.argv = n
      /\ d.closed <=> type = "cmd"
  <2>1. d = NewNode(w, type, n)
    BY <1>4
  <2>2. /\ d \in Node /\ d.type = type /\ d.stmt = line[w] /\ d.run = runs
        /\ d.next = 0 /\ d.branch = 0 /\ d.argc = n /\ d.argv = n
        /\ d.closed <=> type = "cmd"
    <3>1. type \in {"cmd", "loop", "delay"} /\ n \in Nat
      OBVIOUS
    <3> DEFINE e == NewNode(w, type, n)
    <3>2. /\ e \in Node /\ e.type = type /\ e.stmt = line[w] /\ e.run = runs
          /\ e.next = 0 /\ e.branch = 0 /\ e.argc = n /\ e.argv = n
          /\ e.closed <=> type = "cmd"
      BY <3>1, MadeIs
    <3>3. d = e
      BY <2>1
    <3> HIDE DEF e
    <3>4. QED  BY <3>2, <3>3, Zenon
  <2>3. line[w] = S + 1
    BY <1>1, <1>7
  <2>4. d.stmt = S + 1
    BY <2>2, <2>3
  <2>5. QED  BY <2>2, <2>4, Zenon
<1>9. PICK q : q = IF m[S + 1].k = "delay" THEN S + 1 ELSE 0
  OBVIOUS
<1>10. Built(m, S + 1, q)'
  <2>1. /\ m[S + 1].k # "end" /\ d.type = m[S + 1].k /\ (d.closed <=> d.type = "cmd")
        /\ d.type # "cmd" => d.argv = m[S + 1].n
        /\ stack' = IF d.type = "cmd" THEN stack ELSE Append(stack, Len(nodes) + 1)
    BY <1>4, <1>7, <1>8
  <2>2. LinkNode(d) /\ runs' = runs /\ Built(m, S, 0)
    BY <1>4, <1>5, <1>6
  <2>3. QED  BY <1>5, <1>7, <1>8, <1>9, <2>1, <2>2, BuildGrows
<1>11. (\A e \in 1..Len(nodes) : nodes[e].run <= runs)' /\ Fresh'
  <2>1. PICK x : x = Len(nodes) + 1
    OBVIOUS
  <2>2. /\ Len(nodes) \in Nat /\ Len(nodes') = x /\ nodes'[x] = d /\ runs \in Nat
        /\ \A k \in 1..Len(nodes) :
             nodes'[k] = IF head # 0 /\ k = current THEN Led(nodes[k], x) ELSE nodes[k]
    BY <1>4, <1>8, <2>1, NodeJoins DEF GraphInv, GraphTypes
  <2>3. ASSUME NEW k \in 1..Len(nodes)
        PROVE  nodes'[k].run = nodes[k].run /\ nodes'[k].argc = nodes[k].argc
                                            /\ nodes'[k].argv = nodes[k].argv
    <3>1. nodes[k] \in Node /\ x \in Nat
      BY <2>1, <2>2 DEF GraphInv, GraphTypes
    <3>2. PICK e : e = Led(nodes[k], x)
      OBVIOUS
    <3>3. LedFrom(e, nodes[k], x)
      BY <3>1, <3>2, LedFields
    <3>4. QED  BY <2>2, <3>2, <3>3 DEF LedFrom
  <2>4. ASSUME NEW k \in 1..Len(nodes)
        PROVE  nodes'[k].run <= runs' /\ (Own(k)' => nodes'[k].argc = nodes'[k].argv)
    BY <1>4, <1>5, <2>3 DEF Fresh, Own
  <2>5. nodes'[x].run <= runs' /\ nodes'[x].argc = nodes'[x].argv
    BY <1>4, <1>8, <2>2
  <2>6. \A k \in 1..Len(nodes') : k = x \/ k \in 1..Len(nodes)
    BY <2>1, <2>2
  <2>7. \A e \in 1..Len(nodes') : nodes'[e].run <= runs'
    BY <2>4, <2>5, <2>6
  <2>8. \A e \in 1..Len(nodes') : Own(e)' => nodes'[e].argc = nodes'[e].argv
    BY <2>4, <2>5, <2>6
  <2>9. Fresh'
    BY <2>8, Zenon DEF Fresh
  <2>10. QED  BY <2>7, <2>9
<1>12. text'[w] = m
  BY <1>1, <1>4
<1>13. CASE type = "delay"
  <2>1. pc'[w] = "closeDelay" /\ line'[w] = S + 1 /\ q = S + 1
    BY <1>1, <1>4, <1>7, <1>9, <1>13, GraphGoes DEF GraphAssumption, GraphInv, PC
  <2>2. line'[w] \in 1..Len(m) /\ m \in Method
    BY <1>5, <1>7, <2>1
  <2>3. Built(text[w], line[w], line[w])'
    BY <1>7, <1>10, <1>12, <2>1
  <2>4. QED  BY <1>11, <1>12, <2>1, <2>2, <2>3 DEF BuildInv
<1>14. CASE type # "delay"
  <2>1. pc'[w] = "parse" /\ line'[w] = S + 2 /\ line'[w] - 1 = S + 1 /\ q = 0
    <3>1. line'[w] = line[w] + 1
      BY <1>4, <1>14, NextIs
    <3>2. pc'[w] = "parse" /\ q = 0
      BY <1>4, <1>7, <1>9, <1>14
    <3>3. S \in Int /\ line[w] = S + 1
      BY <1>1, <1>5, <1>7
    <3>4. QED  BY <3>1, <3>2, <3>3
  <2>2. line'[w] \in 1..Len(m) + 1
    BY <1>5, <1>7, <2>1
  <2>3. Built(text[w], line[w] - 1, 0)'
    BY <1>10, <1>12, <2>1
  <2>4. QED  BY <1>5, <1>11, <1>12, <2>1, <2>2, <2>3 DEF BuildInv
<1>15. QED  BY <1>13, <1>14

\* Every end of a method closes a loop.
EndsAssumption == \A m \in Method : Walk!EndsMatch(m)

\* closeControlNode.
LEMMA TextCloses ==
  ASSUME NEW w, GraphAssumption(w), EndsAssumption, GraphInv(w), BuildInv(w),
         CloseControlNode(w)
  PROVE  BuildInv(w)'
<1>1. PICK m, i : m = text[w] /\ i = line[w]
  OBVIOUS
<1>2. /\ \/ pc[w] = "parse" /\ i \in DOMAIN m /\ m[i].k = "end"
         \/ pc[w] = "closeDelay"
      /\ stack # <<>> => Closing
      /\ NextLine(w) /\ Goto(w, "parse") /\ text' = text /\ runs' = runs
  <2>1. ASSUME stack # <<>>  PROVE Closing
    BY <2>1 DEF CloseControlNode, Closing, stackIsEmpty
  <2>2. QED  BY <1>1, <2>1 DEF CloseControlNode, AtStatement
<1>3. /\ m \in Method /\ m \in Seq(Stmt) /\ Len(m) \in Nat /\ Walk!EndsMatch(m) /\ Fresh
      /\ \A d \in 1..Len(nodes) : nodes[d].run <= runs
  BY <1>1, <1>2 DEF BuildInv, GraphAssumption, EndsAssumption
<1>4. /\ pc[w] = "parse" => i \in 1..Len(m) /\ Built(m, i - 1, 0)
      /\ pc[w] = "closeDelay" => i \in 1..Len(m) /\ Built(m, i, i)
  <2>1. pc[w] = "parse" => i \in 1..Len(m)
    BY <1>2, <1>3
  <2>2. QED  BY <1>1, <2>1 DEF BuildInv
<1>5. /\ pc'[w] = "parse" /\ line'[w] = i + 1 /\ text'[w] = m
  BY <1>1, <1>2, GraphGoes, NextIs DEF GraphAssumption, GraphInv, PC
<1>6. /\ i \in 1..Len(m) /\ stack # <<>> /\ Closing /\ Built(m, i, 0)'
      /\ current \in 1..Len(nodes)
  <2>1. CASE pc[w] = "parse"
    <3>1. PICK S : S = i - 1
      OBVIOUS
    <3>2. /\ S \in 0..Len(m) - 1 /\ S + 1 = i /\ m[S + 1].k = "end" /\ Built(m, S, 0)
          /\ i \in 1..Len(m)
      BY <1>2, <1>3, <1>4, <2>1, <3>1
    <3>3. stack # <<>> /\ (Closing => Built(m, S + 1, 0)')
      BY <1>3, <3>2, BuildLoops
    <3>4. S # 0
      <4>1. PICK k : k = Walk!Depth(m, 1, S + 1)
        OBVIOUS
      <4>2. PICK base \in Nat : k \in Nat /\ Len(stack) = base + k /\ Stacked(m, S, k, base)
        <5>1. Len(stack) \in Nat
          BY DEF GraphInv, GraphTypes
        <5>2. QED  BY <3>2, <4>1, <5>1 DEF Built, OpenLoops
      <4>3. PICK o \in 1..S : TRUE
        BY <1>3, <3>2, <4>1, <4>2, TopIs
      <4>4. QED  BY <3>2, <4>3
    <3>5. current \in 1..Len(nodes)
      BY <3>2, <3>4 DEF Built, Ahead, At
    <3>6. QED  BY <1>2, <3>2, <3>3, <3>5
  <2>2. CASE pc[w] = "closeDelay"
    <3>1. i \in 1..Len(m) /\ Built(m, i, i) /\ i # 0
      BY <1>3, <1>4, <2>2
    <3>2. stack # <<>> /\ (Closing => Built(m, i, 0)')
      BY <1>3, <3>1, BuildDelays
    <3>3. current \in 1..Len(nodes)
      BY <3>1 DEF Built, Ahead, At
    <3>4. QED  BY <1>2, <3>1, <3>2, <3>3
  <2>3. QED  BY <1>2, <2>1, <2>2
<1>7. \A d \in 1..Len(nodes') : /\ nodes'[d].run <= runs'
                                /\ Own(d)' => nodes'[d].argc = nodes'[d].argv
  <2>1. /\ Len(nodes') = Len(nodes)
        /\ \A d \in 1..Len(nodes) : /\ nodes'[d].run = nodes[d].run
                                    /\ nodes'[d].argc = nodes[d].argc
                                    /\ nodes'[d].argv = nodes[d].argv
    <3>1. PICK d : d = stack[Len(stack)]
      OBVIOUS
    <3>2. QED  BY <1>6, <3>1, NodeCloses
  <2>2. QED  BY <1>2, <1>3, <2>1 DEF Fresh, Own
<1>8. line'[w] - 1 = i /\ line'[w] \in 1..Len(m) + 1
  BY <1>3, <1>5, <1>6
<1>9. QED  BY <1>3, <1>5, <1>6, <1>7, <1>8 DEF BuildInv, Fresh

\* Where a link leads, once the graph is complete.
LEMMA LedTo ==
  ASSUME NEW m \in Seq(Stmt), Built(m, Len(m), 0), NEW d, NEW j \in 1..Len(m) + 1,
         Leads(m, Len(m), d, j)
  PROVE  /\ d = 0 \/ Own(d)
         /\ (IF d = 0 THEN Len(m) + 1 ELSE nodes[d].stmt) = Walk!Land(m, j)
<1>1. Len(m) \in Nat
  OBVIOUS
<1>2. CASE j > Len(m)
  <2>1. d = 0 /\ j = Len(m) + 1
    BY <1>1, <1>2 DEF Leads
  <2>2. j \notin DOMAIN m
    BY <1>1, <2>1
  <2>3. QED  BY <2>1, <2>2 DEF Walk!Land
<1>3. CASE ~(j > Len(m))
  <2>1. At(Walk!Land(m, j), d)
    BY <1>3 DEF Leads
  <2>2. Own(d) /\ d # 0 /\ nodes[d].stmt = Walk!Land(m, j)
    BY <2>1 DEF At, Own
  <2>3. QED  BY <2>2
<1>4. QED  BY <1>2, <1>3

\* Where the node that is executed leads.
LEMMA NodeLeads ==
  ASSUME NEW w, GraphInv(w), NEW m \in Seq(Stmt), Built(m, Len(m), 0),
         NEW d, Own(d), NEW i, i = nodes[d].stmt
  PROVE  /\ i \in 1..Len(m) /\ m[i].k = nodes[d].type /\ (m[i].k # "cmd" => nodes[d].argv = m[i].n)
         /\ m[i].k \in {"cmd", "loop", "delay"} /\ Out(m, i) \in 1..Len(m) + 1
         /\ Leads(m, Len(m), nodes[d].next, Out(m, i))
         /\ m[i].k = "loop" => i + 1 \in 1..Len(m) + 1 /\ Leads(m, Len(m), nodes[d].branch, i + 1)
         /\ m[i].k = "delay" => nodes[d].branch = d
<1>1. Len(m) \in Nat /\ nodes \in Seq(Node) /\ d \in 1..Len(nodes)
  BY DEF GraphInv, GraphTypes, Own
<1>2. Linked(m, Len(m), 0, d)
  BY <1>1 DEF Built
<1>3. i \in 1..Len(m) /\ i # 0
  BY <1>2 DEF Linked
<1>4. nodes[d].type \in {"cmd", "loop", "delay"}
  <2>1. nodes[d] \in Node
    BY <1>1
  <2>2. QED  BY <2>1 DEF Node
<1>5. Out(m, i) \in i + 1..Len(m) + 1
  BY <1>3, EndsAre
<1>6. Out(m, i) \in 1..Len(m) + 1 /\ i + 1 \in 1..Len(m) + 1
  BY <1>1, <1>3, <1>5
<1>7. QED  BY <1>2, <1>3, <1>4, <1>6 DEF Linked

\* The steps that execute the graph leave it as it was built.
LEMMA WalkOn ==
  ASSUME NEW w, GraphAssumption(w), GraphInv(w), BuildInv(w), Unmoved, text' = text,
         pc[w] \in {"fetch", "evaluate", "command", "poll"},
         pc'[w] \in {"evaluate", "command", "poll"},
         node'[w] = 0 \/ Own(node'[w]),
         pc'[w] = "command" => node'[w] # 0 /\ nodes[node'[w]].type = "cmd"
  PROVE  BuildInv(w)'
<1>1. PICK m : m = text[w]
  OBVIOUS
<1>2. m \in Method /\ Built(m, Len(m), 0) /\ text'[w] = m
  BY <1>1 DEF BuildInv
<1>3. Built(m, Len(m), 0)'
  BY <1>2, BuiltStays
<1>4. \A d \in 1..Len(nodes') : nodes'[d].run <= runs'
  BY DEF BuildInv, Unmoved
<1>5. PICK e : e = node'[w]
  OBVIOUS
<1>6. e = 0 \/ Own(e)'
  BY <1>5 DEF Own, Unmoved
<1>7. pc'[w] = "command" => Own(e)' /\ nodes'[e].type = "cmd"
  BY <1>5 DEF Own, Unmoved
<1>8. QED  BY <1>2, <1>3, <1>4, <1>5, <1>6, <1>7 DEF BuildInv

\* What a visit of a control node changes.
LEMMA VisitIs ==
  ASSUME NEW w, GraphAssumption(w), GraphInv(w), VisitControl(w), NEW d, d = node[w],
         NEW c, c = (nodes[d].argc - 1) % Wrap
  PROVE  /\ pc[w] = "evaluate" /\ d \in 1..Len(nodes) /\ nodes[d].type # "cmd" /\ Unmoved
         /\ pc'[w] = "poll" /\ text' = text
         /\ node'[w] = IF c # 0 THEN nodes[d].branch ELSE nodes[d].next
         /\ \A k \in 1..Len(nodes) :
              nodes'[k].argc = IF k # d THEN nodes[k].argc ELSE IF c # 0 THEN c ELSE nodes[d].argv
<1> DEFINE argc == IF c # 0 THEN c ELSE nodes[d].argv
<1>1. /\ pc[w] = "evaluate" /\ d # 0 /\ nodes[d].type # "cmd"
      /\ nodes' = [nodes EXCEPT ![d].argc = argc]
      /\ node' = [node EXCEPT ![w] = IF c # 0 THEN nodes[d].branch ELSE nodes[d].next]
      /\ Goto(w, "poll") /\ UNCHANGED <<head, current, stack, text, runs>>
  BY DEF VisitControl, NULL, Decremented
<1>2. /\ w \in Thread /\ GraphTypes(w) /\ nodes \in Seq(Node) /\ node \in [Thread -> Nat]
      /\ d \in 1..Len(nodes)
  BY <1>1 DEF GraphAssumption, GraphInv, GraphTypes, Pointers
<1>3. pc'[w] = "poll"
  BY <1>1, <1>2, GraphGoes DEF PC
<1>4. nodes[d] \in Node
  BY <1>2
<1>5. argc \in Nat
  <2>1. nodes[d].argc \in Nat /\ nodes[d].argv \in Nat
    BY <1>4 DEF Node
  <2>2. c \in Nat
    BY <2>1 DEF GraphAssumption
  <2>3. QED  BY <2>1, <2>2
<1> HIDE DEF argc
<1> DEFINE e == [nodes[d] EXCEPT !.argc = argc]
<1>6. /\ e \in Node /\ e.argc = argc /\ e.type = nodes[d].type /\ e.argv = nodes[d].argv
      /\ e.next = nodes[d].next /\ e.branch = nodes[d].branch /\ e.closed = nodes[d].closed
      /\ e.stmt = nodes[d].stmt /\ e.run = nodes[d].run
  BY <1>4, <1>5 DEF Node
<1>7. nodes' = [nodes EXCEPT ![d] = e]
  BY <1>1
<1> HIDE DEF e
<1>8. /\ Len(nodes') = Len(nodes)
      /\ \A k \in 1..Len(nodes) : nodes'[k] = IF k = d THEN e ELSE nodes[k]
  BY <1>2, <1>6, <1>7, ExceptSeq
<1>9. Unmoved
  <2>1. ASSUME NEW k \in 1..Len(nodes)
        PROVE  /\ nodes'[k].type = nodes[k].type /\ nodes'[k].argv = nodes[k].argv
               /\ nodes'[k].next = nodes[k].next /\ nodes'[k].branch = nodes[k].branch
               /\ nodes'[k].closed = nodes[k].closed
               /\ nodes'[k].stmt = nodes[k].stmt /\ nodes'[k].run = nodes[k].run
    <3>1. CASE k = d
      <4>1. nodes'[k] = e
        BY <1>8, <3>1
      <4>2. QED  BY <1>6, <3>1, <4>1, Zenon
    <3>2. CASE k # d
      BY <1>8, <3>2
    <3>3. QED  BY <3>1, <3>2
  <2>2. QED  BY <1>1, <1>8, <2>1, Zenon DEF Unmoved
<1>10. \A k \in 1..Len(nodes) :
         nodes'[k].argc = IF k # d THEN nodes[k].argc ELSE IF c # 0 THEN c ELSE nodes[d].argv
  BY <1>6, <1>8 DEF argc
<1>11. node'[w] = IF c # 0 THEN nodes[d].branch ELSE nodes[d].next
  BY <1>1, <1>2
<1>12. QED  BY <1>1, <1>2, <1>3, <1>9, <1>10, <1>11

\* The steps that execute the graph, and the last one of the parser.
LEMMA TextWalks ==
  ASSUME NEW w, GraphAssumption(w), GraphInv(w), BuildInv(w),
         \/ ParseEnd(w) \/ Fetch(w) \/ CallCommand(w) \/ ReturnCommand(w) \/ VisitControl(w)
         \/ Poll(w) \/ EndOfList(w)
  PROVE  BuildInv(w)'
<1>1. /\ w \in Thread /\ GraphTypes(w) /\ node \in [Thread -> Nat]
  BY DEF GraphAssumption, GraphInv, GraphTypes
<1>2. PICK m : m = text[w]
  OBVIOUS
<1>3. ASSUME UNCHANGED list, runs' = runs
      PROVE  Unmoved
  BY <1>3 DEF Unmoved, list
<1>4. CASE ParseEnd(w)
  <2>1. /\ pc[w] = "parse" /\ line[w] = Len(m) + 1 /\ Goto(w, "fetch")
        /\ UNCHANGED <<list, text, runs>>
    BY <1>2, <1>4 DEF ParseEnd
  <2>2. pc'[w] = "fetch" /\ text'[w] = m
    BY <1>1, <1>2, <2>1, GraphGoes DEF PC
  <2>3. m \in Method /\ Built(m, line[w] - 1, 0) /\ Fresh /\ Len(m) \in Nat
    BY <1>2, <2>1 DEF BuildInv, GraphAssumption
  <2>4. Built(m, Len(m), 0)
    <3>1. line[w] - 1 = Len(m)
      BY <2>1, <2>3
    <3>2. QED  BY <2>3, <3>1
  <2>5. Unmoved /\ nodes' = nodes
    BY <1>3, <2>1 DEF list
  <2>6. Built(m, Len(m), 0)'
    BY <2>4, <2>5, BuiltStays
  <2>7. Fresh' /\ \A d \in 1..Len(nodes') : nodes'[d].run <= runs'
    BY <2>1, <2>3, <2>5 DEF Fresh, Own, BuildInv
  <2>8. QED  BY <2>2, <2>3, <2>6, <2>7 DEF BuildInv
<1>5. ASSUME pc[w] \in {"fetch", "evaluate", "command", "poll"}
      PROVE  m \in Method /\ m \in Seq(Stmt) /\ Built(m, Len(m), 0) /\ Len(m) \in Nat
  BY <1>2, <1>5 DEF BuildInv, GraphAssumption
<1>6. CASE Fetch(w)
  <2>1. /\ pc[w] = "fetch" /\ node' = [node EXCEPT ![w] = head] /\ Goto(w, "evaluate")
        /\ UNCHANGED <<list, text, runs>>
    BY <1>6 DEF Fetch
  <2>2. pc'[w] = "evaluate" /\ node'[w] = head
    BY <1>1, <2>1, GraphGoes DEF PC
  <2>3. head = 0 \/ Own(head)
    BY <1>5, <2>1 DEF Built, Ahead, At, Own
  <2>4. QED  BY <1>3, <2>1, <2>2, <2>3, WalkOn
<1>7. CASE CallCommand(w)
  <2>1. /\ pc[w] = "evaluate" /\ node' = node /\ Goto(w, "command") /\ node[w] # 0
        /\ nodes[node[w]].type = "cmd" /\ UNCHANGED <<list, text, runs>>
    BY <1>7 DEF CallCommand, NULL
  <2>2. pc'[w] = "command" /\ node'[w] = node[w]
    BY <1>1, <2>1, GraphGoes DEF PC
  <2>3. Own(node[w])
    BY <2>1 DEF BuildInv
  <2>4. QED  BY <1>3, <2>1, <2>2, <2>3, WalkOn
<1>8. CASE ReturnCommand(w)
  <2>1. PICK d, i : d = node[w] /\ i = nodes[d].stmt
    OBVIOUS
  <2>2. /\ pc[w] = "command" /\ node' = [node EXCEPT ![w] = nodes[d].next] /\ Goto(w, "poll")
        /\ UNCHANGED <<list, text, runs>>
    BY <1>8, <2>1 DEF ReturnCommand
  <2>3. pc'[w] = "poll" /\ node'[w] = nodes[d].next
    BY <1>1, <2>2, GraphGoes DEF PC
  <2>4. Own(d)
    BY <2>1, <2>2 DEF BuildInv
  <2>5. Leads(m, Len(m), nodes[d].next, Out(m, i)) /\ Out(m, i) \in 1..Len(m) + 1
    BY <1>5, <2>1, <2>2, <2>4, NodeLeads
  <2>6. nodes[d].next = 0 \/ Own(nodes[d].next)
    BY <1>5, <2>2, <2>5, LedTo
  <2>7. QED  BY <1>3, <2>2, <2>3, <2>6, WalkOn
<1>9. CASE VisitControl(w)
  <2>1. PICK d, i, c : d = node[w] /\ i = nodes[d].stmt /\ c = (nodes[d].argc - 1) % Wrap
    OBVIOUS
  <2>2. /\ pc[w] = "evaluate" /\ d \in 1..Len(nodes) /\ nodes[d].type # "cmd" /\ Unmoved
        /\ pc'[w] = "poll" /\ text' = text
        /\ node'[w] = IF c # 0 THEN nodes[d].branch ELSE nodes[d].next
    BY <1>9, <2>1, VisitIs
  <2>3. Own(d)
    BY <2>1, <2>2 DEF BuildInv
  <2>4. /\ m[i].k \in {"loop", "delay"}
        /\ Out(m, i) \in 1..Len(m) + 1 /\ Leads(m, Len(m), nodes[d].next, Out(m, i))
        /\ m[i].k = "loop" => /\ i + 1 \in 1..Len(m) + 1
                              /\ Leads(m, Len(m), nodes[d].branch, i + 1)
        /\ m[i].k = "delay" => nodes[d].branch = d
    BY <1>5, <2>1, <2>2, <2>3, NodeLeads
  <2>5. nodes[d].next = 0 \/ Own(nodes[d].next)
    BY <1>5, <2>2, <2>4, LedTo
  <2>6. nodes[d].branch = 0 \/ Own(nodes[d].branch)
    <3>1. CASE m[i].k = "loop"
      BY <1>5, <2>2, <2>4, <3>1, LedTo
    <3>2. CASE m[i].k = "delay"
      BY <2>3, <2>4, <3>2
    <3>3. QED  BY <2>4, <3>1, <3>2
  <2>7. QED  BY <2>2, <2>5, <2>6, WalkOn
<1>10. CASE Poll(w)
  <2>1. /\ pc[w] = "poll" /\ (Goto(w, "evaluate") \/ Goto(w, "finish"))
        /\ UNCHANGED <<list, text, node, runs>>
    BY <1>10 DEF Poll
  <2>2. CASE Goto(w, "evaluate")
    <3>1. pc'[w] = "evaluate" /\ node'[w] = node[w] /\ (node[w] = 0 \/ Own(node[w]))
      BY <1>1, <2>1, <2>2, GraphGoes DEF PC, BuildInv
    <3>2. QED  BY <1>3, <2>1, <3>1, WalkOn
  <2>3. CASE Goto(w, "finish")
    <3>1. pc'[w] = "finish"
      BY <1>1, <2>3, GraphGoes DEF PC
    <3>2. QED  BY <2>1, <3>1 DEF BuildInv, list
  <2>4. QED  BY <2>1, <2>2, <2>3
<1>11. CASE EndOfList(w)
  <2>1. pc[w] = "evaluate" /\ Goto(w, "finish") /\ UNCHANGED <<list, runs>>
    BY <1>11 DEF EndOfList
  <2>2. pc'[w] = "finish"
    BY <1>1, <2>1, GraphGoes DEF PC
  <2>3. QED  BY <2>1, <2>2 DEF BuildInv, list
<1>12. QED  BY <1>4, <1>6, <1>7, <1>8, <1>9, <1>10, <1>11

LEMMA TextBegins ==
  ASSUME NEW w, GraphAssumption(w), Init
  PROVE  BuildInv(w)
<1>1. nodes = <<>> /\ pc[w] = "idle" /\ line[w] = 0
  BY DEF Init, GraphAssumption
<1>2. QED  BY <1>1 DEF BuildInv

LEMMA TextStep ==
  ASSUME NEW w, GraphAssumption(w), EndsAssumption, GraphInv(w), BuildInv(w), [Next]_vars
  PROVE  BuildInv(w)'
<1>1. CASE UNCHANGED vars
  <2>1. /\ nodes' = nodes /\ pc' = pc /\ line' = line /\ text' = text /\ node' = node
        /\ runs' = runs /\ Unmoved
    BY <1>1 DEF vars, list, locals, Unmoved
  <2>2. \A m, S, p : Built(m, S, p) => Built(m, S, p)'
    BY <2>1, BuiltStays
  <2>3. (Fresh' <=> Fresh) /\ \A d : Own(d)' <=> Own(d)
    BY <2>1 DEF Fresh, Own
  <2>4. QED  BY <2>1, <2>2, <2>3 DEF BuildInv
<1>2. CASE Next
  <2>1. PICK t \in Thread : Execute(t) \/ Terminate(t) \/ Run(t)
    BY <1>2 DEF Next
  <2>2. Execute(w) \/ Terminate(w) \/ Run(w)
    BY <2>1, OnlyOneActs
  <2>3. CASE Run(w)
    BY <2>3, TextCommands, TextClears, TextAdds, TextCloses, TextWalks DEF Run, Parse
  <2>4. QED  BY <2>2, <2>3, TextCommands
<1>3. QED  BY <1>1, <1>2

-----------------------------------------------------------------------------
(* The refinement.                                                          *)

TextInv(w) == GraphInv(w) /\ BuildInv(w)

\* What the interpreter sees of the thread w.
Shown(w) ==
  IF ~Executing(w) THEN WalkedText = <<>> /\ Position = 0 /\ Counters = <<>>
  ELSE /\ WalkedText = text[w]
       /\ Position = IF node[w] = 0 THEN Len(text[w]) + 1 ELSE nodes[node[w]].stmt
       /\ Counters = [i \in DOMAIN text[w] |-> Counters[i]]
       /\ \A i \in DOMAIN text[w] :
            /\ text[w][i].k \notin {"loop", "delay"} => Counters[i] = 0
            /\ text[w][i].k \in {"loop", "delay"} =>
                 \A d : At(i, d) => Counters[i] = nodes[d].argc

LEMMA WalkerIs ==
  ASSUME NEW w, Executor = {w}
  PROVE  Walker = w
BY DEF Walker

LEMMA EmptyIs ==
  ASSUME NEW f, f = [i \in {} |-> f[i]]
  PROVE  f = <<>>
OBVIOUS

LEMMA IsShown ==
  ASSUME NEW w, Executor = {w}
  PROVE  TextInv(w) => Shown(w)
<1> SUFFICES ASSUME TextInv(w)
             PROVE  Shown(w)
  OBVIOUS
<1>1. Walker = w
  BY WalkerIs
<1>2. CASE ~Executing(w)
  <2>1. WalkedText = <<>> /\ Position = 0
    BY <1>1, <1>2 DEF WalkedText, Position
  <2>2. DOMAIN WalkedText = {}
    BY <2>1
  <2>3. Counters = [i \in {} |-> Counters[i]]
    <3>1. Counters = [i \in DOMAIN WalkedText |-> Counters[i]]
      BY DEF Counters
    <3>2. QED  BY <2>2, <3>1
  <2>4. Counters = <<>>
    BY <2>3, EmptyIs
  <2>5. QED  BY <1>2, <2>1, <2>4 DEF Shown
<1>3. CASE Executing(w)
  <2>1. PICK m : m = text[w]
    OBVIOUS
  <2>2. m \in Seq(Stmt) /\ Built(m, Len(m), 0)
    <3>1. BuildInv(w) /\ pc[w] \in {"evaluate", "command", "poll"}
      BY <1>3 DEF TextInv, Executing
    <3>2. m \in Method /\ Built(m, Len(m), 0)
      BY <2>1, <3>1 DEF BuildInv
    <3>3. QED  BY <3>2, MethodAssumption
  <2>3. WalkedText = m
    BY <1>1, <1>3, <2>1 DEF WalkedText
  <2>4. Position = IF node[w] = 0 THEN Len(m) + 1 ELSE nodes[node[w]].stmt
    BY <1>1, <1>3, <2>3 DEF Position, NULL
  <2>5. /\ Counters = [i \in DOMAIN m |-> Counters[i]]
        /\ \A i \in DOMAIN m :
             Counters[i] = IF m[i].k \in {"loop", "delay"} THEN nodes[NodeOf(i)].argc ELSE 0
    BY <2>3 DEF Counters
  <2>6. ASSUME NEW i, NEW d, At(i, d)  PROVE NodeOf(i) = d
    <3>1. DOMAIN nodes = 1..Len(nodes)
      BY DEF TextInv, GraphInv, GraphTypes
    <3>2. d \in DOMAIN nodes /\ nodes[d].run = runs /\ nodes[d].stmt = i
      BY <2>6, <3>1 DEF At
    <3>3. \A e \in DOMAIN nodes : nodes[e].run = runs /\ nodes[e].stmt = i => e = d
      BY <2>2, <3>1, <3>2 DEF Built, Covered, Own
    <3>4. QED  BY <3>2, <3>3 DEF NodeOf
  <2>7. QED  BY <1>3, <2>1, <2>3, <2>4, <2>5, <2>6 DEF Shown
<1>4. QED  BY <1>2, <1>3

LEMMA IsShownNext ==
  ASSUME NEW w, Executor = {w}
  PROVE  TextInv(w)' => Shown(w)'
<1>1. TextInv(w) => Shown(w)
  BY IsShown
<1>2. QED  BY <1>1, PTL

\* Two functions that the interpreter's counters are.
LEMMA SameCounters ==
  ASSUME NEW D, NEW f, NEW g, f = [i \in D |-> f[i]], g = [i \in D |-> g[i]],
         \A i \in D : f[i] = g[i]
  PROVE  f = g
OBVIOUS

\* The interpreter does nothing while no method is executed.
LEMMA Asides ==
  ASSUME NEW w, Shown(w), Shown(w)', ~Executing(w), ~Executing(w)'
  PROVE  UNCHANGED Walk!tvars
BY DEF Shown, Walk!tvars

LEMMA Stops ==
  ASSUME NEW w, TextInv(w), Shown(w), Shown(w)', Executing(w), ~Executing(w)'
  PROVE  Walk!Stop
<1>1. WalkedText' = <<>> /\ Position' = 0 /\ Counters' = <<>>
  BY DEF Shown
<1>2. PICK m, d : m = text[w] /\ d = node[w]
  OBVIOUS
<1>3. Built(m, Len(m), 0) /\ (d = 0 \/ Own(d)) /\ m \in Seq(Stmt)
  <2>1. BuildInv(w) /\ pc[w] \in {"evaluate", "command", "poll"}
    BY DEF TextInv, Executing
  <2>2. QED  BY <1>2, <2>1, MethodAssumption DEF BuildInv
<1>4. Position # 0
  <2>1. Position = IF d = 0 THEN Len(m) + 1 ELSE nodes[d].stmt
    BY <1>2 DEF Shown
  <2>2. CASE d = 0
    <3>1. Len(m) \in Nat
      BY <1>3
    <3>2. QED  BY <2>1, <2>2, <3>1
  <2>3. CASE d # 0
    <3>1. d \in 1..Len(nodes) /\ Own(d)
      BY <1>3, <2>3 DEF Own
    <3>2. nodes[d].stmt \in 1..Len(m)
      BY <1>3, <3>1 DEF Built, Linked
    <3>3. Len(m) \in Nat
      BY <1>3
    <3>4. QED  BY <2>1, <2>3, <3>2, <3>3
  <2>4. QED  BY <2>2, <2>3
<1>5. QED  BY <1>1, <1>4 DEF Walk!Stop

\* The graph is begun where the text begins, and no counter was counted down.
LEMMA Starts ==
  ASSUME NEW w, Executor = {w}, GraphAssumption(w), TextInv(w), Shown(w), Shown(w)', Fetch(w)
  PROVE  Walk!Start
<1>1. PICK m : m = text[w]
  OBVIOUS
<1>2. /\ pc[w] = "fetch" /\ node' = [node EXCEPT ![w] = head] /\ Goto(w, "evaluate")
      /\ nodes' = nodes /\ text' = text /\ runs' = runs
  BY DEF Fetch, list
<1>3. BuildInv(w) /\ GraphInv(w) /\ GraphTypes(w) /\ w \in Thread /\ node \in [Thread -> Nat]
  BY DEF TextInv, GraphInv, GraphTypes, GraphAssumption
<1>4. m \in Method /\ m \in Seq(Stmt) /\ Built(m, Len(m), 0) /\ Fresh
  BY <1>1, <1>2, <1>3, MethodAssumption DEF BuildInv
<1>5. Len(m) \in Nat /\ DOMAIN m = 1..Len(m)
  BY <1>4
<1>6. ~Executing(w) /\ Executing(w)' /\ node'[w] = head /\ text'[w] = m
  <2>1. pc'[w] = "evaluate" /\ node'[w] = head
    BY <1>2, <1>3, GraphGoes DEF PC
  <2>2. QED  BY <1>1, <1>2, <2>1 DEF Executing
<1>7. Position = 0
  BY <1>6 DEF Shown
<1>8. WalkedText' = m
  BY <1>6 DEF Shown
<1>9. Position' = Walk!Land(m, 1)
  <2>1. PICK h : h = head
    OBVIOUS
  <2>2. Position' = IF h = 0 THEN Len(m) + 1 ELSE nodes[h].stmt
    BY <1>2, <1>6, <2>1 DEF Shown
  <2>3. CASE Len(m) = 0
    <3>1. h = 0 /\ 1 \notin DOMAIN m
      BY <1>4, <1>5, <2>1, <2>3 DEF Built, Ahead
    <3>2. QED  BY <2>2, <2>3, <3>1 DEF Walk!Land
  <2>4. CASE Len(m) # 0
    <3>1. At(1, h)
      BY <1>4, <2>1, <2>4 DEF Built, Ahead
    <3>2. Position' = 1
      BY <2>2, <3>1 DEF At
    <3>3. m[1].k # "end"
      <4>1. SUFFICES ASSUME m[1].k = "end"  PROVE FALSE
        OBVIOUS
      <4>2. 1 \in 1..Len(m)
        BY <1>5, <2>4
      <4>3. Walk!LoopOf(m, 1) \in 1..1 - 1
        BY <1>4, <4>1, <4>2 DEF Built, EndsLead
      <4>4. QED  BY <4>3
    <3>4. QED  BY <3>2, <3>3 DEF Walk!Land
  <2>5. QED  BY <2>3, <2>4
<1>10. Counters' = Walk!InitialCount(m)
  <2>1. PICK f, g : f = Counters' /\ g = Walk!InitialCount(m)
    OBVIOUS
  <2>2. f = [i \in DOMAIN m |-> f[i]]
    BY <1>6, <2>1 DEF Shown
  <2>3. /\ g = [i \in DOMAIN m |-> g[i]]
        /\ \A i \in DOMAIN m : g[i] = IF m[i].k \in {"loop", "delay"} THEN m[i].n ELSE 0
    BY <2>1 DEF Walk!InitialCount
  <2>4. ASSUME NEW i \in DOMAIN m
        PROVE  f[i] = g[i]
    <3>1. CASE m[i].k \notin {"loop", "delay"}
      <4>1. f[i] = 0
        BY <1>6, <2>1, <3>1 DEF Shown
      <4>2. QED  BY <2>3, <3>1, <4>1
    <3>2. CASE m[i].k \in {"loop", "delay"}
      <4>1. PICK d \in 1..Len(nodes) : At(i, d)
        BY <1>4, <1>5, <3>2 DEF Built, Covered
      <4>2. At(i, d)'
        BY <1>2, <4>1 DEF At
      <4>3. f[i] = nodes'[d].argc
        BY <1>6, <2>1, <3>2, <4>2 DEF Shown
      <4>4. Own(d) /\ nodes[d].stmt = i
        BY <4>1 DEF At, Own
      <4>5. nodes[d].argc = nodes[d].argv
        BY <1>4, <4>1, <4>4 DEF Fresh
      <4>6. nodes[d].argv = m[i].n
        BY <1>3, <1>4, <3>2, <4>4, NodeLeads
      <4>7. QED  BY <1>2, <2>3, <3>2, <4>3, <4>5, <4>6
    <3>3. QED  BY <3>1, <3>2
  <2>5. f = g
    BY <2>2, <2>3, <2>4, SameCounters
  <2>6. QED  BY <2>1, <2>5
<1>11. QED  BY <1>4, <1>7, <1>8, <1>9, <1>10 DEF Walk!Start

\* What is shown of a thread that executes a node, and goes on.
LEMMA Walks ==
  ASSUME NEW w, GraphAssumption(w), TextInv(w), Shown(w), Shown(w)', Executing(w), Executing(w)',
         text' = text, NEW m, m = text[w], NEW d, d = node[w], d # 0, NEW i, i = nodes[d].stmt
  PROVE  /\ GraphInv(w) /\ m \in Seq(Stmt) /\ Built(m, Len(m), 0) /\ Own(d)
         /\ i \in DOMAIN m /\ DOMAIN m = 1..Len(m)
         /\ WalkedText = m /\ WalkedText' = m /\ Position = i
         /\ Position' = IF node'[w] = 0 THEN Len(m) + 1 ELSE nodes'[node'[w]].stmt
         /\ Counters = [j \in DOMAIN m |-> Counters[j]]
         /\ Counters' = [j \in DOMAIN m |-> Counters'[j]]
<1>1. BuildInv(w) /\ pc[w] \in {"evaluate", "command", "poll"} /\ GraphInv(w)
  BY DEF TextInv, Executing
<1>2. m \in Seq(Stmt) /\ Built(m, Len(m), 0) /\ Own(d)
  BY <1>1, MethodAssumption DEF BuildInv
<1>3. DOMAIN m = 1..Len(m)
  BY <1>2
<1>4. i \in DOMAIN m
  BY <1>1, <1>2, <1>3, NodeLeads
<1>5. text'[w] = m
  OBVIOUS
<1>6. WalkedText = m /\ Position = i /\ Counters = [j \in DOMAIN m |-> Counters[j]]
  BY DEF Shown
<1>7. /\ WalkedText' = m
      /\ Position' = IF node'[w] = 0 THEN Len(m) + 1 ELSE nodes'[node'[w]].stmt
      /\ Counters' = [j \in DOMAIN m |-> Counters'[j]]
  BY <1>5 DEF Shown
<1>8. QED  BY <1>1, <1>2, <1>3, <1>4, <1>6, <1>7

LEMMA Commands ==
  ASSUME NEW w, GraphAssumption(w), TextInv(w), Shown(w), Shown(w)', ReturnCommand(w)
  PROVE  Walk!Command
<1>1. PICK m, d, i : m = text[w] /\ d = node[w] /\ i = nodes[d].stmt
  OBVIOUS
<1>2. /\ pc[w] = "command" /\ node' = [node EXCEPT ![w] = nodes[d].next] /\ Goto(w, "poll")
      /\ nodes' = nodes /\ text' = text /\ runs' = runs
  BY <1>1 DEF ReturnCommand, list
<1>3. BuildInv(w) /\ GraphInv(w) /\ GraphTypes(w) /\ w \in Thread /\ node \in [Thread -> Nat]
  BY DEF TextInv, GraphInv, GraphTypes, GraphAssumption
<1>4. Executing(w) /\ Executing(w)' /\ node'[w] = nodes[d].next
  <2>1. pc'[w] = "poll" /\ node'[w] = nodes[d].next
    BY <1>2, <1>3, GraphGoes DEF PC
  <2>2. QED  BY <1>2, <2>1 DEF Executing
<1>5. d # 0 /\ nodes[d].type = "cmd"
  BY <1>1, <1>2, <1>3 DEF BuildInv, Own
<1>6. /\ GraphInv(w) /\ m \in Seq(Stmt) /\ Built(m, Len(m), 0) /\ Own(d)
      /\ i \in DOMAIN m /\ DOMAIN m = 1..Len(m)
      /\ WalkedText = m /\ WalkedText' = m /\ Position = i
      /\ Position' = IF node'[w] = 0 THEN Len(m) + 1 ELSE nodes'[node'[w]].stmt
      /\ Counters = [j \in DOMAIN m |-> Counters[j]]
      /\ Counters' = [j \in DOMAIN m |-> Counters'[j]]
  BY <1>1, <1>2, <1>4, <1>5, Walks
<1>7. m[i].k = "cmd" /\ Out(m, i) = i + 1 /\ Out(m, i) \in 1..Len(m) + 1
      /\ Leads(m, Len(m), nodes[d].next, Out(m, i))
  <2>1. m[i].k = "cmd" /\ Out(m, i) \in 1..Len(m) + 1
        /\ Leads(m, Len(m), nodes[d].next, Out(m, i))
    BY <1>1, <1>5, <1>6, NodeLeads
  <2>2. QED  BY <2>1 DEF Out
<1>8. Position' = Walk!Land(m, i + 1)
  <2>1. PICK e : e = nodes[d].next
    OBVIOUS
  <2>2. (IF e = 0 THEN Len(m) + 1 ELSE nodes[e].stmt) = Walk!Land(m, Out(m, i))
    BY <1>6, <1>7, <2>1, LedTo
  <2>3. Position' = IF e = 0 THEN Len(m) + 1 ELSE nodes[e].stmt
    BY <1>2, <1>4, <1>6, <2>1
  <2>4. QED  BY <1>7, <2>2, <2>3
<1>9. Counters' = Counters
  <2>1. PICK f, g : f = Counters' /\ g = Counters
    OBVIOUS
  <2>2. ASSUME NEW j \in DOMAIN m
        PROVE  f[j] = g[j]
    <3>1. CASE m[j].k \notin {"loop", "delay"}
      <4>1. f[j] = 0 /\ g[j] = 0
        BY <1>1, <1>2, <1>4, <2>1, <3>1 DEF Shown
      <4>2. QED  BY <4>1
    <3>2. CASE m[j].k \in {"loop", "delay"}
      <4>1. PICK e \in 1..Len(nodes) : At(j, e)
        BY <1>6, <3>2 DEF Built, Covered
      <4>2. At(j, e)'
        BY <1>2, <4>1 DEF At
      <4>3. f[j] = nodes'[e].argc
        BY <1>1, <1>2, <1>4, <2>1, <3>2, <4>2 DEF Shown
      <4>4. g[j] = nodes[e].argc
        BY <1>1, <1>4, <2>1, <3>2, <4>1 DEF Shown
      <4>5. QED  BY <1>2, <4>3, <4>4
    <3>3. QED  BY <3>1, <3>2
  <2>3. f = g
    BY <1>6, <2>1, <2>2, SameCounters
  <2>4. QED  BY <2>1, <2>3
<1>10. QED  BY <1>6, <1>7, <1>8, <1>9 DEF Walk!Command

LEMMA Visits ==
  ASSUME NEW w, GraphAssumption(w), TextInv(w), Shown(w), Shown(w)', VisitControl(w)
  PROVE  Walk!Visit
<1>1. PICK m, d, i, c : /\ m = text[w] /\ d = node[w] /\ i = nodes[d].stmt
                        /\ c = (nodes[d].argc - 1) % Wrap
  OBVIOUS
<1>2. BuildInv(w) /\ GraphInv(w)
  BY DEF TextInv
<1>3. /\ pc[w] = "evaluate" /\ d \in 1..Len(nodes) /\ nodes[d].type # "cmd" /\ Unmoved
      /\ pc'[w] = "poll" /\ text' = text
      /\ node'[w] = IF c # 0 THEN nodes[d].branch ELSE nodes[d].next
      /\ \A k \in 1..Len(nodes) :
           nodes'[k].argc = IF k # d THEN nodes[k].argc ELSE IF c # 0 THEN c ELSE nodes[d].argv
  BY <1>1, <1>2, VisitIs
<1>4. Executing(w) /\ Executing(w)' /\ d # 0
  BY <1>3 DEF Executing
<1>5. /\ m \in Seq(Stmt) /\ Built(m, Len(m), 0) /\ Own(d)
      /\ i \in DOMAIN m /\ DOMAIN m = 1..Len(m)
      /\ WalkedText = m /\ WalkedText' = m /\ Position = i
      /\ Position' = IF node'[w] = 0 THEN Len(m) + 1 ELSE nodes'[node'[w]].stmt
      /\ Counters = [j \in DOMAIN m |-> Counters[j]]
      /\ Counters' = [j \in DOMAIN m |-> Counters'[j]]
  BY <1>1, <1>3, <1>4, Walks
<1>6. /\ m[i].k \in {"loop", "delay"} /\ nodes[d].argv = m[i].n
      /\ Out(m, i) \in 1..Len(m) + 1 /\ Leads(m, Len(m), nodes[d].next, Out(m, i))
      /\ m[i].k = "loop" => /\ i + 1 \in 1..Len(m) + 1
                            /\ Leads(m, Len(m), nodes[d].branch, i + 1)
      /\ m[i].k = "delay" => nodes[d].branch = d
  <2>1. GraphInv(w) /\ m \in Seq(Stmt) /\ Built(m, Len(m), 0) /\ Own(d) /\ i = nodes[d].stmt
    BY <1>1, <1>2, <1>5
  <2>2. /\ m[i].k = nodes[d].type /\ (m[i].k # "cmd" => nodes[d].argv = m[i].n)
        /\ m[i].k \in {"cmd", "loop", "delay"} /\ Out(m, i) \in 1..Len(m) + 1
        /\ Leads(m, Len(m), nodes[d].next, Out(m, i))
        /\ m[i].k = "loop" => /\ i + 1 \in 1..Len(m) + 1
                              /\ Leads(m, Len(m), nodes[d].branch, i + 1)
        /\ m[i].k = "delay" => nodes[d].branch = d
    BY <2>1, NodeLeads
  <2>3. m[i].k # "cmd"
    BY <1>3, <2>2
  <2>4. QED  BY <2>2, <2>3
<1>7. At(i, d) /\ text[w][i].k \in {"loop", "delay"} /\ i \in DOMAIN text[w]
  BY <1>1, <1>5, <1>6 DEF At, Own
<1>8. Counters[i] = nodes[d].argc
  BY <1>4, <1>7 DEF Shown
<1>9. Position' = IF c = 0 THEN Walk!After(m, i)
                  ELSE IF m[i].k = "delay" THEN i ELSE Walk!Land(m, i + 1)
  <2>1. PICK e : e = node'[w]
    OBVIOUS
  <2>2. Position' = IF e = 0 THEN Len(m) + 1 ELSE nodes[e].stmt
    <3>1. e # 0 => e \in 1..Len(nodes)
      <4>1. nodes[d].branch \in 0..Len(nodes) /\ nodes[d].next \in 0..Len(nodes)
        BY <1>2, <1>3 DEF GraphInv, Pointers
      <4>2. Len(nodes) \in Nat
        BY <1>2 DEF GraphInv, GraphTypes
      <4>3. QED  BY <1>3, <2>1, <4>1, <4>2
    <3>2. e # 0 => nodes'[e].stmt = nodes[e].stmt
      BY <1>3, <3>1 DEF Unmoved
    <3>3. QED  BY <1>5, <2>1, <3>2
  <2>3. CASE c = 0
    <3>1. e = nodes[d].next
      BY <1>3, <2>1, <2>3
    <3>2. (IF e = 0 THEN Len(m) + 1 ELSE nodes[e].stmt) = Walk!Land(m, Out(m, i))
      BY <1>5, <1>6, <3>1, LedTo
    <3>3. Walk!After(m, i) = Walk!Land(m, Out(m, i))
      BY DEF Walk!After, Out
    <3>4. QED  BY <2>2, <2>3, <3>2, <3>3
  <2>4. CASE c # 0 /\ m[i].k = "delay"
    <3>1. e = d /\ d # 0
      BY <1>3, <1>4, <1>6, <2>1, <2>4
    <3>2. QED  BY <1>1, <2>2, <2>4, <3>1
  <2>5. CASE c # 0 /\ m[i].k = "loop"
    <3>1. e = nodes[d].branch
      BY <1>3, <2>1, <2>5
    <3>2. (IF e = 0 THEN Len(m) + 1 ELSE nodes[e].stmt) = Walk!Land(m, i + 1)
      BY <1>5, <1>6, <2>5, <3>1, LedTo
    <3>3. QED  BY <2>2, <2>5, <3>2
  <2>6. QED  BY <1>6, <2>3, <2>4, <2>5
<1>10. Counters' = [Counters EXCEPT ![i] = IF c # 0 THEN c ELSE m[i].n]
  <2>1. PICK v : v = IF c # 0 THEN c ELSE m[i].n
    OBVIOUS
  <2>2. PICK f, g, h : f = Counters' /\ h = Counters /\ g = [h EXCEPT ![i] = v]
    OBVIOUS
  <2>3. DOMAIN h = DOMAIN m
    <3>1. h = [j \in DOMAIN m |-> h[j]]
      BY <1>5, <2>2
    <3>2. QED  BY <3>1
  <2>4. /\ g = [j \in DOMAIN m |-> g[j]]
        /\ \A j \in DOMAIN m : g[j] = IF j = i THEN v ELSE h[j]
    BY <2>2, <2>3
  <2>5. ASSUME NEW j \in DOMAIN m
        PROVE  f[j] = g[j]
    <3>1. CASE m[j].k \notin {"loop", "delay"}
      <4>1. f[j] = 0 /\ h[j] = 0 /\ j # i
        BY <1>1, <1>3, <1>4, <1>6, <2>2, <3>1 DEF Shown
      <4>2. QED  BY <2>4, <4>1
    <3>2. CASE m[j].k \in {"loop", "delay"}
      <4>1. PICK e \in 1..Len(nodes) : At(j, e)
        BY <1>5, <3>2 DEF Built, Covered
      <4>2. At(j, e)'
        BY <1>3, <4>1 DEF At, Unmoved
      <4>3. f[j] = nodes'[e].argc
        BY <1>1, <1>3, <1>4, <2>2, <3>2, <4>2 DEF Shown
      <4>4. h[j] = nodes[e].argc
        BY <1>1, <1>4, <2>2, <3>2, <4>1 DEF Shown
      <4>5. e = d <=> j = i
        BY <1>1, <1>5, <1>7, <4>1 DEF Built, Covered, At, Own
      <4>6. nodes'[e].argc = IF e = d THEN v ELSE nodes[e].argc
        BY <1>3, <1>6, <2>1
      <4>7. QED  BY <2>4, <4>3, <4>4, <4>5, <4>6
    <3>3. QED  BY <3>1, <3>2
  <2>6. f = g
    BY <1>5, <2>2, <2>4, <2>5, SameCounters
  <2>7. QED  BY <2>1, <2>2, <2>6
<1>11. QED
  <2>1. c = (Counters[Position] - 1) % Wrap
    BY <1>1, <1>5, <1>8
  <2>2. WalkedText' = WalkedText /\ Position \in DOMAIN WalkedText
        /\ WalkedText[Position].k \in {"loop", "delay"}
    BY <1>5, <1>6
  <2>3. CASE c # 0
    BY <1>5, <1>9, <1>10, <2>1, <2>2, <2>3 DEF Walk!Visit
  <2>4. CASE c = 0
    BY <1>5, <1>9, <1>10, <2>1, <2>2, <2>4 DEF Walk!Visit
  <2>5. QED  BY <2>3, <2>4

\* A step that neither moves nor counts.
LEMMA Stutters ==
  ASSUME NEW w, Executor = {w}, Executing(w) <=> Executing(w)',
         UNCHANGED <<nodes, text, node, runs>>
  PROVE  UNCHANGED Walk!tvars
<1>1. Walker = w /\ Walker' = w
  BY WalkerIs DEF Walker
<1>2. WalkedText' = WalkedText
  BY <1>1 DEF WalkedText
<1>3. Position' = Position
  BY <1>1, <1>2 DEF Position
<1>4. Counters' = Counters
  BY <1>2 DEF Counters, NodeOf
<1>5. QED  BY <1>2, <1>3, <1>4 DEF Walk!tvars

LEMMA Refines ==
  ASSUME NEW w, Executor = {w}, GraphAssumption(w), TextInv(w), TextInv(w)', [Next]_vars
  PROVE  [Walk!TNext]_Walk!tvars
<1>1. Shown(w) /\ Shown(w)'
  BY IsShown, IsShownNext
<1>2. GraphInv(w) /\ GraphTypes(w) /\ w \in Thread
  BY DEF TextInv, GraphInv, GraphAssumption
<1>3. CASE UNCHANGED vars
  <2>1. UNCHANGED <<nodes, text, node, runs>> /\ (Executing(w) <=> Executing(w)')
    BY <1>3 DEF vars, list, locals, Executing
  <2>2. QED  BY <2>1, Stutters
<1>4. CASE Next
  <2>1. PICK t \in Thread : Execute(t) \/ Terminate(t) \/ Run(t)
    BY <1>4 DEF Next
  <2>2. Execute(w) \/ Terminate(w) \/ Run(w)
    BY <1>2, <2>1, OnlyOneActs
  <2>3. CASE Execute(w) \/ Terminate(w) \/ Finish(w)
    <3>1. /\ pc[w] \in {"idle", "finish"}
          /\ \E l \in {"clear", "idle"} : Goto(w, l)
      BY <2>3 DEF Execute, Terminate, Finish
    <3>2. pc'[w] \in {"clear", "idle"}
      BY <1>2, <3>1, GraphGoes DEF PC
    <3>3. QED  BY <1>1, <3>1, <3>2, Asides DEF Executing
  <2>4. CASE ReadHead(w) \/ LockNodes(w) \/ FreeNode(w) \/ UnlockNodes(w) \/ StopTraversing(w)
             \/ ResetHead(w)
    <3>1. /\ pc[w] \in {"clear", "lock", "free", "stop", "reset"}
          /\ \/ \E l \in {"lock", "free", "stop", "reset", "idle", "parse"} : Goto(w, l)
             \/ pc' = pc
      BY <2>4 DEF ReadHead, LockNodes, FreeNode, UnlockNodes, StopTraversing, ResetHead
    <3>2. pc'[w] \in {"clear", "lock", "free", "stop", "reset", "idle", "parse"}
      BY <1>2, <3>1, GraphGoes DEF PC
    <3>3. QED  BY <1>1, <3>1, <3>2, Asides DEF Executing
  <2>5. CASE Parse(w)
    <3>1. /\ pc[w] \in {"parse", "closeDelay"}
          /\ \/ \E l \in {"closeDelay", "parse", "fetch"} : Goto(w, l)
             \/ pc' = pc
      BY <2>5 DEF Parse, AddCommandNode, AddControlNode, CloseControlNode, ParseEnd, AtStatement
    <3>2. pc'[w] \in {"closeDelay", "parse", "fetch"}
      BY <1>2, <3>1, GraphGoes DEF PC
    <3>3. QED  BY <1>1, <3>1, <3>2, Asides DEF Executing
  <2>6. CASE Fetch(w)
    BY <1>1, <2>6, Starts DEF Walk!TNext
  <2>7. CASE ReturnCommand(w)
    BY <1>1, <2>7, Commands DEF Walk!TNext
  <2>8. CASE VisitControl(w)
    BY <1>1, <2>8, Visits DEF Walk!TNext
  <2>9. CASE CallCommand(w) \/ Poll(w) \/ EndOfList(w)
    <3>1. /\ pc[w] \in {"evaluate", "poll"} /\ UNCHANGED <<nodes, text, node, runs>>
          /\ \E l \in {"command", "evaluate", "finish"} : Goto(w, l)
      BY <2>9 DEF CallCommand, Poll, EndOfList, list
    <3>2. pc'[w] \in {"command", "evaluate", "finish"}
      BY <1>2, <3>1, GraphGoes DEF PC
    <3>3. CASE pc'[w] = "finish"
      <4>1. Executing(w) /\ ~Executing(w)'
        BY <3>1, <3>3 DEF Executing
      <4>2. QED  BY <1>1, <4>1, Stops DEF Walk!TNext
    <3>4. CASE pc'[w] # "finish"
      <4>1. Executing(w) /\ Executing(w)'
        BY <3>1, <3>2, <3>4 DEF Executing
      <4>2. QED  BY <3>1, <4>1, Stutters
    <3>5. QED  BY <3>3, <3>4
  <2>10. QED  BY <2>2, <2>3, <2>4, <2>5, <2>6, <2>7, <2>8, <2>9 DEF Run
<1>5. QED  BY <1>3, <1>4

\* One client executes methods, whose ends all close a loop: walking the graph executes the
\* text.  The graph is built statement by statement into what the interpreter of the text
\* expects, whatever other methods left on the stack, and every step that executes it is a
\* step of the interpreter, or none: the same statements in the same order, with the same
\* counters.
THEOREM GraphIsText ==
  ASSUME NEW w, Executor = {w}, Terminator \subseteq {w},
         \A m \in Method : Walk!EndsMatch(m)
  PROVE  Spec => ExecutesText
<1>1. GraphAssumption(w) /\ EndsAssumption
  BY ThreadAssumption, MethodAssumption, SizeAssumption DEF GraphAssumption, EndsAssumption
<1>2. Init => TextInv(w)
  BY <1>1, GraphBegins, TextBegins DEF TextInv
<1>3. TextInv(w) /\ [Next]_vars => TextInv(w)'
  BY <1>1, GraphStep, TextStep DEF TextInv
<1>4. Init => Walk!TInit
  <2>1. SUFFICES ASSUME Init  PROVE Walk!TInit
    OBVIOUS
  <2>2. Shown(w)
    BY <1>2, <2>1, IsShown
  <2>3. pc[w] = "idle"
    BY <1>1, <2>1 DEF Init, GraphAssumption
  <2>4. QED  BY <2>2, <2>3 DEF Shown, Executing, Walk!TInit
<1>5. TextInv(w) /\ TextInv(w)' /\ [Next]_vars => [Walk!TNext]_Walk!tvars
  BY <1>1, Refines
<1>6. QED  BY <1>2, <1>3, <1>4, <1>5, PTL DEF Spec, ExecutesText, Walk!TSpec

=============================================================================
