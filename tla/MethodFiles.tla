----------------------------- MODULE MethodFiles -----------------------------
(***************************************************************************)
(* The method files (methodFileManager.c): clients upload, read and delete *)
(* them and select the one that is executed.  There is no lock; files are  *)
(* truncated when they are opened for writing, and what is written stays   *)
(* in a buffer until it is full or the file is closed.                     *)
(*                                                                         *)
(* An upload comes in pieces, each of which is acked; a piece stands for   *)
(* its bytes and is the number of its upload.  A connection may be lost    *)
(* before the last one.  Then the file stays open until the server exits.  *)
(* The disk may be full: nothing tests whether what is written fits.       *)
(***************************************************************************)
EXTENDS Integers, Sequences, FiniteSets

CONSTANTS Client, Name,
          Empty,        \* the empty name: not in Name
          Mixed,        \* a name that is made of two
          NoSelection,  \* there is no file with the selected name
          Buffer,       \* the pieces that a stream buffers
          MaxPieces, MaxRequests, MaxRestarts  \* bounds of the model

ASSUME FilesAssumption == /\ Cardinality({Empty, Mixed, NoSelection}) = 3
                          /\ {Empty, Mixed, NoSelection} \cap Name = {}
                          /\ Buffer \in Nat \ {0}

VARIABLES
  dir,       \* dir[n]: the file with the name n, or 0
  data,      \* data[f]: the contents of the file f, also if it has no name any more
  active,    \* what ACTIVESCRIPTCONFIGFILE has
  phase,     \* the process: "up", "exiting" or "down"
  doing,     \* doing[t]: "idle" or what its handler does
  name,      \* name[t]: the method file that it is about
  stream,    \* stream[t]: the file that is open for writing, or was
  left,      \* the streams that were never closed
  file,      \* file[t]: the file that is open for reading
  got,       \* got[t]: what was read
  requests, restarts,
  stored,    \* history: stored[f]: the contents that were acked, unless contested
  contested, \* history: contested[t]: another thread had t's file open for writing, or
             \* there was no room for a piece
  want,      \* history: what a reader should get
  disturbed, \* history: a file with this name changed while t read
  chosen     \* history: the name selected last, or Empty if that is not sure

disk == <<dir, data, active>>
history == <<stored, contested, want, disturbed, chosen>>
fvars == <<disk, phase, doing, name, stream, left, file, got, requests, restarts, history>>

Unknown == <<0>>
NoStream == [file |-> 0, at |-> 0, buffer |-> <<>>, id |-> 0, pieces |-> 0]

FInit ==
  /\ dir = [n \in Name |-> 0]
  /\ data = <<>>
  /\ active = NoSelection
  /\ phase = "up"
  /\ doing = [t \in Client |-> "idle"]
  /\ name = [t \in Client |-> Empty]
  /\ stream = [t \in Client |-> NoStream]
  /\ left = {}
  /\ file = [t \in Client |-> 0]
  /\ got = [t \in Client |-> Unknown]
  /\ requests = 0 /\ restarts = 0
  /\ stored = <<>>
  /\ contested = [t \in Client |-> FALSE]
  /\ want = [t \in Client |-> Unknown]
  /\ disturbed = [t \in Client |-> FALSE]
  /\ chosen = NoSelection

-----------------------------------------------------------------------------
\* Files.

\* What is in a file after s was written to it behind the first at pieces.
Written(d, at, s) ==
  [k \in 1..(IF Len(d) > at + Len(s) THEN Len(d) ELSE at + Len(s)) |->
     IF k > at /\ k <= at + Len(s) THEN s[k - at]
     ELSE IF k <= Len(d) THEN d[k] ELSE 0]

Flushed(d, s) == [d EXCEPT ![s.file] = Written(@, s.at, s.buffer)]

\* fputc: a full buffer is written first.
Put(d, s) == IF Len(s.buffer) < Buffer THEN d ELSE Flushed(d, s)
PutIn(s) ==
  LET full == Len(s.buffer) >= Buffer
  IN [s EXCEPT !.at = IF full THEN @ + Len(s.buffer) ELSE @,
               !.buffer = IF full THEN <<s.id>> ELSE Append(@, s.id),
               !.pieces = @ + 1]

OnFile(f) == {s \in left : s.file = f}
Writers(f) == {t \in Client : doing[t] = "uploading" /\ stream[t].file = f}

\* The readers of n get something else than they should.
Touch(t, n) ==
  disturbed' = [u \in Client |-> disturbed[u] \/ (u # t /\ doing[u] \in {"reading", "opening"}
                                                           /\ name[u] = n)]

\* What should be read from n.
Expected(n) == IF dir[n] = 0 THEN <<>> ELSE stored[dir[n]]

Begin(t, n) ==
  /\ phase = "up"
  /\ doing[t] = "idle"
  /\ requests < MaxRequests
  /\ requests' = requests + 1
  /\ name' = [name EXCEPT ![t] = n]

-----------------------------------------------------------------------------
\* Upload (LRM).

\* createMethodFile: fopen with "w+".
receiveMethodFile(t, n) ==
  /\ Begin(t, n)
  /\ LET f == IF dir[n] = 0 THEN Len(data) + 1 ELSE dir[n]
     IN /\ dir' = [dir EXCEPT ![n] = f]
        /\ data' = IF dir[n] = 0 THEN Append(data, <<>>) ELSE [data EXCEPT ![f] = <<>>]
        /\ stored' = IF dir[n] = 0 THEN Append(stored, Unknown)
                     ELSE [stored EXCEPT ![f] = Unknown]
        /\ stream' = [stream EXCEPT ![t] = [NoStream EXCEPT !.file = f, !.id = requests + 1]]
        /\ contested' = [u \in Client |->
             IF u = t THEN OnFile(f) # {} \/ Writers(f) # {} ELSE contested[u] \/ u \in Writers(f)]
  /\ doing' = [doing EXCEPT ![t] = "uploading"]
  /\ Touch(t, n)
  /\ UNCHANGED <<active, phase, left, file, got, restarts, want, chosen>>

\* createMethodFile fails: there is no directory, or no room for the file.  There is no
\* answer either.
CannotCreate(t, n) ==
  /\ Begin(t, n)
  /\ UNCHANGED <<disk, phase, doing, stream, left, file, got, restarts, history>>

ReceivePiece(t) ==
  /\ phase = "up"
  /\ doing[t] = "uploading"
  /\ stream[t].pieces < MaxPieces - 1
  /\ data' = Put(data, stream[t])
  /\ stream' = [stream EXCEPT ![t] = PutIn(@)]
  /\ Touch(t, name[t])
  /\ UNCHANGED <<dir, active, phase, doing, name, left, file, got, requests, restarts, stored,
                 contested, want, chosen>>

\* The buffer is full and the disk, too: the stream drops both it and the piece.
LosePiece(t) ==
  /\ phase = "up"
  /\ doing[t] = "uploading"
  /\ stream[t].pieces < MaxPieces - 1
  /\ Len(stream[t].buffer) >= Buffer
  /\ stream' = [stream EXCEPT ![t].buffer = <<>>, ![t].pieces = @ + 1]
  /\ contested' = [contested EXCEPT ![t] = TRUE]
  /\ UNCHANGED <<disk, phase, doing, name, left, file, got, requests, restarts, stored, want,
                 disturbed, chosen>>

\* Faulty: the file is not closed.
ReceiveLast_NoClose(t) ==
  /\ phase = "up"
  /\ doing[t] = "uploading"
  /\ data' = Put(data, stream[t])
  /\ LET s == PutIn(stream[t])
     IN /\ stored' = [stored EXCEPT ![s.file] =
                        IF contested[t] THEN Unknown ELSE [k \in 1..s.pieces |-> s.id]]
        /\ left' = left \cup {s}
  /\ stream' = [stream EXCEPT ![t] = NoStream]
  /\ doing' = [doing EXCEPT ![t] = "idle"]
  /\ Touch(t, name[t])
  /\ UNCHANGED <<dir, active, phase, name, file, got, requests, restarts, contested, want,
                 chosen>>

\* The piece that ends with LRM: the file is closed.
ReceiveLast(t) ==
  /\ phase = "up"
  /\ doing[t] = "uploading"
  /\ LET s == PutIn(stream[t])
     IN /\ data' = Flushed(Put(data, stream[t]), s)
        /\ stored' = [stored EXCEPT ![s.file] =
                        IF contested[t] THEN Unknown ELSE [k \in 1..s.pieces |-> s.id]]
  /\ stream' = [stream EXCEPT ![t] = NoStream]
  /\ doing' = [doing EXCEPT ![t] = "idle"]
  /\ Touch(t, name[t])
  /\ UNCHANGED <<dir, active, phase, name, left, file, got, requests, restarts, contested,
                 want, chosen>>

\* The same, but what is still in the buffer has no room, or not even the buffer before
\* it.  It is acked all the same.
LoseLast(t) ==
  /\ phase = "up"
  /\ doing[t] = "uploading"
  /\ data' \in {data, Put(data, stream[t])}
  /\ stored' = [stored EXCEPT ![stream[t].file] = Unknown]
  /\ stream' = [stream EXCEPT ![t] = NoStream]
  /\ doing' = [doing EXCEPT ![t] = "idle"]
  /\ Touch(t, name[t])
  /\ UNCHANGED <<dir, active, phase, name, left, file, got, requests, restarts, contested,
                 want, chosen>>

\* The connection is lost: nobody closes the file.
LoseConnection(t) ==
  /\ phase = "up"
  /\ doing[t] = "uploading"
  /\ left' = left \cup {stream[t]}
  /\ stream' = [stream EXCEPT ![t] = NoStream]
  /\ doing' = [doing EXCEPT ![t] = "idle"]
  /\ UNCHANGED <<disk, phase, name, file, got, requests, restarts, history>>

-----------------------------------------------------------------------------
\* Read (RMF), delete (DLM) and select (SMF).

sendMethodFile(t, n) ==
  /\ Begin(t, n)
  /\ file' = [file EXCEPT ![t] = dir[n]]
  /\ got' = [got EXCEPT ![t] = <<>>]
  /\ want' = [want EXCEPT ![t] = Expected(n)]
  /\ disturbed' = [disturbed EXCEPT ![t] = FALSE]
  /\ doing' = [doing EXCEPT ![t] = IF dir[n] = 0 THEN "idle" ELSE "reading"]
  /\ UNCHANGED <<disk, phase, stream, left, restarts, stored, contested, chosen>>

\* Faulty: only as much as one buffer is sent.
SendBlock_One(t) ==
  /\ phase = "up"
  /\ doing[t] = "reading"
  /\ got' = [got EXCEPT ![t] = SubSeq(data[file[t]], 1, IF data[file[t]] = <<>> THEN 0 ELSE 1)]
  /\ doing' = [doing EXCEPT ![t] = "idle"]
  /\ UNCHANGED <<disk, phase, name, stream, left, file, requests, restarts, history>>

\* A block is read and sent, or the end of the file is reached.
SendBlock(t) ==
  /\ phase = "up"
  /\ doing[t] = "reading"
  /\ LET d == data[file[t]] IN
       IF Len(got[t]) < Len(d)
       THEN /\ got' = [got EXCEPT ![t] = Append(@, d[Len(@) + 1])]
            /\ UNCHANGED doing
       ELSE doing' = [doing EXCEPT ![t] = "idle"] /\ UNCHANGED got
  /\ UNCHANGED <<disk, phase, name, stream, left, file, requests, restarts, history>>

receiveDeleteMethodFile(t, n) ==
  /\ Begin(t, n)
  /\ dir' = [dir EXCEPT ![n] = 0]
  /\ Touch(t, n)
  /\ UNCHANGED <<data, active, phase, doing, stream, left, file, got, restarts, stored, contested,
                 want, chosen>>

Selecting == {t \in Client : doing[t] = "selecting"}

\* The file with the selection is truncated ...
receiveSetCurrentMethodFile(t, n) ==
  /\ Begin(t, n)
  /\ active' = Empty
  /\ doing' = [doing EXCEPT ![t] = "selecting"]
  /\ contested' = [u \in Client |-> IF u = t THEN Selecting # {}
                                    ELSE contested[u] \/ u \in Selecting]
  /\ chosen' = Empty
  /\ UNCHANGED <<dir, data, phase, stream, left, file, got, restarts, stored, want,
                 disturbed>>

\* ... and has the new name when it is closed; of a longer name that another thread
\* has written meanwhile the end remains.
CloseSelection(t) ==
  /\ phase = "up"
  /\ doing[t] = "selecting"
  /\ active' \in IF active \in {Empty, name[t]} THEN {name[t]} ELSE {name[t], Mixed}
  /\ chosen' = IF contested[t] THEN Empty ELSE name[t]
  /\ doing' = [doing EXCEPT ![t] = "idle"]
  /\ UNCHANGED <<dir, data, phase, name, stream, left, file, got, requests, restarts, stored,
                 contested, want, disturbed>>

-----------------------------------------------------------------------------
\* The process ends, and is started again.

StopThreads ==
  /\ doing' = [t \in Client |-> "idle"]
  /\ stream' = [t \in Client |-> NoStream]
  /\ want' = [t \in Client |-> Unknown]
  /\ UNCHANGED <<stored, contested, disturbed>>

\* exit() flushes what is open, one by one; a selection that is open is written or not.
exit ==
  /\ phase' = "exiting"
  /\ active' \in {active} \cup {name[t] : t \in Selecting}
                \cup (IF Cardinality(Selecting) > 1 THEN {Mixed} ELSE {})
  /\ left' = left \cup {stream[t] : t \in {u \in Client : doing[u] = "uploading"}}
  /\ StopThreads

ExitOnTerm ==
  /\ phase = "up"
  /\ exit
  /\ UNCHANGED <<dir, data, name, file, got, requests, restarts, chosen>>

FlushAtExit ==
  /\ phase = "exiting"
  /\ \E s \in left : data' \in {data, Flushed(data, s)} /\ left' = left \ {s}
  /\ UNCHANGED <<dir, active, phase, doing, name, stream, file, got, requests, restarts, history>>

\* What is in buffers is lost.
Crash ==
  /\ phase = "up"
  /\ phase' = "down"
  /\ left' = {}
  /\ StopThreads
  /\ UNCHANGED <<disk, name, file, got, requests, restarts, chosen>>

Restart ==
  /\ phase = "down" \/ (phase = "exiting" /\ left = {})
  /\ restarts < MaxRestarts
  /\ restarts' = restarts + 1
  /\ phase' = "up"
  /\ UNCHANGED <<disk, doing, name, stream, left, file, got, requests, history>>

-----------------------------------------------------------------------------
\* Execute (EXM, and the method that runs at the start).

\* getActiveMethodFilename.  Without a selection nothing is executed.
receiveExecuteMethod(t) ==
  /\ Begin(t, active)
  /\ doing' = [doing EXCEPT ![t] = IF active = NoSelection THEN "idle" ELSE "opening"]
  /\ got' = [got EXCEPT ![t] = Unknown]
  /\ want' = [want EXCEPT ![t] = IF chosen \notin Name THEN Unknown ELSE Expected(chosen)]
  /\ disturbed' = [disturbed EXCEPT ![t] = FALSE]
  /\ UNCHANGED <<disk, phase, stream, left, file, restarts, stored, contested, chosen>>

\* The method is parsed; if there is no such file nothing is done.  The empty name
\* stands for the directory itself: it can be opened but not read, and the lexer
\* ends the process.
OpenMethod(t) ==
  /\ phase = "up"
  /\ doing[t] = "opening"
  /\ IF name[t] = Empty
     THEN exit /\ UNCHANGED <<name, file, got, restarts, chosen>>
     ELSE /\ got' = [got EXCEPT ![t] = IF name[t] = Mixed \/ dir[name[t]] = 0 THEN <<>>
                                       ELSE data[dir[name[t]]]]
          /\ doing' = [doing EXCEPT ![t] = "idle"]
          /\ UNCHANGED <<active, phase, stream, left, name, file, restarts, history>>
  /\ UNCHANGED <<dir, data, requests>>

-----------------------------------------------------------------------------
Request(t) == \/ receiveExecuteMethod(t)
              \/ \E n \in Name : \/ receiveMethodFile(t, n) \/ CannotCreate(t, n)
                                  \/ sendMethodFile(t, n) \/ receiveDeleteMethodFile(t, n)
                                  \/ receiveSetCurrentMethodFile(t, n)

Work(t) == \/ ReceivePiece(t) \/ LosePiece(t) \/ ReceiveLast(t) \/ LoseLast(t)
           \/ LoseConnection(t) \/ SendBlock(t) \/ CloseSelection(t) \/ OpenMethod(t)

FNext == \/ ExitOnTerm \/ FlushAtExit \/ Crash \/ Restart
         \/ \E t \in Client : Request(t) \/ Work(t)

FSpec == FInit /\ [][FNext]_fvars

-----------------------------------------------------------------------------
\* Properties.

FTypeOK ==
  /\ dir \in [Name -> 0..Len(data)]
  /\ data \in Seq(Seq(Nat))
  /\ active \in Name \cup {Empty, Mixed, NoSelection}
  /\ phase \in {"up", "exiting", "down"}
  /\ doing \in [Client -> {"idle", "uploading", "reading", "selecting", "opening"}]
  /\ \A s \in left : s.file \in 1..Len(data)

\* An upload that was acked to its end is on disk, whole and unmixed, whatever other
\* requests, exits and crashes come, and so is the name selected last; unless the disk
\* was full, or others had the same file open for writing as well, or still have: also
\* the stream of an upload whose connection was lost, which is flushed at the exit over
\* the file that the same client has uploaded anew and had acked.
StoredWhole ==
  /\ \A f \in 1..Len(data) : stored[f] # Unknown => data[f] = stored[f]
  /\ chosen # Empty => active = chosen

\* What is sent, or executed, is the last such upload of the file that was asked
\* for, or selected, unless that file changed meanwhile.
ReadsStored ==
  \A t \in Client : phase = "up" /\ doing[t] = "idle" /\ ~disturbed[t] /\ want[t] # Unknown
                     => got[t] = want[t]

=============================================================================
