----------------------------- MODULE ServerProofs ----------------------------
(* Theorems about Server, for any number of connections, bins, descriptors, *)
(* threads and messages.                                                     *)
EXTENDS Server, SequenceTheorems, FiniteSetTheorems, TLAPS

-----------------------------------------------------------------------------
(* The bins.                                                               *)

BinType ==
  /\ thread_bin_available \in [Bin -> BOOLEAN]
  /\ conn \in [Client -> {"new", "pending", "open", "closed"}]
  /\ task \in [Thread -> {"none", "recv", "handle", "execute", "close", "free bin"}]
  /\ binOf \in [Client -> 0..NUM_THREADS]
  /\ i \in Int

\* Before it serves, main is at a step of its start, and nobody has a thread.
NotYet == phase = "starting" =>
  /\ at \in {StartUp[n] : n \in 1..10}
  /\ \A c \in Client : ~Served(c)

\* A connection that is not accepted has no thread.
Accepted == \A c \in Client : conn[c] \in {"new", "pending"} => ~Served(c)

\* The connection that a bin is looked for is accepted, and has no thread yet.
Sought == at = "scan" =>
  /\ conn_s \in Client
  /\ ~Served(conn_s)
  /\ conn[conn_s] \notin {"new", "pending"}

BinInv == BinType /\ NotYet /\ Accepted /\ Sought /\ OwnBin

LEMMA BinInvInit == Init => BinInv
<1> SUFFICES ASSUME Init
             PROVE  BinInv
  OBVIOUS
<1>1. at = StartUp[1] /\ 1 \in 1..10
  BY DEF Init, StartUp
<1>2. BinType /\ Accepted /\ OwnBin
  BY ServerAssumption DEF Init, BinType, Accepted, OwnBin, Served, Thread
<1>3. NotYet /\ Sought
  BY <1>1 DEF Init, NotYet, Sought, Served, Thread
<1>4. QED  BY <1>2, <1>3 DEF BinInv

LEMMA RunnerIsNoClient == Runner \notin Client
BY ServerAssumption

\* A step that leaves tasks, bins and main's place alone, and accepts nothing.
LEMMA BinsUntouched ==
  ASSUME BinInv, UNCHANGED <<task, binOf, thread_bin_available, i, conn_s, at>>,
         phase' = "starting" => phase = "starting",
         conn' \in [Client -> {"new", "pending", "open", "closed"}],
         \A c \in Client : conn'[c] \in {"new", "pending"} => conn[c] \in {"new", "pending"}
  PROVE  BinInv'
<1>1. BinType' /\ NotYet' /\ OwnBin'
  BY DEF BinInv, BinType, NotYet, OwnBin, Served
<1>2. Accepted' /\ Sought'
  BY DEF BinInv, Accepted, Sought, Served
<1>3. QED  BY <1>1, <1>2 DEF BinInv

\* A thread goes from one task to another, but keeps its bin.
LEMMA TaskChanges ==
  ASSUME BinInv, NEW t \in Thread, task[t] # "none",
         NEW to \in {"recv", "handle", "execute", "close", "free bin"},
         task' = [task EXCEPT ![t] = to],
         UNCHANGED <<main, binOf>>,
         conn' \in [Client -> {"new", "pending", "open", "closed"}],
         \A c \in Client : conn'[c] \in {"new", "pending"} => conn[c] \in {"new", "pending"}
  PROVE  BinInv'
<1>1. \A c \in Client : Served(c)' <=> Served(c)
  BY DEF BinInv, BinType, Served, Thread
<1>2. BinType' /\ NotYet' /\ OwnBin'
  BY <1>1 DEF BinInv, BinType, NotYet, OwnBin, main
<1>3. Accepted' /\ Sought'
  BY <1>1 DEF BinInv, Accepted, Sought, main
<1>4. QED  BY <1>2, <1>3 DEF BinInv

LEMMA BinMain == BinInv /\ MainNext => BinInv'
<1> SUFFICES ASSUME BinInv, MainNext
             PROVE  BinInv'
  OBVIOUS
<1>0. BinType
  BY DEF BinInv
<1>1. CASE StartFails \/ AcceptFails \/ disconnectSpectrometers \/ Exit
  BY <1>0, <1>1, BinsUntouched
  DEF StartFails, AcceptFails, disconnectSpectrometers, Exit, clients, threads, BinType
<1>2. CASE StartStep
  <2> DEFINE n == CHOOSE k \in DOMAIN StartUp : StartUp[k] = at
  <2>1. phase = "starting" /\ at # "execMode"
    BY <1>2 DEF StartStep, InMain
  <2>2. DOMAIN StartUp = 1..10 /\ StartUp[10] = "execMode"
    BY SMTT(30) DEF StartUp
  <2>3. \E k \in DOMAIN StartUp : StartUp[k] = at
    BY <2>1, <2>2 DEF BinInv, NotYet
  <2>4. n \in 1..10 /\ StartUp[n] = at
    BY <2>2, <2>3
  <2>5. at' = StartUp[1 + n]
    BY <1>2 DEF StartStep
  <2> HIDE DEF n
  <2>6. 1 + n \in 1..10
    <3>1. n # 10
      BY <2>1, <2>2, <2>4
    <3>2. QED  BY <2>4, <3>1
  <2>7. at' # "scan"
    BY <2>5, <2>6 DEF StartUp
  <2>8. BinType' /\ Accepted' /\ OwnBin'
    BY <1>2 DEF BinInv, BinType, Accepted, OwnBin, Served, StartStep, clients, threads
  <2>9. NotYet' /\ Sought'
    BY <1>2, <2>1, <2>5, <2>6, <2>7
    DEF BinInv, NotYet, Sought, Served, StartStep, threads, StartUp
  <2>10. QED  BY <2>8, <2>9 DEF BinInv
<1>3. CASE StartServing
  <2>1. /\ phase = "starting" /\ phase' = "serving" /\ at' = "test"
        /\ thread_bin_available' = [b \in Bin |-> TRUE]
        /\ UNCHANGED <<conn, binOf, i>>
    BY <1>3 DEF StartServing, InMain
  <2>2. \/ UNCHANGED task
        \/ task' = [task EXCEPT ![Runner] = "execute"]
    BY <1>3 DEF StartServing, executeMethodFile
  <2>3. \A c \in Client : ~Served(c)'
    BY <2>1, <2>2, RunnerIsNoClient DEF BinInv, BinType, NotYet, Served, Thread
  <2>4. BinType'
    BY <2>1, <2>2 DEF BinInv, BinType
  <2>5. QED
    BY <2>1, <2>3, <2>4 DEF BinInv, NotYet, Accepted, Sought, OwnBin
<1>4. CASE Test
  <2>1. /\ phase = "serving" /\ phase' \in {"serving", "closing"} /\ at' # "scan"
        /\ UNCHANGED <<task, binOf, conn, thread_bin_available, i, conn_s>>
    BY <1>4 DEF Test, InMain, clients, threads
  <2>2. QED
    BY <2>1 DEF BinInv, BinType, NotYet, Accepted, Sought, OwnBin, Served
<1>5. CASE accept
  <2>1. /\ phase = "serving" /\ phase' = phase /\ at' = "scan"
        /\ UNCHANGED <<task, binOf, thread_bin_available, i>>
    BY <1>5 DEF accept, InMain, threads
  <2>2. PICK c \in Client : /\ conn[c] = "pending"
                            /\ conn' = [conn EXCEPT ![c] = "open"]
                            /\ conn_s' = c
    BY <1>5 DEF accept
  <2>3. BinType' /\ NotYet' /\ OwnBin'
    BY <2>1, <2>2 DEF BinInv, BinType, NotYet, OwnBin, Served
  <2>4. Accepted' /\ Sought'
    BY <2>1, <2>2, <1>0 DEF BinInv, BinType, Accepted, Sought, Served
  <2>5. QED  BY <2>3, <2>4 DEF BinInv
<1>6. CASE SkipBin
  <2>1. /\ UNCHANGED <<phase, at, conn_s, thread_bin_available, task, binOf, conn>>
        /\ i \in Bin /\ i' = i + 1
    BY <1>6 DEF SkipBin, clients, threads
  <2>2. i' \in Int
    BY <2>1 DEF Bin
  <2>3. BinType' /\ NotYet'
    BY <2>1, <2>2 DEF BinInv, BinType, NotYet, Served
  <2>4. Accepted' /\ Sought' /\ OwnBin'
    BY <2>1 DEF BinInv, Accepted, Sought, OwnBin, Served
  <2>5. QED  BY <2>3, <2>4 DEF BinInv
<1>7. CASE TakeBin
  <2>1. /\ phase = "serving" /\ phase' = phase /\ at = "scan" /\ at' = "test"
        /\ i \in Bin /\ i' = 1
        /\ thread_bin_available[i]
        /\ thread_bin_available' = [thread_bin_available EXCEPT ![i] = FALSE]
        /\ binOf' = [binOf EXCEPT ![conn_s] = i]
        /\ UNCHANGED task \/ task' = [task EXCEPT ![conn_s] = "recv"]
        /\ UNCHANGED conn
    BY <1>7 DEF TakeBin, Scanning, InMain, NextConnection, clients
  <2>2. conn_s \in Client /\ ~Served(conn_s) /\ conn[conn_s] \notin {"new", "pending"}
    BY <2>1 DEF BinInv, Sought
  <2>3. i \in 0..NUM_THREADS /\ conn_s \in Thread
    BY <2>1, <2>2, ServerAssumption DEF Bin, Thread
  <2>4. BinType'
    <3>1. i' \in Int
      BY <2>1
    <3>2. thread_bin_available' \in [Bin -> BOOLEAN] /\ binOf' \in [Client -> 0..NUM_THREADS]
      BY <2>1, <2>2, <2>3, <1>0 DEF BinType
    <3>3. task' \in [Thread -> {"none", "recv", "handle", "execute", "close", "free bin"}]
      BY <2>1, <2>3, <1>0 DEF BinType
    <3>4. QED  BY <2>1, <3>1, <3>2, <3>3, <1>0 DEF BinType
  <2>5. \A c \in Client \ {conn_s} : (Served(c)' <=> Served(c)) /\ binOf'[c] = binOf[c]
    BY <2>1, <2>2 DEF BinInv, BinType, Served, Thread
  <2>6. \A c \in Client \ {conn_s} : Served(c) =>
          binOf[c] # i /\ binOf[c] \in Bin /\ ~thread_bin_available'[binOf[c]]
    BY <2>1, <1>0 DEF BinInv, BinType, OwnBin
  <2>7. binOf'[conn_s] = i /\ ~thread_bin_available'[i]
    BY <2>1, <2>2, <1>0 DEF BinType
  <2>8. OwnBin'
    BY <2>1, <2>2, <2>5, <2>6, <2>7 DEF BinInv, OwnBin
  <2>9. NotYet' /\ Sought'
    BY <2>1 DEF NotYet, Sought
  <2>10. Accepted'
    BY <2>1, <2>2, <2>5 DEF BinInv, Accepted
  <2>11. QED  BY <2>4, <2>8, <2>9, <2>10 DEF BinInv
<1>8. CASE DropConnection
  <2>1. /\ phase = "serving" /\ phase' = phase /\ at' = "test" /\ i' = 1
        /\ UNCHANGED <<thread_bin_available, task, binOf, conn>>
    BY <1>8 DEF DropConnection, NextConnection, Scanning, InMain, clients, threads
  <2>2. BinType'
    <3>1. i' \in Int
      BY <2>1
    <3>2. QED  BY <2>1, <3>1, <1>0 DEF BinType
  <2>3. NotYet' /\ Accepted' /\ Sought' /\ OwnBin'
    BY <2>1 DEF BinInv, NotYet, Accepted, Sought, OwnBin, Served
  <2>4. QED  BY <2>2, <2>3 DEF BinInv
<1>9. QED
  BY <1>1, <1>2, <1>3, <1>4, <1>5, <1>6, <1>7, <1>8 DEF MainNext

LEMMA BinSteps == BinInv /\ (\E t \in Thread : Steps(t)) => BinInv'
<1> SUFFICES ASSUME BinInv, NEW t \in Thread, Steps(t)
             PROVE  BinInv'
  OBVIOUS
<1>0. BinType
  BY DEF BinInv
<1>1. CASE OpenFile(t) \/ LogConfig(t) \/ LockData(t)
  BY <1>0, <1>1, BinsUntouched
  DEF OpenFile, LogConfig, LockData, main, clients, BinType
<1>2. CASE LockSpecs(t) \/ Unlock(t) \/ CloseFile(t)
  BY <1>0, <1>2, BinsUntouched
  DEF LockSpecs, Unlock, CloseFile, main, clients, BinType
<1>3. CASE Finish(t) /\ t # Runner
  <2>1. /\ task[t] # "none" /\ task' = [task EXCEPT ![t] = "recv"]
        /\ UNCHANGED <<main, conn, binOf>>
    BY <1>3 DEF Finish
  <2>2. QED  BY <1>0, <2>1, TaskChanges DEF BinType
<1>4. CASE Finish(t) /\ t = Runner
  <2>1. /\ task' = [task EXCEPT ![Runner] = "none"]
        /\ UNCHANGED <<main, conn, binOf>>
    BY <1>4 DEF Finish
  <2>2. \A c \in Client : task'[c] = task[c]
    BY <1>0, <2>1, RunnerIsNoClient DEF BinType, Thread
  <2>3. BinType'
    BY <1>0, <2>1 DEF BinType, main
  <2>4. NotYet' /\ Accepted' /\ Sought' /\ OwnBin'
    BY <2>1, <2>2 DEF BinInv, NotYet, Accepted, Sought, OwnBin, Served, main
  <2>5. QED  BY <2>3, <2>4 DEF BinInv
<1>5. QED
  BY <1>1, <1>2, <1>3, <1>4 DEF Steps

\* The thread gives its bin back and ends: another one that had the same bin
\* would have it for its own.
LEMMA BinFreed ==
  ASSUME BinInv, NEW c \in Client, FreeBin(c)
  PROVE  BinInv'
<1>0. BinType
  BY DEF BinInv
<1>1. /\ task[c] = "free bin" /\ task' = [task EXCEPT ![c] = "none"]
      /\ thread_bin_available' = [thread_bin_available EXCEPT ![binOf[c]] = TRUE]
      /\ binOf' = [binOf EXCEPT ![c] = 0]
      /\ UNCHANGED <<phase, at, conn_s, i, conn>>
  BY DEF FreeBin, clients
<1>2. c \in Thread /\ 0 \in 0..NUM_THREADS
  BY ServerAssumption DEF Thread
<1>3. BinType'
  BY <1>0, <1>1, <1>2 DEF BinType
<1>4. /\ ~Served(c)' /\ Served(c)
      /\ \A d \in Client \ {c} : (Served(d)' <=> Served(d)) /\ binOf'[d] = binOf[d]
  BY <1>0, <1>1, <1>2 DEF BinType, Served, Thread
<1>5. \A d \in Client \ {c} : Served(d) =>
        /\ binOf[d] # binOf[c] /\ binOf[d] \in Bin
        /\ ~thread_bin_available[binOf[d]]
  BY <1>4 DEF BinInv, OwnBin
<1>6. \A d \in Client \ {c} : Served(d) => ~thread_bin_available'[binOf[d]]
  BY <1>0, <1>1, <1>5 DEF BinType
<1>7. OwnBin'
  BY <1>4, <1>5, <1>6 DEF BinInv, OwnBin
<1>8. NotYet' /\ Accepted' /\ Sought'
  BY <1>1, <1>4 DEF BinInv, NotYet, Accepted, Sought
<1>9. QED  BY <1>3, <1>7, <1>8 DEF BinInv

LEMMA BinConnections == BinInv /\ (\E c \in Client : Connection(c)) => BinInv'
<1> SUFFICES ASSUME BinInv, NEW c \in Client, Connection(c)
             PROVE  BinInv'
  OBVIOUS
<1>0. BinType /\ c \in Thread
  BY DEF BinInv, Thread
<1>1. CASE Receive(c)
  <2>1. /\ task[c] = "recv" /\ UNCHANGED <<main, conn, binOf>>
        /\ \/ UNCHANGED task
           \/ task' = [task EXCEPT ![c] = "execute"]
           \/ task' = [task EXCEPT ![c] = "handle"]
    BY <1>1 DEF Receive
  <2>2. CASE UNCHANGED task
    BY <1>0, <2>1, <2>2, BinsUntouched DEF main, BinType
  <2>3. CASE task' = [task EXCEPT ![c] = "execute"]
    BY <1>0, <2>1, <2>3, TaskChanges DEF BinType
  <2>4. CASE task' = [task EXCEPT ![c] = "handle"]
    BY <1>0, <2>1, <2>4, TaskChanges DEF BinType
  <2>5. QED  BY <2>1, <2>2, <2>3, <2>4
<1>2. CASE ReceiveEnd(c)
  <2>1. /\ task[c] # "none" /\ task' = [task EXCEPT ![c] = "close"]
        /\ UNCHANGED <<main, conn, binOf>>
    BY <1>2 DEF ReceiveEnd, clients
  <2>2. QED  BY <1>0, <2>1, TaskChanges DEF BinType
<1>3. CASE BrokenPipe(c)
  BY <1>0, <1>3, BinsUntouched DEF BrokenPipe, clients, threads, BinType
<1>4. CASE Poll(c)
  BY <1>0, <1>4, BinsUntouched DEF Poll, main, BinType
<1>5. CASE CloseConnection(c)
  <2>1. /\ task[c] # "none" /\ task' = [task EXCEPT ![c] = "free bin"]
        /\ conn' = [conn EXCEPT ![c] = "closed"]
        /\ UNCHANGED <<main, binOf>>
    BY <1>5 DEF CloseConnection
  <2>2. QED  BY <1>0, <2>1, TaskChanges DEF BinType
<1>6. CASE FreeBin(c)
  BY <1>6, BinFreed
<1>7. QED
  BY <1>1, <1>2, <1>3, <1>4, <1>5, <1>6 DEF Connection

LEMMA BinOthers ==
  BinInv /\ (catch_term \/ Handler \/ \E c \in Client : ClientNext(c)) => BinInv'
<1> SUFFICES ASSUME BinInv, catch_term \/ Handler \/ \E c \in Client : ClientNext(c)
             PROVE  BinInv'
  OBVIOUS
<1>0. BinType
  BY DEF BinInv
<1>1. CASE catch_term \/ Handler
  BY <1>0, <1>1, BinsUntouched
  DEF catch_term, Handler, CatchData, CatchClose, main, clients, threads, BinType
<1>2. ASSUME NEW c \in Client, ClientNext(c)
      PROVE  BinInv'
  <2>1. CASE Connect(c)
    BY <1>0, <2>1, BinsUntouched DEF Connect, main, threads, BinType
  <2>2. CASE Leave(c) \/ \E kind \in {"SSP", "EXM", "TRM"} : Send(c, kind)
    BY <1>0, <2>2, BinsUntouched DEF Leave, Send, main, threads, BinType
  <2>3. QED  BY <1>2, <2>1, <2>2 DEF ClientNext
<1>3. QED  BY <1>1, <1>2

LEMMA BinInvStep == BinInv /\ [Next]_vars => BinInv'
<1>1. ASSUME BinInv, NEW t \in Thread, Work(t)
      PROVE  BinInv'
  BY <1>1, BinSteps, BinConnections DEF Work
<1>2. ASSUME BinInv, UNCHANGED vars
      PROVE  BinInv'
  BY <1>2, BinsUntouched DEF vars, main, clients, threads, BinInv, BinType
<1>3. QED  BY <1>1, <1>2, BinMain, BinOthers DEF Next

\* No two threads share a bin, and no bin that a thread has is given away: for any
\* number of connections and bins, whatever fails and whenever SIGTERM comes.
THEOREM BinsAreOwn == Spec => []OwnBin
<1>1. BinInv => OwnBin
  BY DEF BinInv
<1>2. QED  BY <1>1, BinInvInit, BinInvStep, PTL DEF Spec

-----------------------------------------------------------------------------
(* The messages.                                                           *)

Kind == {"SSP", "EXM", "TRM"}

InboxType ==
  /\ inbox \in [Client -> Seq(Kind)]
  /\ waits \in [Client -> {"nothing", "ack", "end"}]

\* What is acked comes last, and its client waits for the ack.
AckedLast ==
  \A c \in Client : \A k \in 1..Len(inbox[c]) :
    inbox[c][k] # "TRM" => k = Len(inbox[c]) /\ waits[c] = "ack"

\* As long as a method runs its client waits for its end, and so sends only TRM.
WaitsForEnd == \A c \in Client : task[c] = "execute" => waits[c] = "end"

MessageInv == InboxType /\ AckedLast /\ WaitsForEnd /\ NoLostCommand

LEMMA MessageInvInit == Init => MessageInv
<1> SUFFICES ASSUME Init
             PROVE  MessageInv
  OBVIOUS
<1>1. \A c \in Client : inbox[c] = <<>> /\ task[c] = "none"
  BY DEF Init, Thread
<1>2. <<>> \in Seq(Kind) /\ Len(<<>>) = 0
  OBVIOUS
<1>3. InboxType
  BY <1>2 DEF Init, InboxType
<1>4. AckedLast
  BY <1>1, <1>2 DEF AckedLast
<1>5. WaitsForEnd /\ NoLostCommand
  BY <1>1 DEF Init, WaitsForEnd, NoLostCommand
<1>6. QED  BY <1>3, <1>4, <1>5 DEF MessageInv

\* A step that touches no message and starts no client's method.
LEMMA MessagesUntouched ==
  ASSUME MessageInv, UNCHANGED <<inbox, waits, lost>>,
         \A c \in Client : task'[c] = "execute" => task[c] = "execute"
  PROVE  MessageInv'
BY DEF MessageInv, InboxType, AckedLast, WaitsForEnd, NoLostCommand

\* The start of an inbox that has been read leaves what comes last in its place.
LEMMA RestOfInbox ==
  ASSUME NEW s \in Seq(Kind), NEW n \in 1..Len(s)
  PROVE  LET rest == SubSeq(s, n + 1, Len(s)) IN
           /\ rest \in Seq(Kind)
           /\ Len(rest) = Len(s) - n
           /\ \A k \in 1..Len(rest) : rest[k] = s[n + k] /\ n + k \in 1..Len(s)
<1> DEFINE rest == SubSeq(s, n + 1, Len(s))
<1>1. Len(s) \in Nat /\ n \in 1..Len(s)
  OBVIOUS
<1>2. CASE n = Len(s)
  <2>1. rest = <<>>
    BY <1>1, <1>2
  <2>2. QED  BY <1>1, <1>2, <2>1
<1>3. CASE n < Len(s)
  <2>1. n + 1 \in 1..Len(s) /\ n + 1 <= Len(s) + 1
    BY <1>1, <1>3
  <2>2. QED  BY <1>1, <1>3, <2>1
<1>4. QED  BY <1>1, <1>2, <1>3

LEMMA MessageReceive ==
  ASSUME BinType, MessageInv, NEW c \in Client, Receive(c)
  PROVE  MessageInv'
<1> DEFINE s == inbox[c]
<1>0. c \in Thread /\ s \in Seq(Kind) /\ InboxType
  BY DEF Thread, MessageInv, InboxType
<1>1. PICK n \in 1..Len(s) :
        /\ inbox' = [inbox EXCEPT ![c] = SubSeq(s, n + 1, Len(s))]
        /\ Lose(<<c, 2..n>>, s[1])
  BY DEF Receive
<1>2. /\ task[c] = "recv"
      /\ \/ s[1] = "TRM" /\ UNCHANGED <<task, waits>>
         \/ /\ s[1] # "TRM"
            /\ \/ /\ task' = [task EXCEPT ![c] = "execute"]
                  /\ waits' = [waits EXCEPT ![c] = "end"]
               \/ /\ task' = [task EXCEPT ![c] = "handle"]
                  /\ waits' = [waits EXCEPT ![c] = "nothing"]
  BY DEF Receive
<1>3. Len(s) \in Nat /\ 1 \in 1..Len(s)
  BY <1>0, <1>1
<1>4. s[1] # "TRM" => Len(s) = 1 /\ n = 1
  <2>1. s[1] # "TRM" => Len(s) = 1
    BY <1>3 DEF MessageInv, AckedLast
  <2>2. n \in Int /\ 1 <= n /\ n <= Len(s)
    BY <1>1, <1>3
  <2>3. Len(s) = 1 => n = 1
    BY <2>2
  <2>4. QED  BY <2>1, <2>3
<1> DEFINE rest == SubSeq(s, n + 1, Len(s))
<1>5. /\ rest \in Seq(Kind) /\ Len(rest) = Len(s) - n
      /\ \A k \in 1..Len(rest) : rest[k] = s[n + k] /\ n + k \in 1..Len(s)
  BY <1>0, <1>1, RestOfInbox
<1> HIDE DEF rest
<1>6. inbox'[c] = rest /\ \A d \in Client \ {c} : inbox'[d] = inbox[d]
  BY <1>0, <1>1 DEF InboxType, rest
<1>7. InboxType'
  BY <1>0, <1>1, <1>2, <1>5 DEF InboxType, rest
<1>8. \A d \in Client \ {c} : waits'[d] = waits[d] /\ task'[d] = task[d]
  BY <1>0, <1>2 DEF InboxType, BinType, Thread
<1>9. AckedLast'
  <2> SUFFICES ASSUME NEW d \in Client, NEW k \in 1..Len(inbox'[d]), inbox'[d][k] # "TRM"
               PROVE  k = Len(inbox'[d]) /\ waits'[d] = "ack"
    BY DEF AckedLast
  <2>1. CASE d # c
    BY <1>6, <1>8, <2>1 DEF MessageInv, AckedLast
  <2>2. CASE d = c /\ s[1] = "TRM"
    <3>1. k \in 1..Len(rest) /\ s[n + k] # "TRM" /\ n + k \in 1..Len(s)
      BY <1>5, <1>6, <2>2
    <3>2. n + k = Len(s) /\ waits[c] = "ack"
      BY <3>1 DEF MessageInv, AckedLast
    <3>3. k = Len(rest)
      BY <1>1, <1>3, <1>5, <3>1, <3>2
    <3>4. QED  BY <1>2, <1>6, <2>2, <3>2, <3>3
  <2>3. CASE d = c /\ s[1] # "TRM"
    <3>1. Len(rest) = 0
      BY <1>4, <1>5, <2>3
    <3>2. QED  BY <1>6, <2>3, <3>1
  <2>4. QED  BY <2>1, <2>2, <2>3
<1>10. WaitsForEnd'
  <2> SUFFICES ASSUME NEW d \in Client, task'[d] = "execute"
               PROVE  waits'[d] = "end"
    BY DEF WaitsForEnd
  <2>1. CASE d # c
    BY <1>8, <2>1 DEF MessageInv, WaitsForEnd
  <2>2. CASE d = c
    BY <1>0, <1>2, <2>2 DEF BinType, InboxType
  <2>3. QED  BY <2>1, <2>2
<1>11. NoLostCommand'
  <2>0. lost' = lost \cup {[kind |-> s[k], instead |-> s[1]] : k \in 2..n}
    BY <1>1 DEF Lose
  <2>1. CASE s[1] = "TRM"
    BY <2>0, <2>1 DEF MessageInv, NoLostCommand
  <2>2. CASE s[1] # "TRM"
    <3>1. 2..n = {}
      BY <1>4, <2>2
    <3>2. lost' = lost
      BY <2>0, <3>1
    <3>3. QED  BY <3>2 DEF MessageInv, NoLostCommand
  <2>3. QED  BY <2>1, <2>2
<1>12. QED  BY <1>7, <1>9, <1>10, <1>11 DEF MessageInv

\* What the poll of a running method finds is TRM: nothing else is sent then.
LEMMA MessagePoll ==
  ASSUME MessageInv, NEW c \in Client, Poll(c)
  PROVE  MessageInv'
<1> DEFINE s == inbox[c]
<1>0. s \in Seq(Kind) /\ InboxType
  BY DEF MessageInv, InboxType
<1>1. /\ task[c] = "execute" /\ s # <<>>
      /\ inbox' = [inbox EXCEPT ![c] = Tail(s)]
      /\ Head(s) = "TRM" => lost' = lost
      /\ UNCHANGED <<waits, task>>
  BY DEF Poll
<1>2. /\ Len(s) \in Nat \ {0} /\ Head(s) = s[1] /\ 1 \in 1..Len(s)
      /\ Tail(s) \in Seq(Kind) /\ Len(Tail(s)) = Len(s) - 1
      /\ \A k \in 1..Len(Tail(s)) : Tail(s)[k] = s[k + 1] /\ k + 1 \in 1..Len(s)
  BY <1>0, <1>1, HeadTailProperties, EmptySeq
<1>3. waits[c] = "end"
  BY <1>1 DEF MessageInv, WaitsForEnd
<1>4. \A k \in 1..Len(s) : s[k] = "TRM"
  BY <1>3 DEF MessageInv, AckedLast
<1>5. lost' = lost
  BY <1>1, <1>2, <1>4
<1>6. InboxType'
  BY <1>0, <1>1, <1>2 DEF InboxType
<1>7. inbox'[c] = Tail(s) /\ \A d \in Client \ {c} : inbox'[d] = inbox[d]
  BY <1>0, <1>1 DEF InboxType
<1>8. AckedLast'
  <2> SUFFICES ASSUME NEW d \in Client, NEW k \in 1..Len(inbox'[d]), inbox'[d][k] # "TRM"
               PROVE  k = Len(inbox'[d]) /\ waits'[d] = "ack"
    BY DEF AckedLast
  <2>1. CASE d # c
    BY <1>1, <1>7, <2>1 DEF MessageInv, AckedLast
  <2>2. CASE d = c
    BY <1>2, <1>4, <1>7, <2>2
  <2>3. QED  BY <2>1, <2>2
<1>9. QED
  BY <1>1, <1>5, <1>6, <1>8 DEF MessageInv, WaitsForEnd, NoLostCommand

LEMMA MessageSend ==
  ASSUME MessageInv, NEW c \in Client, NEW kind \in Kind, Send(c, kind)
  PROVE  MessageInv'
<1> DEFINE s == inbox[c]
<1>0. s \in Seq(Kind) /\ InboxType
  BY DEF MessageInv, InboxType
<1>1. /\ inbox' = [inbox EXCEPT ![c] = Append(s, kind)]
      /\ waits[c] = "nothing" \/ (waits[c] = "end" /\ kind = "TRM")
      /\ waits' = IF kind = "TRM" THEN waits ELSE [waits EXCEPT ![c] = "ack"]
      /\ UNCHANGED <<task, lost>>
  BY DEF Send, threads, history
<1>2. /\ Len(s) \in Nat
      /\ Append(s, kind) \in Seq(Kind) /\ Len(Append(s, kind)) = Len(s) + 1
      /\ \A k \in 1..Len(s) : Append(s, kind)[k] = s[k]
      /\ Append(s, kind)[Len(s) + 1] = kind
  BY <1>0, AppendProperties
<1>3. \A k \in 1..Len(s) : s[k] = "TRM"
  BY <1>1 DEF MessageInv, AckedLast
<1>4. InboxType'
  BY <1>0, <1>1, <1>2 DEF InboxType
<1>5. /\ inbox'[c] = Append(s, kind)
      /\ kind # "TRM" => waits'[c] = "ack"
      /\ \A d \in Client \ {c} : inbox'[d] = inbox[d] /\ waits'[d] = waits[d]
  BY <1>0, <1>1 DEF InboxType
<1>6. AckedLast'
  <2> SUFFICES ASSUME NEW d \in Client, NEW k \in 1..Len(inbox'[d]), inbox'[d][k] # "TRM"
               PROVE  k = Len(inbox'[d]) /\ waits'[d] = "ack"
    BY DEF AckedLast
  <2>1. CASE d # c
    BY <1>5, <2>1 DEF MessageInv, AckedLast
  <2>2. CASE d = c
    <3>1. k \in 1..(Len(s) + 1) /\ Append(s, kind)[k] # "TRM"
      <4>1. inbox'[d] = Append(s, kind) /\ Len(inbox'[d]) = Len(s) + 1
        BY <1>2, <1>5, <2>2
      <4>2. QED  BY <4>1
    <3>2. k \notin 1..Len(s)
      BY <1>2, <1>3, <3>1
    <3>3. k = Len(s) + 1
      BY <1>2, <3>1, <3>2
    <3>4. kind # "TRM"
      BY <1>2, <3>1, <3>3
    <3>5. QED  BY <1>2, <1>5, <2>2, <3>3, <3>4
  <2>3. QED  BY <2>1, <2>2
<1>7. WaitsForEnd' /\ NoLostCommand'
  <2>1. \A d \in Client : task[d] = "execute" => waits'[d] = "end"
    BY <1>1, <1>5 DEF MessageInv, WaitsForEnd
  <2>2. QED  BY <1>1, <2>1 DEF MessageInv, WaitsForEnd, NoLostCommand
<1>8. QED  BY <1>4, <1>6, <1>7 DEF MessageInv

LEMMA MessageFinish ==
  ASSUME BinType, MessageInv, NEW t \in Thread, Finish(t)
  PROVE  MessageInv'
<1>0. InboxType
  BY DEF MessageInv
<1>1. /\ task' = [task EXCEPT ![t] = IF t = Runner THEN "none" ELSE "recv"]
      /\ UNCHANGED <<inbox, lost>>
      /\ \/ waits' = waits
         \/ t \in Client /\ task[t] = "execute" /\ waits' = [waits EXCEPT ![t] = "nothing"]
  BY DEF Finish, history
<1>2. task'[t] # "execute" /\ \A c \in Client \ {t} : task'[c] = task[c]
  BY <1>1 DEF BinType, Thread
<1>3. CASE waits' = waits
  BY <1>1, <1>2, <1>3, MessagesUntouched
<1>4. CASE t \in Client /\ task[t] = "execute" /\ waits' = [waits EXCEPT ![t] = "nothing"]
  <2>1. InboxType'
    BY <1>0, <1>1, <1>4 DEF InboxType
  <2>2. waits[t] = "end" /\ \A c \in Client \ {t} : waits'[c] = waits[c]
    BY <1>0, <1>4 DEF MessageInv, WaitsForEnd, InboxType
  <2>3. \A c \in Client : waits[c] = "ack" => waits'[c] = "ack"
    BY <1>4, <2>2
  <2>4. AckedLast' /\ NoLostCommand'
    BY <1>1, <2>3 DEF MessageInv, AckedLast, NoLostCommand
  <2>5. WaitsForEnd'
    BY <1>2, <2>2 DEF MessageInv, WaitsForEnd
  <2>6. QED  BY <2>1, <2>4, <2>5 DEF MessageInv
<1>5. QED  BY <1>1, <1>3, <1>4

LEMMA MessageMain == BinInv /\ MessageInv /\ MainNext => MessageInv'
<1> SUFFICES ASSUME BinInv, MessageInv, MainNext
             PROVE  MessageInv'
  OBVIOUS
<1>0. BinType
  BY DEF BinInv
<1>1. CASE StartServing
  <2>1. /\ UNCHANGED <<inbox, waits, lost>>
        /\ UNCHANGED task \/ task' = [task EXCEPT ![Runner] = "execute"]
    BY <1>1 DEF StartServing, executeMethodFile, history
  <2>2. \A c \in Client : task'[c] = task[c]
    BY <1>0, <2>1, RunnerIsNoClient DEF BinType, Thread
  <2>3. QED  BY <2>1, <2>2, MessagesUntouched
<1>2. CASE TakeBin
  <2>1. /\ UNCHANGED <<inbox, waits, lost>>
        /\ UNCHANGED task \/ task' = [task EXCEPT ![conn_s] = "recv"]
    BY <1>2 DEF TakeBin, clients
  <2>2. \A c \in Client : task'[c] = "execute" => task[c] = "execute"
    BY <1>0, <2>1 DEF BinType, Thread
  <2>3. QED  BY <2>1, <2>2, MessagesUntouched
<1>3. CASE StartFails \/ StartStep \/ Test \/ AcceptFails \/ SkipBin
  BY <1>3, MessagesUntouched
  DEF StartFails, StartStep, Test, AcceptFails, SkipBin, clients, threads, history
<1>4. CASE accept \/ DropConnection \/ disconnectSpectrometers \/ Exit
  BY <1>4, MessagesUntouched
  DEF accept, DropConnection, disconnectSpectrometers, Exit, clients, threads, history
<1>5. QED  BY <1>1, <1>2, <1>3, <1>4 DEF MainNext

LEMMA MessageSteps == BinInv /\ MessageInv /\ (\E t \in Thread : Steps(t)) => MessageInv'
<1> SUFFICES ASSUME BinInv, MessageInv, NEW t \in Thread, Steps(t)
             PROVE  MessageInv'
  OBVIOUS
<1>1. CASE OpenFile(t) \/ LogConfig(t) \/ LockData(t)
  BY <1>1, MessagesUntouched DEF OpenFile, LogConfig, LockData, clients, history
<1>2. CASE LockSpecs(t) \/ Unlock(t) \/ CloseFile(t)
  BY <1>2, MessagesUntouched DEF LockSpecs, Unlock, CloseFile, clients, history
<1>3. CASE Finish(t)
  BY <1>3, MessageFinish DEF BinInv
<1>4. QED  BY <1>1, <1>2, <1>3 DEF Steps

LEMMA MessageConnections ==
  BinInv /\ MessageInv /\ (\E c \in Client : Connection(c)) => MessageInv'
<1> SUFFICES ASSUME BinInv, MessageInv, NEW c \in Client, Connection(c)
             PROVE  MessageInv'
  OBVIOUS
<1>0. BinType /\ c \in Thread
  BY DEF BinInv, Thread
<1>1. CASE Receive(c)
  BY <1>0, <1>1, MessageReceive
<1>2. CASE Poll(c)
  BY <1>2, MessagePoll
<1>3. CASE BrokenPipe(c)
  BY <1>3, MessagesUntouched DEF BrokenPipe, clients, threads, history
<1>4. CASE ReceiveEnd(c) \/ CloseConnection(c) \/ FreeBin(c)
  <2>1. /\ UNCHANGED <<inbox, waits, lost>>
        /\ \E to \in {"close", "free bin", "none"} : task' = [task EXCEPT ![c] = to]
    BY <1>4 DEF ReceiveEnd, CloseConnection, FreeBin, clients, history
  <2>2. \A d \in Client : task'[d] = "execute" => task[d] = "execute"
    BY <1>0, <2>1 DEF BinType, Thread
  <2>3. QED  BY <2>1, <2>2, MessagesUntouched
<1>5. QED  BY <1>1, <1>2, <1>3, <1>4 DEF Connection

LEMMA MessageOthers ==
  MessageInv /\ (catch_term \/ Handler \/ \E c \in Client : ClientNext(c)) => MessageInv'
<1>1. ASSUME MessageInv, catch_term \/ Handler
      PROVE  MessageInv'
  BY <1>1, MessagesUntouched
  DEF catch_term, Handler, CatchData, CatchClose, clients, threads, history
<1>2. ASSUME MessageInv, NEW c \in Client, Connect(c) \/ Leave(c)
      PROVE  MessageInv'
  BY <1>2, MessagesUntouched DEF Connect, Leave, threads, history
<1>3. QED  BY <1>1, <1>2, MessageSend DEF ClientNext, Kind

LEMMA MessageInvStep == BinInv /\ MessageInv /\ [Next]_vars => MessageInv'
<1>1. ASSUME BinInv, MessageInv, NEW t \in Thread, Work(t)
      PROVE  MessageInv'
  BY <1>1, MessageSteps, MessageConnections DEF Work
<1>2. ASSUME BinInv, MessageInv, UNCHANGED vars
      PROVE  MessageInv'
  BY <1>2, MessagesUntouched DEF vars, clients, threads, history
<1>3. QED  BY <1>1, <1>2, MessageMain, MessageOthers DEF Next

\* A client that waits for its acks loses no command, but one right after a TRM: for
\* any number of clients and messages, and however many arrive together.
THEOREM CommandsArrive == Spec => []NoLostCommand
<1>1. MessageInv => NoLostCommand
  BY DEF MessageInv
<1>2. QED
  BY <1>1, BinInvInit, BinInvStep, MessageInvInit, MessageInvStep, PTL DEF Spec

-----------------------------------------------------------------------------
(* The connections that get no thread.                                     *)

\* A connection has a bin from TakeBin on, also if no thread could be made for it.
Holds(c) == Served(c) \/ c \in threadless
Wasted == {binOf[c] : c \in threadless}

\* Main looks at bin i, and at the first one next.
Place ==
  /\ i \in 1..(NUM_THREADS + 1)
  /\ at # "scan" => i = 1

\* A bin that was wasted stays so, and belongs to one connection.
WastedStay ==
  /\ threadless \subseteq Client
  /\ phase = "starting" => threadless = {}
  /\ \A c \in threadless : /\ ~Served(c) /\ conn[c] = "open"
                           /\ binOf[c] \in Bin /\ ~thread_bin_available[binOf[c]]
                           /\ \A d \in Client \ {c} : Holds(d) => binOf[d] # binOf[c]
  /\ at = "scan" => conn_s \notin threadless /\ conn[conn_s] = "open"

\* Bins are unavailable for a reason, once main serves.
Reasons ==
  at \in {"test", "accept", "scan"} =>
    \A b \in Bin : ~thread_bin_available[b] => b \notin Unused \/ b \in Wasted

\* What was free when the connection was accepted still is, and was wasted if
\* main has passed it.
PassedOver ==
  at = "scan" => /\ idle \subseteq Unused
                 /\ \A b \in idle : b < i => b \in Wasted

ScanInv == Place /\ WastedStay /\ Reasons /\ PassedOver /\ ServesWhileFree

LEMMA ScanInit == Init => ScanInv
<1> SUFFICES ASSUME Init
             PROVE  ScanInv
  OBVIOUS
<1>1. at = "readConfig" /\ i = 1 /\ threadless = {} /\ missed = {}
  BY DEF Init
<1>2. Place
  BY <1>1, ServerAssumption DEF Place
<1>3. WastedStay /\ Reasons /\ PassedOver /\ ServesWhileFree
  BY <1>1 DEF WastedStay, Reasons, PassedOver, ServesWhileFree
<1>4. QED  BY <1>2, <1>3 DEF ScanInv

\* Steps that change neither who has which bin nor main's scan, and close no
\* connection without a thread.
LEMMA ScanUntouched ==
  ASSUME BinInv, ScanInv,
         UNCHANGED <<at, i, conn_s, thread_bin_available, binOf, threadless, idle, missed>>,
         phase' = "starting" => phase = "starting",
         \A c \in Client : Served(c)' <=> Served(c),
         \A c \in Client : conn[c] = "open" /\ ~Served(c) => conn'[c] = "open"
  PROVE  ScanInv'
<1>1. Place' /\ ServesWhileFree'
  BY DEF ScanInv, Place, ServesWhileFree
<1>2. WastedStay'
  BY DEF BinInv, Sought, ScanInv, WastedStay, Holds
<1>3. Unused' = Unused /\ Wasted' = Wasted
  BY DEF Unused, Wasted, Served
<1>4. Reasons' /\ PassedOver'
  BY <1>3 DEF ScanInv, Reasons, PassedOver
<1>5. QED  BY <1>1, <1>2, <1>4 DEF ScanInv

\* Nothing but main's place changes, and it does not scan before or after.
LEMMA ScanNotNow ==
  ASSUME ScanInv, at # "scan", at' # "scan",
         at' \in {"test", "accept", "scan"} => at \in {"test", "accept", "scan"},
         phase' = "starting" => phase = "starting",
         UNCHANGED <<i, conn, thread_bin_available, binOf, threadless, missed>>,
         \A c \in Client : Served(c)' <=> Served(c)
  PROVE  ScanInv'
<1>1. Place' /\ PassedOver' /\ ServesWhileFree'
  BY DEF ScanInv, Place, PassedOver, ServesWhileFree
<1>2. WastedStay'
  BY DEF ScanInv, WastedStay, Holds
<1>3. Unused' = Unused /\ Wasted' = Wasted
  BY DEF Unused, Wasted, Served
<1>4. Reasons'
  BY <1>3 DEF ScanInv, Reasons
<1>5. QED  BY <1>1, <1>2, <1>4 DEF ScanInv

LEMMA ScanAccept ==
  ASSUME BinInv, ScanInv, accept
  PROVE  ScanInv'
<1>0. BinType
  BY DEF BinInv
<1>1. /\ at = "accept" /\ at' = "scan" /\ idle' = Unused /\ phase' # "starting"
      /\ UNCHANGED <<i, thread_bin_available, binOf, task, threadless, missed>>
  BY DEF accept, threads, InMain
<1>2. PICK c \in Client : /\ conn[c] = "pending"
                          /\ conn' = [conn EXCEPT ![c] = "open"]
                          /\ conn_s' = c
  BY DEF accept
<1>3. i = 1 /\ Place'
  BY <1>1 DEF ScanInv, Place
<1>4. \A d \in threadless : conn[d] = "open" /\ d \in Client
  BY DEF ScanInv, WastedStay
<1>5. c \notin threadless /\ \A d \in threadless : conn'[d] = "open"
  BY <1>2, <1>4
<1>6. WastedStay'
  <2>1. conn'[c] = "open"
    BY <1>0, <1>2 DEF BinType
  <2>2. QED  BY <1>1, <1>2, <1>5, <2>1 DEF ScanInv, WastedStay, Holds, Served
<1>7. Unused' = Unused /\ Wasted' = Wasted
  BY <1>1 DEF Unused, Wasted, Served
<1>8. \A b \in Unused : ~(b < i)
  BY <1>3 DEF Unused, Bin
<1>9. Reasons' /\ PassedOver' /\ ServesWhileFree'
  BY <1>1, <1>7, <1>8 DEF ScanInv, Reasons, PassedOver, ServesWhileFree
<1>10. QED  BY <1>3, <1>6, <1>9 DEF ScanInv

\* A bin that is passed over is unavailable: in use, or wasted.
LEMMA ScanSkip ==
  ASSUME BinInv, ScanInv, SkipBin
  PROVE  ScanInv'
<1>1. /\ at = "scan" /\ i \in Bin /\ ~thread_bin_available[i] /\ i' = i + 1
      /\ phase' # "starting"
      /\ UNCHANGED <<at, conn_s, thread_bin_available, task, binOf, conn, threadless, idle, missed>>
  BY DEF SkipBin, Scanning, InMain, clients, threads, history
<1>2. Place'
  BY <1>1, ServerAssumption DEF Place, Bin
<1>3. WastedStay' /\ ServesWhileFree'
  BY <1>1 DEF ScanInv, WastedStay, Holds, Served, ServesWhileFree
<1>4. Unused' = Unused /\ Wasted' = Wasted
  BY <1>1 DEF Unused, Wasted, Served
<1>5. i \in Unused => i \in Wasted
  BY <1>1 DEF ScanInv, Reasons
<1>6. \A b \in idle : b < i + 1 => b < i \/ b = i
  BY <1>1 DEF ScanInv, PassedOver, Unused, Bin
<1>7. Reasons' /\ PassedOver'
  BY <1>1, <1>4, <1>5, <1>6 DEF ScanInv, Reasons, PassedOver
<1>8. QED  BY <1>2, <1>3, <1>7 DEF ScanInv

\* The bin goes to the connection, with a thread or without.
LEMMA ScanTake ==
  ASSUME BinInv, ScanInv, TakeBin
  PROVE  ScanInv'
<1>0. BinType
  BY DEF BinInv
<1> PICK s \in Client : s = conn_s
  BY DEF BinInv, Sought, TakeBin, Scanning
<1>1. /\ at = "scan" /\ at' = "test" /\ i \in Bin /\ i' = 1 /\ phase' # "starting"
      /\ thread_bin_available[i]
      /\ thread_bin_available' = [thread_bin_available EXCEPT ![i] = FALSE]
      /\ binOf' = [binOf EXCEPT ![s] = i]
      /\ \/ task' = [task EXCEPT ![s] = "recv"] /\ threadless' = threadless
         \/ task' = task /\ threadless' = threadless \cup {s}
      /\ UNCHANGED <<conn, missed>>
  BY DEF TakeBin, Scanning, InMain, NextConnection, clients
<1>2. ~Served(s) /\ conn[s] \notin {"new", "pending"}
      /\ s \notin threadless
  BY <1>1 DEF BinInv, Sought, ScanInv, WastedStay
<1>3. /\ s \in Thread /\ binOf'[s] = i
      /\ \A c \in Client \ {s} :
           /\ binOf'[c] = binOf[c]
           /\ Served(c)' <=> Served(c)
           /\ c \in threadless' <=> c \in threadless
  BY <1>0, <1>1, <1>2 DEF BinType, Thread, Served
<1>4. Served(s)' \/ s \in threadless'
  BY <1>0, <1>1, <1>3 DEF BinType, Served
<1>5. \A c \in Client : Holds(c) => binOf[c] # i
  BY <1>0, <1>1 DEF BinInv, OwnBin, ScanInv, WastedStay, Holds
<1>6. Place'
  BY <1>1, ServerAssumption DEF Place
<1>7. WastedStay'
  <2>1. threadless' \subseteq Client /\ at' # "scan" /\ phase' # "starting"
    BY <1>1, <1>2 DEF ScanInv, WastedStay
  <2> SUFFICES ASSUME NEW c \in threadless'
               PROVE  /\ ~Served(c)' /\ conn'[c] = "open"
                      /\ binOf'[c] \in Bin /\ ~thread_bin_available'[binOf'[c]]
                      /\ \A d \in Client \ {c} : Holds(d)' => binOf'[d] # binOf'[c]
    BY <2>1 DEF WastedStay
  <2>2. CASE c = s
    <3>1. s \in threadless'
      BY <2>2
    <3>2. ~Served(s)'
      BY <1>1, <1>2, <3>1 DEF Served
    <3>3. conn[s] = "open"
      BY <1>1 DEF ScanInv, WastedStay
    <3>4. QED  BY <1>0, <1>1, <1>3, <1>5, <2>2, <3>2, <3>3 DEF BinType, Holds
  <2>3. CASE c # s
    <3>1. /\ c \in threadless /\ c \in Client /\ ~Served(c) /\ conn[c] = "open"
          /\ binOf[c] \in Bin /\ ~thread_bin_available[binOf[c]] /\ binOf[c] # i
          /\ \A d \in Client \ {c} : Holds(d) => binOf[d] # binOf[c]
      BY <1>1, <2>1, <2>3 DEF ScanInv, WastedStay
    <3>2. ~thread_bin_available'[binOf[c]] /\ binOf'[c] = binOf[c] /\ ~Served(c)' /\ conn'[c] = "open"
      BY <1>0, <1>1, <1>3, <2>3, <3>1 DEF BinType
    <3>3. \A d \in Client \ {c} : Holds(d)' => binOf'[d] # binOf[c]
      BY <1>3, <3>1 DEF Holds
    <3>4. QED  BY <3>1, <3>2, <3>3
  <2>4. QED  BY <2>2, <2>3
<1>8. \A b \in Bin : b \in Wasted => b \in Wasted'
  BY <1>1, <1>2, <1>3 DEF ScanInv, WastedStay, Wasted
<1>9. Reasons'
  <2> SUFFICES ASSUME NEW b \in Bin, ~thread_bin_available'[b], b \in Unused'
               PROVE  b \in Wasted'
    BY DEF Reasons
  <2>1. CASE b = i
    <3>1. ~Served(s)'
      BY <1>2, <1>3, <2>1 DEF Unused, Served
    <3>2. QED  BY <1>3, <1>4, <2>1, <3>1 DEF Wasted
  <2>2. CASE b # i
    <3>1. ~thread_bin_available[b]
      BY <1>0, <1>1, <2>2 DEF BinType
    <3>2. b \in Unused
      BY <1>2, <1>3 DEF Unused, Served
    <3>3. QED  BY <1>1, <1>8, <3>1, <3>2 DEF ScanInv, Reasons
  <2>3. QED  BY <2>1, <2>2
<1>10. PassedOver'
  BY <1>1 DEF PassedOver
<1>11. ServesWhileFree'
  <2>1. Wasted \subseteq Wasted'
    BY <1>3, <1>1, <1>2 DEF Wasted, ScanInv, WastedStay
  <2>2. QED  BY <1>1, <2>1 DEF ScanInv, ServesWhileFree, Wasted
<1>12. QED  BY <1>6, <1>7, <1>9, <1>10, <1>11 DEF ScanInv

\* Main has looked at all bins.
LEMMA ScanDrop ==
  ASSUME BinInv, ScanInv, DropConnection
  PROVE  ScanInv'
<1>1. /\ at = "scan" /\ at' = "test" /\ i \notin Bin /\ i' = 1 /\ missed' = missed \cup idle
      /\ phase' # "starting"
      /\ UNCHANGED <<conn, thread_bin_available, task, binOf, threadless>>
  BY DEF DropConnection, NextConnection, Scanning, InMain, clients, threads
<1>2. i = NUM_THREADS + 1
  BY <1>1, ServerAssumption DEF ScanInv, Place, Bin
<1>3. \A b \in idle : b < i
  BY <1>1, <1>2, ServerAssumption DEF ScanInv, PassedOver, Unused, Bin
<1>4. idle \subseteq Wasted
  BY <1>1, <1>3 DEF ScanInv, PassedOver
<1>5. Unused' = Unused /\ Wasted' = Wasted
  BY <1>1 DEF Unused, Wasted, Served
<1>6. Place' /\ PassedOver'
  BY <1>1, ServerAssumption DEF Place, PassedOver
<1>7. WastedStay'
  BY <1>1 DEF ScanInv, WastedStay, Holds, Served
<1>8. Reasons' /\ ServesWhileFree'
  BY <1>1, <1>4, <1>5 DEF ScanInv, Reasons, ServesWhileFree, Wasted
<1>9. QED  BY <1>6, <1>7, <1>8 DEF ScanInv

LEMMA ScanFree ==
  ASSUME BinInv, ScanInv, NEW c \in Client, FreeBin(c)
  PROVE  ScanInv'
<1>0. BinType
  BY DEF BinInv
<1>1. /\ task[c] = "free bin" /\ task' = [task EXCEPT ![c] = "none"]
      /\ thread_bin_available' = [thread_bin_available EXCEPT ![binOf[c]] = TRUE]
      /\ binOf' = [binOf EXCEPT ![c] = 0]
      /\ UNCHANGED <<phase, at, conn_s, i, conn, threadless, idle, missed>>
  BY DEF FreeBin, clients, history
<1>2. /\ Served(c) /\ ~Served(c)' /\ binOf'[c] = 0 /\ c \notin threadless
      /\ \A d \in Client \ {c} : (Served(d)' <=> Served(d)) /\ binOf'[d] = binOf[d]
  BY <1>0, <1>1, ServerAssumption DEF BinType, Served, Thread, ScanInv, WastedStay
<1>3. Place' /\ \A b \in Unused : b \in Unused'
  <2>1. \A b \in Unused, d \in Client : Served(d)' => binOf'[d] # b
    BY <1>2 DEF Unused, Served
  <2>2. QED  BY <1>1, <2>1 DEF ScanInv, Place, Unused, Served
<1>4. Wasted' = Wasted
  <2>1. \A d \in threadless : binOf'[d] = binOf[d]
    BY <1>2 DEF ScanInv, WastedStay
  <2>2. QED  BY <1>1, <2>1 DEF Wasted
<1>5. \A d \in threadless : binOf[d] # binOf[c]
  BY <1>2 DEF ScanInv, WastedStay, Holds
<1>6. WastedStay'
  <2>1. \A d \in threadless : ~thread_bin_available'[binOf[d]]
    BY <1>0, <1>1, <1>5 DEF BinType, ScanInv, WastedStay
  <2>2. \A d \in Client \ {c} : Holds(d)' => Holds(d)
    BY <1>1, <1>2 DEF Holds
  <2>3. ~Holds(c)'
    BY <1>1, <1>2 DEF Holds
  <2>4. \A d \in threadless : d \in Client \ {c} /\ binOf'[d] = binOf[d] /\ ~Served(d)'
    BY <1>2 DEF ScanInv, WastedStay
  <2>5. \A d \in threadless : \A e \in Client \ {d} : Holds(e)' => binOf'[e] # binOf'[d]
    BY <1>2, <2>2, <2>3, <2>4 DEF ScanInv, WastedStay
  <2>6. QED  BY <1>1, <2>1, <2>4, <2>5 DEF ScanInv, WastedStay
<1>7. Reasons'
  <2> SUFFICES ASSUME at \in {"test", "accept", "scan"},
                      NEW b \in Bin, ~thread_bin_available'[b], b \in Unused'
               PROVE  b \in Wasted
    BY <1>1, <1>4 DEF Reasons
  <2>1. b # binOf[c] /\ ~thread_bin_available[b]
    BY <1>0, <1>1 DEF BinType
  <2>2. \A d \in Client : Served(d) => binOf[d] # b
    BY <1>2, <2>1 DEF Unused, Served
  <2>3. QED  BY <2>1, <2>2 DEF ScanInv, Reasons, Unused, Served
<1>8. PassedOver' /\ ServesWhileFree'
  BY <1>1, <1>3, <1>4 DEF ScanInv, PassedOver, ServesWhileFree, Wasted
<1>9. QED  BY <1>3, <1>6, <1>7, <1>8 DEF ScanInv

LEMMA ScanMain == BinInv /\ ScanInv /\ MainNext => ScanInv'
<1> SUFFICES ASSUME BinInv, ScanInv, MainNext
             PROVE  ScanInv'
  OBVIOUS
<1>0. BinType
  BY DEF BinInv
<1>1. CASE StartFails \/ AcceptFails \/ disconnectSpectrometers \/ Exit
  BY <1>1, ScanUntouched
  DEF StartFails, AcceptFails, disconnectSpectrometers, Exit, clients, threads, history, Served
<1>2. CASE StartStep
  <2> DEFINE n == CHOOSE k \in DOMAIN StartUp : StartUp[k] = at
  <2>1. phase = "starting" /\ at # "execMode"
    BY <1>2 DEF StartStep, InMain
  <2>2. DOMAIN StartUp = 1..10 /\ StartUp[10] = "execMode"
    BY SMTT(30) DEF StartUp
  <2>3. \E k \in DOMAIN StartUp : StartUp[k] = at
    BY <2>1, <2>2 DEF BinInv, NotYet
  <2>4. n \in 1..10 /\ StartUp[n] = at
    BY <2>2, <2>3
  <2>5. at' = StartUp[1 + n]
    BY <1>2 DEF StartStep
  <2> HIDE DEF n
  <2>6. 1 + n \in 1..10
    <3>1. n # 10
      BY <2>1, <2>2, <2>4
    <3>2. QED  BY <2>4, <3>1
  <2>7. at # "scan" /\ at' \notin {"test", "accept", "scan"}
    BY <2>4, <2>5, <2>6 DEF StartUp
  <2>8. QED
    BY <1>2, <2>7, ScanNotNow DEF StartStep, clients, threads, history, Served
<1>3. CASE StartServing
  <2>1. /\ phase = "starting" /\ at = "execMode" /\ at' = "test"
        /\ thread_bin_available' = [b \in Bin |-> TRUE]
        /\ UNCHANGED <<binOf, i, conn, threadless, missed>>
        /\ \/ UNCHANGED task
           \/ task' = [task EXCEPT ![Runner] = "execute"]
    BY <1>3 DEF StartServing, InMain, executeMethodFile, history
  <2>2. \A c \in Client : ~Served(c)' /\ ~Served(c)
    BY <1>0, <2>1, RunnerIsNoClient DEF BinInv, BinType, NotYet, Served, Thread
  <2>3. threadless = {}
    BY <2>1 DEF ScanInv, WastedStay
  <2>5. QED
    BY <2>1, <2>2, <2>3
    DEF ScanInv, Place, WastedStay, Reasons, PassedOver, ServesWhileFree, Wasted
<1>4. CASE Test
  BY <1>4, ScanNotNow DEF Test, clients, threads, history, Served
<1>5. CASE accept
  BY <1>5, ScanAccept
<1>6. CASE SkipBin
  BY <1>6, ScanSkip
<1>7. CASE TakeBin
  BY <1>7, ScanTake
<1>8. CASE DropConnection
  BY <1>8, ScanDrop
<1>9. QED
  BY <1>1, <1>2, <1>3, <1>4, <1>5, <1>6, <1>7, <1>8 DEF MainNext

LEMMA ScanThreads == BinInv /\ ScanInv /\ (\E t \in Thread : Work(t)) => ScanInv'
<1> SUFFICES ASSUME BinInv, ScanInv, NEW t \in Thread, Work(t)
             PROVE  ScanInv'
  OBVIOUS
<1>0. BinType
  BY DEF BinInv
<1>1. CASE OpenFile(t) \/ LogConfig(t) \/ LockData(t) \/ LockSpecs(t) \/ Unlock(t) \/ CloseFile(t)
  BY <1>1, ScanUntouched
  DEF OpenFile, LogConfig, LockData, LockSpecs, Unlock, CloseFile, main, clients, history, Served
<1>2. CASE Finish(t)
  <2>1. /\ task[t] # "none"
        /\ task' = [task EXCEPT ![t] = IF t = Runner THEN "none" ELSE "recv"]
        /\ UNCHANGED <<main, conn, binOf, history>>
    BY <1>2 DEF Finish
  <2>2. \A c \in Client : Served(c)' <=> Served(c)
    BY <1>0, <2>1, RunnerIsNoClient DEF BinType, Thread, Served
  <2>3. QED  BY <2>1, <2>2, ScanUntouched DEF main, history
<1>3. CASE t \in Client /\ FreeBin(t)
  BY <1>3, ScanFree
<1>4. CASE t \in Client /\ CloseConnection(t)
  <2>1. /\ Served(t) /\ task' = [task EXCEPT ![t] = "free bin"]
        /\ conn' = [conn EXCEPT ![t] = "closed"]
        /\ UNCHANGED <<main, binOf, history>>
    BY <1>4 DEF CloseConnection, Served
  <2>2. \A c \in Client : ~Served(c) => conn'[c] = conn[c]
    BY <1>0, <1>4, <2>1 DEF BinType
  <2>3. \A c \in Client : conn[c] = "open" /\ ~Served(c) => conn'[c] = "open"
    BY <2>2
  <2>4. \A c \in Client : Served(c)' <=> Served(c)
    BY <1>0, <1>4, <2>1 DEF BinType, Thread, Served
  <2>5. UNCHANGED <<phase, at, i, conn_s, thread_bin_available, binOf, threadless, idle, missed>>
    BY <2>1 DEF main, history
  <2>6. QED  BY <2>3, <2>4, <2>5, ScanUntouched
<1>5. CASE t \in Client /\ (Receive(t) \/ ReceiveEnd(t) \/ BrokenPipe(t) \/ Poll(t))
  <2>1. /\ \/ UNCHANGED task
           \/ task[t] # "none" /\ \E to \in {"execute", "handle", "close"} : task' = [task EXCEPT ![t] = to]
        /\ UNCHANGED <<at, i, conn_s, thread_bin_available, conn, binOf, threadless, idle, missed>>
        /\ phase' = "starting" => phase = "starting"
    BY <1>5 DEF Receive, ReceiveEnd, BrokenPipe, Poll, main, clients, threads, history
  <2>2. \A c \in Client : Served(c)' <=> Served(c)
    BY <1>0, <2>1 DEF BinType, Thread, Served
  <2>3. QED  BY <2>1, <2>2, ScanUntouched
<1>6. QED
  BY <1>1, <1>2, <1>3, <1>4, <1>5 DEF Work, Steps, Connection

LEMMA ScanOthers ==
  BinInv /\ ScanInv /\ (catch_term \/ Handler \/ \E c \in Client : ClientNext(c)) => ScanInv'
<1>1. ASSUME BinInv, ScanInv, catch_term \/ Handler
      PROVE  ScanInv'
  BY <1>1, ScanUntouched
  DEF catch_term, Handler, CatchData, CatchClose, main, clients, threads, history, Served
<1>2. ASSUME BinInv, ScanInv, NEW c \in Client, Connect(c)
      PROVE  ScanInv'
  <2>1. /\ conn[c] = "new" /\ conn' = [conn EXCEPT ![c] = "pending"]
        /\ UNCHANGED <<main, threads, history>>
    BY <1>2 DEF Connect
  <2>2. \A d \in Client : conn[d] = "open" => conn'[d] = "open"
    BY <1>2, <2>1 DEF BinInv, BinType
  <2>3. QED  BY <1>2, <2>1, <2>2, ScanUntouched DEF main, threads, history, Served
<1>3. ASSUME BinInv, ScanInv, NEW c \in Client, Leave(c) \/ \E kind \in {"SSP", "EXM", "TRM"} : Send(c, kind)
      PROVE  ScanInv'
  BY <1>3, ScanUntouched DEF Leave, Send, main, threads, history, Served
<1>4. QED  BY <1>1, <1>2, <1>3 DEF ClientNext

LEMMA ScanInvStep == BinInv /\ ScanInv /\ [Next]_vars => ScanInv'
<1>1. ASSUME BinInv, ScanInv, UNCHANGED vars
      PROVE  ScanInv'
  BY <1>1, ScanUntouched DEF vars, main, clients, threads, history, Served
<1>2. QED  BY <1>1, ScanMain, ScanThreads, ScanOthers DEF Next

\* A connection is dropped only if each bin had a thread, or had lost it because none
\* could be made, when the connection was accepted: for any number of bins, and
\* whatever threads do while main looks at them.
THEOREM ServedWhileFree == Spec => []ServesWhileFree
<1>1. ScanInv => ServesWhileFree
  BY DEF ScanInv
<1>2. QED
  BY <1>1, BinInvInit, BinInvStep, ScanInit, ScanInvStep, PTL DEF Spec

-----------------------------------------------------------------------------
(* The end of the accept loop.                                             *)

\* Only SIGTERM closes the socket, and from then on main is told to stop.
Listening == keep_going => handler = "no" /\ list_s # "closed"

\* A thread has closed its connection before it gives the bin back.
ClosedFirst == \A c \in Client : task[c] = "free bin" => conn[c] = "closed"

\* A descriptor is with a connection that was dropped, has a bin, or is looking
\* for one.
Accounted ==
  /\ dropped \subseteq Client
  /\ \A c \in Opened : c \in dropped \/ Holds(c) \/ (at = "scan" /\ c = conn_s)

UpInv == Listening /\ ClosedFirst /\ Accounted /\ StaysUp

Holders == {c \in Client : Holds(c)}

\* No more connections have a bin than there are bins.
LEMMA HoldersFit ==
  ASSUME BinInv, ScanInv
  PROVE  IsFiniteSet(Holders) /\ Cardinality(Holders) <= NUM_THREADS
<1>1. \A c \in Holders : binOf[c] \in Bin
  BY DEF Holders, Holds, BinInv, OwnBin, ScanInv, WastedStay
<1>2. \A c, d \in Holders : binOf[c] = binOf[d] => c = d
  BY DEF Holders, Holds, BinInv, OwnBin, ScanInv, WastedStay
<1> DEFINE f == [c \in Holders |-> binOf[c]]
<1>3. f \in Injection(Holders, Bin)
  BY <1>1, <1>2 DEF Injection, IsInjective
<1>4. IsFiniteSet(Bin) /\ Cardinality(Bin) = NUM_THREADS
  BY FS_Interval, ServerAssumption DEF Bin
<1>5. IsFiniteSet(Holders) /\ Cardinality(Holders) <= Cardinality(Bin)
  BY <1>3, <1>4, FS_Injection
<1>6. QED  BY <1>4, <1>5

\* When main accepts, all open connections were dropped or have a bin.
LEMMA OpenedFit ==
  ASSUME BinInv, ScanInv, UpInv, at # "scan"
  PROVE  Cardinality(Opened) <= Cardinality(dropped) + NUM_THREADS
<1>1. Opened \subseteq dropped \cup Holders
  BY DEF UpInv, Accounted, Opened, Holders
<1>2. IsFiniteSet(Client)
  BY FS_Interval, ServerAssumption DEF Client
<1>3. IsFiniteSet(dropped)
  BY <1>2, FS_Subset DEF UpInv, Accounted
<1>4. IsFiniteSet(Holders) /\ Cardinality(Holders) <= NUM_THREADS
  BY HoldersFit
<1>5. /\ IsFiniteSet(dropped \cup Holders)
      /\ Cardinality(dropped \cup Holders)
           = Cardinality(dropped) + Cardinality(Holders) - Cardinality(dropped \cap Holders)
  BY <1>3, <1>4, FS_Union
<1>6. Cardinality(dropped \cap Holders) \in Nat
  BY <1>3, FS_Subset, FS_CardinalityType
<1>7. IsFiniteSet(Opened) /\ Cardinality(Opened) <= Cardinality(dropped \cup Holders)
  BY <1>1, <1>5, FS_Subset
<1>8. QED
  BY <1>3, <1>4, <1>5, <1>6, <1>7, FS_CardinalityType, ServerAssumption

LEMMA UpInit == Init => UpInv
<1> SUFFICES ASSUME Init
             PROVE  UpInv
  OBVIOUS
<1>1. Listening /\ Accounted /\ StaysUp
  BY DEF Init, Listening, Accounted, Opened, StaysUp
<1>2. ClosedFirst
  BY DEF Init, ClosedFirst, Thread
<1>3. QED  BY <1>1, <1>2 DEF UpInv

\* Steps that open, close and drop no connection, and leave main where it is or
\* let it go down.
LEMMA UpUntouched ==
  ASSUME UpInv,
         UNCHANGED <<at, conn_s, conn, threadless, dropped>>,
         phase' \in {phase, "down"} \/ ~keep_going' \/ (phase = "closing" /\ phase' = "exiting"),
         keep_going' => keep_going /\ UNCHANGED <<list_s, handler>>,
         \A c \in Client : Served(c) => Served(c)' \/ task[c] = "free bin",
         \A c \in Client : task'[c] = "free bin" => task[c] = "free bin"
  PROVE  UpInv'
<1>1. Listening' /\ ClosedFirst'
  BY DEF UpInv, Listening, ClosedFirst
<1>2. Accounted'
  <2>1. Opened' = Opened
    BY DEF Opened
  <2>2. \A c \in Opened : task[c] # "free bin"
    BY DEF UpInv, ClosedFirst, Opened
  <2>3. \A c \in Opened : Holds(c) => Holds(c)'
    BY <2>2 DEF Opened, Holds
  <2>4. QED  BY <2>1, <2>3 DEF UpInv, Accounted
<1>3. StaysUp'
  BY DEF UpInv, StaysUp
<1>4. QED  BY <1>1, <1>2, <1>3 DEF UpInv

LEMMA UpMain == BinInv /\ ScanInv /\ UpInv /\ MainNext => UpInv'
<1> SUFFICES ASSUME BinInv, ScanInv, UpInv, MainNext
             PROVE  UpInv'
  OBVIOUS
<1>0. BinType
  BY DEF BinInv
<1>1. CASE StartFails \/ disconnectSpectrometers \/ Exit
  <2>1. /\ UNCHANGED <<at, conn_s, list_s, conn, task, dropped, threadless, keep_going, handler>>
        /\ \/ phase' = "down"
           \/ phase = "closing" /\ phase' = "exiting"
    BY <1>1
    DEF StartFails, disconnectSpectrometers, Exit, InMain, signal, clients, threads, history
  <2>2. QED  BY <2>1, UpUntouched DEF Served
<1>2. CASE StartStep
  <2>1. /\ phase' = "starting" /\ at # "scan"
        /\ list_s' = list_s \/ list_s' = "open"
        /\ UNCHANGED <<conn, task, dropped, threadless, keep_going, handler>>
    <3>1. CASE phase = "starting"
      <4>1. at # "scan"
        BY <1>2, <3>1 DEF BinInv, NotYet, StartUp
      <4>2. QED  BY <1>2, <3>1, <4>1 DEF StartStep, signal, clients, threads, history
    <3>2. QED  BY <1>2, <3>1 DEF StartStep, InMain
  <2>2. QED
    BY <2>1 DEF UpInv, Listening, ClosedFirst, Accounted, StaysUp, Opened, Holds, Served
<1>3. CASE StartServing
  <2>1. /\ phase' = "serving" /\ at # "scan"
        /\ UNCHANGED <<conn, dropped, threadless, list_s, signal>>
        /\ \/ UNCHANGED task
           \/ task' = [task EXCEPT ![Runner] = "execute"]
    BY <1>3 DEF StartServing, executeMethodFile, history
  <2>2. \A c \in Client : task'[c] = task[c]
    BY <1>0, <2>1, RunnerIsNoClient DEF BinType, Thread
  <2>3. QED
    BY <2>1, <2>2 DEF UpInv, Listening, ClosedFirst, Accounted, StaysUp, Opened, Holds, Served, signal
<1>4. CASE Test
  <2>1. /\ at # "scan" /\ phase = "serving"
        /\ phase' = "serving" \/ ~keep_going
        /\ UNCHANGED <<conn, dropped, threadless, list_s, signal, task>>
    BY <1>4 DEF Test, InMain, clients, threads, history
  <2>2. QED
    BY <2>1 DEF UpInv, Listening, ClosedFirst, Accounted, StaysUp, Opened, Holds, Served, signal
<1>5. CASE accept
  <2>1. /\ at # "scan" /\ at' = "scan" /\ phase' = "serving"
        /\ UNCHANGED <<dropped, threadless, list_s, signal, task>>
    BY <1>5 DEF accept, InMain, threads
  <2>2. PICK c \in Client : /\ conn[c] = "pending"
                            /\ conn' = [conn EXCEPT ![c] = "open"]
                            /\ conn_s' = c
    BY <1>5 DEF accept
  <2>3. \A d \in Opened' : d \in Opened \/ d = c
    BY <1>0, <2>2 DEF BinType, Opened
  <2>4. task[c] # "free bin"
    BY <2>2 DEF UpInv, ClosedFirst
  <2>5. ClosedFirst'
    BY <1>0, <2>1, <2>2, <2>4 DEF BinType, UpInv, ClosedFirst
  <2>6. Accounted'
    BY <2>1, <2>2, <2>3 DEF UpInv, Accounted, Holds, Served
  <2>7. Listening' /\ StaysUp'
    BY <2>1 DEF UpInv, Listening, StaysUp, signal
  <2>8. QED  BY <2>5, <2>6, <2>7 DEF UpInv
<1>6. CASE AcceptFails
  <2>1. /\ at # "scan"
        /\ list_s = "closed" \/ Cardinality(Opened) >= MaxFds
        /\ UNCHANGED <<at, conn, dropped, threadless, list_s, signal, task>>
    BY <1>6 DEF AcceptFails, clients, threads, history
  <2>2. Cardinality(Opened) <= Cardinality(dropped) + NUM_THREADS
    BY <2>1, OpenedFit
  <2>3. keep_going => Cardinality(dropped) + NUM_THREADS >= MaxFds
    <3>1. IsFiniteSet(Client)
      BY FS_Interval, ServerAssumption DEF Client
    <3>2. Cardinality(Opened) \in Nat /\ Cardinality(dropped) \in Nat
      BY <3>1, FS_Subset, FS_CardinalityType DEF Opened, UpInv, Accounted
    <3>3. QED  BY <2>1, <2>2, <3>2, ServerAssumption DEF UpInv, Listening
  <2>4. StaysUp'
    BY <2>1, <2>3 DEF StaysUp, signal
  <2>5. QED
    BY <2>1, <2>4 DEF UpInv, Listening, ClosedFirst, Accounted, Opened, Holds, Served, signal
<1>7. CASE SkipBin
  <2>1. UNCHANGED <<phase, at, conn_s, list_s, conn, dropped, threadless, signal, task>>
    BY <1>7 DEF SkipBin, clients, threads, history
  <2>2. QED  BY <2>1, UpUntouched DEF signal, Served
<1>8. CASE TakeBin
  <2> PICK s \in Client : s = conn_s
    BY <1>8 DEF BinInv, Sought, TakeBin, Scanning
  <2>1. /\ phase' = "serving"
        /\ \/ task' = [task EXCEPT ![s] = "recv"] /\ threadless' = threadless
           \/ task' = task /\ threadless' = threadless \cup {s}
        /\ UNCHANGED <<conn, dropped, list_s, signal>>
    BY <1>8 DEF TakeBin, Scanning, InMain, NextConnection, clients
  <2>2. /\ \A c \in Client \ {s} : task'[c] = task[c]
        /\ task'[s] = "recv" \/ task'[s] = task[s]
        /\ task'[s] = "recv" \/ s \in threadless'
        /\ threadless \subseteq threadless'
    BY <1>0, <2>1 DEF BinType, Thread
  <2>3. \A c \in Client : Holds(c) \/ c = s => Holds(c)'
    BY <2>2 DEF Holds, Served
  <2>4. Accounted'
    BY <2>1, <2>3 DEF UpInv, Accounted, Opened
  <2>5. QED
    BY <2>1, <2>2, <2>4 DEF UpInv, Listening, ClosedFirst, StaysUp, signal
<1>9. CASE DropConnection
  <2> PICK s \in Client : s = conn_s
    BY <1>9 DEF BinInv, Sought, DropConnection, Scanning
  <2>1. /\ phase' = "serving" /\ dropped' = dropped \cup {s}
        /\ UNCHANGED <<conn, threadless, list_s, signal, task>>
    BY <1>9 DEF DropConnection, Scanning, InMain, NextConnection, clients, threads
  <2>2. Accounted'
    BY <2>1 DEF UpInv, Accounted, Opened, Holds, Served
  <2>3. QED
    BY <2>1, <2>2 DEF UpInv, Listening, ClosedFirst, StaysUp, signal
<1>10. QED
  BY <1>1, <1>2, <1>3, <1>4, <1>5, <1>6, <1>7, <1>8, <1>9 DEF MainNext

LEMMA UpThreads == BinInv /\ UpInv /\ (\E t \in Thread : Work(t)) => UpInv'
<1> SUFFICES ASSUME BinInv, UpInv, NEW t \in Thread, Work(t)
             PROVE  UpInv'
  OBVIOUS
<1>0. BinType
  BY DEF BinInv
<1>1. CASE OpenFile(t) \/ LogConfig(t) \/ LockData(t) \/ LockSpecs(t) \/ Unlock(t) \/ CloseFile(t)
  <2>1. UNCHANGED <<main, signal, conn, task, history>>
    BY <1>1 DEF OpenFile, LogConfig, LockData, LockSpecs, Unlock, CloseFile, clients
  <2>2. QED  BY <2>1, UpUntouched DEF main, signal, history, Served
<1>2. CASE Finish(t)
  <2>1. /\ task[t] \in {"handle", "execute"}
        /\ task' = [task EXCEPT ![t] = IF t = Runner THEN "none" ELSE "recv"]
        /\ UNCHANGED <<main, signal, conn, history>>
    BY <1>2 DEF Finish
  <2>2. \A c \in Client : /\ Served(c) => task'[c] # "none"
                          /\ task'[c] = "free bin" => task[c] = "free bin"
    BY <1>0, <2>1, RunnerIsNoClient DEF BinType, Thread, Served
  <2>3. QED  BY <2>1, <2>2, UpUntouched DEF main, signal, history, Served
<1>3. CASE t \in Client /\ (Receive(t) \/ ReceiveEnd(t) \/ BrokenPipe(t) \/ Poll(t))
  <2>1. /\ \/ UNCHANGED task
           \/ task[t] # "none" /\ \E to \in {"execute", "handle", "close"} : task' = [task EXCEPT ![t] = to]
        /\ UNCHANGED <<at, conn_s, list_s, conn, threadless, dropped, signal>>
        /\ phase' \in {phase, "down"}
    BY <1>3 DEF Receive, ReceiveEnd, BrokenPipe, Poll, main, clients, threads, history
  <2>2. \A c \in Client : /\ Served(c) => task'[c] # "none"
                          /\ task'[c] = "free bin" => task[c] = "free bin"
    BY <1>0, <2>1 DEF BinType, Thread, Served
  <2>3. QED  BY <2>1, <2>2, UpUntouched DEF signal, Served
<1>4. CASE t \in Client /\ CloseConnection(t)
  <2>1. /\ conn' = [conn EXCEPT ![t] = "closed"] /\ task' = [task EXCEPT ![t] = "free bin"]
        /\ UNCHANGED <<main, signal, history>>
    BY <1>4 DEF CloseConnection
  <2>2. /\ conn'[t] = "closed"
        /\ \A c \in Client \ {t} : conn'[c] = conn[c] /\ task'[c] = task[c]
    BY <1>0, <1>4, <2>1 DEF BinType, Thread
  <2>3. ClosedFirst'
    BY <2>2 DEF UpInv, ClosedFirst
  <2>4. \A c \in Opened' : c \in Opened /\ c # t
    BY <2>2 DEF Opened
  <2>5. Accounted'
    BY <2>1, <2>2, <2>4 DEF UpInv, Accounted, Opened, Holds, Served, main, history
  <2>6. Listening' /\ StaysUp'
    BY <2>1 DEF UpInv, Listening, StaysUp, main, signal, history
  <2>7. QED  BY <2>3, <2>5, <2>6 DEF UpInv
<1>5. CASE t \in Client /\ FreeBin(t)
  <2>1. /\ task[t] = "free bin" /\ task' = [task EXCEPT ![t] = "none"]
        /\ UNCHANGED <<phase, at, conn_s, list_s, conn, threadless, dropped, signal>>
    BY <1>5 DEF FreeBin, clients, history
  <2>2. \A c \in Client : /\ Served(c) => task'[c] # "none" \/ task[c] = "free bin"
                          /\ task'[c] = "free bin" => task[c] = "free bin"
    BY <1>0, <2>1 DEF BinType, Thread, Served
  <2>3. QED  BY <2>1, <2>2, UpUntouched DEF signal, Served
<1>6. QED
  BY <1>1, <1>2, <1>3, <1>4, <1>5 DEF Work, Steps, Connection

LEMMA UpOthers == BinInv /\ UpInv /\ (catch_term \/ Handler \/ \E c \in Client : ClientNext(c)) => UpInv'
<1>1. ASSUME BinInv, UpInv, catch_term \/ Handler
      PROVE  UpInv'
  <2>1. ~keep_going'
    BY <1>1 DEF catch_term, Handler, CatchData, CatchClose, UpInv, Listening
  <2>2. UNCHANGED <<at, conn_s, conn, threadless, dropped, task>>
    BY <1>1 DEF catch_term, Handler, CatchData, CatchClose, main, clients, threads, history
  <2>3. QED  BY <1>1, <2>1, <2>2, UpUntouched DEF Served
<1>2. ASSUME BinInv, UpInv, NEW c \in Client, Connect(c)
      PROVE  UpInv'
  <2>1. /\ conn[c] = "new" /\ conn' = [conn EXCEPT ![c] = "pending"]
        /\ UNCHANGED <<main, signal, threads, history>>
    BY <1>2 DEF Connect
  <2>2. Opened' = Opened
    BY <1>2, <2>1 DEF BinInv, BinType, Opened
  <2>3. ClosedFirst'
    BY <1>2, <2>1 DEF BinInv, BinType, UpInv, ClosedFirst, threads
  <2>4. QED
    BY <1>2, <2>1, <2>2, <2>3
    DEF UpInv, Listening, Accounted, StaysUp, Holds, Served, main, signal, threads, history
<1>3. ASSUME BinInv, UpInv, NEW c \in Client, Leave(c) \/ \E kind \in {"SSP", "EXM", "TRM"} : Send(c, kind)
      PROVE  UpInv'
  <2>1. UNCHANGED <<main, signal, conn, task, history>>
    BY <1>3 DEF Leave, Send, threads
  <2>2. QED  BY <1>3, <2>1, UpUntouched DEF main, signal, history, Served
<1>4. QED  BY <1>1, <1>2, <1>3 DEF ClientNext

LEMMA UpStep == BinInv /\ ScanInv /\ UpInv /\ [Next]_vars => UpInv'
<1>1. ASSUME UpInv, UNCHANGED vars
      PROVE  UpInv'
  <2>1. UNCHANGED <<main, signal, conn, task, history>>
    BY <1>1 DEF vars, clients, threads
  <2>2. QED  BY <1>1, <2>1, UpUntouched DEF main, signal, history, Served
<1>2. QED  BY <1>1, UpMain, UpThreads, UpOthers DEF Next

\* The accept loop ends only because of SIGTERM, or because connections that were
\* dropped, and never closed, leave no descriptor beyond those of the bins: the
\* connections that are or were served cannot end it, whatever their clients do.
THEOREM StaysUpWhileServed == Spec => []StaysUp
<1>1. UpInv => StaysUp
  BY DEF UpInv
<1>2. QED
  BY <1>1, BinInvInit, BinInvStep, ScanInit, ScanInvStep, UpInit, UpStep, PTL DEF Spec

=============================================================================
