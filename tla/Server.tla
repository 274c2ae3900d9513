-------------------------------- MODULE Server -------------------------------
(***************************************************************************)
(* The server process (main.cpp) and its dispatch of commands              *)
(* (parseGUI.c): start-up, the accept loop that gives each connection a    *)
(* thread in a bin, the threads that receive commands, and SIGTERM, which  *)
(* interrupts the main thread wherever it is.                              *)
(*                                                                         *)
(* What a command does is in the other modules.  Here it is a sequence of  *)
(* steps on the two mutexes that the main thread needs as well: dataMutex  *)
(* in the signal handler and specsMutex before it exits.                   *)
(*                                                                         *)
(* A client waits for the ack of a command, and for the end of a method,   *)
(* before it sends the next one; TRM is not acked and may come any time.   *)
(***************************************************************************)
EXTENDS Integers, Sequences, FiniteSets

CONSTANTS Connections,  \* number of connections; each has its client
          Runner,       \* the thread that runs a method without a client
          Main, NobodyId,
          NUM_THREADS,  \* number of bins
          MaxFds,       \* descriptors that connections can have
          MaxThreads,   \* threads that can be made: they are never joined
          MaxMessages   \* bound of the model

Client == 1..Connections  \* in the order in which they connect
Thread == Client \cup {Runner}
Bin == 1..NUM_THREADS

ASSUME ServerAssumption ==
  /\ Cardinality({Runner, Main, NobodyId}) = 3 /\ {Runner, Main, NobodyId} \cap Client = {}
  /\ {Connections, NUM_THREADS, MaxFds, MaxThreads, MaxMessages} \subseteq Nat

VARIABLES
  phase,      \* "starting", "serving", "closing", "exiting" or "down"
  at,         \* main's place: in StartUp, or "test", "accept" or "scan"
  conn_s,     \* the connection it accepted last
  i,          \* the bin it looks at
  list_s,     \* the listening socket: "none", "open" or "closed"
  thread_bin_available,
  created,    \* number of threads made for connections
  keep_going,
  handler,    \* the signal handler: "no", or what it does next: "data", "close"
  conn,       \* conn[c]: "new", "pending", "open" or "closed"
  gone,       \* the clients that have closed their end
  task,       \* task[t]: what a thread does
  binOf,      \* binOf[c]: the bin of its thread
  todo,       \* todo[t]: the steps of its command
  inbox,      \* inbox[c]: the messages that were not received yet
  waits,      \* waits[c]: what a client waits for: "nothing", "ack" or "end"
  messages,   \* number of messages sent, and of methods run at the start
  dataMutex, specsMutex,
  db,         \* is a data file open?
  dropped,    \* history: the connections for which no bin was found
  threadless, \* history: the connections for which no thread could be made
  idle,       \* history: the bins without a thread when conn_s was accepted
  missed,     \* history: such bins of the connections that were dropped
  lost,       \* history: messages thrown away, each with what was handled instead
  caughtIn    \* history: the phase in which SIGTERM came

main == <<phase, at, conn_s, i, list_s, thread_bin_available, created>>
signal == <<keep_going, handler, caughtIn>>
clients == <<conn, gone, inbox, waits, messages>>
threads == <<task, binOf, todo>>
mutexes == <<dataMutex, specsMutex, db>>
history == <<dropped, threadless, idle, missed, lost>>
vars == <<main, signal, clients, threads, mutexes, history>>

Init ==
  /\ phase = "starting" /\ at = "readConfig"
  /\ conn_s = NobodyId /\ i = 1
  /\ list_s = "none"
  /\ thread_bin_available = [b \in Bin |-> FALSE]
  /\ created = 0
  /\ keep_going = TRUE /\ handler = "no"
  /\ conn = [c \in Client |-> "new"]
  /\ gone = {}
  /\ task = [t \in Thread |-> "none"]
  /\ binOf = [c \in Client |-> 0]
  /\ todo = [t \in Thread |-> <<>>]
  /\ inbox = [c \in Client |-> <<>>]
  /\ waits = [c \in Client |-> "nothing"]
  /\ messages = 0
  /\ dataMutex = NobodyId /\ specsMutex = NobodyId
  /\ db = FALSE
  /\ dropped = {} /\ threadless = {}
  /\ idle = {} /\ missed = {}
  /\ lost = {}
  /\ caughtIn = "never"

Up == phase # "down"

-----------------------------------------------------------------------------
\* The main thread, where the signal handler does not interrupt it.

InMain(p) == phase = p /\ handler = "no"

StartUp == << "readConfig", "setsid", "chdir", "socket", "connectSpectrometers",
              "startDispatch", "readBenchConfig", "bind", "listen", "execMode" >>

\* Any of these may fail, and do if the socket has been closed, but the last.
StartFails ==
  /\ InMain("starting")
  /\ at \notin {"readBenchConfig", "execMode"}
  /\ phase' = "down"
  /\ UNCHANGED <<at, conn_s, i, list_s, thread_bin_available, created>>
  /\ UNCHANGED <<signal, clients, threads, mutexes, history>>

StartStep ==
  /\ InMain("starting")
  /\ at # "execMode"
  /\ at \in {"bind", "listen"} => list_s = "open"
  /\ at' = StartUp[1 + CHOOSE n \in DOMAIN StartUp : StartUp[n] = at]
  /\ list_s' = IF at = "socket" THEN "open" ELSE list_s
  /\ UNCHANGED <<phase, conn_s, i, thread_bin_available, created>>
  /\ UNCHANGED <<signal, clients, threads, mutexes, history>>

\* The steps of a method: it opens the data file, which logs the configuration; at
\* the end the file is closed.
Method == <<"open file", "log config", "close file">>

\* The runner is a thread that executes the method of a client numbered -1.  What would
\* keep a second one from running is never set.
executeMethodFile ==
  /\ task' = [task EXCEPT ![Runner] = "execute"]
  /\ todo' = [todo EXCEPT ![Runner] = Method]
  /\ messages' = messages + 1

\* The bins become available; in mode PROGRAM the runner is started.
StartServing ==
  /\ InMain("starting")
  /\ at = "execMode"
  /\ phase' = "serving" /\ at' = "test"
  /\ thread_bin_available' = [b \in Bin |-> TRUE]
  /\ UNCHANGED <<task, todo, messages>> \/ executeMethodFile
  /\ UNCHANGED <<conn_s, i, list_s, created, binOf, conn, gone, inbox, waits>>
  /\ UNCHANGED <<signal, mutexes, history>>

Test ==
  /\ InMain("serving")
  /\ at = "test"
  /\ IF keep_going THEN at' = "accept" /\ UNCHANGED phase
                   ELSE phase' = "closing" /\ UNCHANGED at
  /\ UNCHANGED <<conn_s, i, list_s, thread_bin_available, created>>
  /\ UNCHANGED <<signal, clients, threads, mutexes, history>>

Opened == {c \in Client : conn[c] = "open"}
Unused == {b \in Bin : \A c \in Client : task[c] # "none" => binOf[c] # b}

accept ==
  /\ InMain("serving")
  /\ at = "accept"
  /\ list_s = "open" /\ Cardinality(Opened) < MaxFds
  /\ \E c \in Client : /\ conn[c] = "pending" /\ \A d \in 1..(c - 1) : conn[d] # "pending"
                       /\ conn' = [conn EXCEPT ![c] = "open"]
                       /\ conn_s' = c
  /\ at' = "scan"
  /\ idle' = Unused
  /\ UNCHANGED <<phase, i, list_s, thread_bin_available, created, gone, inbox, waits,
                 messages, missed, dropped, threadless, lost>>
  /\ UNCHANGED <<signal, threads, mutexes>>

\* The socket was closed, or there are no descriptors left: the loop ends.
AcceptFails ==
  /\ InMain("serving")
  /\ at = "accept"
  /\ list_s = "closed" \/ Cardinality(Opened) >= MaxFds
  /\ phase' = "closing"
  /\ UNCHANGED <<at, conn_s, i, list_s, thread_bin_available, created>>
  /\ UNCHANGED <<signal, clients, threads, mutexes, history>>

Scanning == InMain("serving") /\ at = "scan"

NextConnection ==
  /\ at' = "test" /\ conn_s' = NobodyId /\ i' = 1
  /\ idle' = {}
  /\ UNCHANGED <<phase, list_s>>

SkipBin ==
  /\ Scanning
  /\ i \in Bin
  /\ ~thread_bin_available[i]
  /\ i' = i + 1
  /\ UNCHANGED <<phase, at, conn_s, list_s, thread_bin_available, created>>
  /\ UNCHANGED <<signal, clients, threads, mutexes, history>>

\* The connection gets the bin.  That pthread_create fails is not noticed.
TakeBin ==
  /\ Scanning
  /\ i \in Bin
  /\ thread_bin_available[i]
  /\ thread_bin_available' = [thread_bin_available EXCEPT ![i] = FALSE]
  /\ binOf' = [binOf EXCEPT ![conn_s] = i]
  /\ IF created < MaxThreads
     THEN /\ created' = created + 1
          /\ task' = [task EXCEPT ![conn_s] = "recv"]
          /\ UNCHANGED threadless
     ELSE /\ threadless' = threadless \cup {conn_s}
          /\ UNCHANGED <<created, task>>
  /\ NextConnection
  /\ UNCHANGED <<todo, missed, dropped, lost>>
  /\ UNCHANGED <<signal, clients, mutexes>>

\* Faulty: the last bin is not looked at.
DropConnection_OneLess ==
  /\ Scanning
  /\ i = NUM_THREADS
  /\ dropped' = dropped \cup {conn_s}
  /\ missed' = missed \cup idle
  /\ NextConnection
  /\ UNCHANGED <<thread_bin_available, created, threadless, lost>>
  /\ UNCHANGED <<signal, clients, threads, mutexes>>

\* No bin was found: the connection is neither served nor closed.
DropConnection ==
  /\ Scanning
  /\ i \notin Bin
  /\ dropped' = dropped \cup {conn_s}
  /\ missed' = missed \cup idle
  /\ NextConnection
  /\ UNCHANGED <<thread_bin_available, created, threadless, lost>>
  /\ UNCHANGED <<signal, clients, threads, mutexes>>

\* disconnectSpectrometers: the mutex is not given back.
disconnectSpectrometers ==
  /\ InMain("closing")
  /\ specsMutex = NobodyId
  /\ specsMutex' = Main
  /\ phase' = "exiting"
  /\ UNCHANGED <<at, conn_s, i, list_s, thread_bin_available, created, dataMutex, db>>
  /\ UNCHANGED <<signal, clients, threads, history>>

Exit ==
  /\ InMain("exiting")
  /\ phase' = "down"
  /\ UNCHANGED <<at, conn_s, i, list_s, thread_bin_available, created>>
  /\ UNCHANGED <<signal, clients, threads, mutexes, history>>

MainNext == \/ StartFails \/ StartStep \/ StartServing \/ Test \/ accept \/ AcceptFails
            \/ SkipBin \/ TakeBin \/ DropConnection \/ disconnectSpectrometers \/ Exit

-----------------------------------------------------------------------------
\* The signal handler, on the main thread.

catch_term ==
  /\ Up
  /\ caughtIn = "never"
  /\ caughtIn' = phase
  /\ keep_going' = FALSE
  /\ handler' = IF db THEN "data" ELSE "close"
  /\ UNCHANGED <<main, clients, threads, mutexes, history>>

\* closeDataFile, for which it waits like any other thread.
CatchData ==
  /\ Up
  /\ handler = "data"
  /\ dataMutex = NobodyId
  /\ db' = FALSE
  /\ handler' = "close"
  /\ UNCHANGED <<main, keep_going, caughtIn, clients, threads, dataMutex, specsMutex, history>>

\* Faulty: closes another descriptor than the listening socket.
CatchClose_Other ==
  /\ Up
  /\ handler = "close"
  /\ handler' = "no"
  /\ UNCHANGED <<main, keep_going, caughtIn, clients, threads, mutexes, history>>

\* close(list_s) means the global variable, which is 0 and never set.  That is
\* the socket, which is opened after the standard input was closed.
CatchClose ==
  /\ Up
  /\ handler = "close"
  /\ list_s' = IF list_s = "open" THEN "closed" ELSE list_s
  /\ handler' = "no"
  /\ UNCHANGED <<phase, at, conn_s, i, thread_bin_available, created>>
  /\ UNCHANGED <<keep_going, caughtIn, clients, threads, mutexes, history>>

Handler == CatchData \/ CatchClose

-----------------------------------------------------------------------------
\* The clients.  Messages are short: each arrives as a whole.  What a client does
\* before its connection has a thread is not told from doing it then.

Served(c) == task[c] # "none"

Connect(c) ==
  /\ Up
  /\ phase = "serving" /\ list_s = "open"
  /\ conn[c] = "new" /\ \A d \in 1..(c - 1) : conn[d] # "new"
  /\ conn' = [conn EXCEPT ![c] = "pending"]
  /\ UNCHANGED <<main, signal, gone, inbox, waits, messages, threads, mutexes, history>>

Send(c, kind) ==
  /\ Up
  /\ Served(c) /\ c \notin gone
  /\ messages < MaxMessages
  /\ waits[c] = "nothing" \/ (waits[c] = "end" /\ kind = "TRM")
  /\ messages' = messages + 1
  /\ inbox' = [inbox EXCEPT ![c] = Append(@, kind)]
  /\ waits' = IF kind = "TRM" THEN waits ELSE [waits EXCEPT ![c] = "ack"]
  /\ UNCHANGED <<main, signal, conn, gone, threads, mutexes, history>>

Leave(c) ==
  /\ Up
  /\ Served(c) /\ c \notin gone
  /\ gone' = gone \cup {c}
  /\ UNCHANGED <<main, signal, conn, inbox, waits, messages, threads, mutexes, history>>

-----------------------------------------------------------------------------
\* The threads of the connections: handleConnection and parseGUI.

Commands == {<<"lock specs", "unlock">>, <<"log config">>}

Lose(n, first) ==  lost' = lost \cup {[kind |-> inbox[n[1]][k], instead |-> first] : k \in n[2]}

\* Faulty: the client hears that its method has ended before it runs.
Receive_EndFirst(c) ==
  /\ Up
  /\ task[c] = "recv"
  /\ keep_going
  /\ \E n \in 1..Len(inbox[c]) :
       /\ inbox' = [inbox EXCEPT ![c] = SubSeq(@, n + 1, Len(@))]
       /\ Lose(<<c, 2..n>>, inbox[c][1])
  /\ LET kind == inbox[c][1] IN
       IF kind = "TRM" THEN UNCHANGED <<task, todo, waits>>
       ELSE /\ task' = [task EXCEPT ![c] = IF kind = "EXM" THEN "execute" ELSE "handle"]
            /\ todo' = [todo EXCEPT ![c] = IF kind = "EXM" THEN Method ELSE <<>>]
            /\ waits' = [waits EXCEPT ![c] = "nothing"]
  /\ UNCHANGED <<main, signal, conn, gone, messages, binOf, mutexes, dropped,
                 threadless, idle, missed>>

\* Everything that has arrived is received, but only the first command in it is
\* handled.  All but TRM are acked before that.
Receive(c) ==
  /\ Up
  /\ task[c] = "recv"
  /\ keep_going
  /\ \E n \in 1..Len(inbox[c]) :
       /\ inbox' = [inbox EXCEPT ![c] = SubSeq(@, n + 1, Len(@))]
       /\ Lose(<<c, 2..n>>, inbox[c][1])
  /\ LET kind == inbox[c][1] IN
       CASE kind = "TRM" -> UNCHANGED <<task, todo, waits>>
         [] kind = "EXM" -> /\ task' = [task EXCEPT ![c] = "execute"]
                            /\ todo' = [todo EXCEPT ![c] = Method]
                            /\ waits' = [waits EXCEPT ![c] = "end"]
         [] OTHER        -> /\ task' = [task EXCEPT ![c] = "handle"]
                            /\ \E m \in Commands : todo' = [todo EXCEPT ![c] = m]
                            /\ waits' = [waits EXCEPT ![c] = "nothing"]
  /\ UNCHANGED <<main, signal, conn, gone, messages, binOf, mutexes, dropped,
                 threadless, idle, missed>>

\* recv says that the client is gone, or something came after SIGTERM.
ReceiveEnd(c) ==
  /\ Up
  /\ task[c] = "recv"
  /\ c \in gone \/ (inbox[c] # <<>> /\ ~keep_going)
  /\ task' = [task EXCEPT ![c] = "close"]
  /\ UNCHANGED <<main, signal, clients, binOf, todo, mutexes, history>>

\* An answer to a client that is gone raises SIGPIPE, which ends the process.
BrokenPipe(c) ==
  /\ Up
  /\ task[c] \in {"handle", "execute"}
  /\ c \in gone
  /\ phase' = "down"
  /\ UNCHANGED <<at, conn_s, i, list_s, thread_bin_available, created>>
  /\ UNCHANGED <<signal, clients, threads, mutexes, history>>

\* Between two statements a byte is read: TRM ends the method, another is lost.
Poll(c) ==
  /\ Up
  /\ task[c] = "execute"
  /\ c \notin {dataMutex, specsMutex}
  /\ todo[c] # <<>> /\ Head(todo[c]) # "close file"
  /\ inbox[c] # <<>>
  /\ inbox' = [inbox EXCEPT ![c] = Tail(@)]
  /\ IF Head(inbox[c]) = "TRM"
     THEN todo' = [todo EXCEPT ![c] = <<"close file">>] /\ UNCHANGED lost
     ELSE Lose(<<c, {1}>>, "EXM") /\ UNCHANGED todo
  /\ UNCHANGED <<main, signal, conn, gone, waits, messages, task, binOf, mutexes,
                 dropped, threadless, idle, missed>>

\* Faulty: the descriptor is not given back.
CloseConnection_NoClose(c) ==
  /\ Up
  /\ task[c] = "close"
  /\ task' = [task EXCEPT ![c] = "free bin"]
  /\ UNCHANGED <<main, signal, clients, binOf, todo, mutexes, history>>

\* Faulty: the bin is given back before the thread is done with it.
CloseConnection_BinFirst(c) ==
  /\ Up
  /\ task[c] = "close"
  /\ conn' = [conn EXCEPT ![c] = "closed"]
  /\ thread_bin_available' = [thread_bin_available EXCEPT ![binOf[c]] = TRUE]
  /\ task' = [task EXCEPT ![c] = "free bin"]
  /\ UNCHANGED <<phase, at, conn_s, i, list_s, created>>
  /\ UNCHANGED <<signal, gone, inbox, waits, messages, binOf, todo, mutexes, history>>

CloseConnection(c) ==
  /\ Up
  /\ task[c] = "close"
  /\ conn' = [conn EXCEPT ![c] = "closed"]
  /\ task' = [task EXCEPT ![c] = "free bin"]
  /\ UNCHANGED <<main, signal, gone, inbox, waits, messages, binOf, todo, mutexes, history>>

FreeBin(c) ==
  /\ Up
  /\ task[c] = "free bin"
  /\ thread_bin_available' = [thread_bin_available EXCEPT ![binOf[c]] = TRUE]
  /\ task' = [task EXCEPT ![c] = "none"]
  /\ binOf' = [binOf EXCEPT ![c] = 0]
  /\ UNCHANGED <<phase, at, conn_s, i, list_s, created>>
  /\ UNCHANGED <<signal, clients, todo, mutexes, history>>

-----------------------------------------------------------------------------
\* The steps of commands and methods.

Step(t, op) == Up /\ todo[t] # <<>> /\ Head(todo[t]) = op
Continue(t) == todo' = [todo EXCEPT ![t] = Tail(@)]

\* openDataFile, unless one is open.
OpenFile(t) ==
  /\ Step(t, "open file")
  /\ db \/ dataMutex = NobodyId
  /\ db' = TRUE
  /\ Continue(t)
  /\ UNCHANGED <<main, signal, clients, task, binOf, dataMutex, specsMutex, history>>

\* writeConfigToDB: nothing, or a section of dataMutex that takes specsMutex to get
\* the wavelengths and the reference.
LogConfig(t) ==
  /\ Step(t, "log config")
  /\ todo' = [todo EXCEPT ![t] = IF db THEN <<"lock data", "lock specs", "unlock">> \o Tail(@)
                                 ELSE Tail(@)]
  /\ UNCHANGED <<main, signal, clients, task, binOf, mutexes, history>>

LockData(t) ==
  /\ Step(t, "lock data")
  /\ dataMutex = NobodyId
  /\ dataMutex' = t
  /\ Continue(t)
  /\ UNCHANGED <<main, signal, clients, task, binOf, specsMutex, db, history>>

LockSpecs(t) ==
  /\ Step(t, "lock specs")
  /\ specsMutex = NobodyId
  /\ specsMutex' = t
  /\ Continue(t)
  /\ UNCHANGED <<main, signal, clients, task, binOf, dataMutex, db, history>>

Unlock(t) ==
  /\ Step(t, "unlock")
  /\ specsMutex' = NobodyId
  /\ dataMutex' = IF dataMutex = t THEN NobodyId ELSE dataMutex
  /\ Continue(t)
  /\ UNCHANGED <<main, signal, clients, task, binOf, db, history>>

CloseFile(t) ==
  /\ Step(t, "close file")
  /\ db => dataMutex = NobodyId
  /\ db' = FALSE
  /\ Continue(t)
  /\ UNCHANGED <<main, signal, clients, task, binOf, dataMutex, specsMutex, history>>

\* The command is done; the client of a method hears that it has ended.
Finish(t) ==
  /\ Up
  /\ task[t] \in {"handle", "execute"}
  /\ todo[t] = <<>>
  /\ task' = [task EXCEPT ![t] = IF t = Runner THEN "none" ELSE "recv"]
  /\ waits' = IF t \in Client /\ task[t] = "execute"
              THEN [waits EXCEPT ![t] = "nothing"] ELSE waits
  /\ UNCHANGED <<main, signal, conn, gone, inbox, messages, binOf, todo, mutexes, history>>

Steps(t) == \/ OpenFile(t) \/ LogConfig(t) \/ LockData(t) \/ LockSpecs(t) \/ Unlock(t)
            \/ CloseFile(t) \/ Finish(t)

Connection(c) == \/ Receive(c) \/ ReceiveEnd(c) \/ BrokenPipe(c) \/ Poll(c)
                 \/ CloseConnection(c) \/ FreeBin(c)

Work(t) == Steps(t) \/ (t \in Client /\ Connection(t))

ClientNext(c) ==
  Connect(c) \/ Leave(c) \/ \E kind \in {"SSP", "EXM", "TRM"} : Send(c, kind)

Next == \/ MainNext \/ catch_term \/ Handler
        \/ \E t \in Thread : Work(t)
        \/ \E c \in Client : ClientNext(c)

\* Threads go on with what they do; the commands and statements are finitely many,
\* so that who waits for a mutex gets it in the end.
Fairness == WF_vars(MainNext) /\ WF_vars(Handler) /\ \A t \in Thread : WF_vars(Work(t))

Spec == Init /\ [][Next]_vars
FairSpec == Spec /\ Fairness

-----------------------------------------------------------------------------
\* Properties.

TypeOK ==
  /\ phase \in {"starting", "serving", "closing", "exiting", "down"}
  /\ at \in {StartUp[n] : n \in 1..10} \cup {"test", "accept", "scan"}
  /\ conn_s \in Client \cup {NobodyId}
  /\ i \in 1..(NUM_THREADS + 1)
  /\ list_s \in {"none", "open", "closed"}
  /\ thread_bin_available \in [Bin -> BOOLEAN]
  /\ conn \in [Client -> {"new", "pending", "open", "closed"}]
  /\ task \in [Thread -> {"none", "recv", "handle", "execute", "close", "free bin"}]
  /\ binOf \in [Client -> 0..NUM_THREADS]
  /\ dropped \subseteq Client /\ threadless \subseteq Client

\* No two threads share a bin, and a bin is unavailable as long as a thread has
\* it: no connection is handed to a bin that another one still uses.
OwnBin ==
  \A c \in Client : Served(c) =>
    /\ binOf[c] \in Bin /\ ~thread_bin_available[binOf[c]]
    /\ \A d \in Client \ {c} : Served(d) => binOf[d] # binOf[c]

\* A connection is dropped only if each bin had a thread, or had lost it because
\* none could be made, when the connection was accepted.
ServesWhileFree ==
  missed \subseteq {binOf[c] : c \in threadless}

\* The server stops accepting only when it was told to, or when connections that
\* it dropped have used up the descriptors: served ones give theirs back.
StaysUp ==
  phase \in {"closing", "exiting"} /\ keep_going
    => Cardinality(dropped) + NUM_THREADS >= MaxFds

\* A client that waits for its acks loses no command, but one that came right
\* after a TRM, which has no ack.
NoLostCommand == \A l \in lost : l.instead = "TRM"

\* Once SIGTERM has come, while it starts or serves, the server exits.
ExitsOnTerm == caughtIn \in {"starting", "serving"} ~> phase = "down"

=============================================================================
