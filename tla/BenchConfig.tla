----------------------------- MODULE BenchConfig -----------------------------
(***************************************************************************)
(* The bench configuration (benchConfig.c): the pump speeds, heater set    *)
(* point and plot ranges that a client saves and gets back when it         *)
(* connects again.  One value stands for all of them: they are copied      *)
(* together, under benchConfigMutex.  Unlike config.c, the file is opened, *)
(* written and closed under that mutex as well.                            *)
(***************************************************************************)
EXTENDS Sequences

CONSTANTS Thread,
          NoThread,
          BenchValue,   \* what clients save
          Default,      \* initBenchConfig
          Unset         \* the static variable before anything is read

VARIABLES
  bench,      \* benchConfig
  benchFile,  \* BENCHPATH: "empty" or what is in it
  benchMutex, \* holder of benchConfigMutex
  benchTodo   \* benchTodo[t]: the steps t has still to do

benchVars == <<bench, benchFile, benchMutex, benchTodo>>

Idle(t) == benchTodo[t] = <<>>

\* What the next start makes of a file.  Of an empty one every line is skipped.
Read(f) == IF f = "empty" THEN Unset ELSE f

\* The first start finds no file, and readBenchConfig writes the default.
Init ==
  /\ bench = Default
  /\ benchFile = Default
  /\ benchMutex = NoThread
  /\ benchTodo = [t \in Thread |-> <<>>]

receiveSaveBenchConfig(t, value) ==
  /\ Idle(t)
  /\ benchTodo' = [benchTodo EXCEPT ![t] =
                     << <<"copy", value>>, <<"open">> >>]
  /\ UNCHANGED <<bench, benchFile, benchMutex>>

Step(t, op) == ~Idle(t) /\ Head(benchTodo[t])[1] = op
Continue(t) == benchTodo' = [benchTodo EXCEPT ![t] = Tail(@)]

Copy(t) ==
  /\ Step(t, "copy")
  /\ benchMutex = NoThread
  /\ bench' = Head(benchTodo[t])[2]
  /\ Continue(t)
  /\ UNCHANGED <<benchFile, benchMutex>>

\* Faulty: without the mutex.
Open_NoLock(t) ==
  /\ Step(t, "open")
  /\ benchFile' = "empty"
  /\ benchTodo' = [benchTodo EXCEPT ![t] = << <<"print", bench>> >>]
  /\ UNCHANGED <<bench, benchMutex>>

\* writeBenchConfig: the file is truncated ...
Open(t) ==
  /\ Step(t, "open")
  /\ benchMutex = NoThread
  /\ benchMutex' = t
  /\ benchFile' = "empty"
  /\ benchTodo' = [benchTodo EXCEPT ![t] = << <<"print", bench>> >>]
  /\ UNCHANGED bench

\* ... and has its new contents when it is closed.
Close(t) ==
  /\ Step(t, "print")
  /\ benchFile' = Head(benchTodo[t])[2]
  /\ benchMutex' = NoThread
  /\ Continue(t)
  /\ UNCHANGED bench

Work(t) == Copy(t) \/ Open(t) \/ Close(t)

\* A new process: readBenchConfig.
Restart ==
  /\ bench' = Read(benchFile)
  /\ benchMutex' = NoThread
  /\ benchTodo' = [t \in Thread |-> <<>>]
  /\ UNCHANGED benchFile

\* Once all saves are done the file has what memory has, whichever client came
\* last: the copy and the save are two sections of the mutex.
BenchSaved == (\A t \in Thread : Idle(t)) => Read(benchFile) = bench

=============================================================================
