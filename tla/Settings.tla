------------------------------- MODULE Settings ------------------------------
(***************************************************************************)
(* What the server keeps over a restart: the configuration (ConfigStore)   *)
(* and the bench configuration (BenchConfig), changed by the same threads  *)
(* and lost or kept by the same crash.                                     *)
(***************************************************************************)
EXTENDS ConfigStore

CONSTANTS BenchValue, Default, Unset,
          MaxRestarts  \* bound of the model

\* An empty file is told from every file that a save leaves.
ASSUME BenchAssumption == "empty" \notin BenchValue \cup {Default, Unset}

VARIABLES bench, benchFile, benchMutex, benchTodo,
          restarts  \* number of restarts so far

Bench == INSTANCE BenchConfig

benchVars == <<bench, benchFile, benchMutex, benchTodo>>
allVars == <<vars, benchVars, restarts>>

SInit == Init /\ Bench!Init /\ restarts = 0

\* A thread serves one command at a time.
Configure(t) ==
  /\ Bench!Idle(t)
  /\ \E r \in Menu : Begin(t, r)
  /\ UNCHANGED <<benchVars, restarts>>

SaveBench(t) ==
  /\ Idle(t)
  /\ issued < MaxRequests
  /\ issued' = issued + 1
  /\ \E v \in BenchValue : Bench!receiveSaveBenchConfig(t, v)
  /\ UNCHANGED <<config, mode, file, mutex, dataMutex, logged, todo, buffer, closes, before,
                 behind, alone, raced, restarts>>

ConfigWork(t) == Work(t) /\ UNCHANGED <<benchVars, restarts>>
BenchWork(t) == Bench!Work(t) /\ UNCHANGED <<vars, restarts>>

SRestart ==
  /\ restarts < MaxRestarts
  /\ restarts' = restarts + 1
  /\ Restart
  /\ Bench!Restart

SNext == SRestart \/ \E t \in Thread : \/ Configure(t) \/ SaveBench(t)
                                       \/ ConfigWork(t) \/ BenchWork(t)

SSpec == SInit /\ [][SNext]_allVars

\* Once all saves are done the bench file has what memory has, also after a
\* restart that came in the midst of a save (BenchConfig).
BenchSaved == Bench!BenchSaved

\* Threads that set, save and log at once never all wait for each other's mutexes,
\* writeConfigMutex, dataMutex and the one of the bench, nor for one that nobody is
\* going to give back: as long as a request is unfinished, some thread can go on with
\* its own.  A request has finitely many steps, so that every request returns if
\* the threads are scheduled fairly.
NobodyStuck ==
  (\E t \in Thread : ~Idle(t) \/ ~Bench!Idle(t)) =>
    \E t \in Thread : ENABLED Work(t) \/ ENABLED Bench!Work(t)

=============================================================================
