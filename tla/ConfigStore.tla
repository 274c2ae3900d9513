----------------------------- MODULE ConfigStore -----------------------------
(***************************************************************************)
(* The configuration of the server (config.c) and the commands that change *)
(* it (configManager.c): in memory, config[s] for each spectrometer and    *)
(* mode; on disk, a text file that is read when the server starts and      *)
(* written by most of the setters.                                         *)
(*                                                                         *)
(* The setters change memory field by field, without a mutex, while other  *)
(* threads copy and save it.  A save truncates the file when it opens it,  *)
(* then takes writeConfigMutex, prints into a buffer and writes that out   *)
(* at the start of the file when it closes it (the text is shorter than a  *)
(* stdio buffer): what two saves leave can be one over the rest of the     *)
(* other.                                                                  *)
(*                                                                         *)
(* The log is a row of the data file for each spectrometer, written under  *)
(* dataMutex.  The data file is open and takes the row; DataFile has those *)
(* that fail.                                                              *)
(*                                                                         *)
(* A request is expanded to the steps of its C functions, in todo[t].      *)
(* An access to shared state is a step, except that the lines of one       *)
(* spectrometer are printed in one, and its slopes are read in one.  A     *)
(* line of the file is its key and value; a list is as long as it has      *)
(* numbers, other lines are of one unit.  The file is there and may be     *)
(* written: the server does not start otherwise.                           *)
(***************************************************************************)
EXTENDS Absorbance, SequencesExt

CONSTANTS Thread,
          NoThread,
          NumSpecs,    \* NUM_SPECS
          MaxAbsWaves, \* MAX_ABS_WAVES
          Lambda,      \* Lambda[s]: the wavelengths of the pixels of s
          Wave,        \* the wavelengths that clients set
          Label,       \* the slopes with their intercepts, and the analytes, that they set
          Menu,        \* the requests
          MaxRequests  \* bound of the model

SpecIndex == 1..NumSpecs
MCPWaves == <<434, 578>>
MCPNonAbs == 685
MAXMODES == {"ANALYTE", "MCP", "TB"}

ASSUME ThreadAssumption == NoThread \notin Thread
ASSUME SizeAssumption == /\ NumSpecs \in Nat \ {0}
                         /\ MaxAbsWaves \in Nat /\ MaxAbsWaves >= Len(MCPWaves)
                         /\ NumSpecs <= MaxAbsWaves
ASSUME WaveAssumption == /\ Wave \subseteq Nat \ {0}
                         /\ \A s \in SpecIndex : DOMAIN Lambda[s] = 0..Max(DOMAIN Lambda[s])
ASSUME LabelAssumption == Label \subseteq Nat \ {0}
\* A count or a list that is longer than the arrays is left out: what the code then
\* overwrites is undefined.
ASSUME MenuAssumption ==
  \A r \in Menu : /\ r.op \in {"SSP", "SVC", "SCP", "LSD", "SMM", "specParams", "absWaves",
                               "nonAbsWave", "dwell"}
                  /\ r.op \notin {"SVC", "LSD", "SMM"} => r.spec \in SpecIndex
                  /\ r.op = "absWaves" => r.waves \in Seq(Wave) /\ Len(r.waves) <= MaxAbsWaves
                  /\ r.op = "nonAbsWave" => r.wave \in Wave
                  /\ r.op = "SCP" => /\ r.block.count \in 0..MaxAbsWaves
                                     /\ r.block.waves \in [1..MaxAbsWaves -> Wave \cup {0}]
                                     /\ r.block.nonAbs \in Wave
                                     /\ r.block.cal \in [1..MaxAbsWaves -> Label]
                  /\ r.op = "LSD" => r.cal \in [SpecIndex -> [1..MaxAbsWaves -> Label]]

VARIABLES
  config,  \* config[s]
  mode,    \* MANUAL or PROGRAM
  file,    \* the configuration file: a sequence of units <<line, k>>
  mutex,   \* holder of writeConfigMutex
  dataMutex, \* its holder
  logged,  \* logged[s]: the last row of s in the data file's table of configurations
  todo,    \* todo[t]: the steps t has still to do
  buffer,  \* buffer[t]: what t has printed to its stream
  issued,  \* number of requests so far
  closes,  \* history: how many saves of this process ended since it truncated the file
  before,  \* history: what the file said before the setter that runs now
  behind,  \* history: what has not got the sampling of s, the file or the log
  alone,   \* history: nobody else was running since the running request began
  raced    \* history: what several requests may have changed together

vars == <<config, mode, file, mutex, dataMutex, logged, todo, buffer, issued, closes, before,
          behind, alone, raced>>

Waves == [1..MaxAbsWaves -> Wave \cup ToSet(MCPWaves) \cup {0}]
Config == [analyte : Label \cup {0}, dwell : Nat, integration : Nat, scans : Nat,
           count : 0..MaxAbsWaves, waves : Waves, nonAbs : Wave \cup {MCPNonAbs, 0},
           measure : MAXMODES, cal : [1..MaxAbsWaves -> Label \cup {0}],
           pixels : [1..MaxAbsWaves -> Nat], nonAbsPixel : Nat]

\* What SSP sets; scans stands for the width of the boxcar as well.
Sampling == {"integration", "scans"}

\* The static variables before anything is read.
Zero == [i \in 1..MaxAbsWaves |-> 0]
Blank == [analyte |-> 0, dwell |-> 0, integration |-> 0, scans |-> 0, count |-> 0,
          waves |-> Zero, nonAbs |-> 0, measure |-> "ANALYTE", cal |-> Zero,
          pixels |-> Zero, nonAbsPixel |-> 0]

calcPixelValueForWavelength(s, w) == GetPixelForWavelength(Lambda[s], w)

-----------------------------------------------------------------------------
\* The file.

Line(s, key, value) == [spec |-> s, key |-> key, value |-> value]
Units(line) ==
  [k \in 1..(IF line.key \in {"waves", "cal"} THEN 1 + Len(line.value) ELSE 1) |-> <<line, k>>]

ModeLine == Line(0, "mode", mode)

\* Lists are printed up to absorbingWavelengthCount.
SpecLines(s) ==
  LET c == config[s] IN
  << Line(s, "dwell", c.dwell), Line(s, "integration", c.integration),
     Line(s, "scans", c.scans), Line(s, "waves", SubSeq(c.waves, 1, c.count)),
     Line(s, "nonAbs", c.nonAbs), Line(s, "analyte", c.analyte),
     Line(s, "measure", c.measure), Line(s, "cal", SubSeq(c.cal, 1, c.count)) >>

Text(lines) == FlattenSeq([i \in 1..Len(lines) |-> Units(lines[i])])

\* What is written at the start of a file stays in front of what was longer.
Over(text, old) == text \o SubSeq(old, Len(text) + 1, Len(old))

\* One line that is read replaces the front of a list, and the count with it.
Front_(list, old) == [i \in DOMAIN old |-> IF i <= Len(list) THEN list[i] ELSE old[i]]
ReadLine(c, line) ==
  CASE line.key = "waves" -> [c EXCEPT !.waves = Front_(line.value, @),
                                       !.count = Len(line.value)]
    [] line.key = "cal"   -> [c EXCEPT !.cal = Front_(line.value, @)]
    [] OTHER              -> [c EXCEPT ![line.key] = line.value]

\* Lines whose start is lost are skipped; of those with the same key the last
\* counts.  What an empty file leaves in the line buffer is skipped as well.
ReadUnit(read, unit) ==
  LET line == unit[1] IN
  IF unit[2] # 1 THEN read
  ELSE IF line.spec = 0 THEN [read EXCEPT !.mode = line.value]
  ELSE [read EXCEPT !.config[line.spec] = ReadLine(@, line)]

Unread == [config |-> [s \in SpecIndex |-> Blank], mode |-> "MANUAL"]
readConfig(text) == FoldLeft(ReadUnit, Unread, text)

-----------------------------------------------------------------------------
\* applyConfig.

\* The pH indicator overrides what was set, and carbon modes clear what is
\* unused: one assignment after the other ...
Entry(s, j, w) == [op |-> "entry", spec |-> s, j |-> j, w |-> w]
MCPSteps(s) ==
  [j \in 1..Len(MCPWaves) |-> Entry(s, j, MCPWaves[j])]
  \o << [op |-> "force", spec |-> s, fields |-> [nonAbs |-> MCPNonAbs]],
        [op |-> "force", spec |-> s, fields |-> [count |-> Len(MCPWaves)]] >>
OverrideSteps(s, measure) ==
  (IF measure = "MCP" THEN MCPSteps(s) ELSE <<>>)
  \o (IF measure = "ANALYTE" THEN <<>> ELSE << [op |-> "rest", spec |-> s] >>)
ClearSteps(s, count) == [i \in 1..MaxAbsWaves - count |-> Entry(s, count + i, 0)]

\* ... and all of it at once: when the server starts nobody interferes.
Overridden(c) ==
  LET mcp == c.measure = "MCP"
      n == IF mcp THEN Len(MCPWaves) ELSE c.count
      w == IF mcp THEN Front_(MCPWaves, c.waves) ELSE c.waves
  IN IF c.measure = "ANALYTE" THEN c
     ELSE [c EXCEPT !.count = n,
                    !.nonAbs = IF mcp THEN MCPNonAbs ELSE @,
                    !.waves = [i \in DOMAIN w |-> IF i <= n THEN w[i] ELSE 0]]

Pixels(s, c) == [i \in DOMAIN c.waves |->
                   IF i <= c.count THEN calcPixelValueForWavelength(s, c.waves[i])
                   ELSE c.pixels[i]]

Applied(s, c) ==
  LET o == Overridden(c)
  IN [k \in DOMAIN Blank |-> CASE k = "pixels" -> Pixels(s, o)
                               [] k = "nonAbsPixel" -> calcPixelValueForWavelength(s, o.nonAbs)
                               [] OTHER -> o[k]]

\* Faulty: the mode is applied last.
applyConfig_ModeLast ==
  FlattenSeq([s \in SpecIndex |-> <<[op |-> "pixel", spec |-> s, j |-> 1],
                                    [op |-> "override", spec |-> s]>>])

\* The calls of setSpecIntegrationTimeinMilli change the devices, not the configuration.
applyConfig ==
  FlattenSeq([s \in SpecIndex |-> <<[op |-> "override", spec |-> s],
                                    [op |-> "pixel", spec |-> s, j |-> 1]>>])

writeConfigToDB ==
  << [op |-> "dataLock"] >> \o [s \in SpecIndex |-> [op |-> "copy", spec |-> s]]

writeConfigFile ==
  << [op |-> "open"], [op |-> "lock"] >>
  \o [s \in SpecIndex |-> [op |-> "print", spec |-> s]]
  \o << [op |-> "close"] >> \o writeConfigToDB

-----------------------------------------------------------------------------
\* The setters.

Put(s, fields) == <<[op |-> "put", spec |-> s, fields |-> fields]>>

PutWaves(s, w) ==
  Put(s, [count |-> Len(w)])
  \o FlattenSeq([j \in 1..Len(w) |-> << [op |-> "wave", spec |-> s, j |-> j, w |-> w[j]],
                                        [op |-> "found", spec |-> s, j |-> j, w |-> w[j]] >>])

setSpectrometerParameters(s, time, scans) ==
  Put(s, [integration |-> time]) \o Put(s, [scans |-> scans])

setAbsorbanceWavelengths(s, w) == PutWaves(s, w) \o applyConfig \o writeConfigFile

\* Faulty: saved before it is applied.
setNonAbsorbingWavelengths_SaveFirst(s, w) ==
  Put(s, [nonAbs |-> w]) \o writeConfigFile
  \o Put(s, [nonAbsPixel |-> calcPixelValueForWavelength(s, w)]) \o applyConfig

setNonAbsorbingWavelengths(s, w) ==
  Put(s, [nonAbs |-> w])
  \o Put(s, [nonAbsPixel |-> calcPixelValueForWavelength(s, w)])
  \o applyConfig \o writeConfigFile

setDwell(s, dwell) == Put(s, [dwell |-> dwell]) \o writeConfigFile

\* The block is copied over waveParameters, in the order of its fields.
setComputationDataBytes(s, b) ==
  Put(s, [analyte |-> b.analyte]) \o Put(s, [count |-> b.count])
  \o Put(s, [measure |-> b.measure]) \o Put(s, [waves |-> b.waves])
  \o Put(s, [nonAbs |-> b.nonAbs]) \o Put(s, [cal |-> b.cal])
  \o applyConfig \o writeConfigFile

setSlopeIntercept(s, cal) ==
  [j \in 1..MaxAbsWaves |-> [op |-> "cal", spec |-> s, j |-> j, cal |-> cal[j]]]
  \o applyConfig \o writeConfigFile

\* What a request does.  The labels of LSD stand for what the misaligned pointer reads.
Steps(r) ==
  CASE r.op = "SSP" -> setSpectrometerParameters(r.spec, r.time, r.scans)
    [] r.op = "SVC" -> writeConfigFile
    [] r.op = "SCP" -> setComputationDataBytes(r.spec, r.block)
    [] r.op = "LSD" -> FlattenSeq([s \in SpecIndex |-> setSlopeIntercept(s, r.cal[s])])
    [] r.op = "SMM" -> <<[op |-> "mode", to |-> r.mode]>>
    [] r.op = "specParams" -> setSpectrometerParameters(r.spec, r.time, r.scans)
                               \o applyConfig \o writeConfigFile
    [] r.op = "absWaves" -> setAbsorbanceWavelengths(r.spec, r.waves)
    [] r.op = "nonAbsWave" -> setNonAbsorbingWavelengths(r.spec, r.wave)
    [] r.op = "dwell" -> setDwell(r.spec, r.dwell)

\* What a configuration has in the file ...
Saved(s, c) == [analyte |-> c.analyte, dwell |-> c.dwell, integration |-> c.integration,
                scans |-> c.scans, count |-> c.count, waves |-> SubSeq(c.waves, 1, c.count),
                nonAbs |-> c.nonAbs, measure |-> c.measure,
                cal |-> SubSeq(c.cal, 1, c.count)]
AllSaved(cs) == [s \in SpecIndex |-> Saved(s, cs[s])]
Loaded == AllSaved(readConfig(file).config)

\* ... and in the log: some of it is copied; of the slopes there are as many as
\* wavelengths, but after the first one always the slope whose index is the
\* spectrometer's.  (If there are no wavelengths it has one number, which is unset.)
Copied(c) == [analyte |-> c.analyte, dwell |-> c.dwell, integration |-> c.integration,
              scans |-> c.scans]
LoggedSlopes(s, c) == [j \in 1..c.count |-> c.cal[IF j = 1 THEN 1 ELSE s]]
LogRow(s, c) == [config |-> Copied(c), slopes |-> LoggedSlopes(s, c)]

-----------------------------------------------------------------------------
\* The server has started, from some file that a server has written.

Init ==
  /\ config = [s \in SpecIndex |->
                 Applied(s, [Blank EXCEPT !.count = 1, !.nonAbs = MCPNonAbs,
                                          !.waves = Front_(<<434>>, @)])]
  /\ mode = "MANUAL"
  /\ file = Text(<<ModeLine>>) \o FlattenSeq([s \in SpecIndex |-> Text(SpecLines(s))])
  /\ mutex = NoThread
  /\ dataMutex = NoThread
  /\ logged = [s \in SpecIndex |-> LogRow(s, config[s])]
  /\ todo = [t \in Thread |-> <<>>]
  /\ buffer = [t \in Thread |-> <<>>]
  /\ issued = 0
  /\ closes = 1
  /\ before = AllSaved(config)
  /\ behind = [s \in SpecIndex |-> {}]
  /\ alone = TRUE
  /\ raced = {}

Idle(t) == todo[t] = <<>>
Quiet == \A t \in Thread : Idle(t)

\* A client's command, or a command of a method.
Begin(t, r) ==
  /\ Idle(t)
  /\ issued < MaxRequests
  /\ issued' = issued + 1
  /\ todo' = [todo EXCEPT ![t] = Steps(r)]
  /\ alone' = Quiet
  /\ before' = IF Quiet THEN Loaded ELSE before
  /\ raced' = IF Quiet THEN raced ELSE {"file", "pixels"}
  /\ UNCHANGED <<config, mode, file, mutex, dataMutex, logged, buffer, closes, behind>>

Step(t, op) == ~Idle(t) /\ Head(todo[t]).op = op
Continue(t) == todo' = [todo EXCEPT ![t] = Tail(@)]
Instead(t, steps) == todo' = [todo EXCEPT ![t] = steps \o Tail(@)]

unsaved == <<file, mutex, dataMutex, logged, buffer, issued, closes, alone>>

\* An assignment to a field ...
AssignField(t) ==
  /\ \E op \in {"put", "force"} : Step(t, op)
  /\ LET st == Head(todo[t])
     IN /\ config' = [config EXCEPT ![st.spec] =
             [k \in DOMAIN @ |-> IF k \in DOMAIN st.fields THEN st.fields[k] ELSE @[k]]]
        /\ behind' = IF DOMAIN st.fields \subseteq Sampling
                     THEN [behind EXCEPT ![st.spec] = {"file", "log"}] ELSE behind
  /\ Continue(t)
  /\ UNCHANGED <<unsaved, mode, before, raced>>

\* ... or to an entry of one of the arrays.  LSD is one setter after the other.
AssignEntry(t) ==
  /\ \/ /\ \E op \in {"wave", "entry"} : Step(t, op)
        /\ LET st == Head(todo[t])
           IN config' = [config EXCEPT ![st.spec].waves[st.j] = st.w]
        /\ before' = before
     \/ /\ Step(t, "cal")
        /\ LET st == Head(todo[t])
           IN /\ config' = [config EXCEPT ![st.spec].cal[st.j] = st.cal]
              /\ before' = IF st.j = 1 THEN Loaded ELSE before
  /\ Continue(t)
  /\ UNCHANGED <<unsaved, mode, behind, raced>>

\* applyConfig reads the mode of measurement and, to clear the unused wavelengths, the count.
Override(t) ==
  /\ \/ /\ Step(t, "override")
        /\ LET s == Head(todo[t]).spec
           IN Instead(t, OverrideSteps(s, config[s].measure))
     \/ /\ Step(t, "rest")
        /\ LET s == Head(todo[t]).spec
           IN Instead(t, ClearSteps(s, config[s].count))
  /\ UNCHANGED <<unsaved, config, mode, before, behind, raced>>

\* setMode does nothing if the mode is the one asked for.  Going manual it also
\* calls execMode, which resets a flag that nothing sets.
SetMode(t) ==
  /\ Step(t, "mode")
  /\ LET to == Head(todo[t]).to
     IN /\ mode' = to
        /\ Instead(t, IF to = mode THEN <<>> ELSE writeConfigFile)
  /\ UNCHANGED <<unsaved, config, before, behind, raced>>

\* The loop over the wavelengths reads one, and the count, anew each time ...
ReadWave(t) ==
  /\ Step(t, "pixel")
  /\ LET st == Head(todo[t])
         c == config[st.spec]
     IN IF st.j <= c.count
        THEN Instead(t, << [op |-> "store", spec |-> st.spec, j |-> st.j, w |-> c.waves[st.j]],
                           [op |-> "pixel", spec |-> st.spec, j |-> st.j + 1] >>)
        ELSE Instead(t, << [op |-> "storeNon", spec |-> st.spec, w |-> c.nonAbs] >>)
  /\ UNCHANGED <<unsaved, config, mode, before, behind, raced>>

\* ... and its pixel is stored once the spectrometer's mutex was had.
StorePixel(t) ==
  /\ \/ /\ \E op \in {"found", "store"} : Step(t, op)
        /\ LET st == Head(todo[t])
           IN config' = [config EXCEPT ![st.spec].pixels[st.j] =
                                          calcPixelValueForWavelength(st.spec, st.w)]
        /\ raced' = raced
     \/ /\ Step(t, "storeNon")
        /\ LET st == Head(todo[t])
           IN /\ config' = [config EXCEPT ![st.spec].nonAbsPixel =
                                             calcPixelValueForWavelength(st.spec, st.w)]
              /\ raced' = IF alone /\ st.spec = NumSpecs THEN raced \ {"pixels"} ELSE raced
  /\ Continue(t)
  /\ UNCHANGED <<unsaved, mode, before, behind>>

\* fopen "w+", before the mutex is taken.
Open(t) ==
  /\ Step(t, "open")
  /\ file' = <<>>
  /\ closes' = 0
  /\ buffer' = [buffer EXCEPT ![t] = <<>>]
  /\ Continue(t)
  /\ UNCHANGED <<config, mode, mutex, dataMutex, logged, issued, before, behind, alone, raced>>

Lock(t) ==
  /\ Step(t, "lock")
  /\ mutex = NoThread
  /\ mutex' = t
  /\ buffer' = [buffer EXCEPT ![t] = Text(<<ModeLine>>)]
  /\ Continue(t)
  /\ UNCHANGED <<config, mode, file, dataMutex, logged, issued, closes, before, behind, alone,
                 raced>>

PrintSpec(t) ==
  /\ Step(t, "print")
  /\ LET s == Head(todo[t]).spec
     IN /\ buffer' = [buffer EXCEPT ![t] = @ \o Text(SpecLines(s))]
        /\ behind' = [behind EXCEPT ![s] = @ \ {"file"}]
  /\ Continue(t)
  /\ UNCHANGED <<config, mode, file, mutex, dataMutex, logged, issued, closes, before, alone,
                 raced>>

\* Faulty: the mutex is not given back.
Close_KeepMutex(t) ==
  /\ Step(t, "close")
  /\ file' = Over(buffer[t], file)
  /\ closes' = closes + 1
  /\ raced' = IF alone THEN raced \ {"file"} ELSE raced
  /\ Continue(t)
  /\ UNCHANGED <<config, mode, mutex, dataMutex, logged, buffer, issued, before, behind, alone>>

Close(t) ==
  /\ Step(t, "close")
  /\ file' = Over(buffer[t], file)
  /\ mutex' = NoThread
  /\ buffer' = [buffer EXCEPT ![t] = <<>>]
  /\ closes' = closes + 1
  /\ raced' = IF alone THEN raced \ {"file"} ELSE raced
  /\ Continue(t)
  /\ UNCHANGED <<config, mode, dataMutex, logged, issued, before, behind, alone>>

logging == <<config, mode, file, mutex, buffer, issued, closes, before, alone, raced>>

\* Faulty: the rows of two saves mix.
LockData_NoLock(t) ==
  /\ Step(t, "dataLock")
  /\ Continue(t)
  /\ UNCHANGED <<logging, logged, behind, dataMutex>>

LockData(t) ==
  /\ Step(t, "dataLock")
  /\ dataMutex = NoThread
  /\ dataMutex' = t
  /\ Continue(t)
  /\ UNCHANGED <<logging, logged, behind>>

\* getConfigCopy, under writeConfigMutex.
CopyConfig(t) ==
  /\ Step(t, "copy")
  /\ mutex = NoThread
  /\ LET s == Head(todo[t]).spec
     IN /\ Instead(t, << [op |-> "log", spec |-> s, copy |-> Copied(config[s])] >>)
        /\ behind' = [behind EXCEPT ![s] = @ \ {"log"}]
  /\ UNCHANGED <<logging, logged, dataMutex>>

\* The slopes are not taken from the copy.
LogConfig(t) ==
  /\ Step(t, "log")
  /\ LET st == Head(todo[t])
     IN /\ logged' = [logged EXCEPT ![st.spec] =
                        [config |-> st.copy,
                         slopes |-> LoggedSlopes(st.spec, config[st.spec])]]
        /\ dataMutex' = IF st.spec = NumSpecs THEN NoThread ELSE dataMutex
  /\ Continue(t)
  /\ UNCHANGED <<logging, behind>>

Work(t) == \/ AssignField(t) \/ AssignEntry(t) \/ Override(t) \/ SetMode(t) \/ ReadWave(t)
           \/ StorePixel(t) \/ Open(t) \/ Lock(t) \/ PrintSpec(t) \/ Close(t)
           \/ LockData(t) \/ CopyConfig(t) \/ LogConfig(t)

\* The process dies, in whatever it does, and starts again: main reads the
\* configuration and applies it before there are other threads.  (A data file
\* that is opened later gets the configuration of the start first.)
Restart ==
  /\ LET read == readConfig(file)
     IN /\ mode' = read.mode
        /\ config' = [s \in SpecIndex |-> Applied(s, read.config[s])]
  /\ logged' = [s \in SpecIndex |-> LogRow(s, config'[s])]
  /\ todo' = [t \in Thread |-> <<>>]
  /\ buffer' = [t \in Thread |-> <<>>]
  /\ mutex' = NoThread
  /\ dataMutex' = NoThread
  /\ before' = Loaded
  /\ behind' = [s \in SpecIndex |-> {}]
  /\ alone' = TRUE
  /\ closes' = 0
  /\ raced' = raced \ {"pixels"}
  /\ UNCHANGED <<file, issued>>

-----------------------------------------------------------------------------
\* Properties.

TypeOK ==
  /\ config \in [SpecIndex -> Config]
  /\ mode \in {"MANUAL", "PROGRAM"}
  /\ {mutex, dataMutex} \subseteq Thread \cup {NoThread}
  /\ \A t \in Thread : buffer[t] # <<>> => mutex = t
  /\ issued \in 0..MaxRequests
  /\ raced \subseteq {"file", "pixels"}
  /\ behind \in [SpecIndex -> SUBSET {"file", "log"}]

\* Where two records of the same fields are not alike, and where SSP leaves the
\* file, or the log, behind the memory.
Differ(a, b) == {k \in DOMAIN b : a[k] # b[k]}
Unsaved(s, what) == IF what \in behind[s] THEN Sampling ELSE {}

\* Once all requests are done the file says what memory holds, whoever saved
\* when, as long as only one save ended after the file was truncated (the
\* others' text was lost before it got there), and but for the sampling that
\* SSP has set since: it saves nothing.
SavedIsMemory ==
  Quiet /\ closes = 1 =>
    LET read == readConfig(file) IN
    /\ read.mode = mode
    /\ \A s \in SpecIndex :
         Differ(Saved(s, read.config[s]), Saved(s, config[s])) \subseteq Unsaved(s, "file")

\* Once all requests are done, the last row of a spectrometer in the data file
\* has what memory has, but for the sampling that SSP has set since: it logs
\* nothing.  The rows of two clients may be half done, and the slopes newer
\* than the rest, but never in the last row.  (Of the slopes, those that
\* LoggedSlopes takes.)
LoggedIsMemory ==
  Quiet =>
    \A s \in SpecIndex :
      /\ Differ(logged[s].config, Copied(config[s])) \subseteq Unsaved(s, "log")
      /\ logged[s].slopes = LoggedSlopes(s, config[s])

\* At whatever moment the process dies, the next one starts, for each
\* spectrometer, with what it would have started with before the setter that
\* runs, or with what the setter has made of the configuration, or with none:
\* never with a part of it.  (Of requests that run one at a time; LSD is two
\* setters.)
OldNewOrNothing ==
  "file" \notin raced =>
    LET loaded == Loaded
    IN \A s \in SpecIndex : loaded[s] \in {before[s], Saved(s, config[s]), Saved(s, Blank)}

\* Once the requests, one at a time, are done, each wavelength that is in use
\* has the pixel of its spectrometer that belongs to it, also the wavelengths
\* the pH indicator put in the place of the client's.
PixelsFollow ==
  Quiet /\ "pixels" \notin raced =>
    \A s \in SpecIndex :
      LET c == config[s]
      IN /\ \A i \in 1..c.count : c.pixels[i] = PixelBefore(Lambda[s], c.waves[i])
         /\ c.nonAbsPixel = PixelBefore(Lambda[s], c.nonAbs)

=============================================================================
