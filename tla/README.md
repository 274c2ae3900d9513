# SEASServer in TLA+

SEASServer is the daemon of the MSEAS instrument: it drives pumps, a heater, a lamp,
a CTD and two USB4000 spectrometers, serves GUI clients over TCP, executes method
files and logs measurements to an SQLite file. This directory models its own logic,
checks it with TLC and proves theorems about it with TLAPS. Paths are relative to
`src/SEASServer/`.

## Inventory

The process (`main.cpp`) has one thread per connected client (up to ten), one for the
CTD sink, one that drains the LON port, and the autonomous method runner. All
components are C files with file-scope state that those threads share; they call each
other directly, under mutexes of their own. No component calls back into another one.

| component | state | operations | called by |
|---|---|---|---|
| Peripheral control (`SEASPeripheralCommands.c`) | `status` record, GPIO lines, `periphPMMutex` | pumps and heater on/off, percent, set point, lamp, queries, dwelled CTD value | GUI handlers, method commands |
| LON link (`LONDispatch.c`) | serial port, port mutex, draining dispatcher | connect, send a command and read its answer, drain | peripherals, CTD sink |
| CTD sink (`CTDSink.cpp`) | bounded map of readings, `mapMutex`, query thread | add, closest reading | data file, spectrometer manager |
| Method graph (`MethodParser/*`, `methodFileManager.c`) | node list, `head`, `current`, control stack, `nodesMutex`, `traversingNodes` | build, close, walk, clear, stop | parser, EXM and TRM handlers |
| Method files (`methodFileManager.c`, `methodFileRunner.c`) | files on disk, active name, `executingMethod` | upload, list, send, select, delete, autonomous start/stop | GUI handlers, `execMode` |
| Data file (`dataFileManager.c`) | `db`, `currConfigID`, `dataMutex` | open, close, log configuration, write concentrations, pH, spectra | methods, setters of the configuration, SIGTERM |
| Configuration (`config.c`, `configManager.c`) | `config[]`, `mode`, the file, `writeConfigMutex` | read, apply, save, setters, getters, mode switch | GUI handlers, methods, everybody who measures |
| Bench configuration (`benchConfig.c`) | `benchConfig`, the file, a mutex | read, write, receive, send, getters | GUI handlers, `initPeripherals` |
| Spectrometer manager (`USB4000Manager.c`, `../USB4000Gum`) | two devices with dark, reference and current sample, `specsMutex` | sampling, absorbance, concentrations, run messages | GUI handlers, methods, data file |
| Run protocol (`runProtocolManager.c`) | a table of responses | one message per method command | the execution loop |
| Server (`main.cpp`, `parseGUI.c`) | connections in thread bins, listening socket | start-up, accept, dispatch, SIGTERM | |
| Numerics (`absorbanceCalculation.c`, `carbonCalc.c`, `salinity.c`) | the last pH calculation | formulas | spectrometer manager, data file |
| Battery (`overoADC.c`), byte helpers (`globalIncludes.c`) | none | device read; hex dump, byte reversal | GUI handlers; LON link |

What is hard in it:

- **Interleaving.** Every component is called by several clients at once, and many tests
  of shared state are outside the mutex that protects it (`db` before `dataMutex`,
  `status` before `periphPMMutex`, the head of the method list before `nodesMutex`).
- **Order of hardware steps.** A LON node hears commands only while powered and forgets
  its settings without power; it takes a second to boot. Pumps in pairs share a node.
- **Operations in sections.** A measurement is three INSERTs in three sections, with the
  ids carried between them in locals; a run message reads three sections of the
  spectrometer mutex.
- **Failure.** INSERTs fail, disks are full, USB transfers fail, LON answers are lost or late, the CTD does not answer, scans
  fail, connections are lost during an upload, threads cannot be made, files are truncated
  before they are written, and the process may die in between.
- **Bounds.** The control stack, the CTD map, the thread bins, 16-bit and unsigned
  counters.

What makes each component correct:

- peripherals: a node is powered iff one of its pumps is commanded on; no pump loses its
  power while it runs; when the requests are done the hardware is as the server remembers;
- method graph: walking it is executing the text; nothing freed is used; every
  execution ends;
- data file: each row refers to the configuration, reading and set of its own measurement;
- CTD sink: the newest readings are kept, and the one closest to the moment asked for is returned;
- LON link: an answer belongs to the command it is returned for, and no caller waits for ever;
- configurations: what is on disk is a configuration that was in memory, whenever it is read,
  and the last row of the log has what measurements are made with;
- spectrometers: each is the configured device; the numbers of one message stem from one
  sample, and none from a freed one;
- acquisition: bytes, means, filter and baseline give the numbers they stand for;
- method files: what was acked is what is read, executed and found after a restart;
- server: a connection that is accepted is served while there is a bin, no command is lost,
  SIGTERM ends the process.

`PROJECT.json` lists every hazard at its line with the properties that watch it.

## Modules

`Peripherals` · `SEASPeripheralCommands.c`. A request (a GUI handler or method command)
is expanded to the primitive steps of its C functions, kept in `todo[t]`. One step is one
critical section, one access to shared state outside of one, or one LON command (which
holds the port's mutex from the write to the answer). The variables `pumpStatus`,
`pumpPercents`, `heaterStatus` and `heaterSetTemp` are `status`; `power` is the GPIO lines;
`mutex` is `periphPMMutex`, held across the two halves of `switchPumpNode`
(`SwitchPump`, `SwitchPumpGPIO`). The nodes are hardware, modelled from what the code
expects of them: `booting` names the thread whose one-second sleep covers the boot, and a
command meanwhile may or may not be heard. `MCPeripherals` has the menus of requests,
`PeripheralsProofs` the theorems.

`MethodNodes` · the method graph and the two handlers. Nodes are never reused: a pointer is
an index in `nodes`, and `freed` are those given back, so that a use after free shows. The
fields `stmt` and `run` of a node are not in the code and no action reads them; they say which
statement a node was built from. `ReadHead` .. `ResetHead` are `clearNodes`,
`AddCommandNode`, `AddControlNode` and `CloseControlNode` the actions of the grammar, and
`Fetch` .. `Finish` the loop of `receiveExecuteMethod`. `MethodText` is the abstract
specification: an interpreter that walks the text of the method, with no graph and no stack.
`MethodNodes` implements it (`ExecutesText == Walk!TSpec`, the position in the text and the
counters read off the graph). `MethodProofs` has the theorems: what is freed is
not used, and the graph is the text.

`DataFile` · `dataFileManager.c` with the setters of `config.c` that log. A file is what it
was opened as: a second. Contents are labels that say what a row was measured with and by
whom. Each section of `dataMutex` is an action; `writeConfigToDB` holds the mutex over several
rows, the only place where `mutex` outlives a step. `Failing` says which INSERTs may fail.
`broken` is the handle that a failed `sqlite3_open` leaves, which is not NULL and of no use. A row of the
configuration is the version it was made of: which fields it holds, and which it does not, is in
`ConfigStore` (`LogRow`).
`DataFileProofs` has the theorems.

`CTDSink` · `CTDSink.cpp` and `getDwelledCTDValue`. A reading is its time. `Query`, `Store`
and `WakeUp` are the query thread; `Ask`, `Log`, `Return` the two calls of one dwelled read.
Dereferencing the NULL of an empty map (`Log`) stops the process (`crashed`). `CTDSinkProofs` has
the theorems.

`LONLink` · `LONDispatch.c`. A byte is the command it answers, the kind of answer and its
place in it. `Call` and `Write` are `sendLONCommand` up to the answer; `ReadHeader`,
`ReadData` and `ReadLast` are `readLONResponse` for each byte that `readByte` finds, `GiveUp` for
the byte it does not find; `Drain` is one turn of the dispatcher, `Arrive` the serial line. The
LON answers with an acknowledgement, another byte or a frame, all of it or only its start, early
or late, and may send something of its own accord (`Unasked`). `dirty` is a history variable: a read gave up, or
something came unasked, since the port was last clean. `LONLinkProofs` has the theorems.

`ConfigStore`, `BenchConfig`, `Settings` · `config.c` with the commands of `configManager.c`,
`benchConfig.c`, and the two together. A request is expanded to steps in `todo[t]`
(`benchTodo[t]`): an assignment to one field or entry of an array (`AssignField`, `AssignEntry`), also those of
`applyConfig` (`Override`, `ReadWave`, `StorePixel`), `Open`, `Lock`, the lines of one spectrometer, `Close`, and then the log
(`LockData`, `CopyConfig`, `LogConfig`). The setters take no mutex, so each assignment is a step. The file is a sequence of units: a line
is its key and value, and takes as many units as it has numbers. `Open` truncates it before
the mutex is taken; `Close` writes the buffer over the start of whatever is there by then and
gives the mutex back. The log is a row for each spectrometer, written under `dataMutex`; it has a
copy of the analyte, the dwell, the integration time, the scans and the boxcar (`Copied`), and slopes that are read
after that copy, outside of `writeConfigMutex` (`LoggedSlopes`, with the index the code uses). No
wavelengths and no mode are logged: the code for them is commented out. `BenchConfig` opens inside its mutex. `Restart` is a crash at any
moment and the next start, which reads what is there. `before`, `behind`, `alone`, `closes` and `raced` are
history: what the file said before the setter that runs, what (file or log) has not got the sampling that SSP set, whether
only one request runs, how many saves closed the file since it was truncated, and what two requests at a time
may have mixed. `SettingsProofs` has the theorems.

`Absorbance`, `Acquisition` · the numbers of one device: `absorbanceCalculation.c` as pure operators,
and the driver `../USB4000Gum/USB4000Gum.c` from `swapBytes` to `boxcarFilter`, which are what the
actions are built of. A byte has `ByteSize` values, so that all counts of two bytes can be had; a
mean is rounded down; `satScale` is a whole number; an absorbance is the fraction that it is the
logarithm of. `PixelBefore` is the definition by sets that the pixel search is checked against. The
assumptions are what the driver relies on: an integration time fits four bytes, `numPixels` a short, there
is a dark pixel and one behind the dark ones. A transfer to or from the device may fail, which the code
does not notice: then the device keeps its time, or the status is read from whatever the buffer has; `intact` is
the history variable that says whether the last ones were made. `SettingsProofs` has the theorems of `Acquisition` in its last part.

`Spectrometer` · `USB4000Manager.c` over the same driver: who may read and free a sample. Recordings are
numbered, and the number stands for the buffer and all that is calculated from it. `main` looks for
the devices on the bus (`PassDevice`, `ClaimDevice`), asks each it has claimed for its serial number, releases it
(`ReleaseDevice`) or keeps it (`TakeDevice`), and disconnects at the end. SCP, LSD and the setters of methods set the integration time
of all spectrometers, through `applyConfig`.
The threads' requests are expanded to sections of `specsMutex`, scans that may fail, frees,
copies, and the parts of a run message or row, which are read one by one. `live` are the buffers allocated;
`misused` says that a freed one was read or freed. `lastCalc` is the last pH, which `carbonCalc.c` keeps
for all spectrometers. `sent` and `disturbed` are history. `SpectrometerProofs` has the theorems.

`Server` · `main.cpp` and the dispatch of `parseGUI.c`. `phase` and `at` are the main thread,
`handler` the signal handler, which runs on it and stops it. A connection is `pending` until it is
accepted; `SkipBin`, `TakeBin` and `DropConnection` are the scan of the bins. Threads are never joined, so
that `MaxThreads` of them use up what the system has, and descriptors run out at `MaxFds`. A
command is the steps that need `dataMutex` or `specsMutex`, the two mutexes that the
main thread takes; the other modules have what it does. Clients wait for the ack of a command, and
for the end of a method, before they send the next one; TRM has no ack and may come at any time.
An autonomous method is a thread of its own (`Runner`).

`MethodFiles` · the handlers of `methodFileManager.c`. A file is named by `dir` and has its contents in
`data`: a deleted or replaced file goes on as long as a stream has it open. What is written stays in the
stream's buffer until that is full or the stream is closed; a connection that is lost leaves the
stream open (`left`), to be flushed when the process exits, not when it crashes. The disk may be
full: a file is not created (`CannotCreate`), or what was to be written is dropped and the upload acked all the same
(`LosePiece`, `LoseLast`). The selection is
a file that is truncated and then written; an exit in between may still write it. The empty name, read in between, opens
the directory, and the generated lexer ends the process on it. `MethodProofs` has the theorems.

In `MethodNodes` the stack of open control nodes is an array with a length, as in
`MethodNodesStack.c` (`stackPush`, `stackPop`, `stackIsFull`); a method that would push beyond it is
left out, since what the code then overwrites is undefined.

The operators named `X_Something` before some definitions are plausible wrong versions of the
definition they precede. No specification uses them; substituted for the right one, each
makes TLC find the property it belongs to violated.

## Runs

| run | shows | bounds, and why they are enough |
|---|---|---|
| `two_clients` | `NodePowered`, `PumpAgrees`, `HeaterAgrees`, `RunningIsCommanded`, `NoPowerCut`, `RequestsComplete` | Two threads, because a race needs two and each section is one step; a shared node and a private one; percents in and out of range, and two set points. |
| `one_client` | `NoDangling`, `ExecutesText`, `MethodCompletes` | Three executions in a row of eight methods: straight, nested, empty, adjacent and zero loops, delays, unclosed loops. Two predecessors are enough for leftovers on leftovers. The unsigned counter wraps at 4, so that a zero count does end. |
| `one_writer` | `ConfigLabels`, `ReadingsBelong`, `ValuesBelong`, `CallsReturn` | Three calls of the method's thread (open, configure, measure; or open, open again, measure) with two of another client, two spectrometers, two seconds: with one second both files are one. |
| `newest` | `KeepsNewest`, `AdjacentReading` | A sink of three over seven seconds, dwells of 0, 2 and 5: inside, at the edge of and beyond what it holds. |
| `closest` | violation of `Closest` | The same. |
| `settings` | `SavedIsMemory`, `LoggedIsMemory`, `OldNewOrNothing`, `PixelsFollow`, `BenchSaved`, `NobodyStuck` | Two requests of two clients, after each other or at once, of ten that make the list of wavelengths longer and shorter, go in and out of the pH mode and set sampling, slopes and analyte, or that save one of two bench values; two spectrometers of different calibration; one crash at any moment, before or after which the other request may come. Clients are interchangeable; all six are invariants, for which the symmetry is sound. Requests have finitely many steps, so that `NobodyStuck`, that somebody can always go on, means that each of them returns. |
| `measure` | `TypeOK`, `OwnDevices`, `NoFreedSample`, `FreshMessages`, `OneSample`, `RequestsReturn` | Three requests: one that records, one that reads and one that comes between the sections; samples of two scans, so that one may fail after another succeeded; on the bus a foreign device, an unwanted spectrometer, and the wanted ones in the wrong order, so that a device is claimed and released for the first spectrometer before it is taken for the second. |
| `thread_safe` | violation of `ThreadSafe` | One client records, another sets the integration time, of one spectrometer or of all. |
| `serve` | `OwnBin`, `ServesWhileFree`, `StaysUp`, `NoLostCommand`, `ExitsOnTerm` | Three connections for two bins: one is dropped or finds a bin that was given back. Two threads, so that the third is not made; three descriptors, so that a dropped connection can use up the last. Two messages of the clients (a TRM and a command, or a method and its TRM) or one and the autonomous method. Clients are numbered in the order in which they connect. |
| `files` | `StoredWhole`, `ReadsStored` | Four requests of two clients: upload, select, overwrite, execute. Uploads of up to three pieces with a buffer of one: what is lost in a buffer, what was flushed, and what is written last; a disk that is full at any of them. One restart. Clients and names are interchangeable; both properties are invariants, for which the symmetry is sound. |
| `acquisition` | `TimeKept`, `SmoothedWithin`, `DimmedNotAbsorbed` | Thirteen pixels of which two are dark and one is neither: a filter of nine has a start, a middle and a tail, 1 is no filter. An integration time of four digits (2741 = 5265 in base 8), besides the 0 before it is told. Up to two scans of four exposures, of which the brightest counts do not fit a short. |
| `late_answers` | `CleanBetween`, `OwnAnswer`, `CommandReturns` | Three commands of two threads, or fewer and something that comes unasked: one that gives up, one that finds the leftovers, one more. Frames of five bytes, the shortest there are; leftovers that read as a length read as 3 (an overrun) or 7 (more than comes). |

`two_clients`, `one_client` and `acquisition` check for deadlock. The others say
`CHECK_DEADLOCK FALSE`: there the model stops where its bounds are reached (`MaxCalls`, `MaxClock`,
`MaxRequests`, `MaxRuns`, `MaxCommands`), or where the process has ended (`Server`, `MethodFiles`, `Spectrometer`).
The type invariants of `Peripherals`, `LONLink`, `DataFile`, `Spectrometer` and `MethodFiles` are proved; the others
that no run lists document the variables.

What the properties do not promise, because the code does not:

- `ConfigLabels` is checked with INSERTs that fail for measurements, not for configurations: the
  code records `sqlite3_last_insert_rowid` as the configuration's id whether or not its row was
  written. `one_writer` has one thread that opens files and one that configures the
  spectrometer being measured, as the comment in `methodFileRunner.h` promises
  (the code does not keep the promise: Disagreements).
- `PumpAgrees` and `HeaterAgrees` are about nodes that one client drives, over a link that loses
  nothing: a second client may enable its pump while the first still sleeps for the node's boot, and a
  NAK is only logged. `NodePowered` holds whatever is lost, and is proved so.
- `SavedIsMemory` holds once no request runs and if one save closed the file since it was truncated last: two at
  once may leave both texts in it. It, and `LoggedIsMemory`, except the integration time, the scans and the boxcar
  from an SSP on until another request has printed, or copied, them: SSP changes what measurements are made with
  and neither saves nor logs it (`config.c:323`).
- `LoggedIsMemory` is about the fields that the code logs, and of the slopes about those it takes; that they are not the
  ones of the wavelengths is a disagreement. They are read in one step: that the number of wavelengths changes
  between `getSlopes` and the loop, so that numbers behind the array are logged, is not modelled, nor is what a row has
  without any wavelength (an unset number).
- `OldNewOrNothing` and `PixelsFollow` hold for requests one at a time.
- `NoFreedSample` is checked with one client on the spectrometer whose integration time is set
  by SSP
  (`thread_safe` shows two, and what applies the configuration).
- `StoredWhole` and `ReadsStored` leave out what the disk had no room for, and every file that two streams had
  open for writing at once (`contested`). That is more than two clients that upload the same name together: a client
  that loses its connection, uploads the same name again and is acked has that file flushed over by the old stream when the server
  exits. So the properties say that such a stream harms nobody else's file and no file that has replaced its own, and not that an
  upload that was repeated stays. `ReadsStored` expects nothing either of who executes while the selection is
  being written: that the empty name it may find ends the process is in the model, and no property catches it.
- `OwnAnswer` and `CleanBetween` are about a line on which no read has given up and nothing came unasked since it
  was last clean (`dirty`). Which answer the next command takes then, and what a length that is misread overruns, they do not say.
- `AdjacentReading` is what is left of "the closest value", which `closest` shows not to be what the code returns: one of the
  two readings around the moment asked for.
- `TimeKept` is about the last setting whose transfers were made: none is tested.
- `NoLostCommand` leaves out what comes right after a TRM: both may be received together, and
  only the first command in a buffer is handled.
- `DimmedNotAbsorbed` is about counts below 2^15, and about corrections that divide every count of the
  instance by one number without rest (`Exact`, which the run's coefficients are assumed to do: a correction
  that bends would not dim as the light does). `SmoothedWithin` is about odd widths.
- `ExitsOnTerm` is about SIGTERM before the server has begun to disconnect by itself.

**Fairness.** Each thread's own steps are weakly fair in `Peripherals`, `MethodNodes`,
`Spectrometer` and `Server`: the kernel schedules every thread, a blocked one is woken when the mutex is
free, and the calls of the USB driver have time limits. In `Server` the main thread and the signal
handler are threads like the others. In
`DataFile` and `LONLink` it is strong: a waiting thread is not passed over for ever while others
lock and unlock. `LONLink` also supposes that what the LON has sent arrives in the end. Nothing is
assumed of clients (no fairness of `Issue`, `Execute`, `Begin`, `Call`, `Connect`, `Send`, `Leave`), of time (`Tick`),
of signals, crashes or the dispatcher. `RequestsComplete` supposes that clients stop asking at some time, and
so needs no fairness of the lock. `Settings`, `MethodFiles`, `Acquisition` and `CTDSink` are about safety
only, and assume none.

**Disagreements.** The two violating runs are disagreements of the code with its own comments,
quoted under "findings": the integration time is set without the mutex (`thread_safe`), and the
reading that is returned is not the closest (`closest`). Others were seen while modelling and have no run.

- Two clients execute at once, on one graph: `executingMethod` is never set, and EXM does not test it
  (`methodFileManager.c:297`, against "Can only run one method file at a time by design" in `methodFileRunner.h:1`).
  With two `Executor`s the model does so.
- The slopes and intercepts that are logged are not those of the wavelengths: after the first the row repeats the one whose index is
  the spectrometer's (`dataFileManager.c:128`, against "Store slopes" at `:121`).
- An upload that had no room on the disk is acked and logged as stored (`methodFileManager.c:98`, against the message at `:103`).

- `status.heaterStatus` is written after the mutex of the switch was given back
  (`SEASPeripheralCommands.c:131`, against the comment of `:126`): on and off at once can leave the heater
  recorded off and powered. `setHeaterTemp` (`:265`) tests it and powers the heater again if another
  client switched it off in between.
- A percent of 6554 is accepted as 4: it is multiplied by ten and cut to 16 bits before it is compared (`SEASPeripheralCommands.c:413`).
- TRM of another client than the one that executes does not end the execution
  (`methodFileManager.c:355`, against `GUIprotocol.h:46`).
- `stackPush` reports a full stack and pushes all the same, beyond the array
  (`MethodParser/MethodNodesStack.c:55`); `closeControlNode` returns with `nodesMutex` if there is nothing to close
  (`MethodParser/MethodNodesTable.c:183`), and the next statement waits for ever; a method with an open loop is
  executed although `getHeadNode` says that it checks for a closed execution path
  (`:223`); once a loop or a delay was parsed no node is ever freed again (`:122`).
- The last message of a delay reports its full length (`runProtocolManager.c:63`).
- `openDataFile` tests `db` outside its mutex (`dataFileManager.c:56`, against the message at `:69`): two
  threads that open at once lose a connection.
- A frame whose checksum never came is returned as complete, because `readByte` says -1 and `if`
  takes it for true (`LONDispatch.c:190`); after a read gave up the next command takes the late answer for its
  own.
- SSP changes the configuration and neither saves nor logs it (`config.c:323`).
- If `sqlite3_open` fails the handle it leaves is taken for an open file (`dataFileManager.c:60`); if a method file
  cannot be created its client gets no answer at all (`methodFileManager.c:112`).
- A lost connection leaves the stream of an upload open (`methodFileManager.c:111`), to be flushed at the exit over whatever the
  same client has uploaded there since.
- The answer to an upload is an ACK (`methodFileManager.c:71`, against the comment of an LRM), and what follows the name in the
  first message is thrown away (the code for it is commented out, `:74`).
- `getWavelengths` returns NULL, because the variable it fills hides the one that it returns
  (`USB4000Manager.c:107`).
- The test that would log that all bins are taken, `i > NUM_THREADS`, is never true (`main.cpp:252`). The
  list_s that the signal handler closes is another variable than the socket of `main`; it is 0, and
  right only because the daemon has closed its standard input. An
  autonomous method has the connection -1, which `if(connection)` takes for a client.
- SIGTERM that comes while the main thread disconnects the spectrometers can deadlock: the handler waits for
  `dataMutex`, whose holder may wait for the spectrometer's mutex.
- The boxcar filter counts pixel i+M+1 in place of pixel i for the first M pixels, and for even widths divides
  2M+1 values by 2M (`../USB4000Gum/USB4000Gum.c:472`). `newPixel` is a short: counts from 2^15 on are
  negative (`:572`). `swapBytes` swaps each pair twice for an even number of bytes (`:286`), which
  sends the little-endian bytes that the device expects. The saturation level is put together from signed chars
  (`:274`), and `initDevice` fails if its fifth attempt to read it succeeds (`:271`).

## Proofs

The theorems are about the specifications for all values of their constants, under the ASSUMEs that
the modules name (`...Assumption`) and the hypotheses given here.

`PeripheralsProofs`, for all sets of threads, any number of pumps and pumps per node, any menu and, in the
first three, whether or not commands are lost:

- `Typing`: `Spec => []TypeOK`. The work is that every step a request is expanded to is in
  `Step`, with its locals in their ranges (`SwitchSteps`, `HeaterSequences`,
  `RequestSequences`, `StepType`).
- `NodePower`: `Spec => []NodePowered`, a node is powered iff one of its pumps is commanded on
  while nobody is inside `switchPumpNode`.
- `OneInSwitchPumpNode`: `Spec => []OneSwitches`.
- `CommandedWhenRunning`, `PowerKept`: `Spec => []RunningIsCommanded` and `Spec => NoPowerCut`, if no command
  is lost and each pump is switched by one thread at most (`Owned`). Both hypotheses are needed: a lost
  command leaves a pump running that is recorded off, and so does a second thread that records a pump off
  after the first has powered it and before it enables it, if another pump of the node keeps the power on.
- `PumpsAgree`: `Spec => []PumpAgrees`, if no command is lost; the property is about the pumps whose node one
  thread drives (`PrivateNodes`), whatever the others do elsewhere.
- `HeaterIsAgreed`: `Spec => []HeaterAgrees`, if no command is lost and one thread at most drives the heater (`Sole`).

`NodePowered` is not inductive. `PowerInv` strengthens it with what holds inside
`switchPumpNode`: the holder of the mutex is in its second half, alone (`Shape`), and then
the power of that node is what the holder noted before it changed `pumpStatus` (`PowerOf`). Every
other step leaves `power` of the pump nodes, `pumpStatus` and the mutex alone
(`FreeContinue`); the heater has a node of its own (`PumpNodes`).

The other three are about what a thread has still to do. `RunsInv` says of each pump that what runs is awake
(powered and past its boot, so that a command reaches it), that it does not run when it is about to be switched
off, and is commanded on when it is about to be enabled; `SwitchOrder` has the order of the steps that this
rests on. `AgreesInv` adds for a private node that what is not yet so is still to come: a pump that is commanded on
runs, or is still to be enabled (`Enabled`), at its percent, or a percent is still to be sent (`LevelSent`); who
powered the node sleeps until it has booted (`Boots`); and what a thread has just read or recorded holds until it
acts on it (`Current`). `HeatInv` is the same for the heater, whose functions test, switch, record and send
in separate steps.

`LONLinkProofs`, for any threads, number of commands, frame length and misread lengths:

- `Typing`: `Spec => []TypeOK`.
- `Cleanliness`: `Spec => []CleanBetween`, between two commands nothing is left on the line.
- `Answers`: `Spec => OwnAnswer`, a command reads its own answer in order and overruns nothing.

The last two hold until a read gives up or something comes unasked (`dirty`). What makes them inductive is to look at the whole
`Flow` of a command: the bytes it has read, then the port, then the wire. Reading and arriving
move bytes inside the flow (`MoveByte`, `Associative`) and leave it as it was; it is the start of the
answer to the last command (`OwnStart`), so that its third byte makes the length known and its last
byte is the last on the line. `LineInv` adds that the mutex is held exactly by who reads.

`ServerProofs`, for any number of connections, bins, descriptors, threads and messages,
whatever fails and whenever SIGTERM comes:

- `BinsAreOwn`: `Spec => []OwnBin`. That bins are not shared depends on where the main thread is: the
  connection it looks for a bin for is accepted and has no thread (`Sought`), a connection that is not
  accepted has none (`Accepted`), and nobody has before it serves (`NotYet`). A thread gives up its bin in one
  step (`BinFreed`), and `TakeBin` takes a bin that is available, which by `OwnBin` nobody has.
- `CommandsArrive`: `Spec => []NoLostCommand`. What is acked is the last message in its inbox, and its
  client waits for the ack (`AckedLast`); while a method runs its client waits for the end (`WaitsForEnd`). So one
  recv returns TRMs before at most one command, and the poll of a running method finds only TRM.
- `ServedWhileFree`: `Spec => []ServesWhileFree`. Threads give bins back while main scans, so what is free
  changes under the scan. `ScanInv` looks at the bins that were free when the connection was accepted: they still
  are, or are wasted on a connection whose thread could not be made, and those that main has passed are wasted
  (`PassedOver`), because a bin is unavailable only for one of two reasons (`Reasons`).
- `StaysUpWhileServed`: `Spec => []StaysUp`. `UpInv` accounts for the descriptors: one that is open belongs to a
  dropped connection, to one that has a bin, or to the one that main looks for a bin for (`Accounted`). Those with a bin
  are no more than the bins (`HoldersFit`), so what runs out was used up by the dropped ones.

`CTDSinkProofs`, for any `SINKLIMIT`, any readers, dwells and time:

- `Newest`: `Spec => []KeepsNewest`. `SinkInv` adds `InOrder`: a reading is taken after the sleep that
  follows the one before, so it is later than every reading stored. What `AddNode` discards from a full sink
  is then older than what stays and what comes (`AddNodeKeepsNewest`).
- `Adjacent`: `Spec => AdjacentReading`, a reader is given a reading of the sink, and none lies between it and its
  time. Of the sink as it is at the second call that is what the search does (`AdjacentAnswer`); that there is a
  reading at all is so because the first call has found one, and a sink never empties (`Filled`). The
  least and the greatest of a set of times exist because the order of Nat is well-founded
  (`LeastExists`).

`DataFileProofs`, for any threads, menus, number of spectrometers and time, and whichever INSERTs fail:

- `Typing`: `Spec => []TypeOK`. `FileInv` adds that whoever logs a configuration does it in an open file
  (`Places`) and that the tables are finite (`Finite`), so that the next row has a number.
- `ReadingsAreOwn`, `ValuesAreOwn`: `Spec => []ReadingsBelong` and `Spec => []ValuesBelong` where
  `OneWriter(w)`: all others only close, configure and tune. The ids that `w` holds between two sections are of
  rows it has written to the file that is open, or none is open (`WriterInv`); others close that file but open
  no other (`OwnOthers`), and rows are only appended (`Appended`), so `RowsBelong` stays. With two
  writers the file may be another when the id is used; the run `one_writer` has one for that reason.
- `ConfigsAreOwn`: `Spec => []ConfigLabels` where besides nobody else changes a configuration that `w`
  measures with, `w` logs its own changes (`OwnConfigs`), and the rows of configurations can be written. A label is
  right only if memory, `currConfigID` and the file agree at three places, the argument read before the
  mutex among them. `LabelInv`: once `w` has logged since it opened the file or changed the configuration
  (`HasLogged`, spectrometer by spectrometer), `currConfigID` names a row of the open file with what is in memory. When
  others log, they log the same again: the id becomes another and the label stays true (`LabelKept`), also of
  the id that `w` read before.

`SettingsProofs`, for any threads, values, requests and number of restarts, provided that no saved bench
file is an empty one:

- `BenchIsSaved`: `SSpec => []BenchSaved`, once all saves are done the bench file has what memory has. While
  somebody is between two steps of a save that need not be so; `BenchInv` says what is. Who is about to
  write holds the mutex and writes what memory has (`PrintsMemory`), and while nobody is, the file is right or
  somebody who has not opened it yet will save it (`SavedOrDue`). So a copy that comes between another
  thread's copy and its open does no harm: who opens the file last writes what was copied last.
- `SavedIsInMemory`: `SSpec => []SavedIsMemory`; `ConfigIsLogged`: `SSpec => []LoggedIsMemory`;
  `CrashLeavesOldNewOrNothing`: `SSpec => []OldNewOrNothing`; `PixelsFollowWaves`: `SSpec => []PixelsFollow` where the
  wavelengths of each spectrometer grow with its pixels (`Increasing`, which `MCSettings` assumes of its calibrations):
  without it the search for the pixel may stop too early.
  The four rest on one invariant, `SettingsInv`, of six parts, each of which TLC was given first:
  - `PlanInv`: what a thread has still to do is a `Plan`, in which each step may follow the one before (`Follows`),
    and only a log, a mode or SSP comes last. So the step a thread is at tells what it has done. That requests are
    plans is shown of the pieces they are put together from (`Going`, `Goings`). Configurations and
    what is in files have their form (`Shape`, `TextFits`).
  - `LogInv`: fields are set one by one and without a mutex while other threads log, so what is logged may be half
    of a change. But then somebody will copy it again: for each spectrometer the last row has what memory has
    (`Agrees`, and the slopes), or some thread is still to copy it (`ToCopy`), or holds a copy that it is about to
    write (`Logging`), which is right or will be copied again. That a row is not overwritten by an older copy
    is what `dataMutex` is for: it is held by who copies and writes, so that of two copies the later one is written last.
  - `SaveInv`: the mutex is held by who prints; who saves after the truncation, with nobody else who changes
    or saves, has printed what memory has, up to the spectrometer it is at (`Printed`), but for what SSP sets.
  - `AloneInv`: while one request runs that began alone, nobody else does, and no save has ended before its own.
  - `CrashInv`: as long as nobody else saved, the file says what it said before the setter until that one saves, and
    what memory has once it has closed the file (LSD is two setters, and is between them what it is after one).
    The file need not be applied again by the start for that: it is compared as it is read (`Loaded`).
  - `PixelInv`: the thread that applies has found the pixels up to the wavelength it is at (`Looking`), and in a
    wavelength it holds nothing has changed.

  A step that only changes memory keeps all six by what it does to one spectrometer (`Turns`, `Effect`), by whether it
  is SSP's (`Marks`) and by what comes after it (`Moves`). The steps of a save, the start of a request and the crash have a lemma each.
  That reading gives what was printed (`SpecIsRead`, `AllIsRead`) is shown of the fold line by line: every line replaces what an
  earlier one with its key has set, and of the units of a line only the first counts (`LineIsRead`). The folds and
  lists are as long as the constants say, so these lemmas take a least counterexample where a person would use induction.

and in its last part about `Acquisition`, for any number of pixels and dark pixels, size of a byte, exposures and scans:

- `TimeIsKept`: `ASpec => []TimeKept`, of a setting whose transfers were made. The loop of `swapBytes` never has its indices meet in an even number of
  bytes, so it exchanges each pair twice (`SwapsBack`) and the device gets the bytes lowest first, which
  `UnsignedLEtoInt` reads again (`FourHold`: four digits make the number).
- `SmoothingStaysWithin`: `ASpec => []SmoothedWithin`, for every odd width, and widths too large or small to filter.
  A mean of numbers within bounds is within them (`MeanBetween`, by `SumBetween` and `DivBetween`): so is the running
  average after each scan (`AverageBetween`), and the filter in place after each pixel (`FilterBetween`). Most of it
  is in `SmoothBetween`: in each of the three parts of the loop only lit pixels are summed, and they are as many as
  are divided by, also where the index of the first neighbour has wrapped.
- `DimmedIsNotAbsorbed`: `ASpec => []DimmedNotAbsorbed`, where every correction is `Exact`, as it is without coefficients.
  Samples and references are of the exposures the history names (`IsSample`, inductive); below the sign of a short
  a pixel is its counts (`SmallScan`), the dark sum cancels the dark value exactly (`SignalIs`), and in the quotient
  only the dimming is left (`Cancel`, `DimmedPixels`).

What a fold computes step by step (`LeftFoldExists`, `Prefix`) is got without induction over data too: that the
partial results exist is shown by a least counterexample (`FoldExists`).

`SpectrometerProofs`, for any devices and serial numbers, any threads and requests, and whichever scans fail:

- `DevicesAreOwn`: `Spec => []OwnDevices`. `ConnectInv` accounts for every device that is claimed (`Accounted`): while
  `main` is looking they are those of the spectrometers found so far, each with its serial number and no two the same
  (`Found`), and the one that is being asked, which none of them has; while it closes them, those that are still to come.
- `SamplesAreLive`: `Spec => []NoFreedSample` where `OnlyMeasures`: no client sets the integration time, which
  frees and takes a sample without the mutex (the run `thread_safe` has what happens then). The invariant, `Core`,
  has three layers. `Sections`: what a thread has still to do is a sequence of whole sections (`Complete`), of which
  it may have begun the first, and it holds the mutex of that spectrometer exactly when it has (`Held`). `Values`:
  nobody else runs in its section, so that the sample a reader has loaded is the stored one (`Loaded`) and who takes
  one has a buffer (`Buffered`). `Buffers`: a stored sample is allocated except between its being freed and
  cleared by that thread (`SamplesLive`, `Clearing`), a scan fills buffers that are allocated (`WorkLive`), and no
  buffer belongs to two (`Apart`).
- `MessagesAreFresh`, `MessagesAreOfOneSample`: `Spec => []FreshMessages` and `Spec => []OneSample`, also where
  `OnlyMeasures`. First the layout of a request: its message comes last, all its steps are on one
  spectrometer, its parts are read after the recording, and a reference is kept, or a pH calculated, before it is
  read (`Planned`; shown of each request by `StepsPlanned` and of what is left of one by `PlanTail`).
  Then `ReportInv`, for each thread that will send a message: once it has recorded, only that recording or one that
  is not older can come to the spectrometer (`NotOlder`) and into the message (`PartsGood`, `Good`); as long as nobody
  has disturbed it, what it has read is what a reader would get now (`PartsNow`, `AloneSince`), and the last pH is
  its own (`Calculated`). A step of the thread itself keeps that by the layout (`OwnTells`), a step of
  another by the sections (`OthersTell`), and from it the message that is sent is right (`SendTells`) and stays so
  (`SentStays`).
- `Typing`: `Spec => []TypeOK`, for any requests, the integration time included: where two threads take samples
  on one spectrometer, each still fills its own buffer with as many scans as were asked for before it stores
  it, because it clears, scans and stores in this order (`Ordered`, `Making`).

`MethodProofs`, in its first part for any threads, names, sizes of the buffer, lengths of files and number of restarts:

- `Typing`: `FSpec => []FTypeOK`.
- `UploadsAreStored`: `FSpec => []StoredWhole`, of uploads that had room. An upload is acked after it was closed, but a stream that a lost
  connection leaves open is flushed much later, into a file that may have been replaced, deleted, or acked to
  another client. `FileInv` says why that harms nobody: a file that may still be written was not acked
  (`Pending`), whoever shares a file with another stream knows it (`Shared`, by the history variable `contested`),
  and the pieces of an upload so far are in its file and then in its buffer (`Progress`), which putting a
  piece, flushing and closing keep (`PutIs`, `FlushedIs`).
- `ReadsAreStored`: `FSpec => []ReadsStored`. A reader that is not disturbed has the beginning of what it should get
  (`Reader`); a file has one name (`OneName`), so that a writer disturbs exactly the readers of the name it
  writes. `SelectInv` does the same for the selection, which is truncated before it is written.

and in its second part about `MethodNodes`, for any method files, depth of loops and number of executions, where
one thread executes and terminates methods:

- `NothingDangles`: `Spec => []NoDangling`. `clearNodes` frees the list only while there never was a control
  node, and what it frees may still be linked from older nodes that nobody uses. So the invariant (`GraphInv`) is not that
  no pointer dangles, but that what is in use is younger than everything freed (`Younger`, `Roots`) and that
  no link leads back from there (`Links`). Once there is a stack nothing is freed any more, and whatever loops
  earlier methods left open are as young as the current node; before, the graph is a list along which nodes are
  younger and younger (`ListOnly`), so that the part not freed yet stays younger than what was. `head` is stale
  while the list is freed and until it is reset (`Freeing`): the theorem says that nobody follows it then. With a
  second client that executes or terminates this fails, as the code allows it to (Disagreements).
- `GraphIsText`: `Spec => ExecutesText`, the refinement of `MethodText`, step by step: the `Fetch` of the head is `Start`,
  `ReturnCommand` is `Command`, `VisitControl` is `Visit`, the end of the list or of the client is `Stop`, and every other step
  shows the interpreter nothing (`Refines`). The invariant (`BuildInv`) says what the parser has built of the first `S`
  statements (`Built`): each statement that is no end has one node (`Covered`); a node leads where its statement
  does, or nowhere as long as the node there is not built (`Linked`, `Leads`); the next one will be linked to the node that
  the last statement leads to (`Ahead`); and the loops still open are on top of the stack, one deeper than the other, on whatever
  earlier methods left (`OpenLoops`). The text says where a loop ends with a minimum over its ends and a depth
  that is a difference of cardinalities, the code with a stack; `TopIs` shows that an end closes the loop on top
  exactly because its depth has come down to one. A node that is made keeps `Built` (`BuildGrows`), and so do an end
  (`BuildLoops`) and the closing of a delay (`BuildDelays`). `Fetch` then finds every counter as it was built (`Fresh`), and
  a visit changes nothing but the counter (`VisitIs`). The hypothesis is that every end of a method closes a
  loop (`EndsMatch`, assumed of the methods of the runs too): an end too many has no meaning in the text, and in the
  code it waits for ever or closes a loop that an earlier method left (Disagreements). Loops that are never closed are allowed.

Only model-checked: everything else. Liveness (`RequestsComplete`, `MethodCompletes`,
`CallsReturn`, `RequestsReturn`, `CommandReturns`, `ExitsOnTerm`) and ENABLED are out of the prover's reach. So is
induction over data, unless a least counterexample can stand for it as in `SettingsProofs`. Every invariant, action
property and refinement that a passing run checks is proved, but for `NobodyStuck`, which is about ENABLED.

## Plan

Done: the peripherals, the method graph with its abstract specification, the data file, the CTD
sink, the LON link, the configurations, the spectrometers and their numbers, the server and the method
files. Left, the most entangled first:

1. `LONAbstract`: one command as one step, which is what `Peripherals` and `CTDSink` suppose;
   `LONLink` implements it until a read gives up. Then the dispatcher's start and stop.
2. A composition of `ConfigStore` with `DataFile`, whose `Configure` is its save.

## Not modelled

- The generated lexer and parser, and their own global state, which concurrent executions share as
  well. That the lexer ends the process on a directory is in `MethodFiles`.
- The formulas of carbon chemistry and salinity: floating point without control flow. The
  last pH calculation, which is shared, is in `Spectrometer`.
- The battery's device file, byte helpers, logging, wording and the layout of messages, GPIO
  and serial set-up.
- Queries and run messages that copy one value (pumps, heater, lamp, delay, dwell, file list).
- In the LON link, a port that cannot be opened: the server does not start then. `stopDispatch`
  is called by the signal handler only.
- In the driver, strobe, trigger mode and shutdown, which nothing calls.
- Pump numbers outside of the configured ones: 0 passes the tests of `pumpOn` and `setPumpPercent`
  (`SEASPeripheralCommands.c:140`, `:177`) and indexes before the array; larger ones are only logged.
- In `MethodNodes`, EXM without an active name or with a file that cannot be opened: `MethodFiles` has those paths.
- In `DataFile`, what a row of a configuration holds, beyond its label: which fields it has is in `ConfigStore`.
  That the number of wavelengths changes while the slopes are logged.
- A push beyond the stack of control nodes; a second SIGTERM; syslog in the signal handler; clients that
  do not wait for their acks.
