------------------------------ MODULE DataFile -------------------------------
(***************************************************************************)
(* The SQLite data file (dataFileManager.c): one connection, db, shared by *)
(* all threads.  A method opens it, writes readings, sets, values and      *)
(* spectra to it and closes it; whoever changes the configuration logs it  *)
(* there as well.                                                          *)
(*                                                                         *)
(* dataMutex protects each INSERT, but one operation is made of several:   *)
(* the ids that an INSERT returned are used in a later section, and db and *)
(* currConfigID are also read outside of any.                              *)
(*                                                                         *)
(* A file is named after the second in which it was opened: opening twice  *)
(* in a second opens the same file again.  Contents are abstracted to what *)
(* the rows refer to: a row says which configuration (version) of which    *)
(* spectrometer it was measured with, and which thread wrote it.           *)
(***************************************************************************)
EXTENDS Integers, Sequences, FiniteSets

CONSTANTS Thread,     \* the threads
          NoThread,
          Menu,       \* Menu[t]: the operations t may call
          NumSpecs,   \* NUM_SPECS
          Failing,    \* the kinds of INSERT that may fail (a full disk)
          MaxClock,   \* bound of the model: seconds
          MaxCalls    \* bound of the model: MaxCalls[t] is how often t calls

Spec_s == 1..NumSpecs
Operation == [op : {"open", "close"}]
             \cup [op : {"configure", "tune", "conc", "pH", "spectrum"}, spec : Spec_s]

ASSUME ThreadAssumption == NoThread \notin Thread
ASSUME MenuAssumption == Menu \in [Thread -> SUBSET Operation]
ASSUME SizeAssumption == /\ NumSpecs \in Nat \ {0}
                         /\ Failing \subseteq {"config", "measurement"}
                         /\ MaxClock \in Nat \ {0} /\ MaxCalls \in [Thread -> Nat]

-----------------------------------------------------------------------------
VARIABLES
  clock,        \* time(NULL)
  files,        \* files[c]: the file opened in second c
  db,           \* the open file; NULL
  broken,       \* db is not NULL, but the handle of a file that could not be opened
  last,         \* sqlite3_last_insert_rowid(db)
  currConfigID, \* currConfigID[s]: row of the configuration of s logged last
  mutex,        \* holder of dataMutex
  config,       \* config[s]: version of the configuration of s in memory
  call,         \* call[t]: what t is doing, and the values its locals hold
  pc,           \* pc[t]: where t is
  calls         \* calls[t]: what t has called so far

shared == <<clock, files, db, broken, last, currConfigID, mutex, config>>
vars == <<shared, call, pc, calls>>

NULL == 0
Version == Nat
Id == Nat  \* 0: the row was not written

\* What was measured, and by whom.
Label == [spec : Spec_s, ver : Version, by : Thread]

File == [configs  : Seq([spec : Spec_s, ver : Version]),
         readings : Seq(Thread),
         sets     : Seq([config : Nat, reading : Id, of : Label]),
         values   : SUBSET [table : {"conc", "pH"}, set : Id, of : Label],
         spectra  : SUBSET [time : 1..MaxClock, config : Nat, reading : Id, of : Label]]

NewFile == [configs |-> <<>>, readings |-> <<>>, sets |-> <<>>,
            values |-> {}, spectra |-> {}]

\* at: the next spectrometer whose configuration is logged; ver: the version the
\* wavelengths and counts were read with; reading, config, set: row ids.
NoCall == [op |-> "none", spec |-> 1, at |-> 1, ver |-> 0, reading |-> 0,
           config |-> 0, set |-> 0]

Call == [op : {"none", "open", "close", "configure", "tune", "conc", "pH", "spectrum"},
         spec : Spec_s, at : Spec_s, ver : Version, reading : Id, config : Nat, set : Id]

PC == {"idle", "open", "close", "saveTest", "save", "row", "reading", "configID",
       "set", "values", "spectrum"}

TypeOK ==
  /\ clock \in 1..MaxClock
  /\ files \in [1..MaxClock -> File]
  /\ db \in {NULL} \cup 1..MaxClock
  /\ broken \in BOOLEAN
  /\ last \in Nat
  /\ currConfigID \in [Spec_s -> Nat]
  /\ mutex \in Thread \cup {NoThread}
  /\ config \in [Spec_s -> Version]
  /\ call \in [Thread -> Call]
  /\ pc \in [Thread -> PC]
  /\ calls \in [Thread -> Nat] /\ \A t \in Thread : calls[t] <= MaxCalls[t]

Init ==
  /\ clock = 1
  /\ files = [c \in 1..MaxClock |-> NewFile]
  /\ db = NULL /\ broken = FALSE /\ last = 0
  /\ currConfigID = [s \in Spec_s |-> 0]
  /\ mutex = NoThread
  /\ config = [s \in Spec_s |-> 0]
  /\ call = [t \in Thread |-> NoCall]
  /\ pc = [t \in Thread |-> "idle"]
  /\ calls = [t \in Thread |-> 0]

Goto(t, l) == pc' = [pc EXCEPT ![t] = l]
Return(t) == Goto(t, "idle") /\ call' = [call EXCEPT ![t] = NoCall]

\* The sections of dataMutex that are one step.
Free == mutex = NoThread

\* The outcomes of an INSERT whose row gets the id n: an INSERT that fails
\* returns 0.
Inserted(kind, n) == IF kind \in Failing THEN {0, n} ELSE {n}

\* A thread between two calls calls an operation.
Calls(t, op) == /\ pc[t] = "idle"
                /\ op \in Menu[t]
                /\ calls[t] < MaxCalls[t]
                /\ calls' = [calls EXCEPT ![t] = @ + 1]

-----------------------------------------------------------------------------
(* Opening and closing.                                                     *)

Tick ==
  /\ clock < MaxClock
  /\ clock' = clock + 1
  /\ UNCHANGED <<files, db, broken, last, currConfigID, mutex, config, call, pc, calls>>

\* What "if(db)" tests.
IsOpen == db # NULL \/ broken

\* openDataFile and closeDataFile test db before they lock.
Open(t) ==
  /\ Calls(t, [op |-> "open"])
  /\ ~IsOpen  \* otherwise the call only logs that a file is open
  /\ Goto(t, "open")
  /\ call' = [call EXCEPT ![t].op = "open"]
  /\ UNCHANGED shared

\* Faulty: the configuration is not logged in a new file.
OpenSection_NoConfig(t) ==
  /\ pc[t] = "open" /\ Free
  /\ db' = clock /\ broken' = FALSE
  /\ last' = 0
  /\ Return(t)
  /\ UNCHANGED <<clock, files, currConfigID, mutex, config>>

\* sqlite3_open: the new connection has inserted no row.  If it fails it leaves a handle
\* with which no statement can be prepared; the call goes on with it.
OpenSection(t) ==
  /\ pc[t] = "open" /\ Free
  /\ \/ db' = clock /\ broken' = FALSE
     \/ db' = NULL /\ broken' = TRUE
  /\ last' = 0
  /\ Goto(t, "saveTest")
  /\ UNCHANGED <<clock, files, currConfigID, mutex, config, call>>

Close(t) ==
  /\ Calls(t, [op |-> "close"])
  /\ IsOpen
  /\ Goto(t, "close")
  /\ call' = [call EXCEPT ![t].op = "close"]
  /\ UNCHANGED shared

CloseSection(t) ==
  /\ pc[t] = "close" /\ Free
  /\ db' = NULL /\ broken' = FALSE
  /\ Return(t)
  /\ UNCHANGED <<clock, files, last, currConfigID, mutex, config>>

-----------------------------------------------------------------------------
(* The configuration: a change in memory, and writeConfigToDB.              *)

\* The setters of config.c that end in writeConfigFile.
Configure(t, s) ==
  /\ Calls(t, [op |-> "configure", spec |-> s])
  /\ config' = [config EXCEPT ![s] = @ + 1]
  /\ Goto(t, "saveTest")
  /\ call' = [call EXCEPT ![t].op = "configure"]
  /\ UNCHANGED <<clock, files, db, broken, last, currConfigID, mutex>>

\* receiveParameterBytes: setSpectrometerParameters alone does not save.
Tune(t, s) ==
  /\ Calls(t, [op |-> "tune", spec |-> s])
  /\ config' = [config EXCEPT ![s] = @ + 1]
  /\ UNCHANGED <<clock, files, db, broken, last, currConfigID, mutex, call, pc>>

\* writeConfigToDB tests db before it locks, ...
SaveTest(t) ==
  /\ pc[t] = "saveTest"
  /\ IF ~IsOpen THEN Return(t) ELSE Goto(t, "save") /\ UNCHANGED call
  /\ UNCHANGED shared

\* Faulty: returns with the mutex if the file was closed.
LockSave_EarlyReturn(t) ==
  /\ pc[t] = "save" /\ Free
  /\ mutex' = t
  /\ IF db = NULL THEN Return(t) ELSE Goto(t, "row") /\ UNCHANGED call
  /\ UNCHANGED <<clock, files, db, broken, last, currConfigID, config>>

\* ... and finds in the section that nothing can be prepared if it was closed, or never
\* opened.
LockSave(t) ==
  /\ pc[t] = "save" /\ Free
  /\ IF db = NULL THEN Return(t) /\ UNCHANGED mutex
                  ELSE mutex' = t /\ Goto(t, "row") /\ UNCHANGED call
  /\ UNCHANGED <<clock, files, db, broken, last, currConfigID, config>>

\* A row for a spectrometer.  Its id is recorded whether or not it was written.  The
\* version stands for whatever the row holds of the configuration: which fields those
\* are, and which are missing, is ConfigStore's part.
ConfigRow(t) ==
  LET s == call[t].at
      rows == files[db].configs
  IN /\ pc[t] = "row"
     /\ \E id \in Inserted("config", Len(rows) + 1) :
          /\ files' = IF id = 0 THEN files
                      ELSE [files EXCEPT ![db].configs =
                              Append(@, [spec |-> s, ver |-> config[s]])]
          /\ last' = IF id = 0 THEN last ELSE id
          /\ currConfigID' = [currConfigID EXCEPT ![s] = last']
     /\ IF s < NumSpecs
          THEN /\ call' = [call EXCEPT ![t].at = s + 1]
               /\ UNCHANGED <<pc, mutex>>
          ELSE /\ Return(t)
               /\ mutex' = NoThread
     /\ UNCHANGED <<clock, db, broken, config>>

-----------------------------------------------------------------------------
(* writeConcData, writepHToDB and writeFullSpec.                            *)

\* The wavelengths, counts and absorbance are read from the configuration.
Measure(t, op, s) ==
  /\ Calls(t, [op |-> op, spec |-> s])
  /\ call' = [call EXCEPT ![t].op = op, ![t].spec = s, ![t].ver = config[s]]
  /\ Goto(t, "reading")
  /\ UNCHANGED shared

LabelOf(t) == [spec |-> call[t].spec, ver |-> call[t].ver, by |-> t]

\* Faulty: returns the last row id also if the INSERT failed.
ReadingSection_AnyID(t) ==
  /\ pc[t] = "reading" /\ Free
  /\ IF db = NULL
       THEN UNCHANGED <<files, last, call>>
       ELSE \E id \in Inserted("measurement", Len(files[db].readings) + 1) :
              /\ files' = IF id = 0 THEN files
                          ELSE [files EXCEPT ![db].readings = Append(@, t)]
              /\ last' = IF id = 0 THEN last ELSE id
              /\ call' = [call EXCEPT ![t].reading = last']
  /\ Goto(t, IF call[t].op = "spectrum" THEN "spectrum" ELSE "configID")
  /\ UNCHANGED <<clock, db, broken, currConfigID, mutex, config>>

\* writeCTDData.
ReadingSection(t) ==
  /\ pc[t] = "reading" /\ Free
  /\ IF db = NULL
       THEN UNCHANGED <<files, last, call>>
       ELSE \E id \in Inserted("measurement", Len(files[db].readings) + 1) :
              /\ files' = IF id = 0 THEN files
                          ELSE [files EXCEPT ![db].readings = Append(@, t)]
              /\ last' = IF id = 0 THEN last ELSE id
              /\ call' = [call EXCEPT ![t].reading = id]
  /\ Goto(t, IF call[t].op = "spectrum" THEN "spectrum" ELSE "configID")
  /\ UNCHANGED <<clock, db, broken, currConfigID, mutex, config>>

\* The argument currConfigID[specID] of the call of writeWavelengthSet, which then
\* asks the heater for its temperature before it locks.
ReadConfigID(t) ==
  /\ pc[t] = "configID"
  /\ call' = [call EXCEPT ![t].config = currConfigID[call[t].spec]]
  /\ Goto(t, "set")
  /\ UNCHANGED shared

\* Faulty: returns the last row id also if the INSERT failed.
SetSection_AnyID(t) ==
  /\ pc[t] = "set" /\ Free
  /\ IF db = NULL
       THEN UNCHANGED <<files, last, call>>
       ELSE \E id \in Inserted("measurement", Len(files[db].sets) + 1) :
              /\ files' = IF id = 0 THEN files
                          ELSE [files EXCEPT ![db].sets =
                                  Append(@, [config |-> call[t].config,
                                             reading |-> call[t].reading,
                                             of |-> LabelOf(t)])]
              /\ last' = IF id = 0 THEN last ELSE id
              /\ call' = [call EXCEPT ![t].set = last']
  /\ Goto(t, "values")
  /\ UNCHANGED <<clock, db, broken, currConfigID, mutex, config>>

\* writeWavelengthSet.
SetSection(t) ==
  /\ pc[t] = "set" /\ Free
  /\ IF db = NULL
       THEN UNCHANGED <<files, last, call>>
       ELSE \E id \in Inserted("measurement", Len(files[db].sets) + 1) :
              /\ files' = IF id = 0 THEN files
                          ELSE [files EXCEPT ![db].sets =
                                  Append(@, [config |-> call[t].config,
                                             reading |-> call[t].reading,
                                             of |-> LabelOf(t)])]
              /\ last' = IF id = 0 THEN last ELSE id
              /\ call' = [call EXCEPT ![t].set = id]
  /\ Goto(t, "values")
  /\ UNCHANGED <<clock, db, broken, currConfigID, mutex, config>>

\* The rows of concentrations, or of pH_wavelengths and pH.  Their primary key is
\* the set and the wavelength: rows of a set that has them are refused.
\* (These tables' row ids matter to nobody: the next connection or INSERT sets last.)
ValuesSection(t) ==
  LET row == [table |-> call[t].op, set |-> call[t].set, of |-> LabelOf(t)]
      clash == \E r \in files[db].values : /\ r.table = row.table /\ r.set = row.set
                                           /\ r.of.spec = row.of.spec
                                           /\ r.of.ver = row.of.ver
  IN /\ pc[t] = "values" /\ Free
     /\ IF db = NULL
          THEN UNCHANGED <<files, last>>
          ELSE \E id \in Inserted("measurement",
                                  IF clash THEN 0 ELSE Cardinality(files[db].values) + 1) :
                 /\ files' = IF id = 0 THEN files
                             ELSE [files EXCEPT ![db].values = @ \cup {row}]
                 /\ last' = IF id = 0 THEN last ELSE id
     /\ Return(t)
     /\ UNCHANGED <<clock, db, broken, currConfigID, mutex, config>>

\* The row of writeFullSpec.  Here currConfigID is read in the section, and so is
\* the sample.  The primary key is the second and the configuration.
SpectrumSection(t) ==
  LET s == call[t].spec
      row == [time |-> clock, config |-> currConfigID[s], reading |-> call[t].reading,
              of |-> [LabelOf(t) EXCEPT !.ver = config[s]]]
      clash == \E r \in files[db].spectra : r.time = row.time /\ r.config = row.config
  IN /\ pc[t] = "spectrum" /\ Free
     /\ IF db = NULL
          THEN UNCHANGED <<files, last>>
          ELSE \E id \in Inserted("measurement",
                                  IF clash THEN 0 ELSE Cardinality(files[db].spectra) + 1) :
                 /\ files' = IF id = 0 THEN files
                             ELSE [files EXCEPT ![db].spectra = @ \cup {row}]
                 /\ last' = IF id = 0 THEN last ELSE id
     /\ Return(t)
     /\ UNCHANGED <<clock, db, broken, currConfigID, mutex, config>>

-----------------------------------------------------------------------------
Step(t) ==
  /\ \/ OpenSection(t) \/ CloseSection(t)
     \/ SaveTest(t) \/ LockSave(t) \/ ConfigRow(t)
     \/ ReadingSection(t) \/ ReadConfigID(t) \/ SetSection(t) \/ ValuesSection(t)
     \/ SpectrumSection(t)
  /\ UNCHANGED calls

Begin(t) ==
  \/ Open(t) \/ Close(t)
  \/ \E s \in Spec_s : \/ Configure(t, s) \/ Tune(t, s)
                       \/ \E op \in {"conc", "pH", "spectrum"} : Measure(t, op, s)

Next == Tick \/ \E t \in Thread : Begin(t) \/ Step(t)

Spec == Init /\ [][Next]_vars

\* Every thread that can take a step is scheduled, and gets the mutex in the end.
FairSpec == Spec /\ \A t \in Thread : SF_vars(Step(t))

-----------------------------------------------------------------------------
(* Properties.                                                              *)

File_s == 1..MaxClock

\* Every wavelength set and spectrum names the configuration it was measured
\* with: the row of its file that its config_id refers to is one of the same
\* spectrometer, with the parameters the measurement used.
LabelledBy(f, id, of) ==
  /\ id \in DOMAIN files[f].configs
  /\ files[f].configs[id].spec = of.spec
  /\ files[f].configs[id].ver = of.ver

ConfigLabels ==
  \A f \in File_s : /\ \A i \in DOMAIN files[f].sets :
                         LabelledBy(f, files[f].sets[i].config, files[f].sets[i].of)
                    /\ \A r \in files[f].spectra : LabelledBy(f, r.config, r.of)

\* A set or a spectrum refers to the CTD reading that was taken for it, in its own
\* file, or to none.
ReadingsBelong ==
  \A f \in File_s :
    \A r \in {files[f].sets[i] : i \in DOMAIN files[f].sets} \cup files[f].spectra :
      \/ r.reading = 0
      \/ r.reading \in DOMAIN files[f].readings /\ files[f].readings[r.reading] = r.of.by

\* Concentrations and pH values hang on the set that was written for them, in its
\* own file, whatever other threads close or configure in between: no value is
\* filed under a set of another measurement.
ValuesBelong ==
  \A f \in File_s : \A r \in files[f].values :
    r.set # 0 => r.set \in DOMAIN files[f].sets /\ files[f].sets[r.set].of = r.of

\* Every call returns: no path of an operation keeps the mutex, whatever is closed
\* between its sections.
CallsReturn == \A t \in Thread : pc[t] # "idle" ~> pc[t] = "idle"

=============================================================================
