---------------------------- MODULE DataFileProofs ----------------------------
(* Theorems about DataFile, for any number of threads, spectrometers, calls *)
(* and seconds, and whichever INSERTs fail.                                  *)
EXTENDS DataFile, FiniteSetTheorems, SequenceTheorems, TLAPS

-----------------------------------------------------------------------------
(* Types.                                                                  *)

\* Where a thread is tells what it is doing; who logs the configuration has
\* the mutex, and an open file.
Places == \A t \in Thread :
  /\ pc[t] = "row" => mutex = t /\ db # NULL
  /\ pc[t] = "reading" => call[t].op \in {"conc", "pH", "spectrum"}
  /\ pc[t] \in {"configID", "set", "values"} => call[t].op \in {"conc", "pH"}

Finite == \A f \in File_s : IsFiniteSet(files[f].values) /\ IsFiniteSet(files[f].spectra)

FileInv == TypeOK /\ Places /\ Finite

LEMMA FileInvInit == Init => FileInv
<1> SUFFICES ASSUME Init
             PROVE  FileInv
  OBVIOUS
<1>1. NewFile \in File /\ NoCall \in Call
  BY SizeAssumption DEF NewFile, File, NoCall, Call, Spec_s, Version, Id
<1>2. TypeOK
  <2>1. broken \in BOOLEAN
    BY DEF Init
  <2>2. /\ clock = 1 /\ files = [c \in 1..MaxClock |-> NewFile] /\ db = NULL /\ last = 0
        /\ currConfigID = [s \in Spec_s |-> 0] /\ mutex = NoThread
        /\ config = [s \in Spec_s |-> 0] /\ call = [t \in Thread |-> NoCall]
        /\ pc = [t \in Thread |-> "idle"] /\ calls = [t \in Thread |-> 0]
    BY DEF Init
  <2>3. QED  BY <1>1, <2>1, <2>2, SizeAssumption DEF TypeOK, PC, Version, NULL
<1>3. Places /\ Finite
  BY FS_EmptySet DEF Init, Places, Finite, NewFile, File_s
<1>4. QED  BY <1>2, <1>3 DEF FileInv

\* What a row adds to a file leaves a file.
LEMMA RowAdded ==
  ASSUME TypeOK, Finite, db \in File_s
  PROVE  /\ \A row \in [spec : Spec_s, ver : Version] :
              [files EXCEPT ![db].configs = Append(@, row)] \in [File_s -> File]
         /\ \A t \in Thread :
              [files EXCEPT ![db].readings = Append(@, t)] \in [File_s -> File]
         /\ \A row \in [config : Nat, reading : Id, of : Label] :
              [files EXCEPT ![db].sets = Append(@, row)] \in [File_s -> File]
         /\ \A row \in [table : {"conc", "pH"}, set : Id, of : Label] :
              [files EXCEPT ![db].values = @ \cup {row}] \in [File_s -> File]
         /\ \A row \in [time : 1..MaxClock, config : Nat, reading : Id, of : Label] :
              [files EXCEPT ![db].spectra = @ \cup {row}] \in [File_s -> File]
<1>1. files \in [File_s -> File] /\ files[db] \in File
  BY DEF TypeOK, File_s
<1>2. ASSUME NEW row \in [spec : Spec_s, ver : Version]
      PROVE  [files EXCEPT ![db].configs = Append(@, row)] \in [File_s -> File]
  <2>1. Append(files[db].configs, row) \in Seq([spec : Spec_s, ver : Version])
    <3>1. files[db].configs \in Seq([spec : Spec_s, ver : Version])
      BY <1>1 DEF File
    <3>2. QED  BY <3>1, AppendProperties
  <2>2. [files[db] EXCEPT !.configs = Append(@, row)] \in File
    BY <1>1, <2>1 DEF File
  <2>3. QED  BY <1>1, <2>2
<1>3. ASSUME NEW t \in Thread
      PROVE  [files EXCEPT ![db].readings = Append(@, t)] \in [File_s -> File]
  <2>1. Append(files[db].readings, t) \in Seq(Thread)
    BY <1>1 DEF File
  <2>2. [files[db] EXCEPT !.readings = Append(@, t)] \in File
    BY <1>1, <2>1 DEF File
  <2>3. QED  BY <1>1, <2>2
<1>4. ASSUME NEW row \in [config : Nat, reading : Id, of : Label]
      PROVE  [files EXCEPT ![db].sets = Append(@, row)] \in [File_s -> File]
  <2>1. Append(files[db].sets, row) \in Seq([config : Nat, reading : Id, of : Label])
    <3>1. files[db].sets \in Seq([config : Nat, reading : Id, of : Label])
      BY <1>1 DEF File
    <3>2. QED  BY <3>1, AppendProperties
  <2>2. [files[db] EXCEPT !.sets = Append(@, row)] \in File
    BY <1>1, <2>1 DEF File
  <2>3. QED  BY <1>1, <2>2
<1>5. ASSUME NEW row \in [table : {"conc", "pH"}, set : Id, of : Label]
      PROVE  [files EXCEPT ![db].values = @ \cup {row}] \in [File_s -> File]
  <2>1. files[db].values \cup {row} \in SUBSET [table : {"conc", "pH"}, set : Id, of : Label]
    BY <1>1 DEF File
  <2>2. [files[db] EXCEPT !.values = @ \cup {row}] \in File
    BY <1>1, <2>1 DEF File
  <2>3. QED  BY <1>1, <2>2
<1>6. ASSUME NEW row \in [time : 1..MaxClock, config : Nat, reading : Id, of : Label]
      PROVE  [files EXCEPT ![db].spectra = @ \cup {row}] \in [File_s -> File]
  <2>1. files[db].spectra \cup {row}
          \in SUBSET [time : 1..MaxClock, config : Nat, reading : Id, of : Label]
    BY <1>1 DEF File
  <2>2. [files[db] EXCEPT !.spectra = @ \cup {row}] \in File
    BY <1>1, <2>1 DEF File
  <2>3. QED  BY <1>1, <2>2
<1>7. QED  BY <1>2, <1>3, <1>4, <1>5, <1>6

LEMMA InsertedType ==
  ASSUME NEW kind, NEW n \in Nat, NEW id \in Inserted(kind, n)
  PROVE  id \in Nat
BY DEF Inserted

\* A thread goes to another place, in or after a section without the mutex.
LEMMA PlaceAndFilesChange ==
  ASSUME FileInv, NEW t \in Thread, NEW l \in PC \ {"row"}, Goto(t, l),
         call' \in [Thread -> Call], \A u \in Thread \ {t} : call'[u] = call[u],
         l = "reading" => call'[t].op \in {"conc", "pH", "spectrum"},
         l \in {"configID", "set", "values"} => call'[t].op \in {"conc", "pH"},
         UNCHANGED mutex, files' \in [File_s -> File], Finite',
         db' = db \/ (mutex = NoThread /\ db' \in {NULL} \cup File_s),
         broken' \in BOOLEAN, clock' \in 1..MaxClock, last' \in Nat,
         currConfigID' \in [Spec_s -> Nat], config' \in [Spec_s -> Version],
         calls' \in [Thread -> Nat], \A u \in Thread : calls'[u] <= MaxCalls[u]
  PROVE  FileInv'
<1>1. TypeOK'
  BY DEF FileInv, TypeOK, Goto, File_s
<1>2. pc'[t] = l /\ \A u \in Thread \ {t} : pc'[u] = pc[u]
  BY DEF FileInv, TypeOK, Goto
<1>3. mutex = NoThread => \A u \in Thread : pc[u] # "row"
  BY ThreadAssumption DEF FileInv, Places
<1>4. Places'
  BY <1>2, <1>3 DEF FileInv, Places
<1>5. QED  BY <1>1, <1>4 DEF FileInv

LEMMA PlaceChanges ==
  ASSUME FileInv, NEW t \in Thread, NEW l \in PC \ {"row"}, Goto(t, l),
         call' \in [Thread -> Call], \A u \in Thread \ {t} : call'[u] = call[u],
         l = "reading" => call'[t].op \in {"conc", "pH", "spectrum"},
         l \in {"configID", "set", "values"} => call'[t].op \in {"conc", "pH"},
         UNCHANGED <<files, mutex>>,
         db' = db \/ (mutex = NoThread /\ db' \in {NULL} \cup File_s),
         broken' \in BOOLEAN, clock' \in 1..MaxClock, last' \in Nat,
         currConfigID' \in [Spec_s -> Nat], config' \in [Spec_s -> Version],
         calls' \in [Thread -> Nat], \A u \in Thread : calls'[u] <= MaxCalls[u]
  PROVE  FileInv'
<1>1. files' \in [File_s -> File] /\ Finite'
  BY DEF FileInv, TypeOK, Finite, File_s
<1>2. QED  BY <1>1, PlaceAndFilesChange

LEMMA NoCallType == NoCall \in Call
BY SizeAssumption DEF NoCall, Call, Spec_s, Version, Id

LEMMA ReturnType ==
  ASSUME TypeOK, NEW t \in Thread, Return(t)
  PROVE  /\ Goto(t, "idle") /\ "idle" \in PC \ {"row"}
         /\ call' \in [Thread -> Call] /\ \A u \in Thread \ {t} : call'[u] = call[u]
BY NoCallType DEF TypeOK, Return, PC

-----------------------------------------------------------------------------
(* The operations, one by one.                                             *)

LEMMA BeginType ==
  ASSUME FileInv, NEW t \in Thread, Begin(t)
  PROVE  FileInv'
<1>0. TypeOK
  BY DEF FileInv
<1>1. ASSUME NEW op, Calls(t, op)
      PROVE  calls' \in [Thread -> Nat] /\ \A u \in Thread : calls'[u] <= MaxCalls[u]
  <2>1. calls[t] < MaxCalls[t] /\ calls' = [calls EXCEPT ![t] = @ + 1]
    BY <1>1 DEF Calls
  <2>2. /\ calls \in [Thread -> Nat] /\ MaxCalls \in [Thread -> Nat]
        /\ \A u \in Thread : calls[u] <= MaxCalls[u]
    BY <1>0, SizeAssumption DEF TypeOK
  <2>3. calls[t] + 1 \in Nat /\ calls[t] + 1 <= MaxCalls[t]
    BY <2>1, <2>2
  <2>4. QED  BY <2>1, <2>2, <2>3
<1>2. CASE Open(t) \/ Close(t)
  <2>1. PICK l \in {"open", "close"} :
          /\ Goto(t, l) /\ call' = [call EXCEPT ![t].op = l] /\ UNCHANGED shared
          /\ Calls(t, [op |-> l])
    BY <1>2 DEF Open, Close
  <2>2. call' \in [Thread -> Call]
    BY <1>0, <2>1 DEF TypeOK, Call
  <2>3. QED
    BY <1>0, <1>1, <2>1, <2>2, PlaceChanges DEF TypeOK, PC, shared
<1>3. ASSUME NEW s \in Spec_s, Configure(t, s)
      PROVE  FileInv'
  <2>1. /\ Goto(t, "saveTest") /\ call' = [call EXCEPT ![t].op = "configure"]
        /\ config' = [config EXCEPT ![s] = @ + 1]
        /\ Calls(t, [op |-> "configure", spec |-> s])
        /\ UNCHANGED <<clock, files, db, broken, last, currConfigID, mutex>>
    BY <1>3 DEF Configure
  <2>2. call' \in [Thread -> Call] /\ config' \in [Spec_s -> Version]
    <3>1. call' \in [Thread -> Call]
      BY <1>0, <2>1 DEF TypeOK, Call
    <3>2. config' \in [Spec_s -> Version]
      BY <1>0, <2>1 DEF TypeOK, Version
    <3>3. QED  BY <3>1, <3>2
  <2>3. QED
    BY <1>0, <1>1, <2>1, <2>2, PlaceChanges DEF TypeOK, PC
<1>4. ASSUME NEW s \in Spec_s, Tune(t, s)
      PROVE  FileInv'
  <2>1. /\ config' = [config EXCEPT ![s] = @ + 1]
        /\ Calls(t, [op |-> "tune", spec |-> s])
        /\ UNCHANGED <<clock, files, db, broken, last, currConfigID, mutex, call, pc>>
    BY <1>4 DEF Tune
  <2>2. config' \in [Spec_s -> Version]
    BY <1>0, <2>1 DEF TypeOK, Version
  <2>3. TypeOK'
    BY <1>0, <1>1, <2>1, <2>2 DEF TypeOK
  <2>4. QED  BY <2>1, <2>3 DEF FileInv, Places, Finite
<1>5. ASSUME NEW s \in Spec_s, NEW op \in {"conc", "pH", "spectrum"}, Measure(t, op, s)
      PROVE  FileInv'
  <2>1. /\ Goto(t, "reading")
        /\ call' = [call EXCEPT ![t].op = op, ![t].spec = s, ![t].ver = config[s]]
        /\ Calls(t, [op |-> op, spec |-> s]) /\ UNCHANGED shared
    BY <1>5 DEF Measure
  <2>2. call' \in [Thread -> Call] /\ call'[t].op = op
    BY <1>0, <2>1 DEF TypeOK, Call
  <2>3. QED
    BY <1>0, <1>1, <2>1, <2>2, PlaceChanges DEF TypeOK, PC, shared
<1>6. QED  BY <1>2, <1>3, <1>4, <1>5 DEF Begin

LEMMA OpenCloseType ==
  ASSUME FileInv, NEW t \in Thread, UNCHANGED calls,
         OpenSection(t) \/ CloseSection(t) \/ SaveTest(t)
  PROVE  FileInv'
<1>0. TypeOK
  BY DEF FileInv
<1>1. CASE OpenSection(t)
  BY <1>0, <1>1, PlaceChanges DEF OpenSection, Free, TypeOK, PC, File_s
<1>2. CASE CloseSection(t)
  BY <1>0, <1>2, ReturnType, PlaceChanges DEF CloseSection, Free, TypeOK, PC
<1>3. CASE SaveTest(t) /\ Return(t)
  BY <1>0, <1>3, ReturnType, PlaceChanges DEF SaveTest, TypeOK, PC, shared
<1>4. CASE SaveTest(t) /\ Goto(t, "save") /\ UNCHANGED call
  BY <1>0, <1>4, PlaceChanges DEF SaveTest, TypeOK, PC, shared
<1>5. QED  BY <1>1, <1>2, <1>3, <1>4 DEF SaveTest

LEMMA LockSaveType ==
  ASSUME FileInv, NEW t \in Thread, UNCHANGED calls, LockSave(t)
  PROVE  FileInv'
<1>0. TypeOK /\ mutex = NoThread
  BY DEF FileInv, LockSave, Free
<1>1. CASE db = NULL
  BY <1>0, <1>1, ReturnType, PlaceChanges DEF LockSave, TypeOK, PC
<1>2. CASE db # NULL
  <2>1. /\ mutex' = t /\ pc' = [pc EXCEPT ![t] = "row"]
        /\ UNCHANGED <<clock, files, db, broken, last, currConfigID, config, call, calls>>
    BY <1>2 DEF LockSave, Goto
  <2>2. TypeOK'
    BY <1>0, <2>1 DEF TypeOK, PC
  <2>3. \A u \in Thread : pc[u] # "row"
    BY <1>0, ThreadAssumption DEF FileInv, Places
  <2>4. Places'
    BY <1>0, <1>2, <2>1, <2>3 DEF FileInv, Places, TypeOK
  <2>5. QED  BY <2>1, <2>2, <2>4 DEF FileInv, Finite
<1>3. QED  BY <1>1, <1>2

LEMMA ConfigRowType ==
  ASSUME FileInv, NEW t \in Thread, UNCHANGED calls, ConfigRow(t)
  PROVE  FileInv'
<1> DEFINE s == call[t].at
           row == [spec |-> s, ver |-> config[s]]
<1>0. TypeOK /\ Finite /\ pc[t] = "row" /\ mutex = t /\ db \in File_s
  BY DEF FileInv, ConfigRow, Places, TypeOK, File_s
<1>1. s \in Spec_s /\ row \in [spec : Spec_s, ver : Version]
  BY <1>0 DEF TypeOK, Call
<1>2. Len(files[db].configs) + 1 \in Nat
  BY <1>0 DEF TypeOK, File, File_s
<1>3. PICK id \in Inserted("config", Len(files[db].configs) + 1) :
        /\ files' = IF id = 0 THEN files ELSE [files EXCEPT ![db].configs = Append(@, row)]
        /\ last' = IF id = 0 THEN last ELSE id
        /\ currConfigID' = [currConfigID EXCEPT ![s] = last']
  BY DEF ConfigRow
<1>4. files' \in [File_s -> File]
  BY <1>0, <1>1, <1>3, RowAdded DEF TypeOK, File_s
<1>5. last' \in Nat /\ currConfigID' \in [Spec_s -> Nat]
  BY <1>0, <1>1, <1>2, <1>3, InsertedType DEF TypeOK
<1>6. Finite'
  BY <1>0, <1>3 DEF Finite, TypeOK, File, File_s
<1>7. CASE s < NumSpecs
  <2>1. /\ call' = [call EXCEPT ![t].at = s + 1]
        /\ UNCHANGED <<pc, mutex, clock, db, broken, config>>
    BY <1>7 DEF ConfigRow
  <2>2. s + 1 \in Spec_s
    BY <1>1, <1>7, SizeAssumption DEF Spec_s
  <2>3. call' \in [Thread -> Call] /\ \A u \in Thread : call'[u].op = call[u].op
    BY <1>0, <2>1, <2>2 DEF TypeOK, Call
  <2>4. TypeOK'
    BY <1>0, <1>4, <1>5, <2>1, <2>3 DEF TypeOK, File_s
  <2>5. Places'
    BY <2>1, <2>3 DEF FileInv, Places
  <2>6. QED  BY <1>6, <2>4, <2>5 DEF FileInv
<1>8. CASE ~(s < NumSpecs)
  <2>1. Return(t) /\ mutex' = NoThread /\ UNCHANGED <<clock, db, broken, config>>
    BY <1>8 DEF ConfigRow
  <2>2. pc'[t] = "idle" /\ \A u \in Thread \ {t} : pc'[u] = pc[u] /\ call'[u] = call[u]
    BY <1>0, <2>1 DEF TypeOK, Return, Goto
  <2>3. TypeOK'
    BY <1>0, <1>4, <1>5, <2>1, ReturnType DEF TypeOK, Goto, PC, File_s
  <2>4. Places'
    BY <1>0, <2>1, <2>2 DEF FileInv, Places
  <2>5. QED  BY <1>6, <2>3, <2>4 DEF FileInv
<1>9. QED  BY <1>7, <1>8

LEMMA LabelType ==
  ASSUME TypeOK, NEW t \in Thread
  PROVE  LabelOf(t) \in Label
BY DEF TypeOK, Call, LabelOf, Label

\* What the three sections that write readings, sets and values or a spectrum share.
LEMMA SectionType ==
  ASSUME FileInv, NEW t \in Thread,
         UNCHANGED <<clock, db, broken, currConfigID, mutex, config, calls>>,
         NEW l \in {"spectrum", "configID", "values", "idle"}, Goto(t, l),
         l \in {"configID", "values"} => call'[t].op \in {"conc", "pH"},
         call' \in [Thread -> Call], \A u \in Thread \ {t} : call'[u] = call[u],
         files' \in [File_s -> File], Finite', last' \in Nat
  PROVE  FileInv'
<1>1. l \in PC \ {"row"}
  BY DEF PC
<1>2. /\ clock' \in 1..MaxClock
      /\ broken' \in BOOLEAN
      /\ currConfigID' \in [Spec_s -> Nat] /\ config' \in [Spec_s -> Version]
      /\ calls' \in [Thread -> Nat] /\ \A u \in Thread : calls'[u] <= MaxCalls[u]
  BY DEF FileInv, TypeOK
<1>3. QED  BY <1>1, <1>2, PlaceAndFilesChange

LEMMA ReadingType ==
  ASSUME FileInv, NEW t \in Thread, UNCHANGED calls, ReadingSection(t)
  PROVE  FileInv'
<1>0. /\ TypeOK /\ Finite /\ pc[t] = "reading"
      /\ UNCHANGED <<clock, db, broken, currConfigID, mutex, config>>
  BY DEF FileInv, ReadingSection
<1> DEFINE l == IF call[t].op = "spectrum" THEN "spectrum" ELSE "configID"
<1>1. Goto(t, l)
  BY DEF ReadingSection
<1>2. l = "spectrum" \/ (l = "configID" /\ call[t].op \in {"conc", "pH"})
  BY <1>0 DEF FileInv, Places
<1>3. CASE db = NULL
  BY <1>0, <1>1, <1>2, <1>3, SectionType DEF ReadingSection, FileInv, TypeOK, Finite, File_s
<1>4. CASE db # NULL
  <2>1. PICK id \in Inserted("measurement", Len(files[db].readings) + 1) :
          /\ files' = IF id = 0 THEN files ELSE [files EXCEPT ![db].readings = Append(@, t)]
          /\ last' = IF id = 0 THEN last ELSE id
          /\ call' = [call EXCEPT ![t].reading = id]
    BY <1>4 DEF ReadingSection
  <2>2. db \in File_s /\ Len(files[db].readings) + 1 \in Nat
    BY <1>0, <1>4 DEF TypeOK, File, File_s
  <2>3. id \in Nat
    BY <2>2, InsertedType
  <2>4. call' \in [Thread -> Call] /\ call'[t].op = call[t].op
    BY <1>0, <2>1, <2>3 DEF TypeOK, Call, Id
  <2>5. files' \in [File_s -> File] /\ last' \in Nat
    BY <1>0, <2>1, <2>2, <2>3, RowAdded DEF TypeOK, File_s
  <2>6. Finite'
    BY <1>0, <2>1, <2>2 DEF Finite, TypeOK, File, File_s
  <2>7. \A u \in Thread \ {t} : call'[u] = call[u]
    BY <1>0, <2>1 DEF TypeOK
  <2>8. QED
    BY <1>0, <1>1, <1>2, <2>4, <2>5, <2>6, <2>7, SectionType
<1>5. QED  BY <1>3, <1>4

LEMMA ReadConfigIDType ==
  ASSUME FileInv, NEW t \in Thread, UNCHANGED calls, ReadConfigID(t)
  PROVE  FileInv'
<1>1. /\ TypeOK /\ pc[t] = "configID" /\ Goto(t, "set") /\ UNCHANGED shared
      /\ call' = [call EXCEPT ![t].config = currConfigID[call[t].spec]]
  BY DEF FileInv, ReadConfigID
<1>2. currConfigID[call[t].spec] \in Nat
  BY <1>1 DEF TypeOK, Call
<1>3. call' \in [Thread -> Call] /\ call'[t].op = call[t].op
  BY <1>1, <1>2 DEF TypeOK, Call
<1>4. call[t].op \in {"conc", "pH"}
  BY <1>1 DEF FileInv, Places
<1>5. QED  BY <1>1, <1>3, <1>4, PlaceChanges DEF TypeOK, PC, shared

LEMMA SetType ==
  ASSUME FileInv, NEW t \in Thread, UNCHANGED calls, SetSection(t)
  PROVE  FileInv'
<1> DEFINE row == [config |-> call[t].config, reading |-> call[t].reading, of |-> LabelOf(t)]
<1>0. /\ TypeOK /\ Finite /\ pc[t] = "set" /\ Goto(t, "values")
      /\ UNCHANGED <<clock, db, broken, currConfigID, mutex, config>>
      /\ call[t].op \in {"conc", "pH"}
  BY DEF FileInv, SetSection, Places
<1>1. CASE db = NULL
  BY <1>0, <1>1, SectionType DEF SetSection, FileInv, TypeOK, Finite, File_s
<1>2. CASE db # NULL
  <2>1. PICK id \in Inserted("measurement", Len(files[db].sets) + 1) :
          /\ files' = IF id = 0 THEN files ELSE [files EXCEPT ![db].sets = Append(@, row)]
          /\ last' = IF id = 0 THEN last ELSE id
          /\ call' = [call EXCEPT ![t].set = id]
    BY <1>2 DEF SetSection
  <2>2. db \in File_s /\ Len(files[db].sets) + 1 \in Nat
    BY <1>0, <1>2 DEF TypeOK, File, File_s
  <2>3. id \in Nat
    BY <2>2, InsertedType
  <2>4. call' \in [Thread -> Call] /\ call'[t].op = call[t].op
    BY <1>0, <2>1, <2>3 DEF TypeOK, Call, Id
  <2>5. row \in [config : Nat, reading : Id, of : Label]
    BY <1>0, LabelType DEF TypeOK, Call
  <2>6. files' \in [File_s -> File] /\ last' \in Nat
    BY <1>0, <2>1, <2>2, <2>3, <2>5, RowAdded DEF TypeOK, File_s
  <2>7. Finite'
    BY <1>0, <2>1, <2>2 DEF Finite, TypeOK, File, File_s
  <2>8. \A u \in Thread \ {t} : call'[u] = call[u]
    BY <1>0, <2>1 DEF TypeOK
  <2>9. QED
    BY <1>0, <2>4, <2>6, <2>7, <2>8, SectionType
<1>3. QED  BY <1>1, <1>2

LEMMA ValuesType ==
  ASSUME FileInv, NEW t \in Thread, UNCHANGED calls, ValuesSection(t)
  PROVE  FileInv'
<1> DEFINE row == [table |-> call[t].op, set |-> call[t].set, of |-> LabelOf(t)]
<1>0. /\ TypeOK /\ Finite /\ Return(t)
      /\ UNCHANGED <<clock, db, broken, currConfigID, mutex, config>>
      /\ call[t].op \in {"conc", "pH"}
  BY DEF FileInv, ValuesSection, Places
<1>1. CASE db = NULL
  BY <1>0, <1>1, ReturnType, SectionType DEF ValuesSection, FileInv, TypeOK, Finite, File_s
<1>2. CASE db # NULL
  <2>1. db \in File_s /\ Cardinality(files[db].values) + 1 \in Nat
    BY <1>0, <1>2, FS_CardinalityType DEF TypeOK, Finite, File_s
  <2>2. PICK id \in {0, Cardinality(files[db].values) + 1} :
          /\ files' = IF id = 0 THEN files ELSE [files EXCEPT ![db].values = @ \cup {row}]
          /\ last' = IF id = 0 THEN last ELSE id
    BY <1>2 DEF ValuesSection, Inserted
  <2>3. id \in Nat
    BY <2>1, <2>2
  <2>4. row \in [table : {"conc", "pH"}, set : Id, of : Label]
    BY <1>0, LabelType DEF TypeOK, Call
  <2>5. files' \in [File_s -> File] /\ last' \in Nat
    BY <1>0, <2>1, <2>2, <2>3, <2>4, RowAdded DEF TypeOK, File_s
  <2>6. IsFiniteSet(files[db].values \cup {row})
    BY <1>0, <2>1, FS_AddElement DEF Finite
  <2>7. Finite'
    BY <1>0, <2>1, <2>2, <2>6 DEF Finite, TypeOK, File, File_s
  <2>8. QED
    BY <1>0, <2>5, <2>7, ReturnType, SectionType
<1>3. QED  BY <1>1, <1>2

LEMMA SpectrumType ==
  ASSUME FileInv, NEW t \in Thread, UNCHANGED calls, SpectrumSection(t)
  PROVE  FileInv'
<1> DEFINE s == call[t].spec
           row == [time |-> clock, config |-> currConfigID[s], reading |-> call[t].reading,
                   of |-> [LabelOf(t) EXCEPT !.ver = config[s]]]
<1>0. /\ TypeOK /\ Finite /\ Return(t)
      /\ UNCHANGED <<clock, db, broken, currConfigID, mutex, config>>
  BY DEF FileInv, SpectrumSection
<1>1. CASE db = NULL
  BY <1>0, <1>1, ReturnType, SectionType DEF SpectrumSection, FileInv, TypeOK, Finite, File_s
<1>2. CASE db # NULL
  <2>1. db \in File_s /\ Cardinality(files[db].spectra) + 1 \in Nat
    BY <1>0, <1>2, FS_CardinalityType DEF TypeOK, Finite, File_s
  <2>2. PICK id \in {0, Cardinality(files[db].spectra) + 1} :
          /\ files' = IF id = 0 THEN files ELSE [files EXCEPT ![db].spectra = @ \cup {row}]
          /\ last' = IF id = 0 THEN last ELSE id
    BY <1>2 DEF SpectrumSection, Inserted
  <2>3. id \in Nat
    BY <2>1, <2>2
  <2>4. row \in [time : 1..MaxClock, config : Nat, reading : Id, of : Label]
    <3>1. s \in Spec_s /\ call[t].reading \in Id
      BY <1>0 DEF TypeOK, Call
    <3>2. [LabelOf(t) EXCEPT !.ver = config[s]] \in Label
      <4>1. LabelOf(t) \in Label /\ config[s] \in Version
        BY <1>0, <3>1, LabelType DEF TypeOK
      <4>2. QED  BY <4>1 DEF Label
    <3>3. QED  BY <1>0, <3>1, <3>2 DEF TypeOK
  <2>5. files' \in [File_s -> File] /\ last' \in Nat
    BY <1>0, <2>1, <2>2, <2>3, <2>4, RowAdded DEF TypeOK, File_s
  <2>6. IsFiniteSet(files[db].spectra \cup {row})
    BY <1>0, <2>1, FS_AddElement DEF Finite
  <2>7. Finite'
    BY <1>0, <2>1, <2>2, <2>6 DEF Finite, TypeOK, File, File_s
  <2>8. QED
    BY <1>0, <2>5, <2>7, ReturnType, SectionType
<1>3. QED  BY <1>1, <1>2

LEMMA FileInvStep == FileInv /\ [Next]_vars => FileInv'
<1>1. ASSUME FileInv, NEW t \in Thread, Step(t)
      PROVE  FileInv'
  <2>1. UNCHANGED calls
    BY <1>1 DEF Step
  <2>2. QED
    BY <1>1, <2>1, OpenCloseType, LockSaveType, ConfigRowType, ReadingType, ReadConfigIDType,
       SetType, ValuesType, SpectrumType DEF Step
<1>2. ASSUME FileInv, Tick
      PROVE  FileInv'
  <2>1. TypeOK'
    BY <1>2, SizeAssumption DEF FileInv, TypeOK, Tick
  <2>2. QED  BY <1>2, <2>1 DEF FileInv, Places, Finite, Tick
<1>3. ASSUME FileInv, UNCHANGED vars
      PROVE  FileInv'
  BY <1>3 DEF FileInv, TypeOK, Places, Finite, vars, shared
<1>4. QED  BY <1>1, <1>2, <1>3, BeginType DEF Next

\* Every variable has its type: for any menu, and whichever INSERTs fail.
THEOREM Typing == Spec => []TypeOK
<1>1. FileInv => TypeOK
  BY DEF FileInv
<1>2. QED  BY <1>1, FileInvInit, FileInvStep, PTL DEF Spec

-----------------------------------------------------------------------------
(* One writer: a thread that opens files and measures, while others may      *)
(* change and log the configuration, and close the file.                     *)

OneWriter(w) ==
  \A t \in Thread \ {w} : \A op \in Menu[t] : op.op \in {"close", "configure", "tune"}

OwnReading(f, id, by) ==
  id = 0 \/ (id \in DOMAIN files[f].readings /\ files[f].readings[id] = by)

OwnSet(f, id, of) ==
  id = 0 \/ (id \in DOMAIN files[f].sets /\ files[f].sets[id].of = of)

\* The ids that the writer holds are of rows it has written, in the file that is
\* open, or none is open; the others hold no ids.
WriterInv(w) ==
  /\ \A t \in Thread \ {w} : pc[t] \in {"idle", "close", "saveTest", "save", "row"}
  /\ pc[w] \notin {"configID", "set", "values", "spectrum"} => call[w].reading = 0
  /\ pc[w] # "values" => call[w].set = 0
  /\ pc[w] \in {"configID", "set", "spectrum"} /\ db # NULL => OwnReading(db, call[w].reading, w)
  /\ pc[w] = "values" /\ db # NULL => OwnSet(db, call[w].set, LabelOf(w))

RowsBelong ==
  \A f \in File_s :
    /\ \A k \in DOMAIN files[f].sets : OwnReading(f, files[f].sets[k].reading, files[f].sets[k].of.by)
    /\ \A row \in files[f].spectra : OwnReading(f, row.reading, row.of.by)
    /\ \A row \in files[f].values : OwnSet(f, row.set, row.of)

OwnInv(w) == FileInv /\ WriterInv(w) /\ RowsBelong

\* Nothing is written but configurations.
SameRows ==
  \A f \in File_s : /\ files'[f].readings = files[f].readings
                    /\ files'[f].sets = files[f].sets
                    /\ files'[f].values = files[f].values
                    /\ files'[f].spectra = files[f].spectra

LEMMA OwnInit == ASSUME NEW w \in Thread, Init PROVE WriterInv(w) /\ RowsBelong
BY DEF Init, WriterInv, RowsBelong, NewFile, NoCall, File_s

LEMMA SameRowsBelong ==
  ASSUME RowsBelong, SameRows
  PROVE  RowsBelong'
BY DEF RowsBelong, SameRows, OwnReading, OwnSet

\* What another thread does leaves the writer's ids valid.
LEMMA OthersLeave ==
  ASSUME NEW w \in Thread, OwnInv(w), NEW t \in Thread \ {w}, SameRows,
         db' = db \/ db' = NULL,
         pc' = [pc EXCEPT ![t] = pc'[t]], pc'[t] \in {"idle", "close", "saveTest", "save", "row"},
         call' = [call EXCEPT ![t] = call'[t]]
  PROVE  WriterInv(w)' /\ RowsBelong'
<1>1. pc'[w] = pc[w] /\ call'[w] = call[w]
  BY DEF OwnInv, FileInv, TypeOK
<1>2. \A u \in Thread \ {w} : pc'[u] \in {"idle", "close", "saveTest", "save", "row"}
  BY DEF OwnInv, WriterInv, FileInv, TypeOK
<1>3. db # NULL => db \in File_s
  BY DEF OwnInv, FileInv, TypeOK, File_s
<1>4. WriterInv(w)'
  BY <1>1, <1>2, <1>3 DEF OwnInv, WriterInv, SameRows, OwnReading, OwnSet, LabelOf
<1>5. QED  BY <1>4, SameRowsBelong DEF OwnInv

\* What the writer does between its measurements.
LEMMA WriterElsewhere ==
  ASSUME NEW w \in Thread, OwnInv(w), SameRows,
         pc[w] \notin {"configID", "set", "values", "spectrum"},
         \A t \in Thread \ {w} : pc'[t] = pc[t],
         pc'[w] \notin {"configID", "set", "values", "spectrum"},
         call'[w].reading \in {0, call[w].reading}, call'[w].set \in {0, call[w].set}
  PROVE  WriterInv(w)' /\ RowsBelong'
<1>1. WriterInv(w)'
  BY DEF OwnInv, WriterInv
<1>2. QED  BY <1>1, SameRowsBelong DEF OwnInv

LEMMA ConfigRowSameRows ==
  ASSUME FileInv, NEW t \in Thread, ConfigRow(t)
  PROVE  SameRows
<1>1. \/ files' = files
      \/ files' = [files EXCEPT ![db].configs =
                     Append(@, [spec |-> call[t].at, ver |-> config[call[t].at]])]
  BY DEF ConfigRow
<1>2. files \in [File_s -> File]
  BY DEF FileInv, TypeOK, File_s
<1>3. QED  BY <1>1, <1>2 DEF SameRows, File

LEMMA OwnOthers ==
  ASSUME NEW w \in Thread, OneWriter(w), OwnInv(w), NEW t \in Thread \ {w}, Begin(t) \/ Step(t)
  PROVE  WriterInv(w)' /\ RowsBelong'
<1>0. /\ FileInv /\ TypeOK
      /\ pc \in [Thread -> PC] /\ call \in [Thread -> Call]
      /\ pc[t] \in {"idle", "close", "saveTest", "save", "row"}
      /\ files' = files => SameRows
  BY DEF OwnInv, FileInv, TypeOK, WriterInv, SameRows
<1>1. ASSUME NEW op, Calls(t, op)
      PROVE  op.op \in {"close", "configure", "tune"}
  BY <1>1 DEF OneWriter, Calls
<1>2. CASE Close(t)
  <2>1. /\ pc' = [pc EXCEPT ![t] = "close"] /\ call' = [call EXCEPT ![t].op = "close"]
        /\ UNCHANGED <<files, db>>
    BY <1>2 DEF Close, Goto, shared
  <2>2. QED  BY <1>0, <2>1, OthersLeave
<1>3. ASSUME NEW s \in Spec_s, Configure(t, s)
      PROVE  WriterInv(w)' /\ RowsBelong'
  <2>1. /\ pc' = [pc EXCEPT ![t] = "saveTest"] /\ call' = [call EXCEPT ![t].op = "configure"]
        /\ UNCHANGED <<files, db>>
    BY <1>3 DEF Configure, Goto
  <2>2. QED  BY <1>0, <2>1, OthersLeave
<1>4. ASSUME NEW s \in Spec_s, Tune(t, s)
      PROVE  WriterInv(w)' /\ RowsBelong'
  BY <1>0, <1>4, OthersLeave DEF Tune
<1>5. ~Open(t) /\ \A op \in {"conc", "pH", "spectrum"}, s \in Spec_s : ~Measure(t, op, s)
  <2>1. ~Calls(t, [op |-> "open"])
    BY <1>1
  <2>2. \A op \in {"conc", "pH", "spectrum"}, s \in Spec_s : ~Calls(t, [op |-> op, spec |-> s])
    BY <1>1
  <2>3. QED  BY <2>1, <2>2 DEF Open, Measure
<1>6. CASE CloseSection(t) \/ SaveTest(t) \/ LockSave(t)
  <2>1. /\ \E l \in {"idle", "save", "row"} : pc' = [pc EXCEPT ![t] = l]
        /\ call' = call \/ call' = [call EXCEPT ![t] = NoCall]
        /\ files' = files /\ db' \in {db, NULL}
    BY <1>6 DEF CloseSection, SaveTest, LockSave, Return, Goto, shared
  <2>2. QED  BY <1>0, <2>1, OthersLeave
<1>7. CASE ConfigRow(t)
  <2>1. /\ pc' = pc \/ pc' = [pc EXCEPT ![t] = "idle"]
        /\ \/ call' = [call EXCEPT ![t].at = call[t].at + 1]
           \/ call' = [call EXCEPT ![t] = NoCall]
        /\ db' = db
    BY <1>7 DEF ConfigRow, Return, Goto
  <2>2. QED  BY <1>0, <1>7, <2>1, ConfigRowSameRows, OthersLeave
<1>8. ~OpenSection(t) /\ ~ReadingSection(t) /\ ~ReadConfigID(t) /\ ~SetSection(t)
      /\ ~ValuesSection(t) /\ ~SpectrumSection(t)
  BY <1>0 DEF OpenSection, ReadingSection, ReadConfigID, SetSection, ValuesSection,
              SpectrumSection
<1>9. QED
  BY <1>2, <1>3, <1>4, <1>5, <1>6, <1>7, <1>8 DEF Begin, Step

LEMMA OwnBetween ==
  ASSUME NEW w \in Thread, OwnInv(w),
         Begin(w) \/ OpenSection(w) \/ CloseSection(w) \/ SaveTest(w) \/ LockSave(w)
           \/ ConfigRow(w)
  PROVE  WriterInv(w)' /\ RowsBelong'
<1>0. /\ FileInv /\ pc \in [Thread -> PC] /\ call \in [Thread -> Call]
      /\ files' = files => SameRows
  BY DEF OwnInv, FileInv, TypeOK, SameRows
<1>1. CASE Open(w) \/ Close(w)
  <2>1. /\ pc[w] = "idle" /\ UNCHANGED files
        /\ \E l \in {"open", "close"} : /\ pc' = [pc EXCEPT ![w] = l]
                                      /\ call' = [call EXCEPT ![w].op = l]
    BY <1>1 DEF Open, Close, Calls, Goto, shared
  <2>2. call'[w].reading = call[w].reading /\ call'[w].set = call[w].set
    BY <1>0, <2>1 DEF Call
  <2>3. QED  BY <1>0, <2>1, <2>2, WriterElsewhere
<1>2. ASSUME NEW s \in Spec_s, Configure(w, s) \/ Tune(w, s)
      PROVE  WriterInv(w)' /\ RowsBelong'
  <2>1. /\ pc[w] = "idle" /\ UNCHANGED files
        /\ pc' = pc \/ pc' = [pc EXCEPT ![w] = "saveTest"]
        /\ call' = call \/ call' = [call EXCEPT ![w].op = "configure"]
    BY <1>2 DEF Configure, Tune, Calls, Goto
  <2>2. call'[w].reading = call[w].reading /\ call'[w].set = call[w].set
    BY <1>0, <2>1 DEF Call
  <2>3. QED  BY <1>0, <2>1, <2>2, WriterElsewhere
<1>3. ASSUME NEW s \in Spec_s, NEW op \in {"conc", "pH", "spectrum"}, Measure(w, op, s)
      PROVE  WriterInv(w)' /\ RowsBelong'
  <2>1. /\ pc[w] = "idle" /\ UNCHANGED files
        /\ pc' = [pc EXCEPT ![w] = "reading"]
        /\ call' = [call EXCEPT ![w].op = op, ![w].spec = s, ![w].ver = config[s]]
    BY <1>3 DEF Measure, Calls, Goto, shared
  <2>2. call'[w].reading = call[w].reading /\ call'[w].set = call[w].set
    BY <1>0, <2>1 DEF Call
  <2>3. QED  BY <1>0, <2>1, <2>2, WriterElsewhere
<1>4. CASE OpenSection(w) \/ CloseSection(w) \/ SaveTest(w) \/ LockSave(w)
  <2>1. /\ pc[w] \in {"open", "close", "saveTest", "save"} /\ UNCHANGED files
        /\ \E l \in {"idle", "saveTest", "save", "row"} : pc' = [pc EXCEPT ![w] = l]
        /\ call' = call \/ call' = [call EXCEPT ![w] = NoCall]
    BY <1>4 DEF OpenSection, CloseSection, SaveTest, LockSave, Return, Goto, shared
  <2>2. call'[w].reading \in {0, call[w].reading} /\ call'[w].set \in {0, call[w].set}
    BY <1>0, <2>1 DEF NoCall
  <2>3. QED  BY <1>0, <2>1, <2>2, WriterElsewhere
<1>5. CASE ConfigRow(w)
  <2>1. /\ pc[w] = "row"
        /\ pc' = pc \/ pc' = [pc EXCEPT ![w] = "idle"]
        /\ \/ call' = [call EXCEPT ![w].at = call[w].at + 1]
           \/ call' = [call EXCEPT ![w] = NoCall]
    BY <1>5 DEF ConfigRow, Return, Goto
  <2>2. call'[w].reading \in {0, call[w].reading} /\ call'[w].set \in {0, call[w].set}
    BY <1>0, <2>1 DEF NoCall, Call
  <2>3. QED  BY <1>0, <1>5, <2>1, <2>2, ConfigRowSameRows, WriterElsewhere
<1>6. QED
  BY <1>1, <1>2, <1>3, <1>4, <1>5 DEF Begin

\* A row at the end leaves the rows before it where they are.
LEMMA Appended ==
  ASSUME NEW S, NEW rows \in Seq(S), NEW row \in S
  PROVE  /\ DOMAIN Append(rows, row) = 1..(Len(rows) + 1)
         /\ \A k \in DOMAIN rows : k \in DOMAIN Append(rows, row) /\ Append(rows, row)[k] = rows[k]
         /\ Append(rows, row)[Len(rows) + 1] = row
BY AppendProperties

LEMMA OwnReadingSection ==
  ASSUME NEW w \in Thread, OwnInv(w), ReadingSection(w)
  PROVE  WriterInv(w)' /\ RowsBelong'
<1>0. /\ TypeOK /\ RowsBelong /\ files \in [File_s -> File] /\ call \in [Thread -> Call]
      /\ pc[w] = "reading" /\ db' = db
      /\ call[w].reading = 0 /\ call[w].set = 0
      /\ \A t \in Thread \ {w} : pc[t] \in {"idle", "close", "saveTest", "save", "row"}
  BY DEF OwnInv, FileInv, TypeOK, WriterInv, ReadingSection, File_s
<1>1. pc'[w] \in {"configID", "spectrum"} /\ \A t \in Thread \ {w} : pc'[t] = pc[t]
  BY <1>0 DEF ReadingSection, Goto, TypeOK
<1>2. CASE db = NULL
  <2>1. UNCHANGED <<files, call>>
    BY <1>2 DEF ReadingSection
  <2>2. RowsBelong'
    BY <1>0, <2>1 DEF RowsBelong, OwnReading, OwnSet
  <2>3. QED  BY <1>0, <1>1, <1>2, <2>1, <2>2 DEF WriterInv
<1>3. CASE db # NULL
  <2>1. db \in File_s /\ files[db].readings \in Seq(Thread)
    BY <1>0, <1>3 DEF TypeOK, File, File_s
  <2>2. PICK id \in {0, Len(files[db].readings) + 1} :
          /\ files' = IF id = 0 THEN files ELSE [files EXCEPT ![db].readings = Append(@, w)]
          /\ call' = [call EXCEPT ![w].reading = id]
    BY <1>3 DEF ReadingSection, Inserted
  <2>3. /\ \A f \in File_s : /\ files'[f].sets = files[f].sets
                            /\ files'[f].values = files[f].values
                            /\ files'[f].spectra = files[f].spectra
        /\ \A f \in File_s : files'[f].readings \in
                              {files[f].readings, Append(files[f].readings, w)}
        /\ id # 0 => files'[db].readings = Append(files[db].readings, w)
    BY <1>0, <2>1, <2>2 DEF File
  <2>4. \A f \in File_s : \A k \in DOMAIN files[f].readings :
          k \in DOMAIN files'[f].readings /\ files'[f].readings[k] = files[f].readings[k]
    <3> SUFFICES ASSUME NEW f \in File_s, NEW k \in DOMAIN files[f].readings
                 PROVE  k \in DOMAIN files'[f].readings /\ files'[f].readings[k] = files[f].readings[k]
      OBVIOUS
    <3>1. files[f].readings \in Seq(Thread)
      BY <1>0 DEF File
    <3>2. QED  BY <2>3, <3>1, Appended
  <2>5. \A f \in File_s : \A n, by : OwnReading(f, n, by) => OwnReading(f, n, by)'
    BY <2>4 DEF OwnReading
  <2>6. RowsBelong'
    BY <1>0, <2>3, <2>5 DEF RowsBelong, OwnSet
  <2>7. call'[w].reading = id /\ call'[w].set = 0
    BY <1>0, <2>2 DEF Call
  <2>8. OwnReading(db, id, w)'
    <3>1. /\ Len(files[db].readings) + 1 \in DOMAIN Append(files[db].readings, w)
          /\ Append(files[db].readings, w)[Len(files[db].readings) + 1] = w
      <4>1. Len(files[db].readings) \in Nat
        BY <2>1
      <4>2. QED  BY <2>1, <4>1, Appended
    <3>2. id = 0 \/ (id \in DOMAIN files'[db].readings /\ files'[db].readings[id] = w)
      BY <2>2, <2>3, <3>1
    <3>3. QED  BY <1>0, <3>2 DEF OwnReading
  <2>9. WriterInv(w)'
    BY <1>0, <1>1, <2>7, <2>8 DEF WriterInv
  <2>10. QED  BY <2>6, <2>9
<1>4. QED  BY <1>2, <1>3

LEMMA OwnConfigID ==
  ASSUME NEW w \in Thread, OwnInv(w), ReadConfigID(w)
  PROVE  WriterInv(w)' /\ RowsBelong'
<1>1. /\ pc \in [Thread -> PC] /\ call \in [Thread -> Call]
      /\ pc[w] = "configID" /\ pc' = [pc EXCEPT ![w] = "set"]
      /\ call' = [call EXCEPT ![w].config = currConfigID[call[w].spec]]
      /\ UNCHANGED <<files, db>>
  BY DEF OwnInv, FileInv, TypeOK, ReadConfigID, Goto, shared
<1>2. call'[w].reading = call[w].reading /\ call'[w].set = call[w].set
  BY <1>1 DEF Call
<1>3. RowsBelong'
  BY <1>1 DEF OwnInv, RowsBelong, OwnReading, OwnSet
<1>4. WriterInv(w)'
  BY <1>1, <1>2 DEF OwnInv, WriterInv, OwnReading
<1>5. QED  BY <1>3, <1>4

LEMMA OwnSetSection ==
  ASSUME NEW w \in Thread, OwnInv(w), SetSection(w)
  PROVE  WriterInv(w)' /\ RowsBelong'
<1> DEFINE row == [config |-> call[w].config, reading |-> call[w].reading, of |-> LabelOf(w)]
           Row == [config : Nat, reading : Id, of : Label]
<1>0. /\ TypeOK /\ RowsBelong /\ files \in [File_s -> File] /\ call \in [Thread -> Call]
      /\ pc[w] = "set" /\ db' = db /\ call[w].set = 0
      /\ db # NULL => OwnReading(db, call[w].reading, w)
      /\ \A t \in Thread \ {w} : pc[t] \in {"idle", "close", "saveTest", "save", "row"}
  BY DEF OwnInv, FileInv, TypeOK, WriterInv, SetSection, File_s
<1>1. pc'[w] = "values" /\ \A t \in Thread \ {w} : pc'[t] = pc[t]
  BY <1>0 DEF SetSection, Goto, TypeOK
<1>2. CASE db = NULL
  <2>1. UNCHANGED <<files, call>>
    BY <1>2 DEF SetSection
  <2>2. RowsBelong'
    BY <1>0, <2>1 DEF RowsBelong, OwnReading, OwnSet
  <2>3. QED  BY <1>0, <1>1, <1>2, <2>1, <2>2 DEF WriterInv
<1>3. CASE db # NULL
  <2>1. db \in File_s /\ files[db].sets \in Seq(Row)
    BY <1>0, <1>3 DEF TypeOK, File, File_s
  <2>2. row \in Row /\ row.reading = call[w].reading /\ row.of = LabelOf(w) /\ row.of.by = w
    BY <1>0, LabelType DEF Call, LabelOf
  <2> HIDE DEF row, Row
  <2>3. PICK id \in {0, Len(files[db].sets) + 1} :
          /\ files' = IF id = 0 THEN files ELSE [files EXCEPT ![db].sets = Append(@, row)]
          /\ call' = [call EXCEPT ![w].set = id]
    BY <1>3 DEF SetSection, Inserted, row
  <2>4. /\ \A f \in File_s : /\ files'[f].readings = files[f].readings
                            /\ files'[f].values = files[f].values
                            /\ files'[f].spectra = files[f].spectra
        /\ \A f \in File_s \ {db} : files'[f].sets = files[f].sets
        /\ files'[db].sets = IF id = 0 THEN files[db].sets ELSE Append(files[db].sets, row)
    BY <1>0, <2>1, <2>3 DEF File
  <2>5. /\ DOMAIN Append(files[db].sets, row) = 1..(Len(files[db].sets) + 1)
        /\ DOMAIN files[db].sets = 1..Len(files[db].sets) /\ Len(files[db].sets) \in Nat
        /\ \A k \in DOMAIN files[db].sets :
              /\ k \in DOMAIN Append(files[db].sets, row)
              /\ Append(files[db].sets, row)[k] = files[db].sets[k]
        /\ Append(files[db].sets, row)[Len(files[db].sets) + 1] = row
    BY <2>1, <2>2, Appended
  <2>6. \A f \in File_s : \A k \in DOMAIN files[f].sets :
          k \in DOMAIN files'[f].sets /\ files'[f].sets[k] = files[f].sets[k]
    BY <2>4, <2>5
  <2>7. /\ \A f \in File_s : \A n, of : OwnSet(f, n, of) => OwnSet(f, n, of)'
        /\ \A f \in File_s : \A n, by : OwnReading(f, n, by)' <=> OwnReading(f, n, by)
    BY <2>4, <2>6 DEF OwnSet, OwnReading
  <2>8. \A f \in File_s : \A k \in DOMAIN files'[f].sets :
          \/ k \in DOMAIN files[f].sets /\ files'[f].sets[k] = files[f].sets[k]
          \/ f = db /\ files'[f].sets[k] = row
    <3>1. \A k \in DOMAIN Append(files[db].sets, row) :
            k \in DOMAIN files[db].sets \/ k = Len(files[db].sets) + 1
      BY <2>5
    <3>2. QED  BY <2>4, <2>5, <3>1
  <2>9. RowsBelong'
    <3>1. \A f \in File_s : \A k \in DOMAIN files'[f].sets :
            OwnReading(f, files'[f].sets[k].reading, files'[f].sets[k].of.by)
      BY <1>0, <1>3, <2>2, <2>8 DEF RowsBelong
    <3>2. QED  BY <1>0, <2>4, <2>7, <3>1 DEF RowsBelong
  <2>10. /\ call'[w].set = id /\ LabelOf(w)' = LabelOf(w)
         /\ call'[w].reading = call[w].reading
    BY <1>0, <2>3 DEF Call, LabelOf
  <2>11. OwnSet(db, id, LabelOf(w))'
    <3>1. Len(files[db].sets) + 1 \in DOMAIN Append(files[db].sets, row)
      BY <2>5
    <3>2. id = 0 \/ (id \in DOMAIN files'[db].sets /\ files'[db].sets[id].of = LabelOf(w))
      BY <2>2, <2>3, <2>4, <2>5, <3>1
    <3>3. QED  BY <1>0, <2>10, <3>2 DEF OwnSet
  <2>12. WriterInv(w)'
    BY <1>0, <1>1, <2>10, <2>11 DEF WriterInv
  <2>13. QED  BY <2>9, <2>12
<1>4. QED  BY <1>2, <1>3

\* The values or the spectrum end the measurement.
LEMMA OwnLastSection ==
  ASSUME NEW w \in Thread, OwnInv(w), ValuesSection(w) \/ SpectrumSection(w)
  PROVE  WriterInv(w)' /\ RowsBelong'
<1>0. /\ TypeOK /\ RowsBelong /\ files \in [File_s -> File] /\ call \in [Thread -> Call]
      /\ db # NULL => db \in File_s
      /\ \A t \in Thread \ {w} : pc[t] \in {"idle", "close", "saveTest", "save", "row"}
  BY DEF OwnInv, FileInv, TypeOK, WriterInv, File_s
<1>1. Return(w)
  BY DEF ValuesSection, SpectrumSection
<1>2. /\ pc'[w] = "idle" /\ \A t \in Thread \ {w} : pc'[t] = pc[t]
      /\ call'[w].reading = 0 /\ call'[w].set = 0
  BY <1>0, <1>1 DEF Return, Goto, TypeOK, NoCall
<1>3. WriterInv(w)'
  BY <1>0, <1>2 DEF WriterInv
<1>4. ASSUME files' = files
      PROVE  RowsBelong'
  BY <1>0, <1>4 DEF RowsBelong, OwnReading, OwnSet
<1>5. ASSUME db # NULL, NEW row, row.set = call[w].set, row.of = LabelOf(w),
             pc[w] = "values", files' = [files EXCEPT ![db].values = @ \cup {row}]
      PROVE  RowsBelong'
  <2>1. /\ \A f \in File_s : /\ files'[f].readings = files[f].readings
                            /\ files'[f].sets = files[f].sets
                            /\ files'[f].spectra = files[f].spectra
        /\ \A f \in File_s : \A v \in files'[f].values :
              v \in files[f].values \/ (f = db /\ v = row)
    BY <1>0, <1>5 DEF File
  <2>2. OwnSet(db, row.set, row.of)
    BY <1>5 DEF OwnInv, WriterInv
  <2>3. /\ \A f \in File_s : \A n, of : OwnSet(f, n, of)' <=> OwnSet(f, n, of)
        /\ \A f \in File_s : \A n, by : OwnReading(f, n, by)' <=> OwnReading(f, n, by)
    BY <2>1 DEF OwnSet, OwnReading
  <2>4. QED  BY <1>0, <2>1, <2>2, <2>3 DEF RowsBelong
<1>6. ASSUME db # NULL, NEW row, row.reading = call[w].reading, row.of.by = w,
             pc[w] = "spectrum", files' = [files EXCEPT ![db].spectra = @ \cup {row}]
      PROVE  RowsBelong'
  <2>1. /\ \A f \in File_s : /\ files'[f].readings = files[f].readings
                            /\ files'[f].sets = files[f].sets
                            /\ files'[f].values = files[f].values
        /\ \A f \in File_s : \A v \in files'[f].spectra :
              v \in files[f].spectra \/ (f = db /\ v = row)
    BY <1>0, <1>6 DEF File
  <2>2. OwnReading(db, row.reading, row.of.by)
    BY <1>6 DEF OwnInv, WriterInv
  <2>3. /\ \A f \in File_s : \A n, of : OwnSet(f, n, of)' <=> OwnSet(f, n, of)
        /\ \A f \in File_s : \A n, by : OwnReading(f, n, by)' <=> OwnReading(f, n, by)
    BY <2>1 DEF OwnSet, OwnReading
  <2>4. QED  BY <1>0, <2>1, <2>2, <2>3 DEF RowsBelong
<1>7. CASE ValuesSection(w) /\ files' # files
  <2> DEFINE row == [table |-> call[w].op, set |-> call[w].set, of |-> LabelOf(w)]
  <2>1. /\ pc[w] = "values" /\ db # NULL
        /\ files' = [files EXCEPT ![db].values = @ \cup {row}]
    BY <1>7 DEF ValuesSection
  <2>2. row.set = call[w].set /\ row.of = LabelOf(w)
    OBVIOUS
  <2> HIDE DEF row
  <2>3. QED  BY <1>3, <1>5, <2>1, <2>2
<1>8. CASE SpectrumSection(w) /\ files' # files
  <2> DEFINE row == [time |-> clock, config |-> currConfigID[call[w].spec],
                     reading |-> call[w].reading,
                     of |-> [LabelOf(w) EXCEPT !.ver = config[call[w].spec]]]
  <2>1. /\ pc[w] = "spectrum" /\ db # NULL
        /\ files' = [files EXCEPT ![db].spectra = @ \cup {row}]
    BY <1>8 DEF SpectrumSection
  <2>2. row.reading = call[w].reading /\ row.of.by = w
    BY DEF LabelOf
  <2> HIDE DEF row
  <2>3. QED  BY <1>3, <1>6, <2>1, <2>2
<1>9. QED  BY <1>3, <1>4, <1>7, <1>8

LEMMA OwnStep ==
  ASSUME NEW w \in Thread, OneWriter(w), OwnInv(w), [Next]_vars
  PROVE  WriterInv(w)' /\ RowsBelong'
<1>1. CASE Tick \/ UNCHANGED vars
  <2>1. UNCHANGED <<files, db, call, pc>>
    BY <1>1 DEF Tick, vars, shared
  <2>2. QED
    BY <2>1 DEF OwnInv, WriterInv, RowsBelong, OwnReading, OwnSet, LabelOf
<1>2. ASSUME NEW t \in Thread \ {w}, Begin(t) \/ Step(t)
      PROVE  WriterInv(w)' /\ RowsBelong'
  BY <1>2, OwnOthers
<1>3. CASE Begin(w) \/ Step(w)
  BY <1>3, OwnBetween, OwnReadingSection, OwnConfigID, OwnSetSection, OwnLastSection DEF Step
<1>4. QED  BY <1>1, <1>2, <1>3 DEF Next

LEMMA OwnAlways ==
  ASSUME NEW w \in Thread, OneWriter(w)
  PROVE  Spec => []OwnInv(w)
<1>1. Init => OwnInv(w)
  BY FileInvInit, OwnInit DEF OwnInv
<1>2. OwnInv(w) /\ [Next]_vars => OwnInv(w)'
  BY FileInvStep, OwnStep DEF OwnInv
<1>3. QED  BY <1>1, <1>2, PTL DEF Spec

\* With one writer every set and spectrum refers to the reading that was taken for it:
\* for any others that configure and close, and whichever INSERTs fail.
THEOREM ReadingsAreOwn ==
  ASSUME NEW w \in Thread, OneWriter(w)
  PROVE  Spec => []ReadingsBelong
<1>1. OwnInv(w) => ReadingsBelong
  BY DEF OwnInv, RowsBelong, ReadingsBelong, OwnReading
<1>2. QED  BY <1>1, OwnAlways, PTL

\* With one writer every value hangs on the set that was written for it.
THEOREM ValuesAreOwn ==
  ASSUME NEW w \in Thread, OneWriter(w)
  PROVE  Spec => []ValuesBelong
<1>1. OwnInv(w) => ValuesBelong
  BY DEF OwnInv, RowsBelong, ValuesBelong, OwnSet
<1>2. QED  BY <1>1, OwnAlways, PTL

-----------------------------------------------------------------------------
(* The configurations that rows name.                                      *)

\* The spectrometers that w measures with.
Measured(w) ==
  {s \in Spec_s : \E op \in {"conc", "pH", "spectrum"} : [op |-> op, spec |-> s] \in Menu[w]}

\* Nobody else changes their configurations, and w logs its changes.
OwnConfigs(w) ==
  \A s \in Measured(w) :
    /\ [op |-> "tune", spec |-> s] \notin Menu[w]
    /\ \A t \in Thread \ {w} : /\ [op |-> "tune", spec |-> s] \notin Menu[t]
                               /\ [op |-> "configure", spec |-> s] \notin Menu[t]

Names(f, id, s, v) ==
  id \in DOMAIN files[f].configs /\ files[f].configs[id].spec = s /\ files[f].configs[id].ver = v

\* w has logged the configuration of s, since it opened the file or changed it.
HasLogged(w, s) ==
  pc[w] \notin {"saveTest", "save", "row"} \/ (pc[w] = "row" /\ s < call[w].at)

LabelInv(w) ==
  /\ pc[w] = "open" => db = NULL
  /\ pc[w] # "row" => call[w].at = 1
  /\ \A s \in Measured(w) : db # NULL /\ HasLogged(w, s) => Names(db, currConfigID[s], s, config[s])
  /\ pc[w] \in {"reading", "configID", "set", "spectrum"} =>
       call[w].spec \in Measured(w) /\ call[w].ver = config[call[w].spec]
  /\ pc[w] = "set" /\ db # NULL => Names(db, call[w].config, call[w].spec, call[w].ver)
  /\ ConfigLabels

LabelAssumption(w) == OneWriter(w) /\ OwnConfigs(w) /\ "config" \notin Failing

ConfigsGrow ==
  \A f \in File_s : \A k \in DOMAIN files[f].configs :
    k \in DOMAIN files'[f].configs /\ files'[f].configs[k] = files[f].configs[k]

LEMMA NamesStay ==
  ASSUME ConfigsGrow, NEW f \in File_s, NEW id, NEW s, NEW v, Names(f, id, s, v)
  PROVE  Names(f, id, s, v)'
BY DEF ConfigsGrow, Names

\* No set or spectrum is added.
LEMMA LabelsStay ==
  ASSUME ConfigLabels, SameRows, ConfigsGrow
  PROVE  ConfigLabels'
BY DEF ConfigLabels, LabelledBy, SameRows, ConfigsGrow

LEMMA ConfigRowNames ==
  ASSUME FileInv, "config" \notin Failing, NEW t \in Thread, ConfigRow(t),
         NEW s \in Spec_s, s = call[t].at
  PROVE  /\ ConfigsGrow /\ SameRows /\ db' = db /\ config' = config /\ db \in File_s
         /\ Names(db, currConfigID[s], s, config[s])'
         /\ \A u \in Spec_s \ {s} : currConfigID'[u] = currConfigID[u]
<1> DEFINE row == [spec |-> s, ver |-> config[s]]
           rows == files[db].configs
           R == [spec : Spec_s, ver : Version]
<1>0. TypeOK /\ db \in File_s /\ files \in [File_s -> File]
  BY DEF FileInv, ConfigRow, Places, TypeOK, File_s
<1>1. row \in R /\ rows \in Seq(R)
  BY <1>0 DEF TypeOK, Call, File
<1>2. PICK id \in Inserted("config", Len(rows) + 1) :
        /\ files' = IF id = 0 THEN files ELSE [files EXCEPT ![db].configs = Append(@, row)]
        /\ last' = IF id = 0 THEN last ELSE id
        /\ currConfigID' = [currConfigID EXCEPT ![s] = last']
  BY DEF ConfigRow
<1>3. id = Len(rows) + 1 /\ id # 0
  <2>1. Len(rows) \in Nat
    <3> HIDE DEF rows, R
    <3>1. QED  BY <1>1
  <2>2. QED  BY <1>2, <2>1 DEF Inserted
<1>4. /\ files' = [files EXCEPT ![db].configs = Append(@, row)]
      /\ currConfigID' = [currConfigID EXCEPT ![s] = id]
      /\ currConfigID \in [Spec_s -> Nat]
  BY <1>0, <1>2, <1>3 DEF TypeOK
<1>5. /\ files'[db].configs = Append(rows, row)
      /\ \A f \in File_s \ {db} : files'[f].configs = files[f].configs
  BY <1>0, <1>4 DEF File
<1>6. row.spec = s /\ row.ver = config[s]
  OBVIOUS
<1>7. currConfigID'[s] = id /\ \A u \in Spec_s \ {s} : currConfigID'[u] = currConfigID[u]
  BY <1>4
<1>8. db' = db /\ config' = config
  BY DEF ConfigRow
<1> HIDE DEF row, R
<1>9. /\ DOMAIN Append(rows, row) = 1..(Len(rows) + 1) /\ Len(rows) \in Nat
      /\ \A k \in DOMAIN rows : k \in DOMAIN Append(rows, row) /\ Append(rows, row)[k] = rows[k]
      /\ Append(rows, row)[Len(rows) + 1] = row
  <2> HIDE DEF rows
  <2>1. QED  BY <1>1, Appended
<1>10. ConfigsGrow
  BY <1>5, <1>9 DEF ConfigsGrow
<1>11. id \in DOMAIN files'[db].configs /\ files'[db].configs[id] = row
  BY <1>3, <1>5, <1>9
<1>12. Names(db, currConfigID[s], s, config[s])'
  BY <1>6, <1>7, <1>8, <1>11 DEF Names
<1>13. QED
  BY <1>0, <1>7, <1>8, <1>10, <1>12, ConfigRowSameRows

\* Another thread that leaves what w has logged, or logs it again.
LEMMA LabelKept ==
  ASSUME NEW w \in Thread, OwnInv(w), LabelInv(w), SameRows, ConfigsGrow,
         db' \in {db, NULL}, pc'[w] = pc[w], call'[w] = call[w],
         \A s \in Measured(w) : config'[s] = config[s],
         \A s \in Measured(w) : db' # NULL => \/ currConfigID'[s] = currConfigID[s]
                                              \/ Names(db, currConfigID[s], s, config[s])'
  PROVE  LabelInv(w)'
<1>0. db = NULL \/ db \in File_s
  BY DEF OwnInv, FileInv, TypeOK, File_s
<1>1. ConfigLabels'
  BY LabelsStay DEF LabelInv
<1>2. ASSUME NEW s \in Measured(w), db' # NULL, HasLogged(w, s)'
      PROVE  Names(db, currConfigID[s], s, config[s])'
  <2>1. db' = db /\ db \in File_s /\ HasLogged(w, s)
    BY <1>0, <1>2 DEF HasLogged
  <2>2. Names(db, currConfigID[s], s, config[s])
    BY <1>2, <2>1 DEF LabelInv
  <2>3. QED  BY <1>2, <2>1, <2>2 DEF Names, ConfigsGrow
<1>3. pc[w] = "set" /\ db' # NULL => Names(db, call[w].config, call[w].spec, call[w].ver)'
  <2>1. SUFFICES ASSUME pc[w] = "set", db' # NULL
                 PROVE  Names(db, call[w].config, call[w].spec, call[w].ver)'
    OBVIOUS
  <2>2. db' = db /\ db \in File_s /\ Names(db, call[w].config, call[w].spec, call[w].ver)
    BY <1>0, <2>1 DEF LabelInv
  <2>3. QED  BY <2>2 DEF Names, ConfigsGrow
<1>4. /\ pc'[w] = "open" => db' = NULL
      /\ pc'[w] # "row" => call'[w].at = 1
      /\ pc'[w] \in {"reading", "configID", "set", "spectrum"} =>
           call'[w].spec \in Measured(w) /\ call'[w].ver = config'[call'[w].spec]
  BY DEF LabelInv
<1>5. QED  BY <1>1, <1>2, <1>3, <1>4 DEF LabelInv

LEMMA LabelOthers ==
  ASSUME NEW w \in Thread, LabelAssumption(w), OwnInv(w), LabelInv(w),
         NEW t \in Thread \ {w}, Begin(t) \/ Step(t)
  PROVE  LabelInv(w)'
<1>0. /\ FileInv /\ TypeOK /\ OneWriter(w)
      /\ pc \in [Thread -> PC] /\ call \in [Thread -> Call] /\ config \in [Spec_s -> Version]
      /\ pc[t] \in {"idle", "close", "saveTest", "save", "row"}
      /\ files' = files => SameRows /\ ConfigsGrow
  BY DEF OwnInv, FileInv, TypeOK, WriterInv, SameRows, ConfigsGrow, LabelAssumption
<1>1. ASSUME NEW op, Calls(t, op)
      PROVE  op \in Menu[t] /\ op.op \in {"close", "configure", "tune"}
  BY <1>0, <1>1 DEF OneWriter, Calls
<1>2. CASE Close(t)
  <2>1. /\ pc' = [pc EXCEPT ![t] = "close"] /\ call' = [call EXCEPT ![t].op = "close"]
        /\ UNCHANGED shared
    BY <1>2 DEF Close, Goto
  <2>2. pc'[w] = pc[w] /\ call'[w] = call[w]
    BY <1>0, <2>1
  <2>3. QED  BY <1>0, <2>1, <2>2, LabelKept DEF shared
<1>3. ASSUME NEW s \in Spec_s, Configure(t, s) \/ Tune(t, s)
      PROVE  LabelInv(w)'
  <2>1. /\ pc' = pc \/ pc' = [pc EXCEPT ![t] = "saveTest"]
        /\ call' = call \/ call' = [call EXCEPT ![t].op = "configure"]
        /\ config' = [config EXCEPT ![s] = @ + 1]
        /\ UNCHANGED <<files, db, currConfigID>>
    BY <1>3 DEF Configure, Tune, Goto
  <2>2. s \notin Measured(w)
    <3>1. \/ [op |-> "configure", spec |-> s] \in Menu[t]
          \/ [op |-> "tune", spec |-> s] \in Menu[t]
      BY <1>1, <1>3 DEF Configure, Tune
    <3>2. QED  BY <3>1 DEF LabelAssumption, OwnConfigs
  <2>3. pc'[w] = pc[w] /\ call'[w] = call[w]
    BY <1>0, <2>1
  <2>4. \A u \in Measured(w) : config'[u] = config[u]
    BY <1>0, <2>1, <2>2 DEF Measured
  <2>5. QED  BY <1>0, <2>1, <2>3, <2>4, LabelKept
<1>4. ~Open(t) /\ \A op \in {"conc", "pH", "spectrum"}, s \in Spec_s : ~Measure(t, op, s)
  <2>1. ~Calls(t, [op |-> "open"])
    BY <1>1
  <2>2. \A op \in {"conc", "pH", "spectrum"}, s \in Spec_s : ~Calls(t, [op |-> op, spec |-> s])
    BY <1>1
  <2>3. QED  BY <2>1, <2>2 DEF Open, Measure
<1>5. CASE CloseSection(t) \/ SaveTest(t) \/ LockSave(t)
  <2>1. /\ \E l \in {"idle", "save", "row"} : pc' = [pc EXCEPT ![t] = l]
        /\ call' = call \/ call' = [call EXCEPT ![t] = NoCall]
        /\ files' = files /\ db' \in {db, NULL} /\ UNCHANGED <<config, currConfigID>>
    BY <1>5 DEF CloseSection, SaveTest, LockSave, Return, Goto, shared
  <2>2. pc'[w] = pc[w] /\ call'[w] = call[w]
    BY <1>0, <2>1
  <2>3. QED  BY <1>0, <2>1, <2>2, LabelKept
<1>6. CASE ConfigRow(t)
  <2>1. /\ pc' = pc \/ pc' = [pc EXCEPT ![t] = "idle"]
        /\ \/ call' = [call EXCEPT ![t].at = call[t].at + 1]
           \/ call' = [call EXCEPT ![t] = NoCall]
    BY <1>6 DEF ConfigRow, Return, Goto
  <2>2. PICK s \in Spec_s : s = call[t].at
    BY <1>0 DEF Call
  <2>3. /\ ConfigsGrow /\ SameRows /\ db' = db /\ config' = config /\ db \in File_s
        /\ Names(db, currConfigID[s], s, config[s])'
        /\ \A u \in Spec_s \ {s} : currConfigID'[u] = currConfigID[u]
    BY <1>0, <1>6, <2>2, ConfigRowNames DEF LabelAssumption
  <2>4. pc'[w] = pc[w] /\ call'[w] = call[w]
    BY <1>0, <2>1
  <2>5. \A u \in Measured(w) : \/ currConfigID'[u] = currConfigID[u]
                               \/ Names(db, currConfigID[u], u, config[u])'
    BY <2>3 DEF Measured
  <2>6. QED  BY <2>3, <2>4, <2>5, LabelKept
<1>7. ~OpenSection(t) /\ ~ReadingSection(t) /\ ~ReadConfigID(t) /\ ~SetSection(t)
      /\ ~ValuesSection(t) /\ ~SpectrumSection(t)
  BY <1>0 DEF OpenSection, ReadingSection, ReadConfigID, SetSection, ValuesSection,
              SpectrumSection
<1>8. QED
  BY <1>2, <1>3, <1>4, <1>5, <1>6, <1>7 DEF Begin, Step

\* The writer's own steps: what it has logged stays, as long as it has.
LEMMA LabelOwn ==
  ASSUME NEW w \in Thread, OwnInv(w), LabelInv(w), ConfigsGrow, ConfigLabels',
         \A s \in Measured(w) : db' # NULL /\ HasLogged(w, s)' =>
           /\ db' = db /\ HasLogged(w, s)
           /\ config'[s] = config[s] /\ currConfigID'[s] = currConfigID[s],
         pc'[w] = "open" => db' = NULL,
         pc'[w] # "row" => call'[w].at = 1,
         pc'[w] \in {"reading", "configID", "set", "spectrum"} =>
           call'[w].spec \in Measured(w) /\ call'[w].ver = config'[call'[w].spec],
         pc'[w] = "set" /\ db' # NULL =>
           Names(db, call[w].config, call[w].spec, call[w].ver)'
  PROVE  LabelInv(w)'
<1>1. db = NULL \/ db \in File_s
  BY DEF OwnInv, FileInv, TypeOK, File_s
<1>2. ASSUME NEW s \in Measured(w), db' # NULL, HasLogged(w, s)'
      PROVE  Names(db, currConfigID[s], s, config[s])'
  <2>1. /\ db' = db /\ db \in File_s /\ HasLogged(w, s)
        /\ config'[s] = config[s] /\ currConfigID'[s] = currConfigID[s]
    BY <1>1, <1>2
  <2>2. Names(db, currConfigID[s], s, config[s])
    BY <1>2, <2>1 DEF LabelInv
  <2>3. QED  BY <2>1, <2>2 DEF Names, ConfigsGrow
<1>3. QED  BY <1>2 DEF LabelInv

LEMMA SameFiles ==
  ASSUME files' = files
  PROVE  SameRows /\ ConfigsGrow /\ (ConfigLabels => ConfigLabels')
BY DEF SameRows, ConfigsGrow, ConfigLabels, LabelledBy

LEMMA LabelBegins ==
  ASSUME NEW w \in Thread, LabelAssumption(w), OwnInv(w), LabelInv(w), Begin(w)
  PROVE  LabelInv(w)'
<1>0. /\ pc \in [Thread -> PC] /\ call \in [Thread -> Call] /\ config \in [Spec_s -> Version]
      /\ Measured(w) \subseteq Spec_s /\ ConfigLabels
      /\ pc[w] # "row" => call[w].at = 1
  BY DEF OwnInv, FileInv, TypeOK, Measured, LabelInv
<1>1. CASE Open(w) \/ Close(w)
  <2>1. PICK l \in {"open", "close"} :
          /\ pc[w] = "idle" /\ pc' = [pc EXCEPT ![w] = l] /\ call' = [call EXCEPT ![w].op = l]
          /\ UNCHANGED shared
          /\ l = "open" => db = NULL
    BY <1>1 DEF Open, Close, Calls, Goto, IsOpen
  <2>2. pc'[w] = l /\ call'[w].at = call[w].at
    BY <1>0, <2>1 DEF Call
  <2>3. ConfigsGrow /\ ConfigLabels'
    BY <1>0, <2>1, SameFiles DEF shared
  <2>4. QED  BY <1>0, <2>1, <2>2, <2>3, LabelOwn DEF shared, HasLogged
<1>2. ASSUME NEW s \in Spec_s, Configure(w, s)
      PROVE  LabelInv(w)'
  <2>1. /\ pc[w] = "idle" /\ pc' = [pc EXCEPT ![w] = "saveTest"]
        /\ call' = [call EXCEPT ![w].op = "configure"] /\ UNCHANGED files
    BY <1>2 DEF Configure, Calls, Goto
  <2>2. pc'[w] = "saveTest" /\ call'[w].at = call[w].at
    BY <1>0, <2>1 DEF Call
  <2>3. ConfigsGrow /\ ConfigLabels'
    BY <1>0, <2>1, SameFiles
  <2>4. \A u \in Measured(w) : ~HasLogged(w, u)'
    BY <2>2 DEF HasLogged
  <2>5. QED  BY <1>0, <2>1, <2>2, <2>3, <2>4, LabelOwn
<1>3. ASSUME NEW s \in Spec_s, Tune(w, s)
      PROVE  LabelInv(w)'
  <2>1. /\ [op |-> "tune", spec |-> s] \in Menu[w] /\ config' = [config EXCEPT ![s] = @ + 1]
        /\ pc[w] = "idle" /\ UNCHANGED <<files, db, currConfigID, call, pc>>
    BY <1>3 DEF Tune, Calls
  <2>2. s \notin Measured(w)
    BY <2>1 DEF LabelAssumption, OwnConfigs
  <2>3. \A u \in Measured(w) : config'[u] = config[u]
    BY <1>0, <2>1, <2>2
  <2>4. ConfigsGrow /\ ConfigLabels'
    BY <1>0, <2>1, SameFiles
  <2>5. QED  BY <1>0, <2>1, <2>3, <2>4, LabelOwn DEF HasLogged
<1>4. ASSUME NEW s \in Spec_s, NEW op \in {"conc", "pH", "spectrum"}, Measure(w, op, s)
      PROVE  LabelInv(w)'
  <2>1. /\ [op |-> op, spec |-> s] \in Menu[w]
        /\ pc[w] = "idle" /\ pc' = [pc EXCEPT ![w] = "reading"]
        /\ call' = [call EXCEPT ![w].op = op, ![w].spec = s, ![w].ver = config[s]]
        /\ UNCHANGED shared
    BY <1>4 DEF Measure, Calls, Goto
  <2>2. pc'[w] = "reading" /\ call'[w].at = call[w].at /\ call'[w].spec = s
        /\ call'[w].ver = config[s]
    BY <1>0, <2>1 DEF Call
  <2>3. ConfigsGrow /\ ConfigLabels'
    BY <1>0, <2>1, SameFiles DEF shared
  <2>4. s \in Measured(w)
    BY <2>1 DEF Measured
  <2>5. QED  BY <1>0, <2>1, <2>2, <2>3, <2>4, LabelOwn DEF shared, HasLogged
<1>5. QED  BY <1>1, <1>2, <1>3, <1>4 DEF Begin

LEMMA LabelSaves ==
  ASSUME NEW w \in Thread, LabelAssumption(w), OwnInv(w), LabelInv(w),
         OpenSection(w) \/ CloseSection(w) \/ SaveTest(w) \/ LockSave(w)
  PROVE  LabelInv(w)'
<1>0. /\ pc \in [Thread -> PC] /\ call \in [Thread -> Call] /\ ConfigLabels
      /\ Measured(w) \subseteq Spec_s
      /\ pc[w] # "row" => call[w].at = 1
  BY DEF OwnInv, FileInv, TypeOK, LabelInv, Measured
<1>1. files' = files
  BY DEF OpenSection, CloseSection, SaveTest, LockSave, shared
<1>2. ConfigsGrow /\ ConfigLabels'
  BY <1>0, <1>1, SameFiles
<1>3. ASSUME db' = NULL, Return(w)
      PROVE  LabelInv(w)'
  <2>1. pc'[w] = "idle" /\ call'[w].at = 1
    BY <1>0, <1>3 DEF Return, Goto, NoCall
  <2>2. QED  BY <1>2, <1>3, <2>1, LabelOwn
<1>4. ASSUME NEW l \in {"saveTest", "save", "row"}, Goto(w, l), call' = call, call[w].at = 1
      PROVE  LabelInv(w)'
  <2>1. pc'[w] = l
    BY <1>0, <1>4 DEF Goto
  <2>2. \A s \in Measured(w) : ~HasLogged(w, s)'
    BY <1>0, <1>4, <2>1 DEF HasLogged, Spec_s
  <2>3. QED  BY <1>2, <1>4, <2>1, <2>2, LabelOwn
<1>5. CASE OpenSection(w)
  BY <1>0, <1>4, <1>5 DEF OpenSection
<1>6. CASE CloseSection(w)
  BY <1>3, <1>6 DEF CloseSection
<1>7. CASE SaveTest(w)
  BY <1>0, <1>3, <1>4, <1>7 DEF SaveTest, shared, IsOpen
<1>8. CASE LockSave(w)
  BY <1>0, <1>3, <1>4, <1>8 DEF LockSave
<1>9. QED  BY <1>5, <1>6, <1>7, <1>8

LEMMA LabelRow ==
  ASSUME NEW w \in Thread, LabelAssumption(w), OwnInv(w), LabelInv(w), ConfigRow(w)
  PROVE  LabelInv(w)'
<1>0. /\ FileInv /\ pc \in [Thread -> PC] /\ call \in [Thread -> Call] /\ pc[w] = "row"
      /\ Measured(w) \subseteq Spec_s
  BY DEF OwnInv, FileInv, TypeOK, ConfigRow, Measured
<1>1. PICK s \in Spec_s : s = call[w].at
  BY <1>0 DEF Call
<1>2. /\ ConfigsGrow /\ SameRows /\ db' = db /\ config' = config /\ db \in File_s
      /\ Names(db, currConfigID[s], s, config[s])'
      /\ \A u \in Spec_s \ {s} : currConfigID'[u] = currConfigID[u]
  BY <1>0, <1>1, ConfigRowNames DEF LabelAssumption
<1>3. /\ pc'[w] = "row" \/ (pc'[w] = "idle" /\ call'[w].at = 1)
      /\ \A u \in Spec_s : HasLogged(w, u)' => u < s \/ u = s
  <2>1. CASE s < NumSpecs
    <3>1. pc'[w] = "row" /\ call' = [call EXCEPT ![w].at = s + 1]
      BY <1>0, <1>1, <2>1 DEF ConfigRow
    <3>2. call'[w].at = s + 1
      BY <1>0, <3>1 DEF Call
    <3>3. QED  BY <3>1, <3>2 DEF HasLogged, Spec_s
  <2>2. CASE ~(s < NumSpecs)
    <3>1. pc'[w] = "idle" /\ call'[w].at = 1
      BY <1>0, <1>1, <2>2 DEF ConfigRow, Return, Goto, NoCall
    <3>2. \A u \in Spec_s : u < s \/ u = s
      BY <2>2, SizeAssumption DEF Spec_s
    <3>3. QED  BY <3>1, <3>2
  <2>3. QED  BY <2>1, <2>2
<1>4. ASSUME NEW u \in Measured(w), HasLogged(w, u)'
      PROVE  Names(db, currConfigID[u], u, config[u])'
  <2>1. CASE u = s
    BY <1>2, <2>1
  <2>2. CASE u # s
    <3>1. u < s /\ HasLogged(w, u)
      BY <1>0, <1>1, <1>3, <1>4, <2>2 DEF HasLogged
    <3>2. Names(db, currConfigID[u], u, config[u]) /\ currConfigID'[u] = currConfigID[u]
      <4>1. db # NULL
        BY <1>2 DEF File_s, NULL
      <4>2. QED  BY <1>0, <1>2, <2>2, <3>1, <4>1 DEF LabelInv
    <3>3. QED  BY <1>2, <3>2 DEF Names, ConfigsGrow
  <2>3. QED  BY <2>1, <2>2
<1>5. ConfigLabels'
  BY <1>2, LabelsStay DEF LabelInv
<1>6. QED  BY <1>3, <1>4, <1>5 DEF LabelInv

\* The sections of a measurement.
LEMMA LabelMeasures ==
  ASSUME NEW w \in Thread, OwnInv(w), LabelInv(w),
         ReadingSection(w) \/ ReadConfigID(w) \/ SetSection(w) \/ ValuesSection(w)
           \/ SpectrumSection(w)
  PROVE  LabelInv(w)'
<1>0. /\ TypeOK /\ files \in [File_s -> File] /\ call \in [Thread -> Call] /\ ConfigLabels
      /\ pc \in [Thread -> PC] /\ Measured(w) \subseteq Spec_s
      /\ db # NULL => db \in File_s
      /\ pc[w] \in {"reading", "configID", "set", "values", "spectrum"} /\ call[w].at = 1
      /\ \A s \in Measured(w) : HasLogged(w, s)
      /\ \A s \in Measured(w) : db # NULL => Names(db, currConfigID[s], s, config[s])
      /\ pc[w] # "values" => call[w].spec \in Measured(w) /\ call[w].ver = config[call[w].spec]
      /\ UNCHANGED <<db, currConfigID, config>>
  BY DEF OwnInv, FileInv, TypeOK, LabelInv, Measured, HasLogged, ReadingSection, ReadConfigID,
         SetSection, ValuesSection, SpectrumSection, File_s, shared
<1>a. files \in [File_s -> File]
  BY <1>0
<1>1. CASE ReadingSection(w)
  <2>1. \/ UNCHANGED <<files, call>>
        \/ /\ db # NULL
           /\ files' = files \/ files' = [files EXCEPT ![db].readings = Append(@, w)]
           /\ \E id : call' = [call EXCEPT ![w].reading = id]
    BY <1>1 DEF ReadingSection
  <2>2. \A f \in File_s : /\ files'[f].configs = files[f].configs
                          /\ files'[f].sets = files[f].sets /\ files'[f].spectra = files[f].spectra
    <3>1. files' = files \/ files' = [files EXCEPT ![db].readings = Append(@, w)]
      BY <2>1
    <3>2. QED  BY <1>a, <3>1 DEF File
  <2>3. ConfigsGrow /\ ConfigLabels'
    BY <1>0, <2>2 DEF ConfigsGrow, ConfigLabels, LabelledBy
  <2>4. pc[w] = "reading" /\ pc'[w] \in {"configID", "spectrum"}
    BY <1>0, <1>1 DEF ReadingSection, Goto
  <2>5. /\ call'[w].at = call[w].at /\ call'[w].spec = call[w].spec
        /\ call'[w].ver = call[w].ver
    BY <1>0, <2>1 DEF Call
  <2>6. QED  BY <1>0, <2>3, <2>4, <2>5, LabelOwn
<1>2. CASE ReadConfigID(w)
  <2>1. /\ pc[w] = "configID" /\ pc' = [pc EXCEPT ![w] = "set"]
        /\ call' = [call EXCEPT ![w].config = currConfigID[call[w].spec]] /\ UNCHANGED files
    BY <1>2 DEF ReadConfigID, Goto, shared
  <2>2. /\ pc'[w] = "set" /\ call'[w].at = call[w].at /\ call'[w].spec = call[w].spec
        /\ call'[w].ver = call[w].ver /\ call'[w].config = currConfigID[call[w].spec]
    BY <1>0, <2>1 DEF Call
  <2>3. ConfigsGrow /\ ConfigLabels'
    BY <1>0, <2>1, SameFiles
  <2>4. db # NULL => Names(db, call[w].config, call[w].spec, call[w].ver)'
    BY <1>0, <2>1, <2>2 DEF Names
  <2>5. QED  BY <1>0, <2>1, <2>2, <2>3, <2>4, LabelOwn
<1>3. ASSUME SetSection(w) \/ ValuesSection(w) \/ SpectrumSection(w)
      PROVE  pc'[w] \in {"values", "idle"} /\ call'[w].at = 1
  <2>1. CASE SetSection(w)
    <3>1. call' = call \/ \E id : call' = [call EXCEPT ![w].set = id]
      BY <2>1 DEF SetSection
    <3>2. pc'[w] = "values"
      BY <1>0, <2>1 DEF SetSection, Goto
    <3>3. QED  BY <1>0, <3>1, <3>2 DEF Call
  <2>2. CASE ValuesSection(w) \/ SpectrumSection(w)
    BY <1>0, <2>2 DEF ValuesSection, SpectrumSection, Return, Goto, NoCall
  <2>3. QED  BY <1>3, <2>1, <2>2
<1>4. CASE SetSection(w)
  <2> DEFINE row == [config |-> call[w].config, reading |-> call[w].reading, of |-> LabelOf(w)]
             Row == [config : Nat, reading : Id, of : Label]
  <2>1. \/ UNCHANGED files
        \/ db # NULL /\ files' = [files EXCEPT ![db].sets = Append(@, row)]
    BY <1>4 DEF SetSection
  <2>2. /\ row \in Row /\ row.config = call[w].config
        /\ row.of.spec = call[w].spec /\ row.of.ver = call[w].ver
    BY <1>0, LabelType DEF Call, LabelOf
  <2>3. pc[w] = "set" /\ (db # NULL => Names(db, call[w].config, call[w].spec, call[w].ver))
    BY <1>4 DEF SetSection, LabelInv
  <2>4. db # NULL => files[db].sets \in Seq(Row)
    BY <1>0 DEF File
  <2> HIDE DEF row, Row
  <2>5. /\ \A f \in File_s : /\ files'[f].configs = files[f].configs
                             /\ files'[f].spectra = files[f].spectra
        /\ \A f \in File_s : \/ files'[f].sets = files[f].sets
                             \/ f = db /\ db # NULL /\ files'[f].sets = Append(files[f].sets, row)
    BY <1>a, <2>1 DEF File
  <2>6. ASSUME NEW f \in File_s, NEW k \in DOMAIN files'[f].sets
        PROVE  LabelledBy(f, files[f].sets[k].config, files[f].sets[k].of)'
    <3>1. \/ k \in DOMAIN files[f].sets /\ files'[f].sets[k] = files[f].sets[k]
          \/ f = db /\ db # NULL /\ files'[f].sets[k] = row
      <4>1. CASE files'[f].sets = files[f].sets
        BY <2>6, <4>1
      <4>2. CASE f = db /\ db # NULL /\ files'[f].sets = Append(files[f].sets, row)
        <5>1. /\ DOMAIN Append(files[db].sets, row) = 1..(Len(files[db].sets) + 1)
              /\ DOMAIN files[db].sets = 1..Len(files[db].sets) /\ Len(files[db].sets) \in Nat
              /\ \A j \in DOMAIN files[db].sets : Append(files[db].sets, row)[j] = files[db].sets[j]
              /\ Append(files[db].sets, row)[Len(files[db].sets) + 1] = row
          BY <2>2, <2>4, <4>2, Appended
        <5>2. k \in DOMAIN files[db].sets \/ k = Len(files[db].sets) + 1
          BY <2>6, <4>2, <5>1
        <5>3. QED  BY <4>2, <5>1, <5>2
      <4>3. QED  BY <2>5, <4>1, <4>2
    <3>2. CASE k \in DOMAIN files[f].sets /\ files'[f].sets[k] = files[f].sets[k]
      BY <1>0, <2>5, <3>2 DEF ConfigLabels, LabelledBy
    <3>3. CASE f = db /\ db # NULL /\ files'[f].sets[k] = row
      <4>1. Names(db, row.config, row.of.spec, row.of.ver)
        BY <2>2, <2>3, <3>3
      <4>2. QED  BY <2>5, <3>3, <4>1 DEF LabelledBy, Names
    <3>4. QED  BY <3>1, <3>2, <3>3
  <2>7. ConfigsGrow
    BY <2>5 DEF ConfigsGrow
  <2>8. ConfigLabels'
    <3>1. \A f \in File_s : \A r \in files'[f].spectra : LabelledBy(f, r.config, r.of)'
      BY <1>0, <2>5 DEF ConfigLabels, LabelledBy
    <3>2. QED  BY <2>6, <3>1 DEF ConfigLabels
  <2>9. QED  BY <1>0, <1>3, <1>4, <2>7, <2>8, LabelOwn
<1>5. CASE ValuesSection(w)
  <2>1. files' = files \/ \E row : files' = [files EXCEPT ![db].values = @ \cup {row}]
    BY <1>5 DEF ValuesSection
  <2>2. \A f \in File_s : /\ files'[f].configs = files[f].configs
                          /\ files'[f].sets = files[f].sets /\ files'[f].spectra = files[f].spectra
    BY <1>a, <2>1 DEF File
  <2>3. ConfigsGrow /\ ConfigLabels'
    BY <1>0, <2>2 DEF ConfigsGrow, ConfigLabels, LabelledBy
  <2>4. QED  BY <1>0, <1>3, <1>5, <2>3, LabelOwn
<1>6. CASE SpectrumSection(w)
  <2> DEFINE s == call[w].spec
             row == [time |-> clock, config |-> currConfigID[s], reading |-> call[w].reading,
                     of |-> [LabelOf(w) EXCEPT !.ver = config[s]]]
  <2>1. \/ UNCHANGED files
        \/ db # NULL /\ files' = [files EXCEPT ![db].spectra = @ \cup {row}]
    BY <1>6 DEF SpectrumSection
  <2>2. row.config = currConfigID[s] /\ row.of.spec = s /\ row.of.ver = config[s]
    BY DEF LabelOf
  <2>3. pc[w] = "spectrum"
    BY <1>6 DEF SpectrumSection
  <2> HIDE DEF row
  <2>4. /\ \A f \in File_s : files'[f].configs = files[f].configs /\ files'[f].sets = files[f].sets
        /\ \A f \in File_s : \A r \in files'[f].spectra :
             r \in files[f].spectra \/ (f = db /\ db # NULL /\ r = row)
    <3>1. CASE files' = files
      BY <3>1
    <3>2. CASE db # NULL /\ files' = [files EXCEPT ![db].spectra = @ \cup {row}]
      <4>1. \A f \in File_s : files'[f].configs = files[f].configs /\ files'[f].sets = files[f].sets
        BY <1>a, <3>2 DEF File
      <4>2. \A f \in File_s : \/ files'[f].spectra = files[f].spectra
                              \/ f = db /\ files'[f].spectra = files[f].spectra \cup {row}
        BY <1>a, <3>2 DEF File
      <4>3. db # NULL
        BY <3>2
      <4>4. QED  BY <4>1, <4>2, <4>3
    <3>3. QED  BY <2>1, <3>1, <3>2
  <2>5. db # NULL => Names(db, row.config, row.of.spec, row.of.ver)
    BY <1>0, <2>2, <2>3
  <2>6. ConfigsGrow
    BY <2>4 DEF ConfigsGrow
  <2>7. \A f \in File_s : \A r \in files'[f].spectra : LabelledBy(f, r.config, r.of)'
    BY <1>0, <2>4, <2>5 DEF ConfigLabels, LabelledBy, Names
  <2>8. \A f \in File_s : \A k \in DOMAIN files'[f].sets :
          LabelledBy(f, files[f].sets[k].config, files[f].sets[k].of)'
    BY <1>0, <2>4 DEF ConfigLabels, LabelledBy
  <2>9. ConfigLabels'
    BY <2>7, <2>8 DEF ConfigLabels
  <2>10. QED  BY <1>0, <1>3, <1>6, <2>6, <2>9, LabelOwn
<1>7. QED  BY <1>1, <1>2, <1>4, <1>5, <1>6

LEMMA LabelStep ==
  ASSUME NEW w \in Thread, LabelAssumption(w), OwnInv(w), LabelInv(w), [Next]_vars
  PROVE  LabelInv(w)'
<1>1. CASE Tick \/ UNCHANGED vars
  <2>1. UNCHANGED <<files, db, currConfigID, config, call, pc>>
    BY <1>1 DEF Tick, vars, shared
  <2>2. QED  BY <2>1 DEF LabelInv, HasLogged, Names, ConfigLabels, LabelledBy
<1>2. ASSUME NEW t \in Thread \ {w}, Begin(t) \/ Step(t)
      PROVE  LabelInv(w)'
  BY <1>2, LabelOthers
<1>3. CASE Begin(w) \/ Step(w)
  BY <1>3, LabelBegins, LabelSaves, LabelRow, LabelMeasures DEF Step
<1>4. QED  BY <1>1, <1>2, <1>3 DEF Next

\* With one writer, whose configurations nobody else changes, every set and spectrum
\* names the configuration it was measured with: for any others that log and change
\* other configurations and close the file, any number of files and spectrometers, and
\* whichever INSERTs of measurements fail.
THEOREM ConfigsAreOwn ==
  ASSUME NEW w \in Thread, OneWriter(w), OwnConfigs(w), "config" \notin Failing
  PROVE  Spec => []ConfigLabels
<1>1. LabelAssumption(w)
  BY DEF LabelAssumption
<1>2. Init => LabelInv(w)
  BY DEF Init, LabelInv, ConfigLabels, NewFile, NoCall, File_s, NULL
<1>3. LabelInv(w) => ConfigLabels
  BY DEF LabelInv
<1>4. OwnInv(w) /\ LabelInv(w) /\ [Next]_vars => LabelInv(w)'
  BY <1>1, LabelStep
<1>5. Spec => []OwnInv(w)
  BY OwnAlways
<1>6. QED  BY <1>2, <1>3, <1>4, <1>5, PTL DEF Spec

=============================================================================
