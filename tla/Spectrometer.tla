---------------------------- MODULE Spectrometer -----------------------------
(***************************************************************************)
(* The spectrometers (USB4000Manager.c over the driver USB4000Gum.c): each *)
(* keeps a current sample, which every recording frees and replaces, and   *)
(* copies of two of them as reference and dark sample.                     *)
(*                                                                         *)
(* When the server starts it looks for the devices on the bus.  Then       *)
(* client threads record and read, under the mutex of the spectrometer,    *)
(* but for setting the integration time, which takes a throw-away sample   *)
(* without it.  A run message tells the client of a method what a          *)
(* statement measured; it reads the shared state anew, in a section for    *)
(* each of its parts.                                                      *)
(*                                                                         *)
(* Recordings are numbered; the number stands for the buffer, its pixels   *)
(* and what is calculated from them.  A request is expanded to the steps   *)
(* of its C functions, in todo[t].                                         *)
(***************************************************************************)
EXTENDS Integers, Sequences, FiniteSets, TLC

CONSTANTS Thread,
          Main, NoThread,
          Serial,      \* Serial[s]: the serial number that the configuration has for s
          Bus,         \* the devices on the bus: is it a USB4000, and its serial number
          NumScans,    \* scans per sample
          Menu,        \* Menu[t]: the requests of t
          MaxRequests  \* bound of the model

SpecIndex == DOMAIN Serial

ASSUME ThreadAssumption == {Main, NoThread} \cap Thread = {} /\ Main # NoThread
ASSUME SpecAssumption == /\ \E n \in 1..10 : SpecIndex = 1..n
                         /\ NumScans \in Nat \ {0}

VARIABLES
  phase,     \* "connecting", "asking", "up", "closing" or "down"
  search,    \* the spectrometer, and the place on the bus, that main is at
  device,    \* device[s]: its place on the bus
  claimed,   \* the devices whose interface is claimed
  sample,    \* sample[s]: the current sample
  refSample, \* refSample[s]
  darkSample,
  live,      \* the numbers of the sample buffers that are allocated
  lastCalc,  \* the last pH: of which spectrometer and recording
  specsMutex,\* specsMutex[s]: its holder
  todo,      \* todo[t]: the steps t has still to do
  work,      \* work[t]: what getSample fills, or the pointer a reader has loaded
  got,       \* got[t]: what the request of t recorded and read
  sent,      \* sent[t]: the run message, or the row, of t's last request
  recorded,  \* number of recordings
  issued,    \* number of requests
  misused,   \* history: a freed buffer was used or freed
  disturbed  \* history: another thread recorded, or calculated, during t's request

connection == <<phase, search, device, claimed>>
samples == <<sample, refSample, darkSample, live, lastCalc, recorded>>
threads == <<todo, work, got, sent, issued>>
history == <<misused, disturbed>>
vars == <<connection, samples, specsMutex, threads, history>>

\* A recording: how many scans were averaged, of how many asked for.
NoSample == [n |-> 0, scans |-> 0, of |-> 0]
Nothing == [own |-> 0, last |-> 0, abs |-> 0, spectrum |-> 0, conc |-> 0, ref |-> 0,
            pH |-> 0]
NoMessage == [kind |-> "none"]

Init ==
  /\ phase = "connecting"
  /\ search = [spec |-> 1, at |-> 1]
  /\ device = [s \in SpecIndex |-> 0]
  /\ claimed = {}
  /\ sample = [s \in SpecIndex |-> NoSample]
  /\ refSample = sample /\ darkSample = sample
  /\ live = {}
  /\ lastCalc = [spec |-> 0, n |-> 0]
  /\ specsMutex = [s \in SpecIndex |-> NoThread]
  /\ todo = [t \in Thread |-> <<>>]
  /\ work = [t \in Thread |-> NoSample]
  /\ got = [t \in Thread |-> Nothing]
  /\ sent = [t \in Thread |-> NoMessage]
  /\ recorded = 0
  /\ issued = 0
  /\ misused = FALSE
  /\ disturbed = [t \in Thread |-> FALSE]

-----------------------------------------------------------------------------
\* main connects the spectrometers, and disconnects them when it ends.

Exit == phase' = "down" /\ UNCHANGED <<search, device, claimed, samples, specsMutex>>

\* openUSB4000 goes on if the device is another one, or cannot be opened or claimed:
\* it is claimed already, or another program has it.
PassDevice ==
  /\ phase = "connecting"
  /\ search.at <= Len(Bus)
  /\ search' = [search EXCEPT !.at = @ + 1]
  /\ UNCHANGED <<phase, device, claimed, samples, specsMutex, threads, history>>

\* A USB4000 is claimed, to be initialised and asked for its serial number.
ClaimDevice ==
  /\ phase = "connecting"
  /\ search.at <= Len(Bus)
  /\ Bus[search.at].usb4000 /\ search.at \notin claimed
  /\ claimed' = claimed \cup {search.at}
  /\ phase' = "asking"
  /\ UNCHANGED <<search, device, samples, specsMutex, threads, history>>

\* Faulty: the interface is not released.
ReleaseDevice_Keep ==
  /\ phase = "asking"
  /\ Bus[search.at].serial # Serial[search.spec]
  /\ search' = [search EXCEPT !.at = @ + 1]
  /\ phase' = "connecting"
  /\ UNCHANGED <<device, claimed, samples, specsMutex, threads, history>>

\* The serial number is another one, or was not read: the interface is released.
ReleaseDevice ==
  /\ phase = "asking"
  /\ claimed' = claimed \ {search.at}
  /\ search' = [search EXCEPT !.at = @ + 1]
  /\ phase' = "connecting"
  /\ UNCHANGED <<device, samples, specsMutex, threads, history>>

\* It is the device that was looked for.  The integration time is set, also by
\* applyConfig when all are connected, and a sample taken, or not.
TakeDevice ==
  /\ phase = "asking"
  /\ Bus[search.at].serial = Serial[search.spec]
  /\ LET s == search.spec
     IN /\ device' = [device EXCEPT ![s] = search.at]
        /\ search' = [spec |-> s + 1, at |-> 1]
        /\ phase' = IF s + 1 \in SpecIndex THEN "connecting" ELSE "up"
        /\ recorded' = recorded + 1
        /\ \/ /\ sample' = [sample EXCEPT ![s] = [n |-> recorded', scans |-> 1, of |-> 1]]
              /\ live' = live \cup {recorded'}
           \/ UNCHANGED <<sample, live>>
  /\ UNCHANGED <<claimed, refSample, darkSample, lastCalc, specsMutex, threads, history>>

\* The device that is asked cannot be initialised, or the bus was searched in vain:
\* the server exits.
ConnectError ==
  /\ \/ phase = "asking"
     \/ phase = "connecting" /\ search.at > Len(Bus)
  /\ Exit
  /\ UNCHANGED <<threads, history>>

Disconnect ==
  /\ phase = "up"
  /\ phase' = "closing"
  /\ search' = [spec |-> 1, at |-> 1]
  /\ UNCHANGED <<device, claimed, samples, specsMutex, threads, history>>

\* The interface is released and the sample freed.
closeUSB4000(s) ==
  /\ claimed' = claimed \ {device[s]}
  /\ live' = live \ {sample[s].n}
  /\ misused' = (misused \/ (sample[s] # NoSample /\ sample[s].n \notin live))

\* The mutex is not given back: it is destroyed.
CloseDevice ==
  /\ phase = "closing"
  /\ search.spec \in SpecIndex
  /\ LET s == search.spec
     IN /\ specsMutex[s] = NoThread
        /\ specsMutex' = [specsMutex EXCEPT ![s] = Main]
        /\ closeUSB4000(s)
        /\ search' = [search EXCEPT !.spec = s + 1]
  /\ UNCHANGED <<phase, device, sample, refSample, darkSample, lastCalc, recorded,
                 threads, disturbed>>

ExitPolitely ==
  /\ phase = "closing"
  /\ search.spec \notin SpecIndex
  /\ Exit
  /\ UNCHANGED <<threads, history>>

-----------------------------------------------------------------------------
\* The requests.

getSample(s, scans) ==
  << [op |-> "free", spec |-> s], [op |-> "clear", spec |-> s, scans |-> scans],
     [op |-> "scan", spec |-> s], [op |-> "store", spec |-> s] >>

Section(s, steps) ==
  << [op |-> "lock", spec |-> s] >> \o steps \o << [op |-> "unlock", spec |-> s] >>

recordSpecSample(s) == Section(s, getSample(s, NumScans))
recordRefSample(s) == Section(s, getSample(s, NumScans) \o << [op |-> "keepRef", spec |-> s] >>)
recordDarkSample(s) == Section(s, getSample(s, NumScans) \o << [op |-> "keepDark", spec |-> s] >>)
setSpecIntegrationTimeinMilli(s) == getSample(s, 1)

\* applyConfig sets the integration time of each spectrometer, the first one first.
applyConfig ==
  [i \in 1..(4 * Cardinality(SpecIndex)) |->
     setSpecIntegrationTimeinMilli((i + 3) \div 4)[1 + ((i + 3) % 4)]]

\* A copy is made of the sample, in the same section.
getSpecSample(s) == recordSpecSample(s)

\* A part is read in a section of its own.
Read(s, part) == << [op |-> "load", spec |-> s], [op |-> "use", spec |-> s, part |-> part] >>

getRefSample(s) == Read(s, "ref")
getLastSample(s) == Read(s, "last")
getAbsorbance(s) == Read(s, "abs")
getAbsorbanceSpectrum(s) == Read(s, "spectrum")

SendMessage(s, kind) == << [op |-> "send", spec |-> s, kind |-> kind] >>

getCorrectionAbsorbance(s, other) == getAbsorbance(s) \o getAbsorbance(other)
getConcentrations(s) == Read(s, "conc")
getRawCounts(s) == getLastSample(s)

\* The coefficients are constant, but copied under the mutex, too.
getCalCos(s) == Section(s, <<>>)

\* The statements of a method, and the messages about them.
methodReadReference(s) == recordRefSample(s)
methodReadSample(s) == recordSpecSample(s) \o getAbsorbance(s)
methodReadFullSpec(s) == recordSpecSample(s)
methodAbsCorr(s, other) == getCorrectionAbsorbance(s, other)
methodCalcPH(s) == getAbsorbance(s) \o << [op |-> "calculate", spec |-> s] >>

\* What its row has beside the pH and the absorbances.
writepHToDB(s) == getRawCounts(s)

readRefRunResponse(s) == getRefSample(s) \o SendMessage(s, "ref")
readSampRunResponse(s) ==
  getLastSample(s) \o getAbsorbance(s) \o getAbsorbanceSpectrum(s) \o SendMessage(s, "sample")
\* A "pHRow" is the message together with the row that was written before it.
calPHRunResponse(s, kind) == SendMessage(s, kind)

\* What the row has that a method writes to the data file.
writeConcData(s) ==
  getConcentrations(s) \o getAbsorbance(s) \o getRawCounts(s) \o SendMessage(s, "row")

\* The commands of a client, and the statements of a method with their messages.  SCP,
\* LSD and the methods' setters apply the configuration.  A pH below zero has no row.
Steps(r) ==
  LET s == r.spec IN
  CASE r.op = "SSP" -> setSpecIntegrationTimeinMilli(s)
    [] r.op = "SCP" -> applyConfig
    [] r.op = "RDS" -> recordDarkSample(s)
    [] r.op = "RRS" -> recordRefSample(s)
    [] r.op = "RSS" -> recordSpecSample(s)
    [] r.op = "full spectrum" -> methodReadFullSpec(s)
    [] r.op = "RFS" -> getSpecSample(s)
    [] r.op = "RAD" -> getAbsorbance(s)
    [] r.op = "RCC" -> getConcentrations(s)
    [] r.op = "RAS" -> getAbsorbanceSpectrum(s)
    [] r.op = "RCD" -> getCalCos(s)
    [] r.op = "correction" -> methodAbsCorr(s, r.other)
    [] r.op = "read reference" -> methodReadReference(s) \o readRefRunResponse(s)
    [] r.op = "read sample" -> methodReadSample(s) \o readSampRunResponse(s)
    [] r.op = "write" -> writeConcData(s)
    [] r.op = "pH" -> methodCalcPH(s) \o writepHToDB(s) \o calPHRunResponse(s, "pHRow")
    [] r.op = "no pH" -> methodCalcPH(s) \o calPHRunResponse(s, "pH")

Idle(t) == todo[t] = <<>>

Begin(t) ==
  /\ phase = "up"
  /\ Idle(t)
  /\ issued < MaxRequests
  /\ issued' = issued + 1
  /\ \E r \in Menu[t] : todo' = [todo EXCEPT ![t] = Steps(r)]
  /\ got' = [got EXCEPT ![t] = Nothing]
  /\ sent' = [sent EXCEPT ![t] = NoMessage]
  /\ disturbed' = [disturbed EXCEPT ![t] = FALSE]
  /\ UNCHANGED <<connection, samples, specsMutex, work, misused>>

-----------------------------------------------------------------------------
\* The steps.

Step(t, op) == phase \in {"up", "closing"} /\ ~Idle(t) /\ Head(todo[t]).op = op
At(t) == Head(todo[t]).spec
Continue(t) == todo' = [todo EXCEPT ![t] = Tail(@)]

\* The others that are in a request on the same spectrometer.
Disturb(t, P(_)) ==
  disturbed' = [u \in Thread |-> disturbed[u] \/ (u # t /\ ~Idle(u) /\ P(u))]

Lock(t) ==
  /\ Step(t, "lock")
  /\ specsMutex[At(t)] = NoThread
  /\ specsMutex' = [specsMutex EXCEPT ![At(t)] = t]
  /\ Continue(t)
  /\ UNCHANGED <<connection, samples, work, got, sent, issued, history>>

\* Faulty: keeps the mutex after a recording that failed.
Unlock_Failed(t) ==
  /\ Step(t, "unlock")
  /\ specsMutex' = IF sample[At(t)] = NoSample THEN specsMutex
                   ELSE [specsMutex EXCEPT ![At(t)] = NoThread]
  /\ Continue(t)
  /\ UNCHANGED <<connection, samples, work, got, sent, issued, history>>

Unlock(t) ==
  /\ Step(t, "unlock")
  /\ specsMutex' = [specsMutex EXCEPT ![At(t)] = NoThread]
  /\ Continue(t)
  /\ UNCHANGED <<connection, samples, work, got, sent, issued, history>>

\* getSample frees the current sample ...
FreeSample(t) ==
  /\ Step(t, "free")
  /\ LET old == sample[At(t)]
     IN IF old = NoSample THEN UNCHANGED <<live, misused>>
        ELSE /\ live' = live \ {old.n}
             /\ misused' = (misused \/ old.n \notin live)
  /\ Continue(t)
  /\ UNCHANGED <<connection, sample, refSample, darkSample, lastCalc, recorded,
                 specsMutex, work, got, sent, issued, disturbed>>

\* Faulty: the pointer to the sample that was freed stays.
ClearSample_Keep(t) ==
  /\ Step(t, "clear")
  /\ recorded' = recorded + 1
  /\ live' = live \cup {recorded'}
  /\ work' = [work EXCEPT ![t] = [n |-> recorded', scans |-> 0, of |-> Head(todo[t]).scans]]
  /\ got' = [got EXCEPT ![t].own = recorded']
  /\ Disturb(t, LAMBDA u : \E i \in DOMAIN todo[u] : todo[u][i].spec = At(t))
  /\ Continue(t)
  /\ UNCHANGED <<connection, sample, refSample, darkSample, lastCalc, specsMutex, sent,
                 issued, misused>>

\* ... has none until it has a new one, in a buffer of its own, ...
ClearSample(t) ==
  /\ Step(t, "clear")
  /\ sample' = [sample EXCEPT ![At(t)] = NoSample]
  /\ recorded' = recorded + 1
  /\ live' = live \cup {recorded'}
  /\ work' = [work EXCEPT ![t] = [n |-> recorded', scans |-> 0, of |-> Head(todo[t]).scans]]
  /\ got' = [got EXCEPT ![t].own = recorded']
  /\ Disturb(t, LAMBDA u : \E i \in DOMAIN todo[u] : todo[u][i].spec = At(t))
  /\ Continue(t)
  /\ UNCHANGED <<connection, refSample, darkSample, lastCalc, specsMutex, sent,
                 issued, misused>>

Scanned(t) ==
  /\ work' = [work EXCEPT ![t].scans = @ + 1]
  /\ IF work[t].scans + 1 = work[t].of THEN Continue(t) ELSE UNCHANGED todo
  /\ UNCHANGED live

\* Faulty: what was averaged so far is taken for the sample.
ScanFails_Keep(t) ==
  /\ Continue(t)
  /\ UNCHANGED <<work, live>>

\* The buffer is freed and nothing is stored.
ScanFails(t) ==
  /\ live' = live \ {work[t].n}
  /\ todo' = [todo EXCEPT ![t] = Tail(Tail(@))]
  /\ UNCHANGED work

\* ... and averages its scans there.
Scan(t) ==
  /\ Step(t, "scan")
  /\ Scanned(t) \/ ScanFails(t)
  /\ UNCHANGED <<connection, sample, refSample, darkSample, lastCalc, recorded,
                 specsMutex, got, sent, issued, history>>

StoreSample(t) ==
  /\ Step(t, "store")
  /\ sample' = [sample EXCEPT ![At(t)] = work[t]]
  /\ Continue(t)
  /\ UNCHANGED <<connection, refSample, darkSample, live, lastCalc, recorded,
                 specsMutex, work, got, sent, issued, history>>

\* The reference or dark sample becomes a copy of the sample, whose buffer is read, or
\* NULL if there is none; the old copy is not freed.
KeepSample(t) ==
  /\ \/ /\ Step(t, "keepRef")
        /\ refSample' = [refSample EXCEPT ![At(t)] = sample[At(t)]]
        /\ UNCHANGED darkSample
     \/ /\ Step(t, "keepDark")
        /\ darkSample' = [darkSample EXCEPT ![At(t)] = sample[At(t)]]
        /\ UNCHANGED refSample
  /\ LET old == sample[At(t)]
     IN misused' = (misused \/ (old # NoSample /\ old.n \notin live))
  /\ Continue(t)
  /\ UNCHANGED <<connection, sample, live, lastCalc, recorded, specsMutex, work, got,
                 sent, issued, disturbed>>

Load(t) ==
  /\ Step(t, "load")
  /\ specsMutex[At(t)] = NoThread
  /\ specsMutex' = [specsMutex EXCEPT ![At(t)] = t]
  /\ work' = [work EXCEPT ![t] = sample[At(t)]]
  /\ Continue(t)
  /\ UNCHANGED <<connection, samples, got, sent, issued, history>>

\* Absorbances are -1 without a reference and a sample.
Use(t) ==
  /\ Step(t, "use")
  /\ LET part == Head(todo[t]).part
         ref == refSample[At(t)].n
         n == CASE part = "ref" -> ref
                [] part = "last" -> work[t].n
                [] OTHER -> IF ref = 0 THEN 0 ELSE work[t].n
     IN /\ got' = [got EXCEPT ![t][part] = n]
        /\ misused' = (misused \/ (part # "ref" /\ n # 0 /\ n \notin live))
  /\ specsMutex' = [specsMutex EXCEPT ![At(t)] = NoThread]
  /\ Continue(t)
  /\ UNCHANGED <<connection, samples, work, sent, issued, disturbed>>

\* Faulty: returns early if there is nothing to calculate from.
CalculatePH_Early(t) ==
  /\ Step(t, "calculate")
  /\ lastCalc' = IF got[t].abs = 0 THEN lastCalc ELSE [spec |-> At(t), n |-> got[t].abs]
  /\ Disturb(t, LAMBDA u : TRUE)
  /\ Continue(t)
  /\ UNCHANGED <<connection, sample, refSample, darkSample, live, recorded, specsMutex,
                 work, got, sent, issued, misused>>

\* computeSystempHMCP or TB, whose result is kept for the message.
CalculatePH(t) ==
  /\ Step(t, "calculate")
  /\ lastCalc' = [spec |-> At(t), n |-> got[t].abs]
  /\ Disturb(t, LAMBDA u : TRUE)
  /\ Continue(t)
  /\ UNCHANGED <<connection, sample, refSample, darkSample, live, recorded, specsMutex,
                 work, got, sent, issued, misused>>

\* A message with a sample or a reference is not sent if there was none.
Send(t) ==
  /\ Step(t, "send")
  /\ LET kind == Head(todo[t]).kind
         parts == [got[t] EXCEPT !.pH = lastCalc.n]
     IN sent' = [sent EXCEPT ![t] =
          IF \/ kind = "sample" /\ got[t].last = 0
             \/ kind = "ref" /\ got[t].ref = 0
          THEN NoMessage
          ELSE [kind |-> kind, spec |-> IF kind \in {"pH", "pHRow"} THEN lastCalc.spec ELSE At(t),
                label |-> At(t), parts |-> parts]]
  /\ Continue(t)
  /\ UNCHANGED <<connection, samples, specsMutex, work, got, issued, history>>

Work(t) == \/ Lock(t) \/ Unlock(t) \/ FreeSample(t) \/ ClearSample(t) \/ Scan(t)
           \/ StoreSample(t) \/ KeepSample(t) \/ Load(t) \/ Use(t) \/ CalculatePH(t)
           \/ Send(t)

MainNext == \/ PassDevice \/ ClaimDevice \/ ReleaseDevice \/ TakeDevice \/ ConnectError
            \/ Disconnect \/ CloseDevice \/ ExitPolitely

Next == MainNext \/ \E t \in Thread : Begin(t) \/ Work(t)

\* The driver's calls have time limits, so that every section ends.
Spec == Init /\ [][Next]_vars /\ \A t \in Thread : WF_vars(Work(t))

-----------------------------------------------------------------------------
\* Properties.

\* A stored sample, reference or dark sample is the average of all the scans that
\* were asked for.
Whole == {r \in [n : 1..recorded, scans : 0..NumScans, of : {1, NumScans}] : r.scans = r.of}

TypeOK ==
  /\ phase \in {"connecting", "asking", "up", "closing", "down"}
  /\ claimed \subseteq 1..Len(Bus)
  /\ \A s \in SpecIndex :
       /\ {sample[s], refSample[s], darkSample[s]} \subseteq Whole \cup {NoSample}
       /\ specsMutex[s] \in Thread \cup {NoThread, Main}
  /\ live \subseteq 1..recorded

\* Once connected, each spectrometer is a device of its own, the one with its serial
\* number, and of all that were claimed to be asked for theirs no other is still kept
\* from other programs, in whatever order they are on the bus; and when the server has
\* disconnected none is.
OwnDevices ==
  /\ phase = "up" =>
       /\ \A s \in SpecIndex : Bus[device[s]].serial = Serial[s]
       /\ \A s1, s2 \in SpecIndex : device[s1] = device[s2] => s1 = s2
       /\ claimed = {device[s] : s \in SpecIndex}
  /\ phase = "closing" /\ search.spec \notin SpecIndex => claimed = {}

\* No thread reads or frees a sample that another one has freed, until the server
\* is about to exit.
NoFreedSample == phase = "up" => ~misused

\* What a message says was measured is not older than the recording of its own
\* statement, also if that failed: then it is a later one, or there is no message.
FreshMessages ==
  \A t \in Thread :
    /\ sent[t].kind = "sample" =>
         LET p == sent[t].parts
         IN p.last >= p.own /\ {p.abs, p.spectrum} \subseteq {0} \cup p.own..recorded
    /\ sent[t].kind = "ref" => sent[t].parts.ref >= sent[t].parts.own

\* The parts of a message or row, which are read one by one, are of one recording,
\* and of the spectrometer that it names, unless another thread recorded on the same
\* spectrometer, or calculated a pH, in the meantime.
OneSample ==
  \A t \in Thread : sent[t].kind # "none" /\ ~disturbed[t] =>
    LET p == sent[t].parts
    IN CASE sent[t].kind = "sample" -> p.last = p.own /\ p.abs \in {0, p.own} /\ p.spectrum = p.abs
         [] sent[t].kind = "ref"    -> p.ref = p.own
         [] sent[t].kind = "row"    -> p.conc = p.abs /\ p.abs \in {0, p.last}
         [] sent[t].kind = "pH"     -> sent[t].spec = sent[t].label /\ p.pH = p.abs
         [] sent[t].kind = "pHRow" -> /\ sent[t].spec = sent[t].label
                                       /\ p.pH = p.abs /\ p.abs \in {0, p.last}

\* Every request returns, whatever fails, while the server runs.
RequestsReturn == \A t \in Thread : ~Idle(t) ~> Idle(t) \/ phase # "up"

\* "All variables and calls are made thread safe with blocking mutexes on critical
\* sections." (USB4000Manager.c:2): a sample is not freed by a thread without
\* the mutex of its spectrometer.
ThreadSafe == NoFreedSample

=============================================================================
