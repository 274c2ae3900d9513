-------------------------- MODULE SpectrometerProofs --------------------------
(* Theorems about how main connects the spectrometers and how clients use   *)
(* their samples, for any bus, configuration, clients and requests.          *)
EXTENDS Spectrometer, SequenceTheorems, FiniteSetTheorems, TLAPS

-----------------------------------------------------------------------------
(* The search for the devices.                                             *)

\* The spectrometers found so far are devices of their own with their serial numbers.
Found(n) ==
  /\ \A s \in 1..n : device[s] \in 1..Len(Bus) /\ Bus[device[s]].serial = Serial[s]
  /\ \A s1, s2 \in 1..n : device[s1] = device[s2] => s1 = s2

Devices(m, n) == {device[s] : s \in m..n}

\* What is claimed is accounted for: by the spectrometers found, the device that is
\* asked for its serial number, and at the end those that are not closed yet.
Accounted(n) ==
  CASE phase = "connecting" -> /\ search.spec \in 1..n /\ Found(search.spec - 1)
                               /\ claimed = Devices(1, search.spec - 1)
    [] phase = "asking"     -> /\ search.spec \in 1..n /\ Found(search.spec - 1)
                               /\ search.at \in 1..Len(Bus)
                               /\ search.at \notin Devices(1, search.spec - 1)
                               /\ claimed = Devices(1, search.spec - 1) \cup {search.at}
    [] phase = "up"         -> Found(n) /\ claimed = Devices(1, n)
    [] phase = "closing"    -> /\ search.spec \in 1..(n + 1) /\ Found(n)
                               /\ claimed = Devices(search.spec, n)
    [] OTHER                -> TRUE

ConnectInv ==
  /\ device \in [SpecIndex -> Nat]
  /\ phase \in {"connecting", "asking", "up", "closing", "down"}
  /\ search \in [spec : Nat, at : Nat \ {0}]
  /\ \E n \in 1..10 : SpecIndex = 1..n /\ Accounted(n)

LEMMA ConnectInit == Init => ConnectInv
<1> SUFFICES ASSUME Init
             PROVE  ConnectInv
  OBVIOUS
<1>1. PICK n \in 1..10 : SpecIndex = 1..n
  BY SpecAssumption
<1>2. 1 \in 1..n /\ 1..(1 - 1) = {}
  BY <1>1
<1>3. Accounted(n)
  BY <1>2 DEF Init, Accounted, Found, Devices
<1>4. /\ device \in [SpecIndex -> Nat] /\ phase = "connecting"
      /\ search \in [spec : Nat, at : Nat \ {0}]
  BY DEF Init
<1>5. QED  BY <1>1, <1>3, <1>4 DEF ConnectInv

\* The search goes on at the next place on the bus, or asks the device at this one, or
\* releases it again.
LEMMA ConnectSearch ==
  ASSUME ConnectInv, PassDevice \/ ClaimDevice \/ ReleaseDevice
  PROVE  ConnectInv'
<1>1. PICK n \in 1..10 : SpecIndex = 1..n /\ Accounted(n)
  BY DEF ConnectInv
<1>2. /\ device' = device /\ device \in [SpecIndex -> Nat]
      /\ search \in [spec : Nat, at : Nat \ {0}]
      /\ \A m : Found(m)' <=> Found(m)
      /\ \A l, m : Devices(l, m)' = Devices(l, m)
  <2>1. device' = device
    BY DEF PassDevice, ClaimDevice, ReleaseDevice
  <2>2. QED  BY <2>1 DEF ConnectInv, Found, Devices
<1>3. CASE PassDevice
  <2>1. /\ phase = "connecting" /\ UNCHANGED <<phase, claimed>>
        /\ search' = [search EXCEPT !.at = @ + 1]
    BY <1>3 DEF PassDevice
  <2>2. search' \in [spec : Nat, at : Nat \ {0}] /\ search'.spec = search.spec
    BY <1>2, <2>1
  <2>3. Accounted(n)'
    BY <1>1, <1>2, <2>1, <2>2 DEF Accounted
  <2>4. QED  BY <1>1, <1>2, <2>1, <2>2, <2>3 DEF ConnectInv
<1>4. CASE ClaimDevice
  <2>1. /\ phase = "connecting" /\ phase' = "asking" /\ search' = search
        /\ claimed' = claimed \cup {search.at} /\ search.at \notin claimed
        /\ search.at \in 1..Len(Bus)
    BY <1>2, <1>4 DEF ClaimDevice
  <2>2. Accounted(n)'
    BY <1>1, <1>2, <2>1 DEF Accounted
  <2>3. QED  BY <1>1, <1>2, <2>1, <2>2 DEF ConnectInv
<1>5. CASE ReleaseDevice
  <2>1. /\ phase = "asking" /\ phase' = "connecting" /\ claimed' = claimed \ {search.at}
        /\ search' = [search EXCEPT !.at = @ + 1]
    BY <1>5 DEF ReleaseDevice
  <2>2. search' \in [spec : Nat, at : Nat \ {0}] /\ search'.spec = search.spec
    BY <1>2, <2>1
  <2>3. Accounted(n)'
    BY <1>1, <1>2, <2>1, <2>2 DEF Accounted
  <2>4. QED  BY <1>1, <1>2, <2>1, <2>2, <2>3 DEF ConnectInv
<1>6. QED  BY <1>3, <1>4, <1>5

LEMMA ConnectTake ==
  ASSUME ConnectInv, TakeDevice
  PROVE  ConnectInv'
<1>1. PICK n \in 1..10 : SpecIndex = 1..n /\ Accounted(n)
  BY DEF ConnectInv
<1>2. /\ phase = "asking" /\ Bus[search.at].serial = Serial[search.spec]
      /\ device' = [device EXCEPT ![search.spec] = search.at] /\ claimed' = claimed
      /\ search' = [spec |-> search.spec + 1, at |-> 1]
      /\ phase' = IF search.spec + 1 \in SpecIndex THEN "connecting" ELSE "up"
      /\ device \in [SpecIndex -> Nat]
  BY DEF ConnectInv, TakeDevice
<1>3. /\ search.spec \in 1..n /\ Found(search.spec - 1) /\ search.at \in 1..Len(Bus)
      /\ search.at \notin Devices(1, search.spec - 1)
      /\ claimed = Devices(1, search.spec - 1) \cup {search.at}
  BY <1>1, <1>2 DEF Accounted
<1>4. PICK s \in 1..n : s = search.spec
  BY <1>3
<1>5. PICK at \in 1..Len(Bus) : at = search.at
  BY <1>3
<1>6. /\ Bus[at].serial = Serial[s] /\ device' = [device EXCEPT ![s] = at]
      /\ phase' = IF s + 1 \in SpecIndex THEN "connecting" ELSE "up"
      /\ Found(s - 1) /\ at \notin Devices(1, s - 1) /\ claimed' = Devices(1, s - 1) \cup {at}
  BY <1>2, <1>3, <1>4, <1>5
<1>7. /\ 1..s = (1..(s - 1)) \cup {s} /\ s \notin 1..(s - 1) /\ 1..s \subseteq SpecIndex
      /\ s \in SpecIndex
  BY <1>1, <1>4
<1>8. device'[s] = at /\ \A u \in 1..(s - 1) : device'[u] = device[u]
  BY <1>2, <1>6, <1>7
<1>9. /\ \A u \in 1..s : device'[u] \in 1..Len(Bus) /\ Bus[device'[u]].serial = Serial[u]
      /\ \A s1, s2 \in 1..s : device'[s1] = device'[s2] => s1 = s2
  <2>1. \A u \in 1..s : device'[u] \in 1..Len(Bus) /\ Bus[device'[u]].serial = Serial[u]
    BY <1>5, <1>6, <1>7, <1>8 DEF Found
  <2>2. \A u \in 1..(s - 1) : device'[u] # at
    BY <1>6, <1>8 DEF Devices
  <2>3. \A s1, s2 \in 1..s : device'[s1] = device'[s2] => s1 = s2
    BY <1>6, <1>7, <1>8, <2>2 DEF Found
  <2>4. QED  BY <2>1, <2>3
<1>10. Found(s)'
  BY <1>9 DEF Found
<1>11. claimed' = Devices(1, s)'
  <2>1. claimed' = {device[u] : u \in 1..(s - 1)} \cup {at}
    BY <1>6 DEF Devices
  <2>2. claimed' = {device'[u] : u \in 1..s}
    BY <1>7, <1>8, <2>1
  <2>3. QED  BY <2>2 DEF Devices
<1>12. device' \in [SpecIndex -> Nat]
  <2>1. at \in Nat
    BY <1>5
  <2>2. QED  BY <1>2, <1>6, <2>1
<1>13. /\ search' \in [spec : Nat, at : Nat \ {0}] /\ search'.spec = s + 1 /\ (s + 1) - 1 = s
  <2>1. s + 1 \in Nat
    BY <1>4
  <2>2. QED  BY <1>2, <1>4, <2>1
<1>14. phase' \in {"connecting", "up"} /\ Accounted(n)'
  <2>1. CASE s + 1 \in SpecIndex
    <3>1. phase' = "connecting" /\ s + 1 \in 1..n
      BY <1>1, <1>6, <2>1
    <3>2. Found(search.spec - 1)' /\ claimed' = Devices(1, search.spec - 1)'
      <4>1. Found(search.spec - 1)' <=> Found(s)'
        BY <1>13 DEF Found
      <4>2. Devices(1, search.spec - 1)' = Devices(1, s)'
        BY <1>13 DEF Devices
      <4>3. QED  BY <1>10, <1>11, <4>1, <4>2
    <3>3. QED  BY <1>13, <3>1, <3>2 DEF Accounted
  <2>2. CASE s + 1 \notin SpecIndex
    <3>1. s = n /\ phase' = "up"
      BY <1>1, <1>4, <1>6, <2>2
    <3>2. QED  BY <1>10, <1>11, <3>1 DEF Accounted
  <2>3. QED  BY <2>1, <2>2
<1>15. QED  BY <1>1, <1>12, <1>13, <1>14 DEF ConnectInv

\* Each device that is closed is its spectrometer's own, and so no other's.
LEMMA ConnectClose ==
  ASSUME ConnectInv, Disconnect \/ CloseDevice
  PROVE  ConnectInv'
<1>1. PICK n \in 1..10 : SpecIndex = 1..n /\ Accounted(n)
  BY DEF ConnectInv
<1>2. /\ device' = device /\ device \in [SpecIndex -> Nat] /\ phase' = "closing"
      /\ search \in [spec : Nat, at : Nat \ {0}]
      /\ \A m : Found(m)' <=> Found(m)
      /\ \A l, m : Devices(l, m)' = Devices(l, m)
  <2>1. device' = device /\ phase' = "closing"
    BY DEF Disconnect, CloseDevice
  <2>2. QED  BY <2>1 DEF ConnectInv, Found, Devices
<1>3. CASE Disconnect
  <2>1. phase = "up" /\ claimed' = claimed /\ search' = [spec |-> 1, at |-> 1]
    BY <1>3 DEF Disconnect
  <2>2. 1 \in 1..(n + 1)
    BY <1>1
  <2>3. Accounted(n)'
    BY <1>1, <1>2, <2>1, <2>2 DEF Accounted
  <2>4. search' \in [spec : Nat, at : Nat \ {0}]
    BY <2>1
  <2>5. QED  BY <1>1, <1>2, <2>3, <2>4 DEF ConnectInv
<1>4. CASE CloseDevice
  <2> DEFINE s == search.spec
  <2>1. /\ phase = "closing" /\ s \in SpecIndex /\ claimed' = claimed \ {device[s]}
        /\ search' = [search EXCEPT !.spec = s + 1]
    BY <1>4 DEF CloseDevice, closeUSB4000
  <2>2. s \in 1..n /\ Found(n) /\ claimed = Devices(s, n)
    BY <1>1, <2>1 DEF Accounted
  <2>3. search' \in [spec : Nat, at : Nat \ {0}] /\ search'.spec = s + 1
    BY <1>2, <2>1, <2>2
  <2> HIDE DEF s
  <2>4. /\ s..n = {s} \cup (s + 1)..n /\ s \notin (s + 1)..n /\ s..n \subseteq 1..n
        /\ s + 1 \in 1..(n + 1)
    BY <1>1, <2>2
  <2>5. \A u \in (s + 1)..n : device[u] # device[s]
    BY <2>2, <2>4 DEF Found
  <2>6. claimed' = Devices(s + 1, n)
    BY <2>1, <2>2, <2>4, <2>5 DEF Devices
  <2>7. Accounted(n)'
    BY <1>2, <2>2, <2>3, <2>4, <2>6 DEF Accounted
  <2>8. QED  BY <1>1, <1>2, <2>3, <2>7 DEF ConnectInv
<1>5. QED  BY <1>3, <1>4

\* No request changes which device is which, and no closed device is used again.
LEMMA ConnectStep == ConnectInv /\ [Next]_vars => ConnectInv'
<1>1. ASSUME ConnectInv, UNCHANGED connection
      PROVE  ConnectInv'
  <2>1. UNCHANGED <<phase, search, device, claimed>>
    BY <1>1 DEF connection
  <2>2. /\ \A m : Found(m)' <=> Found(m)
        /\ \A l, m : Devices(l, m)' = Devices(l, m)
    BY <2>1 DEF Found, Devices
  <2>3. \A n : Accounted(n)' <=> Accounted(n)
    BY <2>1, <2>2 DEF Accounted
  <2>4. QED  BY <1>1, <2>1, <2>3 DEF ConnectInv
<1>2. ASSUME ConnectInv, ConnectError \/ ExitPolitely
      PROVE  ConnectInv'
  <2>1. phase' = "down" /\ UNCHANGED <<device, search>>
    BY <1>2 DEF ConnectError, ExitPolitely, Exit
  <2>2. QED  BY <1>2, <2>1 DEF ConnectInv, Accounted
<1>3. ASSUME NEW t \in Thread, Begin(t) \/ Work(t)
      PROVE  UNCHANGED connection
  BY <1>3 DEF Begin, Work, Lock, Unlock, FreeSample, ClearSample, Scan, StoreSample, KeepSample,
              Load, Use, CalculatePH, Send
<1>4. UNCHANGED vars => UNCHANGED connection
  BY DEF vars
<1>5. QED
  BY <1>1, <1>2, <1>3, <1>4, ConnectSearch, ConnectTake, ConnectClose DEF Next, MainNext

\* Each spectrometer is a device of its own with its serial number, no other device
\* that was asked for its number stays claimed, and in the end none: for any order of
\* devices on the bus, devices of the same serial number, whichever cannot be claimed
\* or read, and whatever clients ask for.
THEOREM DevicesAreOwn == Spec => []OwnDevices
<1>1. ASSUME ConnectInv
      PROVE  OwnDevices
  <2>1. PICK n \in 1..10 : SpecIndex = 1..n /\ Accounted(n)
    BY <1>1 DEF ConnectInv
  <2>2. CASE phase = "up"
    BY <2>1, <2>2 DEF Accounted, Found, Devices, OwnDevices
  <2>3. CASE phase = "closing" /\ search.spec \notin SpecIndex
    <3>1. search.spec = n + 1 /\ (n + 1)..n = {}
      BY <2>1, <2>3 DEF Accounted
    <3>2. claimed = {}
      BY <2>1, <2>3, <3>1 DEF Accounted, Devices
    <3>3. QED  BY <2>3, <3>2 DEF OwnDevices
  <2>4. QED  BY <2>2, <2>3 DEF OwnDevices
<1>2. Spec => Init /\ [][Next]_vars
  BY PTL DEF Spec
<1>3. QED  BY <1>1, <1>2, ConnectInit, ConnectStep, PTL

-----------------------------------------------------------------------------
(* What a request is made of.                                              *)

\* The requests but SSP, which frees and takes a sample without the mutex.
Measurement ==
  [op : {"RDS", "RRS", "RSS", "full spectrum", "RFS", "RAD", "RCC", "RAS", "RCD",
         "read reference", "read sample", "write", "pH", "no pH"}, spec : SpecIndex]
  \cup [op : {"correction"}, spec : SpecIndex, other : SpecIndex]

OnlyMeasures == \A t \in Thread : Menu[t] \subseteq Measurement

AnyStep ==
  [op : {"lock", "unlock", "free", "scan", "store", "keepRef", "keepDark", "load",
         "calculate"}, spec : SpecIndex]
  \cup [op : {"clear"}, spec : SpecIndex, scans : {1, NumScans}]
  \cup [op : {"use"}, spec : SpecIndex, part : {"ref", "last", "abs", "spectrum", "conc"}]
  \cup [op : {"send"}, spec : SpecIndex, kind : {"ref", "sample", "pH", "pHRow", "row"}]

\* The steps that a thread without a mutex takes, and those that leave it without one.
Outside == {"lock", "load", "calculate", "send"}
Ends == {"unlock", "use", "calculate", "send"}

\* What comes after a step inside a section.
Inner(a, b) ==
  \/ a = "lock" /\ b \in {"free", "unlock"}
  \/ a = "load" /\ b = "use"
  \/ a = "free" /\ b = "clear"
  \/ a = "clear" /\ b = "scan"
  \/ a = "scan" /\ b = "store"
  \/ a = "store" /\ b \in {"unlock", "keepRef", "keepDark"}
  \/ a \in {"keepRef", "keepDark"} /\ b = "unlock"

Follows(a, b) ==
  \/ a.op \in Ends /\ b.op \in Outside
  \/ Inner(a.op, b.op) /\ b.spec = a.spec

\* Steps of which each follows the one before.
Chained(steps) ==
  /\ steps \in Seq(AnyStep) /\ Len(steps) \in Nat \ {0}
  /\ \A i \in 1..(Len(steps) - 1) : Follows(steps[i], steps[i + 1])

\* What is left of a request, and a whole one.
Proper(steps) ==
  steps = <<>> \/ (Chained(steps) /\ steps[Len(steps)].op \in Ends)

Complete(steps) == Proper(steps) /\ (steps # <<>> => steps[1].op \in Outside)

LEMMA Linked ==
  ASSUME NEW a, NEW b, Chained(a), Chained(b), Follows(a[Len(a)], b[1])
  PROVE  /\ Chained(a \o b)
         /\ (a \o b)[1] = a[1] /\ (a \o b)[Len(a \o b)] = b[Len(b)]
<1>1. /\ a \in Seq(AnyStep) /\ b \in Seq(AnyStep)
      /\ Len(a) \in Nat \ {0} /\ Len(b) \in Nat \ {0}
  BY DEF Chained
<1>2. /\ a \o b \in Seq(AnyStep) /\ Len(a \o b) = Len(a) + Len(b)
      /\ \A i \in 1..(Len(a) + Len(b)) :
            (a \o b)[i] = IF i <= Len(a) THEN a[i] ELSE b[i - Len(a)]
  BY <1>1, ConcatProperties
<1>3. (a \o b)[1] = a[1] /\ (a \o b)[Len(a) + Len(b)] = b[Len(b)]
  BY <1>1, <1>2
<1>4. ASSUME NEW i \in 1..(Len(a) + Len(b) - 1)
      PROVE  Follows((a \o b)[i], (a \o b)[i + 1])
  <2>1. CASE i < Len(a)
    <3>1. (a \o b)[i] = a[i] /\ (a \o b)[i + 1] = a[i + 1] /\ i \in 1..(Len(a) - 1)
      BY <1>1, <1>2, <2>1
    <3>2. QED  BY <3>1 DEF Chained
  <2>2. CASE i = Len(a)
    <3>1. (a \o b)[i] = a[Len(a)] /\ (a \o b)[i + 1] = b[1]
      BY <1>1, <1>2, <2>2
    <3>2. QED  BY <3>1
  <2>3. CASE i > Len(a)
    <3>1. /\ (a \o b)[i] = b[i - Len(a)] /\ (a \o b)[i + 1] = b[(i - Len(a)) + 1]
          /\ i - Len(a) \in 1..(Len(b) - 1)
      BY <1>1, <1>2, <2>3
    <3>2. QED  BY <3>1 DEF Chained
  <2>4. QED  BY <1>1, <2>1, <2>2, <2>3
<1>5. QED  BY <1>1, <1>2, <1>3, <1>4 DEF Chained

LEMMA Joined ==
  ASSUME NEW a, NEW b, Complete(a), Complete(b)
  PROVE  Complete(a \o b)
<1>1. a \in Seq(AnyStep) /\ b \in Seq(AnyStep)
  BY EmptySeq DEF Complete, Proper, Chained
<1>2. CASE a = <<>> \/ b = <<>>
  BY <1>1, <1>2, ConcatEmptySeq
<1>3. CASE a # <<>> /\ b # <<>>
  <2>1. /\ Chained(a) /\ Chained(b) /\ Follows(a[Len(a)], b[1])
        /\ a[1].op \in Outside /\ b[Len(b)].op \in Ends
    BY <1>3 DEF Complete, Proper, Follows
  <2>2. QED  BY <2>1, Linked DEF Complete, Proper
<1>4. QED  BY <1>2, <1>3

LEMMA Single ==
  ASSUME NEW step \in AnyStep
  PROVE  /\ Chained(<<step>>) /\ <<step>>[1] = step /\ <<step>>[Len(<<step>>)] = step
         /\ step.op \in Outside \cap Ends => Complete(<<step>>)
BY DEF Complete, Proper, Chained

LEMMA SampleChained ==
  ASSUME NEW s \in SpecIndex
  PROVE  /\ Chained(getSample(s, NumScans))
         /\ getSample(s, NumScans)[1].op = "free" /\ getSample(s, NumScans)[1].spec = s
         /\ getSample(s, NumScans)[Len(getSample(s, NumScans))].op = "store"
         /\ getSample(s, NumScans)[Len(getSample(s, NumScans))].spec = s
<1> DEFINE free == [op |-> "free", spec |-> s]
           clear == [op |-> "clear", spec |-> s, scans |-> NumScans]
           scan == [op |-> "scan", spec |-> s]
           store == [op |-> "store", spec |-> s]
           all == <<free, clear, scan, store>>
<1>1. /\ free \in AnyStep /\ clear \in AnyStep /\ scan \in AnyStep /\ store \in AnyStep
      /\ free.spec = s /\ clear.spec = s /\ scan.spec = s /\ store.spec = s
      /\ free.op = "free" /\ clear.op = "clear" /\ scan.op = "scan" /\ store.op = "store"
  BY SpecAssumption DEF AnyStep
<1>2. Follows(free, clear) /\ Follows(clear, scan) /\ Follows(scan, store)
  BY <1>1 DEF Follows, Inner
<1>3. getSample(s, NumScans) = all
  BY DEF getSample
<1> HIDE DEF free, clear, scan, store
<1>4. /\ all \in Seq(AnyStep) /\ Len(all) = 4
      /\ all[1] = free /\ all[2] = clear /\ all[3] = scan /\ all[4] = store
  BY <1>1
<1> HIDE DEF all
<1>5. \A i \in 1..(Len(all) - 1) : Follows(all[i], all[i + 1])
  BY <1>2, <1>4
<1>6. QED  BY <1>1, <1>3, <1>4, <1>5 DEF Chained

LEMMA SectionChained ==
  ASSUME NEW s \in SpecIndex, NEW steps, Chained(steps),
         steps[1].op = "free", steps[1].spec = s,
         steps[Len(steps)].op \in {"store", "keepRef", "keepDark"}, steps[Len(steps)].spec = s
  PROVE  Complete(Section(s, steps))
<1> DEFINE lock == [op |-> "lock", spec |-> s]
           unlock == [op |-> "unlock", spec |-> s]
<1>1. /\ lock \in AnyStep /\ lock.op = "lock" /\ lock.spec = s
      /\ unlock \in AnyStep /\ unlock.op = "unlock" /\ unlock.spec = s
  BY DEF AnyStep
<1>2. Follows(lock, steps[1]) /\ Follows(steps[Len(steps)], unlock)
  BY <1>1 DEF Follows, Inner
<1>3. Section(s, steps) = <<lock>> \o steps \o <<unlock>>
  BY DEF Section
<1> HIDE DEF lock, unlock
<1> DEFINE first == <<lock>>
           last == <<unlock>>
<1>4. /\ Chained(first) /\ first[1] = lock /\ first[Len(first)] = lock
      /\ Chained(last) /\ last[1] = unlock /\ last[Len(last)] = unlock
  BY <1>1, Single
<1> HIDE DEF first, last
<1>5. /\ Chained(first \o steps) /\ (first \o steps)[1] = lock
      /\ (first \o steps)[Len(first \o steps)] = steps[Len(steps)]
  BY <1>2, <1>4, Linked
<1> DEFINE open == first \o steps
<1> HIDE DEF open
<1>6. /\ Chained(open \o last) /\ (open \o last)[1] = lock
      /\ (open \o last)[Len(open \o last)] = unlock
  BY <1>2, <1>4, <1>5, Linked DEF open
<1> DEFINE whole == open \o last
<1>7. Chained(whole) /\ whole[1] = lock /\ whole[Len(whole)] = unlock
  BY <1>6
<1> HIDE DEF whole
<1>8. Complete(whole)
  BY <1>1, <1>7 DEF Complete, Proper, Outside, Ends
<1>9. QED  BY <1>3, <1>8 DEF whole, open, first, last

LEMMA PairComplete ==
  ASSUME NEW a \in AnyStep, NEW b \in AnyStep, Follows(a, b), a.op \in Outside, b.op \in Ends
  PROVE  Complete(<<a, b>>)
<1>1. <<a, b>> \in Seq(AnyStep) /\ Len(<<a, b>>) = 2 /\ <<a, b>>[1] = a /\ <<a, b>>[2] = b
  OBVIOUS
<1> DEFINE pair == <<a, b>>
<1>2. pair \in Seq(AnyStep) /\ Len(pair) = 2 /\ pair[1] = a /\ pair[2] = b
  BY <1>1
<1> HIDE DEF pair
<1>3. Chained(pair)
  BY <1>2 DEF Chained
<1>4. Complete(pair)
  BY <1>2, <1>3 DEF Complete, Proper
<1>5. QED  BY <1>4 DEF pair

LEMMA SectionComplete ==
  ASSUME NEW s \in SpecIndex
  PROVE  /\ Complete(recordSpecSample(s)) /\ Complete(recordRefSample(s))
         /\ Complete(recordDarkSample(s)) /\ Complete(getCalCos(s))
<1>1. ASSUME NEW op \in {"keepRef", "keepDark"}
      PROVE  Complete(Section(s, getSample(s, NumScans) \o << [op |-> op, spec |-> s] >>))
  <2> DEFINE keep == [op |-> op, spec |-> s]
  <2>1. keep \in AnyStep /\ keep.op = op /\ keep.spec = s
    BY DEF AnyStep
  <2> HIDE DEF keep
  <2>2. Follows(getSample(s, NumScans)[Len(getSample(s, NumScans))], keep)
    BY <2>1, SampleChained DEF Follows, Inner
  <2> DEFINE last == <<keep>>
             sample_s == getSample(s, NumScans)
  <2>3. Chained(last) /\ last[1] = keep /\ last[Len(last)] = keep
    BY <2>1, Single
  <2> HIDE DEF last
  <2>4. /\ Chained(sample_s) /\ sample_s[1].op = "free" /\ sample_s[1].spec = s
        /\ Follows(sample_s[Len(sample_s)], last[1])
    BY <2>2, <2>3, SampleChained
  <2> HIDE DEF sample_s
  <2> DEFINE steps == sample_s \o last
  <2>5. Chained(steps) /\ steps[1] = sample_s[1] /\ steps[Len(steps)] = keep
    BY <2>3, <2>4, Linked
  <2> HIDE DEF steps
  <2>6. Complete(Section(s, steps))
    BY <2>1, <2>4, <2>5, SectionChained
  <2>7. QED  BY <2>6 DEF steps, sample_s, last, keep
<1>2. Complete(Section(s, getSample(s, NumScans)))
  BY SampleChained, SectionChained
<1>3. Complete(getCalCos(s))
  <2> DEFINE lock == [op |-> "lock", spec |-> s]
             unlock == [op |-> "unlock", spec |-> s]
  <2>1. /\ lock \in AnyStep /\ unlock \in AnyStep /\ Follows(lock, unlock)
        /\ lock.op \in Outside /\ unlock.op \in Ends
    BY DEF AnyStep, Follows, Inner, Outside, Ends
  <2>2. getCalCos(s) = <<lock>> \o <<>> \o <<unlock>>
    BY DEF getCalCos, Section
  <2> HIDE DEF lock, unlock
  <2>3. <<lock>> \o <<>> = <<lock>>
    <3>1. <<lock>> \in Seq(AnyStep)
      BY <2>1
    <3>2. QED  BY <3>1, ConcatEmptySeq
  <2>4. <<lock>> \o <<unlock>> = <<lock, unlock>>
    <3>1. /\ <<lock>> \in Seq(AnyStep) /\ <<unlock>> \in Seq(AnyStep)
          /\ <<lock, unlock>> \in Seq(AnyStep) /\ Len(<<lock, unlock>>) = 2
          /\ Len(<<lock>>) = 1 /\ Len(<<unlock>>) = 1
          /\ <<lock>>[1] = lock /\ <<unlock>>[1] = unlock
          /\ <<lock, unlock>>[1] = lock /\ <<lock, unlock>>[2] = unlock
      BY <2>1
    <3> DEFINE a == <<lock>>
               b == <<unlock>>
               ab == <<lock, unlock>>
    <3>2. /\ a \in Seq(AnyStep) /\ b \in Seq(AnyStep) /\ ab \in Seq(AnyStep)
          /\ Len(a) = 1 /\ Len(b) = 1 /\ Len(ab) = 2
          /\ a[1] = lock /\ b[1] = unlock /\ ab[1] = lock /\ ab[2] = unlock
      BY <3>1
    <3> HIDE DEF a, b, ab
    <3>3. /\ a \o b \in Seq(AnyStep) /\ Len(a \o b) = 2
          /\ (a \o b)[1] = lock /\ (a \o b)[2] = unlock
      BY <3>2, ConcatProperties
    <3>4. a \o b = ab
      <4> DEFINE c == a \o b
      <4>1. c \in Seq(AnyStep) /\ Len(c) = Len(ab) /\ \A i \in 1..Len(c) : c[i] = ab[i]
        BY <3>2, <3>3
      <4> HIDE DEF c
      <4>2. c = ab
        BY <3>2, <4>1, SeqEqual
      <4>3. QED  BY <4>2 DEF c
    <3>5. QED  BY <3>4 DEF a, b, ab
  <2>5. QED  BY <2>1, <2>2, <2>3, <2>4, PairComplete
<1>4. QED
  BY <1>1, <1>2, <1>3 DEF recordSpecSample, recordRefSample, recordDarkSample

LEMMA ReadComplete ==
  ASSUME NEW s \in SpecIndex, NEW part \in {"ref", "last", "abs", "spectrum", "conc"}
  PROVE  Complete(Read(s, part))
<1> DEFINE load == [op |-> "load", spec |-> s]
           use == [op |-> "use", spec |-> s, part |-> part]
<1>1. /\ load \in AnyStep /\ use \in AnyStep /\ Follows(load, use)
      /\ load.op \in Outside /\ use.op \in Ends
  BY DEF AnyStep, Follows, Inner, Outside, Ends
<1>2. Complete(<<load, use>>)
  BY <1>1, PairComplete
<1>3. QED  BY <1>2 DEF Read

LEMMA OneComplete ==
  ASSUME NEW s \in SpecIndex
  PROVE  /\ \A kind \in {"ref", "sample", "pH", "pHRow", "row"} : Complete(SendMessage(s, kind))
         /\ Complete(<< [op |-> "calculate", spec |-> s] >>)
<1>1. \A kind \in {"ref", "sample", "pH", "pHRow", "row"} :
        LET send == [op |-> "send", spec |-> s, kind |-> kind]
        IN send \in AnyStep /\ send.op = "send"
  BY DEF AnyStep
<1>2. LET calculate == [op |-> "calculate", spec |-> s]
      IN calculate \in AnyStep /\ calculate.op = "calculate"
  BY DEF AnyStep
<1>3. QED  BY <1>1, <1>2, Single DEF SendMessage, Outside, Ends

\* A request that only measures is made of sections and steps outside of any.
LEMMA StepsComplete ==
  ASSUME NEW r \in Measurement
  PROVE  Complete(Steps(r))
<1> DEFINE s == r.spec
<1>0. s \in SpecIndex
  BY DEF Measurement
<1> HIDE DEF s
<1>1. /\ Complete(recordSpecSample(s)) /\ Complete(recordRefSample(s))
      /\ Complete(recordDarkSample(s)) /\ Complete(getCalCos(s))
  BY <1>0, SectionComplete
<1>2. \A u \in SpecIndex :
        /\ Complete(getRefSample(u)) /\ Complete(getLastSample(u)) /\ Complete(getAbsorbance(u))
        /\ Complete(getAbsorbanceSpectrum(u)) /\ Complete(getConcentrations(u))
        /\ Complete(getRawCounts(u))
  BY ReadComplete DEF getRefSample, getLastSample, getAbsorbance, getAbsorbanceSpectrum,
                      getConcentrations, getRawCounts
<1>3. /\ \A kind \in {"ref", "sample", "pH", "pHRow", "row"} : Complete(SendMessage(s, kind))
      /\ Complete(<< [op |-> "calculate", spec |-> s] >>)
  BY <1>0, OneComplete
<1>4. \A u \in SpecIndex : Complete(methodAbsCorr(s, u))
  BY <1>0, <1>2, Joined DEF methodAbsCorr, getCorrectionAbsorbance
<1>5. Complete(methodReadReference(s) \o readRefRunResponse(s))
  <2>1. Complete(readRefRunResponse(s))
    BY <1>0, <1>2, <1>3, Joined DEF readRefRunResponse
  <2>2. QED  BY <1>1, <2>1, Joined DEF methodReadReference
<1>6. Complete(methodReadSample(s) \o readSampRunResponse(s))
  <2>1. Complete(methodReadSample(s))
    BY <1>0, <1>1, <1>2, Joined DEF methodReadSample
  <2>2. Complete(readSampRunResponse(s))
    <3>1. Complete(getLastSample(s) \o getAbsorbance(s))
      BY <1>0, <1>2, Joined
    <3>2. Complete(getLastSample(s) \o getAbsorbance(s) \o getAbsorbanceSpectrum(s))
      BY <1>0, <1>2, <3>1, Joined
    <3>3. QED  BY <1>3, <3>2, Joined DEF readSampRunResponse
  <2>3. QED  BY <2>1, <2>2, Joined
<1>7. Complete(writeConcData(s))
  <2>1. Complete(getConcentrations(s) \o getAbsorbance(s))
    BY <1>0, <1>2, Joined
  <2>2. Complete(getConcentrations(s) \o getAbsorbance(s) \o getRawCounts(s))
    BY <1>0, <1>2, <2>1, Joined
  <2>3. QED  BY <1>3, <2>2, Joined DEF writeConcData
<1>8. /\ Complete(methodCalcPH(s) \o calPHRunResponse(s, "pH"))
      /\ Complete(methodCalcPH(s) \o writepHToDB(s) \o calPHRunResponse(s, "pHRow"))
  <2>1. Complete(methodCalcPH(s))
    BY <1>0, <1>2, <1>3, Joined DEF methodCalcPH
  <2>2. Complete(methodCalcPH(s) \o writepHToDB(s))
    BY <1>0, <1>2, <2>1, Joined DEF writepHToDB
  <2>3. QED  BY <1>3, <2>1, <2>2, Joined DEF calPHRunResponse
<1>9. CASE r.op = "correction"
  <2>1. r.other \in SpecIndex
    BY <1>9 DEF Measurement
  <2>2. Steps(r) = methodAbsCorr(s, r.other)
    BY <1>9 DEF Steps, s
  <2>3. QED  BY <1>4, <2>1, <2>2
<1>10. CASE r.op # "correction"
  <2>1. r.op \in {"RDS", "RRS", "RSS", "full spectrum", "RFS", "RAD", "RCC", "RAS", "RCD",
                  "read reference", "read sample", "write", "pH", "no pH"}
    BY <1>10 DEF Measurement
  <2>2. /\ r.op = "RDS" => Steps(r) = recordDarkSample(s)
        /\ r.op = "RRS" => Steps(r) = recordRefSample(s)
        /\ r.op \in {"RSS", "full spectrum", "RFS"} => Steps(r) = recordSpecSample(s)
        /\ r.op = "RAD" => Steps(r) = getAbsorbance(s)
        /\ r.op = "RCC" => Steps(r) = getConcentrations(s)
        /\ r.op = "RAS" => Steps(r) = getAbsorbanceSpectrum(s)
        /\ r.op = "RCD" => Steps(r) = getCalCos(s)
        /\ r.op = "read reference" => Steps(r) = methodReadReference(s) \o readRefRunResponse(s)
        /\ r.op = "read sample" => Steps(r) = methodReadSample(s) \o readSampRunResponse(s)
        /\ r.op = "write" => Steps(r) = writeConcData(s)
        /\ r.op = "no pH" => Steps(r) = methodCalcPH(s) \o calPHRunResponse(s, "pH")
        /\ r.op = "pH" =>
             Steps(r) = methodCalcPH(s) \o writepHToDB(s) \o calPHRunResponse(s, "pHRow")
    BY DEF Steps, s, methodReadFullSpec, getSpecSample
  <2>3. QED  BY <1>0, <1>1, <1>2, <1>5, <1>6, <1>7, <1>8, <2>1, <2>2
<1>11. QED  BY <1>9, <1>10

\* The next step is one that follows.
LEMMA Rest ==
  ASSUME NEW steps, Proper(steps), steps # <<>>
  PROVE  /\ Proper(Tail(steps)) /\ Head(steps) \in AnyStep
         /\ Tail(steps) # <<>> => Follows(Head(steps), Head(Tail(steps)))
         /\ Tail(steps) = <<>> => Head(steps).op \in Ends
<1>1. steps \in Seq(AnyStep) /\ Len(steps) \in Nat \ {0} /\ Chained(steps)
  BY DEF Proper, Chained
<1>2. /\ Head(steps) = steps[1] /\ Head(steps) \in AnyStep
      /\ Tail(steps) \in Seq(AnyStep) /\ Len(Tail(steps)) = Len(steps) - 1
      /\ \A i \in 1..(Len(steps) - 1) : Tail(steps)[i] = steps[i + 1]
  BY <1>1, HeadTailProperties
<1>3. CASE Tail(steps) = <<>>
  <2>1. Len(Tail(steps)) = 0
    BY <1>3, EmptySeq
  <2>2. Len(steps) = 1
    <3> DEFINE k == Len(steps)
    <3>1. k \in Nat \ {0} /\ k - 1 = 0
      BY <1>1, <1>2, <2>1
    <3> HIDE DEF k
    <3>2. k = 1
      BY <3>1
    <3>3. QED  BY <3>2 DEF k
  <2>3. QED  BY <1>2, <1>3, <2>2 DEF Proper
<1>4. CASE Tail(steps) # <<>>
  <2>1. Len(Tail(steps)) \in Nat \ {0} /\ Len(steps) >= 2
    <3>1. Len(Tail(steps)) \in Nat \ {0}
      BY <1>2, <1>4, EmptySeq
    <3>2. QED  BY <1>1, <1>2, <3>1
  <2>2. /\ Head(Tail(steps)) = steps[2]
        /\ Tail(steps)[Len(Tail(steps))] = steps[Len(steps)]
    <3>1. Head(Tail(steps)) = Tail(steps)[1]
      BY <1>2, <1>4
    <3>2. QED  BY <1>1, <1>2, <2>1, <3>1
  <2>3. ASSUME NEW i \in 1..(Len(Tail(steps)) - 1)
        PROVE  Follows(Tail(steps)[i], Tail(steps)[i + 1])
    <3>1. /\ Tail(steps)[i] = steps[i + 1] /\ Tail(steps)[i + 1] = steps[(i + 1) + 1]
          /\ i + 1 \in 1..(Len(steps) - 1)
      BY <1>1, <1>2, <2>1
    <3>2. QED  BY <1>1, <3>1 DEF Chained
  <2>4. Follows(steps[1], steps[2])
    <3>1. 1 \in 1..(Len(steps) - 1) /\ 1 + 1 = 2
      BY <1>1, <2>1
    <3>2. QED  BY <1>1, <3>1 DEF Chained
  <2>5. QED  BY <1>1, <1>2, <1>4, <2>1, <2>2, <2>3, <2>4 DEF Proper, Chained
<1>5. QED  BY <1>3, <1>4
-----------------------------------------------------------------------------
(* Who is in which section.                                                *)

In(t, ops) == todo[t] # <<>> /\ Head(todo[t]).op \in ops
Inside(t) == todo[t] # <<>> /\ Head(todo[t]).op \notin Outside
Filling(t) == In(t, {"scan", "store"})

\* A mutex is held exactly by who is inside a section, or by main for ever.
Held == \A t \in Thread, s \in SpecIndex : specsMutex[s] = t <=> Inside(t) /\ At(t) = s

Sections ==
  /\ todo \in [Thread -> Seq(AnyStep)]
  /\ \A t \in Thread : Proper(todo[t])
  /\ specsMutex \in [SpecIndex -> Thread \cup {NoThread, Main}]
  /\ Held

\* The places of the others, when t goes on with the rest of its request.
LEMMA OthersStay ==
  ASSUME Sections, NEW t \in Thread, NEW rest, todo' = [todo EXCEPT ![t] = rest]
  PROVE  /\ todo'[t] = rest
         /\ \A u \in Thread \ {t} : /\ todo'[u] = todo[u] /\ At(u)' = At(u)
                                    /\ Inside(u)' <=> Inside(u)
                                    /\ Filling(u)' <=> Filling(u)
                                    /\ \A ops : In(u, ops)' <=> In(u, ops)
         /\ At(t)' = Head(rest).spec
         /\ Inside(t)' <=> rest # <<>> /\ Head(rest).op \notin Outside
         /\ \A ops : In(t, ops)' <=> rest # <<>> /\ Head(rest).op \in ops
         /\ Filling(t)' <=> rest # <<>> /\ Head(rest).op \in {"scan", "store"}
<1>1. todo'[t] = rest /\ \A u \in Thread \ {t} : todo'[u] = todo[u]
  BY DEF Sections
<1>2. QED  BY <1>1 DEF At, Inside, In, Filling

\* The rest of a request after its next step.
LEMMA Next_t ==
  ASSUME Sections, NEW t \in Thread, todo[t] # <<>>
  PROVE  /\ Proper(Tail(todo[t])) /\ Tail(todo[t]) \in Seq(AnyStep)
         /\ Head(todo[t]) \in AnyStep /\ At(t) \in SpecIndex
         /\ Tail(todo[t]) # <<>> => Follows(Head(todo[t]), Head(Tail(todo[t])))
         /\ Tail(todo[t]) = <<>> => Head(todo[t]).op \in Ends
<1>1. Proper(todo[t])
  BY DEF Sections
<1>2. \A step \in AnyStep : step.spec \in SpecIndex
  BY DEF AnyStep
<1>3. Tail(todo[t]) \in Seq(AnyStep)
  BY <1>1, Rest, EmptySeq DEF Proper, Chained
<1>4. QED  BY <1>1, <1>2, <1>3, Rest DEF At

\* Nobody else is in the section of a spectrometer.
LEMMA Alone ==
  ASSUME Sections, NEW t \in Thread, Inside(t), At(t) \in SpecIndex,
         NEW u \in Thread \ {t}, Inside(u)
  PROVE  At(u) # At(t)
BY DEF Sections, Held

LEMMA Queue ==
  ASSUME Sections, NEW t \in Thread, NEW rest, Proper(rest), todo' = [todo EXCEPT ![t] = rest]
  PROVE  todo' \in [Thread -> Seq(AnyStep)] /\ \A u \in Thread : Proper(todo'[u])
<1>1. rest \in Seq(AnyStep)
  BY EmptySeq DEF Proper, Chained
<1>2. QED  BY <1>1 DEF Sections

LEMMA StaysInside ==
  ASSUME Sections, NEW t \in Thread, NEW rest, todo' = [todo EXCEPT ![t] = rest], Proper(rest),
         Inside(t), rest # <<>>, Head(rest).op \notin Outside, Head(rest).spec = At(t),
         specsMutex' = specsMutex
  PROVE  Sections'
<1>1. Inside(t)' /\ At(t)' = At(t)
  BY OthersStay
<1>2. \A u \in Thread \ {t} : (Inside(u)' <=> Inside(u)) /\ At(u)' = At(u)
  BY OthersStay
<1>3. Held'
  BY <1>1, <1>2 DEF Sections, Held
<1>4. QED  BY <1>3, Queue DEF Sections

LEMMA StaysOutside ==
  ASSUME Sections, NEW t \in Thread, NEW rest, todo' = [todo EXCEPT ![t] = rest], Proper(rest),
         ~Inside(t), rest = <<>> \/ Head(rest).op \in Outside,
         specsMutex' = specsMutex
  PROVE  Sections'
<1>1. ~Inside(t)'
  BY OthersStay
<1>2. \A u \in Thread \ {t} : (Inside(u)' <=> Inside(u)) /\ At(u)' = At(u)
  BY OthersStay
<1>3. Held'
  BY <1>1, <1>2 DEF Sections, Held
<1>4. QED  BY <1>3, Queue DEF Sections

LEMMA Enters ==
  ASSUME Sections, NEW t \in Thread, NEW rest, todo' = [todo EXCEPT ![t] = rest], Proper(rest),
         ~Inside(t), rest # <<>>, Head(rest).op \notin Outside,
         NEW s \in SpecIndex, Head(rest).spec = s, specsMutex[s] = NoThread,
         specsMutex' = [specsMutex EXCEPT ![s] = t]
  PROVE  Sections'
<1>1. specsMutex'[s] = t /\ \A s2 \in SpecIndex \ {s} : specsMutex'[s2] = specsMutex[s2]
  BY DEF Sections
<1>2. Inside(t)' /\ At(t)' = s
  BY OthersStay
<1>3. \A u \in Thread \ {t} : (Inside(u)' <=> Inside(u)) /\ At(u)' = At(u)
  BY OthersStay
<1>4. \A u \in Thread : ~(Inside(u) /\ At(u) = s)
  BY ThreadAssumption DEF Sections, Held
<1>5. Held'
  BY <1>1, <1>2, <1>3, <1>4 DEF Sections, Held
<1>6. QED  BY <1>5, Queue DEF Sections

LEMMA Leaves ==
  ASSUME Sections, NEW t \in Thread, NEW rest, todo' = [todo EXCEPT ![t] = rest], Proper(rest),
         Inside(t), At(t) \in SpecIndex, rest = <<>> \/ Head(rest).op \in Outside,
         specsMutex' = [specsMutex EXCEPT ![At(t)] = NoThread]
  PROVE  Sections'
<1>1. /\ specsMutex'[At(t)] = NoThread /\ specsMutex[At(t)] = t
      /\ \A s2 \in SpecIndex \ {At(t)} : specsMutex'[s2] = specsMutex[s2]
  BY DEF Sections, Held
<1>2. ~Inside(t)'
  BY OthersStay
<1>3. \A u \in Thread \ {t} : (Inside(u)' <=> Inside(u)) /\ At(u)' = At(u)
  BY OthersStay
<1>4. \A u \in Thread \ {t} : ~(Inside(u) /\ At(u) = At(t))
  BY <1>1 DEF Sections, Held
<1>5. Held'
  BY <1>1, <1>2, <1>3, <1>4, ThreadAssumption DEF Sections, Held
<1>6. QED  BY <1>5, Queue DEF Sections

LEMMA SectionsStep ==
  ASSUME OnlyMeasures, Sections, NEW t \in Thread, Begin(t) \/ Work(t)
  PROVE  Sections'
<1>1. CASE Begin(t)
  <2>1. PICK r \in Menu[t] : todo' = [todo EXCEPT ![t] = Steps(r)]
    BY <1>1 DEF Begin
  <2>2. Complete(Steps(r))
    BY <2>1, StepsComplete DEF OnlyMeasures
  <2> DEFINE rest == Steps(r)
  <2>3. /\ todo' = [todo EXCEPT ![t] = rest] /\ Proper(rest)
        /\ rest = <<>> \/ rest[1].op \in Outside
    BY <2>1, <2>2 DEF Complete
  <2> HIDE DEF rest
  <2>4. rest = <<>> \/ Head(rest).op \in Outside
    BY <2>3, EmptySeq DEF Proper, Chained
  <2>5. ~Inside(t) /\ specsMutex' = specsMutex
    BY <1>1 DEF Begin, Idle, Inside
  <2>6. QED  BY <2>3, <2>4, <2>5, StaysOutside
<1> DEFINE rest == Tail(todo[t])
<1>2. CASE Lock(t) \/ Load(t)
  <2>1. /\ todo[t] # <<>> /\ Head(todo[t]).op \in {"lock", "load"}
        /\ todo' = [todo EXCEPT ![t] = rest]
        /\ specsMutex[At(t)] = NoThread /\ specsMutex' = [specsMutex EXCEPT ![At(t)] = t]
    BY <1>2 DEF Lock, Load, Step, Idle, Continue
  <2>2. /\ Proper(rest) /\ At(t) \in SpecIndex /\ rest # <<>>
        /\ Head(rest).op \notin Outside /\ Head(rest).spec = At(t)
    BY <2>1, Next_t DEF Follows, Inner, Ends, Outside, At
  <2>3. ~Inside(t)
    BY <2>1 DEF Inside, Outside
  <2> HIDE DEF rest
  <2>4. QED  BY <2>1, <2>2, <2>3, Enters
<1>3. CASE Unlock(t) \/ Use(t)
  <2>1. /\ todo[t] # <<>> /\ Head(todo[t]).op \in {"unlock", "use"}
        /\ todo' = [todo EXCEPT ![t] = rest]
        /\ specsMutex' = [specsMutex EXCEPT ![At(t)] = NoThread]
    BY <1>3 DEF Unlock, Use, Step, Idle, Continue
  <2>2. /\ Proper(rest) /\ At(t) \in SpecIndex
        /\ rest = <<>> \/ Head(rest).op \in Outside
    BY <2>1, Next_t DEF Follows, Inner, Ends
  <2>3. Inside(t)
    BY <2>1 DEF Inside, Outside
  <2> HIDE DEF rest
  <2>4. QED  BY <2>1, <2>2, <2>3, Leaves
<1>4. CASE CalculatePH(t) \/ Send(t)
  <2>1. /\ todo[t] # <<>> /\ Head(todo[t]).op \in {"calculate", "send"}
        /\ todo' = [todo EXCEPT ![t] = rest] /\ specsMutex' = specsMutex
    BY <1>4 DEF CalculatePH, Send, Step, Idle, Continue
  <2>2. Proper(rest) /\ (rest = <<>> \/ Head(rest).op \in Outside)
    BY <2>1, Next_t DEF Follows, Inner, Ends
  <2>3. ~Inside(t)
    BY <2>1 DEF Inside, Outside
  <2> HIDE DEF rest
  <2>4. QED  BY <2>1, <2>2, <2>3, StaysOutside
<1>5. CASE FreeSample(t) \/ ClearSample(t) \/ StoreSample(t) \/ KeepSample(t)
  <2>1. /\ todo[t] # <<>> /\ Head(todo[t]).op \in {"free", "clear", "store", "keepRef", "keepDark"}
        /\ todo' = [todo EXCEPT ![t] = rest] /\ specsMutex' = specsMutex
    BY <1>5 DEF FreeSample, ClearSample, StoreSample, KeepSample, Step, Idle, Continue
  <2>2. /\ Proper(rest) /\ rest # <<>> /\ Head(rest).op \notin Outside /\ Head(rest).spec = At(t)
    BY <2>1, Next_t DEF Follows, Inner, Ends, Outside, At
  <2>3. Inside(t)
    BY <2>1 DEF Inside, Outside
  <2> HIDE DEF rest
  <2>4. QED  BY <2>1, <2>2, <2>3, StaysInside
<1>6. CASE Scan(t)
  <2>1. /\ todo[t] # <<>> /\ Head(todo[t]).op = "scan" /\ specsMutex' = specsMutex
        /\ \/ todo' = todo
           \/ todo' = [todo EXCEPT ![t] = rest] \/ todo' = [todo EXCEPT ![t] = Tail(rest)]
    BY <1>6 DEF Scan, Scanned, ScanFails, Step, Idle, Continue
  <2>2. /\ Proper(rest) /\ rest # <<>> /\ Head(rest).op = "store" /\ Head(rest).spec = At(t)
    BY <2>1, Next_t DEF Follows, Inner, Ends, At
  <2>3. /\ Proper(Tail(rest)) /\ Tail(rest) # <<>> /\ Head(Tail(rest)).op \notin Outside
        /\ Head(Tail(rest)).spec = At(t)
    BY <2>2, Rest DEF Follows, Inner, Ends, Outside
  <2>4. Inside(t) /\ "store" \notin Outside
    BY <2>1 DEF Inside, Outside
  <2>5. CASE todo' = todo
    BY <2>1, <2>5 DEF Sections, Held, Inside, At
  <2> HIDE DEF rest
  <2>6. CASE todo' = [todo EXCEPT ![t] = rest]
    BY <2>1, <2>2, <2>4, <2>6, StaysInside
  <2>7. CASE todo' = [todo EXCEPT ![t] = Tail(rest)]
    <3> DEFINE after == Tail(rest)
    <3>1. /\ todo' = [todo EXCEPT ![t] = after] /\ Proper(after) /\ after # <<>>
          /\ Head(after).op \notin Outside /\ Head(after).spec = At(t)
      BY <2>3, <2>7
    <3> HIDE DEF after
    <3>2. QED  BY <2>1, <2>4, <3>1, StaysInside
  <2>8. QED  BY <2>1, <2>5, <2>6, <2>7
<1>7. QED  BY <1>1, <1>2, <1>3, <1>4, <1>5, <1>6 DEF Work

-----------------------------------------------------------------------------
(* What the samples are, and what a reader has loaded.                     *)

Recording == [n : Nat \ {0}, scans : Nat, of : Nat]

SampleType ==
  /\ sample \in [SpecIndex -> {NoSample} \cup Recording]
  /\ refSample \in [SpecIndex -> {NoSample} \cup Recording]
  /\ work \in [Thread -> {NoSample} \cup Recording]
  /\ recorded \in Nat /\ live \subseteq 1..recorded
  /\ \A s \in SpecIndex : sample[s].n \in 0..recorded
  /\ \A t \in Thread : work[t].n \in 0..recorded

Loaded == \A t \in Thread : In(t, {"use"}) => work[t] = sample[At(t)]

\* Who takes a sample has a buffer for it.
Buffered == \A t \in Thread : Filling(t) => work[t] # NoSample

Values == SampleType /\ Loaded /\ Buffered

LEMMA NoSampleIsNone ==
  ASSUME NEW r \in {NoSample} \cup Recording
  PROVE  r = NoSample <=> r.n = 0
BY DEF NoSample, Recording

\* Who has loaded a sample keeps it while others go on.
LEMMA LoadedStays ==
  ASSUME Sections, Values, NEW t \in Thread, NEW rest, todo' = [todo EXCEPT ![t] = rest],
         rest = <<>> \/ Head(rest).op # "use",
         \A u \in Thread \ {t} : work'[u] = work[u],
         Inside(t) /\ At(t) \in SpecIndex => \A s \in SpecIndex \ {At(t)} : sample'[s] = sample[s],
         ~Inside(t) \/ At(t) \notin SpecIndex => sample' = sample
  PROVE  Loaded'
<1> SUFFICES ASSUME NEW u \in Thread, In(u, {"use"})'
             PROVE  work'[u] = sample'[At(u)']
  BY DEF Loaded
<1>1. u # t
  BY OthersStay
<1>2. In(u, {"use"}) /\ At(u)' = At(u) /\ Inside(u)
  BY <1>1, OthersStay DEF In, Inside, Outside
<1>3. At(u) \in SpecIndex
  BY <1>2, Next_t DEF In
<1>4. sample'[At(u)] = sample[At(u)]
  BY <1>1, <1>2, <1>3, Alone
<1>5. QED  BY <1>1, <1>2, <1>4 DEF Values, Loaded

LEMMA BufferedStays ==
  ASSUME Sections, Values, NEW t \in Thread, NEW rest, todo' = [todo EXCEPT ![t] = rest],
         rest = <<>> \/ Head(rest).op \notin {"scan", "store"} \/ work'[t] # NoSample,
         \A u \in Thread \ {t} : work'[u] = work[u]
  PROVE  Buffered'
<1>1. \A u \in Thread \ {t} : Filling(u)' <=> Filling(u)
  BY OthersStay
<1>2. Filling(t)' <=> rest # <<>> /\ Head(rest).op \in {"scan", "store"}
  BY OthersStay
<1>3. QED  BY <1>1, <1>2 DEF Values, Buffered

LEMMA ValuesStep ==
  ASSUME OnlyMeasures, Sections, Values, NEW t \in Thread, Begin(t) \/ Work(t)
  PROVE  Values'
<1> DEFINE rest == Tail(todo[t])
<1>0. SampleType
  BY DEF Values
<1>1. CASE Begin(t)
  <2>1. PICK r \in Menu[t] : todo' = [todo EXCEPT ![t] = Steps(r)]
    BY <1>1 DEF Begin
  <2>2. Complete(Steps(r))
    BY <2>1, StepsComplete DEF OnlyMeasures
  <2> DEFINE new == Steps(r)
  <2>3. todo' = [todo EXCEPT ![t] = new] /\ (new = <<>> \/ new[1].op \in Outside) /\ Proper(new)
    BY <2>1, <2>2 DEF Complete
  <2> HIDE DEF new
  <2>4. new = <<>> \/ Head(new).op \notin {"use", "scan", "store"}
    BY <2>3, EmptySeq DEF Proper, Chained, Outside
  <2>5. UNCHANGED <<sample, refSample, work, recorded, live>> /\ ~Inside(t)
    BY <1>1 DEF Begin, samples, Inside, Idle
  <2>6. Loaded' /\ Buffered'
    BY <2>3, <2>4, <2>5, LoadedStays, BufferedStays
  <2>7. QED  BY <1>0, <2>5, <2>6 DEF Values, SampleType
<1>2. CASE Lock(t) \/ Unlock(t) \/ CalculatePH(t) \/ Send(t) \/ Use(t) \/ FreeSample(t) \/ KeepSample(t)
  <2>1. /\ todo[t] # <<>> /\ todo' = [todo EXCEPT ![t] = rest]
        /\ Head(todo[t]).op \in {"lock", "unlock", "calculate", "send", "use", "free",
                                 "keepRef", "keepDark"}
        /\ UNCHANGED <<sample, work, recorded>>
    BY <1>2 DEF Lock, Unlock, CalculatePH, Send, Use, FreeSample, KeepSample, Step, Idle, Continue,
                samples
  <2>2. rest = <<>> \/ Head(rest).op \notin {"use", "scan", "store"}
    BY <2>1, Next_t DEF Follows, Inner, Outside
  <2>3. At(t) \in SpecIndex
    BY <2>1, Next_t
  <2>4. live' \subseteq live /\ refSample' \in [SpecIndex -> {NoSample} \cup Recording]
    <3>1. CASE FreeSample(t)
      BY <1>0, <3>1 DEF FreeSample, SampleType
    <3>2. CASE KeepSample(t)
      <4>1. live' = live /\ (refSample' = refSample
                             \/ refSample' = [refSample EXCEPT ![At(t)] = sample[At(t)]])
        BY <3>2 DEF KeepSample
      <4>2. QED  BY <1>0, <2>3, <4>1 DEF SampleType
    <3>3. CASE Lock(t) \/ Unlock(t) \/ CalculatePH(t) \/ Send(t) \/ Use(t)
      BY <1>0, <3>3 DEF Lock, Unlock, CalculatePH, Send, Use, samples, SampleType
    <3>4. QED  BY <1>2, <3>1, <3>2, <3>3
  <2> HIDE DEF rest
  <2>5. Loaded' /\ Buffered'
    BY <2>1, <2>2, LoadedStays, BufferedStays
  <2>6. SampleType'
    BY <1>0, <2>1, <2>4 DEF SampleType
  <2>7. QED  BY <2>5, <2>6 DEF Values
<1>3. CASE Load(t)
  <2>1. /\ todo[t] # <<>> /\ Head(todo[t]).op = "load" /\ todo' = [todo EXCEPT ![t] = rest]
        /\ work' = [work EXCEPT ![t] = sample[At(t)]]
        /\ UNCHANGED <<sample, refSample, live, recorded>>
    BY <1>3 DEF Load, Step, Idle, Continue, samples
  <2>2. /\ At(t) \in SpecIndex /\ rest # <<>> /\ Head(rest).op = "use"
        /\ Head(rest).spec = At(t)
    BY <2>1, Next_t DEF Follows, Inner, Ends, At
  <2> HIDE DEF rest
  <2>3. /\ work'[t] = sample[At(t)] /\ \A u \in Thread \ {t} : work'[u] = work[u]
        /\ work' \in [Thread -> {NoSample} \cup Recording]
    BY <1>0, <2>1, <2>2 DEF SampleType
  <2>4. /\ At(t)' = At(t)
        /\ \A u \in Thread \ {t} : At(u)' = At(u) /\ (In(u, {"use"})' <=> In(u, {"use"}))
    BY <2>1, <2>2, OthersStay
  <2>5. Loaded' /\ Buffered'
    BY <2>1, <2>2, <2>3, <2>4, BufferedStays DEF Values, Loaded
  <2>6. \A u \in Thread : work'[u].n \in 0..recorded
    BY <1>0, <2>2, <2>3 DEF SampleType
  <2>7. QED  BY <1>0, <2>1, <2>3, <2>5, <2>6 DEF Values, SampleType
<1>4. CASE ClearSample(t)
  <2> DEFINE new == [n |-> recorded + 1, scans |-> 0, of |-> Head(todo[t]).scans]
  <2>1. /\ todo[t] # <<>> /\ Head(todo[t]).op = "clear" /\ todo' = [todo EXCEPT ![t] = rest]
        /\ sample' = [sample EXCEPT ![At(t)] = NoSample]
        /\ recorded' = recorded + 1 /\ live' = live \cup {recorded + 1}
        /\ work' = [work EXCEPT ![t] = new] /\ refSample' = refSample
    BY <1>4 DEF ClearSample, Step, Idle, Continue
  <2>2. /\ At(t) \in SpecIndex /\ rest # <<>> /\ Head(rest).op # "use"
        /\ Head(todo[t]).scans \in Nat
    <3>1. Head(todo[t]).scans \in {1, NumScans}
      BY <2>1, Next_t DEF AnyStep
    <3>2. At(t) \in SpecIndex /\ rest # <<>> /\ Head(rest).op # "use"
      BY <2>1, Next_t DEF Follows, Inner, Ends
    <3>3. QED  BY <3>1, <3>2, SpecAssumption
  <2>3. new \in Recording /\ new.n = recorded + 1 /\ recorded \in Nat /\ NoSample.n = 0
    BY <1>0, <2>2 DEF SampleType, Recording, NoSample
  <2> HIDE DEF rest, new
  <2>4. /\ work' \in [Thread -> {NoSample} \cup Recording] /\ work'[t] = new
        /\ \A u \in Thread \ {t} : work'[u] = work[u]
        /\ sample' \in [SpecIndex -> {NoSample} \cup Recording] /\ sample'[At(t)] = NoSample
        /\ \A s \in SpecIndex \ {At(t)} : sample'[s] = sample[s]
    BY <1>0, <2>1, <2>2, <2>3 DEF SampleType
  <2>5. Inside(t)
    BY <2>1 DEF Inside, Outside
  <2>6. Loaded' /\ Buffered'
    <3>1. work'[t] # NoSample
      BY <2>3, <2>4
    <3>2. Loaded'
      BY <2>1, <2>2, <2>4, <2>5, LoadedStays
    <3>3. Buffered'
      BY <2>1, <2>4, <3>1, BufferedStays
    <3>4. QED  BY <3>2, <3>3
  <2>7. \A s \in SpecIndex : sample'[s].n \in 0..(recorded + 1)
    BY <1>0, <2>3, <2>4 DEF SampleType
  <2>8. \A u \in Thread : work'[u].n \in 0..(recorded + 1)
    BY <1>0, <2>3, <2>4 DEF SampleType
  <2>9. live' \subseteq 1..(recorded + 1)
    BY <1>0, <2>1, <2>3 DEF SampleType
  <2>10. QED  BY <1>0, <2>1, <2>3, <2>4, <2>6, <2>7, <2>8, <2>9 DEF Values, SampleType
<1>5. CASE Scan(t)
  <2>1. /\ todo[t] # <<>> /\ Head(todo[t]).op = "scan"
        /\ UNCHANGED <<sample, refSample, recorded>> /\ live' \subseteq live
        /\ work' = [work EXCEPT ![t].scans = @ + 1] \/ work' = work
        /\ \/ todo' = todo
           \/ todo' = [todo EXCEPT ![t] = rest] \/ todo' = [todo EXCEPT ![t] = Tail(rest)]
    BY <1>5 DEF Scan, Scanned, ScanFails, Step, Idle, Continue
  <2>2. /\ Proper(rest) /\ rest # <<>> /\ Head(rest).op = "store" /\ At(t) \in SpecIndex
    BY <2>1, Next_t DEF Follows, Inner, Ends
  <2>3. Tail(rest) = <<>> \/ Head(Tail(rest)).op # "use"
    BY <2>2, Rest DEF Follows, Inner, Ends
  <2>4. PICK new \in {todo[t], rest, Tail(rest)} : todo' = [todo EXCEPT ![t] = new]
    <3>1. todo = [todo EXCEPT ![t] = todo[t]]
      BY DEF Sections
    <3>2. QED  BY <2>1, <3>1
  <2>5. new = <<>> \/ Head(new).op # "use"
    BY <2>1, <2>2, <2>3, <2>4
  <2>6. /\ work' \in [Thread -> {NoSample} \cup Recording]
        /\ \A u \in Thread : work'[u].n \in 0..recorded
        /\ \A u \in Thread \ {t} : work'[u] = work[u]
    <3>1. /\ work \in [Thread -> {NoSample} \cup Recording]
          /\ \A u \in Thread : work[u].n \in 0..recorded
      BY <1>0 DEF SampleType
    <3>2. CASE work' = work
      BY <3>1, <3>2
    <3>3. CASE work' = [work EXCEPT ![t].scans = @ + 1]
      <4>1. work[t] \in Recording
        BY <2>1, <3>1 DEF Values, Buffered, Filling, In
      <4>2. /\ work'[t] \in Recording /\ work'[t].n = work[t].n
            /\ \A u \in Thread \ {t} : work'[u] = work[u]
        BY <3>1, <3>3, <4>1 DEF Recording
      <4>3. QED  BY <3>1, <3>3, <4>1, <4>2
    <3>4. QED  BY <2>1, <3>2, <3>3
  <2>7. Loaded' /\ Buffered'
    <3>1. work'[t] # NoSample
      BY <2>1, <2>6 DEF Values, Buffered, Filling, In, SampleType, Recording, NoSample
    <3>2. QED  BY <2>1, <2>4, <2>5, <2>6, <3>1, LoadedStays, BufferedStays
  <2>8. live' \subseteq 1..recorded
    BY <1>0, <2>1 DEF SampleType
  <2>9. QED  BY <1>0, <2>1, <2>6, <2>7, <2>8 DEF Values, SampleType
<1>6. CASE StoreSample(t)
  <2>1. /\ todo[t] # <<>> /\ Head(todo[t]).op = "store" /\ todo' = [todo EXCEPT ![t] = rest]
        /\ sample' = [sample EXCEPT ![At(t)] = work[t]]
        /\ UNCHANGED <<live, work, recorded, refSample>>
    BY <1>6 DEF StoreSample, Step, Idle, Continue
  <2>2. At(t) \in SpecIndex /\ (rest = <<>> \/ Head(rest).op \notin {"use", "scan", "store"})
    BY <2>1, Next_t DEF Follows, Inner, Ends
  <2> HIDE DEF rest
  <2>3. /\ sample' \in [SpecIndex -> {NoSample} \cup Recording] /\ sample'[At(t)] = work[t]
        /\ \A s \in SpecIndex \ {At(t)} : sample'[s] = sample[s]
    BY <1>0, <2>1, <2>2 DEF SampleType
  <2>4. Inside(t)
    BY <2>1 DEF Inside, Outside
  <2>5. Loaded' /\ Buffered'
    BY <2>1, <2>2, <2>3, <2>4, LoadedStays, BufferedStays
  <2>6. \A s \in SpecIndex : sample'[s].n \in 0..recorded
    BY <1>0, <2>3 DEF SampleType
  <2>7. QED  BY <1>0, <2>1, <2>3, <2>5, <2>6 DEF Values, SampleType
<1>7. QED  BY <1>1, <1>2, <1>3, <1>4, <1>5, <1>6 DEF Work

-----------------------------------------------------------------------------
(* Who may use and free a buffer.                                          *)

Clearing(s) == \E t \in Thread : In(t, {"clear"}) /\ At(t) = s

\* The sample of a spectrometer is allocated, but for the moment between its being
\* freed and forgotten.
SamplesLive == \A s \in SpecIndex : sample[s] # NoSample => sample[s].n \in live \/ Clearing(s)
WorkLive == \A t \in Thread : Filling(t) => work[t].n \in live

\* No buffer is that of two.
Apart ==
  /\ \A s1, s2 \in SpecIndex : s1 # s2 /\ sample[s1] # NoSample => sample[s1].n # sample[s2].n
  /\ \A t \in Thread, s \in SpecIndex : Filling(t) => work[t].n # sample[s].n
  /\ \A t, u \in Thread : t # u /\ Filling(t) /\ Filling(u) => work[t].n # work[u].n

Buffers == SamplesLive /\ WorkLive /\ Apart /\ ~misused

Core == Sections /\ Values /\ Buffers

\* Steps that touch no buffer and lead to none that does.
LEMMA BuffersQuiet ==
  ASSUME Core, NEW t \in Thread, NEW rest, todo' = [todo EXCEPT ![t] = rest],
         rest = <<>> \/ Head(rest).op \notin {"clear", "scan", "store"},
         ~In(t, {"clear"}), \A u \in Thread \ {t} : work'[u] = work[u],
         UNCHANGED <<sample, live>>, ~misused'
  PROVE  Buffers'
<1>0. Sections
  BY DEF Core
<1>1. /\ ~Filling(t)' /\ ~In(t, {"clear"})'
      /\ \A u \in Thread \ {t} : /\ Filling(u)' <=> Filling(u)
                                 /\ \A ops : In(u, ops)' <=> In(u, ops)
                                 /\ At(u)' = At(u)
  <2>1. /\ \A ops : In(t, ops)' <=> rest # <<>> /\ Head(rest).op \in ops
        /\ Filling(t)' <=> rest # <<>> /\ Head(rest).op \in {"scan", "store"}
    BY <1>0, OthersStay
  <2>2. \A u \in Thread \ {t} : /\ Filling(u)' <=> Filling(u)
                                /\ \A ops : In(u, ops)' <=> In(u, ops)
                                /\ At(u)' = At(u)
    BY <1>0, OthersStay
  <2>3. QED  BY <2>1, <2>2
<1>2. \A s \in SpecIndex : Clearing(s) => Clearing(s)'
  BY <1>1 DEF Clearing
<1>3. SamplesLive'
  BY <1>2 DEF Core, Buffers, SamplesLive
<1>4. WorkLive' /\ Apart'
  BY <1>1 DEF Core, Buffers, WorkLive, Apart
<1>5. QED  BY <1>3, <1>4 DEF Buffers

LEMMA CoreBegin ==
  ASSUME OnlyMeasures, Core, NEW t \in Thread, Begin(t)
  PROVE  Buffers'
<1>1. PICK r \in Menu[t] : todo' = [todo EXCEPT ![t] = Steps(r)]
  BY DEF Begin
<1>2. Complete(Steps(r))
  BY <1>1, StepsComplete DEF OnlyMeasures
<1> DEFINE rest == Steps(r)
<1>3. /\ todo' = [todo EXCEPT ![t] = rest] /\ Proper(rest)
      /\ rest = <<>> \/ rest[1].op \in Outside
  BY <1>1, <1>2 DEF Complete
<1> HIDE DEF rest
<1>4. rest = <<>> \/ Head(rest).op \notin {"clear", "scan", "store"}
  BY <1>3, EmptySeq DEF Proper, Chained, Outside
<1>5. ~In(t, {"clear"}) /\ UNCHANGED <<sample, live, work>> /\ ~misused'
  BY DEF Begin, Idle, In, samples, Core, Buffers
<1>6. QED  BY <1>3, <1>4, <1>5, BuffersQuiet

\* Nobody is about to forget the sample that t has to do with.
LEMMA NotClearing ==
  ASSUME Core, NEW t \in Thread, Inside(t), At(t) \in SpecIndex, ~In(t, {"clear"})
  PROVE  ~Clearing(At(t))
<1> SUFFICES ASSUME NEW u \in Thread, In(u, {"clear"}), At(u) = At(t)
             PROVE  FALSE
  BY DEF Clearing
<1>1. u # t /\ Inside(u)
  BY DEF In, Inside, Outside
<1>2. QED  BY <1>1, Alone DEF Core

LEMMA CoreQuiet ==
  ASSUME Core, NEW t \in Thread,
         Lock(t) \/ Unlock(t) \/ KeepSample(t) \/ CalculatePH(t) \/ Send(t) \/ Load(t) \/ Use(t)
  PROVE  Buffers'
<1> DEFINE rest == Tail(todo[t])
<1>1. /\ todo[t] # <<>> /\ todo' = [todo EXCEPT ![t] = rest]
      /\ Head(todo[t]).op \in {"lock", "unlock", "keepRef", "keepDark", "calculate", "send",
                               "load", "use"}
      /\ \A u \in Thread \ {t} : work'[u] = work[u]
      /\ UNCHANGED <<sample, live>>
  <2>1. work' = work \/ work' = [work EXCEPT ![t] = sample[At(t)]]
    BY DEF Lock, Unlock, KeepSample, CalculatePH, Send, Load, Use
  <2>2. QED
    BY <2>1 DEF Lock, Unlock, KeepSample, CalculatePH, Send, Load, Use, Step, Idle, Continue, samples,
                Core, Values, SampleType
<1>2. (rest = <<>> \/ Head(rest).op \notin {"clear", "scan", "store"}) /\ At(t) \in SpecIndex
  BY <1>1, Next_t DEF Follows, Inner, Outside, Core
<1>3. ~In(t, {"clear"})
  BY <1>1 DEF In
<1>4. ~misused'
  <2>1. CASE Use(t)
    <3>1. Inside(t) /\ In(t, {"use"})
      BY <2>1 DEF Use, Step, Idle, Inside, In, Outside
    <3>2. work[t] = sample[At(t)] /\ sample[At(t)] \in {NoSample} \cup Recording
      BY <1>2, <3>1 DEF Core, Values, Loaded, SampleType
    <3>3. work[t].n # 0 => work[t].n \in live
      BY <1>2, <1>3, <3>1, <3>2, NotClearing, NoSampleIsNone DEF Core, Buffers, SamplesLive
    <3>4. QED  BY <2>1, <3>3 DEF Use, Core, Buffers
  <2>2. CASE KeepSample(t)
    <3>1. Inside(t)
      BY <2>2 DEF KeepSample, Step, Idle, Inside, Outside
    <3>2. sample[At(t)] # NoSample => sample[At(t)].n \in live
      BY <1>2, <1>3, <3>1, NotClearing DEF Core, Buffers, SamplesLive
    <3>3. QED  BY <2>2, <3>2 DEF KeepSample, Core, Buffers
  <2>3. CASE ~Use(t) /\ ~KeepSample(t)
    BY <2>3 DEF Lock, Unlock, CalculatePH, Send, Load, history, Core, Buffers
  <2>4. QED  BY <2>1, <2>2, <2>3
<1> HIDE DEF rest
<1>5. QED  BY <1>1, <1>2, <1>3, <1>4, BuffersQuiet

LEMMA CoreFree ==
  ASSUME Core, NEW t \in Thread, FreeSample(t)
  PROVE  Buffers'
<1> DEFINE rest == Tail(todo[t])
           old == sample[At(t)]
<1>0. Sections
  BY DEF Core
<1>1. /\ todo[t] # <<>> /\ Head(todo[t]).op = "free" /\ todo' = [todo EXCEPT ![t] = rest]
      /\ UNCHANGED <<sample, work>>
      /\ old = NoSample => UNCHANGED <<live, misused>>
      /\ old # NoSample => /\ live' = live \ {old.n}
                           /\ misused' = (misused \/ (old.n \notin live))
  BY DEF FreeSample, Step, Idle, Continue
<1>2. /\ At(t) \in SpecIndex
      /\ rest # <<>> /\ Head(rest).op = "clear" /\ Head(rest).spec = At(t)
  BY <1>0, <1>1, Next_t DEF Follows, Inner, Ends, At
<1>3. Inside(t) /\ ~In(t, {"clear"})
  BY <1>1 DEF Inside, In, Outside
<1> HIDE DEF rest
<1>4. ~misused'
  BY <1>1, <1>2, <1>3, NotClearing DEF Core, Buffers, SamplesLive
<1>5. /\ ~Filling(t)' /\ In(t, {"clear"})' /\ At(t)' = At(t)
      /\ \A u \in Thread \ {t} : (Filling(u)' <=> Filling(u)) /\ At(u)' = At(u)
      /\ \A u \in Thread \ {t} : \A ops : In(u, ops)' <=> In(u, ops)
  <2>1. /\ At(t)' = Head(rest).spec
        /\ \A ops : In(t, ops)' <=> rest # <<>> /\ Head(rest).op \in ops
        /\ Filling(t)' <=> rest # <<>> /\ Head(rest).op \in {"scan", "store"}
    BY <1>0, <1>1, OthersStay
  <2>2. /\ \A u \in Thread \ {t} : (Filling(u)' <=> Filling(u)) /\ At(u)' = At(u)
        /\ \A u \in Thread \ {t} : \A ops : In(u, ops)' <=> In(u, ops)
    BY <1>0, <1>1, OthersStay
  <2>3. QED  BY <1>2, <2>1, <2>2
<1>6. Clearing(At(t))' /\ \A s \in SpecIndex : Clearing(s) => Clearing(s)'
  <2>1. \A s \in SpecIndex : Clearing(s) => Clearing(s)'
    BY <1>3, <1>5 DEF Clearing
  <2>2. Clearing(At(t))'
    BY <1>5 DEF Clearing
  <2>3. QED  BY <2>1, <2>2
<1>7. SamplesLive'
  <2> SUFFICES ASSUME NEW s \in SpecIndex, sample[s] # NoSample
               PROVE  sample[s].n \in live' \/ Clearing(s)'
    BY <1>1 DEF SamplesLive
  <2>1. CASE s = At(t)
    <3>1. \E u \in Thread : In(u, {"clear"})' /\ At(u)' = s
      BY <1>5, <2>1
    <3>2. QED  BY <3>1 DEF Clearing
  <2>2. CASE s # At(t)
    BY <1>1, <1>2, <1>6, <2>2 DEF Core, Buffers, SamplesLive, Apart
  <2>3. QED  BY <2>1, <2>2
<1>8. WorkLive' /\ Apart'
  BY <1>1, <1>2, <1>5 DEF Core, Buffers, WorkLive, Apart
<1>9. QED  BY <1>4, <1>7, <1>8 DEF Buffers

LEMMA CoreClear ==
  ASSUME Core, NEW t \in Thread, ClearSample(t)
  PROVE  Buffers'
<1> DEFINE rest == Tail(todo[t])
           new == [n |-> recorded + 1, scans |-> 0, of |-> Head(todo[t]).scans]
<1>0. Sections /\ SampleType
  BY DEF Core, Values
<1>1. /\ todo[t] # <<>> /\ Head(todo[t]).op = "clear" /\ todo' = [todo EXCEPT ![t] = rest]
      /\ sample' = [sample EXCEPT ![At(t)] = NoSample]
      /\ recorded' = recorded + 1 /\ live' = live \cup {recorded + 1}
      /\ work' = [work EXCEPT ![t] = new]
      /\ misused' = misused
  BY DEF ClearSample, Step, Idle, Continue
<1>2. /\ At(t) \in SpecIndex
      /\ rest # <<>> /\ Head(rest).op = "scan" /\ Head(rest).spec = At(t)
  BY <1>0, <1>1, Next_t DEF Follows, Inner, Ends, At
<1>3. new.n = recorded + 1
  OBVIOUS
<1> HIDE DEF rest, new
<1>4. /\ Filling(t)' /\ ~In(t, {"clear"})'
      /\ \A u \in Thread \ {t} : (Filling(u)' <=> Filling(u)) /\ At(u)' = At(u)
      /\ \A u \in Thread \ {t} : \A ops : In(u, ops)' <=> In(u, ops)
  BY <1>0, <1>1, <1>2, OthersStay
<1>5. /\ work'[t] = new /\ \A u \in Thread \ {t} : work'[u] = work[u]
      /\ sample'[At(t)] = NoSample
      /\ \A s \in SpecIndex \ {At(t)} : sample'[s] = sample[s]
  BY <1>0, <1>1, <1>2 DEF SampleType
<1>6. /\ recorded \in Nat /\ live \subseteq 1..recorded /\ NoSample.n = 0
      /\ \A s \in SpecIndex : sample[s].n \in 0..recorded
      /\ \A u \in Thread : Filling(u) => work[u].n \in 1..recorded
  BY <1>0 DEF SampleType, Core, Buffers, WorkLive, NoSample
<1>7. SamplesLive'
  <2> SUFFICES ASSUME NEW s \in SpecIndex \ {At(t)}, sample[s] # NoSample
               PROVE  sample[s].n \in live' \/ Clearing(s)'
    BY <1>5 DEF SamplesLive
  <2>1. CASE Clearing(s)
    <3>1. PICK u \in Thread : In(u, {"clear"}) /\ At(u) = s
      BY <2>1 DEF Clearing
    <3>2. u # t
      BY <3>1
    <3>3. QED  BY <1>4, <3>1, <3>2 DEF Clearing
  <2>2. CASE ~Clearing(s)
    BY <1>1, <2>2 DEF Core, Buffers, SamplesLive
  <2>3. QED  BY <2>1, <2>2
<1>8. WorkLive'
  BY <1>1, <1>3, <1>4, <1>5 DEF Core, Buffers, WorkLive
<1>9. Apart'
  <2>1. \A s1, s2 \in SpecIndex : s1 # s2 /\ sample'[s1] # NoSample => sample'[s1].n # sample'[s2].n
    <3> SUFFICES ASSUME NEW s1 \in SpecIndex, NEW s2 \in SpecIndex, s1 # s2,
                        sample'[s1] # NoSample
                 PROVE  sample'[s1].n # sample'[s2].n
      OBVIOUS
    <3>1. s1 # At(t) /\ sample'[s1] = sample[s1]
      BY <1>5
    <3>2. sample[s1].n # 0
      BY <1>0, <1>5, <3>1, NoSampleIsNone DEF SampleType
    <3>3. QED  BY <1>5, <1>6, <3>1, <3>2 DEF Core, Buffers, Apart
  <2>2. \A u \in Thread, s \in SpecIndex : Filling(u)' => work'[u].n # sample'[s].n
    BY <1>3, <1>4, <1>5, <1>6 DEF Core, Buffers, Apart
  <2>3. \A u, v \in Thread : u # v /\ Filling(u)' /\ Filling(v)' => work'[u].n # work'[v].n
    BY <1>3, <1>4, <1>5, <1>6 DEF Core, Buffers, Apart
  <2>4. QED  BY <2>1, <2>2, <2>3 DEF Apart
<1>10. QED  BY <1>1, <1>7, <1>8, <1>9 DEF Core, Buffers

LEMMA CoreScanned ==
  ASSUME Core, NEW t \in Thread, Scan(t), Scanned(t)
  PROVE  Buffers'
<1>0. Sections /\ SampleType
  BY DEF Core, Values
<1>1. /\ todo[t] # <<>> /\ Head(todo[t]).op = "scan"
      /\ todo' = todo \/ todo' = [todo EXCEPT ![t] = Tail(todo[t])]
      /\ work' = [work EXCEPT ![t].scans = @ + 1]
      /\ UNCHANGED <<sample, live, misused>>
  BY DEF Scan, Scanned, Step, Idle, Continue, history
<1>2. /\ Tail(todo[t]) # <<>> /\ Head(Tail(todo[t])).op = "store"
  BY <1>0, <1>1, Next_t DEF Follows, Inner, Ends
<1>3. Filling(t) /\ ~In(t, {"clear"})
  BY <1>1 DEF In, Filling
<1>4. work[t] \in Recording
  BY <1>0, <1>3 DEF Core, Values, Buffered, SampleType
<1>5. work'[t].n = work[t].n /\ \A u \in Thread \ {t} : work'[u] = work[u]
  BY <1>0, <1>1, <1>4 DEF SampleType, Recording
<1>6. PICK rest \in {todo[t], Tail(todo[t])} :
        /\ todo' = [todo EXCEPT ![t] = rest] /\ rest # <<>> /\ Head(rest).op \in {"scan", "store"}
  <2>1. todo = [todo EXCEPT ![t] = todo[t]]
    BY <1>0 DEF Sections
  <2>2. QED  BY <1>1, <1>2, <2>1
<1>7. /\ ~In(t, {"clear"})'
      /\ \A u \in Thread : Filling(u)' <=> Filling(u)
      /\ \A u \in Thread \ {t} : At(u)' = At(u) /\ \A ops : In(u, ops)' <=> In(u, ops)
  <2>1. /\ \A ops : In(t, ops)' <=> rest # <<>> /\ Head(rest).op \in ops
        /\ Filling(t)' <=> rest # <<>> /\ Head(rest).op \in {"scan", "store"}
    BY <1>0, <1>6, OthersStay
  <2>2. \A u \in Thread \ {t} : /\ Filling(u)' <=> Filling(u)
                                /\ At(u)' = At(u) /\ \A ops : In(u, ops)' <=> In(u, ops)
    BY <1>0, <1>6, OthersStay
  <2>3. QED  BY <1>3, <1>6, <2>1, <2>2
<1>8. \A s \in SpecIndex : Clearing(s) => Clearing(s)'
  BY <1>3, <1>7 DEF Clearing
<1>9. SamplesLive'
  BY <1>1, <1>8 DEF Core, Buffers, SamplesLive
<1>10. WorkLive' /\ Apart'
  BY <1>1, <1>5, <1>7 DEF Core, Buffers, WorkLive, Apart
<1>11. QED  BY <1>1, <1>9, <1>10 DEF Core, Buffers

LEMMA CoreScanFails ==
  ASSUME Core, NEW t \in Thread, Scan(t), ScanFails(t)
  PROVE  Buffers'
<1> DEFINE rest == Tail(Tail(todo[t]))
<1>0. Sections
  BY DEF Core
<1>1. /\ todo[t] # <<>> /\ Head(todo[t]).op = "scan" /\ todo' = [todo EXCEPT ![t] = rest]
      /\ live' = live \ {work[t].n}
      /\ UNCHANGED <<sample, work, misused>>
  BY DEF Scan, ScanFails, Step, Idle, history
<1>2. /\ Proper(Tail(todo[t])) /\ Tail(todo[t]) # <<>> /\ Head(Tail(todo[t])).op = "store"
  BY <1>0, <1>1, Next_t DEF Follows, Inner, Ends
<1>3. rest # <<>> /\ Head(rest).op \in {"unlock", "keepRef", "keepDark"}
  BY <1>2, Rest DEF Follows, Inner, Ends
<1>4. Filling(t) /\ ~In(t, {"clear"})
  BY <1>1 DEF In, Filling
<1> HIDE DEF rest
<1>5. /\ ~Filling(t)'
      /\ \A u \in Thread \ {t} : /\ Filling(u)' <=> Filling(u)
                                 /\ At(u)' = At(u) /\ \A ops : In(u, ops)' <=> In(u, ops)
  <2>1. Filling(t)' <=> rest # <<>> /\ Head(rest).op \in {"scan", "store"}
    BY <1>0, <1>1, OthersStay
  <2>2. \A u \in Thread \ {t} : /\ Filling(u)' <=> Filling(u)
                                /\ At(u)' = At(u) /\ \A ops : In(u, ops)' <=> In(u, ops)
    BY <1>0, <1>1, OthersStay
  <2>3. QED  BY <1>3, <2>1, <2>2
<1>6. \A s \in SpecIndex : Clearing(s) => Clearing(s)'
  BY <1>4, <1>5 DEF Clearing
<1>7. SamplesLive'
  BY <1>1, <1>4, <1>6 DEF Core, Buffers, SamplesLive, Apart
<1>8. WorkLive'
  BY <1>1, <1>4, <1>5 DEF Core, Buffers, WorkLive, Apart
<1>9. Apart'
  BY <1>1, <1>5 DEF Core, Buffers, Apart
<1>10. QED  BY <1>1, <1>7, <1>8, <1>9 DEF Core, Buffers

LEMMA CoreStore ==
  ASSUME Core, NEW t \in Thread, StoreSample(t)
  PROVE  Buffers'
<1> DEFINE rest == Tail(todo[t])
<1>0. Sections /\ SampleType
  BY DEF Core, Values
<1>1. /\ todo[t] # <<>> /\ Head(todo[t]).op = "store" /\ todo' = [todo EXCEPT ![t] = rest]
      /\ sample' = [sample EXCEPT ![At(t)] = work[t]]
      /\ UNCHANGED <<live, work, misused>>
  BY DEF StoreSample, Step, Idle, Continue, history
<1>2. /\ At(t) \in SpecIndex
      /\ rest # <<>> /\ Head(rest).op \in {"unlock", "keepRef", "keepDark"}
  BY <1>0, <1>1, Next_t DEF Follows, Inner, Ends
<1>3. Filling(t) /\ ~In(t, {"clear"})
  BY <1>1 DEF In, Filling
<1> HIDE DEF rest
<1>4. work[t].n \in live
  BY <1>3 DEF Core, Buffers, WorkLive
<1>5. /\ sample'[At(t)] = work[t] /\ \A s \in SpecIndex \ {At(t)} : sample'[s] = sample[s]
  BY <1>0, <1>1, <1>2 DEF SampleType
<1>6. /\ ~Filling(t)'
      /\ \A u \in Thread \ {t} : /\ Filling(u)' <=> Filling(u)
                                 /\ At(u)' = At(u) /\ \A ops : In(u, ops)' <=> In(u, ops)
  <2>1. Filling(t)' <=> rest # <<>> /\ Head(rest).op \in {"scan", "store"}
    BY <1>0, <1>1, OthersStay
  <2>2. \A u \in Thread \ {t} : /\ Filling(u)' <=> Filling(u)
                                /\ At(u)' = At(u) /\ \A ops : In(u, ops)' <=> In(u, ops)
    BY <1>0, <1>1, OthersStay
  <2>3. QED  BY <1>2, <2>1, <2>2
<1>7. \A s \in SpecIndex : Clearing(s) => Clearing(s)'
  BY <1>3, <1>6 DEF Clearing
<1>8. SamplesLive'
  BY <1>1, <1>4, <1>5, <1>7 DEF Core, Buffers, SamplesLive
<1>9. WorkLive'
  BY <1>1, <1>6 DEF Core, Buffers, WorkLive
<1>10. Apart'
  <2>1. \A s1, s2 \in SpecIndex : s1 # s2 /\ sample'[s1] # NoSample => sample'[s1].n # sample'[s2].n
    <3> SUFFICES ASSUME NEW s1 \in SpecIndex, NEW s2 \in SpecIndex, s1 # s2,
                        sample'[s1] # NoSample
                 PROVE  sample'[s1].n # sample'[s2].n
      OBVIOUS
    <3>1. CASE s1 = At(t)
      BY <1>3, <1>5, <3>1 DEF Core, Buffers, Apart
    <3>2. CASE s2 = At(t)
      BY <1>3, <1>5, <3>2 DEF Core, Buffers, Apart
    <3>3. CASE s1 # At(t) /\ s2 # At(t)
      BY <1>5, <3>3 DEF Core, Buffers, Apart
    <3>4. QED  BY <3>1, <3>2, <3>3
  <2>2. \A u \in Thread, s \in SpecIndex : Filling(u)' => work'[u].n # sample'[s].n
    BY <1>1, <1>3, <1>5, <1>6 DEF Core, Buffers, Apart
  <2>3. \A u, v \in Thread : u # v /\ Filling(u)' /\ Filling(v)' => work'[u].n # work'[v].n
    BY <1>1, <1>6 DEF Core, Buffers, Apart
  <2>4. QED  BY <2>1, <2>2, <2>3 DEF Apart
<1>11. QED  BY <1>1, <1>8, <1>9, <1>10 DEF Core, Buffers

-----------------------------------------------------------------------------
(* From the start to the end of the server; the samples are freed when it  *)
(* is about to exit.                                                       *)

Resting == \A t \in Thread : todo[t] = <<>>

MeasureInv ==
  /\ phase \in {"connecting", "asking", "up", "closing", "down"}
  /\ Sections /\ Values
  /\ phase \in {"connecting", "asking", "up"} => Buffers
  /\ phase \in {"connecting", "asking"} => Resting

LEMMA MeasureInit == Init => MeasureInv
<1> SUFFICES ASSUME Init
             PROVE  MeasureInv
  OBVIOUS
<1>1. SampleType
  <2>1. NoSample.n = 0
    BY DEF NoSample
  <2>2. QED  BY <2>1 DEF Init, SampleType
<1>2. Resting
  BY DEF Init, Resting
<1>3. Sections
  <2>1. <<>> \in Seq(AnyStep)
    BY EmptySeq
  <2>2. QED  BY <1>2, <2>1, ThreadAssumption DEF Init, Sections, Held, Inside, Resting, Proper
<1>4. Values
  BY <1>1, <1>2 DEF Values, Loaded, Buffered, Filling, In, Resting
<1>5. Buffers
  BY <1>2 DEF Init, Buffers, SamplesLive, WorkLive, Apart, Filling, In, Resting, NoSample
<1>6. QED  BY <1>2, <1>3, <1>4, <1>5 DEF MeasureInv, Init

\* While nobody has a request, main may take a sample.
LEMMA MeasureTake ==
  ASSUME ConnectInv, MeasureInv, TakeDevice
  PROVE  MeasureInv'
<1> DEFINE new == [n |-> recorded + 1, scans |-> 1, of |-> 1]
<1>1. /\ phase = "asking" /\ phase' \in {"connecting", "up"}
      /\ Sections /\ Values /\ Buffers /\ Resting
      /\ UNCHANGED <<todo, work, specsMutex, misused, refSample>> /\ recorded' = recorded + 1
  BY DEF TakeDevice, MeasureInv, threads, history
<1>2. PICK s \in SpecIndex : s = search.spec
  BY <1>1 DEF ConnectInv, Accounted
<1>3. \/ sample' = [sample EXCEPT ![s] = new] /\ live' = live \cup {recorded + 1}
      \/ UNCHANGED <<sample, live>>
  BY <1>1, <1>2 DEF TakeDevice
<1>4. /\ SampleType /\ SampleType' /\ new \in Recording /\ new.n = recorded + 1
      /\ recorded \in Nat
      /\ \A s2 \in SpecIndex : sample[s2].n \in 0..recorded
  <2>1. recorded \in Nat /\ new \in Recording /\ new.n = recorded + 1 /\ SampleType
    BY <1>1 DEF Values, SampleType, Recording
  <2> HIDE DEF new
  <2>2. /\ sample' \in [SpecIndex -> {NoSample} \cup Recording]
        /\ live' \subseteq 1..(recorded + 1)
        /\ \A s2 \in SpecIndex : sample'[s2].n \in 0..(recorded + 1)
    <3>1. /\ sample \in [SpecIndex -> {NoSample} \cup Recording] /\ live \subseteq 1..recorded
          /\ \A s2 \in SpecIndex : sample[s2].n \in 0..recorded
      BY <2>1 DEF SampleType
    <3>2. CASE UNCHANGED <<sample, live>>
      BY <2>1, <3>1, <3>2
    <3>3. CASE sample' = [sample EXCEPT ![s] = new] /\ live' = live \cup {recorded + 1}
      <4>1. /\ sample' \in [SpecIndex -> {NoSample} \cup Recording] /\ sample'[s] = new
            /\ \A s2 \in SpecIndex \ {s} : sample'[s2] = sample[s2]
        BY <2>1, <3>1, <3>3
      <4>2. \A s2 \in SpecIndex : sample'[s2].n \in 0..(recorded + 1)
        BY <2>1, <3>1, <4>1
      <4>3. QED  BY <2>1, <3>1, <3>3, <4>1, <4>2
    <3>4. QED  BY <1>3, <3>2, <3>3
  <2>3. \A t \in Thread : work'[t].n \in 0..(recorded + 1)
    BY <1>1, <2>1 DEF SampleType
  <2>4. QED  BY <1>1, <2>1, <2>2, <2>3 DEF SampleType, new
<1> HIDE DEF new
<1>5. /\ \A s2 \in SpecIndex : sample[s2] # NoSample => sample[s2].n \in live
      /\ \A t \in Thread : ~Filling(t)' /\ ~In(t, {"use"})'
  BY <1>1 DEF Buffers, SamplesLive, Clearing, In, Filling, Resting
<1>6. SamplesLive'
  BY <1>2, <1>3, <1>4, <1>5 DEF SamplesLive, SampleType
<1>7. \A s1, s2 \in SpecIndex : s1 # s2 /\ sample'[s1] # NoSample => sample'[s1].n # sample'[s2].n
  <2>1. CASE UNCHANGED <<sample, live>>
    BY <1>1, <2>1 DEF Buffers, Apart
  <2>2. CASE sample' = [sample EXCEPT ![s] = new]
    <3>1. sample'[s] = new /\ \A s2 \in SpecIndex \ {s} : sample'[s2] = sample[s2]
      BY <1>4, <2>2 DEF SampleType
    <3>2. QED  BY <1>1, <1>4, <3>1 DEF Buffers, Apart
  <2>3. QED  BY <1>3, <2>1, <2>2
<1>8. Values' /\ Buffers'
  BY <1>1, <1>4, <1>5, <1>6, <1>7 DEF Values, Loaded, Buffered, Buffers, WorkLive, Apart
<1>9. Resting' /\ Sections'
  BY <1>1 DEF Sections, Resting, Held, Inside, At
<1>10. QED
  BY <1>1, <1>8, <1>9 DEF MeasureInv

\* The mutex that main takes for ever is nobody's, and it frees no sample while a
\* client may still begin to use one.
LEMMA MeasureClose ==
  ASSUME MeasureInv, CloseDevice
  PROVE  MeasureInv'
<1>1. PICK s \in SpecIndex : /\ specsMutex[s] = NoThread
                             /\ specsMutex' = [specsMutex EXCEPT ![s] = Main]
  BY DEF CloseDevice
<1>2. /\ phase = "closing" /\ phase' = phase /\ live' \subseteq live
      /\ UNCHANGED <<todo, sample, refSample, work, recorded>>
  BY DEF CloseDevice, closeUSB4000, threads
<1>3. Held'
  <2>1. /\ specsMutex'[s] = Main /\ \A s2 \in SpecIndex \ {s} : specsMutex'[s2] = specsMutex[s2]
        /\ Main \notin Thread /\ NoThread \notin Thread
    BY <1>1, ThreadAssumption DEF MeasureInv, Sections
  <2>2. \A t \in Thread : (Inside(t)' <=> Inside(t)) /\ At(t)' = At(t)
    BY <1>2 DEF Inside, At
  <2>3. QED  BY <1>1, <2>1, <2>2 DEF MeasureInv, Sections, Held
<1>4. Sections'
  BY <1>1, <1>2, <1>3 DEF MeasureInv, Sections
<1>5. Values'
  BY <1>2 DEF MeasureInv, Values, SampleType, Loaded, Buffered, Filling, In, At
<1>6. QED  BY <1>2, <1>4, <1>5 DEF MeasureInv

LEMMA MeasureStep ==
  ASSUME OnlyMeasures, ConnectInv, MeasureInv, [Next]_vars
  PROVE  MeasureInv'
<1>1. CASE PassDevice \/ ClaimDevice \/ ReleaseDevice \/ UNCHANGED vars
  <2>1. /\ UNCHANGED <<todo, specsMutex, sample, refSample, work, recorded, live, misused>>
        /\ \/ phase \in {"connecting", "asking"} /\ phase' \in {"connecting", "asking"}
           \/ phase' = phase
    BY <1>1 DEF PassDevice, ClaimDevice, ReleaseDevice, vars, connection, samples, threads, history
  <2>2. QED
    BY <2>1 DEF MeasureInv, Sections, Held, Values, SampleType, Loaded, Buffered, Buffers, SamplesLive,
                WorkLive, Apart, Clearing, Filling, In, Inside, At, Resting
<1>2. CASE ConnectError \/ Disconnect \/ ExitPolitely
  <2>1. phase' \in {"closing", "down"}
        /\ UNCHANGED <<todo, specsMutex, sample, refSample, work, recorded, live>>
    BY <1>2 DEF ConnectError, Disconnect, ExitPolitely, Exit, samples, threads
  <2>2. Sections' /\ Values'
    BY <2>1 DEF MeasureInv, Sections, Held, Values, SampleType, Loaded, Buffered, Filling, In, Inside,
                At
  <2>3. QED  BY <2>1, <2>2 DEF MeasureInv
<1>3. ASSUME NEW t \in Thread, Begin(t) \/ Work(t)
      PROVE  MeasureInv'
  <2>1. phase \in {"up", "closing"} /\ phase' = phase
    BY <1>3 DEF Begin, Work, Lock, Unlock, FreeSample, ClearSample, Scan, StoreSample, KeepSample,
                Load, Use, CalculatePH, Send, Step, connection
  <2>2. Sections' /\ Values'
    BY <1>3, SectionsStep, ValuesStep DEF MeasureInv
  <2>3. ASSUME phase = "up"
        PROVE  Buffers'
    <3>1. Core
      BY <2>3 DEF MeasureInv, Core
    <3>2. QED
      BY <1>3, <3>1, CoreBegin, CoreQuiet, CoreFree, CoreClear, CoreScanned, CoreScanFails, CoreStore
         DEF Work, Scan
  <2>4. QED  BY <2>1, <2>2, <2>3 DEF MeasureInv
<1>4. QED  BY <1>1, <1>2, <1>3, MeasureTake, MeasureClose DEF Next, MainNext

\* No thread reads or frees a sample that another one has freed, unless a client sets
\* the integration time: for any clients that record and read, on any spectrometers,
\* and whichever scans fail.
THEOREM SamplesAreLive ==
  ASSUME OnlyMeasures
  PROVE  Spec => []NoFreedSample
<1>1. ConnectInv /\ MeasureInv => NoFreedSample
  BY DEF MeasureInv, Buffers, NoFreedSample
<1>2. ConnectInv /\ MeasureInv /\ [Next]_vars => (ConnectInv /\ MeasureInv)'
  BY ConnectStep, MeasureStep
<1>3. Spec => Init /\ [][Next]_vars
  BY PTL DEF Spec
<1>4. QED  BY <1>1, <1>2, <1>3, ConnectInit, MeasureInit, PTL

-----------------------------------------------------------------------------
(* How a request that ends with a message or row is laid out.              *)

\* The parts that a message of a kind, or a row, says something about.
Parts(kind) ==
  CASE kind = "sample" -> {"last", "abs", "spectrum"}
    [] kind = "ref"    -> {"ref"}
    [] kind = "row"    -> {"conc", "abs", "last"}
    [] kind = "pH"     -> {"abs"}
    [] kind = "pHRow" -> {"abs", "last"}

\* Steps that take part in a recording.
Taking == {"clear", "scan", "store", "keepRef", "keepDark"}

Later(steps, i, op) == \E j \in (i + 1)..Len(steps) : steps[j].op = op
UsedLater(steps, i, part) ==
  \E j \in (i + 1)..Len(steps) : steps[j].op = "use" /\ steps[j].part = part

Reporting(steps) == steps # <<>> /\ steps[Len(steps)].op = "send"

\* A message comes last, is about the spectrometer of all the steps, and its parts are
\* read after the recording; a reference is kept, and a pH calculated, before.
Planned(steps) ==
  LET msg == steps[Len(steps)]
  IN /\ \A i \in 1..Len(steps) : steps[i].op = "send" => i = Len(steps)
     /\ Reporting(steps) => \A i \in 1..Len(steps) :
          /\ steps[i].spec = msg.spec
          /\ steps[i].op \in Taking => \A part \in Parts(msg.kind) : UsedLater(steps, i, part)
          /\ steps[i].op = "clear" /\ msg.kind = "ref" => Later(steps, i, "keepRef")
          /\ steps[i].op = "use" /\ steps[i].part = "abs" /\ msg.kind \in {"pH", "pHRow"} => Later(steps, i, "calculate")

\* What a whole request has.
Entire(steps) ==
  LET msg == steps[Len(steps)]
  IN Reporting(steps) =>
       /\ \A part \in Parts(msg.kind) : UsedLater(steps, 0, part)
       /\ msg.kind \in {"sample", "ref"} => Later(steps, 0, "clear")
       /\ msg.kind \in {"pH", "pHRow"} => Later(steps, 0, "calculate")

LEMMA Joint ==
  ASSUME NEW a \in Seq(AnyStep), NEW b \in Seq(AnyStep)
  PROVE  /\ a \o b \in Seq(AnyStep) /\ Len(a \o b) = Len(a) + Len(b)
         /\ Len(a) \in Nat /\ Len(b) \in Nat
         /\ \A i \in 1..Len(a) : (a \o b)[i] = a[i]
         /\ \A i \in 1..Len(b) : (a \o b)[Len(a) + i] = b[i]
         /\ \A i \in 1..Len(a \o b) : i \in 1..Len(a) \/ \E j \in 1..Len(b) : i = Len(a) + j
<1>1. Len(a) \in Nat /\ Len(b) \in Nat
  OBVIOUS
<1>2. a \o b \in Seq(AnyStep) /\ Len(a \o b) = Len(a) + Len(b)
  BY ConcatProperties
<1>3. \A i \in 1..(Len(a) + Len(b)) : (a \o b)[i] = IF i <= Len(a) THEN a[i] ELSE b[i - Len(a)]
  BY ConcatProperties
<1>4. \A i \in 1..Len(a) : (a \o b)[i] = a[i]
  BY <1>1, <1>3
<1>5. ASSUME NEW i \in 1..Len(b)
      PROVE  (a \o b)[Len(a) + i] = b[i]
  <2>1. Len(a) + i \in 1..(Len(a) + Len(b)) /\ ~(Len(a) + i <= Len(a)) /\ (Len(a) + i) - Len(a) = i
    BY <1>1
  <2>2. QED  BY <1>3, <2>1
<1>6. ASSUME NEW i \in 1..(Len(a) + Len(b)), i \notin 1..Len(a)
      PROVE  \E j \in 1..Len(b) : i = Len(a) + j
  <2>1. i - Len(a) \in 1..Len(b) /\ i = Len(a) + (i - Len(a))
    BY <1>1, <1>6
  <2>2. QED  BY <2>1
<1>7. QED  BY <1>1, <1>2, <1>4, <1>5, <1>6

LEMMA JointLater ==
  ASSUME NEW a \in Seq(AnyStep), NEW b \in Seq(AnyStep), NEW what
  PROVE  /\ \A i \in 0..Len(a) : /\ Later(a, i, what) \/ Later(b, 0, what) => Later(a \o b, i, what)
                                 /\ UsedLater(a, i, what) \/ UsedLater(b, 0, what)
                                      => UsedLater(a \o b, i, what)
         /\ \A i \in 0..Len(b) : /\ Later(b, i, what) => Later(a \o b, Len(a) + i, what)
                                 /\ UsedLater(b, i, what) => UsedLater(a \o b, Len(a) + i, what)
<1> DEFINE ab == a \o b
<1>1. /\ Len(ab) = Len(a) + Len(b) /\ Len(a) \in Nat /\ Len(b) \in Nat
      /\ \A i \in 1..Len(a) : ab[i] = a[i]
      /\ \A i \in 1..Len(b) : ab[Len(a) + i] = b[i]
  BY Joint
<1> HIDE DEF ab
<1>2. ASSUME NEW i \in 0..Len(a), NEW j \in (i + 1)..Len(a)
      PROVE  j \in (i + 1)..Len(ab) /\ ab[j] = a[j]
  BY <1>1
<1>3. ASSUME NEW k \in 0..(Len(a) + Len(b)), NEW j \in 1..Len(b), Len(a) + j > k
      PROVE  Len(a) + j \in (k + 1)..Len(ab) /\ ab[Len(a) + j] = b[j]
  BY <1>1, <1>3
<1>4. ASSUME NEW i \in 0..Len(a)
      PROVE  /\ Later(a, i, what) \/ Later(b, 0, what) => Later(ab, i, what)
             /\ UsedLater(a, i, what) \/ UsedLater(b, 0, what) => UsedLater(ab, i, what)
  <2>1. \A j \in (i + 1)..Len(a) : j \in (i + 1)..Len(ab) /\ ab[j] = a[j]
    BY <1>2
  <2>2. \A j \in (0 + 1)..Len(b) : Len(a) + j \in (i + 1)..Len(ab) /\ ab[Len(a) + j] = b[j]
    <3> SUFFICES ASSUME NEW j \in (0 + 1)..Len(b)
                 PROVE  Len(a) + j \in (i + 1)..Len(ab) /\ ab[Len(a) + j] = b[j]
      OBVIOUS
    <3>1. i \in 0..(Len(a) + Len(b)) /\ j \in 1..Len(b) /\ Len(a) + j > i
      BY <1>1
    <3>2. QED  BY <1>3, <3>1
  <2>3. QED  BY <2>1, <2>2 DEF Later, UsedLater
<1>5. ASSUME NEW i \in 0..Len(b)
      PROVE  /\ Later(b, i, what) => Later(ab, Len(a) + i, what)
             /\ UsedLater(b, i, what) => UsedLater(ab, Len(a) + i, what)
  <2>1. \A j \in (i + 1)..Len(b) : Len(a) + j \in ((Len(a) + i) + 1)..Len(ab)
                                   /\ ab[Len(a) + j] = b[j]
    <3> SUFFICES ASSUME NEW j \in (i + 1)..Len(b)
                 PROVE  Len(a) + j \in ((Len(a) + i) + 1)..Len(ab) /\ ab[Len(a) + j] = b[j]
      OBVIOUS
    <3>1. Len(a) + i \in 0..(Len(a) + Len(b)) /\ j \in 1..Len(b) /\ Len(a) + j > Len(a) + i
      BY <1>1
    <3>2. QED  BY <1>3, <3>1
  <2>2. QED  BY <2>1 DEF Later, UsedLater
<1>6. QED  BY <1>4, <1>5 DEF ab

\* Steps on one spectrometer that come before a message, and what may come before it.
Of(steps, s) ==
  steps \in Seq(AnyStep) /\ \A i \in 1..Len(steps) : steps[i].spec = s /\ steps[i].op # "send"

Before(a, msg, b) ==
  \A i \in 1..Len(a) :
    /\ a[i].op \in Taking =>
         \A part \in Parts(msg.kind) : UsedLater(a, i, part) \/ UsedLater(b, 0, part)
    /\ a[i].op = "clear" /\ msg.kind = "ref" => Later(a, i, "keepRef") \/ Later(b, 0, "keepRef")
    /\ a[i].op = "use" /\ a[i].part = "abs" /\ msg.kind \in {"pH", "pHRow"} => Later(a, i, "calculate") \/ Later(b, 0, "calculate")

Reports(steps, s, kind) ==
  /\ steps \in Seq(AnyStep) /\ Planned(steps) /\ Reporting(steps)
  /\ steps[Len(steps)].spec = s /\ steps[Len(steps)].kind = kind

LEMMA OfJoined ==
  ASSUME NEW s, NEW a, NEW b, Of(a, s), Of(b, s)
  PROVE  Of(a \o b, s)
<1> DEFINE ab == a \o b
<1>1. /\ ab \in Seq(AnyStep) /\ Len(ab) = Len(a) + Len(b)
      /\ \A i \in 1..Len(a) : ab[i] = a[i]
      /\ \A i \in 1..Len(b) : ab[Len(a) + i] = b[i]
      /\ \A i \in 1..Len(ab) : i \in 1..Len(a) \/ \E j \in 1..Len(b) : i = Len(a) + j
  BY Joint DEF Of
<1> HIDE DEF ab
<1>2. Of(ab, s)
  BY <1>1 DEF Of
<1>3. QED  BY <1>2 DEF ab

LEMMA PlanJoined ==
  ASSUME NEW s, NEW kind, NEW a, NEW b, Of(a, s), Reports(b, s, kind), Before(a, b[Len(b)], b)
  PROVE  Reports(a \o b, s, kind)
<1> DEFINE ab == a \o b
           msg == b[Len(b)]
<1>0. /\ a \in Seq(AnyStep) /\ b \in Seq(AnyStep) /\ Planned(b) /\ b # <<>> /\ msg.op = "send"
      /\ msg.spec = s /\ msg.kind = kind
  BY DEF Of, Reports, Reporting
<1>1. /\ ab \in Seq(AnyStep) /\ Len(ab) = Len(a) + Len(b)
      /\ Len(a) \in Nat /\ Len(b) \in Nat
      /\ \A i \in 1..Len(a) : ab[i] = a[i]
      /\ \A i \in 1..Len(b) : ab[Len(a) + i] = b[i]
      /\ \A i \in 1..Len(ab) : i \in 1..Len(a) \/ \E j \in 1..Len(b) : i = Len(a) + j
  BY <1>0, Joint
<1>2. Len(b) # 0
  BY <1>0, EmptySeq
<1>3. \A what : /\ \A i \in 0..Len(a) :
                     /\ Later(a, i, what) \/ Later(b, 0, what) => Later(ab, i, what)
                     /\ UsedLater(a, i, what) \/ UsedLater(b, 0, what) => UsedLater(ab, i, what)
                /\ \A i \in 0..Len(b) :
                     /\ Later(b, i, what) => Later(ab, Len(a) + i, what)
                     /\ UsedLater(b, i, what) => UsedLater(ab, Len(a) + i, what)
  BY <1>0, JointLater
<1> HIDE DEF ab
<1>4. ab[Len(ab)] = msg /\ ab # <<>>
  <2>1. Len(b) \in 1..Len(b) /\ Len(ab) # 0
    BY <1>1, <1>2
  <2>2. QED  BY <1>1, <2>1
<1>5. ASSUME NEW i \in 1..Len(ab), ab[i].op = "send"
      PROVE  i = Len(ab)
  <2>1. i \notin 1..Len(a)
    BY <1>1, <1>5 DEF Of
  <2>2. PICK j \in 1..Len(b) : i = Len(a) + j
    BY <1>1, <2>1
  <2>3. j = Len(b)
    BY <1>0, <1>1, <1>5, <2>2 DEF Planned
  <2>4. QED  BY <1>1, <2>2, <2>3
<1>6. ASSUME NEW i \in 1..Len(ab)
      PROVE  /\ ab[i].spec = msg.spec
             /\ ab[i].op \in Taking => \A part \in Parts(msg.kind) : UsedLater(ab, i, part)
             /\ ab[i].op = "clear" /\ msg.kind = "ref" => Later(ab, i, "keepRef")
             /\ ab[i].op = "use" /\ ab[i].part = "abs" /\ msg.kind \in {"pH", "pHRow"} => Later(ab, i, "calculate")
  <2>1. CASE i \in 1..Len(a)
    <3>1. ab[i] = a[i] /\ i \in 0..Len(a) /\ a[i].spec = msg.spec
      BY <1>0, <1>1, <2>1 DEF Of
    <3>2. ab[i].op \in Taking => \A part \in Parts(msg.kind) : UsedLater(ab, i, part)
      BY <1>3, <2>1, <3>1 DEF Before
    <3>3. /\ ab[i].op = "clear" /\ msg.kind = "ref" => Later(ab, i, "keepRef")
          /\ ab[i].op = "use" /\ ab[i].part = "abs" /\ msg.kind \in {"pH", "pHRow"} => Later(ab, i, "calculate")
      BY <1>3, <2>1, <3>1 DEF Before
    <3>4. QED  BY <3>1, <3>2, <3>3
  <2>2. CASE \E j \in 1..Len(b) : i = Len(a) + j
    <3>1. PICK j \in 1..Len(b) : i = Len(a) + j
      BY <2>2
    <3>2. ab[i] = b[j] /\ j \in 0..Len(b)
      BY <1>1, <3>1
    <3>3. /\ b[j].spec = msg.spec
          /\ b[j].op \in Taking => \A part \in Parts(msg.kind) : UsedLater(b, j, part)
          /\ b[j].op = "clear" /\ msg.kind = "ref" => Later(b, j, "keepRef")
          /\ b[j].op = "use" /\ b[j].part = "abs" /\ msg.kind \in {"pH", "pHRow"} => Later(b, j, "calculate")
      BY <1>0 DEF Planned, Reporting
    <3>4. QED  BY <1>3, <3>1, <3>2, <3>3
  <2>3. QED  BY <1>1, <2>1, <2>2
<1>7. Planned(ab)
  BY <1>4, <1>5, <1>6 DEF Planned
<1>8. Reports(ab, s, kind)
  BY <1>0, <1>1, <1>4, <1>7 DEF Reports, Reporting
<1>9. QED  BY <1>8 DEF ab

LEMMA OneOf ==
  ASSUME NEW s, NEW step \in AnyStep, step.spec = s, step.op # "send"
  PROVE  /\ Of(<<step>>, s) /\ Later(<<step>>, 0, step.op)
         /\ step.op = "use" => UsedLater(<<step>>, 0, step.part)
         /\ Len(<<step>>) = 1 /\ <<step>>[1] = step
BY DEF Of, Later, UsedLater

LEMMA SampleOf ==
  ASSUME NEW s \in SpecIndex
  PROVE  Of(getSample(s, NumScans), s) /\ Later(getSample(s, NumScans), 0, "clear")
         /\ Len(getSample(s, NumScans)) = 4
<1> DEFINE free == [op |-> "free", spec |-> s]
           clear == [op |-> "clear", spec |-> s, scans |-> NumScans]
           scan == [op |-> "scan", spec |-> s]
           store == [op |-> "store", spec |-> s]
           all == <<free, clear, scan, store>>
<1>1. /\ free \in AnyStep /\ clear \in AnyStep /\ scan \in AnyStep /\ store \in AnyStep
      /\ free.spec = s /\ clear.spec = s /\ scan.spec = s /\ store.spec = s
      /\ free.op = "free" /\ clear.op = "clear" /\ scan.op = "scan" /\ store.op = "store"
  BY SpecAssumption DEF AnyStep
<1>2. getSample(s, NumScans) = all
  BY DEF getSample
<1> HIDE DEF free, clear, scan, store
<1>3. /\ all \in Seq(AnyStep) /\ Len(all) = 4
      /\ all[1] = free /\ all[2] = clear /\ all[3] = scan /\ all[4] = store
  BY <1>1
<1> HIDE DEF all
<1>4. \A i \in 1..4 : all[i].spec = s /\ all[i].op # "send"
  <2> SUFFICES ASSUME NEW i \in 1..4
               PROVE  all[i].spec = s /\ all[i].op # "send"
    OBVIOUS
  <2>1. i = 1 \/ i = 2 \/ i = 3 \/ i = 4
    OBVIOUS
  <2>2. QED  BY <1>1, <1>3, <2>1
<1>5. QED  BY <1>1, <1>2, <1>3, <1>4 DEF Of, Later

\* A sample that is taken and kept.
LEMMA KeepOf ==
  ASSUME NEW s \in SpecIndex, NEW op \in {"keepRef", "keepDark"}
  PROVE  LET steps == getSample(s, NumScans) \o << [op |-> op, spec |-> s] >>
         IN /\ Of(steps, s) /\ Later(steps, 0, "clear")
            /\ op = "keepRef" => \A i \in 1..Len(steps) : steps[i].op = "clear"
                                                             => Later(steps, i, "keepRef")
<1> DEFINE take == getSample(s, NumScans)
           keep == << [op |-> op, spec |-> s] >>
           all == take \o keep
<1>1. Of(take, s) /\ Later(take, 0, "clear") /\ Len(take) = 4
  BY SampleOf
<1>2. Of(keep, s) /\ Later(keep, 0, op) /\ Len(keep) = 1 /\ keep[1].op = op
  <2>1. [op |-> op, spec |-> s] \in AnyStep
    BY DEF AnyStep
  <2>2. QED  BY <2>1, OneOf
<1> HIDE DEF take, keep
<1>3. take \in Seq(AnyStep) /\ keep \in Seq(AnyStep)
  BY <1>1, <1>2 DEF Of
<1>4. Of(all, s)
  BY <1>1, <1>2, OfJoined
<1>5. \A what : \A i \in 0..4 : Later(take, i, what) \/ Later(keep, 0, what) => Later(all, i, what)
  BY <1>1, <1>3, JointLater
<1>6. /\ \A i \in 1..Len(keep) : all[Len(take) + i] = keep[i]
      /\ \A i \in 1..Len(all) : i \in 1..Len(take) \/ \E j \in 1..Len(keep) : i = Len(take) + j
  BY <1>3, Joint
<1> HIDE DEF all
<1>7. all[5].op = op /\ \A i \in 1..Len(all) : i \in 1..4 \/ i = 5
  <2>1. all[4 + 1] = keep[1]
    BY <1>1, <1>2, <1>6
  <2>2. \A i \in 1..Len(all) : i \in 1..4 \/ i = 5
    BY <1>1, <1>2, <1>6
  <2>3. QED  BY <1>2, <2>1, <2>2
<1>8. Later(all, 0, "clear") /\ \A i \in 0..4 : Later(all, i, op)
  BY <1>1, <1>2, <1>5
<1>9. ASSUME op = "keepRef", NEW i \in 1..Len(all), all[i].op = "clear"
      PROVE  Later(all, i, "keepRef")
  BY <1>7, <1>8, <1>9
<1>10. QED  BY <1>4, <1>8, <1>9 DEF all, take, keep

\* A reference is kept after it is taken.
LEMMA SectionOf ==
  ASSUME NEW s \in SpecIndex
  PROVE  /\ Of(recordSpecSample(s), s) /\ Later(recordSpecSample(s), 0, "clear")
         /\ Of(recordRefSample(s), s) /\ Later(recordRefSample(s), 0, "clear")
         /\ \A i \in 1..Len(recordRefSample(s)) :
              recordRefSample(s)[i].op = "clear" => Later(recordRefSample(s), i, "keepRef")
         /\ Of(recordDarkSample(s), s) /\ Of(getCalCos(s), s)
<1> DEFINE take == getSample(s, NumScans)
           lock == << [op |-> "lock", spec |-> s] >>
           unlock == << [op |-> "unlock", spec |-> s] >>
           keptRef == take \o << [op |-> "keepRef", spec |-> s] >>
           keptDark == take \o << [op |-> "keepDark", spec |-> s] >>
<1>1. /\ Of(take, s) /\ Later(take, 0, "clear")
      /\ Of(lock, s) /\ lock[1].op = "lock" /\ Len(lock) = 1
      /\ Of(unlock, s) /\ unlock[1].op = "unlock" /\ Len(unlock) = 1
  <2>1. /\ [op |-> "lock", spec |-> s] \in AnyStep /\ [op |-> "unlock", spec |-> s] \in AnyStep
    BY DEF AnyStep
  <2>2. QED  BY <2>1, OneOf, SampleOf
<1>2. /\ Of(keptRef, s) /\ Later(keptRef, 0, "clear") /\ Of(keptDark, s)
      /\ \A i \in 1..Len(keptRef) : keptRef[i].op = "clear" => Later(keptRef, i, "keepRef")
  BY KeepOf
<1>3. /\ recordSpecSample(s) = lock \o take \o unlock
      /\ recordRefSample(s) = lock \o keptRef \o unlock
      /\ recordDarkSample(s) = lock \o keptDark \o unlock
  BY DEF recordSpecSample, recordRefSample, recordDarkSample, Section
<1>4. getCalCos(s) = lock \o <<>> \o unlock
  BY DEF getCalCos, Section
<1>5. <<>> \in Seq(AnyStep) /\ Of(<<>>, s)
  BY EmptySeq DEF Of
<1> HIDE DEF take, lock, unlock, keptRef, keptDark
<1>6. Of(getCalCos(s), s)
  <2> DEFINE none == <<>>
  <2>1. Of(none, s)
    BY <1>5
  <2> HIDE DEF none
  <2>2. Of(lock \o none, s)
    BY <1>1, <2>1, OfJoined
  <2>3. Of((lock \o none) \o unlock, s)
    BY <1>1, <2>2, OfJoined
  <2>4. QED  BY <1>4, <2>3 DEF none
\* Steps between lock and unlock.
<1>7. ASSUME NEW steps, Of(steps, s)
      PROVE  /\ Of(lock \o steps \o unlock, s)
             /\ Later(steps, 0, "clear") => Later(lock \o steps \o unlock, 0, "clear")
             /\ (\A i \in 1..Len(steps) : steps[i].op = "clear" => Later(steps, i, "keepRef"))
                => \A i \in 1..Len(lock \o steps \o unlock) :
                     (lock \o steps \o unlock)[i].op = "clear"
                       => Later(lock \o steps \o unlock, i, "keepRef")
  <2> DEFINE open == lock \o steps
             all == open \o unlock
  <2>1. Of(open, s)
    BY <1>1, <1>7, OfJoined
  <2>2. /\ open \in Seq(AnyStep) /\ unlock \in Seq(AnyStep) /\ lock \in Seq(AnyStep)
        /\ steps \in Seq(AnyStep)
    BY <1>1, <1>7, <2>1 DEF Of
  <2>3. /\ Len(open) = 1 + Len(steps) /\ Len(steps) \in Nat
        /\ open[1] = lock[1] /\ \A i \in 1..Len(steps) : open[1 + i] = steps[i]
        /\ \A i \in 1..Len(open) : i = 1 \/ \E j \in 1..Len(steps) : i = 1 + j
    <3>1. /\ Len(open) = Len(lock) + Len(steps) /\ Len(steps) \in Nat
          /\ \A i \in 1..Len(lock) : open[i] = lock[i]
          /\ \A i \in 1..Len(steps) : open[Len(lock) + i] = steps[i]
          /\ \A i \in 1..Len(open) : i \in 1..Len(lock) \/ \E j \in 1..Len(steps) : i = Len(lock) + j
      BY <2>2, Joint
    <3>2. QED  BY <1>1, <3>1
  <2>4. \A what : /\ Later(steps, 0, what) => Later(open, 0, what)
                  /\ \A i \in 0..Len(steps) : Later(steps, i, what) => Later(open, 1 + i, what)
    <3>1. \A what : /\ \A i \in 0..Len(lock) : Later(steps, 0, what) => Later(open, i, what)
                    /\ \A i \in 0..Len(steps) : Later(steps, i, what) => Later(open, Len(lock) + i, what)
      BY <2>2, JointLater
    <3>2. QED  BY <1>1, <3>1
  <2> HIDE DEF open
  <2>5. Of(all, s)
    BY <1>1, <2>1, OfJoined
  <2>6. /\ Len(all) = Len(open) + 1
        /\ \A i \in 1..Len(open) : all[i] = open[i]
        /\ all[Len(open) + 1] = unlock[1]
        /\ \A i \in 1..Len(all) : i \in 1..Len(open) \/ i = Len(open) + 1
    <3>1. /\ Len(all) = Len(open) + Len(unlock) /\ Len(open) \in Nat
          /\ \A i \in 1..Len(open) : all[i] = open[i]
          /\ \A i \in 1..Len(unlock) : all[Len(open) + i] = unlock[i]
          /\ \A i \in 1..Len(all) : i \in 1..Len(open) \/ \E j \in 1..Len(unlock) : i = Len(open) + j
      BY <2>2, Joint
    <3>2. QED  BY <1>1, <3>1
  <2>7. \A what : \A i \in 0..Len(open) : Later(open, i, what) => Later(all, i, what)
    BY <2>2, JointLater
  <2> HIDE DEF all
  <2>8. Later(steps, 0, "clear") => Later(all, 0, "clear")
    BY <2>3, <2>4, <2>7
  <2>9. ASSUME \A i \in 1..Len(steps) : steps[i].op = "clear" => Later(steps, i, "keepRef"),
               NEW i \in 1..Len(all), all[i].op = "clear"
        PROVE  Later(all, i, "keepRef")
    <3>1. i \in 1..Len(open) /\ open[i].op = "clear"
      BY <1>1, <2>6, <2>9
    <3>2. PICK j \in 1..Len(steps) : i = 1 + j
      BY <1>1, <2>3, <3>1
    <3>3. steps[j].op = "clear" /\ j \in 0..Len(steps) /\ i \in 0..Len(open)
      BY <2>3, <3>1, <3>2
    <3>4. Later(steps, j, "keepRef")
      BY <2>9, <3>3
    <3>5. Later(open, i, "keepRef")
      BY <2>4, <3>2, <3>3, <3>4
    <3>6. QED  BY <2>7, <3>3, <3>5
  <2>10. QED  BY <2>5, <2>8, <2>9 DEF all, open
<1>8. QED  BY <1>1, <1>2, <1>3, <1>6, <1>7

LEMMA ReadOf ==
  ASSUME NEW s \in SpecIndex, NEW part \in {"ref", "last", "abs", "spectrum", "conc"}
  PROVE  /\ Of(Read(s, part), s) /\ UsedLater(Read(s, part), 0, part)
         /\ \A i \in 1..Len(Read(s, part)) :
              /\ Read(s, part)[i].op \notin Taking
              /\ Read(s, part)[i].op = "use" => Read(s, part)[i].part = part
<1> DEFINE load == [op |-> "load", spec |-> s]
           use == [op |-> "use", spec |-> s, part |-> part]
           all == <<load, use>>
<1>1. /\ load \in AnyStep /\ use \in AnyStep /\ load.op = "load" /\ use.op = "use"
      /\ load.spec = s /\ use.spec = s /\ use.part = part
  BY DEF AnyStep
<1>2. Read(s, part) = all
  BY DEF Read
<1> HIDE DEF load, use
<1>3. all \in Seq(AnyStep) /\ Len(all) = 2 /\ all[1] = load /\ all[2] = use
  BY <1>1
<1> HIDE DEF all
<1>4. \A i \in 1..Len(all) : all[i] = load \/ all[i] = use
  BY <1>3
<1>5. /\ Of(all, s)
      /\ \A i \in 1..Len(all) : /\ all[i].op \notin Taking
                                /\ all[i].op = "use" => all[i].part = part
  BY <1>1, <1>3, <1>4 DEF Of, Taking
<1>6. 2 \in (0 + 1)..Len(all)
  BY <1>3
<1>7. UsedLater(all, 0, part)
  BY <1>1, <1>3, <1>6 DEF UsedLater
<1>8. QED  BY <1>2, <1>5, <1>7

LEMMA OneStep ==
  ASSUME NEW step \in AnyStep
  PROVE  /\ <<step>> \in Seq(AnyStep) /\ Len(<<step>>) = 1 /\ <<step>>[1] = step
         /\ <<step>> # <<>> /\ <<step>>[Len(<<step>>)] = step
         /\ \A i \in 1..Len(<<step>>) : i = Len(<<step>>) /\ <<step>>[i] = step
OBVIOUS

LEMMA SendReports ==
  ASSUME NEW s \in SpecIndex, NEW kind \in {"ref", "sample", "pH", "pHRow", "row"}
  PROVE  Reports(SendMessage(s, kind), s, kind)
<1> DEFINE send == [op |-> "send", spec |-> s, kind |-> kind]
           all == <<send>>
<1>1. send \in AnyStep /\ send.op = "send" /\ send.spec = s /\ send.kind = kind
  BY DEF AnyStep
<1> HIDE DEF send
<1>2. all \in Seq(AnyStep) /\ Len(all) = 1 /\ all[1] = send /\ all # <<>>
  BY <1>1, OneStep
<1>3. all[Len(all)] = send /\ \A i \in 1..Len(all) : i = Len(all) /\ all[i] = send
  BY <1>1, OneStep
<1> HIDE DEF all
<1>4. send.op \notin Taking /\ send.op # "clear" /\ send.op # "use"
  BY <1>1 DEF Taking
<1>5. Planned(all)
  BY <1>3, <1>4 DEF Planned
<1>6. Reports(all, s, kind)
  BY <1>1, <1>2, <1>3, <1>5 DEF Reports, Reporting
<1>7. QED  BY <1>6 DEF SendMessage, all, send

\* Every request is laid out so.
LEMMA StepsPlanned ==
  ASSUME NEW r \in Measurement
  PROVE  Planned(Steps(r)) /\ Entire(Steps(r))
<1> DEFINE s == r.spec
<1>0. s \in SpecIndex
  BY DEF Measurement
<1> HIDE DEF s
<1>1. /\ Of(recordSpecSample(s), s) /\ Later(recordSpecSample(s), 0, "clear")
      /\ Of(recordRefSample(s), s) /\ Later(recordRefSample(s), 0, "clear")
      /\ \A i \in 1..Len(recordRefSample(s)) :
           recordRefSample(s)[i].op = "clear" => Later(recordRefSample(s), i, "keepRef")
      /\ Of(recordDarkSample(s), s) /\ Of(getCalCos(s), s)
  BY <1>0, SectionOf
<1>2. \A u \in SpecIndex, part \in {"ref", "last", "abs", "spectrum", "conc"} :
        /\ Of(Read(u, part), u) /\ UsedLater(Read(u, part), 0, part)
        /\ \A i \in 1..Len(Read(u, part)) :
             /\ Read(u, part)[i].op \notin Taking
             /\ Read(u, part)[i].op = "use" => Read(u, part)[i].part = part
  BY ReadOf
<1>3. \A kind \in {"ref", "sample", "pH", "pHRow", "row"} : Reports(SendMessage(s, kind), s, kind)
  BY <1>0, SendReports
\* Without a message there is nothing to plan.
<1>4. ASSUME NEW u, NEW steps, Of(steps, u)
      PROVE  Planned(steps) /\ Entire(steps)
  <2>1. steps # <<>> => Len(steps) \in 1..Len(steps)
    BY <1>4 DEF Of
  <2>2. ~Reporting(steps)
    BY <1>4, <2>1 DEF Of, Reporting
  <2>3. QED  BY <1>4, <2>2 DEF Of, Planned, Entire
<1>5. \A what : \A a \in Seq(AnyStep), b \in Seq(AnyStep) :
        /\ Later(a, 0, what) \/ Later(b, 0, what) => Later(a \o b, 0, what)
        /\ UsedLater(a, 0, what) \/ UsedLater(b, 0, what) => UsedLater(a \o b, 0, what)
  <2> SUFFICES ASSUME NEW what, NEW a \in Seq(AnyStep), NEW b \in Seq(AnyStep)
               PROVE  /\ Later(a, 0, what) \/ Later(b, 0, what) => Later(a \o b, 0, what)
                      /\ UsedLater(a, 0, what) \/ UsedLater(b, 0, what) => UsedLater(a \o b, 0, what)
    OBVIOUS
  <2>1. 0 \in 0..Len(a)
    OBVIOUS
  <2>2. QED  BY <2>1, JointLater
<1>6. ASSUME NEW steps, NEW kind, Reports(steps, s, kind),
             \A part \in Parts(kind) : UsedLater(steps, 0, part),
             kind \in {"sample", "ref"} => Later(steps, 0, "clear"),
             kind \in {"pH", "pHRow"} => Later(steps, 0, "calculate")
      PROVE  Planned(steps) /\ Entire(steps)
  BY <1>6 DEF Reports, Entire
<1>7. ASSUME r.op = "read reference"
      PROVE  Planned(Steps(r)) /\ Entire(Steps(r))
  <2> DEFINE take == recordRefSample(s)
             read == Read(s, "ref")
             send == SendMessage(s, "ref")
             told == read \o send
             all == take \o told
  <2>1. Steps(r) = all
    BY <1>7 DEF Steps, s, methodReadReference, readRefRunResponse, getRefSample
  <2>2. /\ Of(take, s) /\ Later(take, 0, "clear")
        /\ \A i \in 1..Len(take) : take[i].op = "clear" => Later(take, i, "keepRef")
        /\ Of(read, s) /\ UsedLater(read, 0, "ref")
        /\ \A i \in 1..Len(read) : read[i].op \notin Taking
        /\ Reports(send, s, "ref")
    BY <1>0, <1>1, <1>2, <1>3
  <2> HIDE DEF take, read, send
  <2>3. /\ take \in Seq(AnyStep) /\ read \in Seq(AnyStep) /\ send \in Seq(AnyStep)
        /\ send[Len(send)].kind = "ref" /\ Parts("ref") = {"ref"} /\ "clear" \in Taking
    BY <2>2 DEF Of, Reports, Parts, Taking
  <2>4. Reports(told, s, "ref") /\ UsedLater(told, 0, "ref")
    <3>1. Before(read, send[Len(send)], send)
      BY <2>2, <2>3 DEF Before
    <3>2. QED  BY <1>5, <2>2, <2>3, <3>1, PlanJoined
  <2> HIDE DEF told
  <2>5. told \in Seq(AnyStep) /\ told[Len(told)].kind = "ref"
    BY <2>4 DEF Reports
  <2>6. Reports(all, s, "ref") /\ UsedLater(all, 0, "ref") /\ Later(all, 0, "clear")
    <3>1. Before(take, told[Len(told)], told)
      BY <2>2, <2>3, <2>4, <2>5 DEF Before
    <3>2. Reports(all, s, "ref")
      BY <2>2, <2>4, <3>1, PlanJoined
    <3>3. QED  BY <1>5, <2>2, <2>3, <2>4, <2>5, <3>2
  <2> HIDE DEF all
  <2>7. QED  BY <1>6, <2>1, <2>3, <2>6
<1>8. ASSUME NEW a, NEW b, NEW c, Of(a, s), Of(b, s), Of(c, s),
             \A i \in 1..Len(a) : a[i].op \notin Taking,
             \A i \in 1..Len(b) : b[i].op \notin Taking,
             \A i \in 1..Len(c) : c[i].op \notin Taking,
             NEW pa, NEW pb, NEW pc, UsedLater(a, 0, pa), UsedLater(b, 0, pb), UsedLater(c, 0, pc),
             NEW kind \in {"row", "sample"}
      PROVE  LET all == (a \o b \o c) \o SendMessage(s, kind)
             IN /\ Reports(all, s, kind) /\ all \in Seq(AnyStep)
                /\ UsedLater(all, 0, pa) /\ UsedLater(all, 0, pb) /\ UsedLater(all, 0, pc)
  <2> DEFINE ab == a \o b
             abc == ab \o c
             send == SendMessage(s, kind)
             all == abc \o send
  <2>1. a \in Seq(AnyStep) /\ b \in Seq(AnyStep) /\ c \in Seq(AnyStep)
    BY <1>8 DEF Of
  <2>2. Of(ab, s) /\ ab \in Seq(AnyStep)
    BY <1>8, OfJoined DEF Of
  <2>3. \A i \in 1..Len(ab) : ab[i].op \notin Taking
    BY <1>8, <2>1, Joint
  <2>4. UsedLater(ab, 0, pa) /\ UsedLater(ab, 0, pb)
    BY <1>5, <1>8, <2>1
  <2> HIDE DEF ab
  <2>5. Of(abc, s) /\ abc \in Seq(AnyStep)
    BY <1>8, <2>2, OfJoined DEF Of
  <2>6. \A i \in 1..Len(abc) : abc[i].op \notin Taking
    <3>1. /\ \A i \in 1..Len(ab) : abc[i] = ab[i]
          /\ \A i \in 1..Len(c) : abc[Len(ab) + i] = c[i]
          /\ \A i \in 1..Len(abc) : i \in 1..Len(ab) \/ \E j \in 1..Len(c) : i = Len(ab) + j
      BY <2>1, <2>2, Joint
    <3> HIDE DEF abc
    <3>2. QED  BY <1>8, <2>3, <3>1
  <2>7. UsedLater(abc, 0, pa) /\ UsedLater(abc, 0, pb) /\ UsedLater(abc, 0, pc)
    BY <1>5, <1>8, <2>1, <2>2, <2>4
  <2> HIDE DEF abc
  <2>8. Reports(send, s, kind) /\ send \in Seq(AnyStep) /\ send[Len(send)].kind = kind
    BY <1>3, <1>8 DEF Reports
  <2> HIDE DEF send
  <2>9. Before(abc, send[Len(send)], send)
    BY <1>8, <2>6, <2>8 DEF Before, Taking
  <2>10. Reports(all, s, kind)
    BY <2>5, <2>8, <2>9, PlanJoined
  <2>11. UsedLater(all, 0, pa) /\ UsedLater(all, 0, pb) /\ UsedLater(all, 0, pc)
    BY <1>5, <2>5, <2>7, <2>8
  <2>12. all \in Seq(AnyStep)
    BY <2>10 DEF Reports
  <2>13. QED  BY <2>10, <2>11, <2>12 DEF all, abc, ab, send
<1>9. ASSUME r.op = "read sample"
      PROVE  Planned(Steps(r)) /\ Entire(Steps(r))
  <2> DEFINE last == Read(s, "last")
             abs == Read(s, "abs")
             spectrum == Read(s, "spectrum")
             record == recordSpecSample(s)
             take == record \o abs
             told == (last \o abs \o spectrum) \o SendMessage(s, "sample")
             all == take \o told
  <2>1. Steps(r) = all
    BY <1>9 DEF Steps, s, methodReadSample, readSampRunResponse, getLastSample, getAbsorbance,
                getAbsorbanceSpectrum
  <2>2. /\ Of(record, s) /\ Later(record, 0, "clear")
        /\ Of(last, s) /\ UsedLater(last, 0, "last")
        /\ Of(abs, s) /\ UsedLater(abs, 0, "abs")
        /\ Of(spectrum, s) /\ UsedLater(spectrum, 0, "spectrum")
        /\ \A i \in 1..Len(last) : last[i].op \notin Taking
        /\ \A i \in 1..Len(abs) : abs[i].op \notin Taking
        /\ \A i \in 1..Len(spectrum) : spectrum[i].op \notin Taking
    BY <1>0, <1>1, <1>2
  <2> HIDE DEF last, abs, spectrum, record
  <2>3. /\ Reports(told, s, "sample") /\ told \in Seq(AnyStep)
        /\ UsedLater(told, 0, "last") /\ UsedLater(told, 0, "abs") /\ UsedLater(told, 0, "spectrum")
    BY <1>8, <2>2
  <2> HIDE DEF told
  <2>4. Of(take, s) /\ take \in Seq(AnyStep) /\ Later(take, 0, "clear")
    BY <1>5, <2>2, OfJoined DEF Of
  <2> HIDE DEF take
  <2>5. /\ told[Len(told)].kind = "sample" /\ Parts("sample") = {"last", "abs", "spectrum"}
        /\ "sample" \notin {"ref", "pH", "pHRow"}
    BY <2>3 DEF Reports, Parts
  <2>6. Before(take, told[Len(told)], told)
    BY <2>3, <2>5 DEF Before
  <2>7. Reports(all, s, "sample")
    BY <2>3, <2>4, <2>6, PlanJoined
  <2>8. /\ Later(all, 0, "clear")
        /\ UsedLater(all, 0, "last") /\ UsedLater(all, 0, "abs") /\ UsedLater(all, 0, "spectrum")
    BY <1>5, <2>3, <2>4
  <2> HIDE DEF all
  <2>9. QED  BY <1>6, <2>1, <2>5, <2>7, <2>8
<1>10. ASSUME r.op = "write"
       PROVE  Planned(Steps(r)) /\ Entire(Steps(r))
  <2> DEFINE conc == Read(s, "conc")
             abs == Read(s, "abs")
             last == Read(s, "last")
             all == (conc \o abs \o last) \o SendMessage(s, "row")
  <2>1. Steps(r) = all
    BY <1>10 DEF Steps, s, writeConcData, getConcentrations, getAbsorbance, getRawCounts,
                 getLastSample
  <2>2. /\ Of(conc, s) /\ UsedLater(conc, 0, "conc")
        /\ Of(abs, s) /\ UsedLater(abs, 0, "abs")
        /\ Of(last, s) /\ UsedLater(last, 0, "last")
        /\ \A i \in 1..Len(conc) : conc[i].op \notin Taking
        /\ \A i \in 1..Len(abs) : abs[i].op \notin Taking
        /\ \A i \in 1..Len(last) : last[i].op \notin Taking
    BY <1>0, <1>2
  <2> HIDE DEF last, abs, conc
  <2>3. /\ Reports(all, s, "row")
        /\ UsedLater(all, 0, "conc") /\ UsedLater(all, 0, "abs") /\ UsedLater(all, 0, "last")
    BY <1>8, <2>2
  <2> HIDE DEF all
  <2>4. Parts("row") = {"conc", "abs", "last"} /\ "row" \notin {"sample", "ref", "pH", "pHRow"}
    BY DEF Parts
  <2>5. QED  BY <1>6, <2>1, <2>3, <2>4
\* A pH is calculated after its absorbances were read.
<1>11. LET front == Read(s, "abs") \o << [op |-> "calculate", spec |-> s] >>
       IN /\ Of(front, s) /\ UsedLater(front, 0, "abs") /\ Later(front, 0, "calculate")
          /\ \A i \in 1..Len(front) :
               front[i].op \notin Taking /\ (front[i].op = "use" => Later(front, i, "calculate"))
  <2> DEFINE abs == Read(s, "abs")
             calculate == << [op |-> "calculate", spec |-> s] >>
             front == abs \o calculate
  <2>1. /\ Of(abs, s) /\ UsedLater(abs, 0, "abs")
        /\ \A i \in 1..Len(abs) : abs[i].op \notin Taking
    BY <1>0, <1>2
  <2>2. /\ Of(calculate, s) /\ Later(calculate, 0, "calculate")
        /\ Len(calculate) = 1 /\ calculate[1].op = "calculate"
    <3>1. [op |-> "calculate", spec |-> s] \in AnyStep
      BY <1>0 DEF AnyStep
    <3>2. QED  BY <3>1, OneOf
  <2> HIDE DEF abs, calculate
  <2>3. abs \in Seq(AnyStep) /\ calculate \in Seq(AnyStep)
    BY <2>1, <2>2 DEF Of
  <2>4. Of(front, s)
    BY <2>1, <2>2, OfJoined
  <2>5. UsedLater(front, 0, "abs") /\ Later(front, 0, "calculate")
    BY <1>5, <2>1, <2>2, <2>3
  <2>6. \A i \in 1..Len(abs) : Later(front, i, "calculate")
    <3>1. \A i \in 0..Len(abs) : Later(calculate, 0, "calculate") => Later(front, i, "calculate")
      BY <2>3, JointLater
    <3>2. QED  BY <2>2, <2>3, <3>1
  <2>7. \A i \in 1..Len(front) : /\ front[i].op \notin Taking
                                 /\ front[i].op = "use" => i \in 1..Len(abs)
    <3>1. /\ \A i \in 1..Len(abs) : front[i] = abs[i]
          /\ \A i \in 1..Len(calculate) : front[Len(abs) + i] = calculate[i]
          /\ \A i \in 1..Len(front) : i \in 1..Len(abs)
                                       \/ \E j \in 1..Len(calculate) : i = Len(abs) + j
      BY <2>3, Joint
    <3>2. \A j \in 1..Len(calculate) : calculate[j].op = "calculate"
      BY <2>2
    <3>3. "calculate" \notin Taking /\ "calculate" # "use"
      BY DEF Taking
    <3>4. ASSUME NEW i \in 1..Len(front), i \notin 1..Len(abs)
          PROVE  front[i].op = "calculate"
      BY <3>1, <3>2, <3>4
    <3>5. QED  BY <2>1, <3>1, <3>3, <3>4
  <2> HIDE DEF front
  <2>8. QED  BY <2>4, <2>5, <2>6, <2>7 DEF front, abs, calculate
<1>16. ASSUME r.op = "no pH"
       PROVE  Planned(Steps(r)) /\ Entire(Steps(r))
  <2> DEFINE front == Read(s, "abs") \o << [op |-> "calculate", spec |-> s] >>
             send == SendMessage(s, "pH")
             all == front \o send
  <2>1. Steps(r) = all
    BY <1>16 DEF Steps, s, methodCalcPH, calPHRunResponse, getAbsorbance
  <2>2. /\ Of(front, s) /\ UsedLater(front, 0, "abs") /\ Later(front, 0, "calculate")
        /\ \A i \in 1..Len(front) :
             front[i].op \notin Taking /\ (front[i].op = "use" => Later(front, i, "calculate"))
        /\ Reports(send, s, "pH")
    BY <1>3, <1>11
  <2> HIDE DEF front, send
  <2>3. /\ front \in Seq(AnyStep) /\ send \in Seq(AnyStep)
        /\ send[Len(send)].kind = "pH" /\ Parts("pH") = {"abs"}
    BY <2>2 DEF Of, Reports, Parts
  <2>4. Before(front, send[Len(send)], send)
    BY <2>2, <2>3 DEF Before, Taking
  <2>5. Reports(all, s, "pH")
    BY <2>2, <2>4, PlanJoined
  <2>6. UsedLater(all, 0, "abs") /\ Later(all, 0, "calculate")
    BY <1>5, <2>2, <2>3
  <2> HIDE DEF all
  <2>7. QED  BY <1>6, <2>1, <2>3, <2>5, <2>6
<1>17. ASSUME r.op = "pH"
       PROVE  Planned(Steps(r)) /\ Entire(Steps(r))
  <2> DEFINE front == Read(s, "abs") \o << [op |-> "calculate", spec |-> s] >>
             last == Read(s, "last")
             read == front \o last
             send == SendMessage(s, "pHRow")
             all == read \o send
  <2>1. Steps(r) = all
    BY <1>17 DEF Steps, s, methodCalcPH, calPHRunResponse, getAbsorbance, writepHToDB, getRawCounts,
                 getLastSample
  <2>2. /\ Of(front, s) /\ UsedLater(front, 0, "abs") /\ Later(front, 0, "calculate")
        /\ \A i \in 1..Len(front) :
             front[i].op \notin Taking /\ (front[i].op = "use" => Later(front, i, "calculate"))
        /\ Of(last, s) /\ UsedLater(last, 0, "last")
        /\ \A i \in 1..Len(last) :
             last[i].op \notin Taking /\ (last[i].op = "use" => last[i].part = "last")
        /\ Reports(send, s, "pHRow")
    BY <1>0, <1>2, <1>3, <1>11
  <2> HIDE DEF front, last, send
  <2>3. /\ front \in Seq(AnyStep) /\ last \in Seq(AnyStep) /\ send \in Seq(AnyStep)
        /\ send[Len(send)].kind = "pHRow" /\ Parts("pHRow") = {"abs", "last"}
    BY <2>2 DEF Of, Reports, Parts
  <2>4. /\ Of(read, s) /\ read \in Seq(AnyStep)
        /\ UsedLater(read, 0, "abs") /\ UsedLater(read, 0, "last") /\ Later(read, 0, "calculate")
    <3>1. Of(read, s)
      BY <2>2, OfJoined
    <3>2. QED  BY <1>5, <2>2, <2>3, <3>1 DEF Of
  <2>5. /\ \A i \in 1..Len(front) : read[i] = front[i]
        /\ \A i \in 1..Len(last) : read[Len(front) + i] = last[i]
        /\ \A i \in 1..Len(read) : i \in 1..Len(front) \/ \E j \in 1..Len(last) : i = Len(front) + j
        /\ \A i \in 1..Len(front) : Later(front, i, "calculate") => Later(read, i, "calculate")
    <3>1. \A i \in 1..Len(front) : i \in 0..Len(front)
      <4>1. Len(front) \in Nat
        BY <2>3
      <4>2. QED  BY <4>1
    <3>2. \A i \in 1..Len(front) : Later(front, i, "calculate") => Later(read, i, "calculate")
      BY <2>3, <3>1, JointLater
    <3>3. QED  BY <2>3, <3>2, Joint
  <2> HIDE DEF read
  <2>6. \A i \in 1..Len(read) :
          /\ read[i].op \notin Taking
          /\ read[i].op = "use" /\ read[i].part = "abs" => Later(read, i, "calculate")
    <3>1. ASSUME NEW i \in 1..Len(front)
          PROVE  /\ read[i].op \notin Taking
                 /\ read[i].op = "use" => Later(read, i, "calculate")
      BY <2>2, <2>5
    <3>2. ASSUME NEW j \in 1..Len(last)
          PROVE  /\ read[Len(front) + j].op \notin Taking
                 /\ read[Len(front) + j].op = "use" => read[Len(front) + j].part = "last"
      BY <2>2, <2>5
    <3>3. QED  BY <2>5, <3>1, <3>2
  <2>7. Before(read, send[Len(send)], send)
    BY <2>3, <2>6 DEF Before, Taking
  <2>8. Reports(all, s, "pHRow")
    BY <2>2, <2>4, <2>7, PlanJoined
  <2>9. /\ UsedLater(all, 0, "abs") /\ UsedLater(all, 0, "last") /\ Later(all, 0, "calculate")
    BY <1>5, <2>3, <2>4
  <2> HIDE DEF all
  <2>10. QED  BY <1>6, <2>1, <2>3, <2>8, <2>9
<1>12. CASE r.op = "correction"
  <2> DEFINE a == Read(s, "abs")
             b == Read(r.other, "abs")
             all == a \o b
  <2>1. r.other \in SpecIndex /\ Steps(r) = all
    BY <1>12 DEF Measurement, Steps, s, methodAbsCorr, getCorrectionAbsorbance, getAbsorbance
  <2>2. Of(a, s) /\ Of(b, r.other)
    BY <1>0, <1>2, <2>1
  <2> HIDE DEF a, b
  <2>3. /\ all \in Seq(AnyStep)
        /\ \A i \in 1..Len(all) : all[i].op # "send"
    BY <2>2, Joint DEF Of
  <2> HIDE DEF all
  <2>4. all # <<>> => Len(all) \in 1..Len(all)
    BY <2>3
  <2>5. ~Reporting(all)
    BY <2>3, <2>4 DEF Reporting
  <2>6. Planned(all) /\ Entire(all)
    BY <2>3, <2>5 DEF Planned, Entire
  <2>7. QED  BY <2>1, <2>6
<1>13. CASE r.op \in {"RDS", "RRS", "RSS", "full spectrum", "RFS", "RAD", "RCC", "RAS", "RCD"}
  <2>1. /\ r.op = "RDS" => Steps(r) = recordDarkSample(s)
        /\ r.op = "RRS" => Steps(r) = recordRefSample(s)
        /\ r.op \in {"RSS", "full spectrum", "RFS"} => Steps(r) = recordSpecSample(s)
        /\ r.op = "RAD" => Steps(r) = Read(s, "abs")
        /\ r.op = "RCC" => Steps(r) = Read(s, "conc")
        /\ r.op = "RAS" => Steps(r) = Read(s, "spectrum")
        /\ r.op = "RCD" => Steps(r) = getCalCos(s)
    BY DEF Steps, s, methodReadFullSpec, getSpecSample, getAbsorbance, getConcentrations,
           getAbsorbanceSpectrum
  <2>2. /\ Of(recordDarkSample(s), s) /\ Of(recordRefSample(s), s) /\ Of(recordSpecSample(s), s)
        /\ Of(getCalCos(s), s) /\ Of(Read(s, "abs"), s) /\ Of(Read(s, "conc"), s)
        /\ Of(Read(s, "spectrum"), s)
    BY <1>0, <1>1, <1>2
  <2>3. Of(Steps(r), s)
    BY <1>13, <2>1, <2>2
  <2>4. QED  BY <1>4, <2>3
<1>14. r.op \in {"RDS", "RRS", "RSS", "full spectrum", "RFS", "RAD", "RCC", "RAS", "RCD",
                 "read reference", "read sample", "write", "pH", "no pH", "correction"}
  BY DEF Measurement
<1>15. QED  BY <1>7, <1>9, <1>10, <1>12, <1>13, <1>14, <1>16, <1>17

LEMMA PlanTail ==
  ASSUME NEW steps \in Seq(AnyStep), Planned(steps), steps # <<>>
  PROVE  LET rest == Tail(steps)
             next == Head(steps)
             msg == steps[Len(steps)]
         IN /\ Planned(rest)
            /\ \A op : Later(steps, 0, op) <=> next.op = op \/ Later(rest, 0, op)
            /\ \A part : UsedLater(steps, 0, part)
                           <=> (next.op = "use" /\ next.part = part) \/ UsedLater(rest, 0, part)
            /\ next.op = "send" => rest = <<>>
            /\ rest # <<>> => /\ Reporting(rest) <=> Reporting(steps)
                              /\ rest[Len(rest)] = msg
            /\ Reporting(steps) =>
                 /\ next.spec = msg.spec
                 /\ next.op \in Taking => \A part \in Parts(msg.kind) : UsedLater(rest, 0, part)
                 /\ next.op = "clear" /\ msg.kind = "ref" => Later(rest, 0, "keepRef")
                 /\ next.op = "use" /\ next.part = "abs" /\ msg.kind \in {"pH", "pHRow"} => Later(rest, 0, "calculate")
<1> DEFINE rest == Tail(steps)
           next == Head(steps)
           msg == steps[Len(steps)]
<1>1. /\ Len(steps) \in Nat \ {0} /\ rest \in Seq(AnyStep) /\ Len(rest) = Len(steps) - 1
      /\ next = steps[1] /\ \A i \in 1..Len(rest) : rest[i] = steps[i + 1]
  BY HeadTailProperties
<1> HIDE DEF rest, next
<1>2. \A i \in 0..Len(rest) : /\ \A op : Later(rest, i, op) <=> Later(steps, i + 1, op)
                              /\ \A part : UsedLater(rest, i, part) <=> UsedLater(steps, i + 1, part)
  <2> SUFFICES ASSUME NEW i \in 0..Len(rest)
               PROVE  /\ \A op : Later(rest, i, op) <=> Later(steps, i + 1, op)
                      /\ \A part : UsedLater(rest, i, part) <=> UsedLater(steps, i + 1, part)
    OBVIOUS
  <2>1. \A j \in (i + 1)..Len(rest) : /\ j + 1 \in ((i + 1) + 1)..Len(steps)
                                      /\ rest[j] = steps[j + 1]
    BY <1>1
  <2>2. \A j \in ((i + 1) + 1)..Len(steps) : /\ j - 1 \in (i + 1)..Len(rest)
                                             /\ rest[j - 1] = steps[j]
    <3> SUFFICES ASSUME NEW j \in ((i + 1) + 1)..Len(steps)
                 PROVE  j - 1 \in (i + 1)..Len(rest) /\ rest[j - 1] = steps[j]
      OBVIOUS
    <3>1. j - 1 \in (i + 1)..Len(rest) /\ j - 1 \in 1..Len(rest) /\ (j - 1) + 1 = j
      BY <1>1
    <3>2. QED  BY <1>1, <3>1
  <2>3. QED  BY <2>1, <2>2 DEF Later, UsedLater
<1>3. /\ \A op : Later(steps, 0, op) <=> next.op = op \/ Later(steps, 1, op)
      /\ \A part : UsedLater(steps, 0, part)
                     <=> (next.op = "use" /\ next.part = part) \/ UsedLater(steps, 1, part)
  <2>1. \A j : j \in (0 + 1)..Len(steps) <=> j = 1 \/ j \in (1 + 1)..Len(steps)
    BY <1>1
  <2>2. QED  BY <1>1, <2>1 DEF Later, UsedLater
<1>4. /\ \A op : Later(rest, 0, op) <=> Later(steps, 1, op)
      /\ \A part : UsedLater(rest, 0, part) <=> UsedLater(steps, 1, part)
  <2>1. 0 \in 0..Len(rest) /\ 0 + 1 = 1
    BY <1>1
  <2>2. QED  BY <1>2, <2>1
<1>5. next.op = "send" => rest = <<>>
  <2>1. ASSUME next.op = "send"
        PROVE  Len(rest) = 0
    <3>1. \A i \in 1..Len(steps) : steps[i].op = "send" => i = Len(steps)
      BY DEF Planned
    <3>2. 1 = Len(steps)
      BY <1>1, <2>1, <3>1
    <3>3. QED  BY <1>1, <3>2
  <2>2. QED  BY <1>1, <2>1, EmptySeq
<1>6. ASSUME rest # <<>>
      PROVE  (Reporting(rest) <=> Reporting(steps)) /\ rest[Len(rest)] = msg
  <2>1. Len(rest) \in 1..Len(rest) /\ Len(rest) + 1 = Len(steps)
    BY <1>1, <1>6, EmptySeq
  <2>2. rest[Len(rest)] = msg
    BY <1>1, <2>1
  <2>3. QED  BY <1>6, <2>2 DEF Reporting
<1>7. Planned(rest)
  <2>1. \A i \in 1..Len(rest) : i + 1 \in 1..Len(steps) /\ i \in 0..Len(rest)
    BY <1>1
  <2>2. ASSUME NEW i \in 1..Len(rest), rest[i].op = "send"
        PROVE  i = Len(rest)
    <3>1. i + 1 = Len(steps)
      BY <1>1, <2>1, <2>2 DEF Planned
    <3>2. QED  BY <1>1, <3>1
  <2>3. ASSUME Reporting(rest), NEW i \in 1..Len(rest)
        PROVE  /\ rest[i].spec = msg.spec
               /\ rest[i].op \in Taking => \A part \in Parts(msg.kind) : UsedLater(rest, i, part)
               /\ rest[i].op = "clear" /\ msg.kind = "ref" => Later(rest, i, "keepRef")
               /\ rest[i].op = "use" /\ rest[i].part = "abs" /\ msg.kind \in {"pH", "pHRow"} => Later(rest, i, "calculate")
    <3>1. Reporting(steps) /\ rest[i] = steps[i + 1] /\ i + 1 \in 1..Len(steps) /\ i \in 0..Len(rest)
      BY <1>1, <1>6, <2>1, <2>3 DEF Reporting
    <3>2. /\ steps[i + 1].spec = msg.spec
          /\ steps[i + 1].op \in Taking => \A part \in Parts(msg.kind) : UsedLater(steps, i + 1, part)
          /\ steps[i + 1].op = "clear" /\ msg.kind = "ref" => Later(steps, i + 1, "keepRef")
          /\ steps[i + 1].op = "use" /\ steps[i + 1].part = "abs" /\ msg.kind \in {"pH", "pHRow"}
               => Later(steps, i + 1, "calculate")
      BY <3>1 DEF Planned
    <3>3. QED  BY <1>2, <3>1, <3>2
  <2>4. Reporting(rest) => rest[Len(rest)] = msg
    BY <1>6 DEF Reporting
  <2>5. QED  BY <2>2, <2>3, <2>4 DEF Planned
<1>8. ASSUME Reporting(steps)
      PROVE  /\ next.spec = msg.spec
             /\ next.op \in Taking => \A part \in Parts(msg.kind) : UsedLater(rest, 0, part)
             /\ next.op = "clear" /\ msg.kind = "ref" => Later(rest, 0, "keepRef")
             /\ next.op = "use" /\ next.part = "abs" /\ msg.kind \in {"pH", "pHRow"} => Later(rest, 0, "calculate")
  <2>1. 1 \in 1..Len(steps)
    BY <1>1
  <2>2. /\ steps[1].spec = msg.spec
        /\ steps[1].op \in Taking => \A part \in Parts(msg.kind) : UsedLater(steps, 1, part)
        /\ steps[1].op = "clear" /\ msg.kind = "ref" => Later(steps, 1, "keepRef")
        /\ steps[1].op = "use" /\ steps[1].part = "abs" /\ msg.kind \in {"pH", "pHRow"} => Later(steps, 1, "calculate")
    BY <1>8, <2>1 DEF Planned
  <2>3. QED  BY <1>1, <1>4, <2>2
<1>9. QED  BY <1>3, <1>4, <1>5, <1>6, <1>7, <1>8 DEF rest, next

-----------------------------------------------------------------------------
(* What a message or row will say.                                         *)

Message(t) == todo[t][Len(todo[t])]
Telling(t) == Reporting(todo[t])
ToDo(t, op) == Later(todo[t], 0, op)
ToRead(t, part) == UsedLater(todo[t], 0, part)

\* The recordings that t's message may be about: only its own, if no other thread has
\* recorded since, or one that is not older.
Good(t) == {0} \cup IF disturbed[t] THEN got[t].own..recorded ELSE {got[t].own}

\* What a reader of a part would get now.
Value(part, s) ==
  CASE part = "ref"  -> refSample[s].n
    [] part = "last" -> sample[s].n
    [] OTHER         -> IF refSample[s].n = 0 THEN 0 ELSE sample[s].n

\* The statement that reports a recording takes one.
Records(t) ==
  Message(t).kind \in {"sample", "ref"} /\ got[t].own = 0 => ToDo(t, "clear")

\* From then on only samples that are not older come to the spectrometer, ...
NotOlder(t) ==
  got[t].own # 0 =>
    LET s == Message(t).spec
    IN /\ sample[s].n \in Good(t)
       /\ \A u \in Thread : Filling(u) /\ At(u) = s => work[u].n \in Good(t)
       /\ Message(t).kind = "ref" /\ ~ToDo(t, "keepRef") => refSample[s].n \in Good(t)

\* ... and into the message.
PartsGood(t) ==
  got[t].own # 0 =>
    \A part \in Parts(Message(t).kind) : ~ToRead(t, part) => got[t][part] \in Good(t)

\* Once a part was read nobody records, without having disturbed t, ...
Changing == {"scan", "store", "keepRef", "keepDark"}

AloneSince(t) ==
  ~disturbed[t] /\ (\E part \in Parts(Message(t).kind) : ~ToRead(t, part)) =>
    \A u \in Thread : ~(In(u, Changing) /\ At(u) = Message(t).spec)

\* ... so that the parts read are what they would be now.
PartsNow(t) ==
  ~disturbed[t] =>
    \A part \in Parts(Message(t).kind) :
      ~ToRead(t, part) => got[t][part] = Value(part, Message(t).spec)

Calculated(t) ==
  ~disturbed[t] /\ Message(t).kind \in {"pH", "pHRow"} /\ ~ToDo(t, "calculate") =>
    lastCalc = [spec |-> Message(t).spec, n |-> got[t].abs]

ReportInv(t) ==
  Telling(t) => /\ Records(t) /\ NotOlder(t) /\ PartsGood(t)
                /\ AloneSince(t) /\ PartsNow(t) /\ Calculated(t)

\* What was sent, once it was.
Fresh(t) ==
  /\ sent[t].kind = "sample" =>
       LET p == sent[t].parts
       IN p.last >= p.own /\ {p.abs, p.spectrum} \subseteq {0} \cup p.own..recorded
  /\ sent[t].kind = "ref" => sent[t].parts.ref >= sent[t].parts.own

AllOfOne(t) ==
  sent[t].kind # "none" /\ ~disturbed[t] =>
    LET p == sent[t].parts
    IN CASE sent[t].kind = "sample" -> p.last = p.own /\ p.abs \in {0, p.own} /\ p.spectrum = p.abs
         [] sent[t].kind = "ref"    -> p.ref = p.own
         [] sent[t].kind = "row"    -> p.conc = p.abs /\ p.abs \in {0, p.last}
         [] sent[t].kind = "pH"     -> sent[t].spec = sent[t].label /\ p.pH = p.abs
         [] sent[t].kind = "pHRow" -> /\ sent[t].spec = sent[t].label
                                       /\ p.pH = p.abs /\ p.abs \in {0, p.last}

Results == [own : Nat, last : Nat, abs : Nat, spectrum : Nat, conc : Nat, ref : Nat, pH : Nat]

AnyMessage ==
  {NoMessage}
  \cup [kind : {"ref", "sample", "pH", "pHRow", "row"}, spec : Nat, label : Nat, parts : Results]

TellType ==
  /\ got \in [Thread -> Results] /\ \A t \in Thread : got[t].own <= recorded
  /\ disturbed \in [Thread -> BOOLEAN]
  /\ lastCalc \in [spec : Nat, n : Nat]
  /\ sent \in [Thread -> AnyMessage]

TellInv ==
  /\ TellType
  /\ \A t \in Thread : Planned(todo[t]) /\ ReportInv(t) /\ Fresh(t) /\ AllOfOne(t)

\* A step of t leaves what another thread v will say as it must be.
LEMMA OtherTells ==
  ASSUME Sections, SampleType, TellType,
         NEW t \in Thread, NEW rest, todo' = [todo EXCEPT ![t] = rest],
         NEW v \in Thread \ {t}, ReportInv(v), Telling(v),
         got'[v] = got[v], disturbed[v] => disturbed'[v], disturbed'[v] \in BOOLEAN,
         recorded' \in Nat, recorded <= recorded', \A u \in Thread \ {t} : work'[u] = work[u],
         NEW s, s = Message(v).spec,
         got[v].own # 0 => /\ sample'[s].n \in Good(v)'
                           /\ Filling(t)' /\ At(t)' = s => work'[t].n \in Good(v)'
                           /\ refSample'[s].n \in Good(v)' \cup {refSample[s].n},
         ~disturbed'[v] => /\ lastCalc' = lastCalc
                           /\ (\E part \in Parts(Message(v).kind) : ~ToRead(v, part)) =>
                                /\ ~(In(t, Changing)' /\ At(t)' = s)
                                /\ sample'[s] = sample[s] /\ refSample'[s] = refSample[s]
  PROVE  ReportInv(v)'
<1>1. todo'[v] = todo[v] /\ \A u \in Thread \ {t} : /\ Filling(u)' <=> Filling(u)
                                                    /\ At(u)' = At(u)
                                                    /\ \A ops : In(u, ops)' <=> In(u, ops)
  BY OthersStay
<1>2. /\ Message(v)' = Message(v) /\ Telling(v)'
      /\ \A op : ToDo(v, op)' <=> ToDo(v, op)
      /\ \A part : ToRead(v, part)' <=> ToRead(v, part)
  BY <1>1 DEF Message, Telling, ToDo, ToRead
<1>3. got'[v].own = got[v].own /\ got[v].own \in Nat /\ recorded \in Nat
  BY DEF TellType, Results, SampleType
<1>4. \A n : n \in Good(v) => n \in Good(v)'
  <2>1. disturbed[v] \in BOOLEAN /\ got[v].own <= recorded
    BY DEF TellType
  <2>2. CASE disturbed[v]
    BY <1>3, <2>2 DEF Good
  <2>3. CASE ~disturbed[v] /\ disturbed'[v]
    BY <1>3, <2>1, <2>3 DEF Good
  <2>4. CASE ~disturbed'[v]
    BY <1>3, <2>4 DEF Good
  <2>5. QED  BY <2>2, <2>3, <2>4
<1>5. Records(v)'
  BY <1>2 DEF Records, ReportInv
<1>6. NotOlder(v)'
  <2> SUFFICES ASSUME got[v].own # 0
               PROVE  /\ sample'[s].n \in Good(v)'
                      /\ \A u \in Thread : Filling(u)' /\ At(u)' = s => work'[u].n \in Good(v)'
                      /\ Message(v).kind = "ref" /\ ~ToDo(v, "keepRef") => refSample'[s].n \in Good(v)'
    BY <1>2 DEF NotOlder
  <2>1. /\ \A u \in Thread : Filling(u) /\ At(u) = s => work[u].n \in Good(v)
        /\ Message(v).kind = "ref" /\ ~ToDo(v, "keepRef") => refSample[s].n \in Good(v)
    BY DEF ReportInv, NotOlder
  <2>2. \A u \in Thread : Filling(u)' /\ At(u)' = s => work'[u].n \in Good(v)'
    BY <1>1, <1>4, <2>1
  <2>3. Message(v).kind = "ref" /\ ~ToDo(v, "keepRef") => refSample'[s].n \in Good(v)'
    BY <1>4, <2>1
  <2>4. QED  BY <2>2, <2>3
<1>7. PartsGood(v)'
  BY <1>2, <1>4 DEF PartsGood, ReportInv
<1>8. AloneSince(v)'
  BY <1>1, <1>2 DEF AloneSince, ReportInv
<1>9. PartsNow(v)'
  BY <1>2 DEF PartsNow, ReportInv, Value
<1>10. Calculated(v)'
  BY <1>2 DEF Calculated, ReportInv
<1>11. QED  BY <1>5, <1>6, <1>7, <1>8, <1>9, <1>10 DEF ReportInv

\* What t reads now is what any reader would get.
LEMMA UseReads ==
  ASSUME Sections, Values, TellType, NEW t \in Thread, Use(t)
  PROVE  LET part == Head(todo[t]).part
         IN /\ part \in {"ref", "last", "abs", "spectrum", "conc"}
            /\ Value(part, At(t)) \in Nat
            /\ got' \in [Thread -> Results]
            /\ got'[t][part] = Value(part, At(t)) /\ got'[t].own = got[t].own
            /\ \A other \in {"ref", "last", "abs", "spectrum", "conc"} :
                 other # part => got'[t][other] = got[t][other]
            /\ \A u \in Thread \ {t} : got'[u] = got[u]
<1> DEFINE part == Head(todo[t]).part
           n == Value(part, At(t))
<1>1. todo[t] # <<>> /\ Head(todo[t]).op = "use"
  BY DEF Use, Step, Idle
<1>2. part \in {"ref", "last", "abs", "spectrum", "conc"} /\ At(t) \in SpecIndex
  BY <1>1, Next_t DEF AnyStep
<1>3. work[t] = sample[At(t)]
  BY <1>1 DEF Values, Loaded, In
<1>4. sample[At(t)].n \in Nat /\ refSample[At(t)].n \in Nat
  BY <1>2 DEF Values, SampleType, NoSample, Recording
<1>5. n \in Nat
  BY <1>2, <1>4 DEF Value
<1>6. got' = [got EXCEPT ![t][part] = n]
  <2>1. n = CASE part = "ref" -> refSample[At(t)].n
              [] part = "last" -> work[t].n
              [] OTHER -> IF refSample[At(t)].n = 0 THEN 0 ELSE work[t].n
    BY <1>3 DEF Value
  <2>2. QED  BY <2>1 DEF Use
<1> HIDE DEF part, n
<1>7. got'[t] = [got[t] EXCEPT ![part] = n] /\ \A u \in Thread \ {t} : got'[u] = got[u]
  BY <1>6 DEF TellType
<1>8. /\ got'[t] \in Results /\ got'[t][part] = n /\ got'[t].own = got[t].own
      /\ \A other \in {"ref", "last", "abs", "spectrum", "conc"} :
           other # part => got'[t][other] = got[t][other]
  <2> DEFINE old == got[t]
             now == got'[t]
  <2>1. now = [old EXCEPT ![part] = n] /\ old \in Results
    BY <1>7 DEF TellType
  <2> HIDE DEF old, now
  <2>2. /\ now \in Results /\ now[part] = n /\ now.own = old.own
        /\ \A other \in {"ref", "last", "abs", "spectrum", "conc"} :
             other # part => now[other] = old[other]
    <3>1. CASE part = "ref"
      BY <1>5, <2>1, <3>1 DEF Results
    <3>2. CASE part = "last"
      BY <1>5, <2>1, <3>2 DEF Results
    <3>3. CASE part = "abs"
      BY <1>5, <2>1, <3>3 DEF Results
    <3>4. CASE part = "spectrum"
      BY <1>5, <2>1, <3>4 DEF Results
    <3>5. CASE part = "conc"
      BY <1>5, <2>1, <3>5 DEF Results
    <3>6. QED  BY <1>2, <3>1, <3>2, <3>3, <3>4, <3>5
  <2>3. QED  BY <2>2 DEF old, now
<1>9. got' \in [Thread -> Results]
  BY <1>6, <1>7, <1>8 DEF TellType
<1>10. QED  BY <1>2, <1>5, <1>7, <1>8, <1>9 DEF part, n

\* A recording is the newest.
LEMMA ClearRecords ==
  ASSUME Sections, Values, TellType, NEW t \in Thread, ClearSample(t)
  PROVE  /\ got' \in [Thread -> Results] /\ got'[t].own = recorded + 1
         /\ recorded \in Nat /\ recorded' = recorded + 1 /\ work'[t].n = recorded + 1
         /\ \A part \in {"ref", "last", "abs", "spectrum", "conc"} : got'[t][part] = got[t][part]
         /\ \A u \in Thread \ {t} : got'[u] = got[u] /\ work'[u] = work[u]
         /\ disturbed' \in [Thread -> BOOLEAN] /\ disturbed'[t] = disturbed[t]
         /\ \A u \in Thread : disturbed[u] => disturbed'[u]
         /\ \A u \in Thread \ {t} : \A i \in DOMAIN todo[u] :
              todo[u] # <<>> /\ todo[u][i].spec = At(t) => disturbed'[u]
         /\ At(t) \in SpecIndex /\ sample'[At(t)] = NoSample
         /\ \A s \in SpecIndex \ {At(t)} : sample'[s] = sample[s]
<1>1. /\ recorded' = recorded + 1 /\ got' = [got EXCEPT ![t].own = recorded + 1]
      /\ recorded \in Nat /\ todo[t] # <<>>
      /\ work' = [work EXCEPT ![t] = [n |-> recorded + 1, scans |-> 0, of |-> Head(todo[t]).scans]]
      /\ sample' = [sample EXCEPT ![At(t)] = NoSample]
  BY DEF ClearSample, Values, SampleType, Step, Idle
<1>2. /\ got'[t] = [got[t] EXCEPT !.own = recorded + 1] /\ got[t] \in Results
      /\ \A u \in Thread \ {t} : got'[u] = got[u]
  BY <1>1 DEF TellType
<1>3. /\ got'[t] \in Results /\ got'[t].own = recorded + 1
      /\ \A part \in {"ref", "last", "abs", "spectrum", "conc"} : got'[t][part] = got[t][part]
  BY <1>1, <1>2 DEF Results
<1>4. got' \in [Thread -> Results]
  BY <1>1, <1>2, <1>3 DEF TellType
<1>5. disturbed' = [u \in Thread |-> disturbed[u] \/ (u # t /\ ~Idle(u)
                                       /\ \E i \in DOMAIN todo[u] : todo[u][i].spec = At(t))]
  BY DEF ClearSample, Disturb
<1>6. /\ disturbed' \in [Thread -> BOOLEAN] /\ disturbed'[t] = disturbed[t]
      /\ \A u \in Thread : disturbed[u] => disturbed'[u]
      /\ \A u \in Thread \ {t} : \A i \in DOMAIN todo[u] :
           todo[u] # <<>> /\ todo[u][i].spec = At(t) => disturbed'[u]
  <2>1. disturbed \in [Thread -> BOOLEAN]
    BY DEF TellType
  <2>2. disturbed' \in [Thread -> BOOLEAN] /\ disturbed'[t] = disturbed[t]
    BY <1>5, <2>1
  <2>3. \A u \in Thread : disturbed[u] => disturbed'[u]
    BY <1>5, <2>1
  <2>4. ASSUME NEW u \in Thread \ {t}, NEW i \in DOMAIN todo[u], todo[u] # <<>>,
               todo[u][i].spec = At(t)
        PROVE  disturbed'[u]
    BY <1>5, <2>4 DEF Idle
  <2>5. QED  BY <2>2, <2>3, <2>4
<1>7. At(t) \in SpecIndex
  BY <1>1, Next_t
<1>8. /\ work'[t].n = recorded + 1 /\ \A u \in Thread \ {t} : work'[u] = work[u]
      /\ sample'[At(t)] = NoSample /\ \A s \in SpecIndex \ {At(t)} : sample'[s] = sample[s]
  BY <1>1, <1>7 DEF Values, SampleType
<1>9. QED  BY <1>1, <1>2, <1>3, <1>4, <1>6, <1>7, <1>8

LEMMA TellTypeStep ==
  ASSUME Sections, Values, TellType, NEW t \in Thread, Begin(t) \/ Work(t)
  PROVE  TellType'
<1>0. recorded \in Nat /\ Nothing \in Results /\ Nothing.own = 0 /\ SampleType
  BY DEF Values, SampleType, Nothing, Results
<1>1. CASE Begin(t)
  <2>1. /\ got' = [got EXCEPT ![t] = Nothing] /\ sent' = [sent EXCEPT ![t] = NoMessage]
        /\ disturbed' = [disturbed EXCEPT ![t] = FALSE] /\ UNCHANGED <<recorded, lastCalc>>
    BY <1>1 DEF Begin, samples
  <2>2. \A u \in Thread : got'[u] = (IF u = t THEN Nothing ELSE got[u])
    BY <2>1 DEF TellType
  <2>3. got' \in [Thread -> Results] /\ \A u \in Thread : got'[u].own <= recorded
    BY <1>0, <2>1, <2>2 DEF TellType
  <2>4. sent' \in [Thread -> AnyMessage] /\ disturbed' \in [Thread -> BOOLEAN]
    BY <2>1 DEF TellType, AnyMessage
  <2>5. QED  BY <2>1, <2>3, <2>4 DEF TellType
<1>2. CASE Lock(t) \/ Unlock(t) \/ FreeSample(t) \/ Scan(t) \/ StoreSample(t) \/ KeepSample(t)
           \/ Load(t)
  <2>1. UNCHANGED <<got, sent, disturbed, recorded, lastCalc>>
    BY <1>2 DEF Lock, Unlock, FreeSample, Scan, StoreSample, KeepSample, Load, samples, history
  <2>2. QED  BY <2>1 DEF TellType
<1>3. CASE ClearSample(t)
  <2>1. UNCHANGED <<sent, lastCalc>>
    BY <1>3 DEF ClearSample
  <2>2. /\ got' \in [Thread -> Results] /\ got'[t].own = recorded + 1 /\ recorded' = recorded + 1
        /\ \A u \in Thread \ {t} : got'[u] = got[u]
        /\ disturbed' \in [Thread -> BOOLEAN]
    BY <1>3, ClearRecords
  <2>3. \A u \in Thread : got'[u].own <= recorded + 1
    BY <1>0, <2>2 DEF TellType, Results
  <2>4. QED  BY <2>1, <2>2, <2>3 DEF TellType
<1>4. CASE Use(t)
  <2>1. UNCHANGED <<sent, lastCalc, recorded, disturbed>>
    BY <1>4 DEF Use, samples
  <2>2. /\ got' \in [Thread -> Results] /\ got'[t].own = got[t].own
        /\ \A u \in Thread \ {t} : got'[u] = got[u]
    BY <1>4, UseReads
  <2>3. \A u \in Thread : got'[u].own <= recorded
    BY <2>2 DEF TellType
  <2>4. QED  BY <2>1, <2>2, <2>3 DEF TellType
<1>5. CASE CalculatePH(t)
  <2>1. /\ UNCHANGED <<got, sent, recorded>> /\ lastCalc' = [spec |-> At(t), n |-> got[t].abs]
        /\ disturbed' = [u \in Thread |-> disturbed[u] \/ (u # t /\ ~Idle(u))]
    BY <1>5 DEF CalculatePH, Disturb
  <2>2. At(t) \in Nat /\ got[t].abs \in Nat
    <3>1. At(t) \in SpecIndex
      BY <1>5, Next_t DEF CalculatePH, Step, Idle
    <3>2. QED  BY <3>1, SpecAssumption DEF TellType, Results
  <2>3. disturbed' \in [Thread -> BOOLEAN]
    BY <2>1 DEF TellType
  <2>4. QED  BY <2>1, <2>2, <2>3 DEF TellType
<1>6. CASE Send(t)
  <2>1. UNCHANGED <<got, disturbed, recorded, lastCalc>>
    BY <1>6 DEF Send, samples, history
  <2>2. /\ At(t) \in Nat /\ Head(todo[t]).kind \in {"ref", "sample", "pH", "pHRow", "row"}
    <3>1. /\ At(t) \in SpecIndex /\ Head(todo[t]) \in AnyStep /\ Head(todo[t]).op = "send"
      BY <1>6, Next_t DEF Send, Step, Idle
    <3>2. At(t) \in Nat
      BY <3>1, SpecAssumption
    <3>3. QED  BY <3>1, <3>2 DEF AnyStep
  <2> DEFINE kind == Head(todo[t]).kind
             parts == [got[t] EXCEPT !.pH = lastCalc.n]
             message == [kind |-> kind, spec |-> IF kind \in {"pH", "pHRow"} THEN lastCalc.spec ELSE At(t),
                         label |-> At(t), parts |-> parts]
  <2>3. parts \in Results /\ lastCalc.spec \in Nat
    BY DEF TellType, Results
  <2>4. message \in AnyMessage
    BY <2>2, <2>3 DEF AnyMessage
  <2>5. sent' = [sent EXCEPT ![t] = message] \/ sent' = [sent EXCEPT ![t] = NoMessage]
    BY <1>6 DEF Send
  <2> HIDE DEF message
  <2>6. sent' \in [Thread -> AnyMessage]
    <3>1. NoMessage \in AnyMessage
      BY DEF AnyMessage
    <3>2. QED  BY <2>4, <2>5, <3>1 DEF TellType
  <2>7. QED  BY <2>1, <2>6 DEF TellType
<1>7. QED  BY <1>1, <1>2, <1>3, <1>4, <1>5, <1>6 DEF Work


LEMMA TheMessage ==
  ASSUME Sections, NEW t \in Thread, Telling(t)
  PROVE  /\ Len(todo[t]) \in DOMAIN todo[t] /\ todo[t] # <<>>
         /\ Message(t) \in AnyStep /\ Message(t).op = "send" /\ Message(t).spec \in SpecIndex
         /\ Message(t).kind \in {"ref", "sample", "pH", "pHRow", "row"}
<1>1. todo[t] \in Seq(AnyStep) /\ todo[t] # <<>> /\ Message(t).op = "send"
  BY DEF Sections, Telling, Reporting, Message
<1>2. Len(todo[t]) \in 1..Len(todo[t]) /\ DOMAIN todo[t] = 1..Len(todo[t])
  BY <1>1, EmptySeq
<1>3. Message(t) \in AnyStep
  BY <1>1, <1>2 DEF Message
<1>4. QED  BY <1>1, <1>2, <1>3 DEF AnyStep

LEMMA GoodGrows ==
  ASSUME TellType, NEW t \in Thread, got'[t].own = got[t].own, disturbed[t] => disturbed'[t],
         disturbed'[t] \in BOOLEAN, recorded \in Nat, recorded' \in Nat, recorded <= recorded'
  PROVE  \A n : n \in Good(t) => n \in Good(t)'
<1>1. disturbed[t] \in BOOLEAN /\ got[t].own <= recorded /\ got[t].own \in Nat
  BY DEF TellType, Results
<1>2. CASE disturbed[t]
  BY <1>1, <1>2 DEF Good
<1>3. CASE ~disturbed[t] /\ disturbed'[t]
  BY <1>1, <1>3 DEF Good
<1>4. CASE ~disturbed'[t]
  BY <1>4 DEF Good
<1>5. QED  BY <1>2, <1>3, <1>4

\* A step of t that neither records nor begins to.
LEMMA QuietTells ==
  ASSUME Sections, SampleType, TellType,
         NEW t \in Thread, NEW rest, todo' = [todo EXCEPT ![t] = rest],
         rest = <<>> \/ Head(rest).op \notin Changing,
         NEW v \in Thread \ {t}, ReportInv(v), Telling(v),
         UNCHANGED <<sample, refSample, recorded, lastCalc>>,
         got'[v] = got[v], disturbed'[v] = disturbed[v],
         \A u \in Thread \ {t} : work'[u] = work[u]
  PROVE  ReportInv(v)'
<1> DEFINE s == Message(v).spec
<1>1. ~In(t, Changing)' /\ ~Filling(t)'
  <2>1. In(t, Changing)' <=> rest # <<>> /\ Head(rest).op \in Changing
    BY OthersStay
  <2>2. Filling(t)' => In(t, Changing)'
    BY DEF Filling, In, Changing
  <2>3. QED  BY <2>1, <2>2
<1>2. got[v].own # 0 => sample'[s].n \in Good(v)'
  BY DEF ReportInv, NotOlder, Good
<1>3. /\ disturbed'[v] \in BOOLEAN /\ recorded' \in Nat /\ recorded <= recorded'
      /\ disturbed[v] => disturbed'[v]
  BY DEF TellType, SampleType
<1> HIDE DEF s
<1>4. s = Message(v).spec
  BY DEF s
<1>5. QED  BY <1>1, <1>2, <1>3, <1>4, OtherTells

LEMMA OthersTell ==
  ASSUME OnlyMeasures, Sections, Values, TellType, NEW t \in Thread, Begin(t) \/ Work(t),
         NEW v \in Thread \ {t}, ReportInv(v)
  PROVE  ReportInv(v)'
<1>0. SampleType /\ recorded \in Nat /\ disturbed[v] \in BOOLEAN
  BY DEF Values, SampleType, TellType
<1>1. PICK rest : /\ todo' = [todo EXCEPT ![t] = rest]
                  /\ Begin(t) \/ rest = Tail(todo[t]) \/ Scan(t)
  <2>1. CASE Begin(t)
    BY <2>1 DEF Begin
  <2>2. CASE Scan(t)
    <3>1. todo = [todo EXCEPT ![t] = todo[t]]
      BY DEF Sections
    <3>2. QED  BY <2>2, <3>1 DEF Scan, Scanned, ScanFails, Continue
  <2>3. CASE Work(t) /\ ~Scan(t)
    BY <2>3 DEF Work, Lock, Unlock, FreeSample, ClearSample, StoreSample, KeepSample, Load, Use,
                CalculatePH, Send, Continue
  <2>4. QED  BY <2>1, <2>2, <2>3
<1>2. CASE ~Telling(v)
  <2>1. todo'[v] = todo[v]
    BY <1>1, OthersStay
  <2>2. QED  BY <1>2, <2>1 DEF ReportInv, Telling
<1> SUFFICES ASSUME Telling(v)
             PROVE  ReportInv(v)'
  BY <1>2
<1> DEFINE s == Message(v).spec
<1>3. s \in SpecIndex /\ todo[v] # <<>> /\ Len(todo[v]) \in DOMAIN todo[v]
  BY TheMessage
<1>4. s = Message(v).spec
  OBVIOUS
<1>5. /\ got[v].own # 0 =>
           /\ sample[s].n \in Good(v)
           /\ \A u \in Thread : Filling(u) /\ At(u) = s => work[u].n \in Good(v)
      /\ ~disturbed[v] /\ (\E part \in Parts(Message(v).kind) : ~ToRead(v, part)) =>
           ~(In(t, Changing) /\ At(t) = s)
  BY DEF ReportInv, NotOlder, AloneSince
<1> HIDE DEF s
<1>6. CASE Begin(t)
  <2>1. PICK r \in Menu[t] : todo' = [todo EXCEPT ![t] = Steps(r)]
    BY <1>6 DEF Begin
  <2> DEFINE steps == Steps(r)
  <2>2. Complete(steps)
    BY <2>1, StepsComplete DEF OnlyMeasures
  <2>3. todo' = [todo EXCEPT ![t] = steps]
    BY <2>1
  <2> HIDE DEF steps
  <2>4. steps = <<>> \/ Head(steps).op \notin Changing
    BY <2>2, EmptySeq DEF Complete, Proper, Chained, Outside, Changing
  <2>5. /\ UNCHANGED <<sample, refSample, recorded, lastCalc, work>>
        /\ got' = [got EXCEPT ![t] = Nothing] /\ disturbed' = [disturbed EXCEPT ![t] = FALSE]
    BY <1>6 DEF Begin, samples
  <2>6. got'[v] = got[v] /\ disturbed'[v] = disturbed[v]
    BY <2>5 DEF TellType
  <2>7. QED  BY <1>0, <2>3, <2>4, <2>5, <2>6, QuietTells
<1>7. ASSUME Work(t), ~Scan(t)
      PROVE  /\ rest = Tail(todo[t]) /\ todo[t] # <<>>
             /\ rest # <<>> => Follows(Head(todo[t]), Head(rest))
             /\ At(t) = Head(todo[t]).spec /\ At(t) \in SpecIndex /\ At(t)' = Head(rest).spec
             /\ \A ops : In(t, ops)' <=> rest # <<>> /\ Head(rest).op \in ops
             /\ Filling(t)' <=> In(t, {"scan", "store"})'
  <2>1. ~Begin(t) /\ todo[t] # <<>>
    BY <1>7 DEF Begin, Work, Lock, Unlock, FreeSample, ClearSample, StoreSample, KeepSample, Load, Use,
                CalculatePH, Send, Step, Idle
  <2>2. QED  BY <1>1, <1>7, <2>1, Next_t, OthersStay DEF At, Filling
<1>8. CASE Lock(t) \/ Unlock(t) \/ FreeSample(t) \/ Load(t) \/ Use(t) \/ Send(t)
  <2>1. Work(t) /\ ~Scan(t) /\ Head(todo[t]).op \in {"lock", "unlock", "free", "load", "use", "send"}
    BY <1>8 DEF Work, Scan, Lock, Unlock, FreeSample, Load, Use, Send, Step
  <2>2. rest = <<>> \/ Head(rest).op \notin Changing
    BY <1>7, <2>1 DEF Follows, Inner, Ends, Outside, Changing
  <2>3. UNCHANGED <<sample, refSample, recorded, lastCalc, disturbed>>
    BY <1>8 DEF Lock, Unlock, FreeSample, Load, Use, Send, samples, history
  <2>4. got'[v] = got[v]
    <3>1. CASE Use(t)
      BY <3>1, UseReads
    <3>2. CASE ~Use(t)
      BY <1>8, <3>2 DEF Lock, Unlock, FreeSample, Load, Send
    <3>3. QED  BY <3>1, <3>2
  <2>5. \A u \in Thread \ {t} : work'[u] = work[u]
    BY <1>0, <1>8 DEF Lock, Unlock, FreeSample, Load, Use, Send, SampleType
  <2>6. QED  BY <1>0, <1>1, <2>2, <2>3, <2>4, <2>5, QuietTells
<1>9. CASE ClearSample(t)
  <2>1. Head(todo[t]).op = "clear" /\ Work(t) /\ ~Scan(t) /\ UNCHANGED <<refSample, lastCalc>>
    BY <1>9 DEF ClearSample, Step, Work, Scan
  <2>2. rest # <<>> => Head(rest).op = "scan" /\ Head(rest).spec = At(t)
    BY <1>7, <2>1 DEF Follows, Inner, Ends
  <2>3. /\ recorded' = recorded + 1 /\ got'[v] = got[v] /\ work'[t].n = recorded + 1
        /\ \A u \in Thread \ {t} : work'[u] = work[u]
        /\ disturbed'[v] \in BOOLEAN /\ (disturbed[v] => disturbed'[v])
        /\ s = At(t) => disturbed'[v]
        /\ sample'[At(t)] = NoSample /\ (s # At(t) => sample'[s] = sample[s])
    <3>1. /\ recorded' = recorded + 1 /\ got'[v] = got[v] /\ work'[t].n = recorded + 1
          /\ \A u \in Thread \ {t} : work'[u] = work[u]
          /\ disturbed' \in [Thread -> BOOLEAN] /\ (disturbed[v] => disturbed'[v])
          /\ \A i \in DOMAIN todo[v] : todo[v][i].spec = At(t) => disturbed'[v]
          /\ sample'[At(t)] = NoSample /\ \A s2 \in SpecIndex \ {At(t)} : sample'[s2] = sample[s2]
      BY <1>3, <1>9, ClearRecords
    <3>2. s = At(t) => disturbed'[v]
      BY <1>3, <1>4, <3>1 DEF Message
    <3>3. QED  BY <1>3, <3>1, <3>2
  <2>4. /\ \A n : n \in Good(v) => n \in Good(v)'
        /\ got'[v].own = got[v].own /\ got[v].own <= recorded /\ got[v].own \in Nat
    BY <1>0, <2>3, GoodGrows DEF TellType, Results
  <2>5. s = At(t) => recorded + 1 \in Good(v)' /\ 0 \in Good(v)'
    BY <1>0, <2>3, <2>4 DEF Good
  <2>6. got[v].own # 0 => /\ sample'[s].n \in Good(v)'
                          /\ Filling(t)' /\ At(t)' = s => work'[t].n \in Good(v)'
                          /\ refSample'[s].n \in Good(v)' \cup {refSample[s].n}
    <3>1. Filling(t)' => At(t)' = At(t)
      BY <1>7, <2>1, <2>2
    <3>2. NoSample.n = 0
      BY DEF NoSample
    <3>3. QED  BY <1>5, <2>1, <2>3, <2>4, <2>5, <3>1, <3>2
  <2>7. ~disturbed'[v] => /\ ~(In(t, Changing)' /\ At(t)' = s)
                          /\ sample'[s] = sample[s] /\ refSample'[s] = refSample[s]
    BY <1>7, <2>1, <2>2, <2>3
  <2>8. recorded' \in Nat /\ recorded <= recorded'
    BY <1>0, <2>3
  <2>9. QED  BY <1>0, <1>1, <1>4, <2>1, <2>3, <2>6, <2>7, <2>8, OtherTells
<1>10. CASE Scan(t)
  <2>1. /\ In(t, {"scan"}) /\ Filling(t) /\ In(t, Changing)
        /\ UNCHANGED <<sample, refSample, lastCalc, recorded, got, disturbed>>
    BY <1>10 DEF Scan, Step, Idle, In, Filling, Changing, history
  <2>2. /\ work'[t].n = work[t].n /\ \A u \in Thread \ {t} : work'[u] = work[u]
    <3>1. work[t] \in Recording
      BY <2>1 DEF Values, SampleType, Buffered
    <3>2. UNCHANGED work \/ work' = [work EXCEPT ![t].scans = @ + 1]
      BY <1>10 DEF Scan, Scanned, ScanFails
    <3>3. QED  BY <1>0, <3>1, <3>2 DEF SampleType, Recording
  <2>3. todo[t] # <<>> /\ Tail(todo[t]) # <<>> /\ Head(Tail(todo[t])).spec = At(t)
        /\ Head(Tail(todo[t])).op = "store" /\ Proper(Tail(todo[t]))
    BY <2>1, Next_t DEF In, Follows, Inner, Ends, At
  <2>4. Head(Tail(Tail(todo[t]))).spec = At(t)
    BY <2>3, Rest DEF Follows, Inner, Ends
  <2>5. At(t)' = At(t)
    <3>1. \/ todo' = todo
          \/ todo' = [todo EXCEPT ![t] = Tail(todo[t])]
          \/ todo' = [todo EXCEPT ![t] = Tail(Tail(todo[t]))]
      BY <1>10 DEF Scan, Scanned, ScanFails, Continue
    <3>2. todo'[t] = todo[t] \/ todo'[t] = Tail(todo[t]) \/ todo'[t] = Tail(Tail(todo[t]))
      BY <3>1 DEF Sections
    <3>3. QED  BY <2>3, <2>4, <3>2 DEF At
  <2>6. got[v].own # 0 => /\ sample'[s].n \in Good(v)'
                          /\ Filling(t)' /\ At(t)' = s => work'[t].n \in Good(v)'
                          /\ refSample'[s].n \in Good(v)' \cup {refSample[s].n}
    BY <1>5, <2>1, <2>2, <2>5 DEF Good
  <2>7. ~disturbed'[v] /\ (\E part \in Parts(Message(v).kind) : ~ToRead(v, part)) =>
          ~(In(t, Changing)' /\ At(t)' = s)
    BY <1>5, <2>1, <2>5
  <2>8. recorded <= recorded'
    BY <1>0, <2>1
  <2>9. QED  BY <1>0, <1>1, <1>4, <2>1, <2>2, <2>6, <2>7, <2>8, OtherTells
<1>11. CASE StoreSample(t)
  <2>1. /\ In(t, {"store"}) /\ Filling(t) /\ In(t, Changing) /\ Work(t) /\ ~Scan(t)
        /\ UNCHANGED <<refSample, lastCalc, recorded, got, disturbed, work>>
        /\ sample' = [sample EXCEPT ![At(t)] = work[t]]
    BY <1>11 DEF StoreSample, Step, Idle, In, Filling, Changing, history, Work, Scan
  <2>2. rest # <<>> => Head(rest).spec = At(t) /\ Head(rest).op \notin {"scan", "store"}
    BY <1>7, <2>1 DEF In, Follows, Inner, Ends
  <2>3. ~Filling(t)' /\ (In(t, Changing)' => At(t)' = At(t))
    BY <1>7, <2>1, <2>2
  <2>4. sample'[At(t)] = work[t] /\ (s # At(t) => sample'[s] = sample[s])
    BY <1>0, <1>3, <1>7, <2>1 DEF SampleType
  <2>5. got[v].own # 0 => sample'[s].n \in Good(v)'
    <3>1. Good(v)' = Good(v)
      BY <2>1 DEF Good
    <3>2. CASE s = At(t)
      BY <1>5, <2>1, <2>4, <3>1, <3>2
    <3>3. CASE s # At(t)
      BY <1>5, <2>1, <2>4, <3>1, <3>3
    <3>4. QED  BY <3>2, <3>3
  <2>6. ~disturbed'[v] /\ (\E part \in Parts(Message(v).kind) : ~ToRead(v, part)) =>
          ~(In(t, Changing)' /\ At(t)' = s) /\ sample'[s] = sample[s]
    BY <1>5, <2>1, <2>3, <2>4
  <2>7. recorded <= recorded'
    BY <1>0, <2>1
  <2>8. QED  BY <1>0, <1>1, <1>4, <2>1, <2>3, <2>5, <2>6, <2>7, OtherTells
<1>12. CASE KeepSample(t)
  <2>1. /\ In(t, {"keepRef", "keepDark"}) /\ In(t, Changing) /\ Work(t) /\ ~Scan(t)
        /\ UNCHANGED <<sample, lastCalc, recorded, got, disturbed, work>>
        /\ refSample' = refSample \/ refSample' = [refSample EXCEPT ![At(t)] = sample[At(t)]]
    BY <1>12 DEF KeepSample, Step, Idle, In, Changing, history, Work, Scan
  <2>2. rest # <<>> => Head(rest).op = "unlock"
    BY <1>7, <2>1 DEF In, Follows, Inner, Ends
  <2>3. ~Filling(t)' /\ ~In(t, Changing)'
    BY <1>7, <2>1, <2>2 DEF Changing
  <2>4. /\ s # At(t) => refSample'[s] = refSample[s]
        /\ refSample'[s].n \in {refSample[s].n, sample[s].n}
    BY <1>0, <1>3, <1>7, <2>1 DEF SampleType
  <2>5. got[v].own # 0 => /\ sample'[s].n \in Good(v)'
                          /\ refSample'[s].n \in Good(v)' \cup {refSample[s].n}
    BY <1>5, <2>1, <2>4 DEF Good
  <2>6. ~disturbed'[v] /\ (\E part \in Parts(Message(v).kind) : ~ToRead(v, part)) =>
          refSample'[s] = refSample[s]
    BY <1>5, <2>1, <2>4
  <2>7. recorded <= recorded'
    BY <1>0, <2>1
  <2>8. QED  BY <1>0, <1>1, <1>4, <2>1, <2>3, <2>5, <2>6, <2>7, OtherTells
<1>13. CASE CalculatePH(t)
  <2>1. /\ Head(todo[t]).op = "calculate" /\ Work(t) /\ ~Scan(t)
        /\ UNCHANGED <<sample, refSample, recorded, got, work>>
        /\ disturbed' = [u \in Thread |-> disturbed[u] \/ (u # t /\ ~Idle(u))]
    BY <1>13 DEF CalculatePH, Step, Work, Scan, Disturb
  <2>2. disturbed'[v]
    BY <1>3, <2>1 DEF Idle
  <2>3. ~Filling(t)'
    <3>1. rest # <<>> => Head(rest).op \in Outside
      BY <1>7, <2>1 DEF Follows, Inner, Ends
    <3>2. QED  BY <1>7, <2>1, <3>1 DEF Outside
  <2>4. recorded <= recorded' /\ recorded' \in Nat /\ disturbed'[v] \in BOOLEAN
    BY <1>0, <2>1, <2>2
  <2>5. \A n : n \in Good(v) => n \in Good(v)'
    BY <1>0, <2>1, <2>2, <2>4, GoodGrows
  <2>6. got[v].own # 0 => sample'[s].n \in Good(v)'
    BY <1>5, <2>1, <2>5
  <2>7. QED  BY <1>0, <1>1, <1>4, <2>1, <2>2, <2>3, <2>4, <2>6, OtherTells
<1>14. QED  BY <1>6, <1>8, <1>9, <1>10, <1>11, <1>12, <1>13 DEF Work

\* What is left to do after the next step.
LEMMA Progress ==
  ASSUME Sections, NEW t \in Thread, Planned(todo[t]), todo[t] # <<>>,
         NEW rest, rest = Tail(todo[t]), todo' = [todo EXCEPT ![t] = rest]
  PROVE  LET next == Head(todo[t])
         IN /\ todo'[t] = rest /\ Planned(rest)
            /\ \A op : ToDo(t, op) <=> next.op = op \/ ToDo(t, op)'
            /\ \A part : ToRead(t, part)
                           <=> (next.op = "use" /\ next.part = part) \/ ToRead(t, part)'
            /\ next.op = "send" => rest = <<>>
            /\ Telling(t)' =>
                 /\ Telling(t) /\ Message(t)' = Message(t) /\ At(t) = Message(t).spec
                 /\ next.op \in Taking => \A part \in Parts(Message(t).kind) : ToRead(t, part)'
                 /\ next.op = "clear" /\ Message(t).kind = "ref" => ToDo(t, "keepRef")'
                 /\ next.op = "use" /\ next.part = "abs" /\ Message(t).kind \in {"pH", "pHRow"} => ToDo(t, "calculate")'
<1> DEFINE steps == todo[t]
           next == Head(steps)
           msg == steps[Len(steps)]
<1>1. steps \in Seq(AnyStep) /\ Planned(steps) /\ steps # <<>> /\ rest = Tail(steps)
  BY DEF Sections
<1>2. todo'[t] = rest
  BY OthersStay
<1>3. /\ At(t) = next.spec /\ Message(t) = msg /\ (Telling(t) <=> Reporting(steps))
      /\ Message(t)' = rest[Len(rest)] /\ (Telling(t)' <=> Reporting(rest))
      /\ \A op : /\ ToDo(t, op) <=> Later(steps, 0, op)
                 /\ ToDo(t, op)' <=> Later(rest, 0, op)
      /\ \A part : /\ ToRead(t, part) <=> UsedLater(steps, 0, part)
                   /\ ToRead(t, part)' <=> UsedLater(rest, 0, part)
  BY <1>2 DEF At, Message, Telling, ToDo, ToRead
<1> HIDE DEF steps
<1>4. /\ Planned(rest)
      /\ \A op : Later(steps, 0, op) <=> next.op = op \/ Later(rest, 0, op)
      /\ \A part : UsedLater(steps, 0, part)
                     <=> (next.op = "use" /\ next.part = part) \/ UsedLater(rest, 0, part)
      /\ next.op = "send" => rest = <<>>
      /\ rest # <<>> => /\ Reporting(rest) <=> Reporting(steps)
                        /\ rest[Len(rest)] = msg
      /\ Reporting(steps) =>
           /\ next.spec = msg.spec
           /\ next.op \in Taking => \A part \in Parts(msg.kind) : UsedLater(rest, 0, part)
           /\ next.op = "clear" /\ msg.kind = "ref" => Later(rest, 0, "keepRef")
           /\ next.op = "use" /\ next.part = "abs" /\ msg.kind \in {"pH", "pHRow"} => Later(rest, 0, "calculate")
  BY <1>1, PlanTail
<1> HIDE DEF next, msg
<1>5. Reporting(rest) => rest # <<>>
  BY DEF Reporting
<1>6. /\ \A op : ToDo(t, op) <=> next.op = op \/ ToDo(t, op)'
      /\ \A part : ToRead(t, part) <=> (next.op = "use" /\ next.part = part) \/ ToRead(t, part)'
      /\ Telling(t)' =>
           /\ Telling(t) /\ Message(t)' = Message(t) /\ At(t) = Message(t).spec
           /\ next.op \in Taking => \A part \in Parts(Message(t).kind) : ToRead(t, part)'
           /\ next.op = "clear" /\ Message(t).kind = "ref" => ToDo(t, "keepRef")'
           /\ next.op = "use" /\ next.part = "abs" /\ Message(t).kind \in {"pH", "pHRow"} => ToDo(t, "calculate")'
  BY <1>3, <1>4, <1>5
<1>7. QED  BY <1>2, <1>4, <1>6 DEF steps, next

\* A step that takes part in no recording and reads nothing leaves all as it must be.
LEMMA OwnQuiet ==
  ASSUME Sections, TellType, NEW t \in Thread, Planned(todo[t]), todo[t] # <<>>,
         NEW rest, rest = Tail(todo[t]), todo' = [todo EXCEPT ![t] = rest], ReportInv(t),
         Head(todo[t]).op \in {"lock", "unlock", "free", "load", "calculate"},
         UNCHANGED <<sample, refSample, recorded, got>>, disturbed'[t] = disturbed[t],
         \A u \in Thread \ {t} : work'[u] = work[u],
         IF Head(todo[t]).op = "calculate" THEN lastCalc' = [spec |-> At(t), n |-> got[t].abs]
                                           ELSE lastCalc' = lastCalc
  PROVE  ReportInv(t)'
<1> SUFFICES ASSUME Telling(t)'
             PROVE  ReportInv(t)'
  BY DEF ReportInv
<1>1. /\ Telling(t) /\ Message(t)' = Message(t) /\ At(t) = Message(t).spec
      /\ \A part : ToRead(t, part)' <=> ToRead(t, part)
      /\ \A op \in {"clear", "keepRef"} : ToDo(t, op)' <=> ToDo(t, op)
      /\ Head(todo[t]).op # "calculate" => (ToDo(t, "calculate")' <=> ToDo(t, "calculate"))
  BY Progress
<1>2. Records(t) /\ NotOlder(t) /\ PartsGood(t) /\ AloneSince(t) /\ PartsNow(t) /\ Calculated(t)
  BY <1>1 DEF ReportInv
<1>3. Good(t)' = Good(t)
  BY DEF Good
<1>4. ~In(t, Changing)' /\ ~Filling(t)'
  <2>1. rest # <<>> => Follows(Head(todo[t]), Head(rest))
    BY Next_t
  <2>2. rest # <<>> => Head(rest).op \notin Changing
    BY <2>1 DEF Follows, Inner, Ends, Outside, Changing
  <2>3. In(t, Changing)' <=> rest # <<>> /\ Head(rest).op \in Changing
    BY OthersStay
  <2>4. Filling(t)' => In(t, Changing)'
    BY DEF Filling, In, Changing
  <2>5. QED  BY <2>2, <2>3, <2>4
<1>5. \A u \in Thread \ {t} : /\ Filling(u)' <=> Filling(u)
                              /\ At(u)' = At(u) /\ (In(u, Changing)' <=> In(u, Changing))
  BY OthersStay
<1>6. Records(t)'
  BY <1>1, <1>2 DEF Records
<1>7. NotOlder(t)'
  <2>1. got[t].own # 0 =>
          \A u \in Thread : Filling(u)' /\ At(u)' = At(t) => work'[u].n \in Good(t)
    BY <1>1, <1>2, <1>4, <1>5 DEF NotOlder
  <2>2. QED  BY <1>1, <1>2, <1>3, <2>1 DEF NotOlder
<1>8. PartsGood(t)'
  BY <1>1, <1>2, <1>3 DEF PartsGood
<1>9. AloneSince(t)'
  BY <1>1, <1>2, <1>4, <1>5 DEF AloneSince
<1>10. PartsNow(t)'
  BY <1>1, <1>2 DEF PartsNow, Value
<1>11. Calculated(t)'
  BY <1>1, <1>2 DEF Calculated
<1>12. QED  BY <1>6, <1>7, <1>8, <1>9, <1>10, <1>11 DEF ReportInv

\* While a recording is taken, nothing has been read.
LEMMA OwnTaking ==
  ASSUME NEW t \in Thread, Telling(t)', \A part \in Parts(Message(t).kind)' : ToRead(t, part)',
         Records(t)', NotOlder(t)', Calculated(t)'
  PROVE  ReportInv(t)'
<1>1. PartsGood(t)' /\ AloneSince(t)' /\ PartsNow(t)'
  BY DEF PartsGood, AloneSince, PartsNow
<1>2. QED  BY <1>1 DEF ReportInv

LEMMA OwnClear ==
  ASSUME Sections, Values, TellType, NEW t \in Thread, Planned(todo[t]), ReportInv(t), ClearSample(t)
  PROVE  ReportInv(t)'
<1> SUFFICES ASSUME Telling(t)'
             PROVE  ReportInv(t)'
  BY DEF ReportInv
<1> DEFINE rest == Tail(todo[t])
           s == At(t)
<1>1. /\ todo[t] # <<>> /\ Head(todo[t]).op = "clear" /\ todo' = [todo EXCEPT ![t] = rest]
      /\ UNCHANGED <<refSample, lastCalc>>
  BY DEF ClearSample, Step, Idle, Continue
<1>2. rest # <<>> => Head(rest).op = "scan" /\ Head(rest).spec = s
  BY <1>1, Next_t DEF Follows, Inner, Ends, At
<1> HIDE DEF rest
<1>3. rest = Tail(todo[t])
  BY DEF rest
<1>4. /\ Telling(t) /\ Message(t)' = Message(t) /\ s = Message(t).spec
      /\ \A part \in Parts(Message(t).kind) : ToRead(t, part)'
      /\ Message(t).kind = "ref" => ToDo(t, "keepRef")'
      /\ ToDo(t, "calculate")' <=> ToDo(t, "calculate")
  BY <1>1, <1>3, Progress DEF Taking
<1> HIDE DEF s
<1>5. /\ got'[t].own = recorded + 1 /\ recorded \in Nat /\ recorded' = recorded + 1
      /\ got'[t].abs = got[t].abs /\ work'[t].n = recorded + 1
      /\ disturbed'[t] = disturbed[t] /\ disturbed[t] \in BOOLEAN
      /\ sample'[s] = NoSample
  BY ClearRecords DEF s, TellType
<1>6. recorded + 1 \in Good(t)' /\ 0 \in Good(t)' /\ NoSample.n = 0
  <2>1. recorded + 1 \in (recorded + 1)..(recorded + 1)
    BY <1>5
  <2>2. QED  BY <1>5, <2>1 DEF Good, NoSample
<1>7. \A u \in Thread \ {t} : ~(Filling(u)' /\ At(u)' = s)
  <2>1. \A u \in Thread \ {t} : (Filling(u)' <=> Filling(u)) /\ At(u)' = At(u)
    BY <1>1, OthersStay
  <2>2. Inside(t) /\ At(t) \in SpecIndex
    BY <1>1, Next_t DEF Inside, Outside
  <2>3. \A u \in Thread : Filling(u) => Inside(u)
    BY DEF Filling, In, Inside, Outside
  <2>4. QED  BY <2>1, <2>2, <2>3, Alone DEF s
<1>8. Records(t)'
  BY <1>5 DEF Records
<1>9. NotOlder(t)'
  BY <1>4, <1>5, <1>6, <1>7 DEF NotOlder
<1>10. Calculated(t)'
  BY <1>1, <1>4, <1>5 DEF Calculated, ReportInv
<1>11. QED  BY <1>4, <1>8, <1>9, <1>10, OwnTaking

\* A recording that is scanned, stored and kept is the one that was begun.
LEMMA OwnRecording ==
  ASSUME Sections, Values, TellType, NEW t \in Thread, Planned(todo[t]), ReportInv(t),
         NEW rest, todo' = [todo EXCEPT ![t] = rest], Telling(t)',
         Telling(t), Message(t)' = Message(t), At(t) = Message(t).spec, At(t) \in SpecIndex,
         \A part \in Parts(Message(t).kind) : ToRead(t, part)',
         ToDo(t, "clear")' <=> ToDo(t, "clear"), ToDo(t, "calculate")' <=> ToDo(t, "calculate"),
         UNCHANGED <<recorded, got, disturbed, lastCalc>>, \A u \in Thread \ {t} : work'[u] = work[u],
         got[t].own # 0 =>
           /\ sample'[At(t)].n \in Good(t)
           /\ Filling(t)' => work'[t].n \in Good(t)
           /\ Message(t).kind = "ref" /\ ~ToDo(t, "keepRef")' => refSample'[At(t)].n \in Good(t)
  PROVE  ReportInv(t)'
<1>1. Records(t) /\ NotOlder(t) /\ Calculated(t)
  BY DEF ReportInv
<1>2. Good(t)' = Good(t)
  BY DEF Good
<1>3. \A u \in Thread \ {t} : (Filling(u)' <=> Filling(u)) /\ At(u)' = At(u)
  BY OthersStay
<1>4. Records(t)'
  BY <1>1 DEF Records
<1>5. NotOlder(t)'
  <2>1. got[t].own # 0 =>
          \A u \in Thread : Filling(u)' /\ At(u)' = At(t) => work'[u].n \in Good(t)
    BY <1>1, <1>3 DEF NotOlder
  <2>2. QED  BY <1>2, <2>1 DEF NotOlder
<1>6. Calculated(t)'
  BY <1>1 DEF Calculated
<1>7. QED  BY <1>4, <1>5, <1>6, OwnTaking

LEMMA OwnStore ==
  ASSUME Sections, Values, TellType, NEW t \in Thread, Planned(todo[t]), ReportInv(t),
         StoreSample(t) \/ KeepSample(t)
  PROVE  ReportInv(t)'
<1> SUFFICES ASSUME Telling(t)'
             PROVE  ReportInv(t)'
  BY DEF ReportInv
<1> DEFINE rest == Tail(todo[t])
<1>1. /\ todo[t] # <<>> /\ todo' = [todo EXCEPT ![t] = rest]
      /\ UNCHANGED <<recorded, got, disturbed, lastCalc, work>>
      /\ \/ /\ Head(todo[t]).op = "store" /\ sample' = [sample EXCEPT ![At(t)] = work[t]]
            /\ refSample' = refSample
         \/ /\ Head(todo[t]).op = "keepRef"
            /\ refSample' = [refSample EXCEPT ![At(t)] = sample[At(t)]] /\ sample' = sample
         \/ Head(todo[t]).op = "keepDark" /\ refSample' = refSample /\ sample' = sample
  BY DEF StoreSample, KeepSample, Step, Idle, Continue, history
<1>2. At(t) \in SpecIndex /\ rest # <<>> => Head(rest).op \notin {"scan", "store"}
  BY <1>1, Next_t DEF Follows, Inner, Ends, Outside
<1>3. At(t) \in SpecIndex
  BY <1>1, Next_t
<1> HIDE DEF rest
<1>4. rest = Tail(todo[t]) /\ ~Filling(t)'
  BY <1>1, <1>2, <1>3, OthersStay DEF rest
<1>5. /\ Telling(t) /\ Message(t)' = Message(t) /\ At(t) = Message(t).spec
      /\ \A part \in Parts(Message(t).kind) : ToRead(t, part)'
      /\ \A op \in {"clear", "calculate"} : ToDo(t, op)' <=> ToDo(t, op)
      /\ Head(todo[t]).op # "keepRef" => (ToDo(t, "keepRef")' <=> ToDo(t, "keepRef"))
  BY <1>1, <1>4, Progress DEF Taking
<1>6. got[t].own # 0 =>
        /\ sample[At(t)].n \in Good(t)
        /\ Filling(t) => work[t].n \in Good(t)
        /\ Message(t).kind = "ref" /\ ~ToDo(t, "keepRef") => refSample[At(t)].n \in Good(t)
  BY <1>5 DEF ReportInv, NotOlder
<1>7. got[t].own # 0 =>
        /\ sample'[At(t)].n \in Good(t)
        /\ Message(t).kind = "ref" /\ ~ToDo(t, "keepRef")' => refSample'[At(t)].n \in Good(t)
  <2>1. CASE Head(todo[t]).op = "store"
    <3>1. Filling(t)
      BY <1>1, <2>1 DEF Filling, In
    <3>2. sample'[At(t)] = work[t] /\ refSample' = refSample
      BY <1>1, <1>3, <2>1 DEF Values, SampleType
    <3>3. QED  BY <1>5, <1>6, <2>1, <3>1, <3>2
  <2>2. CASE Head(todo[t]).op = "keepRef"
    <3>1. sample' = sample /\ refSample'[At(t)] = sample[At(t)]
      BY <1>1, <1>3, <2>2 DEF Values, SampleType
    <3>2. QED  BY <1>6, <3>1
  <2>3. CASE Head(todo[t]).op = "keepDark"
    BY <1>1, <1>5, <1>6, <2>3
  <2>4. QED  BY <1>1, <2>1, <2>2, <2>3
<1>8. QED  BY <1>1, <1>3, <1>4, <1>5, <1>7, OwnRecording

LEMMA OwnScan ==
  ASSUME Sections, Values, TellType, NEW t \in Thread, Planned(todo[t]), ReportInv(t), Scan(t)
  PROVE  ReportInv(t)' /\ Planned(todo'[t])
<1> DEFINE steps == todo[t]
           rest == Tail(steps)
           last == Tail(rest)
<1>1. /\ todo[t] # <<>> /\ Head(todo[t]).op = "scan" /\ At(t) \in SpecIndex
      /\ UNCHANGED <<sample, refSample, recorded, got, disturbed, lastCalc>>
      /\ todo' = todo \/ todo' = [todo EXCEPT ![t] = rest] \/ todo' = [todo EXCEPT ![t] = last]
      /\ rest # <<>> /\ Head(rest).op = "store" /\ rest \in Seq(AnyStep)
  <2>1. todo[t] # <<>> /\ Head(todo[t]).op = "scan"
    BY DEF Scan, Step, Idle
  <2>2. rest # <<>> /\ Head(rest).op = "store" /\ At(t) \in SpecIndex /\ rest \in Seq(AnyStep)
    BY <2>1, Next_t DEF Follows, Inner, Ends
  <2>3. QED  BY <2>1, <2>2 DEF Scan, Scanned, ScanFails, Continue, history
<1>2. /\ work'[t].n = work[t].n /\ \A u \in Thread \ {t} : work'[u] = work[u]
  <2>1. Filling(t)
    BY <1>1 DEF Filling, In
  <2>2. work[t] \in Recording
    BY <2>1 DEF Values, SampleType, Buffered
  <2>3. UNCHANGED work \/ work' = [work EXCEPT ![t].scans = @ + 1]
    BY DEF Scan, Scanned, ScanFails
  <2>4. QED  BY <2>2, <2>3 DEF Values, SampleType, Recording
<1>3. steps \in Seq(AnyStep) /\ steps # <<>> /\ Planned(steps) /\ Head(steps).op = "scan"
      /\ rest = Tail(steps) /\ last = Tail(rest)
  BY <1>1 DEF Sections
<1>4. steps = todo[t]
  OBVIOUS
<1> HIDE DEF steps, rest, last
<1> DEFINE msg == steps[Len(steps)]
<1>5. /\ Planned(rest)
      /\ \A op \in {"clear", "calculate", "keepRef"} : Later(steps, 0, op) <=> Later(rest, 0, op)
      /\ \A part : UsedLater(steps, 0, part) <=> UsedLater(rest, 0, part)
      /\ Reporting(rest) <=> Reporting(steps)
      /\ rest[Len(rest)] = msg
      /\ Reporting(steps) =>
           /\ At(t) = msg.spec
           /\ \A part \in Parts(msg.kind) : UsedLater(rest, 0, part)
  BY <1>1, <1>3, <1>4, PlanTail DEF Taking, At
<1>6. /\ Planned(last)
      /\ \A op \in {"clear", "calculate", "keepRef"} : Later(rest, 0, op) <=> Later(last, 0, op)
      /\ \A part : UsedLater(rest, 0, part) <=> UsedLater(last, 0, part)
      /\ last # <<>> => (Reporting(last) <=> Reporting(rest)) /\ last[Len(last)] = rest[Len(rest)]
  BY <1>1, <1>3, <1>5, PlanTail
<1>7. todo'[t] \in {steps, rest, last}
  BY <1>1, <1>4, OthersStay DEF Sections
<1>8. Planned(todo'[t])
  BY <1>3, <1>5, <1>6, <1>7
<1>9. ASSUME Telling(t)'
      PROVE  ReportInv(t)'
  <2> DEFINE after == todo'[t]
  <2>1. /\ Reporting(steps) /\ after[Len(after)] = msg
        /\ \A op \in {"clear", "calculate", "keepRef"} : Later(steps, 0, op) <=> Later(after, 0, op)
        /\ \A part \in Parts(msg.kind) : UsedLater(after, 0, part)
    <3>1. after \in {steps, rest, last} /\ Reporting(after) /\ after # <<>>
      BY <1>7, <1>9 DEF Telling, Reporting
    <3> HIDE DEF after
    <3>2. CASE after = steps
      BY <1>5, <3>1, <3>2
    <3>3. CASE after = rest
      BY <1>5, <3>1, <3>3
    <3>4. CASE after = last
      BY <1>5, <1>6, <3>1, <3>4
    <3>5. QED  BY <3>1, <3>2, <3>3, <3>4
  <2>2. /\ Telling(t) /\ Message(t)' = Message(t) /\ Message(t) = msg
        /\ \A part : ToRead(t, part)' <=> UsedLater(after, 0, part)
        /\ \A op : (ToDo(t, op)' <=> Later(after, 0, op)) /\ (ToDo(t, op) <=> Later(steps, 0, op))
    BY <1>4, <2>1 DEF Telling, Message, ToRead, ToDo
  <2> HIDE DEF after, msg
  <2>3. At(t) = Message(t).spec
    BY <1>5, <2>1, <2>2
  <2>4. got[t].own # 0 =>
          /\ sample[At(t)].n \in Good(t) /\ work[t].n \in Good(t)
          /\ Message(t).kind = "ref" /\ ~ToDo(t, "keepRef") => refSample[At(t)].n \in Good(t)
    <3>1. Filling(t)
      BY <1>1 DEF Filling, In
    <3>2. QED  BY <2>2, <2>3, <3>1 DEF ReportInv, NotOlder
  <2>5. PICK left : todo' = [todo EXCEPT ![t] = left]
    <3>1. todo = [todo EXCEPT ![t] = todo[t]]
      BY DEF Sections
    <3>2. QED  BY <1>1, <3>1
  <2>6. QED  BY <1>1, <1>2, <1>9, <2>1, <2>2, <2>3, <2>4, <2>5, OwnRecording
<1>10. QED  BY <1>8, <1>9 DEF ReportInv

\* A part that is not read any more is not taken any more either.
LEMMA TakenIsRead ==
  ASSUME NEW steps \in Seq(AnyStep), Planned(steps), Reporting(steps),
         NEW op \in Taking, Later(steps, 0, op), NEW part \in Parts(steps[Len(steps)].kind)
  PROVE  UsedLater(steps, 0, part)
<1>1. PICK i \in (0 + 1)..Len(steps) : steps[i].op = op
  BY DEF Later
<1>2. UsedLater(steps, i, part)
  BY <1>1 DEF Planned
<1>3. \A j \in (i + 1)..Len(steps) : j \in (0 + 1)..Len(steps)
  BY <1>1
<1>4. QED  BY <1>2, <1>3 DEF UsedLater

LEMMA PartsAre ==
  ASSUME NEW kind \in {"ref", "sample", "pH", "pHRow", "row"}
  PROVE  /\ Parts(kind) \subseteq {"ref", "last", "abs", "spectrum", "conc"}
         /\ "ref" \in Parts(kind) => kind = "ref"
BY DEF Parts

LEMMA OwnUse ==
  ASSUME Sections, Values, TellType, NEW t \in Thread, Planned(todo[t]), ReportInv(t), Use(t)
  PROVE  ReportInv(t)'
<1> SUFFICES ASSUME Telling(t)'
             PROVE  ReportInv(t)'
  BY DEF ReportInv
<1> DEFINE rest == Tail(todo[t])
           read == Head(todo[t]).part
           kind == Message(t).kind
           s == At(t)
<1>1. /\ todo[t] # <<>> /\ Head(todo[t]).op = "use" /\ todo' = [todo EXCEPT ![t] = rest]
      /\ UNCHANGED <<sample, refSample, recorded, disturbed, lastCalc, work>>
  BY DEF Use, Step, Idle, Continue, samples
<1>2. rest # <<>> => Head(rest).op \in Outside
  BY <1>1, Next_t DEF Follows, Inner, Ends
<1>3. s \in SpecIndex
  BY <1>1, Next_t
<1>4. /\ read \in {"ref", "last", "abs", "spectrum", "conc"}
      /\ got'[t][read] = Value(read, s) /\ got'[t].own = got[t].own
      /\ \A other \in {"ref", "last", "abs", "spectrum", "conc"} :
           other # read => got'[t][other] = got[t][other]
  BY UseReads
<1> HIDE DEF rest
<1>5. rest = Tail(todo[t])
  BY DEF rest
<1>6. ~In(t, Changing)' /\ ~Filling(t)'
  <2>1. In(t, Changing)' <=> rest # <<>> /\ Head(rest).op \in Changing
    BY <1>1, OthersStay
  <2>2. Filling(t)' => In(t, Changing)'
    BY DEF Filling, In, Changing
  <2>3. QED  BY <1>2, <2>1, <2>2 DEF Outside, Changing
<1>7. /\ Telling(t) /\ Message(t)' = Message(t) /\ s = Message(t).spec
      /\ \A part : ToRead(t, part) <=> read = part \/ ToRead(t, part)'
      /\ \A op \in {"clear", "keepRef", "calculate"} : ToDo(t, op)' <=> ToDo(t, op)
      /\ read = "abs" /\ kind \in {"pH", "pHRow"} => ToDo(t, "calculate")'
  BY <1>1, <1>5, Progress
<1>8. /\ kind \in {"ref", "sample", "pH", "pHRow", "row"}
      /\ \A part \in Parts(kind) : part \in {"ref", "last", "abs", "spectrum", "conc"}
      /\ "ref" \in Parts(kind) => kind = "ref"
  BY <1>7, TheMessage, PartsAre
<1>9. \A part \in Parts(kind) : ~ToRead(t, part)' => ~ToDo(t, "keepRef")'
  <2> SUFFICES ASSUME NEW part \in Parts(kind), ToDo(t, "keepRef")'
               PROVE  ToRead(t, part)'
    OBVIOUS
  <2> DEFINE left == todo'[t]
  <2>1. left \in Seq(AnyStep) /\ Planned(left)
    <3>1. Tail(todo[t]) \in Seq(AnyStep)
      BY <1>1, Next_t
    <3>2. QED  BY <1>1, <1>5, <3>1, Progress
  <2>2. Reporting(left) /\ Later(left, 0, "keepRef") /\ part \in Parts(left[Len(left)].kind)
    BY <1>7 DEF Telling, ToDo, Message
  <2> HIDE DEF left
  <2>3. UsedLater(left, 0, part)
    BY <2>1, <2>2, TakenIsRead DEF Taking
  <2>4. QED  BY <2>3 DEF left, ToRead
<1>10. Records(t) /\ NotOlder(t) /\ PartsGood(t) /\ AloneSince(t) /\ PartsNow(t) /\ Calculated(t)
  BY <1>7 DEF ReportInv
<1>11. Good(t)' = Good(t)
  BY <1>1, <1>4 DEF Good
<1>12. \A u \in Thread \ {t} : /\ Filling(u)' <=> Filling(u)
                               /\ At(u)' = At(u) /\ (In(u, Changing)' <=> In(u, Changing))
  BY <1>1, OthersStay
<1>13. Records(t)'
  BY <1>4, <1>7, <1>10 DEF Records
<1> HIDE DEF read, kind, s
<1>14. NotOlder(t)'
  <2>1. got[t].own # 0 => \A u \in Thread : Filling(u)' /\ At(u)' = s => work'[u].n \in Good(t)
    BY <1>1, <1>6, <1>7, <1>10, <1>12 DEF NotOlder
  <2>2. QED  BY <1>1, <1>4, <1>7, <1>10, <1>11, <2>1 DEF NotOlder
<1>15. PartsGood(t)'
  <2> SUFFICES ASSUME got[t].own # 0, NEW part \in Parts(kind), ~ToRead(t, part)'
               PROVE  got'[t][part] \in Good(t)
    BY <1>4, <1>7, <1>11 DEF PartsGood, kind
  <2>1. CASE part = read
    <3>1. 0 \in Good(t) /\ sample[s].n \in Good(t)
      BY <1>7, <1>10 DEF NotOlder, Good
    <3>2. part = "ref" => refSample[s].n \in Good(t)
      BY <1>7, <1>8, <1>9, <1>10 DEF NotOlder, kind
    <3>3. Value(part, s) \in Good(t)
      BY <3>1, <3>2 DEF Value
    <3>4. QED  BY <1>4, <2>1, <3>3
  <2>2. CASE part # read
    BY <1>4, <1>7, <1>8, <1>10, <2>2 DEF PartsGood, kind
  <2>3. QED  BY <2>1, <2>2
<1>16. AloneSince(t)'
  <2>1. Inside(t)
    BY <1>1 DEF Inside, Outside
  <2>2. \A u \in Thread : In(u, Changing) => Inside(u)
    BY DEF In, Inside, Outside, Changing
  <2>3. \A u \in Thread \ {t} : ~(In(u, Changing) /\ At(u) = s)
    BY <1>3, <2>1, <2>2, Alone DEF s
  <2>4. QED  BY <1>6, <1>7, <1>12, <2>3 DEF AloneSince
<1>17. PartsNow(t)'
  <2> SUFFICES ASSUME ~disturbed[t], NEW part \in Parts(kind), ~ToRead(t, part)'
               PROVE  got'[t][part] = Value(part, s)
    BY <1>1, <1>7 DEF PartsNow, kind, Value
  <2>1. CASE part = read
    BY <1>4, <2>1
  <2>2. CASE part # read
    BY <1>4, <1>7, <1>8, <1>10, <2>2 DEF PartsNow, kind
  <2>3. QED  BY <2>1, <2>2
<1>18. Calculated(t)'
  <2>1. CASE read = "abs"
    BY <1>7, <2>1 DEF Calculated, kind
  <2>2. CASE read # "abs"
    BY <1>1, <1>4, <1>7, <1>10, <2>2 DEF Calculated, kind
  <2>3. QED  BY <2>1, <2>2
<1>19. QED  BY <1>13, <1>14, <1>15, <1>16, <1>17, <1>18 DEF ReportInv

LEMMA OwnBegin ==
  ASSUME OnlyMeasures, Sections, TellType, NEW t \in Thread, Begin(t)
  PROVE  ReportInv(t)' /\ Planned(todo'[t])
<1>1. PICK r \in Menu[t] : todo' = [todo EXCEPT ![t] = Steps(r)]
  BY DEF Begin
<1> DEFINE steps == Steps(r)
<1>2. Planned(steps) /\ Entire(steps)
  BY <1>1, StepsPlanned DEF OnlyMeasures
<1>3. todo'[t] = steps /\ got'[t] = Nothing
  BY <1>1 DEF Sections, TellType, Begin
<1> HIDE DEF steps
<1>4. got'[t].own = 0
  BY <1>3 DEF Nothing
<1>5. ASSUME Telling(t)'
      PROVE  ReportInv(t)'
  <2> DEFINE kind == steps[Len(steps)].kind
  <2>1. /\ Message(t)'.kind = kind /\ Reporting(steps)
        /\ \A part : ToRead(t, part)' <=> UsedLater(steps, 0, part)
        /\ \A op : ToDo(t, op)' <=> Later(steps, 0, op)
    BY <1>3, <1>5 DEF Telling, Message, ToRead, ToDo
  <2>2. /\ \A part \in Parts(kind) : UsedLater(steps, 0, part)
        /\ kind \in {"sample", "ref"} => Later(steps, 0, "clear")
        /\ kind \in {"pH", "pHRow"} => Later(steps, 0, "calculate")
    BY <1>2, <2>1 DEF Entire
  <2> HIDE DEF kind
  <2>3. /\ \A part \in Parts(Message(t).kind)' : ToRead(t, part)'
        /\ Message(t)'.kind \in {"sample", "ref"} => ToDo(t, "clear")'
        /\ Message(t)'.kind \in {"pH", "pHRow"} => ToDo(t, "calculate")'
    BY <2>1, <2>2
  <2>4. Records(t)' /\ NotOlder(t)' /\ Calculated(t)'
    BY <1>4, <2>3 DEF Records, NotOlder, Calculated
  <2>5. QED  BY <1>5, <2>3, <2>4, OwnTaking
<1>6. QED  BY <1>2, <1>3, <1>5 DEF ReportInv

\* Every step of t leaves what t itself will say as it must be.
LEMMA OwnTells ==
  ASSUME OnlyMeasures, Sections, Values, TellType, NEW t \in Thread, Planned(todo[t]), ReportInv(t),
         Begin(t) \/ Work(t)
  PROVE  ReportInv(t)' /\ Planned(todo'[t])
<1>1. CASE Begin(t)
  BY <1>1, OwnBegin
<1>2. CASE Scan(t)
  BY <1>2, OwnScan
<1>3. ASSUME Work(t), ~Scan(t)
      PROVE  todo[t] # <<>> /\ todo' = [todo EXCEPT ![t] = Tail(todo[t])] /\ Planned(todo'[t])
  <2>1. todo[t] # <<>> /\ todo' = [todo EXCEPT ![t] = Tail(todo[t])]
    BY <1>3 DEF Work, Lock, Unlock, FreeSample, ClearSample, StoreSample, KeepSample, Load, Use,
                CalculatePH, Send, Step, Idle, Continue
  <2>2. QED  BY <2>1, Progress
<1>4. CASE Lock(t) \/ Unlock(t) \/ FreeSample(t) \/ Load(t) \/ CalculatePH(t)
  <2>1. /\ Head(todo[t]).op \in {"lock", "unlock", "free", "load", "calculate"}
        /\ UNCHANGED <<sample, refSample, recorded, got>>
        /\ IF Head(todo[t]).op = "calculate" THEN lastCalc' = [spec |-> At(t), n |-> got[t].abs]
                                             ELSE lastCalc' = lastCalc
    BY <1>4 DEF Lock, Unlock, FreeSample, Load, CalculatePH, Step, samples
  <2>2. disturbed'[t] = disturbed[t] /\ \A u \in Thread \ {t} : work'[u] = work[u]
    BY <1>4 DEF Lock, Unlock, FreeSample, Load, CalculatePH, Disturb, history, TellType, Values,
                SampleType
  <2>3. Work(t) /\ ~Scan(t)
    BY <1>4, <2>1 DEF Work, Scan, Step
  <2>4. QED  BY <1>3, <2>1, <2>2, <2>3, OwnQuiet
<1>5. CASE Send(t)
  <2>1. Work(t) /\ ~Scan(t) /\ Head(todo[t]).op = "send"
    BY <1>5 DEF Work, Send, Scan, Step
  <2>2. Tail(todo[t]) = <<>>
    BY <1>3, <2>1, Progress
  <2>3. todo'[t] = <<>>
    BY <1>3, <2>1, <2>2 DEF Sections
  <2>4. ~Telling(t)'
    BY <2>3 DEF Telling, Reporting
  <2>5. QED  BY <1>3, <2>1, <2>4 DEF ReportInv
<1>6. CASE ClearSample(t) \/ StoreSample(t) \/ KeepSample(t) \/ Use(t)
  <2>1. Work(t) /\ ~Scan(t)
    BY <1>6 DEF Work, Scan, ClearSample, StoreSample, KeepSample, Use, Step
  <2>2. QED  BY <1>3, <1>6, <2>1, OwnClear, OwnStore, OwnUse
<1>7. QED  BY <1>1, <1>2, <1>4, <1>5, <1>6 DEF Work

\* What was said stays fresh, and of one sample unless t is disturbed.
LEMMA SentStays ==
  ASSUME TellType, NEW t \in Thread, Fresh(t), AllOfOne(t), sent'[t] = sent[t],
         recorded \in Nat, recorded' \in Nat, recorded <= recorded', disturbed[t] => disturbed'[t]
  PROVE  Fresh(t)' /\ AllOfOne(t)'
<1>1. AllOfOne(t)'
  BY DEF AllOfOne
<1>2. Fresh(t)'
  <2> DEFINE p == sent[t].parts
  <2>1. sent[t].kind = "sample" => {p.abs, p.spectrum} \subseteq {0} \cup p.own..recorded'
    <3> SUFFICES ASSUME sent[t].kind = "sample"
                 PROVE  {p.abs, p.spectrum} \subseteq {0} \cup p.own..recorded'
      OBVIOUS
    <3>1. p.own \in Nat
      BY DEF TellType, AnyMessage, NoMessage, Results
    <3>2. \A n : n \in p.own..recorded => n \in p.own..recorded'
      BY <3>1
    <3>3. QED  BY <3>2 DEF Fresh
  <2>2. QED  BY <2>1 DEF Fresh
<1>3. QED  BY <1>1, <1>2

\* When the message is sent all its parts are read.
LEMMA SendTells ==
  ASSUME Sections, Values, TellType, NEW t \in Thread, Planned(todo[t]), ReportInv(t), Send(t)
  PROVE  Fresh(t)' /\ AllOfOne(t)'
<1> DEFINE kind == Head(todo[t]).kind
           s == At(t)
           g == got[t]
           parts == [g EXCEPT !.pH = lastCalc.n]
           message == [kind |-> kind, spec |-> IF kind \in {"pH", "pHRow"} THEN lastCalc.spec ELSE s,
                       label |-> s, parts |-> parts]
<1>1. todo[t] # <<>> /\ Head(todo[t]).op = "send" /\ todo[t] \in Seq(AnyStep)
      /\ UNCHANGED <<disturbed, recorded>>
  BY DEF Send, Step, Idle, Sections, samples, history
<1>2. todo[t] = <<Head(todo[t])>> /\ Len(todo[t]) = 1
  <2>1. Tail(todo[t]) = <<>>
    BY <1>1, PlanTail
  <2>2. Len(todo[t]) = 1 /\ todo[t][1] = Head(todo[t])
    <3>1. /\ Len(todo[t]) \in Nat /\ Len(Tail(todo[t])) = Len(todo[t]) - 1
          /\ Head(todo[t]) = todo[t][1]
      BY <1>1, HeadTailProperties
    <3> DEFINE rest == Tail(todo[t])
    <3>2. rest = <<>>
      BY <2>1
    <3> HIDE DEF rest
    <3>3. Len(rest) = 0
      BY <3>2, EmptySeq
    <3>4. QED  BY <3>1, <3>3 DEF rest
  <2>3. QED  BY <1>1, <2>2
<1>3. /\ Telling(t) /\ Message(t).kind = kind /\ Message(t).spec = s
      /\ \A part : ~ToRead(t, part)
      /\ \A op \in {"clear", "keepRef", "calculate"} : ~ToDo(t, op)
  <2>1. todo[t][1] = Head(todo[t]) /\ \A j \in (0 + 1)..1 : j = 1
    BY <1>2
  <2>2. QED
    BY <1>1, <1>2, <2>1 DEF Telling, Reporting, Message, ToRead, ToDo, Later, UsedLater, At
<1>4. kind \in {"ref", "sample", "pH", "pHRow", "row"} /\ s \in SpecIndex
  BY <1>3, TheMessage
<1>5. Records(t) /\ NotOlder(t) /\ PartsGood(t) /\ PartsNow(t) /\ Calculated(t)
  BY <1>3 DEF ReportInv
<1>6. /\ g \in Results /\ recorded \in Nat /\ g.own <= recorded
      /\ sample[s].n \in Nat /\ refSample[s].n \in Nat
  <2>1. g \in Results /\ recorded \in Nat /\ g.own <= recorded
    BY DEF TellType, Values, SampleType
  <2>2. sample[s] \in {NoSample} \cup Recording /\ refSample[s] \in {NoSample} \cup Recording
    BY <1>4 DEF Values, SampleType
  <2>3. QED  BY <2>1, <2>2 DEF NoSample, Recording
<1>7. /\ parts.own = g.own /\ parts.last = g.last /\ parts.abs = g.abs
      /\ parts.spectrum = g.spectrum /\ parts.conc = g.conc /\ parts.ref = g.ref
      /\ parts.pH = lastCalc.n
  BY <1>6 DEF Results
<1>8. sent'[t] = IF \/ kind = "sample" /\ g.last = 0
                    \/ kind = "ref" /\ g.ref = 0
                 THEN NoMessage ELSE message
  BY DEF Send, TellType
<1> HIDE DEF parts
<1>9. /\ message.kind = kind /\ message.label = s /\ message.parts = parts
      /\ message.spec = IF kind \in {"pH", "pHRow"} THEN lastCalc.spec ELSE s
  OBVIOUS
<1>10. NoMessage.kind = "none"
  BY DEF NoMessage
<1>11. g.own # 0 => \A part \in Parts(kind) : g[part] \in Good(t)
  BY <1>3, <1>5 DEF PartsGood
<1>12. ~disturbed[t] => \A part \in Parts(kind) : g[part] = Value(part, s)
  BY <1>3, <1>5 DEF PartsNow
<1>13. kind \in {"sample", "ref"} => g.own # 0
  BY <1>3, <1>5 DEF Records
<1>14. \A n \in Nat : n \in Good(t) => n = 0 \/ n \in g.own..recorded
  BY <1>6 DEF Good, Results
<1>15. ~disturbed[t] => \A n : n \in Good(t) => n = 0 \/ n = g.own
  BY DEF Good
<1> HIDE DEF kind, s, g, message
<1>16. CASE sent'[t] = NoMessage
  BY <1>10, <1>16 DEF Fresh, AllOfOne
<1>17. ASSUME sent'[t] = message, kind = "sample" => g.last # 0, kind = "ref" => g.ref # 0
       PROVE  Fresh(t)' /\ AllOfOne(t)'
  <2>1. CASE kind = "sample"
    <3>1. /\ g.last \in Good(t) /\ g.abs \in Good(t) /\ g.spectrum \in Good(t)
          /\ g.last \in Nat /\ g.abs \in Nat /\ g.spectrum \in Nat /\ g.own \in Nat
      BY <1>6, <1>11, <1>13, <2>1 DEF Parts, Results
    <3>2. ~disturbed[t] => g.last = sample[s].n /\ g.abs = g.spectrum
      BY <1>12, <2>1 DEF Parts, Value
    <3>3. g.last >= g.own /\ {g.abs, g.spectrum} \subseteq {0} \cup g.own..recorded
      BY <1>6, <1>14, <1>17, <2>1, <3>1
    <3>4. ~disturbed[t] => g.last = g.own /\ g.abs \in {0, g.own} /\ g.spectrum = g.abs
      BY <1>15, <1>17, <2>1, <3>1, <3>2
    <3>5. QED  BY <1>1, <1>7, <1>9, <1>17, <2>1, <3>3, <3>4 DEF Fresh, AllOfOne
  <2>2. CASE kind = "ref"
    <3>1. g.ref \in Good(t) /\ g.ref \in Nat /\ g.own \in Nat
      BY <1>6, <1>11, <1>13, <2>2 DEF Parts, Results
    <3>2. g.ref >= g.own /\ (~disturbed[t] => g.ref = g.own)
      BY <1>6, <1>14, <1>15, <1>17, <2>2, <3>1
    <3>3. QED  BY <1>1, <1>7, <1>9, <1>17, <2>2, <3>2 DEF Fresh, AllOfOne
  <2>3. CASE kind = "row"
    <3>1. ~disturbed[t] => g.conc = g.abs /\ g.abs \in {0, g.last}
      BY <1>12, <2>3 DEF Parts, Value
    <3>2. QED  BY <1>1, <1>7, <1>9, <1>17, <2>3, <3>1 DEF Fresh, AllOfOne
  <2>4. CASE kind = "pH"
    <3>1. ~disturbed[t] => lastCalc.spec = s /\ lastCalc.n = g.abs
      BY <1>3, <1>5, <2>4 DEF Calculated, g, kind, s
    <3>2. QED  BY <1>1, <1>7, <1>9, <1>17, <2>4, <3>1 DEF Fresh, AllOfOne
  <2>5. CASE kind = "pHRow"
    <3>1. ~disturbed[t] => lastCalc.spec = s /\ lastCalc.n = g.abs
      BY <1>3, <1>5, <2>5 DEF Calculated, g, kind, s
    <3>2. ~disturbed[t] => g.abs \in {0, g.last}
      BY <1>12, <2>5 DEF Parts, Value
    <3>3. QED  BY <1>1, <1>7, <1>9, <1>17, <2>5, <3>1, <3>2 DEF Fresh, AllOfOne
  <2>6. QED  BY <1>4, <2>1, <2>2, <2>3, <2>4, <2>5
<1>18. QED  BY <1>8, <1>16, <1>17

LEMMA TellInit == Init => TellInv
<1> SUFFICES ASSUME Init
             PROVE  TellInv
  OBVIOUS
<1>1. Nothing \in Results /\ Nothing.own = 0 /\ NoMessage.kind = "none"
  BY DEF Nothing, Results, NoMessage
<1>2. TellType
  BY <1>1 DEF Init, TellType, AnyMessage
<1> DEFINE none == <<>>
<1>3. none = <<>> /\ ~Reporting(none) /\ Len(none) = 0
  BY DEF Reporting
<1>4. \A t \in Thread : todo[t] = none /\ sent[t] = NoMessage
  BY DEF Init
<1> HIDE DEF none
<1>5. Planned(none)
  BY <1>3 DEF Planned
<1>6. \A t \in Thread : Planned(todo[t]) /\ ReportInv(t) /\ Fresh(t) /\ AllOfOne(t)
  BY <1>1, <1>3, <1>4, <1>5 DEF ReportInv, Telling, Fresh, AllOfOne
<1>7. QED  BY <1>2, <1>6 DEF TellInv

\* A step of main, or none.
LEMMA TellMain ==
  ASSUME MeasureInv, TellInv, MainNext \/ UNCHANGED vars
  PROVE  TellInv'
<1>1. CASE ~TakeDevice
  <2>1. UNCHANGED <<todo, work, got, sent, disturbed, sample, refSample, recorded, lastCalc>>
    BY <1>1 DEF MainNext, PassDevice, ClaimDevice, ReleaseDevice, ConnectError, Disconnect, CloseDevice, ExitPolitely, Exit, vars,
                samples, threads, history
  <2>2. TellType'
    BY <2>1 DEF TellInv, TellType
  <2> SUFFICES ASSUME NEW t \in Thread
               PROVE  Planned(todo'[t]) /\ ReportInv(t)' /\ Fresh(t)' /\ AllOfOne(t)'
    BY <2>2 DEF TellInv
  <2>3. Planned(todo'[t]) /\ Fresh(t)' /\ AllOfOne(t)'
    BY <2>1 DEF TellInv, Fresh, AllOfOne
  <2>4. /\ Telling(t)' <=> Telling(t)
        /\ Message(t)' = Message(t) /\ Good(t)' = Good(t)
        /\ \A op : ToDo(t, op)' <=> ToDo(t, op)
        /\ \A part : ToRead(t, part)' <=> ToRead(t, part)
        /\ \A u \in Thread : /\ Filling(u)' <=> Filling(u)
                             /\ In(u, Changing)' <=> In(u, Changing)
                             /\ At(u)' = At(u)
    BY <2>1 DEF Telling, Message, Good, ToDo, ToRead, Filling, In, At
  <2>5. ReportInv(t)
    BY DEF TellInv
  <2>6. ASSUME Telling(t)
        PROVE  ReportInv(t)'
    <3>1. Records(t)' /\ NotOlder(t)' /\ PartsGood(t)'
      BY <2>1, <2>4, <2>5, <2>6 DEF ReportInv, Records, NotOlder, PartsGood
    <3>2. AloneSince(t)' /\ PartsNow(t)' /\ Calculated(t)'
      BY <2>1, <2>4, <2>5, <2>6 DEF ReportInv, AloneSince, PartsNow, Calculated, Value
    <3>3. QED  BY <3>1, <3>2 DEF ReportInv
  <2>7. QED  BY <2>3, <2>4, <2>6 DEF ReportInv
\* Nobody has a request yet.
<1>2. CASE TakeDevice
  <2>1. UNCHANGED <<todo, work, got, sent, disturbed, lastCalc>> /\ recorded' = recorded + 1
    BY <1>2 DEF TakeDevice, threads, history
  <2>2. Resting /\ recorded \in Nat
    BY <1>2 DEF TakeDevice, MeasureInv, Values, SampleType
  <2>3. TellType'
    <3>1. \A t \in Thread : got[t].own \in Nat /\ got[t].own <= recorded
      BY DEF TellInv, TellType, Results
    <3>2. \A t \in Thread : got'[t].own <= recorded'
      BY <2>1, <2>2, <3>1
    <3>3. QED  BY <2>1, <3>2 DEF TellInv, TellType
  <2>4. ASSUME NEW t \in Thread
        PROVE  Planned(todo'[t]) /\ ReportInv(t)' /\ Fresh(t)' /\ AllOfOne(t)'
    <3>1. ~Telling(t)'
      BY <2>1, <2>2 DEF Telling, Reporting, Resting
    <3>2. recorded <= recorded' /\ recorded' \in Nat
      BY <2>1, <2>2
    <3>3. Fresh(t)' /\ AllOfOne(t)'
      BY <2>1, <2>2, <3>2, SentStays DEF TellInv
    <3>4. QED  BY <2>1, <3>1, <3>3 DEF TellInv, ReportInv
  <2>5. QED  BY <2>3, <2>4 DEF TellInv
<1>3. QED  BY <1>1, <1>2

\* A step of a client.
LEMMA TellStep ==
  ASSUME OnlyMeasures, MeasureInv, TellInv, NEW t \in Thread, Begin(t) \/ Work(t)
  PROVE  TellInv'
<1>1. /\ Sections /\ Values /\ TellType /\ recorded \in Nat
      /\ \A u \in Thread : Planned(todo[u]) /\ ReportInv(u) /\ Fresh(u) /\ AllOfOne(u)
  BY DEF MeasureInv, TellInv, Values, SampleType
<1>2. TellType'
  BY <1>1, TellTypeStep
<1>3. ReportInv(t)' /\ Planned(todo'[t])
  BY <1>1, OwnTells
<1>4. PICK rest : todo' = [todo EXCEPT ![t] = rest]
  <2>1. CASE Scan(t)
    <3>1. todo = [todo EXCEPT ![t] = todo[t]]
      BY <1>1 DEF Sections
    <3>2. QED  BY <2>1, <3>1 DEF Scan, Scanned, ScanFails, Continue
  <2>2. CASE ~Scan(t)
    BY <2>2 DEF Begin, Work, Lock, Unlock, FreeSample, ClearSample, StoreSample, KeepSample, Load, Use,
                CalculatePH, Send, Continue
  <2>3. QED  BY <2>1, <2>2
<1>5. \A u \in Thread \ {t} : ReportInv(u)' /\ Planned(todo'[u])
  BY <1>1, <1>4, OthersTell, OthersStay
\* What was said before.
<1>6. /\ recorded' \in Nat /\ recorded <= recorded'
      /\ \A u \in Thread \ {t} : sent'[u] = sent[u] /\ (disturbed[u] => disturbed'[u])
      /\ ~Send(t) /\ ~Begin(t) => sent'[t] = sent[t] /\ (disturbed[t] => disturbed'[t])
  <2>1. CASE Begin(t)
    <3>1. /\ UNCHANGED recorded /\ sent' = [sent EXCEPT ![t] = NoMessage]
          /\ disturbed' = [disturbed EXCEPT ![t] = FALSE]
      BY <2>1 DEF Begin, samples
    <3>2. QED  BY <1>1, <2>1, <3>1 DEF TellType
  <2>2. CASE Send(t)
    <3>1. UNCHANGED <<recorded, disturbed>> /\ \A u \in Thread \ {t} : sent'[u] = sent[u]
      BY <1>1, <2>2 DEF Send, samples, history, TellType
    <3>2. QED  BY <1>1, <2>2, <3>1
  <2>3. CASE ClearSample(t)
    <3>1. UNCHANGED sent /\ recorded' = recorded + 1 /\ \A u \in Thread : disturbed[u] => disturbed'[u]
      BY <1>1, <2>3, ClearRecords DEF ClearSample
    <3>2. QED  BY <1>1, <3>1
  <2>4. CASE CalculatePH(t)
    <3>1. UNCHANGED <<sent, recorded>> /\ \A u \in Thread : disturbed[u] => disturbed'[u]
      BY <1>1, <2>4 DEF CalculatePH, Disturb, TellType
    <3>2. QED  BY <1>1, <3>1
  <2>5. CASE Lock(t) \/ Unlock(t) \/ FreeSample(t) \/ Scan(t) \/ StoreSample(t) \/ KeepSample(t)
             \/ Load(t) \/ Use(t)
    <3>1. UNCHANGED <<sent, recorded, disturbed>>
      BY <2>5 DEF Lock, Unlock, FreeSample, Scan, StoreSample, KeepSample, Load, Use, samples, history
    <3>2. QED  BY <1>1, <3>1
  <2>6. QED  BY <2>1, <2>2, <2>3, <2>4, <2>5 DEF Work
<1>7. \A u \in Thread \ {t} : Fresh(u)' /\ AllOfOne(u)'
  BY <1>1, <1>6, SentStays
<1>8. Fresh(t)' /\ AllOfOne(t)'
  <2>1. CASE Begin(t)
    <3>1. sent'[t] = NoMessage /\ NoMessage.kind = "none"
      BY <1>1, <2>1 DEF Begin, TellType, NoMessage
    <3>2. QED  BY <3>1 DEF Fresh, AllOfOne
  <2>2. CASE Send(t)
    BY <1>1, <2>2, SendTells
  <2>3. CASE ~Begin(t) /\ ~Send(t)
    BY <1>1, <1>6, <2>3, SentStays
  <2>4. QED  BY <2>1, <2>2, <2>3
<1>9. QED  BY <1>2, <1>3, <1>5, <1>7, <1>8 DEF TellInv

LEMMA TellsAlways ==
  ASSUME OnlyMeasures
  PROVE  Spec => []TellInv
<1>1. ConnectInv /\ MeasureInv /\ TellInv /\ [Next]_vars => (ConnectInv /\ MeasureInv /\ TellInv)'
  BY ConnectStep, MeasureStep, TellMain, TellStep DEF Next
<1>2. Spec => Init /\ [][Next]_vars
  BY PTL DEF Spec
<1>3. QED  BY <1>1, <1>2, ConnectInit, MeasureInit, TellInit, PTL

\* What a message says was measured is not older than the recording of its own
\* statement, whatever others record in between and whichever scans fail.
THEOREM MessagesAreFresh ==
  ASSUME OnlyMeasures
  PROVE  Spec => []FreshMessages
<1>1. TellInv => FreshMessages
  BY DEF TellInv, Fresh, FreshMessages
<1>2. QED  BY <1>1, TellsAlways, PTL

\* All that a message or row says is of one recording, and of the spectrometer that it
\* names, unless another client recorded there, or calculated a pH, in the meantime: the
\* parts may be read one by one.
THEOREM MessagesAreOfOneSample ==
  ASSUME OnlyMeasures
  PROVE  Spec => []OneSample
<1>1. TellInv => OneSample
  BY DEF TellInv, AllOfOne, OneSample
<1>2. QED  BY <1>1, TellsAlways, PTL

-----------------------------------------------------------------------------
(* The types, for any requests: also while the integration time is set, when *)
(* two threads may take samples on one spectrometer.                         *)

AnyRequests ==
  \A t \in Thread : Menu[t] \subseteq Measurement \cup [op : {"SSP", "SCP"}, spec : SpecIndex]

\* A recording is cleared, scanned and stored in this order.
InOrder(a, b) == /\ b.op = "scan" <=> a.op = "clear"
                 /\ b.op = "store" <=> a.op = "scan"

Ordered(steps) ==
  /\ steps \in Seq(AnyStep)
  /\ \A i \in 1..(Len(steps) - 1) : InOrder(steps[i], steps[i + 1])
  /\ steps # <<>> => steps[Len(steps)].op \notin {"clear", "scan"}

LEMMA Quarters ==
  ASSUME NEW n \in Nat, NEW i \in 1..(4 * n)
  PROVE  LET s == (i + 3) \div 4
             k == (i + 3) % 4
         IN /\ s \in 1..n /\ k \in 0..3
            /\ i = 1 => k = 0
            /\ i = 4 * n => k = 3
            /\ k < 3 => i + 1 # 4 * n + 1 /\ ((i + 1) + 3) % 4 = k + 1
            /\ k = 3 => ((i + 1) + 3) % 4 = 0
OBVIOUS

\* Setting the integration time of every spectrometer takes a whole sample of each.
LEMMA SettingsOrdered ==
  Ordered(applyConfig) /\ applyConfig # <<>> /\ Head(applyConfig).op \notin {"scan", "store"}
<1> DEFINE all == applyConfig
           ops == <<"free", "clear", "scan", "store">>
<1>1. PICK n \in 1..10 : SpecIndex = 1..n
  BY SpecAssumption
<1>2. Cardinality(SpecIndex) = n
  <2>1. 1 \in Int /\ n \in Int /\ ~(1 > n) /\ (n - 1) + 1 = n
    BY <1>1
  <2>2. Cardinality(1..n) = IF 1 > n THEN 0 ELSE (n - 1) + 1
    BY <2>1, FS_Interval
  <2>3. QED  BY <1>1, <2>1, <2>2
<1>3. all = [i \in 1..(4 * n) |-> getSample((i + 3) \div 4, 1)[1 + ((i + 3) % 4)]]
  BY <1>2 DEF applyConfig, setSpecIntegrationTimeinMilli
<1>4. ASSUME NEW s \in 1..n, NEW k \in 0..3
      PROVE  getSample(s, 1)[1 + k] \in AnyStep /\ getSample(s, 1)[1 + k].op = ops[1 + k]
  <2>1. s \in SpecIndex /\ 1 \in {1, NumScans}
    BY <1>1
  <2>2. k = 0 \/ k = 1 \/ k = 2 \/ k = 3
    BY <1>4
  <2>3. QED  BY <2>1, <2>2 DEF getSample, AnyStep
<1> HIDE DEF all
<1>5. \A i \in 1..(4 * n) : all[i] \in AnyStep /\ all[i].op = ops[1 + ((i + 3) % 4)]
  <2> SUFFICES ASSUME NEW i \in 1..(4 * n)
               PROVE  all[i] \in AnyStep /\ all[i].op = ops[1 + ((i + 3) % 4)]
    OBVIOUS
  <2>1. (i + 3) \div 4 \in 1..n /\ (i + 3) % 4 \in 0..3
    BY Quarters
  <2>2. all[i] = getSample((i + 3) \div 4, 1)[1 + ((i + 3) % 4)]
    BY <1>3
  <2>3. QED  BY <1>4, <2>1, <2>2, Zenon
<1>6. all \in Seq(AnyStep) /\ Len(all) = 4 * n /\ 4 * n \in Nat /\ 4 * n >= 1
  <2>1. 4 * n \in Nat /\ 4 * n >= 1
    BY <1>1
  <2>2. all \in [1..(4 * n) -> AnyStep]
    BY <1>3, <1>5
  <2>3. QED  BY <2>1, <2>2
<1>7. ASSUME NEW i \in 1..(4 * n - 1)
      PROVE  InOrder(all[i], all[i + 1])
  <2> DEFINE k == (i + 3) % 4
  <2>1. i \in 1..(4 * n) /\ i + 1 \in 1..(4 * n)
    BY <1>6
  <2>2. /\ k \in 0..3 /\ (k < 3 => ((i + 1) + 3) % 4 = k + 1)
        /\ k = 3 => ((i + 1) + 3) % 4 = 0
    BY <2>1, Quarters
  <2>3. all[i].op = ops[1 + k] /\ all[i + 1].op = ops[1 + (((i + 1) + 3) % 4)]
    BY <1>5, <2>1
  <2> HIDE DEF k
  <2>4. k = 0 \/ k = 1 \/ k = 2 \/ k = 3
    BY <2>2
  <2>5. QED  BY <2>2, <2>3, <2>4 DEF InOrder
<1>8. all[1].op = "free" /\ all[4 * n].op = "store"
  <2>1. 1 \in 1..(4 * n) /\ 4 * n \in 1..(4 * n)
    BY <1>6
  <2>2. (1 + 3) % 4 = 0 /\ (4 * n + 3) % 4 = 3
    BY <2>1, Quarters
  <2>3. QED  BY <1>5, <2>1, <2>2
<1>9. all # <<>> /\ Head(all) = all[1]
  BY <1>6, EmptySeq, HeadTailProperties
<1>10. QED  BY <1>6, <1>7, <1>8, <1>9 DEF Ordered, all

LEMMA StepsOrdered ==
  ASSUME NEW r \in Measurement \cup [op : {"SSP", "SCP"}, spec : SpecIndex]
  PROVE  Ordered(Steps(r)) /\ (Steps(r) # <<>> => Head(Steps(r)).op \notin {"scan", "store"})
<1>1. CASE r \in Measurement
  <2> DEFINE steps == Steps(r)
  <2>1. Complete(steps)
    BY <1>1, StepsComplete
  <2> HIDE DEF steps
  <2>2. \A a, b \in AnyStep : Follows(a, b) => InOrder(a, b)
    BY DEF Follows, Inner, Ends, Outside, InOrder
  <2>3. steps \in Seq(AnyStep)
    BY <2>1, EmptySeq DEF Complete, Proper, Chained
  <2>4. CASE steps = <<>>
    <3>1. Len(steps) = 0
      BY <2>4, EmptySeq
    <3>2. ~\E i : i \in 1..(Len(steps) - 1)
      BY <3>1
    <3>3. Ordered(steps)
      BY <2>3, <2>4, <3>2 DEF Ordered
    <3>4. QED  BY <2>4, <3>3, Zenon DEF steps
  <2>5. CASE steps # <<>>
    <3>1. Len(steps) \in Nat \ {0} /\ steps[Len(steps)].op \in Ends /\ steps[1].op \in Outside
          /\ \A i \in 1..(Len(steps) - 1) : Follows(steps[i], steps[i + 1])
      BY <2>1, <2>5 DEF Complete, Proper, Chained
    <3>2. \A i \in 1..(Len(steps) - 1) : steps[i] \in AnyStep /\ steps[i + 1] \in AnyStep
      <4>1. \A i \in 1..(Len(steps) - 1) : i \in 1..Len(steps) /\ i + 1 \in 1..Len(steps)
        BY <3>1
      <4>2. QED  BY <2>3, <4>1
    <3>3. \A i \in 1..(Len(steps) - 1) : InOrder(steps[i], steps[i + 1])
      BY <2>2, <3>1, <3>2
    <3>4. steps[Len(steps)].op \notin {"clear", "scan"} /\ steps[1].op \notin {"scan", "store"}
      BY <3>1 DEF Ends, Outside
    <3>5. Head(steps) = steps[1]
      BY <2>3, <2>5, HeadTailProperties
    <3>6. QED  BY <2>3, <3>3, <3>4, <3>5 DEF Ordered, steps
  <2>6. QED  BY <2>4, <2>5, Zenon DEF steps
<1>2. CASE r \in [op : {"SSP"}, spec : SpecIndex]
  <2> DEFINE s == r.spec
             free == [op |-> "free", spec |-> s]
             clear == [op |-> "clear", spec |-> s, scans |-> 1]
             scan == [op |-> "scan", spec |-> s]
             store == [op |-> "store", spec |-> s]
             all == <<free, clear, scan, store>>
  <2>1. s \in SpecIndex /\ r.op = "SSP"
    BY <1>2
  <2>2. Steps(r) = all
    BY <2>1 DEF Steps, setSpecIntegrationTimeinMilli, getSample
  <2> HIDE DEF s
  <2>3. /\ free \in AnyStep /\ clear \in AnyStep /\ scan \in AnyStep /\ store \in AnyStep
        /\ free.op = "free" /\ clear.op = "clear" /\ scan.op = "scan" /\ store.op = "store"
    BY <2>1 DEF AnyStep
  <2> HIDE DEF free, clear, scan, store
  <2>4. /\ all \in Seq(AnyStep) /\ Len(all) = 4
        /\ all[1] = free /\ all[2] = clear /\ all[3] = scan /\ all[4] = store
        /\ Head(all) = free
    BY <2>3
  <2> HIDE DEF all
  <2>5. ASSUME NEW i \in 1..(Len(all) - 1)
        PROVE  InOrder(all[i], all[i + 1])
    <3>1. i = 1 \/ i = 2 \/ i = 3
      BY <2>4
    <3>2. QED  BY <2>3, <2>4, <3>1 DEF InOrder
  <2>6. Ordered(all) /\ Head(all).op \notin {"scan", "store"}
    BY <2>3, <2>4, <2>5 DEF Ordered
  <2>7. QED  BY <2>2, <2>6, Zenon
<1>3. CASE r \in [op : {"SCP"}, spec : SpecIndex]
  <2>1. Steps(r) = applyConfig
    BY <1>3 DEF Steps
  <2>2. QED  BY <2>1, SettingsOrdered, Zenon
<1>4. QED  BY <1>1, <1>2, <1>3

LEMMA OrderedRest ==
  ASSUME NEW steps, Ordered(steps), steps # <<>>
  PROVE  /\ Ordered(Tail(steps)) /\ Head(steps) \in AnyStep
         /\ Tail(steps) # <<>> => InOrder(Head(steps), Head(Tail(steps)))
         /\ Tail(steps) = <<>> => Head(steps).op \notin {"clear", "scan"}
<1> DEFINE rest == Tail(steps)
<1>1. /\ steps \in Seq(AnyStep) /\ Len(steps) \in Nat \ {0}
      /\ Head(steps) = steps[1] /\ Head(steps) \in AnyStep
      /\ rest \in Seq(AnyStep) /\ Len(rest) = Len(steps) - 1
      /\ \A i \in 1..(Len(steps) - 1) : rest[i] = steps[i + 1]
  <2>1. steps \in Seq(AnyStep) /\ Len(steps) \in Nat \ {0}
    BY EmptySeq DEF Ordered
  <2>2. QED  BY <2>1, HeadTailProperties
<1> HIDE DEF rest
<1>2. rest # <<>> => Len(rest) \in Nat \ {0} /\ Head(rest) = rest[1]
  BY <1>1, EmptySeq
<1>3. rest = <<>> => Len(steps) = 1
  <2>1. rest = <<>> => Len(rest) = 0
    BY EmptySeq
  <2>2. QED  BY <1>1, <2>1
<1>4. rest # <<>> => InOrder(Head(steps), Head(rest)) /\ rest[Len(rest)] = steps[Len(steps)]
  <2> SUFFICES ASSUME rest # <<>>
               PROVE  InOrder(Head(steps), Head(rest)) /\ rest[Len(rest)] = steps[Len(steps)]
    OBVIOUS
  <2>1. /\ 1 \in 1..(Len(steps) - 1) /\ 1 + 1 = 2
        /\ Len(rest) \in 1..(Len(steps) - 1) /\ Len(rest) + 1 = Len(steps)
    BY <1>1, <1>2
  <2>2. InOrder(steps[1], steps[1 + 1]) /\ Head(rest) = steps[1 + 1]
    BY <1>1, <1>2, <2>1 DEF Ordered
  <2>3. QED  BY <1>1, <2>1, <2>2
<1>5. ASSUME NEW i \in 1..(Len(rest) - 1)
      PROVE  InOrder(rest[i], rest[i + 1])
  <2>1. /\ rest[i] = steps[i + 1] /\ rest[i + 1] = steps[(i + 1) + 1]
        /\ i + 1 \in 1..(Len(steps) - 1)
    BY <1>1
  <2>2. QED  BY <2>1 DEF Ordered
<1>6. Ordered(rest)
  BY <1>1, <1>4, <1>5 DEF Ordered
<1>7. QED  BY <1>1, <1>3, <1>4, <1>6 DEF Ordered, rest

\* A recording that is being scanned.
Partial ==
  {r \in [n : 1..recorded, scans : 0..NumScans, of : {1, NumScans}] : r.scans < r.of}

Stored == Whole \cup {NoSample}

Making(t) == /\ In(t, {"scan"}) => work[t] \in Partial
             /\ In(t, {"store"}) => work[t] \in Whole

TypeInv ==
  /\ phase \in {"connecting", "asking", "up", "closing", "down"}
  /\ claimed \subseteq 1..Len(Bus)
  /\ sample \in [SpecIndex -> Stored] /\ refSample \in [SpecIndex -> Stored]
  /\ darkSample \in [SpecIndex -> Stored]
  /\ specsMutex \in [SpecIndex -> Thread \cup {NoThread, Main}]
  /\ recorded \in Nat /\ live \subseteq 1..recorded
  /\ DOMAIN todo = Thread /\ todo = [t \in Thread |-> todo[t]] /\ \A t \in Thread : Ordered(todo[t])
  /\ work = [t \in Thread |-> work[t]] /\ \A t \in Thread : Making(t)

LEMMA TypeInit == Init => TypeInv
<1> SUFFICES ASSUME Init
             PROVE  TypeInv
  OBVIOUS
<1> DEFINE none == <<>>
<1>1. none \in Seq(AnyStep) /\ Len(none) = 0 /\ none = <<>>
  BY EmptySeq
<1>2. \A t \in Thread : todo[t] = none
  BY DEF Init
<1> HIDE DEF none
<1>3. Ordered(none)
  <2>1. ~\E i : i \in 1..(Len(none) - 1)
    BY <1>1
  <2>2. QED  BY <1>1, <2>1 DEF Ordered
<1>4. \A t \in Thread : Ordered(todo[t]) /\ Making(t)
  BY <1>1, <1>2, <1>3 DEF Making, In
<1>5. QED  BY <1>4 DEF Init, TypeInv, Stored

\* A newer recording leaves the older ones what they are.
LEMMA WholeStays ==
  ASSUME recorded \in Nat, recorded' \in Nat, recorded <= recorded'
  PROVE  /\ \A r : r \in Whole => r \in Whole'
         /\ \A r : r \in Partial => r \in Partial'
         /\ \A r : r \in Stored => r \in Stored'
         /\ 1..recorded \subseteq 1..recorded'
<1>1. 1..recorded \subseteq 1..recorded'
  OBVIOUS
<1>2. \A r : r \in Whole => r \in Whole'
  BY <1>1 DEF Whole
<1>3. \A r : r \in Partial => r \in Partial'
  BY <1>1 DEF Partial
<1>4. QED  BY <1>1, <1>2, <1>3 DEF Stored

\* t goes on.
LEMMA TypeGoesOn ==
  ASSUME TypeInv, NEW t \in Thread, NEW rest, Ordered(rest), todo' = [todo EXCEPT ![t] = rest],
         recorded' \in Nat, recorded <= recorded', \A u \in Thread \ {t} : work'[u] = work[u],
         work' = [u \in Thread |-> work'[u]],
         rest # <<>> /\ Head(rest).op = "scan" => work'[t] \in Partial',
         rest # <<>> /\ Head(rest).op = "store" => work'[t] \in Whole',
         phase' = phase, claimed' = claimed,
         sample' \in [SpecIndex -> Stored'], refSample' \in [SpecIndex -> Stored'],
         darkSample' \in [SpecIndex -> Stored'],
         specsMutex' \in [SpecIndex -> Thread \cup {NoThread, Main}], live' \subseteq 1..recorded'
  PROVE  TypeInv'
<1>1. /\ todo'[t] = rest /\ \A u \in Thread \ {t} : todo'[u] = todo[u]
      /\ DOMAIN todo' = Thread /\ todo' = [u \in Thread |-> todo'[u]]
  BY DEF TypeInv
<1>2. \A u \in Thread : Ordered(todo'[u])
  BY <1>1 DEF TypeInv
<1>3. Making(t)'
  BY <1>1 DEF Making, In
<1>4. ASSUME NEW u \in Thread \ {t}
      PROVE  Making(u)'
  <2>1. Making(u)
    BY DEF TypeInv
  <2>2. \A ops : In(u, ops)' <=> In(u, ops)
    BY <1>1 DEF In
  <2>3. work'[u] = work[u]
    OBVIOUS
  <2>4. recorded \in Nat
    BY DEF TypeInv
  <2>5. QED  BY <2>1, <2>2, <2>3, <2>4, WholeStays DEF Making
<1>5. \A u \in Thread : Making(u)'
  BY <1>3, <1>4
<1>6. QED  BY <1>1, <1>2, <1>5 DEF TypeInv

LEMMA TypeMain ==
  ASSUME ConnectInv, TypeInv, MainNext \/ UNCHANGED vars
  PROVE  TypeInv'
<1>1. CASE ~TakeDevice /\ ~CloseDevice
  <2>1. /\ UNCHANGED <<todo, work, sample, refSample, darkSample, specsMutex, recorded, live>>
        /\ phase' \in {"connecting", "asking", "up", "closing", "down"}
        /\ claimed' \subseteq 1..Len(Bus)
    <3>1. CASE ClaimDevice
      <4>1. search.at \in 1..Len(Bus)
        BY <3>1 DEF ConnectInv, ClaimDevice
      <4>2. QED  BY <3>1, <4>1 DEF ClaimDevice, samples, threads, TypeInv
    <3>2. CASE ~ClaimDevice
      BY <1>1, <3>2 DEF MainNext, PassDevice, ReleaseDevice, ConnectError, Disconnect,
                        ExitPolitely, Exit, vars, connection, samples, threads, TypeInv
    <3>3. QED  BY <3>1, <3>2
  <2>2. Stored' = Stored /\ \A t \in Thread : Making(t)' <=> Making(t)
    BY <2>1 DEF Stored, Whole, Partial, Making, In
  <2>3. QED  BY <2>1, <2>2 DEF TypeInv
<1>2. CASE CloseDevice
  <2>1. PICK s \in SpecIndex : /\ specsMutex' = [specsMutex EXCEPT ![s] = Main]
                               /\ claimed' \subseteq claimed /\ live' \subseteq live
                               /\ UNCHANGED <<phase, todo, work, sample, refSample, darkSample, recorded>>
    BY <1>2 DEF CloseDevice, closeUSB4000, threads
  <2>2. Stored' = Stored /\ \A t \in Thread : Making(t)' <=> Making(t)
    BY <2>1 DEF Stored, Whole, Partial, Making, In
  <2>3. specsMutex' \in [SpecIndex -> Thread \cup {NoThread, Main}]
    BY <2>1 DEF TypeInv
  <2>4. QED  BY <2>1, <2>2, <2>3 DEF TypeInv
<1>3. CASE TakeDevice
  <2> DEFINE new == [n |-> recorded + 1, scans |-> 1, of |-> 1]
  <2>1. PICK s \in SpecIndex : s = search.spec
    BY <1>3 DEF ConnectInv, Accounted, TakeDevice
  <2>2. /\ recorded' = recorded + 1 /\ recorded \in Nat
        /\ UNCHANGED <<todo, work, refSample, darkSample, specsMutex>>
        /\ \/ sample' = [sample EXCEPT ![s] = new] /\ live' = live \cup {recorded + 1}
           \/ UNCHANGED <<sample, live>>
        /\ phase' \in {"connecting", "up"}
    BY <1>3, <2>1 DEF TakeDevice, TypeInv, threads
  <2>3. claimed' \subseteq 1..Len(Bus)
    BY <1>3 DEF TypeInv, TakeDevice
  <2>4. /\ \A r : r \in Whole => r \in Whole'
        /\ \A r : r \in Partial => r \in Partial'
        /\ \A r : r \in Stored => r \in Stored'
        /\ 1..recorded \subseteq 1..recorded' /\ recorded + 1 \in 1..recorded'
    BY <2>2, WholeStays
  <2>5. new \in Stored'
    <3>1. 1 \in 0..NumScans
      BY SpecAssumption
    <3>2. new \in Whole'
      BY <2>2, <2>4, <3>1 DEF Whole
    <3>3. QED  BY <3>2 DEF Stored
  <2> HIDE DEF new
  <2>6. /\ sample' \in [SpecIndex -> Stored'] /\ refSample' \in [SpecIndex -> Stored']
        /\ darkSample' \in [SpecIndex -> Stored'] /\ live' \subseteq 1..recorded'
    BY <2>2, <2>4, <2>5 DEF TypeInv
  <2>7. \A t \in Thread : Making(t)'
    BY <2>2, <2>4 DEF TypeInv, Making, In
  <2>8. QED  BY <2>2, <2>3, <2>6, <2>7 DEF TypeInv
<1>4. QED  BY <1>1, <1>2, <1>3

LEMMA TypeStep ==
  ASSUME AnyRequests, TypeInv, NEW t \in Thread, Begin(t) \/ Work(t)
  PROVE  TypeInv'
<1>0. recorded \in Nat /\ work = [u \in Thread |-> work[u]] /\ Ordered(todo[t]) /\ Making(t)
  BY DEF TypeInv
<1>1. CASE Begin(t)
  <2>1. PICK r \in Menu[t] : todo' = [todo EXCEPT ![t] = Steps(r)]
    BY <1>1 DEF Begin
  <2> DEFINE steps == Steps(r)
  <2>2. Ordered(steps) /\ (steps # <<>> => Head(steps).op \notin {"scan", "store"})
    BY <2>1, StepsOrdered DEF AnyRequests
  <2>3. todo' = [todo EXCEPT ![t] = steps]
    BY <2>1
  <2> HIDE DEF steps
  <2>4. UNCHANGED <<phase, claimed, sample, refSample, darkSample, specsMutex, recorded, live, work>>
    BY <1>1 DEF Begin, connection, samples
  <2>5. Stored' = Stored /\ recorded <= recorded'
    BY <1>0, <2>4 DEF Stored, Whole
  <2>6. /\ sample' \in [SpecIndex -> Stored'] /\ refSample' \in [SpecIndex -> Stored']
        /\ darkSample' \in [SpecIndex -> Stored']
        /\ specsMutex' \in [SpecIndex -> Thread \cup {NoThread, Main}] /\ live' \subseteq 1..recorded'
    BY <2>4, <2>5 DEF TypeInv
  <2>7. QED  BY <1>0, <2>2, <2>3, <2>4, <2>5, <2>6, TypeGoesOn
<1> DEFINE rest == Tail(todo[t])
           s == At(t)
<1>2. ASSUME todo[t] # <<>>
      PROVE  /\ Ordered(rest) /\ Head(todo[t]) \in AnyStep /\ s \in SpecIndex
             /\ rest # <<>> => InOrder(Head(todo[t]), Head(rest))
             /\ rest = <<>> => Head(todo[t]).op \notin {"clear", "scan"}
  <2>1. Head(todo[t]) \in AnyStep
    BY <1>0, <1>2, OrderedRest
  <2>2. s \in SpecIndex
    BY <2>1 DEF AnyStep, At
  <2>3. QED  BY <1>0, <1>2, <2>1, <2>2, OrderedRest
<1> HIDE DEF s
\* Steps that make no sample.
<1>3. ASSUME todo[t] # <<>>, Head(todo[t]).op \notin {"clear", "scan"},
             todo' = [todo EXCEPT ![t] = rest],
             UNCHANGED <<phase, claimed, recorded>>, live' \subseteq live,
             work' = [u \in Thread |-> work'[u]], \A u \in Thread \ {t} : work'[u] = work[u],
             sample' \in [SpecIndex -> Stored], refSample' \in [SpecIndex -> Stored],
             darkSample' \in [SpecIndex -> Stored],
             specsMutex' \in [SpecIndex -> Thread \cup {NoThread, Main}]
      PROVE  TypeInv'
  <2>1. Ordered(rest) /\ (rest # <<>> => Head(rest).op \notin {"scan", "store"})
    BY <1>2, <1>3 DEF InOrder
  <2> HIDE DEF rest
  <2>2. Stored' = Stored /\ recorded <= recorded' /\ live' \subseteq 1..recorded'
    BY <1>0, <1>3 DEF Stored, Whole, TypeInv
  <2>3. QED  BY <1>0, <1>3, <2>1, <2>2, TypeGoesOn
<1>4. /\ sample \in [SpecIndex -> Stored] /\ refSample \in [SpecIndex -> Stored]
      /\ darkSample \in [SpecIndex -> Stored] /\ live \subseteq 1..recorded
      /\ specsMutex \in [SpecIndex -> Thread \cup {NoThread, Main}]
  BY DEF TypeInv
<1>5. CASE Lock(t) \/ Unlock(t) \/ Load(t) \/ Use(t) \/ FreeSample(t) \/ CalculatePH(t) \/ Send(t)
  <2>1. /\ todo[t] # <<>> /\ Head(todo[t]).op \notin {"clear", "scan"}
        /\ todo' = [todo EXCEPT ![t] = rest]
        /\ UNCHANGED <<phase, claimed, recorded, sample, refSample, darkSample>> /\ live' \subseteq live
    BY <1>5 DEF Lock, Unlock, Load, Use, FreeSample, CalculatePH, Send, Step, Idle, Continue, connection,
                samples
  <2>2. specsMutex' \in [SpecIndex -> Thread \cup {NoThread, Main}]
    <3>1. \/ specsMutex' = specsMutex
          \/ specsMutex' = [specsMutex EXCEPT ![s] = t]
          \/ specsMutex' = [specsMutex EXCEPT ![s] = NoThread]
      BY <1>5 DEF Lock, Unlock, Load, Use, FreeSample, CalculatePH, Send, s
    <3>2. QED  BY <1>4, <3>1
  <2>3. work' = [u \in Thread |-> work'[u]] /\ \A u \in Thread \ {t} : work'[u] = work[u]
    <3>1. work' = work \/ work' = [work EXCEPT ![t] = sample[At(t)]]
      BY <1>5 DEF Lock, Unlock, Load, Use, FreeSample, CalculatePH, Send
    <3>2. QED  BY <1>0, <3>1
  <2>4. QED  BY <1>3, <1>4, <2>1, <2>2, <2>3
<1>6. CASE KeepSample(t)
  <2>1. /\ todo[t] # <<>> /\ Head(todo[t]).op \notin {"clear", "scan"}
        /\ todo' = [todo EXCEPT ![t] = rest]
        /\ UNCHANGED <<phase, claimed, recorded, sample, specsMutex, live, work>>
        /\ refSample' = refSample \/ refSample' = [refSample EXCEPT ![s] = sample[s]]
        /\ darkSample' = darkSample \/ darkSample' = [darkSample EXCEPT ![s] = sample[s]]
    BY <1>6 DEF KeepSample, Step, Idle, Continue, connection, s
  <2>2. refSample' \in [SpecIndex -> Stored] /\ darkSample' \in [SpecIndex -> Stored]
    <3>1. sample[s] \in Stored
      BY <1>2, <1>4, <2>1
    <3>2. QED  BY <1>4, <2>1, <3>1
  <2>3. QED  BY <1>0, <1>3, <1>4, <2>1, <2>2
<1>7. CASE StoreSample(t)
  <2>1. /\ todo[t] # <<>> /\ Head(todo[t]).op = "store"
        /\ todo' = [todo EXCEPT ![t] = rest]
        /\ UNCHANGED <<phase, claimed, recorded, refSample, darkSample, specsMutex, live, work>>
        /\ sample' = [sample EXCEPT ![s] = work[t]]
    BY <1>7 DEF StoreSample, Step, Idle, Continue, connection, s
  <2>2. sample' \in [SpecIndex -> Stored]
    <3>1. work[t] \in Stored
      BY <1>0, <2>1 DEF Making, In, Stored
    <3>2. QED  BY <1>4, <2>1, <3>1
  <2>3. QED  BY <1>0, <1>3, <1>4, <2>1, <2>2
<1>8. CASE ClearSample(t)
  <2> DEFINE new == [n |-> recorded + 1, scans |-> 0, of |-> Head(todo[t]).scans]
  <2>1. /\ todo[t] # <<>> /\ Head(todo[t]).op = "clear" /\ todo' = [todo EXCEPT ![t] = rest]
        /\ UNCHANGED <<phase, claimed, refSample, darkSample, specsMutex>>
        /\ recorded' = recorded + 1 /\ live' = live \cup {recorded + 1}
        /\ work' = [work EXCEPT ![t] = new] /\ sample' = [sample EXCEPT ![s] = NoSample]
    BY <1>8 DEF ClearSample, Step, Idle, Continue, connection, s
  <2>2. Head(todo[t]).scans \in {1, NumScans}
    BY <1>2, <2>1 DEF AnyStep
  <2>3. new \in Partial'
    <3>1. 0 \in 0..NumScans /\ 0 < Head(todo[t]).scans /\ recorded + 1 \in 1..(recorded + 1)
      BY <1>0, <2>2, SpecAssumption
    <3>2. QED  BY <2>1, <2>2, <3>1 DEF Partial
  <2>4. Ordered(rest) /\ (rest # <<>> => Head(rest).op # "store")
    BY <1>2, <2>1 DEF InOrder
  <2> HIDE DEF new, rest
  <2>5. /\ work'[t] = new /\ \A u \in Thread \ {t} : work'[u] = work[u]
        /\ work' = [u \in Thread |-> work'[u]]
    BY <1>0, <2>1
  <2>6. recorded' \in Nat /\ recorded <= recorded' /\ recorded + 1 \in 1..recorded'
    BY <1>0, <2>1
  <2>7. /\ \A r : r \in Stored => r \in Stored'
        /\ 1..recorded \subseteq 1..recorded' /\ NoSample \in Stored'
    BY <1>0, <2>6, WholeStays DEF Stored
  <2>8. /\ sample' \in [SpecIndex -> Stored'] /\ refSample' \in [SpecIndex -> Stored']
        /\ darkSample' \in [SpecIndex -> Stored'] /\ live' \subseteq 1..recorded'
    BY <1>4, <2>1, <2>6, <2>7
  <2>9. QED  BY <1>4, <2>1, <2>3, <2>4, <2>5, <2>6, <2>8, TypeGoesOn
<1>9. CASE Scan(t)
  <2>1. /\ todo[t] # <<>> /\ Head(todo[t]).op = "scan"
        /\ UNCHANGED <<phase, claimed, recorded, sample, refSample, darkSample, specsMutex>>
    BY <1>9 DEF Scan, Step, Idle, connection
  <2>2. /\ Stored' = Stored /\ Partial' = Partial /\ Whole' = Whole /\ recorded' \in Nat
        /\ recorded <= recorded' /\ 1..recorded' = 1..recorded
    BY <1>0, <2>1 DEF Stored, Whole, Partial
  <2>3. work[t] \in Partial
    BY <1>0, <2>1 DEF Making, In
  <2>4. Ordered(rest) /\ rest # <<>> /\ Head(rest).op = "store"
    BY <1>2, <2>1 DEF InOrder
  <2>5. Ordered(Tail(rest)) /\ (Tail(rest) # <<>> => Head(Tail(rest)).op \notin {"scan", "store"})
    BY <2>4, OrderedRest DEF InOrder
  <2>6. CASE ScanFails(t)
    <3>1. todo' = [todo EXCEPT ![t] = Tail(rest)] /\ work' = work /\ live' \subseteq live
      BY <2>6 DEF ScanFails
    <3> DEFINE last == Tail(rest)
    <3>2. /\ todo' = [todo EXCEPT ![t] = last] /\ Ordered(last)
          /\ last # <<>> => Head(last).op \notin {"scan", "store"}
      BY <2>5, <3>1
    <3> HIDE DEF last, rest
    <3>3. QED  BY <1>0, <1>4, <2>1, <2>2, <3>1, <3>2, TypeGoesOn
  <2>7. CASE Scanned(t)
    <3>1. /\ work' = [work EXCEPT ![t].scans = @ + 1] /\ live' = live
          /\ IF work[t].scans + 1 = work[t].of THEN todo' = [todo EXCEPT ![t] = rest]
             ELSE todo' = todo
      BY <2>7 DEF Scanned, Continue
    <3>2. /\ work'[t] = [work[t] EXCEPT !.scans = @ + 1] /\ \A u \in Thread \ {t} : work'[u] = work[u]
          /\ work' = [u \in Thread |-> work'[u]]
      BY <1>0, <3>1
    <3>3. /\ work[t] \in [n : 1..recorded, scans : 0..NumScans, of : {1, NumScans}]
          /\ work[t].scans < work[t].of /\ work[t].scans \in Nat /\ work[t].of \in 0..NumScans
      BY <2>3, SpecAssumption DEF Partial
    <3>4. /\ work'[t] \in [n : 1..recorded, scans : 0..NumScans, of : {1, NumScans}]
          /\ work'[t].scans = work[t].scans + 1 /\ work'[t].of = work[t].of
      <4>1. work[t].scans + 1 \in 0..NumScans
        BY <3>3, SpecAssumption
      <4>2. QED  BY <3>2, <3>3, <4>1
    <3>5. CASE work[t].scans + 1 = work[t].of
      <4>1. work'[t] \in Whole /\ todo' = [todo EXCEPT ![t] = rest]
        BY <3>1, <3>4, <3>5 DEF Whole
      <4> HIDE DEF rest
      <4>2. QED  BY <1>0, <1>4, <2>1, <2>2, <2>4, <3>1, <3>2, <4>1, TypeGoesOn
    <3>6. CASE work[t].scans + 1 # work[t].of
      <4> DEFINE same == todo[t]
      <4>1. work'[t] \in Partial
        BY <3>3, <3>4, <3>6, SpecAssumption DEF Partial
      <4>2. /\ todo' = [todo EXCEPT ![t] = same] /\ Ordered(same) /\ Head(same).op = "scan"
        BY <1>0, <2>1, <3>1, <3>6 DEF TypeInv
      <4> HIDE DEF same
      <4>3. QED  BY <1>0, <1>4, <2>1, <2>2, <3>1, <3>2, <4>1, <4>2, TypeGoesOn
    <3>7. QED  BY <3>5, <3>6
  <2>8. QED  BY <1>9, <2>6, <2>7 DEF Scan
<1>10. QED  BY <1>1, <1>5, <1>6, <1>7, <1>8, <1>9 DEF Work

\* Whatever the clients ask for, and also when two threads take samples on one
\* spectrometer: a sample, reference or dark sample is an average of as many scans as
\* were asked for, and devices, mutexes and buffers are what they should be.
THEOREM Typing ==
  ASSUME AnyRequests
  PROVE  Spec => []TypeOK
<1>1. TypeInv => TypeOK
  <2> SUFFICES ASSUME TypeInv
               PROVE  TypeOK
    OBVIOUS
  <2>1. \A s \in SpecIndex :
          /\ {sample[s], refSample[s], darkSample[s]} \subseteq Whole \cup {NoSample}
          /\ specsMutex[s] \in Thread \cup {NoThread, Main}
    BY DEF TypeInv, Stored
  <2>2. QED  BY <2>1 DEF TypeInv, TypeOK
<1>2. ConnectInv /\ TypeInv /\ [Next]_vars => (ConnectInv /\ TypeInv)'
  BY ConnectStep, TypeMain, TypeStep DEF Next
<1>3. Spec => Init /\ [][Next]_vars
  BY PTL DEF Spec
<1>4. QED  BY <1>1, <1>2, <1>3, ConnectInit, TypeInit, PTL
=============================================================================
