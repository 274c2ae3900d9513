---------------------------- MODULE SettingsProofs ----------------------------
(* Theorems about Settings, for any threads, values, requests and restarts:  *)
(* the bench file has what memory has; what is saved and what is logged of   *)
(* the configuration is what memory has, but for what SSP has set since; a   *)
(* crash leaves the old configuration, the new one or nothing; wavelengths   *)
(* have their pixels.                                                        *)
(*                                                                           *)
(* The last four rest on one invariant, SettingsInv.  What a thread is       *)
(* still to do is a plan (PlanInv): the setters' steps in a legal order, so  *)
(* that the step a thread is at says what it has done.  That every request   *)
(* of the menu is a plan, and that reading a text gives what was printed to  *)
(* it, is shown first: the folds and lists these go through are recursive,   *)
(* and what is said of them is shown by a least counterexample.              *)
(*                                                                           *)
(* The last part is about Acquisition, which shares Absorbance with Settings:*)
(* the integration time arrives as it was sent, averaging and smoothing stay *)
(* within what was measured, and dimmed light is not absorbed.  Its folds,   *)
(* sums, digits and quotients have lemmas of their own.                      *)
EXTENDS Settings, Acquisition, FiniteSetTheorems, SequenceTheorems, WellFoundedInduction,
        TLAPS

-----------------------------------------------------------------------------
(* One section of benchConfigMutex at a time.                              *)

BenchTodo == {<<>>} \cup {<< <<"copy", v>>, <<"open">> >> : v \in BenchValue}
             \cup {<< <<"open">> >>}
             \cup {<< <<"print", v>> >> : v \in BenchValue \cup {Default, Unset}}

Prints(t) == benchTodo[t] # <<>> /\ Head(benchTodo[t])[1] = "print"
Saves(t) == benchTodo[t] = << <<"open">> >>

BenchType ==
  /\ bench \in BenchValue \cup {Default, Unset}
  /\ benchFile \in BenchValue \cup {Default, Unset, "empty"}
  /\ benchMutex \in Thread \cup {NoThread}
  /\ benchTodo \in [Thread -> BenchTodo]

\* Who prints holds the mutex, and prints what is in memory.
PrintsMemory ==
  /\ \A t \in Thread : benchMutex = t <=> Prints(t)
  /\ \A t \in Thread : Prints(t) => benchTodo[t] = << <<"print", bench>> >>

\* When nobody writes the file, it is right or somebody is still to save it.
SavedOrDue ==
  benchMutex = NoThread =>
    Bench!Read(benchFile) = bench \/ \E t \in Thread : Saves(t)

BenchInv == BenchType /\ PrintsMemory /\ SavedOrDue

LEMMA BenchInvInit == SInit => BenchInv
BY ThreadAssumption, BenchAssumption
DEF SInit, Bench!Init, BenchInv, BenchType, BenchTodo, PrintsMemory, SavedOrDue, Prints,
    Bench!Read

\* The forms of what a thread has still to do.
LEMMA Forms ==
  ASSUME NEW steps \in BenchTodo
  PROVE  /\ steps = <<>> \/ Head(steps)[1] \in {"copy", "open", "print"}
         /\ steps # <<>> /\ Head(steps)[1] = "copy" =>
              \E v \in BenchValue : steps = << <<"copy", v>>, <<"open">> >>
         /\ steps # <<>> /\ Head(steps)[1] = "open" => steps = << <<"open">> >>
         /\ steps # <<>> /\ Head(steps)[1] = "print" =>
              \E v \in BenchValue \cup {Default, Unset} : steps = << <<"print", v>> >>
BY DEF BenchTodo

LEMMA BenchBegin ==
  ASSUME BenchInv, NEW t \in Thread, NEW v \in BenchValue, Bench!receiveSaveBenchConfig(t, v)
  PROVE  BenchInv'
<1>1. /\ benchTodo[t] = <<>> /\ benchTodo \in [Thread -> BenchTodo]
      /\ benchTodo' = [benchTodo EXCEPT ![t] = << <<"copy", v>>, <<"open">> >>]
      /\ UNCHANGED <<bench, benchFile, benchMutex>>
  BY DEF BenchInv, BenchType, Bench!receiveSaveBenchConfig, Bench!Idle
<1>2. << <<"copy", v>>, <<"open">> >> \in BenchTodo
  BY DEF BenchTodo
<1>3. BenchType'
  BY <1>1, <1>2 DEF BenchInv, BenchType
<1>4. /\ ~Prints(t) /\ ~Prints(t)' /\ ~Saves(t)
      /\ \A u \in Thread \ {t} : benchTodo'[u] = benchTodo[u]
  BY <1>1 DEF Prints, Saves
<1>5. PrintsMemory'
  BY <1>1, <1>4 DEF BenchInv, PrintsMemory, Prints
<1>6. SavedOrDue'
  BY <1>1, <1>4 DEF BenchInv, SavedOrDue, Saves, Bench!Read
<1>7. QED  BY <1>3, <1>5, <1>6 DEF BenchInv

LEMMA BenchCopy ==
  ASSUME BenchInv, NEW t \in Thread, Bench!Copy(t)
  PROVE  BenchInv'
<1>1. benchTodo[t] # <<>> /\ Head(benchTodo[t])[1] = "copy" /\ benchTodo \in [Thread -> BenchTodo]
  BY DEF BenchInv, BenchType, Bench!Copy, Bench!Step, Bench!Idle
<1>2. PICK v \in BenchValue : benchTodo[t] = << <<"copy", v>>, <<"open">> >>
  BY <1>1, Forms
<1>3. /\ bench' = v /\ benchTodo' = [benchTodo EXCEPT ![t] = << <<"open">> >>]
      /\ benchMutex = NoThread /\ UNCHANGED <<benchFile, benchMutex>>
  <2>1. Head(benchTodo[t])[2] = v /\ Tail(benchTodo[t]) = << <<"open">> >>
    BY <1>2
  <2>2. QED  BY <2>1 DEF Bench!Copy, Bench!Continue
<1>4. BenchType'
  <2>1. << <<"open">> >> \in BenchTodo
    BY DEF BenchTodo
  <2>2. QED  BY <1>1, <1>3, <2>1 DEF BenchInv, BenchType
<1>5. \A u \in Thread : ~Prints(u)
  BY <1>3, ThreadAssumption DEF BenchInv, PrintsMemory
<1>6. Saves(t)' /\ ~Prints(t)' /\ \A u \in Thread \ {t} : benchTodo'[u] = benchTodo[u]
  BY <1>1, <1>3 DEF Saves, Prints
<1>7. \A u \in Thread : ~Prints(u)'
  BY <1>5, <1>6 DEF Prints
<1>8. PrintsMemory'
  BY <1>3, <1>7, ThreadAssumption DEF PrintsMemory
<1>9. QED  BY <1>4, <1>6, <1>8 DEF BenchInv, SavedOrDue

LEMMA BenchOpen ==
  ASSUME BenchInv, NEW t \in Thread, Bench!Open(t)
  PROVE  BenchInv'
<1>1. /\ benchMutex = NoThread /\ benchMutex' = t /\ benchFile' = "empty" /\ bench' = bench
      /\ benchTodo' = [benchTodo EXCEPT ![t] = << <<"print", bench>> >>]
      /\ bench \in BenchValue \cup {Default, Unset} /\ benchTodo \in [Thread -> BenchTodo]
  BY DEF Bench!Open, BenchInv, BenchType
<1>2. BenchType'
  <2>1. << <<"print", bench>> >> \in BenchTodo
    BY <1>1 DEF BenchTodo
  <2>2. QED  BY <1>1, <2>1 DEF BenchInv, BenchType
<1>3. \A u \in Thread : ~Prints(u)
  BY <1>1, ThreadAssumption DEF BenchInv, PrintsMemory
<1>4. /\ benchTodo'[t] = << <<"print", bench>> >>
      /\ \A u \in Thread \ {t} : benchTodo'[u] = benchTodo[u]
  BY <1>1
<1>5. Prints(t)' /\ \A u \in Thread \ {t} : ~Prints(u)'
  BY <1>3, <1>4 DEF Prints
<1>6. PrintsMemory'
  BY <1>1, <1>4, <1>5 DEF PrintsMemory
<1>7. QED  BY <1>1, <1>2, <1>6, ThreadAssumption DEF BenchInv, SavedOrDue

LEMMA BenchClose ==
  ASSUME BenchInv, NEW t \in Thread, Bench!Close(t)
  PROVE  BenchInv'
<1>1. Prints(t) /\ benchTodo[t] = << <<"print", bench>> >> /\ benchMutex = t
  BY DEF Bench!Close, Bench!Step, Bench!Idle, BenchInv, PrintsMemory, Prints
<1>2. /\ benchFile' = bench /\ benchMutex' = NoThread /\ bench' = bench
      /\ benchTodo' = [benchTodo EXCEPT ![t] = <<>>]
      /\ bench \in BenchValue \cup {Default, Unset} /\ benchTodo \in [Thread -> BenchTodo]
  <2>1. Head(benchTodo[t])[2] = bench /\ Tail(benchTodo[t]) = <<>>
    BY <1>1
  <2>2. QED  BY <2>1 DEF Bench!Close, Bench!Continue, BenchInv, BenchType
<1>3. BenchType'
  BY <1>2 DEF BenchInv, BenchType, BenchTodo
<1>4. \A u \in Thread \ {t} : ~Prints(u) /\ benchTodo'[u] = benchTodo[u]
  BY <1>1, <1>2 DEF BenchInv, PrintsMemory
<1>5. \A u \in Thread : ~Prints(u)'
  BY <1>2, <1>4 DEF Prints
<1>6. PrintsMemory'
  BY <1>2, <1>5, ThreadAssumption DEF PrintsMemory
<1>7. SavedOrDue'
  BY <1>2, BenchAssumption DEF SavedOrDue, Bench!Read
<1>8. QED  BY <1>3, <1>6, <1>7 DEF BenchInv

LEMMA BenchRestart ==
  ASSUME BenchInv, Bench!Restart
  PROVE  BenchInv'
<1>1. /\ bench' = Bench!Read(benchFile) /\ benchFile' = benchFile /\ benchMutex' = NoThread
      /\ benchTodo' = [t \in Thread |-> <<>>]
  BY DEF Bench!Restart
<1>2. BenchType'
  BY <1>1 DEF BenchInv, BenchType, BenchTodo, Bench!Read
<1>3. PrintsMemory'
  BY <1>1, ThreadAssumption DEF PrintsMemory, Prints
<1>4. SavedOrDue'
  BY <1>1 DEF SavedOrDue, Bench!Read
<1>5. QED  BY <1>2, <1>3, <1>4 DEF BenchInv

LEMMA BenchInvStep == BenchInv /\ [SNext]_allVars => BenchInv'
<1>1. ASSUME BenchInv, UNCHANGED benchVars
      PROVE  BenchInv'
  BY <1>1 DEF benchVars, BenchInv, BenchType, PrintsMemory, SavedOrDue, Prints, Saves, Bench!Read
<1>2. ASSUME NEW t \in Thread, Configure(t) \/ ConfigWork(t)
      PROVE  UNCHANGED benchVars
  BY <1>2 DEF Configure, ConfigWork
<1>3. ASSUME BenchInv, NEW t \in Thread, SaveBench(t)
      PROVE  BenchInv'
  BY <1>3, BenchBegin DEF SaveBench
<1>4. ASSUME BenchInv, NEW t \in Thread, BenchWork(t)
      PROVE  BenchInv'
  BY <1>4, BenchCopy, BenchOpen, BenchClose DEF BenchWork, Bench!Work
<1>5. ASSUME BenchInv, SRestart
      PROVE  BenchInv'
  BY <1>5, BenchRestart DEF SRestart
<1>6. UNCHANGED allVars => UNCHANGED benchVars
  BY DEF allVars
<1>7. QED  BY <1>1, <1>2, <1>3, <1>4, <1>5, <1>6 DEF SNext

\* Once all saves are done the bench file has what memory has: for any number of
\* clients that save at once, and crashes at any moment.
THEOREM BenchIsSaved == SSpec => []BenchSaved
<1>1. BenchInv => BenchSaved
  <2> SUFFICES ASSUME BenchInv, \A t \in Thread : benchTodo[t] = <<>>
               PROVE  Bench!Read(benchFile) = bench
    BY DEF BenchSaved, Bench!BenchSaved, Bench!Idle
  <2>1. \A t \in Thread : ~Prints(t) /\ ~Saves(t)
    BY DEF Prints, Saves
  <2>2. benchMutex = NoThread
    BY <2>1 DEF BenchInv, BenchType, PrintsMemory
  <2>3. QED  BY <2>1, <2>2 DEF BenchInv, SavedOrDue
<1>2. SSpec => SInit /\ [][SNext]_allVars
  BY DEF SSpec
<1>3. QED  BY <1>1, <1>2, BenchInvInit, BenchInvStep, PTL

-----------------------------------------------------------------------------
(* Sequences that are put together.                                        *)

LEMMA LeastExists ==
  ASSUME NEW S \in SUBSET Nat, S # {}
  PROVE  \E x \in S : \A y \in S : x <= y
<1> DEFINE R == OpToRel(<, Nat)
<1>1. \E x \in S : \A y \in S : ~ (<<y, x>> \in R)
  <2>1. IsWellFoundedOn(R, Nat)
    BY NatLessThanWellFounded
  <2> HIDE DEF R
  <2>2. QED  BY <2>1, WFMin
<1>2. PICK x \in S : \A y \in S : ~ (<<y, x>> \in R)
  BY <1>1
<1>3. \A y \in S : ~ (y < x)
  BY <1>2 DEF OpToRel
<1>4. QED  BY <1>3

\* The recursion of FlattenSeq.
Flattens(seqs, n, g) ==
  g = [i \in 1..n |-> IF i = 1 THEN seqs[i] ELSE g[i - 1] \o seqs[i]]

LEMMA FlattensExists ==
  ASSUME NEW seqs, NEW n \in Nat
  PROVE  \E g : Flattens(seqs, n, g)
<1> DEFINE Bad == {k \in Nat : ~\E g : Flattens(seqs, k, g)}
<1>1. SUFFICES ASSUME Bad # {}  PROVE FALSE
  OBVIOUS
<1>2. PICK k \in Bad : \A y \in Bad : k <= y
  BY <1>1, LeastExists
<1>3. CASE k = 0
  <2>1. Flattens(seqs, 0, [i \in 1..0 |-> 0])
    BY DEF Flattens
  <2>2. QED  BY <1>2, <1>3, <2>1
<1>4. CASE k # 0
  <2>1. k - 1 \in Nat /\ k - 1 \notin Bad
    BY <1>2, <1>4
  <2>2. PICK g : Flattens(seqs, k - 1, g)
    BY <2>1
  <2> DEFINE h == [i \in 1..k |-> IF i = k THEN (IF k = 1 THEN seqs[k] ELSE g[k - 1] \o seqs[k])
                                  ELSE g[i]]
  <2>3. ASSUME NEW i \in 1..k
        PROVE  h[i] = IF i = 1 THEN seqs[i] ELSE h[i - 1] \o seqs[i]
    <3>1. CASE i = k
      BY <1>2, <3>1
    <3>2. CASE i # k
      <4>1. i \in 1..k - 1
        BY <1>2, <3>2
      <4>2. g[i] = IF i = 1 THEN seqs[i] ELSE g[i - 1] \o seqs[i]
        BY <2>2, <4>1 DEF Flattens
      <4>3. h[i] = g[i] /\ (i # 1 => h[i - 1] = g[i - 1])
        BY <1>2, <3>2
      <4> HIDE DEF h
      <4>4. QED  BY <4>2, <4>3
    <3>3. QED  BY <3>1, <3>2
  <2>4. h = [i \in 1..k |-> h[i]]
    OBVIOUS
  <2> HIDE DEF h
  <2>5. Flattens(seqs, k, h)
    <3>1. [i \in 1..k |-> h[i]] = [i \in 1..k |-> IF i = 1 THEN seqs[i] ELSE h[i - 1] \o seqs[i]]
      BY <2>3
    <3>2. QED  BY <2>4, <3>1 DEF Flattens
  <2>6. QED  BY <1>2, <2>5
<1>5. QED  BY <1>3, <1>4

\* A flattened sequence ends with its last member.
LEMMA FlattenedEnds ==
  ASSUME NEW S, NEW seqs, NEW n \in Nat \ {0}, Len(seqs) = n, \A i \in 1..n : seqs[i] \in Seq(S)
  PROVE  FlattenSeq(seqs) \in Seq(S) /\ \E x \in Seq(S) : FlattenSeq(seqs) = x \o seqs[n]
<1> DEFINE g == CHOOSE g : Flattens(seqs, n, g)
<1>1. FlattenSeq(seqs) = g[n]
  BY DEF FlattenSeq, Flattens
<1>2. Flattens(seqs, n, g)
  BY FlattensExists
<1> HIDE DEF g
<1>3. \A i \in 1..n : g[i] = IF i = 1 THEN seqs[i] ELSE g[i - 1] \o seqs[i]
  BY <1>2 DEF Flattens
<1>4. \A i \in 1..n : g[i] \in Seq(S)
  <2> DEFINE Bad == {k \in 1..n : g[k] \notin Seq(S)}
  <2>1. SUFFICES ASSUME Bad # {}  PROVE FALSE
    OBVIOUS
  <2>2. PICK k \in Bad : \A y \in Bad : k <= y
    <3>1. Bad \in SUBSET Nat /\ Bad # {}
      BY <2>1
    <3> HIDE DEF Bad
    <3>2. QED  BY <3>1, LeastExists
  <2>3. CASE k = 1
    BY <1>3, <2>2, <2>3
  <2>4. CASE k # 1
    <3>1. k - 1 \in 1..n /\ k - 1 \notin Bad
      BY <2>2, <2>4
    <3>2. g[k] = g[k - 1] \o seqs[k] /\ g[k - 1] \in Seq(S) /\ seqs[k] \in Seq(S)
      BY <1>3, <2>2, <2>4, <3>1
    <3>3. g[k - 1] \o seqs[k] \in Seq(S)
      BY <3>2, ConcatProperties
    <3>4. QED  BY <2>2, <3>2, <3>3
  <2>5. QED  BY <2>3, <2>4
<1>5. CASE n = 1
  <2> DEFINE none == <<>>
  <2>1. none \in Seq(S) /\ seqs[n] \in Seq(S) /\ none \o seqs[n] = seqs[n]
    BY EmptySeq, ConcatEmptySeq
  <2>2. g[n] = seqs[n]
    BY <1>3, <1>5
  <2> HIDE DEF none
  <2>3. QED  BY <1>1, <1>4, <2>1, <2>2
<1>6. CASE n # 1
  <2>1. n - 1 \in 1..n /\ n \in 1..n
    BY <1>6
  <2>2. g[n] = g[n - 1] \o seqs[n]
    BY <1>3, <1>6, <2>1
  <2>3. QED  BY <1>1, <1>4, <2>1, <2>2
<1>7. QED  BY <1>5, <1>6


\* A sequence of whatever.
IsSeq(steps) == steps \in Seq({steps[i] : i \in DOMAIN steps})

LEMMA SeqIs ==
  ASSUME NEW S, NEW q \in Seq(S)
  PROVE  IsSeq(q)
<1>1. q \in [1..Len(q) -> S] /\ Len(q) \in Nat /\ DOMAIN q = 1..Len(q)
  BY LenProperties
<1> DEFINE T == {q[i] : i \in DOMAIN q}
<1>2. q \in [1..Len(q) -> T]
  BY <1>1
<1>3. q \in Seq(T)
  <2> HIDE DEF T
  <2>1. QED  BY <1>1, <1>2, SeqDef
<1>4. QED  BY <1>3 DEF IsSeq

LEMMA ListIs ==
  ASSUME NEW n \in Nat, NEW q, q = [i \in 1..n |-> q[i]]
  PROVE  IsSeq(q) /\ Len(q) = n
<1> DEFINE T == {q[i] : i \in DOMAIN q}
<1>1. q \in [1..n -> T]
  OBVIOUS
<1>2. q \in Seq(T)
  <2> HIDE DEF T
  <2>1. QED  BY <1>1, SeqDef
<1>3. DOMAIN q = 1..n /\ DOMAIN q = 1..Len(q) /\ Len(q) \in Nat
  <2>1. DOMAIN q = 1..n
    OBVIOUS
  <2> HIDE DEF T
  <2>2. QED  BY <1>2, <2>1, LenProperties
<1>4. Len(q) = n
  BY <1>3
<1>5. QED  BY <1>2, <1>4 DEF IsSeq

LEMMA ConcatIs ==
  ASSUME NEW a, NEW b, IsSeq(a), IsSeq(b)
  PROVE  /\ IsSeq(a \o b) /\ Len(a) \in Nat /\ Len(b) \in Nat
         /\ Len(a \o b) = Len(a) + Len(b)
         /\ \A i \in 1..Len(a) : (a \o b)[i] = a[i]
         /\ \A i \in 1..Len(b) : (a \o b)[Len(a) + i] = b[i]
         /\ \A i \in Len(a) + 1..Len(a) + Len(b) : (a \o b)[i] = b[i - Len(a)]
<1>1. PICK A, B : a \in Seq(A) /\ b \in Seq(B)
  BY DEF IsSeq
<1>2. a \in Seq(A \cup B) /\ b \in Seq(A \cup B)
  <2>1. A \subseteq A \cup B /\ B \subseteq A \cup B
    OBVIOUS
  <2>2. QED  BY <1>1, <2>1, SeqMonotonic
<1> DEFINE S == A \cup B
<1>3. a \in Seq(S) /\ b \in Seq(S)
  BY <1>2
<1> HIDE DEF S
<1>4. a \o b \in Seq(S) /\ Len(a) \in Nat /\ Len(b) \in Nat
  BY <1>3
<1>5. IsSeq(a \o b)
  BY <1>4, SeqIs
<1>6. /\ Len(a \o b) = Len(a) + Len(b)
      /\ \A i \in 1..Len(a) + Len(b) : (a \o b)[i] = IF i <= Len(a) THEN a[i] ELSE b[i - Len(a)]
  BY <1>3, ConcatProperties
<1>7. QED  BY <1>4, <1>5, <1>6

LEMMA TailIs ==
  ASSUME NEW a, IsSeq(a), a # <<>>
  PROVE  /\ IsSeq(Tail(a)) /\ Len(a) \in Nat /\ Len(a) > 0 /\ Len(Tail(a)) = Len(a) - 1
         /\ Head(a) = a[1]
         /\ \A i \in 1..Len(a) - 1 : Tail(a)[i] = a[i + 1]
<1> DEFINE S == {a[i] : i \in DOMAIN a}
<1>1. a \in Seq(S)
  BY DEF IsSeq
<1> HIDE DEF S
<1>2. Tail(a) \in Seq(S) /\ Len(Tail(a)) = Len(a) - 1
  BY <1>1, HeadTailProperties
<1>3. \A i \in 1..Len(Tail(a)) : Tail(a)[i] = a[i + 1]
  BY <1>1, HeadTailProperties
<1>4. Len(a) \in Nat /\ Len(a) > 0 /\ Head(a) = a[1]
  BY <1>1
<1>5. QED  BY <1>2, <1>3, <1>4, SeqIs

-----------------------------------------------------------------------------
(* What is to be saved: configurations and texts.                          *)

\* A configuration of any values.
Shape(c) ==
  /\ c = [k \in DOMAIN Blank |-> c[k]]
  /\ c.count \in 0..MaxAbsWaves
  /\ c.waves \in [1..MaxAbsWaves -> Nat]
  /\ c.nonAbs \in Nat
  /\ c.cal = [i \in 1..MaxAbsWaves |-> c.cal[i]]
  /\ c.pixels = [i \in 1..MaxAbsWaves |-> c.pixels[i]]

\* A line is whole where it begins; of the units after that only their number counts.
LineFits(line) ==
  IF line.spec = 0 THEN line.key = "mode"
  ELSE /\ line.spec \in SpecIndex
       /\ line.key \in {"dwell", "integration", "scans", "waves", "nonAbs", "analyte",
                        "measure", "cal"}
       /\ line.key = "waves" => line.value \in Seq(Nat) /\ Len(line.value) <= MaxAbsWaves
       /\ line.key = "cal" => IsSeq(line.value)
       /\ line.key = "nonAbs" => line.value \in Nat
TextFits(text) == IsSeq(text) /\ \A i \in 1..Len(text) : LineFits(text[i][1])

-----------------------------------------------------------------------------
(* The steps of a request, one after the other.                            *)

\* A setter's step, but SSP's: what it changes will be saved and logged.
Sets(st) == \/ st.op \in {"wave", "found", "cal"}
            \/ st.op = "put" /\ DOMAIN st.fields \cap Sampling = {}
Tunes(st) == st.op = "put" /\ DOMAIN st.fields \subseteq Sampling /\ DOMAIN st.fields # {}
Dwells(st) == st.op = "put" /\ DOMAIN st.fields = {"dwell"}
Overrides(st) == st.op \in {"override", "entry", "force", "rest"}
Applies(st) == Overrides(st) \/ st.op \in {"pixel", "store", "storeNon"}
Pends(st) == Sets(st) \/ Applies(st) \/ st.op = "open"
Writes(st) == st.op \in {"lock", "print", "close"}
Logs(st) == st.op \in {"dataLock", "copy", "log"}

\* What is assigned fits the field.
FieldsFit(f) ==
  /\ "pixels" \notin DOMAIN f
  /\ "cal" \in DOMAIN f => f.cal = [i \in 1..MaxAbsWaves |-> f.cal[i]]
  /\ "count" \in DOMAIN f => f.count \in 0..MaxAbsWaves
  /\ "waves" \in DOMAIN f => f.waves \in [1..MaxAbsWaves -> Nat]
  /\ "nonAbs" \in DOMAIN f => f.nonAbs \in Nat

StepFits(st) ==
  /\ \/ Sets(st) \/ Tunes(st) \/ Applies(st) \/ Writes(st) \/ Logs(st)
     \/ st.op \in {"mode", "open"}
  /\ st.op \notin {"mode", "open", "lock", "close", "dataLock"} => st.spec \in SpecIndex
  /\ st.op \in {"put", "force"} => FieldsFit(st.fields)
  /\ st.op = "force" => DOMAIN st.fields \cap Sampling = {}
  /\ st.op \in {"wave", "entry"} => st.w \in Nat
  /\ st.op \in {"pixel", "store"} => st.j \in Nat \ {0}

\* Which step may come after which.
Follows(a, b) ==
  /\ a.op # "mode"
  /\ Sets(a) => IF Dwells(a) THEN b.op = "open"
                ELSE \/ Sets(b) /\ ~Dwells(b) /\ b.spec = a.spec
                     \/ b.op = "override" /\ b.spec = 1
  /\ Tunes(a) => Tunes(b) \/ (b.op = "override" /\ b.spec = 1)
  /\ Overrides(a) => /\ b.spec = a.spec
                     /\ b.op \in {"entry", "force", "rest"} \/ (b.op = "pixel" /\ b.j = 1)
  /\ a.op = "store" => b.op = "pixel" /\ b.spec = a.spec /\ b.j = a.j + 1
  /\ a.op \in {"pixel", "storeNon"} =>
       IF a.spec = NumSpecs THEN b.op = "open" ELSE b.op = "override" /\ b.spec = a.spec + 1
  /\ a.op = "open" => b.op = "lock"
  /\ a.op = "lock" => b.op = "print" /\ b.spec = 1
  /\ a.op = "print" =>
       IF a.spec = NumSpecs THEN b.op = "close" ELSE b.op = "print" /\ b.spec = a.spec + 1
  /\ a.op = "close" => b.op = "dataLock"
  /\ a.op = "dataLock" => b.op = "copy" /\ b.spec = 1
  /\ a.op \in {"copy", "log"} =>
       IF a.spec = NumSpecs THEN b.op = "cal" /\ b.j = 1
       ELSE b.op = "copy" /\ b.spec = a.spec + 1

Ends(st) == st.op = "mode" \/ Tunes(st) \/ (st.op \in {"copy", "log"} /\ st.spec = NumSpecs)

Chain(steps) ==
  /\ IsSeq(steps)
  /\ \A i \in 1..Len(steps) : StepFits(steps[i])
  /\ \A i \in 1..Len(steps) : i < Len(steps) => Follows(steps[i], steps[i + 1])

Plan(steps) ==
  /\ Chain(steps)
  /\ Len(steps) > 0 => Ends(steps[Len(steps)])

Now(t) == Head(todo[t])

PlanInv ==
  /\ config = [s \in SpecIndex |-> config[s]]
  /\ todo = [t \in Thread |-> todo[t]]
  /\ buffer = [t \in Thread |-> buffer[t]]
  /\ logged = [s \in SpecIndex |-> logged[s]]
  /\ behind = [s \in SpecIndex |-> behind[s]]
  /\ \A t \in Thread : Plan(todo[t])
  /\ \A s \in SpecIndex : Shape(config[s])
  /\ TextFits(file)
  /\ \A t \in Thread : TextFits(buffer[t])
  /\ closes \in Nat
  /\ mutex \in Thread \cup {NoThread}
  /\ dataMutex \in Thread \cup {NoThread}

-----------------------------------------------------------------------------
(* What is logged, saved, left by a crash, and found for the wavelengths.  *)

\* t will still copy the configuration of s for the data file.
ToCopy(t, s) ==
  /\ ~Idle(t)
  /\ \/ Pends(Now(t)) \/ Writes(Now(t)) \/ Now(t).op = "dataLock"
     \/ Now(t).op = "copy" /\ Now(t).spec <= s
     \/ Now(t).op = "log" /\ Now(t).spec < s

\* A copy is what memory has, but for what SSP has set.
Agrees(copy, s) == Differ(copy, Copied(config[s])) \subseteq Unsaved(s, "log")

Logging(t, s) == ~Idle(t) /\ Now(t).op = "log" /\ Now(t).spec = s

LogInv ==
  /\ \A t \in Thread : dataMutex = t <=> ~Idle(t) /\ Now(t).op \in {"copy", "log"}
  /\ \A s \in SpecIndex :
       \/ Agrees(logged[s].config, s) /\ logged[s].slopes = LoggedSlopes(s, config[s])
       \/ \E t \in Thread : ToCopy(t, s)
       \/ \E t \in Thread : Logging(t, s)
  /\ \A t \in Thread, s \in SpecIndex :
       Logging(t, s) => Agrees(Now(t).copy, s) \/ \E u \in Thread : ToCopy(u, s)

ToSave(t) == ~Idle(t) /\ Pends(Now(t))
Saving(t) == ~Idle(t) /\ Writes(Now(t))

\* What is printed is what memory has, up to spectrometer k.
Printed(text, k) ==
  /\ readConfig(text).mode = mode
  /\ \A s \in 1..k :
       Differ(Saved(s, readConfig(text).config[s]), Saved(s, config[s]))
         \subseteq Unsaved(s, "file")

SaveInv ==
  /\ \A t \in Thread : mutex = t <=> ~Idle(t) /\ Now(t).op \in {"print", "close"}
  /\ closes = 0 /\ (\E t \in Thread : Saving(t)) => file = <<>>
  /\ closes = 0 /\ (\A t \in Thread : ~ToSave(t)) =>
       \A t \in Thread : Saving(t) /\ (\A u \in Thread : Saving(u) => u = t) =>
         /\ Now(t).op = "print" => Printed(buffer[t], Now(t).spec - 1)
         /\ Now(t).op = "close" => Printed(buffer[t], NumSpecs)
  /\ closes = 1 /\ (\A t \in Thread : ~ToSave(t) /\ ~Saving(t)) => Printed(file, NumSpecs)

\* Who is alone has not been interfered with.
AloneInv ==
  /\ alone => \A t, u \in Thread : ~Idle(t) /\ ~Idle(u) => t = u
  /\ ~alone => {"file", "pixels"} \subseteq raced
  /\ alone => \A t \in Thread : Saving(t) =>
       /\ closes = 0
       /\ Now(t).op = "print" => \A s \in 1..Now(t).spec - 1 : "file" \notin behind[s]
       /\ Now(t).op = "close" => \A s \in SpecIndex : "file" \notin behind[s]

\* What a process that dies leaves.
CrashInv ==
  "file" \notin raced =>
    /\ Quiet => Loaded = before \/ Loaded = AllSaved(config)
    /\ \A t \in Thread : ~Idle(t) =>
         IF Logs(Now(t)) THEN Loaded = AllSaved(config)
         ELSE \/ Writes(Now(t)) \/ Loaded = before
              \/ Now(t).op = "cal" /\ Now(t).j = 1 /\ Loaded = AllSaved(config)

\* The pixels of a configuration are those of its wavelengths.
FollowIn(s, c) ==
  /\ \A i \in 1..c.count : c.pixels[i] = calcPixelValueForWavelength(s, c.waves[i])
  /\ c.nonAbsPixel = calcPixelValueForWavelength(s, c.nonAbs)

Follow(s) == FollowIn(s, config[s])

\* Neither in what t has set nor in what it is about to set are pixels to be found.
KeepsPixels(t) ==
  \/ Idle(t)
  \/ ~Sets(Now(t)) /\ ~Applies(Now(t))
  \/ Dwells(Now(t))

\* What a thread that applies the configurations has found so far.
Found(s, c, j) ==
  \A i \in 1..j : i <= c.count => c.pixels[i] = calcPixelValueForWavelength(s, c.waves[i])

Looking(st, cs) ==
  LET c == cs[st.spec] IN
  /\ \A s \in 1..st.spec - 1 : FollowIn(s, cs[s])
  /\ st.op \in {"pixel", "store"} => Found(st.spec, c, st.j - 1)
  /\ st.op = "store" => st.j <= c.count /\ st.w = c.waves[st.j]
  /\ st.op = "storeNon" => Found(st.spec, c, c.count) /\ st.w = c.nonAbs

PixelInv ==
  alone =>
    /\ "pixels" \notin raced /\ (\A t \in Thread : KeepsPixels(t)) =>
         \A s \in SpecIndex : Follow(s)
    /\ \A t \in Thread : ~Idle(t) /\ Applies(Now(t)) => Looking(Now(t), config)

-----------------------------------------------------------------------------
(* Reading the file: the fold is a step for each unit.                     *)

Folds(text, n, h) ==
  h = [s \in SUBSET (1..n) |-> IF s = {} THEN Unread
                               ELSE LET x == Max(s) IN ReadUnit(h[s \ {x}], text[x])]

LEMMA MaxIs ==
  ASSUME NEW n \in Nat, NEW s \in SUBSET (1..n), n \in s
  PROVE  Max(s) = n
<1>1. n \in s /\ \A y \in s : n >= y
  OBVIOUS
<1>2. \A x \in s : (\A y \in s : x >= y) => x = n
  <2> SUFFICES ASSUME NEW x \in s, \A y \in s : x >= y  PROVE x = n
    OBVIOUS
  <2>1. x >= n /\ x \in 1..n
    OBVIOUS
  <2>2. QED  BY <2>1
<1>3. QED  BY <1>1, <1>2 DEF Max

LEMMA FoldsExists ==
  ASSUME NEW text, NEW n \in Nat
  PROVE  \E h : Folds(text, n, h)
<1> DEFINE Bad == {k \in Nat : ~\E h : Folds(text, k, h)}
<1>1. SUFFICES ASSUME Bad # {}  PROVE FALSE
  OBVIOUS
<1>2. PICK k \in Bad : \A y \in Bad : k <= y
  BY <1>1, LeastExists
<1>3. CASE k = 0
  <2> DEFINE h == [s \in SUBSET (1..0) |-> Unread]
  <2>1. \A s \in SUBSET (1..0) : s = {}
    OBVIOUS
  <2>2. Folds(text, 0, h)
    BY <2>1 DEF Folds
  <2>3. QED  BY <1>2, <1>3, <2>2
<1>4. CASE k # 0
  <2>1. k - 1 \in Nat /\ k - 1 \notin Bad /\ k \in Nat
    BY <1>2, <1>4
  <2>2. PICK g : Folds(text, k - 1, g)
    BY <2>1
  <2> DEFINE h == [s \in SUBSET (1..k) |-> IF k \in s THEN ReadUnit(g[s \ {k}], text[k])
                                          ELSE g[s]]
             f(s) == IF s = {} THEN Unread ELSE ReadUnit(h[s \ {Max(s)}], text[Max(s)])
  <2>3. ASSUME NEW s \in SUBSET (1..k)
        PROVE  h[s] = f(s)
    <3>1. CASE k \in s
      <4>1. s # {} /\ Max(s) = k
        BY <2>1, <3>1, MaxIs
      <4>2. s \ {k} \in SUBSET (1..k) /\ h[s \ {k}] = g[s \ {k}]
        OBVIOUS
      <4>3. h[s] = ReadUnit(g[s \ {k}], text[k])
        BY <3>1
      <4> HIDE DEF h
      <4>4. QED  BY <4>1, <4>2, <4>3
    <3>2. CASE k \notin s
      <4>1. s \in SUBSET (1..k - 1)
        BY <2>1, <3>2
      <4>2. g[s] = IF s = {} THEN Unread ELSE ReadUnit(g[s \ {Max(s)}], text[Max(s)])
        BY <2>2, <4>1, Zenon DEF Folds
      <4>3. \A x : h[s \ {x}] = g[s \ {x}]
        BY <3>2
      <4>4. h[s] = g[s]
        BY <3>2
      <4> HIDE DEF h
      <4>5. QED  BY <4>2, <4>3, <4>4
    <3>3. QED  BY <3>1, <3>2
  <2>4. h = [s \in SUBSET (1..k) |-> h[s]]
    OBVIOUS
  <2> HIDE DEF h
  <2>5. [s \in SUBSET (1..k) |-> h[s]] = [s \in SUBSET (1..k) |-> f(s)]
    BY <2>3
  <2>6. Folds(text, k, h)
    BY <2>4, <2>5 DEF Folds
  <2>7. QED  BY <1>2, <2>6
<1>5. QED  BY <1>3, <1>4

\* Any account of what was read after each unit ends with what readConfig returns.
LEMMA ReadIs ==
  ASSUME NEW text, NEW n \in Nat, DOMAIN text = 1..n, NEW g,
         g[0] = Unread, \A k \in 1..n : g[k] = ReadUnit(g[k - 1], text[k])
  PROVE  readConfig(text) = g[n]
<1> DEFINE h == CHOOSE h : Folds(text, n, h)
<1>1. readConfig(text) = h[1..n]
  BY DEF readConfig, FoldLeft, MapThenFoldSet, Folds
<1>2. Folds(text, n, h)
  BY FoldsExists
<1> HIDE DEF h
<1> DEFINE Bad == {k \in 0..n : h[1..k] # g[k]}
<1>3. SUFFICES ASSUME Bad # {}  PROVE FALSE
  BY <1>1
<1>4. PICK k \in Bad : \A y \in Bad : k <= y
  <2>1. Bad \in SUBSET Nat /\ Bad # {}
    BY <1>3
  <2> HIDE DEF Bad
  <2>2. QED  BY <2>1, LeastExists
<1>5. 1..k \in SUBSET (1..n) /\ k \in Nat
  BY <1>4
<1>6. h[1..k] = IF 1..k = {} THEN Unread
                ELSE ReadUnit(h[(1..k) \ {Max(1..k)}], text[Max(1..k)])
  BY <1>2, <1>5, Zenon DEF Folds
<1>7. CASE k = 0
  <2>1. 1..k = {}
    BY <1>7
  <2>2. QED  BY <1>4, <1>6, <1>7, <2>1
<1>8. CASE k # 0
  <2>1. k \in 1..k /\ Max(1..k) = k /\ (1..k) \ {k} = 1..k - 1
    <3>1. k \in 1..k /\ (1..k) \ {k} = 1..k - 1 /\ 1..k \in SUBSET Int /\ \A x \in 1..k : x <= k
      BY <1>5, <1>8
    <3>2. Max(1..k) = k
      BY <3>1, MaxIs
    <3>3. QED  BY <3>1, <3>2
  <2>2. k - 1 \in 0..n /\ k - 1 \notin Bad /\ k \in 1..n
    BY <1>4, <1>5, <1>8
  <2>3. h[1..k - 1] = g[k - 1]
    BY <2>2
  <2>4. h[1..k] = ReadUnit(g[k - 1], text[k])
    BY <1>6, <2>1, <2>3
  <2>5. QED  BY <1>4, <2>2, <2>4
<1>9. QED  BY <1>7, <1>8

LEMMA ReadsExist ==
  ASSUME NEW text, NEW n \in Nat, DOMAIN text = 1..n
  PROVE  \E g : /\ g = [k \in 0..n |-> g[k]]
                /\ g[0] = Unread /\ \A k \in 1..n : g[k] = ReadUnit(g[k - 1], text[k])
                /\ readConfig(text) = g[n]
<1>1. PICK h : Folds(text, n, h)
  BY FoldsExists
<1> DEFINE g == [k \in 0..n |-> h[1..k]]
<1>2. g[0] = Unread
  <2>1. 1..0 = {} /\ 1..0 \in SUBSET (1..n)
    OBVIOUS
  <2>2. h[1..0] = Unread
    BY <1>1, <2>1, Zenon DEF Folds
  <2>3. QED  BY <2>2
<1>3. ASSUME NEW k \in 1..n
      PROVE  g[k] = ReadUnit(g[k - 1], text[k])
  <2>1. /\ 1..k \in SUBSET (1..n) /\ 1..k # {} /\ k \in Nat /\ k - 1 \in 0..n /\ k \in 0..n
        /\ (1..k) \ {k} = 1..k - 1
    OBVIOUS
  <2>2. Max(1..k) = k
    BY <2>1, MaxIs
  <2>3. h[1..k] = ReadUnit(h[(1..k) \ {Max(1..k)}], text[Max(1..k)])
    BY <1>1, <2>1, Zenon DEF Folds
  <2>4. g[k] = h[1..k] /\ g[k - 1] = h[1..k - 1]
    BY <2>1
  <2> HIDE DEF g
  <2>5. QED  BY <2>1, <2>2, <2>3, <2>4
<1>4. g = [k \in 0..n |-> g[k]]
  OBVIOUS
<1> HIDE DEF g
<1>5. readConfig(text) = g[n]
  BY <1>2, <1>3, ReadIs
<1>6. QED  BY <1>2, <1>3, <1>4, <1>5

LEMMA NothingIsRead == readConfig(<<>>) = Unread
<1> DEFINE none == <<>>
           g == [k \in 0..0 |-> Unread]
<1>1. DOMAIN none = 1..0
  OBVIOUS
<1>2. g[0] = Unread /\ \A k \in 1..0 : g[k] = ReadUnit(g[k - 1], none[k])
  OBVIOUS
<1> HIDE DEF none, g
<1>3. readConfig(none) = g[0]
  BY <1>1, <1>2, ReadIs
<1>4. QED  BY <1>2, <1>3 DEF none

LEMMA ConcatIsAssociative ==
  ASSUME NEW a, NEW b, NEW c, IsSeq(a), IsSeq(b), IsSeq(c)
  PROVE  a \o (b \o c) = (a \o b) \o c
<1> DEFINE A == {a[i] : i \in DOMAIN a}
           B == {b[i] : i \in DOMAIN b}
           C == {c[i] : i \in DOMAIN c}
           All == A \cup B \cup C
<1>1. a \in Seq(A) /\ b \in Seq(B) /\ c \in Seq(C)
  BY DEF IsSeq
<1>2. A \subseteq All /\ B \subseteq All /\ C \subseteq All
  OBVIOUS
<1> HIDE DEF A, B, C, All
<1>3. a \in Seq(All) /\ b \in Seq(All) /\ c \in Seq(All)
  BY <1>1, <1>2, SeqMonotonic
<1>4. QED  BY <1>3, ConcatAssociative

LEMMA SeqDomain ==
  ASSUME NEW q, IsSeq(q)
  PROVE  Len(q) \in Nat /\ DOMAIN q = 1..Len(q) /\ q = [i \in 1..Len(q) |-> q[i]]
<1> DEFINE T == {q[i] : i \in DOMAIN q}
<1>1. q \in Seq(T)
  BY DEF IsSeq
<1> HIDE DEF T
<1>2. Len(q) \in Nat /\ DOMAIN q = 1..Len(q) /\ q \in [1..Len(q) -> T]
  BY <1>1, LenProperties
<1>3. QED  BY <1>2

\* What is printed behind a text is read after it, a unit that begins a line at a time.
LEMMA ReadMore ==
  ASSUME NEW text, NEW units, IsSeq(text), IsSeq(units), Len(units) > 0,
         \A k \in 2..Len(units) : units[k][2] # 1
  PROVE  readConfig(text \o units) = ReadUnit(readConfig(text), units[1])
<1> DEFINE n == Len(text)
           m == Len(units)
           x == text \o units
<1>1. n \in Nat /\ m \in Nat /\ m > 0 /\ DOMAIN text = 1..n
  BY SeqDomain
<1>2. /\ IsSeq(x) /\ Len(x) = n + m
      /\ \A i \in 1..n : x[i] = text[i]
      /\ \A i \in n + 1..n + m : x[i] = units[i - n]
  BY ConcatIs
<1>2a. \A k \in 2..m : units[k][2] # 1
  OBVIOUS
<1> HIDE DEF n, m
<1>3. DOMAIN x = 1..n + m
  BY <1>2, SeqDomain
<1>4. PICK g : /\ g[0] = Unread /\ \A k \in 1..n : g[k] = ReadUnit(g[k - 1], text[k])
               /\ readConfig(text) = g[n]
  BY <1>1, ReadsExist
<1> DEFINE G == [k \in 0..n + m |-> IF k <= n THEN g[k] ELSE ReadUnit(g[n], units[1])]
<1> HIDE DEF x
<1>5. G[0] = Unread /\ G[n + m] = ReadUnit(g[n], units[1])
  BY <1>1, <1>4
<1>6. ASSUME NEW k \in 1..n + m
      PROVE  G[k] = ReadUnit(G[k - 1], x[k])
  <2>1. CASE k <= n
    BY <1>1, <1>2, <1>4, <2>1
  <2>2. CASE k = n + 1
    <3>1. x[k] = units[1]
      <4>1. k \in n + 1..n + m /\ k - n = 1
        BY <1>1, <2>2
      <4>2. QED  BY <1>2, <4>1
    <3>2. G[k] = ReadUnit(g[n], units[1]) /\ G[k - 1] = g[n]
      BY <1>1, <2>2
    <3>3. QED  BY <3>1, <3>2
  <2>3. CASE k > n + 1
    <3>1. k \in n + 1..n + m /\ k - n \in 2..m
      BY <1>1, <2>3
    <3>2. x[k][2] # 1
      BY <1>2, <1>2a, <3>1
    <3>3. \A r : ReadUnit(r, x[k]) = r
      BY <3>2 DEF ReadUnit
    <3>4. G[k] = G[k - 1]
      BY <1>1, <2>3
    <3> HIDE DEF G
    <3>5. QED  BY <3>3, <3>4
  <2>4. QED  BY <1>1, <2>1, <2>2, <2>3
<1>7. n + m \in Nat
  BY <1>1
<1> HIDE DEF G
<1>8. readConfig(x) = G[n + m]
  BY <1>3, <1>5, <1>6, <1>7, ReadIs
<1>9. QED  BY <1>4, <1>5, <1>8 DEF x

LEMMA UnitsAre ==
  ASSUME NEW line, LineFits(line)
  PROVE  /\ IsSeq(Units(line)) /\ Len(Units(line)) > 0
         /\ \A k \in 1..Len(Units(line)) : Units(line)[k] = <<line, k>>
<1> DEFINE n == IF line.key \in {"waves", "cal"} THEN 1 + Len(line.value) ELSE 1
           u == Units(line)
<1>1. n \in Nat \ {0}
  <2>1. CASE line.key = "waves"
    <3>1. line.value \in Seq(Nat)
      BY <2>1 DEF LineFits
    <3>2. QED  BY <2>1, <3>1, LenProperties
  <2>2. CASE line.key = "cal"
    <3>1. IsSeq(line.value)
      BY <2>2 DEF LineFits
    <3>2. QED  BY <2>2, <3>1, SeqDomain
  <2>3. CASE line.key \notin {"waves", "cal"}
    BY <2>3
  <2>4. QED  BY <2>1, <2>2, <2>3
<1>2. u = [k \in 1..n |-> <<line, k>>]
  BY DEF Units
<1> HIDE DEF n, u
<1>3. u = [k \in 1..n |-> u[k]]
  BY <1>2
<1>4. IsSeq(u) /\ Len(u) = n
  BY <1>1, <1>3, ListIs
<1>5. QED  BY <1>1, <1>2, <1>4 DEF u

LEMMA TextsFit ==
  ASSUME NEW a, NEW b, TextFits(a), TextFits(b)
  PROVE  TextFits(a \o b)
<1>1. IsSeq(a) /\ IsSeq(b)
  BY DEF TextFits
<1> DEFINE x == a \o b
<1>2. /\ IsSeq(x) /\ Len(x) = Len(a) + Len(b) /\ Len(a) \in Nat /\ Len(b) \in Nat
      /\ \A i \in 1..Len(a) : x[i] = a[i]
      /\ \A i \in Len(a) + 1..Len(a) + Len(b) : x[i] = b[i - Len(a)]
  BY <1>1, ConcatIs
<1> HIDE DEF x
<1>3. ASSUME NEW i \in 1..Len(x)
      PROVE  LineFits(x[i][1])
  <2>1. CASE i <= Len(a)
    <3>1. i \in 1..Len(a)
      BY <1>2, <2>1
    <3>2. QED  BY <1>2, <3>1 DEF TextFits
  <2>2. CASE i > Len(a)
    <3>1. i \in Len(a) + 1..Len(a) + Len(b) /\ i - Len(a) \in 1..Len(b)
      BY <1>2, <2>2
    <3>2. QED  BY <1>2, <3>1 DEF TextFits
  <2>3. QED  BY <1>2, <2>1, <2>2
<1>4. QED  BY <1>2, <1>3 DEF TextFits, x

LEMMA LineIsRead ==
  ASSUME NEW text, TextFits(text), NEW line, LineFits(line)
  PROVE  /\ TextFits(text \o Units(line))
         /\ readConfig(text \o Units(line)) = ReadUnit(readConfig(text), <<line, 1>>)
<1> DEFINE u == Units(line)
<1>1. IsSeq(u) /\ Len(u) > 0 /\ \A k \in 1..Len(u) : u[k] = <<line, k>>
  BY UnitsAre
<1> HIDE DEF u
<1>2. Len(u) \in Nat
  BY <1>1, SeqDomain
<1>3. \A k \in 2..Len(u) : u[k][2] # 1
  BY <1>1, <1>2
<1>4. u[1] = <<line, 1>>
  BY <1>1, <1>2
<1>5. TextFits(u)
  BY <1>1 DEF TextFits
<1>6. readConfig(text \o u) = ReadUnit(readConfig(text), u[1])
  BY <1>1, <1>3, ReadMore DEF TextFits
<1>7. TextFits(text \o u)
  BY <1>5, TextsFit
<1>8. QED  BY <1>4, <1>6, <1>7 DEF u

\* Lines are read one after the other: r[k] is what was read up to the k-th.
Account(text, n, lines, r) ==
  /\ TextFits(text) /\ n \in Nat \ {0} /\ lines = [i \in 1..n |-> lines[i]]
  /\ \A i \in 1..n : LineFits(lines[i])
  /\ r[0] = readConfig(text)
  /\ \A k \in 1..n : r[k] = ReadUnit(r[k - 1], <<lines[k], 1>>)

LEMMA LinesAreRead ==
  ASSUME NEW text, NEW n, NEW lines, NEW r, Account(text, n, lines, r)
  PROVE  /\ TextFits(Text(lines)) /\ TextFits(text \o Text(lines))
         /\ readConfig(text \o Text(lines)) = r[n]
<1> DEFINE seqs == [i \in 1..n |-> Units(lines[i])]
<1>0. /\ TextFits(text) /\ n \in Nat \ {0} /\ lines = [i \in 1..n |-> lines[i]]
      /\ \A i \in 1..n : LineFits(lines[i])
      /\ r[0] = readConfig(text)
      /\ \A k \in 1..n : r[k] = ReadUnit(r[k - 1], <<lines[k], 1>>)
  BY DEF Account
<1>1. Len(lines) = n
  BY <1>0, ListIs
<1>2. Text(lines) = FlattenSeq(seqs)
  BY <1>0, <1>1 DEF Text
<1>3. seqs = [i \in 1..n |-> seqs[i]] /\ \A i \in 1..n : seqs[i] = Units(lines[i])
  OBVIOUS
<1> HIDE DEF seqs
<1>4. Len(seqs) = n
  BY <1>0, <1>3, ListIs
<1> DEFINE g == CHOOSE g : Flattens(seqs, n, g)
<1>5. FlattenSeq(seqs) = g[n]
  BY <1>0, <1>4 DEF FlattenSeq, Flattens
<1>6. Flattens(seqs, n, g)
  BY <1>0, FlattensExists
<1> HIDE DEF g
<1>7. \A i \in 1..n : g[i] = IF i = 1 THEN seqs[i] ELSE g[i - 1] \o seqs[i]
  BY <1>0, <1>6 DEF Flattens
<1>8. ASSUME NEW i \in 1..n
      PROVE  IsSeq(seqs[i]) /\ TextFits(seqs[i])
  <2>1. /\ IsSeq(seqs[i]) /\ \A k \in 1..Len(seqs[i]) : seqs[i][k] = <<lines[i], k>>
    BY <1>0, <1>3, UnitsAre
  <2>2. QED  BY <1>0, <2>1 DEF TextFits
<1> DEFINE Good(k) == TextFits(g[k]) /\ TextFits(text \o g[k]) /\ readConfig(text \o g[k]) = r[k]
           Bad == {k \in 1..n : ~Good(k)}
<1>9. SUFFICES ASSUME Bad # {}  PROVE FALSE
  BY <1>0, <1>2, <1>5
<1>10. PICK k \in Bad : \A y \in Bad : k <= y
  <2>1. Bad \in SUBSET Nat /\ Bad # {}
    BY <1>9
  <2> HIDE DEF Bad
  <2>2. QED  BY <2>1, LeastExists
<1>11. CASE k = 1
  <2>1. g[k] = Units(lines[k]) /\ k \in 1..n
    BY <1>0, <1>3, <1>7, <1>10, <1>11
  <2>2. /\ TextFits(text \o g[k])
        /\ readConfig(text \o g[k]) = ReadUnit(readConfig(text), <<lines[k], 1>>)
    BY <1>0, <2>1, LineIsRead
  <2>3. r[k] = ReadUnit(readConfig(text), <<lines[k], 1>>)
    BY <1>0, <1>11, <2>1
  <2>4. TextFits(g[k])
    BY <1>3, <1>8, <2>1
  <2>5. Good(k)
    BY <2>2, <2>3, <2>4
  <2>6. QED  BY <1>10, <2>5
<1>12. CASE k # 1
  <2>1. k \in 1..n /\ k - 1 \in 1..n /\ k - 1 \notin Bad
    BY <1>0, <1>10, <1>12
  <2>2. Good(k - 1)
    BY <2>1
  <2> DEFINE u == seqs[k]
             p == g[k - 1]
  <2>3. /\ g[k] = p \o u /\ u = Units(lines[k]) /\ TextFits(u)
        /\ r[k] = ReadUnit(r[k - 1], <<lines[k], 1>>)
    BY <1>0, <1>3, <1>7, <1>8, <1>12, <2>1
  <2>4. TextFits(p) /\ TextFits(text \o p) /\ readConfig(text \o p) = r[k - 1]
    BY <2>2
  <2> HIDE DEF u, p, Good, Bad
  <2>5. text \o g[k] = (text \o p) \o u
    BY <1>0, <2>3, <2>4, ConcatIsAssociative DEF TextFits
  <2>6. LineFits(lines[k])
    BY <1>0, <2>1
  <2>7. /\ TextFits((text \o p) \o u)
        /\ readConfig((text \o p) \o u) = ReadUnit(r[k - 1], <<lines[k], 1>>)
    BY <2>3, <2>4, <2>6, LineIsRead
  <2>8. TextFits(g[k])
    BY <2>3, <2>4, TextsFit
  <2>9. Good(k)
    BY <2>3, <2>5, <2>7, <2>8 DEF Good
  <2>10. QED  BY <1>10, <2>9 DEF Bad
<1>13. QED  BY <1>11, <1>12

LEMMA ReadLineFits ==
  ASSUME NEW c, Shape(c), NEW line, LineFits(line), line.spec # 0
  PROVE  Shape(ReadLine(c, line))
<1>1. CASE line.key = "waves"
  <2> DEFINE v == line.value
  <2>1. v \in Seq(Nat) /\ Len(v) \in 0..MaxAbsWaves
    BY <1>1, LenProperties DEF LineFits
  <2>2. ReadLine(c, line) = [c EXCEPT !.waves = Front_(v, c.waves), !.count = Len(v)]
    BY <1>1 DEF ReadLine
  <2>3. Front_(v, c.waves) \in [1..MaxAbsWaves -> Nat]
    <3>1. \A i \in 1..MaxAbsWaves : i <= Len(v) => v[i] \in Nat
      BY <2>1, ElementOfSeq
    <3> HIDE DEF v
    <3>2. QED  BY <3>1 DEF Front_, Shape
  <2> DEFINE f == Front_(v, c.waves)
             n == Len(v)
  <2> HIDE DEF v, f, n
  <2>4. [c EXCEPT !.waves = f, !.count = n] = [k \in DOMAIN Blank |-> IF k = "waves" THEN f
                                     ELSE IF k = "count" THEN n ELSE c[k]]
    BY DEF Shape
  <2>5. QED  BY <2>1, <2>2, <2>3, <2>4 DEF Shape, Blank, f, n
<1>2. CASE line.key = "cal"
  <2> DEFINE f == Front_(line.value, c.cal)
  <2>1. f = [i \in 1..MaxAbsWaves |-> f[i]]
    BY DEF Front_, Shape
  <2>2. ReadLine(c, line) = [c EXCEPT !.cal = f]
    BY <1>2 DEF ReadLine
  <2> HIDE DEF f
  <2>3. [c EXCEPT !.cal = f] = [k \in DOMAIN Blank |-> IF k = "cal" THEN f ELSE c[k]]
    BY DEF Shape
  <2>4. QED  BY <2>1, <2>2, <2>3 DEF Shape, Blank
<1>3. CASE line.key \notin {"waves", "cal"}
  <2> DEFINE f == line.value
             key == line.key
  <2>1. ReadLine(c, line) = [c EXCEPT ![key] = f]
    BY <1>3 DEF ReadLine
  <2>2. key \in {"dwell", "integration", "scans", "analyte", "nonAbs", "measure"}
        /\ (key = "nonAbs" => f \in Nat)
    BY <1>3 DEF LineFits
  <2> HIDE DEF f, key
  <2>3. [c EXCEPT ![key] = f] = [k \in DOMAIN Blank |-> IF k = key THEN f ELSE c[k]]
    BY DEF Shape
  <2>4. QED  BY <2>1, <2>2, <2>3 DEF Shape, Blank
<1>4. QED  BY <1>1, <1>2, <1>3

\* What was read is a mode and, for each spectrometer, a configuration.
ReadFits(r) ==
  /\ r = [k \in {"config", "mode"} |-> r[k]]
  /\ r.config = [s \in SpecIndex |-> r.config[s]]
  /\ \A s \in SpecIndex : Shape(r.config[s])

LEMMA BlankFits == Shape(Blank)
<1>1. Zero \in [1..MaxAbsWaves -> Nat] /\ Zero = [i \in 1..MaxAbsWaves |-> Zero[i]]
  BY DEF Zero
<1>2. MaxAbsWaves \in Nat
  BY SizeAssumption
<1>3. /\ Blank.count = 0 /\ Blank.waves = Zero /\ Blank.nonAbs = 0 /\ Blank.cal = Zero
      /\ Blank.pixels = Zero /\ Blank = [k \in DOMAIN Blank |-> Blank[k]]
  BY DEF Blank
<1>4. QED  BY <1>1, <1>2, <1>3 DEF Shape

LEMMA UnreadFits == ReadFits(Unread)
<1>1. Unread = [k \in {"config", "mode"} |-> Unread[k]]
  BY DEF Unread
<1>2. Unread.config = [s \in SpecIndex |-> Blank]
  BY DEF Unread
<1>3. QED  BY <1>1, <1>2, BlankFits DEF ReadFits

\* What a line changes, of what was read before.
LEMMA ReadUnitIs ==
  ASSUME NEW r, ReadFits(r), NEW line, LineFits(line), line.spec # 0
  PROVE  LET x == ReadUnit(r, <<line, 1>>)
         IN /\ ReadFits(x) /\ x.mode = r.mode
            /\ x.config[line.spec] = ReadLine(r.config[line.spec], line)
            /\ \A s \in SpecIndex : s # line.spec => x.config[s] = r.config[s]
<1> DEFINE x == ReadUnit(r, <<line, 1>>)
           n == line.spec
           d == ReadLine(r.config[n], line)
<1>1. x = [r EXCEPT !.config[n] = d]
  BY DEF ReadUnit
<1>2. n \in SpecIndex
  BY DEF LineFits
<1>3. Shape(r.config[n])
  BY <1>2 DEF ReadFits
<1>4. Shape(d)
  BY <1>3, ReadLineFits
<1> HIDE DEF x, n, d
<1>5. /\ r = [k \in {"config", "mode"} |-> r[k]]
      /\ r.config = [s \in SpecIndex |-> r.config[s]]
  BY DEF ReadFits
<1>6. x = [k \in {"config", "mode"} |-> x[k]] /\ x.mode = r.mode
      /\ x.config = [r.config EXCEPT ![n] = d]
  BY <1>1, <1>5
<1>7. /\ x.config = [s \in SpecIndex |-> x.config[s]] /\ x.config[n] = d
      /\ \A s \in SpecIndex : s # n => x.config[s] = r.config[s]
  BY <1>2, <1>5, <1>6
<1>8. \A s \in SpecIndex : Shape(x.config[s])
  <2> SUFFICES ASSUME NEW s \in SpecIndex  PROVE Shape(x.config[s])
    OBVIOUS
  <2>1. CASE s = n
    BY <1>4, <1>7, <2>1
  <2>2. CASE s # n
    <3>1. Shape(r.config[s]) /\ x.config[s] = r.config[s]
      BY <1>7, <2>2 DEF ReadFits
    <3>2. QED  BY <3>1
  <2>3. QED  BY <2>1, <2>2
<1>9. ReadFits(x)
  BY <1>6, <1>7, <1>8 DEF ReadFits
<1>10. QED  BY <1>6, <1>7, <1>9 DEF x, n, d

LEMMA ReadUnitFits ==
  ASSUME NEW r, ReadFits(r), NEW unit, LineFits(unit[1])
  PROVE  ReadFits(ReadUnit(r, unit))
<1>1. CASE unit[2] # 1
  BY <1>1 DEF ReadUnit
<1>2. CASE unit[2] = 1 /\ unit[1].spec = 0
  <2> DEFINE m == unit[1].value
  <2>1. ReadUnit(r, unit) = [r EXCEPT !.mode = m]
    BY <1>2 DEF ReadUnit
  <2> HIDE DEF m
  <2> DEFINE x == [r EXCEPT !.mode = m]
  <2>2. r = [k \in {"config", "mode"} |-> r[k]]
    BY DEF ReadFits
  <2>3. x = [k \in {"config", "mode"} |-> x[k]] /\ x.config = r.config
    BY <2>2
  <2> HIDE DEF x
  <2>4. ReadFits(x)
    BY <2>3 DEF ReadFits
  <2>5. QED  BY <2>1, <2>4 DEF x
<1>3. CASE unit[2] = 1 /\ unit[1].spec # 0
  <2> DEFINE line == unit[1]
  <2>1. ReadUnit(r, unit) = ReadUnit(r, <<line, 1>>)
    BY <1>3 DEF ReadUnit
  <2> HIDE DEF line
  <2>2. LineFits(line) /\ line.spec # 0
    BY <1>3 DEF line
  <2>3. ReadFits(ReadUnit(r, <<line, 1>>))
    BY <2>2, ReadUnitIs
  <2>4. QED  BY <2>1, <2>3
<1>4. QED  BY <1>1, <1>2, <1>3

LEMMA TextIsRead ==
  ASSUME NEW text, TextFits(text)
  PROVE  ReadFits(readConfig(text))
<1> DEFINE n == Len(text)
<1>1. n \in Nat /\ DOMAIN text = 1..n
  BY SeqDomain DEF TextFits
<1> HIDE DEF n
<1>2. PICK g : /\ g[0] = Unread /\ \A k \in 1..n : g[k] = ReadUnit(g[k - 1], text[k])
               /\ readConfig(text) = g[n]
  BY <1>1, ReadsExist
<1> DEFINE Bad == {k \in 0..n : ~ReadFits(g[k])}
<1>3. SUFFICES ASSUME Bad # {}  PROVE FALSE
  BY <1>1, <1>2
<1>4. PICK k \in Bad : \A y \in Bad : k <= y
  <2>1. Bad \in SUBSET Nat /\ Bad # {}
    BY <1>3
  <2> HIDE DEF Bad
  <2>2. QED  BY <2>1, LeastExists
<1>5. CASE k = 0
  BY <1>2, <1>4, <1>5, UnreadFits
<1>6. CASE k # 0
  <2>1. k \in 1..n /\ k - 1 \in 0..n /\ k - 1 \notin Bad
    BY <1>1, <1>4, <1>6
  <2>2. ReadFits(g[k - 1]) /\ LineFits(text[k][1])
    BY <2>1 DEF TextFits, n
  <2>3. ReadFits(ReadUnit(g[k - 1], text[k]))
    BY <2>2, ReadUnitFits
  <2>4. QED  BY <1>2, <1>4, <2>1, <2>3
<1>7. QED  BY <1>5, <1>6

\* A list as far as it is in use.
LEMMA InUse ==
  ASSUME NEW c, Shape(c)
  PROVE  /\ SubSeq(c.waves, 1, c.count) \in Seq(Nat)
         /\ Len(SubSeq(c.waves, 1, c.count)) = c.count
         /\ \A i \in 1..c.count : SubSeq(c.waves, 1, c.count)[i] = c.waves[i]
         /\ IsSeq(SubSeq(c.cal, 1, c.count))
         /\ Len(SubSeq(c.cal, 1, c.count)) = c.count
         /\ \A i \in 1..c.count : SubSeq(c.cal, 1, c.count)[i] = c.cal[i]
<1> DEFINE n == c.count
           w == c.waves
           q == c.cal
           Q == {q[i] : i \in 1..n}
<1>1. n \in Nat /\ n <= MaxAbsWaves /\ MaxAbsWaves \in Nat /\ w \in [1..MaxAbsWaves -> Nat]
  BY SizeAssumption DEF Shape
<1> HIDE DEF n, w, q
<1>2. (\A i \in 1..n : w[i] \in Nat) /\ (\A i \in 1..n : q[i] \in Q)
  BY <1>1
<1> HIDE DEF Q
<1>3. /\ SubSeq(w, 1, n) \in Seq(Nat)
      /\ Len(SubSeq(w, 1, n)) = IF 1 <= n THEN n - 1 + 1 ELSE 0
      /\ \A i \in 1..n - 1 + 1 : SubSeq(w, 1, n)[i] = w[1 + i - 1]
  BY <1>1, <1>2, SubSeqProperties
<1>4. /\ SubSeq(q, 1, n) \in Seq(Q)
      /\ Len(SubSeq(q, 1, n)) = IF 1 <= n THEN n - 1 + 1 ELSE 0
      /\ \A i \in 1..n - 1 + 1 : SubSeq(q, 1, n)[i] = q[1 + i - 1]
  BY <1>1, <1>2, SubSeqProperties
<1>5. n - 1 + 1 = n /\ \A i \in 1..n : 1 + i - 1 = i
  BY <1>1
<1>6. IsSeq(SubSeq(q, 1, n))
  BY <1>4, SeqIs
<1>7. QED  BY <1>1, <1>3, <1>4, <1>5, <1>6 DEF n, w, q

LEMMA SeqsEqual ==
  ASSUME NEW a, NEW b, IsSeq(a), IsSeq(b), Len(a) = Len(b), \A i \in 1..Len(a) : a[i] = b[i]
  PROVE  a = b
<1>1. a = [i \in 1..Len(a) |-> a[i]] /\ b = [i \in 1..Len(b) |-> b[i]]
  BY SeqDomain
<1>2. QED  BY <1>1

\* What counts of a configuration that is saved.
LEMMA SavedEqual ==
  ASSUME NEW s, NEW c, NEW d, Shape(c), Shape(d), c.analyte = d.analyte, c.dwell = d.dwell,
         c.integration = d.integration, c.scans = d.scans, c.count = d.count,
         c.nonAbs = d.nonAbs, c.measure = d.measure,
         \A i \in 1..c.count : c.waves[i] = d.waves[i] /\ c.cal[i] = d.cal[i]
  PROVE  Saved(s, c) = Saved(s, d)
<1>1. SubSeq(c.waves, 1, c.count) = SubSeq(d.waves, 1, d.count)
  <2> DEFINE a == SubSeq(c.waves, 1, c.count)
             b == SubSeq(d.waves, 1, d.count)
  <2>1. /\ a \in Seq(Nat) /\ b \in Seq(Nat) /\ Len(a) = c.count /\ Len(b) = c.count
        /\ \A i \in 1..c.count : a[i] = c.waves[i] /\ b[i] = d.waves[i]
    BY InUse
  <2> HIDE DEF a, b
  <2>2. IsSeq(a) /\ IsSeq(b)
    BY <2>1, SeqIs
  <2>3. a = b
    BY <2>1, <2>2, SeqsEqual
  <2>4. QED  BY <2>3 DEF a, b
<1>2. SubSeq(c.cal, 1, c.count) = SubSeq(d.cal, 1, d.count)
  <2> DEFINE a == SubSeq(c.cal, 1, c.count)
             b == SubSeq(d.cal, 1, d.count)
  <2>1. /\ IsSeq(a) /\ IsSeq(b) /\ Len(a) = c.count /\ Len(b) = c.count
        /\ \A i \in 1..c.count : a[i] = c.cal[i] /\ b[i] = d.cal[i]
    BY InUse
  <2> HIDE DEF a, b
  <2>2. a = b
    BY <2>1, SeqsEqual
  <2>3. QED  BY <2>2 DEF a, b
<1>3. QED  BY <1>1, <1>2 DEF Saved

\* The lines of a spectrometer, read after any text, give what is saved of it.
LEMMA SpecIsRead ==
  ASSUME NEW text, TextFits(text), NEW z \in SpecIndex, Shape(config[z])
  PROVE  LET more == text \o Text(SpecLines(z))
         IN /\ TextFits(Text(SpecLines(z))) /\ TextFits(more)
            /\ readConfig(more).mode = readConfig(text).mode
            /\ \A s \in SpecIndex : s # z => readConfig(more).config[s] = readConfig(text).config[s]
            /\ Saved(z, readConfig(more).config[z]) = Saved(z, config[z])
<1> DEFINE c == config[z]
           wq == SubSeq(c.waves, 1, c.count)
           cq == SubSeq(c.cal, 1, c.count)
           l1 == Line(z, "dwell", c.dwell)
           l2 == Line(z, "integration", c.integration)
           l3 == Line(z, "scans", c.scans)
           l4 == Line(z, "waves", wq)
           l5 == Line(z, "nonAbs", c.nonAbs)
           l6 == Line(z, "analyte", c.analyte)
           l7 == Line(z, "measure", c.measure)
           l8 == Line(z, "cal", cq)
           lines == SpecLines(z)
           r0 == readConfig(text)
           more == text \o Text(lines)
<1>1. lines = <<l1, l2, l3, l4, l5, l6, l7, l8>>
  BY DEF SpecLines
<1>2. Shape(c)
  OBVIOUS
<1>3. /\ wq \in Seq(Nat) /\ Len(wq) = c.count /\ \A i \in 1..c.count : wq[i] = c.waves[i]
      /\ IsSeq(cq) /\ Len(cq) = c.count /\ \A i \in 1..c.count : cq[i] = c.cal[i]
  BY <1>2, InUse
<1>4. /\ c.count \in 0..MaxAbsWaves /\ MaxAbsWaves \in Nat /\ c.nonAbs \in Nat
  BY <1>2, SizeAssumption DEF Shape
<1>5. z # 0 /\ z \in SpecIndex
  BY SizeAssumption DEF SpecIndex
<1> HIDE DEF c, wq, cq, lines, more
<1>6. /\ l1.spec = z /\ l1.key = "dwell" /\ l1.value = c.dwell
      /\ l2.spec = z /\ l2.key = "integration" /\ l2.value = c.integration
      /\ l3.spec = z /\ l3.key = "scans" /\ l3.value = c.scans
      /\ l4.spec = z /\ l4.key = "waves" /\ l4.value = wq
      /\ l5.spec = z /\ l5.key = "nonAbs" /\ l5.value = c.nonAbs
      /\ l6.spec = z /\ l6.key = "analyte" /\ l6.value = c.analyte
      /\ l7.spec = z /\ l7.key = "measure" /\ l7.value = c.measure
      /\ l8.spec = z /\ l8.key = "cal" /\ l8.value = cq
  BY DEF Line
<1> HIDE DEF l1, l2, l3, l4, l5, l6, l7, l8
<1>7. LineFits(l1) /\ LineFits(l2) /\ LineFits(l3) /\ LineFits(l4)
  BY <1>3, <1>4, <1>5, <1>6 DEF LineFits
<1>8. LineFits(l5) /\ LineFits(l6) /\ LineFits(l7) /\ LineFits(l8)
  BY <1>3, <1>4, <1>5, <1>6 DEF LineFits
<1> DEFINE Next_(r, line) == ReadUnit(r, <<line, 1>>)
           r1 == Next_(r0, l1)
           r2 == Next_(r1, l2)
           r3 == Next_(r2, l3)
           r4 == Next_(r3, l4)
           r5 == Next_(r4, l5)
           r6 == Next_(r5, l6)
           r7 == Next_(r6, l7)
           r8 == Next_(r7, l8)
           Kept(r, x) == x.mode = r.mode /\ \A s \in SpecIndex : s # z => x.config[s] = r.config[s]
<1>9. \A r, line : ReadFits(r) /\ LineFits(line) /\ line.spec = z =>
        /\ ReadFits(Next_(r, line)) /\ Kept(r, Next_(r, line))
        /\ Next_(r, line).config[z] = ReadLine(r.config[z], line)
  BY <1>5, ReadUnitIs
<1>10. ReadFits(r0)
  BY TextIsRead
<1> HIDE DEF Next_, r0
<1>11. ReadFits(r1) /\ Kept(r0, r1) /\ r1.config[z] = ReadLine(r0.config[z], l1)
  BY <1>6, <1>7, <1>9, <1>10
<1> HIDE DEF r1
<1>12. ReadFits(r2) /\ Kept(r1, r2) /\ r2.config[z] = ReadLine(r1.config[z], l2)
  BY <1>6, <1>7, <1>9, <1>11
<1> HIDE DEF r2
<1>13. ReadFits(r3) /\ Kept(r2, r3) /\ r3.config[z] = ReadLine(r2.config[z], l3)
  BY <1>6, <1>7, <1>9, <1>12
<1> HIDE DEF r3
<1>14. ReadFits(r4) /\ Kept(r3, r4) /\ r4.config[z] = ReadLine(r3.config[z], l4)
  BY <1>6, <1>7, <1>9, <1>13
<1> HIDE DEF r4
<1>15. ReadFits(r5) /\ Kept(r4, r5) /\ r5.config[z] = ReadLine(r4.config[z], l5)
  BY <1>6, <1>8, <1>9, <1>14
<1> HIDE DEF r5
<1>16. ReadFits(r6) /\ Kept(r5, r6) /\ r6.config[z] = ReadLine(r5.config[z], l6)
  BY <1>6, <1>8, <1>9, <1>15
<1> HIDE DEF r6
<1>17. ReadFits(r7) /\ Kept(r6, r7) /\ r7.config[z] = ReadLine(r6.config[z], l7)
  BY <1>6, <1>8, <1>9, <1>16
<1> HIDE DEF r7
<1>18. ReadFits(r8) /\ Kept(r7, r8) /\ r8.config[z] = ReadLine(r7.config[z], l8)
  BY <1>6, <1>8, <1>9, <1>17
<1> HIDE DEF r8
<1>19. Kept(r0, r8)
  BY <1>11, <1>12, <1>13, <1>14, <1>15, <1>16, <1>17, <1>18
<1>20. /\ TextFits(Text(lines)) /\ TextFits(more) /\ readConfig(more) = r8
  <2> DEFINE r == [k \in 0..8 |-> IF k = 0 THEN r0 ELSE IF k = 1 THEN r1 ELSE IF k = 2 THEN r2
                     ELSE IF k = 3 THEN r3 ELSE IF k = 4 THEN r4 ELSE IF k = 5 THEN r5
                     ELSE IF k = 6 THEN r6 ELSE IF k = 7 THEN r7 ELSE r8]
  <2>1. /\ r[0] = r0 /\ r[1] = r1 /\ r[2] = r2 /\ r[3] = r3 /\ r[4] = r4 /\ r[5] = r5
        /\ r[6] = r6 /\ r[7] = r7 /\ r[8] = r8
    OBVIOUS
  <2> HIDE DEF r
  <2>2. /\ r1 = ReadUnit(r0, <<l1, 1>>) /\ r2 = ReadUnit(r1, <<l2, 1>>)
        /\ r3 = ReadUnit(r2, <<l3, 1>>) /\ r4 = ReadUnit(r3, <<l4, 1>>)
        /\ r5 = ReadUnit(r4, <<l5, 1>>) /\ r6 = ReadUnit(r5, <<l6, 1>>)
        /\ r7 = ReadUnit(r6, <<l7, 1>>) /\ r8 = ReadUnit(r7, <<l8, 1>>)
    BY DEF r1, r2, r3, r4, r5, r6, r7, r8, Next_
  <2>3. /\ lines = [i \in 1..8 |-> lines[i]]
        /\ lines[1] = l1 /\ lines[2] = l2 /\ lines[3] = l3 /\ lines[4] = l4 /\ lines[5] = l5
        /\ lines[6] = l6 /\ lines[7] = l7 /\ lines[8] = l8
    BY <1>1
  <2>4. \A i \in 1..8 : \/ i = 1 \/ i = 2 \/ i = 3 \/ i = 4 \/ i = 5 \/ i = 6
                       \/ i = 7 \/ i = 8
    OBVIOUS
  <2>5. \A i \in 1..8 : LineFits(lines[i])
    BY <1>7, <1>8, <2>3, <2>4
  <2>6. \A k \in 1..8 : r[k] = ReadUnit(r[k - 1], <<lines[k], 1>>)
    <3> SUFFICES ASSUME NEW k \in 1..8  PROVE r[k] = ReadUnit(r[k - 1], <<lines[k], 1>>)
      OBVIOUS
    <3>1. /\ 1 - 1 = 0 /\ 2 - 1 = 1 /\ 3 - 1 = 2 /\ 4 - 1 = 3 /\ 5 - 1 = 4 /\ 6 - 1 = 5
          /\ 7 - 1 = 6 /\ 8 - 1 = 7
      OBVIOUS
    <3>2. CASE k = 1
      BY <2>1, <2>2, <2>3, <3>1, <3>2
    <3>3. CASE k = 2
      BY <2>1, <2>2, <2>3, <3>1, <3>3
    <3>4. CASE k = 3
      BY <2>1, <2>2, <2>3, <3>1, <3>4
    <3>5. CASE k = 4
      BY <2>1, <2>2, <2>3, <3>1, <3>5
    <3>6. CASE k = 5
      BY <2>1, <2>2, <2>3, <3>1, <3>6
    <3>7. CASE k = 6
      BY <2>1, <2>2, <2>3, <3>1, <3>7
    <3>8. CASE k = 7
      BY <2>1, <2>2, <2>3, <3>1, <3>8
    <3>9. CASE k = 8
      BY <2>1, <2>2, <2>3, <3>1, <3>9
    <3>10. QED  BY <2>4, <3>2, <3>3, <3>4, <3>5, <3>6, <3>7, <3>8, <3>9
  <2>7. 8 \in Nat \ {0} /\ r[0] = readConfig(text)
    BY <2>1 DEF r0
  <2>8. /\ TextFits(Text(lines)) /\ TextFits(text \o Text(lines))
        /\ readConfig(text \o Text(lines)) = r[8]
    <3>1. Account(text, 8, lines, r)
      BY <2>3, <2>5, <2>6, <2>7 DEF Account
    <3>2. QED  BY <3>1, LinesAreRead
  <2>9. QED  BY <2>1, <2>8 DEF more
<1>21. Saved(z, r8.config[z]) = Saved(z, c)
  <2> DEFINE d0 == r0.config[z]
             d1 == r1.config[z]
             d2 == r2.config[z]
             d3 == r3.config[z]
             d4 == r4.config[z]
             d5 == r5.config[z]
             d6 == r6.config[z]
             d7 == r7.config[z]
             d8 == r8.config[z]
  <2>1. /\ Shape(d0) /\ Shape(d1) /\ Shape(d2) /\ Shape(d3) /\ Shape(d4)
        /\ Shape(d5) /\ Shape(d6) /\ Shape(d7) /\ Shape(d8)
    BY <1>5, <1>10, <1>11, <1>12, <1>13, <1>14, <1>15, <1>16, <1>17, <1>18 DEF ReadFits
  <2>2. /\ d1 = ReadLine(d0, l1) /\ d2 = ReadLine(d1, l2) /\ d3 = ReadLine(d2, l3)
        /\ d4 = ReadLine(d3, l4) /\ d5 = ReadLine(d4, l5) /\ d6 = ReadLine(d5, l6)
        /\ d7 = ReadLine(d6, l7) /\ d8 = ReadLine(d7, l8)
    BY <1>11, <1>12, <1>13, <1>14, <1>15, <1>16, <1>17, <1>18
  <2> HIDE DEF d0, d1, d2, d3, d4, d5, d6, d7, d8
  <2>3. \A d : Shape(d) => DOMAIN d = DOMAIN Blank
    BY DEF Shape
  <2> DEFINE Only(a, b, key, v) == DOMAIN b = DOMAIN Blank /\ b[key] = v
                                   /\ \A k \in DOMAIN Blank \ {key} : b[k] = a[k]
  <2>4. Only(d0, d1, "dwell", c.dwell)
    <3>1. d1 = [d0 EXCEPT !["dwell"] = c.dwell]
      BY <1>6, <2>2 DEF ReadLine
    <3>2. QED  BY <2>1, <2>3, <3>1 DEF Blank
  <2>5. Only(d1, d2, "integration", c.integration)
    <3>1. d2 = [d1 EXCEPT !["integration"] = c.integration]
      BY <1>6, <2>2 DEF ReadLine
    <3>2. QED  BY <2>1, <2>3, <3>1 DEF Blank
  <2>6. Only(d2, d3, "scans", c.scans)
    <3>1. d3 = [d2 EXCEPT !["scans"] = c.scans]
      BY <1>6, <2>2 DEF ReadLine
    <3>2. QED  BY <2>1, <2>3, <3>1 DEF Blank
  <2>7. Only(d4, d5, "nonAbs", c.nonAbs)
    <3>1. d5 = [d4 EXCEPT !["nonAbs"] = c.nonAbs]
      BY <1>6, <2>2 DEF ReadLine
    <3>2. QED  BY <2>1, <2>3, <3>1 DEF Blank
  <2>8. Only(d5, d6, "analyte", c.analyte)
    <3>1. d6 = [d5 EXCEPT !["analyte"] = c.analyte]
      BY <1>6, <2>2 DEF ReadLine
    <3>2. QED  BY <2>1, <2>3, <3>1 DEF Blank
  <2>9. Only(d6, d7, "measure", c.measure)
    <3>1. d7 = [d6 EXCEPT !["measure"] = c.measure]
      BY <1>6, <2>2 DEF ReadLine
    <3>2. QED  BY <2>1, <2>3, <3>1 DEF Blank
  <2>10. /\ d4.count = c.count /\ \A i \in 1..c.count : d4.waves[i] = c.waves[i]
        /\ \A k \in DOMAIN Blank \ {"waves", "count"} : d4[k] = d3[k]
    <3> DEFINE f == Front_(wq, d3.waves)
    <3>1. d4 = [d3 EXCEPT !.waves = f, !.count = Len(wq)]
      BY <1>6, <2>2 DEF ReadLine
    <3>2. \A i \in 1..c.count : f[i] = c.waves[i]
      <4>1. d3.waves \in [1..MaxAbsWaves -> Nat]
        BY <2>1 DEF Shape
      <4>2. QED  BY <1>3, <1>4, <4>1 DEF Front_
    <3> HIDE DEF f
    <3>3. /\ d4.count = Len(wq) /\ d4.waves = f
          /\ \A k \in DOMAIN Blank \ {"waves", "count"} : d4[k] = d3[k]
      BY <2>1, <2>3, <3>1 DEF Blank
    <3>4. QED  BY <1>3, <3>2, <3>3
  <2>11. /\ \A i \in 1..c.count : d8.cal[i] = c.cal[i]
         /\ \A k \in DOMAIN Blank \ {"cal"} : d8[k] = d7[k]
    <3> DEFINE f == Front_(cq, d7.cal)
    <3>1. d8 = [d7 EXCEPT !.cal = f]
      BY <1>6, <2>2 DEF ReadLine
    <3>2. \A i \in 1..c.count : f[i] = c.cal[i]
      <4>1. DOMAIN d7.cal = 1..MaxAbsWaves
        BY <2>1 DEF Shape
      <4>2. QED  BY <1>3, <1>4, <4>1 DEF Front_
    <3> HIDE DEF f
    <3>3. QED  BY <2>1, <2>3, <3>1, <3>2 DEF Blank
  <2>12. /\ d8.dwell = c.dwell /\ d8.integration = c.integration /\ d8.scans = c.scans
         /\ d8.count = c.count /\ d8.nonAbs = c.nonAbs /\ d8.analyte = c.analyte
         /\ d8.measure = c.measure /\ d8.waves = d4.waves
    <3>1. \A k \in {"dwell", "integration", "scans", "count", "nonAbs", "analyte", "measure",
                    "waves"} : k \in DOMAIN Blank /\ k # "cal"
      BY DEF Blank
    <3>2. d4.dwell = c.dwell /\ d4.integration = c.integration /\ d4.scans = c.scans
      BY <2>4, <2>5, <2>6, <2>10, <3>1
    <3>3. QED  BY <2>7, <2>8, <2>9, <2>10, <2>11, <3>1, <3>2
  <2>13. Saved(z, d8) = Saved(z, c)
    <3>1. \A i \in 1..d8.count : d8.waves[i] = c.waves[i] /\ d8.cal[i] = c.cal[i]
      BY <2>10, <2>11, <2>12
    <3>2. QED  BY <1>2, <2>1, <2>12, <3>1, SavedEqual
  <2>14. QED  BY <2>13 DEF d8
<1>22. QED  BY <1>19, <1>20, <1>21 DEF lines, more, c, r0

\* A save begins with the mode.
LEMMA ModeIsRead ==
  /\ TextFits(Text(<<ModeLine>>))
  /\ readConfig(Text(<<ModeLine>>)).mode = mode
<1> DEFINE none == <<>>
           line == ModeLine
           lines == <<line>>
<1>1. line.spec = 0 /\ line.key = "mode" /\ line.value = mode
  BY DEF ModeLine, Line
<1> HIDE DEF line
<1>2. lines = [i \in 1..1 |-> lines[i]] /\ lines[1] = line
  OBVIOUS
<1>3. LineFits(line)
  BY <1>1 DEF LineFits
<1> HIDE DEF lines
<1>4. none \in Seq({}) /\ Len(none) = 0
  BY EmptySeq
<1>5. IsSeq(none) /\ \A i \in 1..Len(none) : LineFits(none[i][1])
  <2>1. IsSeq(none)
    <3> HIDE DEF none
    <3>1. QED  BY <1>4, SeqIs
  <2>2. \A i \in 1..Len(none) : FALSE
    BY <1>4
  <2>3. QED  BY <2>1, <2>2
<1>6. TextFits(none)
  BY <1>5 DEF TextFits
<1>7. readConfig(none) = Unread
  BY NothingIsRead
<1> HIDE DEF none
<1> DEFINE r1 == ReadUnit(Unread, <<line, 1>>)
           r == [k \in 0..1 |-> IF k = 0 THEN Unread ELSE r1]
<1>8. /\ r[0] = readConfig(none) /\ r[1] = r1
      /\ \A k \in 1..1 : r[k] = ReadUnit(r[k - 1], <<lines[k], 1>>)
  <2>1. r[0] = Unread /\ r[1] = r1 /\ lines[1] = line
    BY <1>2
  <2> HIDE DEF r
  <2>2. \A k \in 1..1 : k = 1 /\ k - 1 = 0
    OBVIOUS
  <2>3. QED  BY <1>7, <2>1, <2>2
<1>9. r1.mode = mode
  <2>1. r1 = [Unread EXCEPT !.mode = mode]
    BY <1>1 DEF ReadUnit
  <2>2. QED  BY <2>1 DEF Unread
<1> HIDE DEF r, r1
<1>10. 1 \in Nat \ {0} /\ \A i \in 1..1 : LineFits(lines[i])
  BY <1>2, <1>3
<1>11. /\ TextFits(Text(lines)) /\ readConfig(none \o Text(lines)) = r[1]
  <2>1. Account(none, 1, lines, r)
    BY <1>2, <1>6, <1>8, <1>10 DEF Account
  <2>2. QED  BY <2>1, LinesAreRead
<1>12. none \o Text(lines) = Text(lines)
  <2> DEFINE x == Text(lines)
             S == {x[i] : i \in DOMAIN x}
  <2>1. x \in Seq(S)
    BY <1>11 DEF TextFits, IsSeq
  <2> HIDE DEF x, S
  <2>2. none \o x = x
    BY <2>1, ConcatEmptySeq DEF none
  <2>3. QED  BY <2>2 DEF x
<1>13. QED  BY <1>8, <1>9, <1>11, <1>12 DEF lines, line

-----------------------------------------------------------------------------
(* What applyConfig does when the server starts.                           *)

LEMMA TwoWaves ==
  /\ Len(MCPWaves) = 2 /\ MCPWaves[1] = 434 /\ MCPWaves[2] = 578 /\ MCPWaves \in Seq(Nat)
  /\ MCPNonAbs \in Nat /\ 2 \in 0..MaxAbsWaves /\ MaxAbsWaves \in Nat
<1>1. Len(MCPWaves) = 2 /\ MCPWaves[1] = 434 /\ MCPWaves[2] = 578 /\ MCPWaves \in Seq(Nat)
  BY DEF MCPWaves
<1>2. QED  BY <1>1, SizeAssumption DEF MCPNonAbs

LEMMA OverriddenIs ==
  ASSUME NEW c, Shape(c)
  PROVE  Shape(Overridden(c))
<1>1. /\ c = [k \in DOMAIN Blank |-> c[k]]
      /\ c.waves \in [1..MaxAbsWaves -> Nat] /\ c.count \in 0..MaxAbsWaves
      /\ c.nonAbs \in Nat
  BY DEF Shape
<1>2. CASE c.measure = "ANALYTE"
  BY <1>2 DEF Overridden
<1>3. CASE c.measure # "ANALYTE"
  <2> DEFINE n == IF c.measure = "MCP" THEN Len(MCPWaves) ELSE c.count
             w == IF c.measure = "MCP" THEN Front_(MCPWaves, c.waves) ELSE c.waves
             a == IF c.measure = "MCP" THEN MCPNonAbs ELSE c.nonAbs
             x == [i \in DOMAIN w |-> IF i <= n THEN w[i] ELSE 0]
             o == Overridden(c)
  <2>1. o = [c EXCEPT !.count = n, !.nonAbs = a, !.waves = x]
    BY <1>1, <1>3 DEF Overridden
  <2>2. n \in 0..MaxAbsWaves /\ a \in Nat /\ MaxAbsWaves \in Nat
    BY <1>1, TwoWaves
  <2>3. w \in [1..MaxAbsWaves -> Nat]
    <3>1. \A i \in 1..MaxAbsWaves : i <= 2 => MCPWaves[i] \in Nat
      <4>1. \A i \in 1..MaxAbsWaves : i <= 2 => i = 1 \/ i = 2
        OBVIOUS
      <4>2. QED  BY <4>1, TwoWaves
    <3>2. CASE c.measure = "MCP"
      <4>1. w = [i \in 1..MaxAbsWaves |-> IF i <= 2 THEN MCPWaves[i] ELSE c.waves[i]]
        BY <1>1, <3>2, TwoWaves DEF Front_
      <4> HIDE DEF w
      <4>2. QED  BY <1>1, <3>1, <4>1
    <3>3. QED  BY <1>1, <3>2
  <2> HIDE DEF n, w, a
  <2>4. x \in [1..MaxAbsWaves -> Nat]
    BY <2>2, <2>3
  <2> HIDE DEF x, o
  <2>5. o = [k \in DOMAIN Blank |-> IF k = "count" THEN n ELSE IF k = "nonAbs" THEN a
                                    ELSE IF k = "waves" THEN x ELSE c[k]]
    BY <1>1, <2>1
  <2>6. /\ o = [k \in DOMAIN Blank |-> o[k]] /\ o.count = n /\ o.nonAbs = a /\ o.waves = x
        /\ o.cal = c.cal /\ o.pixels = c.pixels
    BY <2>5 DEF Blank
  <2>7. Shape(o)
    BY <2>2, <2>4, <2>6 DEF Shape
  <2>8. QED  BY <2>7 DEF o
<1>4. QED  BY <1>2, <1>3

LEMMA AppliedIs ==
  ASSUME NEW s, NEW c, Shape(c)
  PROVE  LET x == Applied(s, c)
         IN Shape(x) /\ FollowIn(s, x)
<1> DEFINE o == Overridden(c)
           p == Pixels(s, o)
           q == calcPixelValueForWavelength(s, o.nonAbs)
           x == Applied(s, c)
<1>1. Shape(o)
  BY OverriddenIs
<1>2. x = [k \in DOMAIN Blank |-> CASE k = "pixels" -> p [] k = "nonAbsPixel" -> q [] OTHER -> o[k]]
  BY DEF Applied
<1>3. /\ p = [i \in 1..MaxAbsWaves |-> p[i]]
      /\ \A i \in 1..o.count : p[i] = calcPixelValueForWavelength(s, o.waves[i])
  <2>1. /\ DOMAIN o.waves = 1..MaxAbsWaves /\ o.count \in 0..MaxAbsWaves /\ MaxAbsWaves \in Nat
    BY <1>1, TwoWaves DEF Shape
  <2>2. p = [i \in 1..MaxAbsWaves |->
               IF i <= o.count THEN calcPixelValueForWavelength(s, o.waves[i]) ELSE o.pixels[i]]
    BY <2>1 DEF Pixels
  <2> HIDE DEF o, p
  <2>3. QED  BY <2>1, <2>2
<1> HIDE DEF o, p, q, x
<1>4. /\ x = [k \in DOMAIN Blank |-> x[k]] /\ x.pixels = p /\ x.nonAbsPixel = q
      /\ x.count = o.count /\ x.waves = o.waves /\ x.nonAbs = o.nonAbs /\ x.cal = o.cal
  BY <1>2 DEF Blank
<1>5. Shape(x)
  BY <1>1, <1>3, <1>4 DEF Shape
<1>6. FollowIn(s, x)
  BY <1>3, <1>4 DEF FollowIn, q
<1>7. QED  BY <1>5, <1>6 DEF x

-----------------------------------------------------------------------------
(* A request is a plan.                                                    *)

\* The operations of a kind of step.
LEMMA SetsIs ==
  ASSUME NEW st
  PROVE  /\ Sets(st) => /\ st.op \in {"put", "wave", "found", "cal"}
                        /\ ~Tunes(st) /\ ~Overrides(st)
         /\ Tunes(st) => st.op = "put" /\ ~Sets(st) /\ ~Overrides(st) /\ ~Dwells(st)
<1>1. ASSUME st.op = "put", DOMAIN st.fields \cap Sampling = {},
             DOMAIN st.fields \subseteq Sampling, DOMAIN st.fields # {}
      PROVE  FALSE
  BY <1>1
<1>2. ASSUME Tunes(st)
      PROVE  st.op = "put" /\ ~Sets(st) /\ ~Overrides(st) /\ ~Dwells(st)
  <2>1. st.op = "put" /\ DOMAIN st.fields \subseteq Sampling /\ DOMAIN st.fields # {}
    BY <1>2 DEF Tunes
  <2>2. ~Sets(st)
    BY <1>1, <2>1 DEF Sets
  <2>3. "dwell" \notin Sampling
    BY DEF Sampling
  <2>4. ~Dwells(st)
    BY <2>1, <2>3 DEF Dwells
  <2>5. QED  BY <2>1, <2>2, <2>4 DEF Overrides
<1>3. ASSUME Sets(st)
      PROVE  st.op \in {"put", "wave", "found", "cal"} /\ ~Tunes(st) /\ ~Overrides(st)
  <2>1. st.op \in {"put", "wave", "found", "cal"}
    BY <1>3 DEF Sets
  <2>2. QED  BY <1>2, <1>3, <2>1 DEF Overrides
<1>4. QED  BY <1>2, <1>3

\* Steps from a to b.
Going(q, a, b) == Chain(q) /\ Len(q) > 0 /\ q[1] = a /\ q[Len(q)] = b

LEMMA GoingJoined ==
  ASSUME NEW p, NEW a, NEW b, Going(p, a, b), NEW q, NEW c, NEW d, Going(q, c, d),
         Follows(b, c)
  PROVE  Going(p \o q, a, d)
<1> DEFINE n == Len(p)
           m == Len(q)
           x == p \o q
<1>1. /\ IsSeq(p) /\ IsSeq(q) /\ n > 0 /\ m > 0 /\ p[1] = a /\ p[n] = b /\ q[1] = c /\ q[m] = d
      /\ \A i \in 1..n : StepFits(p[i])
      /\ \A i \in 1..m : StepFits(q[i])
      /\ \A i \in 1..n : i < n => Follows(p[i], p[i + 1])
      /\ \A i \in 1..m : i < m => Follows(q[i], q[i + 1])
  BY DEF Going, Chain
<1>2. /\ IsSeq(x) /\ n \in Nat /\ m \in Nat /\ Len(x) = n + m
      /\ \A i \in 1..n : x[i] = p[i]
      /\ \A i \in 1..m : x[n + i] = q[i]
      /\ \A i \in n + 1..n + m : x[i] = q[i - n]
  BY <1>1, ConcatIs
<1> HIDE DEF n, m, x
<1>3. \A i \in 1..n + m : StepFits(x[i])
  <2> SUFFICES ASSUME NEW i \in 1..n + m  PROVE StepFits(x[i])
    OBVIOUS
  <2>1. CASE i \in 1..n
    BY <1>1, <1>2, <2>1
  <2>2. CASE i \notin 1..n
    <3>1. i \in n + 1..n + m /\ i - n \in 1..m
      BY <1>2, <2>2
    <3>2. x[i] = q[i - n]
      BY <1>2, <3>1
    <3>3. QED  BY <1>1, <3>1, <3>2
  <2>3. QED  BY <2>1, <2>2
<1>4. ASSUME NEW i \in 1..n + m, i < n + m
      PROVE  Follows(x[i], x[i + 1])
  <2>1. CASE i < n
    <3>1. i \in 1..n /\ i + 1 \in 1..n
      BY <1>2, <2>1
    <3>2. x[i] = p[i] /\ x[i + 1] = p[i + 1]
      BY <1>2, <3>1
    <3>3. QED  BY <1>1, <2>1, <3>1, <3>2
  <2>2. CASE i = n
    <3>1. n \in 1..n /\ 1 \in 1..m
      BY <1>1, <1>2
    <3>2. x[i] = p[n] /\ x[i + 1] = q[1]
      BY <1>2, <2>2, <3>1
    <3>3. QED  BY <1>1, <3>2
  <2>3. CASE i > n
    <3>1. i - n \in 1..m /\ (i - n) + 1 \in 1..m /\ i - n < m
      BY <1>2, <1>4, <2>3
    <3>2. n + (i - n) = i /\ n + ((i - n) + 1) = i + 1
      BY <1>2
    <3>3. x[i] = q[i - n] /\ x[i + 1] = q[(i - n) + 1]
      BY <1>2, <3>1, <3>2
    <3>4. QED  BY <1>1, <3>1, <3>3
  <2>4. QED  BY <1>2, <2>1, <2>2, <2>3
<1>5. Chain(x)
  <2>1. Len(x) = n + m
    BY <1>2
  <2>2. QED  BY <1>2, <1>3, <1>4, <2>1 DEF Chain
<1>6. Len(x) > 0 /\ x[1] = a /\ x[Len(x)] = d
  <2>1. 1 \in 1..n /\ m \in 1..m
    BY <1>1, <1>2
  <2>2. QED  BY <1>1, <1>2, <2>1
<1>7. QED  BY <1>5, <1>6 DEF Going, x

\* What a setter sets of one spectrometer.
OneGo(q, s) ==
  /\ IsSeq(q) /\ s \in SpecIndex
  /\ \A i \in 1..Len(q) : StepFits(q[i]) /\ Sets(q[i]) /\ ~Dwells(q[i]) /\ q[i].spec = s

LEMMA OneGoJoined ==
  ASSUME NEW p, NEW q, NEW s, OneGo(p, s), Len(p) > 0, OneGo(q, s)
  PROVE  OneGo(p \o q, s) /\ Len(p \o q) > 0
<1> DEFINE x == p \o q
<1>1. /\ IsSeq(x) /\ Len(p) \in Nat /\ Len(q) \in Nat /\ Len(x) = Len(p) + Len(q)
      /\ \A i \in 1..Len(p) : x[i] = p[i]
      /\ \A i \in Len(p) + 1..Len(p) + Len(q) : x[i] = q[i - Len(p)]
  BY ConcatIs DEF OneGo
<1> HIDE DEF x
<1>2. ASSUME NEW i \in 1..Len(x)
      PROVE  StepFits(x[i]) /\ Sets(x[i]) /\ ~Dwells(x[i]) /\ x[i].spec = s
  <2>1. CASE i \in 1..Len(p)
    <3>1. x[i] = p[i]
      BY <1>1, <2>1
    <3>2. QED  BY <2>1, <3>1 DEF OneGo
  <2>2. CASE i \notin 1..Len(p)
    <3>1. i \in Len(p) + 1..Len(p) + Len(q) /\ i - Len(p) \in 1..Len(q)
      BY <1>1, <2>2
    <3>2. x[i] = q[i - Len(p)]
      BY <1>1, <3>1
    <3>3. QED  BY <3>1, <3>2 DEF OneGo
  <2>3. QED  BY <2>1, <2>2
<1>3. QED  BY <1>1, <1>2 DEF OneGo, x

LEMMA OneGoIs ==
  ASSUME NEW q, NEW s, OneGo(q, s), Len(q) > 0
  PROVE  /\ Going(q, q[1], q[Len(q)]) /\ Sets(q[1])
         /\ Sets(q[Len(q)]) /\ ~Dwells(q[Len(q)])
<1>1. /\ IsSeq(q) /\ s \in SpecIndex /\ Len(q) \in Nat
      /\ \A i \in 1..Len(q) : StepFits(q[i]) /\ Sets(q[i]) /\ ~Dwells(q[i]) /\ q[i].spec = s
  BY SeqDomain DEF OneGo
<1>2. \A st : Sets(st) => st.op \in {"put", "wave", "found", "cal"} /\ ~Tunes(st) /\ ~Overrides(st)
  BY SetsIs
<1>3. \A a, b : Sets(a) /\ ~Dwells(a) /\ a.spec = s /\ Sets(b) /\ ~Dwells(b) /\ b.spec = s =>
        Follows(a, b)
  BY <1>2 DEF Follows
<1>4. \A i \in 1..Len(q) : i < Len(q) => Follows(q[i], q[i + 1])
  <2>1. \A i \in 1..Len(q) : i < Len(q) => i + 1 \in 1..Len(q)
    BY <1>1
  <2>2. QED  BY <1>1, <1>3, <2>1
<1>5. 1 \in 1..Len(q) /\ Len(q) \in 1..Len(q)
  BY <1>1
<1>6. Chain(q)
  BY <1>1, <1>4 DEF Chain
<1>7. QED  BY <1>1, <1>5, <1>6 DEF Going

\* A list of steps, each after the one before it.
LEMMA ListIsGoing ==
  ASSUME NEW q, NEW n \in Nat \ {0}, q = [i \in 1..n |-> q[i]],
         \A i \in 1..n : StepFits(q[i]),
         \A i \in 1..n : i < n => Follows(q[i], q[i + 1])
  PROVE  Going(q, q[1], q[n])
<1>1. IsSeq(q) /\ Len(q) = n
  BY ListIs
<1>2. Chain(q)
  BY <1>1 DEF Chain
<1>3. QED  BY <1>1, <1>2 DEF Going

\* A list of one step, and of two.
LEMMA OneGoes ==
  ASSUME NEW q, NEW a, q = [i \in 1..1 |-> q[i]], q[1] = a, StepFits(a)
  PROVE  Going(q, a, a)
<1>1. 1 \in Nat \ {0} /\ \A i \in 1..1 : i = 1 /\ ~(i < 1)
  OBVIOUS
<1>2. QED  BY <1>1, ListIsGoing

LEMMA TwoGo ==
  ASSUME NEW q, NEW a, NEW b, q = [i \in 1..2 |-> q[i]], q[1] = a, q[2] = b,
         StepFits(a), StepFits(b), Follows(a, b)
  PROVE  Going(q, a, b)
<1>1. 2 \in Nat \ {0} /\ \A i \in 1..2 : i = 1 \/ i = 2
  OBVIOUS
<1>2. \A i \in 1..2 : i < 2 => i = 1 /\ i + 1 = 2
  BY <1>1
<1>3. /\ \A i \in 1..2 : StepFits(q[i])
      /\ \A i \in 1..2 : i < 2 => Follows(q[i], q[i + 1])
  BY <1>1, <1>2
<1>4. QED  BY <1>1, <1>3, ListIsGoing

CopyLast == [op |-> "copy", spec |-> NumSpecs]

LEMMA CopiesLast == CopyLast.op = "copy" /\ CopyLast.spec = NumSpecs /\ Ends(CopyLast)
BY DEF CopyLast, Ends

\* One step for each spectrometer, in their order.
LEMMA SpecsGo ==
  ASSUME NEW q, q = [s \in SpecIndex |-> q[s]], NEW op \in {"print", "copy"},
         \A s \in SpecIndex : q[s].op = op /\ q[s].spec = s
  PROVE  Going(q, q[1], q[NumSpecs])
<1>1. NumSpecs \in Nat \ {0} /\ SpecIndex = 1..NumSpecs
  BY SizeAssumption DEF SpecIndex
<1>2. \A s \in 1..NumSpecs : StepFits(q[s])
  <2> SUFFICES ASSUME NEW s \in 1..NumSpecs  PROVE StepFits(q[s])
    OBVIOUS
  <2>1. q[s].op \in {"print", "copy"} /\ q[s].spec \in SpecIndex
    BY <1>1
  <2>2. QED  BY <2>1 DEF StepFits, Writes, Logs
<1>3. ASSUME NEW s \in 1..NumSpecs, s < NumSpecs
      PROVE  Follows(q[s], q[s + 1])
  <2>1. s + 1 \in SpecIndex /\ s # NumSpecs /\ s \in SpecIndex
    BY <1>1, <1>3
  <2>2. q[s].op = op /\ q[s].spec = s /\ q[s + 1].op = op /\ q[s + 1].spec = s + 1
    BY <2>1
  <2>3. QED  BY <2>1, <2>2 DEF Follows, Sets, Tunes, Overrides
<1>4. QED  BY <1>1, <1>2, <1>3, ListIsGoing

LEMMA WriteGoes == Going(writeConfigFile, [op |-> "open"], CopyLast)
<1> DEFINE open == [op |-> "open"]
           lock == [op |-> "lock"]
           shut == [op |-> "close"]
           data == [op |-> "dataLock"]
           opening == <<open, lock>>
           prints == [s \in SpecIndex |-> [op |-> "print", spec |-> s]]
           end == <<shut>>
           locking == <<data>>
           copies == [s \in SpecIndex |-> [op |-> "copy", spec |-> s]]
<1>1. NumSpecs \in Nat \ {0} /\ 1 \in SpecIndex /\ NumSpecs \in SpecIndex
  BY SizeAssumption DEF SpecIndex
<1>2. writeConfigFile = ((opening \o prints) \o end) \o (locking \o copies)
  BY DEF writeConfigFile, writeConfigToDB
<1>3. open.op = "open" /\ lock.op = "lock" /\ shut.op = "close" /\ data.op = "dataLock"
  OBVIOUS
<1>4. /\ prints = [s \in SpecIndex |-> prints[s]]
      /\ \A s \in SpecIndex : prints[s].op = "print" /\ prints[s].spec = s
      /\ copies = [s \in SpecIndex |-> copies[s]]
      /\ \A s \in SpecIndex : copies[s].op = "copy" /\ copies[s].spec = s
      /\ copies[NumSpecs] = CopyLast
  BY <1>1 DEF CopyLast
<1>5. /\ opening = [i \in 1..2 |-> opening[i]] /\ opening[1] = open /\ opening[2] = lock
      /\ end = [i \in 1..1 |-> end[i]] /\ end[1] = shut
      /\ locking = [i \in 1..1 |-> locking[i]] /\ locking[1] = data
  OBVIOUS
<1> HIDE DEF open, lock, shut, data, opening, prints, end, locking, copies
<1>6. \A st : st.op \in {"open", "lock", "close", "dataLock"} => StepFits(st)
  BY DEF StepFits, Writes, Logs
<1>7. \A a, b : \/ a.op = "open" /\ b.op = "lock"
                \/ a.op = "lock" /\ b.op = "print" /\ b.spec = 1
                \/ a.op = "print" /\ a.spec = NumSpecs /\ b.op = "close"
                \/ a.op = "close" /\ b.op = "dataLock"
                \/ a.op = "dataLock" /\ b.op = "copy" /\ b.spec = 1
              => Follows(a, b)
  BY DEF Follows, Sets, Tunes, Overrides
<1>8. Going(opening, open, lock)
  <2>1. Follows(open, lock)
    BY <1>3, <1>7
  <2>2. QED  BY <1>3, <1>5, <1>6, <2>1, TwoGo
<1>9. Going(end, shut, shut) /\ Going(locking, data, data)
  BY <1>3, <1>5, <1>6, OneGoes
<1>10. Going(prints, prints[1], prints[NumSpecs])
  BY <1>4, SpecsGo
<1>11. Going(copies, copies[1], CopyLast)
  BY <1>4, SpecsGo
<1>12. /\ Follows(lock, prints[1]) /\ Follows(prints[NumSpecs], shut)
       /\ Follows(shut, data) /\ Follows(data, copies[1])
  BY <1>1, <1>3, <1>4, <1>7
<1>13. Going(opening \o prints, open, prints[NumSpecs])
  BY <1>8, <1>10, <1>12, GoingJoined
<1>14. Going((opening \o prints) \o end, open, shut)
  BY <1>9, <1>12, <1>13, GoingJoined
<1>15. Going(locking \o copies, data, CopyLast)
  BY <1>9, <1>11, <1>12, GoingJoined
<1>16. Going(((opening \o prints) \o end) \o (locking \o copies), open, CopyLast)
  BY <1>12, <1>14, <1>15, GoingJoined
<1>17. QED  BY <1>2, <1>16 DEF open

\* A flattened sequence goes as its members do, each from a(k) to b(k).
Goings(n, seqs, a, b) ==
  /\ n \in Nat \ {0} /\ seqs = [k \in 1..n |-> seqs[k]]
  /\ \A k \in 1..n : Going(seqs[k], a[k], b[k])
  /\ \A k \in 1..n : k < n => Follows(b[k], a[k + 1])

LEMMA FlattenedGoes ==
  ASSUME NEW n, NEW seqs, NEW a, NEW b, Goings(n, seqs, a, b)
  PROVE  Going(FlattenSeq(seqs), a[1], b[n])
<1> DEFINE g == CHOOSE g : Flattens(seqs, n, g)
           Good(k) == Going(g[k], a[1], b[k])
           Bad == {k \in 1..n : ~Good(k)}
<1>1. /\ n \in Nat \ {0} /\ seqs = [k \in 1..n |-> seqs[k]]
      /\ \A k \in 1..n : Going(seqs[k], a[k], b[k])
      /\ \A k \in 1..n : k < n => Follows(b[k], a[k + 1])
  BY DEF Goings
<1>2. Len(seqs) = n
  BY <1>1, ListIs
<1>3. FlattenSeq(seqs) = g[n]
  BY <1>1, <1>2 DEF FlattenSeq, Flattens
<1>4. Flattens(seqs, n, g)
  BY <1>1, FlattensExists
<1> HIDE DEF g
<1>5. \A i \in 1..n : g[i] = IF i = 1 THEN seqs[i] ELSE g[i - 1] \o seqs[i]
  BY <1>1, <1>4 DEF Flattens
<1>6. Good(n) => Going(FlattenSeq(seqs), a[1], b[n])
  BY <1>3
<1>7. n \in 1..n /\ Bad \in SUBSET Nat
  BY <1>1
<1> HIDE DEF Good
<1>8. SUFFICES ASSUME Bad # {}  PROVE FALSE
  BY <1>6, <1>7
<1>9. PICK k \in Bad : \A y \in Bad : k <= y
  <2> HIDE DEF Bad
  <2>1. QED  BY <1>7, <1>8, LeastExists
<1>10. k \in 1..n /\ ~Good(k)
  BY <1>9
<1>11. CASE k = 1
  <2>1. g[1] = seqs[1] /\ Going(seqs[1], a[1], b[1])
    BY <1>1, <1>5, <1>10, <1>11
  <2>2. QED  BY <1>10, <1>11, <2>1 DEF Good
<1>12. CASE k # 1
  <2>1. k \in 1..n /\ k - 1 \in 1..n /\ k - 1 < n /\ (k - 1) + 1 = k
    BY <1>1, <1>10, <1>12
  <2>2. Good(k - 1)
    BY <1>9, <2>1
  <2>3. g[k] = g[k - 1] \o seqs[k]
    BY <1>5, <1>12, <2>1
  <2>4. Follows(b[k - 1], a[k])
    <3>1. Follows(b[k - 1], a[(k - 1) + 1])
      BY <1>1, <2>1
    <3>2. QED  BY <2>1, <3>1
  <2>5. Going(seqs[k], a[k], b[k]) /\ Going(g[k - 1], a[1], b[k - 1])
    BY <1>1, <2>1, <2>2 DEF Good
  <2>6. Going(g[k - 1] \o seqs[k], a[1], b[k])
    BY <2>4, <2>5, GoingJoined
  <2>7. Good(k)
    BY <2>3, <2>6 DEF Good
  <2>8. QED  BY <1>10, <2>7
<1>13. QED  BY <1>11, <1>12

LEMMA ApplyGoes ==
  Going(applyConfig, [op |-> "override", spec |-> 1], [op |-> "pixel", spec |-> NumSpecs, j |-> 1])
<1> DEFINE over(s) == [op |-> "override", spec |-> s]
           pixel(s) == [op |-> "pixel", spec |-> s, j |-> 1]
           seqs == [s \in SpecIndex |-> <<over(s), pixel(s)>>]
           a == [s \in SpecIndex |-> over(s)]
           b == [s \in SpecIndex |-> pixel(s)]
<1>1. NumSpecs \in Nat \ {0} /\ SpecIndex = 1..NumSpecs
  BY SizeAssumption DEF SpecIndex
<1>2. applyConfig = FlattenSeq(seqs)
  BY DEF applyConfig
<1>3. \A s : /\ over(s).op = "override" /\ over(s).spec = s
             /\ pixel(s).op = "pixel" /\ pixel(s).spec = s /\ pixel(s).j = 1
  OBVIOUS
<1> HIDE DEF over, pixel
<1>4. \A s \in SpecIndex : /\ seqs[s] = [i \in 1..2 |-> seqs[s][i]]
                           /\ seqs[s][1] = over(s) /\ seqs[s][2] = pixel(s)
  OBVIOUS
<1>5. /\ seqs = [k \in 1..NumSpecs |-> seqs[k]]
      /\ \A k \in 1..NumSpecs : a[k] = over(k) /\ b[k] = pixel(k)
  BY <1>1
<1> HIDE DEF seqs, a, b
<1>6. \A st : (st.op = "override" \/ (st.op = "pixel" /\ st.j = 1)) /\ st.spec \in SpecIndex =>
        StepFits(st)
  BY DEF StepFits, Applies, Overrides
<1>7. \A x, y : \/ x.op = "override" /\ y.op = "pixel" /\ y.spec = x.spec /\ y.j = 1
                \/ x.op = "pixel" /\ x.spec # NumSpecs /\ y.op = "override" /\ y.spec = x.spec + 1
              => Follows(x, y)
  BY DEF Follows, Sets, Tunes, Overrides
<1>8. ASSUME NEW k \in 1..NumSpecs
      PROVE  Going(seqs[k], a[k], b[k])
  <2> DEFINE q == seqs[k]
  <2>1. q = [i \in 1..2 |-> q[i]] /\ q[1] = over(k) /\ q[2] = pixel(k)
    BY <1>1, <1>4
  <2> HIDE DEF q
  <2>2. StepFits(over(k)) /\ StepFits(pixel(k)) /\ Follows(over(k), pixel(k))
    BY <1>1, <1>3, <1>6, <1>7
  <2>3. Going(q, over(k), pixel(k))
    BY <2>1, <2>2, TwoGo
  <2>4. QED  BY <1>5, <2>3 DEF q
<1>9. \A k \in 1..NumSpecs : k < NumSpecs => Follows(b[k], a[k + 1])
  <2> SUFFICES ASSUME NEW k \in 1..NumSpecs, k < NumSpecs  PROVE Follows(b[k], a[k + 1])
    OBVIOUS
  <2>1. k + 1 \in 1..NumSpecs /\ k # NumSpecs
    BY <1>1
  <2>2. b[k] = pixel(k) /\ a[k + 1] = over(k + 1)
    BY <1>5, <2>1
  <2>3. QED  BY <1>3, <1>7, <2>1, <2>2
<1>10. Going(FlattenSeq(seqs), a[1], b[NumSpecs])
  <2>1. Goings(NumSpecs, seqs, a, b)
    BY <1>1, <1>5, <1>8, <1>9 DEF Goings
  <2>2. QED  BY <2>1, FlattenedGoes
<1>11. a[1] = over(1) /\ b[NumSpecs] = pixel(NumSpecs)
  BY <1>1, <1>5
<1>12. QED  BY <1>2, <1>10, <1>11 DEF over, pixel

LEMMA PutGoes ==
  ASSUME NEW s \in SpecIndex, NEW fields, FieldsFit(fields),
         \/ DOMAIN fields \cap Sampling = {}
         \/ DOMAIN fields \subseteq Sampling /\ DOMAIN fields # {}
  PROVE  LET q == Put(s, fields)
         IN /\ q = [i \in 1..1 |-> q[i]] /\ StepFits(q[1])
            /\ q[1].op = "put" /\ q[1].spec = s /\ q[1].fields = fields
<1> DEFINE q == Put(s, fields)
           st == [op |-> "put", spec |-> s, fields |-> fields]
<1>1. q = [i \in 1..1 |-> q[i]] /\ q[1] = st
  BY DEF Put
<1>2. st.op = "put" /\ st.spec = s /\ st.fields = fields
  OBVIOUS
<1> HIDE DEF q, st
<1>3. StepFits(st)
  BY <1>2 DEF StepFits, Sets, Tunes
<1>4. QED  BY <1>1, <1>2, <1>3 DEF q

\* A field that is set.
LEMMA PutIsGo ==
  ASSUME NEW s \in SpecIndex, NEW fields, FieldsFit(fields),
         DOMAIN fields \cap Sampling = {}, DOMAIN fields # {"dwell"}
  PROVE  OneGo(Put(s, fields), s) /\ Len(Put(s, fields)) > 0
<1> DEFINE q == Put(s, fields)
<1>1. /\ q = [i \in 1..1 |-> q[i]] /\ StepFits(q[1])
      /\ q[1].op = "put" /\ q[1].spec = s /\ q[1].fields = fields
  BY PutGoes
<1> HIDE DEF q
<1>2. IsSeq(q) /\ Len(q) = 1
  BY <1>1, ListIs
<1>3. Sets(q[1]) /\ ~Dwells(q[1])
  BY <1>1 DEF Sets, Dwells
<1>4. \A i \in 1..Len(q) : i = 1
  BY <1>2
<1>5. OneGo(q, s)
  BY <1>1, <1>2, <1>3, <1>4 DEF OneGo
<1>6. QED  BY <1>2, <1>5 DEF q

\* A field that fits.
LEMMA FieldFits ==
  /\ \A v : FieldsFit([dwell |-> v]) /\ FieldsFit([measure |-> v]) /\ FieldsFit([analyte |-> v])
            /\ FieldsFit([nonAbsPixel |-> v])
  /\ \A v : FieldsFit([integration |-> v]) /\ FieldsFit([scans |-> v])
  /\ \A v \in 0..MaxAbsWaves : FieldsFit([count |-> v])
  /\ \A v \in [1..MaxAbsWaves -> Nat] : FieldsFit([waves |-> v])
  /\ \A v \in Nat : FieldsFit([nonAbs |-> v])
  /\ \A v : v = [i \in 1..MaxAbsWaves |-> v[i]] => FieldsFit([cal |-> v])
BY DEF FieldsFit

LEMMA FieldGoes ==
  ASSUME NEW s \in SpecIndex, NEW v
  PROVE  /\ OneGo(Put(s, [measure |-> v]), s) /\ Len(Put(s, [measure |-> v])) > 0
         /\ OneGo(Put(s, [analyte |-> v]), s) /\ Len(Put(s, [analyte |-> v])) > 0
         /\ OneGo(Put(s, [nonAbsPixel |-> v]), s)
         /\ v \in 0..MaxAbsWaves => OneGo(Put(s, [count |-> v]), s)
                                    /\ Len(Put(s, [count |-> v])) > 0
         /\ v \in [1..MaxAbsWaves -> Nat] => OneGo(Put(s, [waves |-> v]), s)
         /\ v \in Nat => OneGo(Put(s, [nonAbs |-> v]), s) /\ Len(Put(s, [nonAbs |-> v])) > 0
         /\ v = [i \in 1..MaxAbsWaves |-> v[i]] => OneGo(Put(s, [cal |-> v]), s)
<1> DEFINE f == [measure |-> v]
           g == [analyte |-> v]
           h == [nonAbsPixel |-> v]
           k == [count |-> v]
           l == [waves |-> v]
           m == [nonAbs |-> v]
           n == [cal |-> v]
<1>1. /\ DOMAIN f \cap Sampling = {} /\ DOMAIN f # {"dwell"}
      /\ DOMAIN g \cap Sampling = {} /\ DOMAIN g # {"dwell"}
      /\ DOMAIN h \cap Sampling = {} /\ DOMAIN h # {"dwell"}
      /\ DOMAIN k \cap Sampling = {} /\ DOMAIN k # {"dwell"}
      /\ DOMAIN l \cap Sampling = {} /\ DOMAIN l # {"dwell"}
      /\ DOMAIN m \cap Sampling = {} /\ DOMAIN m # {"dwell"}
      /\ DOMAIN n \cap Sampling = {} /\ DOMAIN n # {"dwell"}
  BY DEF Sampling
<1>2. /\ FieldsFit(f) /\ FieldsFit(g) /\ FieldsFit(h)
      /\ v \in 0..MaxAbsWaves => FieldsFit(k)
      /\ v \in [1..MaxAbsWaves -> Nat] => FieldsFit(l)
      /\ v \in Nat => FieldsFit(m)
      /\ v = [i \in 1..MaxAbsWaves |-> v[i]] => FieldsFit(n)
  BY FieldFits
<1> HIDE DEF f, g, h, k, l, m, n
<1>3. /\ OneGo(Put(s, f), s) /\ Len(Put(s, f)) > 0
      /\ OneGo(Put(s, g), s) /\ Len(Put(s, g)) > 0 /\ OneGo(Put(s, h), s)
  BY <1>1, <1>2, PutIsGo
<1>4. /\ v \in 0..MaxAbsWaves => OneGo(Put(s, k), s) /\ Len(Put(s, k)) > 0
      /\ v \in [1..MaxAbsWaves -> Nat] => OneGo(Put(s, l), s)
      /\ v \in Nat => OneGo(Put(s, m), s) /\ Len(Put(s, m)) > 0
      /\ v = [i \in 1..MaxAbsWaves |-> v[i]] => OneGo(Put(s, n), s)
  BY <1>1, <1>2, PutIsGo
<1>5. QED  BY <1>3, <1>4 DEF f, g, h, k, l, m, n

\* What applyConfig and a save make of what goes before them.
LEMMA AppliedAfter ==
  ASSUME NEW c, NEW a, NEW b, Going(c, a, b),
         Follows(b, [op |-> "override", spec |-> 1])
  PROVE  Going((c \o applyConfig) \o writeConfigFile, a, CopyLast)
<1> DEFINE over == [op |-> "override", spec |-> 1]
           pixel == [op |-> "pixel", spec |-> NumSpecs, j |-> 1]
           open == [op |-> "open"]
<1>1. Going(applyConfig, over, pixel) /\ Going(writeConfigFile, open, CopyLast)
  BY ApplyGoes, WriteGoes
<1>2. Follows(b, over) /\ pixel.op = "pixel" /\ pixel.spec = NumSpecs /\ open.op = "open"
  OBVIOUS
<1> HIDE DEF over, pixel, open
<1>3. Follows(pixel, open)
  BY <1>2 DEF Follows, Sets, Tunes, Overrides
<1>4. Going(c \o applyConfig, a, pixel)
  BY <1>1, <1>2, GoingJoined
<1>5. QED  BY <1>1, <1>3, <1>4, GoingJoined

\* What is set in one go, applied and saved.
LEMMA SavesAfter ==
  ASSUME NEW c, NEW s, OneGo(c, s), Len(c) > 0
  PROVE  Going((c \o applyConfig) \o writeConfigFile, c[1], CopyLast) /\ Sets(c[1])
<1> DEFINE over == [op |-> "override", spec |-> 1]
           last == c[Len(c)]
<1>1. Going(c, c[1], last) /\ Sets(c[1]) /\ Sets(last) /\ ~Dwells(last)
  BY OneGoIs
<1>2. over.op = "override" /\ over.spec = 1
  OBVIOUS
<1> HIDE DEF over, last
<1>3. Follows(last, over)
  <2>1. last.op \in {"put", "wave", "found", "cal"} /\ ~Tunes(last) /\ ~Overrides(last)
    BY <1>1, SetsIs
  <2>2. QED  BY <1>1, <1>2, <2>1 DEF Follows
<1>4. QED  BY <1>1, <1>3, AppliedAfter DEF over

\* How a request begins.
Starts(st) == Sets(st) \/ Tunes(st) \/ st.op \in {"mode", "open"}

Request(q) == Plan(q) /\ Len(q) > 0 /\ Starts(q[1])

LEMMA GoingIsRequest ==
  ASSUME NEW q, NEW a, NEW b, Going(q, a, b), Ends(b), Starts(a)
  PROVE  Request(q)
BY DEF Request, Going, Plan

LEMMA SavingIsRequest ==
  ASSUME NEW c, NEW s, OneGo(c, s), Len(c) > 0
  PROVE  Request((c \o applyConfig) \o writeConfigFile)
<1>1. Going((c \o applyConfig) \o writeConfigFile, c[1], CopyLast) /\ Sets(c[1])
  BY SavesAfter
<1>2. Starts(c[1])
  BY <1>1 DEF Starts
<1>3. QED  BY <1>1, <1>2, CopiesLast, GoingIsRequest

LEMMA CalGoes ==
  ASSUME NEW s \in SpecIndex, NEW cal
  PROVE  LET c == [j \in 1..MaxAbsWaves |-> [op |-> "cal", spec |-> s, j |-> j, cal |-> cal[j]]]
         IN OneGo(c, s) /\ Len(c) > 0 /\ c[1] = [op |-> "cal", spec |-> s, j |-> 1, cal |-> cal[1]]
<1> DEFINE st(j) == [op |-> "cal", spec |-> s, j |-> j, cal |-> cal[j]]
           c == [j \in 1..MaxAbsWaves |-> st(j)]
<1>1. MaxAbsWaves \in Nat /\ MaxAbsWaves > 0
  BY TwoWaves
<1>2. c = [j \in 1..MaxAbsWaves |-> c[j]] /\ \A j \in 1..MaxAbsWaves : c[j] = st(j)
  OBVIOUS
<1>3. \A j : st(j).op = "cal" /\ st(j).spec = s
  OBVIOUS
<1> HIDE DEF c, st
<1>4. IsSeq(c) /\ Len(c) = MaxAbsWaves
  BY <1>1, <1>2, ListIs
<1>5. \A j : StepFits(st(j)) /\ Sets(st(j)) /\ ~Dwells(st(j)) /\ st(j).spec = s
  BY <1>3 DEF StepFits, Sets, Dwells
<1>6. OneGo(c, s)
  BY <1>2, <1>4, <1>5 DEF OneGo
<1>7. QED  BY <1>1, <1>2, <1>4, <1>6 DEF c, st

LEMMA SlopesAreRequest ==
  ASSUME NEW cals
  PROVE  Request(FlattenSeq([s \in SpecIndex |-> setSlopeIntercept(s, cals[s])]))
<1> DEFINE first(s) == [op |-> "cal", spec |-> s, j |-> 1, cal |-> cals[s][1]]
           seqs == [s \in SpecIndex |-> setSlopeIntercept(s, cals[s])]
           a == [s \in SpecIndex |-> first(s)]
           b == [s \in SpecIndex |-> CopyLast]
<1>1. NumSpecs \in Nat \ {0} /\ SpecIndex = 1..NumSpecs
  BY SizeAssumption DEF SpecIndex
<1>2. \A s : first(s).op = "cal" /\ first(s).j = 1
  OBVIOUS
<1>3. \A s : Sets(first(s))
  BY <1>2 DEF Sets
<1>4. ASSUME NEW s \in SpecIndex
      PROVE  Going(setSlopeIntercept(s, cals[s]), first(s), CopyLast)
  <2> DEFINE cal == cals[s]
             c == [j \in 1..MaxAbsWaves |-> [op |-> "cal", spec |-> s, j |-> j, cal |-> cal[j]]]
  <2>1. setSlopeIntercept(s, cal) = (c \o applyConfig) \o writeConfigFile
    BY DEF setSlopeIntercept
  <2>2. OneGo(c, s) /\ Len(c) > 0 /\ c[1] = first(s)
    BY CalGoes
  <2> HIDE DEF c, first
  <2>3. QED  BY <2>1, <2>2, SavesAfter
<1>5. /\ seqs = [k \in 1..NumSpecs |-> seqs[k]]
      /\ \A k \in 1..NumSpecs : /\ seqs[k] = setSlopeIntercept(k, cals[k]) /\ a[k] = first(k)
                                /\ b[k] = CopyLast
  BY <1>1
<1> HIDE DEF first, seqs, a, b
<1>6. \A k \in 1..NumSpecs : Going(seqs[k], a[k], b[k])
  BY <1>1, <1>4, <1>5
<1>7. \A k \in 1..NumSpecs : k < NumSpecs => Follows(b[k], a[k + 1])
  <2> SUFFICES ASSUME NEW k \in 1..NumSpecs, k < NumSpecs  PROVE Follows(b[k], a[k + 1])
    OBVIOUS
  <2>1. k + 1 \in 1..NumSpecs
    BY <1>1
  <2>2. b[k] = CopyLast /\ a[k + 1] = first(k + 1)
    BY <1>5, <2>1
  <2>3. QED  BY <1>2, <2>2, CopiesLast DEF Follows, Sets, Tunes, Overrides
<1>8. Going(FlattenSeq(seqs), a[1], b[NumSpecs])
  <2>1. Goings(NumSpecs, seqs, a, b)
    BY <1>1, <1>5, <1>6, <1>7 DEF Goings
  <2>2. QED  BY <2>1, FlattenedGoes
<1>9. a[1] = first(1) /\ b[NumSpecs] = CopyLast
  BY <1>1, <1>5
<1>10. Starts(a[1])
  BY <1>3, <1>9 DEF Starts
<1>11. Request(FlattenSeq(seqs))
  BY <1>8, <1>9, <1>10, CopiesLast, GoingIsRequest
<1>12. QED  BY <1>11 DEF seqs

\* The exposure and the scans, one after the other.
LEMMA TuningGoes ==
  ASSUME NEW s \in SpecIndex, NEW time, NEW scans
  PROVE  \E a, b : /\ Going(setSpectrometerParameters(s, time, scans), a, b)
                   /\ Tunes(a) /\ Tunes(b)
<1> DEFINE f == [integration |-> time]
           g == [scans |-> scans]
           p == Put(s, f)
           q == Put(s, g)
<1>1. /\ FieldsFit(f) /\ DOMAIN f \subseteq Sampling /\ DOMAIN f # {}
      /\ FieldsFit(g) /\ DOMAIN g \subseteq Sampling /\ DOMAIN g # {}
  BY FieldFits DEF Sampling
<1>2. setSpectrometerParameters(s, time, scans) = p \o q
  BY DEF setSpectrometerParameters
<1> HIDE DEF f, g
<1>3. /\ p = [i \in 1..1 |-> p[i]] /\ StepFits(p[1]) /\ Tunes(p[1])
      /\ q = [i \in 1..1 |-> q[i]] /\ StepFits(q[1]) /\ Tunes(q[1])
  BY <1>1, PutGoes DEF Tunes
<1> HIDE DEF p, q
<1>4. Going(p, p[1], p[1]) /\ Going(q, q[1], q[1])
  BY <1>3, OneGoes
<1>5. Follows(p[1], q[1])
  BY <1>3, SetsIs DEF Follows
<1>6. Going(p \o q, p[1], q[1])
  BY <1>4, <1>5, GoingJoined
<1>7. QED  BY <1>2, <1>3, <1>6

\* The wavelengths, and the pixels that the setter finds for them.
LEMMA WavesGo ==
  ASSUME NEW s \in SpecIndex, NEW n \in Nat, NEW w, \A j \in 1..n : w[j] \in Nat
  PROVE  OneGo(FlattenSeq([j \in 1..n |-> << [op |-> "wave", spec |-> s, j |-> j, w |-> w[j]],
                                             [op |-> "found", spec |-> s, j |-> j, w |-> w[j]] >>]),
               s)
<1> DEFINE wave(j) == [op |-> "wave", spec |-> s, j |-> j, w |-> w[j]]
           found(j) == [op |-> "found", spec |-> s, j |-> j, w |-> w[j]]
           S == {wave(j) : j \in 1..n} \cup {found(j) : j \in 1..n}
           seqs == [j \in 1..n |-> <<wave(j), found(j)>>]
           q == FlattenSeq(seqs)
<1>1. \A j : /\ wave(j).op = "wave" /\ wave(j).spec = s /\ wave(j).w = w[j]
             /\ found(j).op = "found" /\ found(j).spec = s
  OBVIOUS
<1>2. \A j \in 1..n : seqs[j] \in Seq(S)
  <2> SUFFICES ASSUME NEW j \in 1..n  PROVE seqs[j] \in Seq(S)
    OBVIOUS
  <2> DEFINE a == wave(j)
             b == found(j)
  <2>1. a \in S /\ b \in S /\ seqs[j] = <<a, b>>
    OBVIOUS
  <2> HIDE DEF a, b, S, seqs
  <2>2. <<a, b>> \in Seq(S)
    BY <2>1
  <2>3. QED  BY <2>1, <2>2
<1>3. seqs = [j \in 1..n |-> seqs[j]]
  OBVIOUS
<1> HIDE DEF wave, found, seqs
<1>4. \A st \in S : StepFits(st) /\ Sets(st) /\ ~Dwells(st) /\ st.spec = s
  BY <1>1 DEF StepFits, Sets, Dwells
<1> HIDE DEF S
<1>5. IsSeq(seqs) /\ Len(seqs) = n
  BY <1>3, ListIs
<1>6. CASE n = 0
  <2>1. q = seqs
    BY <1>5, <1>6 DEF FlattenSeq
  <2>2. \A i \in 1..Len(q) : FALSE
    BY <1>5, <1>6, <2>1
  <2> HIDE DEF q
  <2>3. OneGo(q, s)
    BY <1>5, <2>1, <2>2 DEF OneGo
  <2>4. QED  BY <2>3 DEF q, seqs, wave, found
<1>7. CASE n # 0
  <2>1. q \in Seq(S)
    BY <1>2, <1>5, <1>7, FlattenedEnds
  <2> HIDE DEF q
  <2>2. \A i \in 1..Len(q) : q[i] \in S
    BY <2>1, ElementOfSeq
  <2>3. OneGo(q, s)
    BY <1>4, <2>1, <2>2, SeqIs DEF OneGo
  <2>4. QED  BY <2>3 DEF q, seqs, wave, found
<1>8. QED  BY <1>6, <1>7

LEMMA BlockIsRequest ==
  ASSUME NEW s \in SpecIndex, NEW b, b.count \in 0..MaxAbsWaves, b.nonAbs \in Nat,
         b.waves \in [1..MaxAbsWaves -> Nat], b.cal = [i \in 1..MaxAbsWaves |-> b.cal[i]]
  PROVE  Request(setComputationDataBytes(s, b))
<1> DEFINE p1 == Put(s, [analyte |-> b.analyte])
           p2 == Put(s, [count |-> b.count])
           p3 == Put(s, [measure |-> b.measure])
           p4 == Put(s, [waves |-> b.waves])
           p5 == Put(s, [nonAbs |-> b.nonAbs])
           p6 == Put(s, [cal |-> b.cal])
           q == ((((p1 \o p2) \o p3) \o p4) \o p5) \o p6
<1>1. setComputationDataBytes(s, b) = (q \o applyConfig) \o writeConfigFile
  BY DEF setComputationDataBytes
<1>2. /\ OneGo(p1, s) /\ Len(p1) > 0 /\ OneGo(p2, s) /\ OneGo(p3, s) /\ OneGo(p4, s)
      /\ OneGo(p5, s) /\ OneGo(p6, s)
  <2>1. OneGo(p1, s) /\ Len(p1) > 0
    BY FieldGoes
  <2>2. OneGo(p2, s)
    BY FieldGoes
  <2>3. OneGo(p3, s)
    BY FieldGoes
  <2>4. OneGo(p4, s)
    BY FieldGoes
  <2>5. OneGo(p5, s)
    BY FieldGoes
  <2>6. OneGo(p6, s)
    BY FieldGoes
  <2> HIDE DEF p1, p2, p3, p4, p5, p6
  <2>7. QED  BY <2>1, <2>2, <2>3, <2>4, <2>5, <2>6
<1> HIDE DEF p1, p2, p3, p4, p5, p6
<1>3. OneGo(p1 \o p2, s) /\ Len(p1 \o p2) > 0
  BY <1>2, OneGoJoined
<1>4. OneGo((p1 \o p2) \o p3, s) /\ Len((p1 \o p2) \o p3) > 0
  BY <1>2, <1>3, OneGoJoined
<1>5. OneGo(((p1 \o p2) \o p3) \o p4, s) /\ Len(((p1 \o p2) \o p3) \o p4) > 0
  BY <1>2, <1>4, OneGoJoined
<1>6. OneGo((((p1 \o p2) \o p3) \o p4) \o p5, s) /\ Len((((p1 \o p2) \o p3) \o p4) \o p5) > 0
  BY <1>2, <1>5, OneGoJoined
<1>7. OneGo(q, s) /\ Len(q) > 0
  BY <1>2, <1>6, OneGoJoined
<1> HIDE DEF q
<1>8. QED  BY <1>1, <1>7, SavingIsRequest

LEMMA RequestIs ==
  ASSUME NEW r \in Menu
  PROVE  Request(Steps(r))
<1> DEFINE w == writeConfigFile
           sp == r.spec
<1>0. \A v : v \in Wave => v \in Nat
  BY WaveAssumption
<1>1. CASE r.op = "SSP"
  <2>1. Steps(r) = setSpectrometerParameters(sp, r.time, r.scans) /\ sp \in SpecIndex
    BY <1>1, MenuAssumption DEF Steps
  <2>2. PICK a, b : Going(Steps(r), a, b) /\ Tunes(a) /\ Tunes(b)
    BY <2>1, TuningGoes
  <2>3. Ends(b) /\ Starts(a)
    BY <2>2 DEF Ends, Starts
  <2>4. QED  BY <2>2, <2>3, GoingIsRequest
<1>2. CASE r.op = "SVC"
  <2> DEFINE open == [op |-> "open"]
  <2>1. Going(w, open, CopyLast)
    BY WriteGoes
  <2>2. Starts(open)
    BY DEF Starts
  <2> HIDE DEF w, open
  <2>3. Request(w)
    BY <2>1, <2>2, CopiesLast, GoingIsRequest
  <2>4. QED  BY <1>2, <2>3 DEF Steps, w
<1>3. CASE r.op = "SCP"
  <2> DEFINE b == r.block
  <2>1. Steps(r) = setComputationDataBytes(sp, b)
    BY <1>3 DEF Steps
  <2>2. /\ sp \in SpecIndex /\ b.count \in 0..MaxAbsWaves /\ b.nonAbs \in Nat
        /\ b.waves \in [1..MaxAbsWaves -> Nat] /\ b.cal = [i \in 1..MaxAbsWaves |-> b.cal[i]]
    <3>1. /\ sp \in SpecIndex /\ b.count \in 0..MaxAbsWaves /\ b.nonAbs \in Wave
          /\ b.waves \in [1..MaxAbsWaves -> Wave \cup {0}] /\ b.cal \in [1..MaxAbsWaves -> Label]
      BY <1>3, MenuAssumption
    <3> DEFINE c == b.cal
               v == b.waves
    <3> HIDE DEF c
    <3>2. c = [i \in 1..MaxAbsWaves |-> c[i]]
      BY <3>1 DEF c
    <3> HIDE DEF v
    <3>3. v \in [1..MaxAbsWaves -> Nat]
      BY <1>0, <3>1 DEF v
    <3>4. QED  BY <1>0, <3>1, <3>2, <3>3 DEF c, v
  <2> HIDE DEF b, sp
  <2>3. QED  BY <2>1, <2>2, BlockIsRequest
<1>4. CASE r.op = "LSD"
  <2>1. Steps(r) = FlattenSeq([s \in SpecIndex |-> setSlopeIntercept(s, r.cal[s])])
    BY <1>4 DEF Steps
  <2>2. QED  BY <2>1, SlopesAreRequest
<1>5. CASE r.op = "SMM"
  <2> DEFINE st == [op |-> "mode", to |-> r.mode]
             q == <<st>>
  <2>1. Steps(r) = q /\ q = [i \in 1..1 |-> q[i]] /\ q[1] = st /\ st.op = "mode"
    BY <1>5 DEF Steps
  <2> HIDE DEF q, st
  <2>2. StepFits(st) /\ Ends(st) /\ Starts(st)
    BY <2>1 DEF StepFits, Ends, Starts
  <2>3. Going(q, st, st)
    BY <2>1, <2>2, OneGoes
  <2>4. QED  BY <2>1, <2>2, <2>3, GoingIsRequest
<1>6. CASE r.op = "specParams"
  <2> DEFINE q == setSpectrometerParameters(sp, r.time, r.scans)
             over == [op |-> "override", spec |-> 1]
  <2>1. Steps(r) = (q \o applyConfig) \o w /\ sp \in SpecIndex
    BY <1>6, MenuAssumption DEF Steps
  <2>2. PICK a, b : Going(q, a, b) /\ Tunes(a) /\ Tunes(b)
    BY <2>1, TuningGoes
  <2>3. over.op = "override" /\ over.spec = 1
    OBVIOUS
  <2> HIDE DEF q, over
  <2>4. Follows(b, over) /\ Starts(a)
    BY <2>2, <2>3, SetsIs DEF Follows, Starts
  <2>5. Going((q \o applyConfig) \o w, a, CopyLast)
    BY <2>2, <2>4, AppliedAfter DEF over
  <2>6. Request((q \o applyConfig) \o w)
    BY <2>4, <2>5, CopiesLast, GoingIsRequest
  <2>7. QED  BY <2>1, <2>6
<1>7. CASE r.op = "absWaves"
  <2> DEFINE n == Len(r.waves)
             p == Put(sp, [count |-> n])
             q == FlattenSeq([j \in 1..n |->
                    << [op |-> "wave", spec |-> sp, j |-> j, w |-> r.waves[j]],
                       [op |-> "found", spec |-> sp, j |-> j, w |-> r.waves[j]] >>])
  <2>1. Steps(r) = ((p \o q) \o applyConfig) \o w
    BY <1>7 DEF Steps, setAbsorbanceWavelengths, PutWaves
  <2>2. /\ sp \in SpecIndex /\ n \in 0..MaxAbsWaves /\ n \in Nat
        /\ \A j \in 1..n : r.waves[j] \in Nat
    <3>1. sp \in SpecIndex /\ r.waves \in Seq(Wave) /\ n <= MaxAbsWaves
      BY <1>7, MenuAssumption
    <3>2. n \in Nat /\ \A j \in 1..n : r.waves[j] \in Wave
      BY <3>1, LenProperties, ElementOfSeq
    <3>3. QED  BY <1>0, <3>1, <3>2, SizeAssumption
  <2> HIDE DEF n, sp
  <2>3. OneGo(p, sp) /\ Len(p) > 0
    BY <2>2, FieldGoes
  <2>4. OneGo(q, sp)
    BY <2>2, WavesGo
  <2> HIDE DEF p, q
  <2>5. OneGo(p \o q, sp) /\ Len(p \o q) > 0
    BY <2>3, <2>4, OneGoJoined
  <2>6. QED  BY <2>1, <2>5, SavingIsRequest
<1>8. CASE r.op = "nonAbsWave"
  <2> DEFINE p == Put(sp, [nonAbs |-> r.wave])
             q == Put(sp, [nonAbsPixel |-> calcPixelValueForWavelength(sp, r.wave)])
  <2>1. Steps(r) = ((p \o q) \o applyConfig) \o w
    BY <1>8 DEF Steps, setNonAbsorbingWavelengths
  <2>2. sp \in SpecIndex /\ r.wave \in Nat
    BY <1>0, <1>8, MenuAssumption
  <2> HIDE DEF sp
  <2>3. OneGo(p, sp) /\ Len(p) > 0
    BY <2>2, FieldGoes
  <2>4. OneGo(q, sp)
    BY <2>2, FieldGoes
  <2> HIDE DEF p, q
  <2>5. OneGo(p \o q, sp) /\ Len(p \o q) > 0
    BY <2>3, <2>4, OneGoJoined
  <2>6. QED  BY <2>1, <2>5, SavingIsRequest
<1>9. CASE r.op = "dwell"
  <2> DEFINE f == [dwell |-> r.dwell]
             p == Put(sp, f)
             a == p[1]
             open == [op |-> "open"]
  <2>1. Steps(r) = p \o w
    BY <1>9 DEF Steps, setDwell
  <2>2. sp \in SpecIndex /\ FieldsFit(f) /\ DOMAIN f = {"dwell"} /\ DOMAIN f \cap Sampling = {}
    BY <1>9, MenuAssumption, FieldFits DEF Sampling
  <2> HIDE DEF f
  <2>3. p = [i \in 1..1 |-> p[i]] /\ StepFits(a) /\ a.op = "put" /\ a.fields = f
    BY <2>2, PutGoes
  <2>4. Going(w, open, CopyLast) /\ open.op = "open"
    BY WriteGoes
  <2> HIDE DEF p, open, w
  <2>5. Going(p, a, a)
    BY <2>3, OneGoes
  <2> HIDE DEF a
  <2>6. Sets(a) /\ Dwells(a)
    BY <2>2, <2>3 DEF Sets, Dwells
  <2>7. Follows(a, open) /\ Starts(a)
    <3>1. ~Tunes(a) /\ ~Overrides(a)
      BY <2>6, SetsIs
    <3>2. QED  BY <2>3, <2>4, <2>6, <3>1 DEF Follows, Starts
  <2>8. Going(p \o w, a, CopyLast)
    BY <2>4, <2>5, <2>7, GoingJoined
  <2>9. Request(p \o w)
    BY <2>7, <2>8, CopiesLast, GoingIsRequest
  <2>10. QED  BY <2>1, <2>9
<1>10. QED  BY <1>1, <1>2, <1>3, <1>4, <1>5, <1>6, <1>7, <1>8, <1>9, MenuAssumption

-----------------------------------------------------------------------------
(* A step of a thread.                                                     *)

LEMMA EmptyIs ==
  ASSUME NEW q, IsSeq(q)
  PROVE  (q = <<>> <=> Len(q) = 0) /\ (q # <<>> <=> Len(q) > 0) /\ Len(q) \in Nat
<1> DEFINE none == <<>>
<1>1. Len(none) = 0 /\ none \in Seq({})
  BY EmptySeq
<1>2. IsSeq(none)
  <2> HIDE DEF none
  <2>1. QED  BY <1>1, SeqIs
<1>3. Len(q) = 0 => q = none
  <2> SUFFICES ASSUME Len(q) = 0  PROVE q = none
    OBVIOUS
  <2> HIDE DEF none
  <2>1. Len(q) = Len(none) /\ \A i \in 1..Len(q) : q[i] = none[i]
    BY <1>1
  <2>2. QED  BY <1>2, <2>1, SeqsEqual
<1>4. Len(q) \in Nat
  BY SeqDomain
<1>5. QED  BY <1>1, <1>3, <1>4
\* What comes next: a step may also be replaced by others.
Succeeds(h, x) ==
  \/ Follows(h, x)
  \/ h.op = "mode" /\ x.op = "open"
  \/ h.op = "pixel" /\ x.op \in {"store", "storeNon"} /\ x.spec = h.spec
  \/ h.op = "copy" /\ x.op = "log" /\ x.spec = h.spec

\* A thread had a to do, and now has b.
Moves(a, b) ==
  /\ a # <<>> /\ Plan(b) /\ StepFits(Head(a))
  /\ b = <<>> => Ends(Head(a))
  /\ b # <<>> => StepFits(Head(b)) /\ Succeeds(Head(a), Head(b))

LEMMA PlanIs ==
  ASSUME NEW a, Plan(a), a # <<>>
  PROVE  /\ IsSeq(a) /\ Len(a) \in Nat /\ Len(a) > 0 /\ Head(a) = a[1] /\ StepFits(Head(a))
         /\ \A i \in 1..Len(a) : StepFits(a[i])
         /\ \A i \in 1..Len(a) : i < Len(a) => Follows(a[i], a[i + 1])
         /\ Ends(a[Len(a)])
<1>1. IsSeq(a)
  BY DEF Plan, Chain
<1>2. Len(a) \in Nat /\ Len(a) > 0 /\ Head(a) = a[1]
  BY <1>1, TailIs
<1>3. 1 \in 1..Len(a)
  BY <1>2
<1>4. QED  BY <1>1, <1>2, <1>3 DEF Plan, Chain

LEMMA TailMoves ==
  ASSUME NEW a, Plan(a), a # <<>>
  PROVE  Moves(a, Tail(a)) /\ (Tail(a) # <<>> => Follows(Head(a), Head(Tail(a))))
<1> DEFINE b == Tail(a)
           n == Len(a)
<1>1. /\ IsSeq(a) /\ n \in Nat /\ n > 0 /\ Head(a) = a[1] /\ StepFits(Head(a))
      /\ \A i \in 1..n : StepFits(a[i])
      /\ \A i \in 1..n : i < n => Follows(a[i], a[i + 1])
      /\ Ends(a[n])
  BY PlanIs
<1>2. IsSeq(b) /\ Len(b) = n - 1 /\ \A i \in 1..n - 1 : b[i] = a[i + 1]
  BY <1>1, TailIs
<1> HIDE DEF b, n
<1>3. \A i \in 1..n - 1 : i + 1 \in 1..n
  BY <1>1
<1>4. \A i \in 1..n - 1 : StepFits(b[i])
  BY <1>1, <1>2, <1>3
<1>5. ASSUME NEW i \in 1..n - 1, i < n - 1
      PROVE  Follows(b[i], b[i + 1])
  <2>1. i + 1 \in 1..n - 1 /\ i + 1 \in 1..n /\ i + 1 < n
    BY <1>1, <1>5
  <2>2. b[i] = a[i + 1] /\ b[i + 1] = a[(i + 1) + 1]
    BY <1>2, <2>1
  <2>3. QED  BY <1>1, <2>1, <2>2
<1>6. Chain(b)
  BY <1>2, <1>4, <1>5 DEF Chain
<1>7. CASE n = 1
  <2>1. Len(b) = 0
    BY <1>2, <1>7
  <2>2. b = <<>>
    BY <1>2, <2>1, EmptyIs
  <2>3. Plan(b)
    BY <1>6, <2>1 DEF Plan
  <2>4. QED  BY <1>1, <1>7, <2>2, <2>3 DEF Moves, b
<1>8. CASE n # 1
  <2>1. Len(b) > 0 /\ Len(b) = n - 1 /\ 1 \in 1..n - 1 /\ n - 1 \in 1..n - 1 /\ (n - 1) + 1 = n
    BY <1>1, <1>2, <1>8
  <2>2. b # <<>>
    BY <1>2, <2>1, EmptyIs
  <2>3. Head(b) = b[1]
    BY <1>2, <2>2, TailIs
  <2>4. b[n - 1] = a[n]
    BY <1>2, <2>1
  <2>5. Plan(b)
    BY <1>1, <1>6, <2>1, <2>4 DEF Plan
  <2>6. b[1] = a[1 + 1] /\ 1 \in 1..n /\ 1 < n
    BY <1>1, <1>2, <1>8, <2>1
  <2>7. Follows(Head(a), Head(b)) /\ StepFits(Head(b))
    BY <1>1, <1>4, <2>1, <2>3, <2>6
  <2>8. QED  BY <1>1, <2>2, <2>5, <2>7 DEF Moves, Succeeds, b
<1>9. QED  BY <1>7, <1>8

\* A step gives way to others, after which what came after it may come.
LEMMA GivesWay ==
  ASSUME NEW a, Plan(a), a # <<>>, NEW new, NEW x, NEW y, Going(new, x, y),
         Succeeds(Head(a), x), Ends(Head(a)) => Ends(y),
         \A z : Follows(Head(a), z) => Follows(y, z)
  PROVE  Moves(a, new \o Tail(a)) /\ new \o Tail(a) # <<>> /\ Head(new \o Tail(a)) = x
<1> DEFINE tl == Tail(a)
           b == new \o tl
           h == Head(a)
<1>1. Moves(a, tl) /\ (tl # <<>> => Follows(h, Head(tl)))
  BY TailMoves
<1>2. Plan(tl) /\ StepFits(h) /\ (tl = <<>> => Ends(h))
  BY <1>1 DEF Moves
<1>3. IsSeq(new) /\ IsSeq(tl) /\ Len(new) > 0
  BY <1>2 DEF Going, Chain, Plan
<1> HIDE DEF tl
<1>4. Plan(b) /\ IsSeq(b) /\ Len(b) > 0 /\ b[1] = x
  <2>1. CASE tl = <<>>
    <3>1. Len(tl) = 0
      BY <1>3, <2>1, EmptyIs
    <3>2. /\ IsSeq(b) /\ Len(new) \in Nat /\ Len(b) = Len(new) + Len(tl)
          /\ \A i \in 1..Len(new) : b[i] = new[i]
      BY <1>3, ConcatIs
    <3> HIDE DEF b
    <3>3. Len(b) = Len(new)
      BY <3>1, <3>2
    <3>4. b = new
      BY <1>3, <3>2, <3>3, SeqsEqual
    <3>5. QED  BY <1>2, <2>1, <3>4 DEF Going, Plan, Chain
  <2>2. CASE tl # <<>>
    <3>1. IsSeq(tl) /\ Len(tl) > 0 /\ Head(tl) = tl[1] /\ Ends(tl[Len(tl)]) /\ Chain(tl)
      BY <1>2, <2>2, PlanIs DEF Plan
    <3>2. Going(tl, Head(tl), tl[Len(tl)])
      BY <3>1 DEF Going
    <3>3. Follows(y, Head(tl))
      BY <1>1, <2>2
    <3>4. Going(b, x, tl[Len(tl)])
      BY <3>2, <3>3, GoingJoined
    <3>5. QED  BY <3>1, <3>4 DEF Going, Plan, Chain
  <2>3. QED  BY <2>1, <2>2
<1> HIDE DEF b
<1>5. b # <<>>
  BY <1>4, EmptyIs
<1>6. Head(b) = b[1] /\ StepFits(Head(b))
  BY <1>4, <1>5, PlanIs
<1>7. Moves(a, b)
  BY <1>2, <1>4, <1>5, <1>6 DEF Moves
<1>8. QED  BY <1>4, <1>5, <1>6, <1>7 DEF b, tl

\* A step may give way to none.
LEMMA NoneIsLeft ==
  ASSUME NEW q, IsSeq(q)
  PROVE  <<>> \o q = q /\ q \o <<>> = q
<1> DEFINE none == <<>>
<1>1. q \in Seq({q[i] : i \in DOMAIN q})
  BY DEF IsSeq
<1>2. \A S : \A r \in Seq(S) : r \o none = r /\ none \o r = r
  OBVIOUS
<1> HIDE DEF none
<1>3. q \o none = q /\ none \o q = q
  BY <1>1, <1>2
<1>4. QED  BY <1>3 DEF none

-----------------------------------------------------------------------------
(* What comes after a step, by what the step does.                         *)

LEMMA DwellsIs ==
  ASSUME NEW h, Dwells(h)
  PROVE  h.op = "put" /\ Sets(h) /\ ~Tunes(h)
<1>1. h.op = "put" /\ DOMAIN h.fields = {"dwell"}
  BY DEF Dwells
<1>2. "dwell" \notin Sampling
  BY DEF Sampling
<1>3. Sets(h)
  BY <1>1, <1>2 DEF Sets
<1>4. QED  BY <1>1, <1>3, SetsIs

\* The operations in which a request goes on.
LEMMA NextIs ==
  ASSUME NEW h, StepFits(h), NEW x, StepFits(x), Succeeds(h, x)
  PROVE  /\ Sets(h) /\ ~Dwells(h) =>
              \/ Sets(x) /\ ~Dwells(x) /\ x.spec = h.spec
              \/ x.op = "override" /\ x.spec = 1
         /\ Dwells(h) => x.op = "open"
         /\ Tunes(h) => Tunes(x) \/ (x.op = "override" /\ x.spec = 1)
         /\ Overrides(h) => /\ x.spec = h.spec
                            /\ x.op \in {"entry", "force", "rest"} \/ (x.op = "pixel" /\ x.j = 1)
         /\ h.op = "store" => x.op = "pixel" /\ x.spec = h.spec /\ x.j = h.j + 1
         /\ h.op = "storeNon" => IF h.spec = NumSpecs THEN x.op = "open"
                                 ELSE x.op = "override" /\ x.spec = h.spec + 1
         /\ h.op = "pixel" => \/ x.op \in {"store", "storeNon"} /\ x.spec = h.spec
                              \/ IF h.spec = NumSpecs THEN x.op = "open"
                                 ELSE x.op = "override" /\ x.spec = h.spec + 1
         /\ h.op = "mode" => x.op = "open"
         /\ h.op = "open" => x.op = "lock"
         /\ h.op = "lock" => x.op = "print" /\ x.spec = 1
         /\ h.op = "print" => IF h.spec = NumSpecs THEN x.op = "close"
                              ELSE x.op = "print" /\ x.spec = h.spec + 1
         /\ h.op = "close" => x.op = "dataLock"
         /\ h.op = "dataLock" => x.op = "copy" /\ x.spec = 1
         /\ h.op = "copy" => \/ x.op = "log" /\ x.spec = h.spec
                             \/ IF h.spec = NumSpecs THEN x.op = "cal" /\ x.j = 1
                                ELSE x.op = "copy" /\ x.spec = h.spec + 1
         /\ h.op = "log" => IF h.spec = NumSpecs THEN x.op = "cal" /\ x.j = 1
                            ELSE x.op = "copy" /\ x.spec = h.spec + 1
<1>1. CASE Follows(h, x)
  <2>1. Sets(h) => IF Dwells(h) THEN x.op = "open"
                   ELSE \/ Sets(x) /\ ~Dwells(x) /\ x.spec = h.spec
                        \/ x.op = "override" /\ x.spec = 1
    BY <1>1 DEF Follows
  <2>2. Dwells(h) => Sets(h)
    BY DwellsIs
  <2>3. /\ Tunes(h) => Tunes(x) \/ (x.op = "override" /\ x.spec = 1)
        /\ Overrides(h) => /\ x.spec = h.spec
                           /\ x.op \in {"entry", "force", "rest"} \/ (x.op = "pixel" /\ x.j = 1)
        /\ h.op = "store" => x.op = "pixel" /\ x.spec = h.spec /\ x.j = h.j + 1
        /\ h.op \in {"storeNon", "pixel"} =>
             IF h.spec = NumSpecs THEN x.op = "open" ELSE x.op = "override" /\ x.spec = h.spec + 1
    BY <1>1 DEF Follows
  <2>4. /\ h.op # "mode"
        /\ h.op = "open" => x.op = "lock"
        /\ h.op = "lock" => x.op = "print" /\ x.spec = 1
        /\ h.op = "print" => IF h.spec = NumSpecs THEN x.op = "close"
                             ELSE x.op = "print" /\ x.spec = h.spec + 1
        /\ h.op = "close" => x.op = "dataLock"
        /\ h.op = "dataLock" => x.op = "copy" /\ x.spec = 1
        /\ h.op \in {"copy", "log"} => IF h.spec = NumSpecs THEN x.op = "cal" /\ x.j = 1
                                       ELSE x.op = "copy" /\ x.spec = h.spec + 1
    BY <1>1 DEF Follows
  <2>5. QED  BY <2>1, <2>2, <2>3, <2>4
<1>2. CASE ~Follows(h, x)
  <2>1. \/ h.op = "mode" /\ x.op = "open"
        \/ h.op = "pixel" /\ x.op \in {"store", "storeNon"} /\ x.spec = h.spec
        \/ h.op = "copy" /\ x.op = "log" /\ x.spec = h.spec
    BY <1>2 DEF Succeeds
  <2>2. ~Sets(h) /\ ~Tunes(h) /\ ~Dwells(h) /\ ~Overrides(h)
    BY <2>1, SetsIs DEF Dwells, Overrides
  <2>3. QED  BY <2>1, <2>2
<1>3. QED  BY <1>1, <1>2

\* Whatever sets or applies goes on until it saves.
LEMMA NextPends ==
  ASSUME NEW h, StepFits(h), NEW x, StepFits(x), Succeeds(h, x)
  PROVE  /\ Pends(h) /\ h.op # "open" => Pends(x)
         /\ x.op = "lock" <=> h.op = "open"
         /\ x.op = "print" => h.op \in {"lock", "print"}
         /\ x.op = "close" => h.op = "print"
         /\ x.op = "dataLock" => h.op = "close"
         /\ x.op = "copy" => h.op \in {"dataLock", "copy", "log"}
         /\ x.op = "log" => h.op = "copy"
         /\ Applies(x) => \/ Tunes(h) \/ Applies(h)
                          \/ Sets(h) /\ ~Dwells(h)
         /\ Tunes(x) => Tunes(h)
         /\ Sets(x) => \/ h.op \in {"copy", "log"} /\ h.spec = NumSpecs /\ x.op = "cal" /\ x.j = 1
                       \/ Sets(h) /\ ~Dwells(h) /\ ~Dwells(x) /\ x.spec = h.spec
<1>1. \/ Sets(h) /\ Dwells(h)
      \/ Sets(h) /\ ~Dwells(h)
      \/ Tunes(h)
      \/ h.op \in {"override", "entry", "force", "rest"}
      \/ h.op \in {"pixel", "store", "storeNon"}
      \/ h.op \in {"lock", "print", "close", "mode", "open", "dataLock", "copy", "log"}
  BY DEF StepFits, Applies, Overrides, Writes, Logs
<1>2. /\ Sets(h) => h.op \in {"put", "wave", "found", "cal"}
      /\ Tunes(h) => h.op = "put" /\ ~Sets(h) /\ ~Dwells(h)
      /\ Dwells(h) => h.op = "put" /\ Sets(h) /\ ~Tunes(h)
      /\ Sets(x) => x.op \in {"put", "wave", "found", "cal"} /\ ~Tunes(x)
      /\ Tunes(x) => x.op = "put" /\ ~Sets(x)
  BY SetsIs, DwellsIs
<1>3. CASE Sets(h) /\ Dwells(h)
  <2>1. x.op = "open"
    BY <1>3, NextIs
  <2>2. QED  BY <1>2, <1>3, <2>1 DEF Pends, Applies, Overrides
<1>4. CASE Sets(h) /\ ~Dwells(h)
  <2>1. \/ Sets(x) /\ ~Dwells(x) /\ x.spec = h.spec
        \/ x.op = "override"
    BY <1>4, NextIs
  <2>2. QED  BY <1>2, <1>4, <2>1 DEF Pends, Applies, Overrides
<1>5. CASE Tunes(h)
  <2>1. Tunes(x) \/ x.op = "override"
    BY <1>5, NextIs
  <2>2. h.op = "put" /\ ~Sets(h) /\ ~Pends(h)
    BY <1>2, <1>5 DEF Pends, Applies, Overrides
  <2>3. QED  BY <1>2, <1>5, <2>1, <2>2 DEF Pends, Applies, Overrides
<1>6. CASE h.op \in {"override", "entry", "force", "rest"}
  <2>1. x.op \in {"entry", "force", "rest", "pixel"}
    BY <1>6, NextIs DEF Overrides
  <2>2. QED  BY <1>2, <1>6, <2>1 DEF Pends, Applies, Overrides
<1>7. CASE h.op \in {"pixel", "store", "storeNon"}
  <2>1. x.op \in {"override", "pixel", "store", "storeNon", "open"}
    BY <1>7, NextIs
  <2>2. QED  BY <1>2, <1>7, <2>1 DEF Pends, Applies, Overrides
<1>8. CASE h.op \in {"lock", "print", "close", "mode", "open", "dataLock", "copy", "log"}
  <2>1. /\ h.op = "mode" => x.op = "open"
        /\ h.op = "open" => x.op = "lock"
        /\ h.op = "lock" => x.op = "print"
        /\ h.op = "print" => x.op \in {"print", "close"}
        /\ h.op = "close" => x.op = "dataLock"
        /\ h.op = "dataLock" => x.op = "copy"
        /\ h.op = "copy" => \/ x.op \in {"copy", "log"}
                            \/ h.spec = NumSpecs /\ x.op = "cal" /\ x.j = 1
        /\ h.op = "log" => \/ x.op = "copy"
                           \/ h.spec = NumSpecs /\ x.op = "cal" /\ x.j = 1
    BY NextIs
  <2>2. QED  BY <1>2, <1>8, <2>1 DEF Pends, Applies, Overrides
<1>9. QED  BY <1>1, <1>3, <1>4, <1>5, <1>6, <1>7, <1>8

LEMMA EndsIs ==
  ASSUME NEW h, Ends(h)
  PROVE  /\ ~Pends(h) /\ ~Writes(h) /\ ~Sets(h) /\ ~Applies(h) /\ ~Dwells(h)
         /\ h.op # "dataLock" /\ (h.op \in {"copy", "log"} => h.spec = NumSpecs)
<1>1. h.op \in {"mode", "put", "copy", "log"} /\ ~Sets(h) /\ ~Dwells(h)
  <2>1. Tunes(h) => h.op = "put" /\ ~Sets(h) /\ ~Dwells(h)
    BY SetsIs
  <2>2. Sets(h) => h.op \in {"put", "wave", "found", "cal"} /\ ~Tunes(h)
    BY SetsIs
  <2>3. Dwells(h) => h.op = "put"
    BY DEF Dwells
  <2>4. QED  BY <2>1, <2>2, <2>3 DEF Ends
<1>2. h.op \in {"copy", "log"} => h.spec = NumSpecs
  <2>1. Tunes(h) => h.op = "put"
    BY SetsIs
  <2>2. QED  BY <2>1 DEF Ends
<1>3. QED  BY <1>1, <1>2 DEF Pends, Writes, Applies, Overrides

\* t takes a step, and the others none.
OnlyMoves(t) ==
  /\ ~Idle(t)
  /\ todo' = [u \in Thread |-> todo'[u]]
  /\ \A u \in Thread \ {t} : todo'[u] = todo[u]
  /\ Moves(todo[t], todo'[t])

LEMMA MovedIs ==
  ASSUME PlanInv, NEW t \in Thread, OnlyMoves(t)
  PROVE  /\ ~Idle(t) /\ StepFits(Now(t)) /\ \A u \in Thread : Plan(todo'[u])
         /\ Idle(t)' => Ends(Now(t))
         /\ ~Idle(t)' => StepFits(Now(t)') /\ Succeeds(Now(t), Now(t)')
         /\ \A u \in Thread \ {t} : Idle(u)' = Idle(u) /\ Now(u)' = Now(u)
<1>1. /\ ~Idle(t) /\ StepFits(Now(t)) /\ Plan(todo'[t])
      /\ todo'[t] = <<>> => Ends(Now(t))
      /\ todo'[t] # <<>> => StepFits(Head(todo'[t])) /\ Succeeds(Now(t), Head(todo'[t]))
  BY DEF OnlyMoves, Moves, Now
<1>2. \A u \in Thread \ {t} : todo'[u] = todo[u]
  BY DEF OnlyMoves
<1>3. \A u \in Thread : Plan(todo'[u])
  BY <1>1, <1>2 DEF PlanInv
<1>4. QED  BY <1>1, <1>2, <1>3 DEF Idle, Now
LEMMA ContinueMoves ==
  ASSUME PlanInv, NEW t \in Thread, ~Idle(t), Continue(t)
  PROVE  OnlyMoves(t) /\ (~Idle(t)' => Follows(Now(t), Now(t)'))
<1>1. todo = [u \in Thread |-> todo[u]] /\ Plan(todo[t])
  BY DEF PlanInv
<1>2. todo' = [todo EXCEPT ![t] = Tail(todo[t])]
  BY DEF Continue
<1>3. /\ todo' = [u \in Thread |-> todo'[u]] /\ todo'[t] = Tail(todo[t])
      /\ \A u \in Thread \ {t} : todo'[u] = todo[u]
  BY <1>1, <1>2
<1>4. todo[t] # <<>>
  BY DEF Idle
<1>5. /\ Moves(todo[t], Tail(todo[t]))
      /\ Tail(todo[t]) # <<>> => Follows(Now(t), Head(Tail(todo[t])))
  BY <1>1, <1>4, TailMoves DEF Now
<1>6. QED  BY <1>3, <1>5 DEF OnlyMoves, Idle, Now
\* Steps in the place of the one that is done.
LEMMA InsteadMoves ==
  ASSUME PlanInv, NEW t \in Thread, ~Idle(t), NEW new, Instead(t, new),
         Moves(todo[t], new \o Tail(todo[t]))
  PROVE  OnlyMoves(t) /\ todo'[t] = new \o Tail(todo[t])
<1>1. todo = [u \in Thread |-> todo[u]]
  BY DEF PlanInv
<1>2. todo' = [todo EXCEPT ![t] = new \o Tail(todo[t])]
  BY DEF Instead
<1>3. /\ todo' = [u \in Thread |-> todo'[u]] /\ todo'[t] = new \o Tail(todo[t])
      /\ \A u \in Thread \ {t} : todo'[u] = todo[u]
  BY <1>1, <1>2
<1>4. QED  BY <1>3 DEF OnlyMoves

\* Nothing follows a change of the mode.
LEMMA ModeIsLast ==
  ASSUME NEW a, Plan(a), a # <<>>, Head(a).op = "mode"
  PROVE  Tail(a) = <<>>
<1>1. Tail(a) # <<>> => Follows(Head(a), Head(Tail(a)))
  BY TailMoves
<1>2. QED  BY <1>1 DEF Follows
LEMMA ModeMoves ==
  ASSUME PlanInv, NEW t \in Thread, SetMode(t)
  PROVE  /\ OnlyMoves(t) /\ Now(t).op = "mode"
         /\ ~Idle(t)' => Now(t)'.op = "open"
         /\ Idle(t)' => mode' = mode
<1> DEFINE none == <<>>
           a == todo[t]
           to == Head(a).to
           new == IF to = mode THEN none ELSE writeConfigFile
           open == [op |-> "open"]
<1>1. ~Idle(t) /\ Head(a).op = "mode" /\ Instead(t, new) /\ mode' = to
  BY DEF SetMode, Step
<1>2. Plan(a) /\ a # none
  BY <1>1 DEF PlanInv, Idle
<1>3. Tail(a) = none /\ Moves(a, none)
  BY <1>1, <1>2, ModeIsLast, TailMoves
<1>4. Ends(Head(a)) /\ StepFits(Head(a))
  BY <1>3 DEF Moves
<1>5. Going(writeConfigFile, open, CopyLast) /\ open.op = "open"
  BY WriteGoes
<1>6. none \o none = none
  OBVIOUS
<1>7. writeConfigFile \o none = writeConfigFile
  <2>1. IsSeq(writeConfigFile)
    BY <1>5 DEF Going, Chain
  <2>2. QED  BY <2>1, NoneIsLeft
<1> HIDE DEF open, to
<1>8. CASE to = mode
  <2>1. new = none
    BY <1>8
  <2> HIDE DEF none, new
  <2>2. Moves(a, new \o Tail(a)) /\ new \o Tail(a) = none
    BY <1>3, <1>6, <2>1
  <2>3. OnlyMoves(t) /\ todo'[t] = none
    BY <1>1, <2>2, InsteadMoves
  <2>4. Idle(t)'
    BY <2>3 DEF Idle, none
  <2>5. QED  BY <1>1, <1>8, <2>3, <2>4 DEF Now
<1>9. CASE to # mode
  <2>1. new = writeConfigFile
    BY <1>9
  <2> HIDE DEF new
  <2>2. /\ Plan(writeConfigFile) /\ IsSeq(writeConfigFile)
        /\ Len(writeConfigFile) > 0 /\ writeConfigFile[1] = open
    BY <1>5, CopiesLast DEF Going, Plan, Chain
  <2>3. writeConfigFile # none
    BY <2>2, EmptyIs
  <2> HIDE DEF none
  <2>4. Head(writeConfigFile) = open /\ StepFits(open)
    <3>1. Head(writeConfigFile) = writeConfigFile[1] /\ StepFits(Head(writeConfigFile))
      BY <2>2, <2>3, PlanIs DEF none
    <3>2. QED  BY <2>2, <3>1
  <2>5. Succeeds(Head(a), open)
    BY <1>1, <1>5 DEF Succeeds
  <2>6. Moves(a, writeConfigFile)
    BY <1>2, <1>4, <2>2, <2>3, <2>4, <2>5 DEF Moves, none
  <2>7. new \o Tail(a) = writeConfigFile
    BY <1>3, <1>7, <2>1
  <2>8. OnlyMoves(t) /\ todo'[t] = writeConfigFile
    BY <1>1, <2>6, <2>7, InsteadMoves
  <2>9. ~Idle(t)' /\ Now(t)' = open
    BY <2>3, <2>4, <2>8 DEF Idle, Now, none
  <2>10. QED  BY <1>1, <1>5, <2>8, <2>9 DEF Now
<1>10. QED  BY <1>8, <1>9

\* A round of the loop over the wavelengths, or its end.
LEMMA ReadMoves ==
  ASSUME PlanInv, NEW t \in Thread, ReadWave(t)
  PROVE  LET st == Now(t)
             c == config[st.spec]
             x == Now(t)'
         IN /\ OnlyMoves(t) /\ st.op = "pixel" /\ ~Idle(t)'
            /\ x.spec = st.spec
            /\ st.j <= c.count => x.op = "store" /\ x.j = st.j /\ x.w = c.waves[st.j]
            /\ ~(st.j <= c.count) => x.op = "storeNon" /\ x.w = c.nonAbs
<1> DEFINE a == todo[t]
           st == Head(a)
           c == config[st.spec]
           store == [op |-> "store", spec |-> st.spec, j |-> st.j, w |-> c.waves[st.j]]
           again == [op |-> "pixel", spec |-> st.spec, j |-> st.j + 1]
           non == [op |-> "storeNon", spec |-> st.spec, w |-> c.nonAbs]
           two == <<store, again>>
           one == <<non>>
<1>1. /\ ~Idle(t) /\ st.op = "pixel"
      /\ IF st.j <= c.count THEN Instead(t, two) ELSE Instead(t, one)
  BY DEF ReadWave, Step
<1>2. Plan(a) /\ a # <<>>
  BY <1>1 DEF PlanInv, Idle
<1>3. StepFits(st) /\ st.spec \in SpecIndex /\ st.j \in Nat \ {0}
  <2>1. StepFits(st)
    BY <1>2, PlanIs
  <2>2. QED  BY <1>1, <2>1 DEF StepFits
<1>4. /\ store.op = "store" /\ store.spec = st.spec /\ store.j = st.j /\ store.w = c.waves[st.j]
      /\ again.op = "pixel" /\ again.spec = st.spec /\ again.j = st.j + 1
      /\ non.op = "storeNon" /\ non.spec = st.spec /\ non.w = c.nonAbs
  OBVIOUS
<1>5. /\ two = [i \in 1..2 |-> two[i]] /\ two[1] = store /\ two[2] = again
      /\ one = [i \in 1..1 |-> one[i]] /\ one[1] = non
  OBVIOUS
<1>6. Now(t) = st
  BY DEF Now
<1> HIDE DEF two, one, store, again, non, st, c
<1>7. /\ StepFits(store) /\ StepFits(again) /\ StepFits(non)
      /\ ~Sets(store) /\ ~Sets(again) /\ ~Sets(non)
      /\ ~Overrides(store) /\ ~Overrides(again) /\ ~Overrides(non)
  <2>1. /\ ~Sets(store) /\ ~Sets(again) /\ ~Sets(non)
        /\ ~Overrides(store) /\ ~Overrides(again) /\ ~Overrides(non)
    BY <1>4 DEF Sets, Overrides
  <2>2. Applies(store) /\ Applies(again) /\ Applies(non)
    BY <1>4 DEF Applies
  <2>3. again.j \in Nat \ {0} /\ store.j \in Nat \ {0}
    BY <1>3, <1>4
  <2>4. QED  BY <1>3, <1>4, <2>1, <2>2, <2>3 DEF StepFits
<1>8. ~Tunes(store) /\ ~Tunes(st) /\ ~Sets(st) /\ ~Tunes(again) /\ ~Tunes(non)
  BY <1>1, <1>4 DEF Tunes, Sets
<1>9. Follows(store, again)
  BY <1>4, <1>7, <1>8 DEF Follows
<1>10. Going(two, store, again)
  BY <1>5, <1>7, <1>9, TwoGo
<1>11. Going(one, non, non)
  BY <1>5, <1>7, OneGoes
<1>12. \A z : Follows(st, z) => Follows(again, z) /\ Follows(non, z)
  BY <1>1, <1>4, <1>7, <1>8 DEF Follows
<1>13. CASE st.j <= c.count
  <2>1. Instead(t, two)
    BY <1>1, <1>13
  <2>2. /\ Moves(a, two \o Tail(a)) /\ two \o Tail(a) # <<>> /\ Head(two \o Tail(a)) = store
    <3>1. Succeeds(Head(a), store) /\ ~Ends(Head(a))
      BY <1>1, <1>4, <1>8 DEF st, Succeeds, Ends
    <3>2. \A z : Follows(Head(a), z) => Follows(again, z)
      BY <1>12 DEF st
    <3> HIDE DEF a
    <3>3. QED  BY <1>2, <1>10, <3>1, <3>2, GivesWay
  <2>3. OnlyMoves(t) /\ todo'[t] = two \o Tail(a)
    BY <1>1, <2>1, <2>2, InsteadMoves
  <2>4. ~Idle(t)' /\ Now(t)' = store
    BY <2>2, <2>3 DEF Idle, Now
  <2>5. QED  BY <1>1, <1>4, <1>6, <1>13, <2>3, <2>4 DEF c
<1>14. CASE ~(st.j <= c.count)
  <2>1. Instead(t, one)
    BY <1>1, <1>14
  <2>2. /\ Moves(a, one \o Tail(a)) /\ one \o Tail(a) # <<>> /\ Head(one \o Tail(a)) = non
    <3>1. Succeeds(Head(a), non) /\ ~Ends(Head(a))
      BY <1>1, <1>4, <1>8 DEF st, Succeeds, Ends
    <3>2. \A z : Follows(Head(a), z) => Follows(non, z)
      BY <1>12 DEF st
    <3> HIDE DEF a
    <3>3. QED  BY <1>2, <1>11, <3>1, <3>2, GivesWay
  <2>3. OnlyMoves(t) /\ todo'[t] = one \o Tail(a)
    BY <1>1, <2>1, <2>2, InsteadMoves
  <2>4. ~Idle(t)' /\ Now(t)' = non
    BY <2>2, <2>3 DEF Idle, Now
  <2>5. QED  BY <1>1, <1>4, <1>6, <1>14, <2>3, <2>4 DEF c
<1>15. QED  BY <1>13, <1>14

\* applyConfig assigns one field after the other, or leaves them.
Forces(q, s) ==
  /\ IsSeq(q)
  /\ \A i \in 1..Len(q) : StepFits(q[i]) /\ q[i].op \in {"entry", "force", "rest"} /\ q[i].spec = s

LEMMA ForcesJoined ==
  ASSUME NEW p, NEW q, NEW s, Forces(p, s), Forces(q, s)
  PROVE  Forces(p \o q, s)
<1> DEFINE x == p \o q
<1>1. /\ IsSeq(x) /\ Len(p) \in Nat /\ Len(q) \in Nat /\ Len(x) = Len(p) + Len(q)
      /\ \A i \in 1..Len(p) : x[i] = p[i]
      /\ \A i \in Len(p) + 1..Len(p) + Len(q) : x[i] = q[i - Len(p)]
  BY ConcatIs DEF Forces
<1> HIDE DEF x
<1>2. ASSUME NEW i \in 1..Len(x)
      PROVE  StepFits(x[i]) /\ x[i].op \in {"entry", "force", "rest"} /\ x[i].spec = s
  <2>1. CASE i \in 1..Len(p)
    <3>1. x[i] = p[i]
      BY <1>1, <2>1
    <3>2. QED  BY <2>1, <3>1 DEF Forces
  <2>2. CASE i \notin 1..Len(p)
    <3>1. i \in Len(p) + 1..Len(p) + Len(q) /\ i - Len(p) \in 1..Len(q)
      BY <1>1, <2>2
    <3>2. x[i] = q[i - Len(p)]
      BY <1>1, <3>1
    <3>3. QED  BY <3>1, <3>2 DEF Forces
  <2>3. QED  BY <2>1, <2>2
<1>3. QED  BY <1>1, <1>2 DEF Forces, x

\* Entries that are forced.
LEMMA EntriesForce ==
  ASSUME NEW s \in SpecIndex, NEW n \in Nat, NEW q, q = [i \in 1..n |-> q[i]],
         \A i \in 1..n : \E j : \E w \in Nat : q[i] = Entry(s, j, w)
  PROVE  Forces(q, s)
<1>1. IsSeq(q) /\ Len(q) = n
  BY ListIs
<1>2. ASSUME NEW i \in 1..n
      PROVE  StepFits(q[i]) /\ q[i].op \in {"entry", "force", "rest"} /\ q[i].spec = s
  <2>1. PICK j : \E w \in Nat : q[i] = Entry(s, j, w)
    BY <1>2
  <2>2. PICK w \in Nat : q[i] = Entry(s, j, w)
    BY <2>1
  <2>3. q[i].op = "entry" /\ q[i].spec = s /\ q[i].w \in Nat
    BY <2>2 DEF Entry
  <2>4. QED  BY <2>3 DEF StepFits, Applies, Overrides
<1>3. QED  BY <1>1, <1>2 DEF Forces

LEMMA OverrideForces ==
  ASSUME NEW s \in SpecIndex, NEW measure
  PROVE  Forces(OverrideSteps(s, measure), s)
<1> DEFINE waves == [j \in 1..Len(MCPWaves) |-> Entry(s, j, MCPWaves[j])]
           non == [op |-> "force", spec |-> s, fields |-> [nonAbs |-> MCPNonAbs]]
           count == [op |-> "force", spec |-> s, fields |-> [count |-> Len(MCPWaves)]]
           two == <<non, count>>
           rest == [op |-> "rest", spec |-> s]
           one == <<rest>>
           none == <<>>
<1>1. Forces(waves, s)
  <2>1. Len(MCPWaves) = 2 /\ MCPWaves[1] = 434 /\ MCPWaves[2] = 578
    BY TwoWaves
  <2>2. \A i \in 1..2 : i = 1 \/ i = 2
    OBVIOUS
  <2>3. waves = [i \in 1..2 |-> waves[i]] /\ 2 \in Nat
    BY <2>1
  <2>4. \A i \in 1..2 : waves[i] = Entry(s, i, MCPWaves[i]) /\ MCPWaves[i] \in Nat
    BY <2>1, <2>2
  <2> HIDE DEF waves
  <2>5. \A i \in 1..2 : \E j : \E w \in Nat : waves[i] = Entry(s, j, w)
    BY <2>4
  <2>6. QED  BY <2>3, <2>5, EntriesForce
<1>2. Forces(two, s)
  <2>1. two = [i \in 1..2 |-> two[i]] /\ two[1] = non /\ two[2] = count
    OBVIOUS
  <2>2. /\ non.op = "force" /\ non.spec = s /\ non.fields = [nonAbs |-> MCPNonAbs]
        /\ count.op = "force" /\ count.spec = s /\ count.fields = [count |-> Len(MCPWaves)]
    OBVIOUS
  <2>3. /\ FieldsFit([nonAbs |-> MCPNonAbs]) /\ FieldsFit([count |-> Len(MCPWaves)])
    BY TwoWaves, FieldFits
  <2>4. /\ DOMAIN [nonAbs |-> MCPNonAbs] \cap Sampling = {}
        /\ DOMAIN [count |-> Len(MCPWaves)] \cap Sampling = {}
    BY DEF Sampling
  <2> HIDE DEF two, non, count
  <2>5. StepFits(non) /\ StepFits(count)
    BY <2>2, <2>3, <2>4 DEF StepFits, Applies, Overrides
  <2>6. IsSeq(two) /\ Len(two) = 2
    BY <2>1, ListIs
  <2>7. \A i \in 1..2 : two[i] = non \/ two[i] = count
    <3>1. \A i \in 1..2 : i = 1 \/ i = 2
      OBVIOUS
    <3>2. QED  BY <2>1, <3>1
  <2>8. QED  BY <2>2, <2>5, <2>6, <2>7 DEF Forces
<1>3. Forces(one, s)
  <2>1. one = [i \in 1..1 |-> one[i]] /\ one[1] = rest /\ rest.op = "rest" /\ rest.spec = s
    OBVIOUS
  <2> HIDE DEF one, rest
  <2>2. StepFits(rest)
    BY <2>1 DEF StepFits, Applies, Overrides
  <2>3. IsSeq(one) /\ Len(one) = 1
    BY <2>1, ListIs
  <2>4. \A i \in 1..1 : one[i] = rest
    BY <2>1
  <2>5. QED  BY <2>1, <2>2, <2>3, <2>4 DEF Forces
<1>4. Forces(none, s)
  <2>1. Len(none) = 0 /\ none \in Seq({})
    BY EmptySeq
  <2>2. \A i \in 1..Len(none) : FALSE
    BY <2>1
  <2> HIDE DEF none
  <2>3. IsSeq(none)
    BY <2>1, SeqIs
  <2>4. QED  BY <2>2, <2>3 DEF Forces
<1>5. OverrideSteps(s, measure) = (IF measure = "MCP" THEN waves \o two ELSE none)
                                  \o (IF measure = "ANALYTE" THEN none ELSE one)
  BY DEF OverrideSteps, MCPSteps
<1> HIDE DEF waves, two, one, none
<1>6. Forces(waves \o two, s)
  BY <1>1, <1>2, ForcesJoined
<1>7. Forces(IF measure = "MCP" THEN waves \o two ELSE none, s)
  BY <1>4, <1>6
<1>8. Forces(IF measure = "ANALYTE" THEN none ELSE one, s)
  BY <1>3, <1>4
<1>9. QED  BY <1>5, <1>7, <1>8, ForcesJoined

LEMMA ClearForces ==
  ASSUME NEW s \in SpecIndex, NEW count \in 0..MaxAbsWaves
  PROVE  Forces(ClearSteps(s, count), s)
<1> DEFINE n == MaxAbsWaves - count
           q == [i \in 1..n |-> Entry(s, count + i, 0)]
<1>1. n \in Nat
  BY SizeAssumption
<1>2. q = [i \in 1..n |-> q[i]] /\ \A i \in 1..n : q[i] = Entry(s, count + i, 0)
  OBVIOUS
<1>3. ClearSteps(s, count) = q
  BY DEF ClearSteps
<1> HIDE DEF q, n
<1>4. QED  BY <1>1, <1>2, <1>3, EntriesForce

LEMMA ForcesMove ==
  ASSUME PlanInv, NEW t \in Thread, ~Idle(t), Overrides(Now(t)), NEW q, Forces(q, Now(t).spec),
         Instead(t, q)
  PROVE  OnlyMoves(t)
<1> DEFINE a == todo[t]
           h == Head(a)
           n == Len(q)
           y == q[n]
           none == <<>>
<1>1. Plan(a) /\ a # <<>>
  BY DEF PlanInv, Idle
<1>2. Overrides(h) /\ Forces(q, h.spec) /\ IsSeq(q) /\ n \in Nat
  BY EmptyIs DEF Now, Forces
<1>3. CASE n = 0
  <2>1. q = none
    BY <1>2, <1>3, EmptyIs
  <2>2. Moves(a, Tail(a)) /\ IsSeq(Tail(a))
    BY <1>1, TailMoves DEF Moves, Plan, Chain
  <2>3. none \o Tail(a) = Tail(a)
    BY <2>2, NoneIsLeft
  <2> HIDE DEF none
  <2>4. Moves(a, q \o Tail(a))
    BY <2>1, <2>2, <2>3
  <2>5. QED  BY <2>4, InsteadMoves
<1>4. CASE n # 0
  <2>1. 1 \in 1..n /\ n \in 1..n /\ n \in Nat \ {0}
    BY <1>2, <1>4
  <2>2. \A i \in 1..n : StepFits(q[i]) /\ q[i].op \in {"entry", "force", "rest"} /\ q[i].spec = h.spec
    BY <1>2 DEF Forces
  <2>3. \A i \in 1..n : \A z : q[i].op \in {"entry", "force", "rest"} /\ q[i].spec = h.spec
                           /\ z.spec = h.spec
                           /\ (z.op \in {"entry", "force", "rest"} \/ (z.op = "pixel" /\ z.j = 1))
                             => Follows(q[i], z)
    BY SetsIs DEF Follows, Overrides
  <2>4. ASSUME NEW i \in 1..n, i < n
        PROVE  Follows(q[i], q[i + 1])
    <3>1. i + 1 \in 1..n
      BY <1>2, <2>4
    <3>2. QED  BY <2>2, <2>3, <3>1
  <2>5. Going(q, q[1], y)
    <3>1. q = [i \in 1..n |-> q[i]]
      BY <1>2, SeqDomain
    <3> HIDE DEF n
    <3>2. Going(q, q[1], q[n])
      BY <2>1, <2>2, <2>4, <3>1, ListIsGoing
    <3>3. QED  BY <3>2
  <2>6. Succeeds(h, q[1]) /\ ~Ends(h)
    <3>1. Follows(h, q[1])
      BY <1>2, <2>1, <2>2, SetsIs DEF Follows, Overrides
    <3>2. ~Ends(h)
      BY <1>2, SetsIs DEF Ends, Overrides
    <3>3. QED  BY <3>1, <3>2 DEF Succeeds
  <2>7. \A z : Follows(h, z) => Follows(y, z)
    <3>1. \A z : Follows(h, z) => /\ z.spec = h.spec
                                  /\ \/ z.op \in {"entry", "force", "rest"}
                                     \/ z.op = "pixel" /\ z.j = 1
      BY <1>2 DEF Follows
    <3>2. QED  BY <2>1, <2>2, <2>3, <3>1
  <2>8. Moves(a, q \o Tail(a))
    <3> HIDE DEF a, y
    <3>1. QED  BY <1>1, <2>5, <2>6, <2>7, GivesWay
  <2>9. QED  BY <2>8, InsteadMoves
<1>5. QED  BY <1>3, <1>4

LEMMA OverrideMoves ==
  ASSUME PlanInv, NEW t \in Thread, Override(t)
  PROVE  OnlyMoves(t) /\ Overrides(Now(t)) /\ ~Idle(t)'
<1>1. ~Idle(t) /\ Now(t).op \in {"override", "rest"}
  BY DEF Override, Step, Now
<1>2. Overrides(Now(t))
  BY <1>1 DEF Overrides
<1>3. Now(t).spec \in SpecIndex
  <2>1. StepFits(Now(t))
    BY <1>1, PlanIs DEF PlanInv, Idle, Now
  <2>2. QED  BY <1>1, <2>1 DEF StepFits
<1>4. PICK q : Forces(q, Now(t).spec) /\ Instead(t, q)
  <2>1. CASE Now(t).op = "override"
    <3>1. Instead(t, OverrideSteps(Now(t).spec, config[Now(t).spec].measure))
      BY <2>1 DEF Override, Step, Now
    <3>2. QED  BY <1>3, <3>1, OverrideForces
  <2>2. CASE Now(t).op = "rest"
    <3>1. Instead(t, ClearSteps(Now(t).spec, config[Now(t).spec].count))
      BY <2>2 DEF Override, Step, Now
    <3>2. config[Now(t).spec].count \in 0..MaxAbsWaves
      BY <1>3 DEF PlanInv, Shape
    <3>3. QED  BY <1>3, <3>1, <3>2, ClearForces
  <2>3. QED  BY <1>1, <2>1, <2>2
<1>5. OnlyMoves(t)
  BY <1>1, <1>2, <1>4, ForcesMove
<1>6. ~Ends(Now(t))
  BY <1>2, EndsIs DEF Applies
<1>7. QED  BY <1>2, <1>5, <1>6, MovedIs

\* A copy is logged next.
LEMMA CopyMoves ==
  ASSUME PlanInv, NEW t \in Thread, CopyConfig(t)
  PROVE  LET st == Now(t)
             x == Now(t)'
         IN /\ OnlyMoves(t) /\ st.op = "copy" /\ st.spec \in SpecIndex /\ ~Idle(t)'
            /\ x.op = "log" /\ x.spec = st.spec /\ x.copy = Copied(config[st.spec])
<1> DEFINE a == todo[t]
           st == Head(a)
           log == [op |-> "log", spec |-> st.spec, copy |-> Copied(config[st.spec])]
           one == <<log>>
<1>1. ~Idle(t) /\ st.op = "copy" /\ Instead(t, one)
  BY DEF CopyConfig, Step
<1>2. Plan(a) /\ a # <<>>
  BY <1>1 DEF PlanInv, Idle
<1>3. StepFits(st) /\ st.spec \in SpecIndex
  <2>1. StepFits(st)
    BY <1>2, PlanIs
  <2>2. QED  BY <1>1, <2>1 DEF StepFits
<1>4. log.op = "log" /\ log.spec = st.spec /\ log.copy = Copied(config[st.spec])
  OBVIOUS
<1>5. one = [i \in 1..1 |-> one[i]] /\ one[1] = log
  OBVIOUS
<1>6. Now(t) = st
  BY DEF Now
<1> HIDE DEF one, log, st
<1>7. StepFits(log) /\ ~Sets(log) /\ ~Tunes(log) /\ ~Overrides(log) /\ ~Sets(st) /\ ~Tunes(st)
  BY <1>1, <1>3, <1>4 DEF StepFits, Logs, Sets, Tunes, Overrides
<1>8. Going(one, log, log)
  BY <1>5, <1>7, OneGoes
<1>9. Succeeds(st, log) /\ (Ends(st) => Ends(log))
  BY <1>1, <1>4, <1>7 DEF Succeeds, Ends
<1>10. \A z : Follows(st, z) => Follows(log, z)
  BY <1>1, <1>4, <1>7 DEF Follows
<1>11. Moves(a, one \o Tail(a)) /\ one \o Tail(a) # <<>> /\ Head(one \o Tail(a)) = log
  <2>1. Succeeds(Head(a), log) /\ (Ends(Head(a)) => Ends(log))
    BY <1>9 DEF st
  <2>2. \A z : Follows(Head(a), z) => Follows(log, z)
    BY <1>10 DEF st
  <2> HIDE DEF a
  <2>3. QED  BY <1>2, <1>8, <2>1, <2>2, GivesWay
<1>12. OnlyMoves(t) /\ todo'[t] = one \o Tail(a)
  BY <1>1, <1>11, InsteadMoves
<1>13. ~Idle(t)' /\ Now(t)' = log
  BY <1>11, <1>12 DEF Idle, Now
<1>14. QED  BY <1>1, <1>3, <1>4, <1>6, <1>12, <1>13

-----------------------------------------------------------------------------
(* What a step does to the configuration.                                  *)

\* Configurations that differ in these fields only.
SameBut(c, d, fields) == \A k \in DOMAIN Blank \ fields : d[k] = c[k]

LEMMA FollowAlike ==
  ASSUME NEW c, NEW d, NEW s, SameBut(c, d, Sampling) \/ SameBut(c, d, {"dwell"})
  PROVE  FollowIn(s, d) <=> FollowIn(s, c)
<1>1. /\ d.count = c.count /\ d.waves = c.waves /\ d.nonAbs = c.nonAbs
      /\ d.pixels = c.pixels /\ d.nonAbsPixel = c.nonAbsPixel
  BY DEF SameBut, Blank, Sampling
<1>2. QED  BY <1>1 DEF FollowIn

\* What SSP has set since is all that differs.
LEMMA TunedDiffers ==
  ASSUME NEW c, NEW d, NEW s, SameBut(c, d, Sampling)
  PROVE  /\ \A a, U : Sampling \subseteq U /\ Differ(a, Saved(s, c)) \subseteq U =>
                        Differ(a, Saved(s, d)) \subseteq U
         /\ \A a, U : Sampling \subseteq U /\ Differ(a, Copied(c)) \subseteq U =>
                        Differ(a, Copied(d)) \subseteq U
         /\ LoggedSlopes(s, d) = LoggedSlopes(s, c)
<1>1. /\ d.analyte = c.analyte /\ d.dwell = c.dwell /\ d.count = c.count /\ d.waves = c.waves
      /\ d.nonAbs = c.nonAbs /\ d.measure = c.measure /\ d.cal = c.cal
  BY DEF SameBut, Blank, Sampling
<1> DEFINE x == Saved(s, c)
           y == Saved(s, d)
           v == Copied(c)
           w == Copied(d)
<1>2. DOMAIN y = DOMAIN x /\ \A k \in DOMAIN x \ Sampling : y[k] = x[k]
  <2> DEFINE f == SubSeq(c.waves, 1, c.count)
             g == SubSeq(c.cal, 1, c.count)
             P(i, n) == [analyte |-> c.analyte, dwell |-> c.dwell, integration |-> i,
                         scans |-> n, count |-> c.count, waves |-> f, nonAbs |-> c.nonAbs,
                         measure |-> c.measure, cal |-> g]
  <2>1. x = P(c.integration, c.scans) /\ y = P(d.integration, d.scans)
    BY <1>1 DEF Saved
  <2> HIDE DEF x, y, f, g
  <2>2. \A i, n, j, m : /\ DOMAIN P(i, n) = DOMAIN P(j, m)
                        /\ \A k \in DOMAIN P(i, n) \ Sampling : P(j, m)[k] = P(i, n)[k]
    BY DEF Sampling
  <2> HIDE DEF P
  <2>3. QED  BY <2>1, <2>2
<1>3. DOMAIN w = DOMAIN v /\ \A k \in DOMAIN v \ Sampling : w[k] = v[k]
  BY <1>1 DEF Copied, Sampling
<1>4. LoggedSlopes(s, d) = LoggedSlopes(s, c)
  BY <1>1 DEF LoggedSlopes
<1> HIDE DEF x, y, v, w
<1>5. \A a, U : Sampling \subseteq U /\ Differ(a, x) \subseteq U => Differ(a, y) \subseteq U
  BY <1>2 DEF Differ
<1>6. \A a, U : Sampling \subseteq U /\ Differ(a, v) \subseteq U => Differ(a, w) \subseteq U
  BY <1>3 DEF Differ
<1>7. QED  BY <1>4, <1>5, <1>6 DEF x, y, v, w

LEMMA PutFits ==
  ASSUME NEW c, Shape(c), NEW f, FieldsFit(f)
  PROVE  LET d == [k \in DOMAIN c |-> IF k \in DOMAIN f THEN f[k] ELSE c[k]]
         IN /\ Shape(d)
            /\ DOMAIN f \subseteq Sampling => SameBut(c, d, Sampling)
            /\ DOMAIN f = {"dwell"} => SameBut(c, d, {"dwell"})
<1> DEFINE d == [k \in DOMAIN c |-> IF k \in DOMAIN f THEN f[k] ELSE c[k]]
<1>1. c = [k \in DOMAIN Blank |-> c[k]]
  BY DEF Shape
<1>2. d = [k \in DOMAIN Blank |-> IF k \in DOMAIN f THEN f[k] ELSE c[k]]
  BY <1>1
<1>3. "pixels" \notin DOMAIN f
  BY DEF FieldsFit
<1> HIDE DEF d
<1>4. /\ d = [k \in DOMAIN Blank |-> d[k]] /\ d.pixels = c.pixels
      /\ d.cal = IF "cal" \in DOMAIN f THEN f.cal ELSE c.cal
      /\ d.count = IF "count" \in DOMAIN f THEN f.count ELSE c.count
      /\ d.waves = IF "waves" \in DOMAIN f THEN f.waves ELSE c.waves
      /\ d.nonAbs = IF "nonAbs" \in DOMAIN f THEN f.nonAbs ELSE c.nonAbs
  BY <1>2, <1>3 DEF Blank
<1>5. /\ c.count \in 0..MaxAbsWaves /\ c.waves \in [1..MaxAbsWaves -> Nat] /\ c.nonAbs \in Nat
      /\ c.cal = [i \in 1..MaxAbsWaves |-> c.cal[i]]
      /\ c.pixels = [i \in 1..MaxAbsWaves |-> c.pixels[i]]
  BY DEF Shape
<1>6. d.cal = [i \in 1..MaxAbsWaves |-> d.cal[i]]
  <2>1. CASE "cal" \in DOMAIN f
    <3>1. d.cal = f.cal /\ f.cal = [i \in 1..MaxAbsWaves |-> f.cal[i]]
      BY <1>4, <2>1 DEF FieldsFit
    <3>2. QED  BY <3>1
  <2>2. CASE "cal" \notin DOMAIN f
    <3>1. d.cal = c.cal
      BY <1>4, <2>2
    <3>2. QED  BY <1>5, <3>1
  <2>3. QED  BY <2>1, <2>2
<1>7. d.count \in 0..MaxAbsWaves /\ d.waves \in [1..MaxAbsWaves -> Nat] /\ d.nonAbs \in Nat
  BY <1>4, <1>5 DEF FieldsFit
<1>8. Shape(d)
  BY <1>4, <1>5, <1>6, <1>7 DEF Shape
<1>9. /\ DOMAIN f \subseteq Sampling => SameBut(c, d, Sampling)
      /\ DOMAIN f = {"dwell"} => SameBut(c, d, {"dwell"})
  BY <1>2 DEF SameBut
<1>10. QED  BY <1>8, <1>9 DEF d

\* An array gets an entry, or the wavelength that is not absorbed its pixel.
LEMMA WaveFits ==
  ASSUME NEW c, Shape(c), NEW j, NEW w \in Nat, NEW d, d = [c EXCEPT !.waves[j] = w]
  PROVE  Shape(d)
<1> DEFINE f == [c.waves EXCEPT ![j] = w]
<1>1. c = [k \in DOMAIN Blank |-> c[k]] /\ c.waves \in [1..MaxAbsWaves -> Nat]
  BY DEF Shape
<1>2. f \in [1..MaxAbsWaves -> Nat] /\ d = [c EXCEPT !.waves = f]
  BY <1>1
<1> HIDE DEF f
<1>3. d = [k \in DOMAIN Blank |-> IF k = "waves" THEN f ELSE c[k]]
  BY <1>1, <1>2
<1>4. QED  BY <1>2, <1>3 DEF Shape, Blank

LEMMA CalFits ==
  ASSUME NEW c, Shape(c), NEW j, NEW v, NEW d, d = [c EXCEPT !.cal[j] = v]
  PROVE  Shape(d)
<1> DEFINE f == [c.cal EXCEPT ![j] = v]
<1>1. c = [k \in DOMAIN Blank |-> c[k]] /\ c.cal = [i \in 1..MaxAbsWaves |-> c.cal[i]]
  BY DEF Shape
<1>2. f = [i \in 1..MaxAbsWaves |-> f[i]] /\ d = [c EXCEPT !.cal = f]
  BY <1>1
<1> HIDE DEF f
<1>3. d = [k \in DOMAIN Blank |-> IF k = "cal" THEN f ELSE c[k]]
  BY <1>1, <1>2
<1>4. QED  BY <1>2, <1>3 DEF Shape, Blank

LEMMA PixelFits ==
  ASSUME NEW c, Shape(c), NEW f, f = [i \in 1..MaxAbsWaves |-> f[i]],
         NEW d, d = [c EXCEPT !.pixels = f]
  PROVE  Shape(d) /\ SameBut(c, d, {"pixels"}) /\ d.pixels = f
<1>1. c = [k \in DOMAIN Blank |-> c[k]]
  BY DEF Shape
<1>2. d = [k \in DOMAIN Blank |-> IF k = "pixels" THEN f ELSE c[k]]
  BY <1>1
<1>3. QED  BY <1>2 DEF Shape, Blank, SameBut

LEMMA NonAbsFits ==
  ASSUME NEW c, Shape(c), NEW v, NEW d, d = [c EXCEPT !.nonAbsPixel = v]
  PROVE  Shape(d) /\ SameBut(c, d, {"nonAbsPixel"}) /\ d.nonAbsPixel = v
<1>1. c = [k \in DOMAIN Blank |-> c[k]]
  BY DEF Shape
<1>2. d = [k \in DOMAIN Blank |-> IF k = "nonAbsPixel" THEN v ELSE c[k]]
  BY <1>1
<1>3. QED  BY <1>2 DEF Shape, Blank, SameBut

\* What step h makes of c, the configuration of s.
Turns(h, s, c, d) ==
  /\ d = c \/ (h.spec = s /\ (Sets(h) \/ Tunes(h)
                                \/ h.op \in {"entry", "force", "store", "storeNon"}))
  /\ Tunes(h) => SameBut(c, d, Sampling)
  /\ Tunes(h) \/ Dwells(h) => (FollowIn(s, d) <=> FollowIn(s, c))
  /\ h.op = "store" /\ h.spec = s =>
       /\ SameBut(c, d, {"pixels"})
       /\ d.pixels = [c.pixels EXCEPT ![h.j] = calcPixelValueForWavelength(s, h.w)]
  /\ h.op = "storeNon" /\ h.spec = s =>
       SameBut(c, d, {"nonAbsPixel"}) /\ d.nonAbsPixel = calcPixelValueForWavelength(s, h.w)

Effect(t) ==
  /\ config' = [s \in SpecIndex |-> config'[s]]
  /\ \A s \in SpecIndex : Shape(config'[s]) /\ Turns(Now(t), s, config[s], config'[s])

\* What SSP leaves behind is marked, and what is marked stays so.
Marks(t) == Tunes(Now(t)) => behind'[Now(t).spec] = {"file", "log"}
StaysBehind(what) == \A s \in SpecIndex : what \in behind[s] => what \in behind'[s]

LEMMA TurnsNot ==
  ASSUME NEW h, NEW s, NEW c, h.spec # s \/ h.op \notin {"store", "storeNon"}
  PROVE  Turns(h, s, c, c)
BY DEF Turns, SameBut

\* Steps that leave the configuration alone.
LEMMA NoEffect ==
  ASSUME PlanInv, NEW t \in Thread, config' = config,
         Now(t).op \notin {"store", "storeNon"}
  PROVE  Effect(t)
<1>1. config' = [s \in SpecIndex |-> config'[s]] /\ \A s \in SpecIndex : Shape(config'[s])
  BY DEF PlanInv
<1>2. \A s \in SpecIndex : Turns(Now(t), s, config[s], config'[s])
  BY TurnsNot
<1>3. QED  BY <1>1, <1>2 DEF Effect

\* Steps that change one.
LEMMA OneEffect ==
  ASSUME PlanInv, NEW t \in Thread, NEW z \in SpecIndex, Now(t).spec = z,
         NEW d, config' = [config EXCEPT ![z] = d], Shape(d), Turns(Now(t), z, config[z], d)
  PROVE  Effect(t)
<1>1. config = [s \in SpecIndex |-> config[s]] /\ \A s \in SpecIndex : Shape(config[s])
  BY DEF PlanInv
<1>2. /\ config' = [s \in SpecIndex |-> config'[s]] /\ config'[z] = d
      /\ \A s \in SpecIndex \ {z} : config'[s] = config[s]
  BY <1>1
<1>3. \A s \in SpecIndex \ {z} : Turns(Now(t), s, config[s], config'[s])
  BY <1>2, TurnsNot
<1>4. QED  BY <1>1, <1>2, <1>3 DEF Effect

\* What is marked as left behind by an assignment.
LEMMA MarksIs ==
  ASSUME PlanInv, NEW t \in Thread, Now(t).spec \in SpecIndex,
         \/ behind' = behind /\ ~Tunes(Now(t))
         \/ behind' = [behind EXCEPT ![Now(t).spec] = {"file", "log"}]
  PROVE  /\ behind' = [s \in SpecIndex |-> behind'[s]] /\ Marks(t)
         /\ \A what \in {"file", "log"} : StaysBehind(what)
<1>1. behind = [s \in SpecIndex |-> behind[s]]
  BY DEF PlanInv
<1>2. CASE behind' = behind /\ ~Tunes(Now(t))
  BY <1>1, <1>2 DEF Marks, StaysBehind
<1>3. CASE behind' = [behind EXCEPT ![Now(t).spec] = {"file", "log"}]
  <2>1. /\ behind' = [s \in SpecIndex |-> behind'[s]] /\ behind'[Now(t).spec] = {"file", "log"}
        /\ \A s \in SpecIndex : s # Now(t).spec => behind'[s] = behind[s]
    BY <1>1, <1>3
  <2>2. \A s \in SpecIndex, what \in {"file", "log"} : what \in behind[s] => what \in behind'[s]
    BY <2>1
  <2>3. QED  BY <2>1, <2>2 DEF Marks, StaysBehind
<1>4. QED  BY <1>2, <1>3

\* What the assignments have in common.
Assigns(t) ==
  /\ Effect(t) /\ ~Idle(t) /\ Continue(t) /\ UNCHANGED <<unsaved, mode, raced>>
  /\ Sets(Now(t)) \/ Tunes(Now(t)) \/ Now(t).op \in {"entry", "force"}
  /\ behind' = [s \in SpecIndex |-> behind'[s]] /\ Marks(t)
  /\ \A what \in {"file", "log"} : StaysBehind(what)
  /\ before' = IF Now(t).op = "cal" /\ Now(t).j = 1 THEN Loaded ELSE before

LEMMA FieldEffect ==
  ASSUME PlanInv, NEW t \in Thread, AssignField(t)
  PROVE  Assigns(t)
<1> DEFINE h == Head(todo[t])
           z == h.spec
           c == config[z]
           f == h.fields
           d == [k \in DOMAIN c |-> IF k \in DOMAIN f THEN f[k] ELSE c[k]]
<1>1. /\ ~Idle(t) /\ Continue(t) /\ UNCHANGED <<unsaved, mode, raced>> /\ before' = before
      /\ h.op \in {"put", "force"} /\ config' = [config EXCEPT ![z] = d]
      /\ behind' = IF DOMAIN f \subseteq Sampling
                   THEN [behind EXCEPT ![z] = {"file", "log"}] ELSE behind
  BY DEF AssignField, Step
<1>2. StepFits(h) /\ h = Now(t)
  <2>1. Plan(todo[t]) /\ todo[t] # <<>>
    BY <1>1 DEF PlanInv, Idle
  <2>2. QED  BY <2>1, PlanIs DEF Now
<1>3. z \in SpecIndex /\ FieldsFit(f) /\ (Sets(h) \/ Tunes(h) \/ h.op = "force")
  BY <1>1, <1>2 DEF StepFits, Applies, Overrides, Writes, Logs
<1>4. Shape(c)
  BY <1>3 DEF PlanInv
<1>5. /\ Shape(d)
      /\ DOMAIN f \subseteq Sampling => SameBut(c, d, Sampling)
      /\ DOMAIN f = {"dwell"} => SameBut(c, d, {"dwell"})
  BY <1>3, <1>4, PutFits
<1>6. /\ Tunes(h) => DOMAIN f \subseteq Sampling
      /\ Dwells(h) => DOMAIN f = {"dwell"}
  BY DEF Tunes, Dwells
<1> HIDE DEF d, c, f
<1>7. Tunes(h) \/ Dwells(h) => (FollowIn(z, d) <=> FollowIn(z, c))
  BY <1>5, <1>6, FollowAlike
<1> HIDE DEF z, h
<1>8. Turns(h, z, c, d)
  BY <1>1, <1>3, <1>5, <1>6, <1>7 DEF Turns, z
<1>9. Effect(t)
  BY <1>1, <1>2, <1>3, <1>5, <1>8, OneEffect DEF z, c
<1>10. /\ behind' = [s \in SpecIndex |-> behind'[s]] /\ Marks(t)
       /\ \A what \in {"file", "log"} : StaysBehind(what)
  <2>1. \/ behind' = behind /\ ~Tunes(Now(t))
        \/ behind' = [behind EXCEPT ![Now(t).spec] = {"file", "log"}]
    BY <1>1, <1>2, <1>6 DEF z
  <2>2. Now(t).spec \in SpecIndex
    BY <1>2, <1>3 DEF z
  <2>3. QED  BY <2>1, <2>2, MarksIs
<1>11. QED  BY <1>1, <1>2, <1>3, <1>9, <1>10 DEF Assigns

LEMMA EntryEffect ==
  ASSUME PlanInv, NEW t \in Thread, AssignEntry(t)
  PROVE  Assigns(t)
<1> DEFINE h == Head(todo[t])
           z == h.spec
           c == config[z]
<1>1. /\ ~Idle(t) /\ Continue(t) /\ UNCHANGED <<unsaved, mode, raced>> /\ behind' = behind
      /\ h.op \in {"wave", "entry", "cal"}
      /\ before' = IF h.op = "cal" /\ h.j = 1 THEN Loaded ELSE before
  BY DEF AssignEntry, Step
<1>2. StepFits(h) /\ h = Now(t)
  <2>1. Plan(todo[t]) /\ todo[t] # <<>>
    BY <1>1 DEF PlanInv, Idle
  <2>2. QED  BY <2>1, PlanIs DEF Now
<1>3. /\ z \in SpecIndex /\ ~Dwells(h) /\ ~Tunes(h) /\ (Sets(h) \/ h.op = "entry")
      /\ h.op \in {"wave", "entry"} => h.w \in Nat
  BY <1>1, <1>2 DEF StepFits, Sets, Dwells, Tunes
<1>4. Shape(c)
  BY <1>3 DEF PlanInv
<1>5. \E d : config' = [config EXCEPT ![z] = d] /\ Shape(d)
  <2>1. CASE h.op \in {"wave", "entry"}
    <3> DEFINE d == [c EXCEPT !.waves[h.j] = h.w]
    <3>1. config' = [config EXCEPT ![z].waves[h.j] = h.w]
      BY <2>1 DEF AssignEntry, Step
    <3>2. config' = [config EXCEPT ![z] = d]
      BY <3>1
    <3>3. Shape(d)
      BY <1>3, <1>4, <2>1, WaveFits
    <3> HIDE DEF d
    <3>4. QED  BY <3>2, <3>3
  <2>2. CASE h.op = "cal"
    <3> DEFINE d == [c EXCEPT !.cal[h.j] = h.cal]
    <3>1. config' = [config EXCEPT ![z].cal[h.j] = h.cal]
      BY <2>2 DEF AssignEntry, Step
    <3>2. config' = [config EXCEPT ![z] = d]
      BY <3>1
    <3>3. Shape(d)
      BY <1>4, CalFits
    <3> HIDE DEF d
    <3>4. QED  BY <3>2, <3>3
  <2>3. QED  BY <1>1, <2>1, <2>2
<1>6. PICK d : config' = [config EXCEPT ![z] = d] /\ Shape(d)
  BY <1>5
<1> HIDE DEF c, z, h
<1>7. Turns(h, z, c, d)
  BY <1>1, <1>3 DEF Turns, z
<1>8. Effect(t)
  BY <1>2, <1>3, <1>6, <1>7, OneEffect DEF z, c
<1>9. /\ behind' = [s \in SpecIndex |-> behind'[s]] /\ Marks(t)
      /\ \A what \in {"file", "log"} : StaysBehind(what)
  BY <1>1, <1>2, <1>3, MarksIs DEF z
<1>10. QED  BY <1>1, <1>2, <1>3, <1>8, <1>9 DEF Assigns

LEMMA StoreEffect ==
  ASSUME PlanInv, NEW t \in Thread, StorePixel(t)
  PROVE  /\ Effect(t) /\ ~Idle(t) /\ Continue(t) /\ UNCHANGED <<unsaved, mode, behind, before>>
         /\ Now(t).op \in {"found", "store", "storeNon"}
         /\ raced' = IF Now(t).op = "storeNon" /\ alone /\ Now(t).spec = NumSpecs
                     THEN raced \ {"pixels"} ELSE raced
<1> DEFINE h == Head(todo[t])
           z == h.spec
           c == config[z]
           p == calcPixelValueForWavelength(z, h.w)
<1>1. /\ ~Idle(t) /\ Continue(t) /\ UNCHANGED <<unsaved, mode, behind, before>>
      /\ h.op \in {"found", "store", "storeNon"}
  BY DEF StorePixel, Step
<1>2. StepFits(h) /\ h = Now(t)
  <2>1. Plan(todo[t]) /\ todo[t] # <<>>
    BY <1>1 DEF PlanInv, Idle
  <2>2. QED  BY <2>1, PlanIs DEF Now
<1>3. /\ z \in SpecIndex /\ ~Dwells(h) /\ ~Tunes(h)
      /\ h.op = "found" => Sets(h)
  BY <1>1, <1>2 DEF StepFits, Sets, Dwells, Tunes
<1>4. Shape(c)
  BY <1>3 DEF PlanInv
<1>5. CASE \E op \in {"found", "store"} : Step(t, op)
  <2> DEFINE f == [c.pixels EXCEPT ![h.j] = p]
             d == [c EXCEPT !.pixels = f]
  <2>1. h.op \in {"found", "store"} /\ config' = [config EXCEPT ![z] = d] /\ raced' = raced
    BY <1>5 DEF StorePixel, Step
  <2>2. Shape(d) /\ SameBut(c, d, {"pixels"}) /\ d.pixels = f
    <3>1. f = [i \in 1..MaxAbsWaves |-> f[i]]
      <4>1. c.pixels = [i \in 1..MaxAbsWaves |-> c.pixels[i]]
        BY <1>4 DEF Shape
      <4> HIDE DEF c, p, h
      <4>2. QED  BY <4>1
    <3> HIDE DEF c, f
    <3>2. QED  BY <1>4, <3>1, PixelFits
  <2> HIDE DEF c, d, z, h
  <2>3. Turns(h, z, c, d)
    BY <1>3, <2>1, <2>2 DEF Turns, z
  <2>4. Effect(t)
    BY <1>2, <1>3, <2>1, <2>2, <2>3, OneEffect DEF z, c
  <2>5. Now(t).op \in {"found", "store"}
    BY <1>2, <2>1
  <2>6. raced' = IF Now(t).op = "storeNon" /\ alone /\ Now(t).spec = NumSpecs
                THEN raced \ {"pixels"} ELSE raced
    BY <2>1, <2>5
  <2>7. Now(t).op \in {"found", "store", "storeNon"}
    BY <2>5
  <2>8. QED  BY <1>1, <2>4, <2>6, <2>7
<1>6. CASE Step(t, "storeNon")
  <2> DEFINE d == [c EXCEPT !.nonAbsPixel = p]
  <2>1. h.op = "storeNon" /\ config' = [config EXCEPT ![z] = d]
        /\ raced' = IF alone /\ z = NumSpecs THEN raced \ {"pixels"} ELSE raced
    BY <1>6 DEF StorePixel, Step
  <2>2. Shape(d) /\ SameBut(c, d, {"nonAbsPixel"}) /\ d.nonAbsPixel = p
    <3> HIDE DEF c, p, d, z, h
    <3>1. d = [c EXCEPT !.nonAbsPixel = p]
      BY DEF d
    <3>2. QED  BY <1>4, <3>1, NonAbsFits
  <2> HIDE DEF c, d, z, h
  <2>3. Turns(h, z, c, d)
    BY <1>3, <2>1, <2>2 DEF Turns, z
  <2>4. Effect(t)
    BY <1>2, <1>3, <2>1, <2>2, <2>3, OneEffect DEF z, c
  <2>5. Now(t).op = "storeNon" /\ Now(t).spec = z
    BY <1>2, <2>1 DEF z
  <2>6. raced' = IF Now(t).op = "storeNon" /\ alone /\ Now(t).spec = NumSpecs
                THEN raced \ {"pixels"} ELSE raced
    BY <2>1, <2>5
  <2>7. Now(t).op \in {"found", "store", "storeNon"}
    BY <2>5
  <2>8. QED  BY <1>1, <2>4, <2>6, <2>7
<1>7. QED  BY <1>5, <1>6 DEF StorePixel

-----------------------------------------------------------------------------
(* The invariants, when one thread takes a step.                           *)

LEMMA PlanKept ==
  ASSUME PlanInv, NEW t \in Thread, OnlyMoves(t), Effect(t),
         logged' = [s \in SpecIndex |-> logged'[s]], behind' = [s \in SpecIndex |-> behind'[s]],
         TextFits(file'), buffer' = [u \in Thread |-> buffer'[u]],
         \A u \in Thread : TextFits(buffer'[u]), closes' \in Nat,
         mutex' \in Thread \cup {NoThread}, dataMutex' \in Thread \cup {NoThread}
  PROVE  PlanInv'
<1>1. \A u \in Thread : Plan(todo'[u])
  BY MovedIs
<1>2. todo' = [u \in Thread |-> todo'[u]]
  BY DEF OnlyMoves
<1>3. config' = [s \in SpecIndex |-> config'[s]] /\ \A s \in SpecIndex : Shape(config'[s])
  BY DEF Effect
<1>4. QED  BY <1>1, <1>2, <1>3 DEF PlanInv

\* But for what SSP sets, what agrees with memory does so until a setter's step.
LEMMA AgreesStill ==
  ASSUME NEW t \in Thread, Effect(t), Marks(t), NEW what \in {"file", "log"},
         StaysBehind(what), NEW s \in SpecIndex,
         ~Sets(Now(t)), Now(t).op \notin {"entry", "force", "store", "storeNon"}
  PROVE  /\ \A a : Differ(a, Saved(s, config[s])) \subseteq Unsaved(s, what) =>
                     Differ(a, Saved(s, config'[s])) \subseteq Unsaved(s, what)'
         /\ \A a : Differ(a, Copied(config[s])) \subseteq Unsaved(s, what) =>
                     Differ(a, Copied(config'[s])) \subseteq Unsaved(s, what)'
         /\ LoggedSlopes(s, config'[s]) = LoggedSlopes(s, config[s])
<1> DEFINE c == config[s]
           d == config'[s]
           U == Unsaved(s, what)
           V == Unsaved(s, what)'
<1>1. U \subseteq V /\ U \subseteq Sampling
  BY DEF StaysBehind, Unsaved
<1>2. Turns(Now(t), s, c, d)
  BY DEF Effect
<1>3. CASE Tunes(Now(t)) /\ Now(t).spec = s
  <2>1. SameBut(c, d, Sampling)
    BY <1>2, <1>3 DEF Turns
  <2>2. V = Sampling
    BY <1>3 DEF Marks, Unsaved
  <2> HIDE DEF c, d, U, V
  <2>3. \A a : Differ(a, Saved(s, c)) \subseteq U => Differ(a, Saved(s, d)) \subseteq V
    <3>1. \A a : Differ(a, Saved(s, c)) \subseteq V => Differ(a, Saved(s, d)) \subseteq V
      BY <2>1, <2>2, TunedDiffers
    <3>2. QED  BY <1>1, <3>1
  <2>4. \A a : Differ(a, Copied(c)) \subseteq U => Differ(a, Copied(d)) \subseteq V
    <3>1. \A a : Differ(a, Copied(c)) \subseteq V => Differ(a, Copied(d)) \subseteq V
      BY <2>1, <2>2, TunedDiffers
    <3>2. QED  BY <1>1, <3>1
  <2>5. LoggedSlopes(s, d) = LoggedSlopes(s, c)
    BY <2>1, TunedDiffers
  <2>6. QED  BY <2>3, <2>4, <2>5 DEF c, d, U, V
<1>4. CASE ~(Tunes(Now(t)) /\ Now(t).spec = s)
  <2>1. d = c
    BY <1>2, <1>4 DEF Turns
  <2> HIDE DEF U, V, c, d
  <2>2. QED  BY <1>1, <2>1 DEF U, V, c, d
<1>5. QED  BY <1>3, <1>4

\* A thread that has changed something will copy it, and what was copied agrees but for
\* what SSP has set.
LEMMA LogKept ==
  ASSUME PlanInv, LogInv, NEW t \in Thread, OnlyMoves(t), Effect(t), Marks(t),
         StaysBehind("log"), logged' = logged, Now(t).op \notin {"copy", "log"},
         IF Now(t).op = "dataLock" THEN dataMutex = NoThread /\ dataMutex' = t
         ELSE dataMutex' = dataMutex
  PROVE  LogInv'
<1> DEFINE h == Now(t)
           x == Now(t)'
<1>1. /\ ~Idle(t) /\ StepFits(h) /\ (Idle(t)' => Ends(h))
      /\ ~Idle(t)' => StepFits(x) /\ Succeeds(h, x)
      /\ \A u \in Thread \ {t} : Idle(u)' = Idle(u) /\ Now(u)' = Now(u)
  BY MovedIs
<1>2. /\ \A u \in Thread : dataMutex = u <=> ~Idle(u) /\ Now(u).op \in {"copy", "log"}
      /\ \A s \in SpecIndex :
           \/ Agrees(logged[s].config, s) /\ logged[s].slopes = LoggedSlopes(s, config[s])
           \/ \E u \in Thread : ToCopy(u, s)
           \/ \E u \in Thread : Logging(u, s)
      /\ \A u \in Thread, s \in SpecIndex :
           Logging(u, s) => Agrees(Now(u).copy, s) \/ \E v \in Thread : ToCopy(v, s)
  BY DEF LogInv
<1>3. ~Idle(t)' => x.op # "log" /\ (x.op = "copy" <=> h.op = "dataLock")
  <2>1. ~Idle(t)' /\ x.op = "copy" => h.op = "dataLock"
    BY <1>1, NextPends
  <2>2. ~Idle(t)' /\ h.op = "dataLock" => x.op = "copy"
    BY <1>1, NextIs
  <2>3. ~Idle(t)' => x.op # "log"
    BY <1>1, NextPends
  <2>4. QED  BY <2>1, <2>2, <2>3
<1>4. \A u \in Thread : dataMutex' = u <=> ~Idle(u)' /\ Now(u)'.op \in {"copy", "log"}
  <2>1. CASE h.op = "dataLock"
    <3>1. ~Idle(t)' /\ x.op = "copy"
      BY <1>1, <1>3, <2>1, EndsIs
    <3>2. \A u \in Thread : dataMutex # u
      BY <2>1, ThreadAssumption
    <3>3. QED  BY <1>1, <1>2, <2>1, <3>1, <3>2
  <2>2. CASE h.op # "dataLock"
    BY <1>1, <1>2, <1>3, <2>2
  <2>3. QED  BY <2>1, <2>2
<1>5. \A u \in Thread \ {t}, s \in SpecIndex :
        (ToCopy(u, s)' <=> ToCopy(u, s)) /\ (Logging(u, s)' <=> Logging(u, s))
  BY <1>1 DEF ToCopy, Logging
<1>6. \A s \in SpecIndex : ~Logging(t, s) /\ ~Logging(t, s)'
  BY <1>3 DEF Logging
<1>7. ASSUME NEW s \in SpecIndex, ToCopy(t, s)
      PROVE  ToCopy(t, s)'
  <2>1. Pends(h) \/ Writes(h) \/ h.op = "dataLock"
    BY <1>7 DEF ToCopy
  <2>2. ~Idle(t)'
    BY <1>1, <2>1, EndsIs
  <2>3. Pends(x) \/ Writes(x) \/ x.op = "dataLock" \/ (x.op = "copy" /\ x.spec = 1)
    <3>1. CASE Pends(h) /\ h.op # "open"
      BY <1>1, <2>2, <3>1, NextPends
    <3>2. CASE h.op = "open"
      BY <1>1, <2>2, <3>2, NextIs DEF Writes
    <3>3. CASE Writes(h)
      <4>1. h.op \in {"lock", "print", "close"}
        BY <3>3 DEF Writes
      <4>2. x.op \in {"print", "close", "dataLock"}
        BY <1>1, <2>2, <4>1, NextIs
      <4>3. QED  BY <4>2 DEF Writes
    <3>4. CASE h.op = "dataLock"
      BY <1>1, <2>2, <3>4, NextIs
    <3>5. QED  BY <2>1, <3>1, <3>2, <3>3, <3>4
  <2>4. 1 <= s
    BY SizeAssumption DEF SpecIndex
  <2>5. QED  BY <2>2, <2>3, <2>4 DEF ToCopy
<1>8. \A s \in SpecIndex, u \in Thread : ToCopy(u, s) => ToCopy(u, s)'
  BY <1>5, <1>7
<1>9. ASSUME NEW s \in SpecIndex, ~ToCopy(t, s)
      PROVE  /\ \A a : Agrees(a, s) => Agrees(a, s)'
             /\ LoggedSlopes(s, config'[s]) = LoggedSlopes(s, config[s])
  <2>1. ~Pends(h) /\ ~Sets(h) /\ ~Applies(h)
    BY <1>1, <1>9 DEF ToCopy, Pends
  <2>2. h.op \notin {"entry", "force", "store", "storeNon"}
    BY <2>1 DEF Applies, Overrides
  <2> HIDE DEF h
  <2>3. /\ \A a : Differ(a, Copied(config[s])) \subseteq Unsaved(s, "log") =>
                    Differ(a, Copied(config'[s])) \subseteq Unsaved(s, "log")'
        /\ LoggedSlopes(s, config'[s]) = LoggedSlopes(s, config[s])
    BY <2>1, <2>2, AgreesStill DEF h
  <2>4. ASSUME NEW a, Agrees(a, s)  PROVE Agrees(a, s)'
    BY <2>3, <2>4 DEF Agrees
  <2>5. QED  BY <2>3, <2>4
<1>10. ASSUME NEW s \in SpecIndex
       PROVE  (\/ Agrees(logged[s].config, s) /\ logged[s].slopes = LoggedSlopes(s, config[s])
               \/ \E u \in Thread : ToCopy(u, s)
               \/ \E u \in Thread : Logging(u, s))'
  <2>1. CASE \E u \in Thread : ToCopy(u, s)
    BY <1>8, <2>1
  <2>2. CASE \E u \in Thread : Logging(u, s)
    BY <1>5, <1>6, <2>2
  <2>3. CASE /\ Agrees(logged[s].config, s) /\ logged[s].slopes = LoggedSlopes(s, config[s])
             /\ ~ToCopy(t, s)
    <3>1. Agrees(logged[s].config, s)'
      <4>1. \A a : a = logged[s].config => Agrees(a, s)'
        BY <1>9, <2>3
      <4>2. logged'[s].config = logged[s].config
        OBVIOUS
      <4>3. QED  BY <4>1, <4>2 DEF Agrees
    <3>2. logged'[s].slopes = LoggedSlopes(s, config'[s])
      BY <1>9, <2>3
    <3>3. QED  BY <3>1, <3>2
  <2>4. QED  BY <1>2, <2>1, <2>2, <2>3
<1>11. ASSUME NEW u \in Thread, NEW s \in SpecIndex, Logging(u, s)'
       PROVE  Agrees(Now(u).copy, s)' \/ \E v \in Thread : ToCopy(v, s)'
  <2>1. u \in Thread \ {t} /\ Logging(u, s) /\ Now(u)' = Now(u)
    BY <1>1, <1>5, <1>6, <1>11
  <2>2. CASE \E v \in Thread : ToCopy(v, s)
    BY <1>8, <2>2
  <2>3. CASE Agrees(Now(u).copy, s) /\ ~ToCopy(t, s)
    <3>1. \A a : a = Now(u).copy => Agrees(a, s)'
      BY <1>9, <2>3
    <3>2. Agrees(Now(u).copy, s)'
      BY <2>1, <3>1 DEF Agrees
    <3>3. QED  BY <3>2
  <2>4. QED  BY <1>2, <2>1, <2>2, <2>3
<1>12. QED  BY <1>4, <1>10, <1>11 DEF LogInv

\* A thread that is alone has printed whatever it has passed.
LEMMA AloneKept ==
  ASSUME PlanInv, AloneInv, NEW t \in Thread, OnlyMoves(t), alone' = alone,
         ~alone => raced' = raced,
         Now(t).op = "open" => closes' = 0, Now(t).op \in {"lock", "print"} => closes' = closes,
         Now(t).op = "print" =>
           \A s \in SpecIndex : "file" \in behind'[s] => "file" \in behind[s] /\ s # Now(t).spec
  PROVE  AloneInv'
<1> DEFINE h == Now(t)
           x == Now(t)'
<1>1. /\ ~Idle(t) /\ StepFits(h) /\ (Idle(t)' => Ends(h))
      /\ ~Idle(t)' => StepFits(x) /\ Succeeds(h, x)
      /\ \A u \in Thread \ {t} : Idle(u)' = Idle(u) /\ Now(u)' = Now(u)
  BY MovedIs
<1>2. alone => \A u \in Thread : ~Idle(u)' => u = t
  <2>1. alone => \A u \in Thread : ~Idle(u) => u = t
    BY <1>1 DEF AloneInv
  <2>2. QED  BY <1>1, <2>1
<1>3. alone' => \A u, v \in Thread : ~Idle(u)' /\ ~Idle(v)' => u = v
  BY <1>2
<1>4. ~alone' => {"file", "pixels"} \subseteq raced'
  BY DEF AloneInv
<1>5. ASSUME alone, NEW u \in Thread, Saving(u)'
      PROVE  /\ closes' = 0
             /\ Now(u)'.op = "print" => \A s \in 1..Now(u)'.spec - 1 : "file" \notin behind'[s]
             /\ Now(u)'.op = "close" => \A s \in SpecIndex : "file" \notin behind'[s]
  <2>1. u = t /\ ~Idle(t)' /\ Writes(x)
    <3>1. ~Idle(u)' /\ Writes(Now(u)')
      BY <1>5 DEF Saving
    <3>2. u = t
      BY <1>2, <1>5, <3>1
    <3>3. QED  BY <3>1, <3>2
  <2>2. x.op \in {"lock", "print", "close"}
    BY <2>1 DEF Writes
  <2>3. h.op \in {"open", "lock", "print"}
    BY <1>1, <2>1, <2>2, NextPends
  <2>4. CASE h.op = "open"
    <3>1. x.op = "lock"
      BY <1>1, <2>1, <2>4, NextIs
    <3>2. QED  BY <2>1, <2>4, <3>1
  <2>5. CASE h.op \in {"lock", "print"}
    <3>1. Saving(t)
      BY <1>1, <2>5 DEF Saving, Writes
    <3>2. closes' = 0
      BY <1>5, <2>5, <3>1 DEF AloneInv
    <3>3. CASE h.op = "lock"
      <4>1. x.op = "print" /\ x.spec = 1
        BY <1>1, <2>1, <3>3, NextIs
      <4>2. \A s \in 1..x.spec - 1 : FALSE
        BY <4>1
      <4>3. QED  BY <2>1, <3>2, <4>1, <4>2
    <3>4. CASE h.op = "print"
      <4>1. IF h.spec = NumSpecs THEN x.op = "close" ELSE x.op = "print" /\ x.spec = h.spec + 1
        BY <1>1, <2>1, <3>4, NextIs
      <4>2. h.spec \in 1..NumSpecs /\ NumSpecs \in Nat /\ SpecIndex = 1..NumSpecs
        BY <1>1, <3>4, SizeAssumption DEF StepFits, SpecIndex
      <4>3. \A s \in 1..h.spec - 1 : "file" \notin behind[s]
        BY <1>5, <3>1, <3>4 DEF AloneInv
      <4>4. \A s \in 1..h.spec : "file" \notin behind'[s]
        <5>1. \A s \in 1..h.spec : s \in SpecIndex /\ (s = h.spec \/ s \in 1..h.spec - 1)
          BY <4>2
        <5>2. QED  BY <3>4, <4>3, <5>1
      <4>5. CASE h.spec = NumSpecs
        BY <2>1, <3>2, <4>1, <4>2, <4>4, <4>5
      <4>6. CASE h.spec # NumSpecs
        <5>1. x.op = "print" /\ x.spec - 1 = h.spec
          BY <4>1, <4>2, <4>6
        <5>2. QED  BY <2>1, <3>2, <4>4, <5>1
      <4>7. QED  BY <4>5, <4>6
    <3>5. QED  BY <2>5, <3>3, <3>4
  <2>6. QED  BY <2>3, <2>4, <2>5
<1>6. (alone => \A u \in Thread : Saving(u) =>
         /\ closes = 0
         /\ Now(u).op = "print" => \A s \in 1..Now(u).spec - 1 : "file" \notin behind[s]
         /\ Now(u).op = "close" => \A s \in SpecIndex : "file" \notin behind[s])'
  BY <1>5
<1>7. QED  BY <1>3, <1>4, <1>6 DEF AloneInv

\* While nothing is written or truncated, what is printed stays what memory has or will be
\* printed again.
LEMMA SaveKept ==
  ASSUME PlanInv, SaveInv, NEW t \in Thread, OnlyMoves(t), Effect(t), Marks(t),
         StaysBehind("file"), UNCHANGED <<file, mutex, buffer, closes>>, ~Writes(Now(t)), Now(t).op # "open",
         mode' = mode \/ (~Idle(t)' /\ Now(t)'.op = "open")
  PROVE  SaveInv'
<1> DEFINE h == Now(t)
           x == Now(t)'
<1>1. /\ ~Idle(t) /\ StepFits(h) /\ (Idle(t)' => Ends(h))
      /\ ~Idle(t)' => StepFits(x) /\ Succeeds(h, x)
      /\ \A u \in Thread \ {t} : Idle(u)' = Idle(u) /\ Now(u)' = Now(u)
  BY MovedIs
<1>2. ~Idle(t)' => ~Writes(x) /\ x.op \notin {"lock", "print", "close"}
  <2>1. ~Idle(t)' => x.op \notin {"lock", "print", "close"}
    BY <1>1, NextPends DEF Writes
  <2>2. QED  BY <2>1 DEF Writes
<1>3. \A u \in Thread : Saving(u)' <=> Saving(u)
  BY <1>1, <1>2 DEF Saving
<1>4. \A u \in Thread \ {t} : ToSave(u)' <=> ToSave(u)
  BY <1>1 DEF ToSave
<1>5. \/ ToSave(t)'
      \/ /\ ~ToSave(t) /\ mode' = mode
         /\ \A s \in SpecIndex : \A a :
              Differ(a, Saved(s, config[s])) \subseteq Unsaved(s, "file") =>
                Differ(a, Saved(s, config'[s])) \subseteq Unsaved(s, "file")'
  <2>1. CASE Pends(h)
    <3>1. ~Idle(t)'
      BY <1>1, <2>1, EndsIs
    <3>2. Pends(x)
      BY <1>1, <2>1, <3>1, NextPends
    <3>3. QED  BY <3>1, <3>2 DEF ToSave
  <2>2. CASE ~Pends(h)
    <3>1. ~ToSave(t) /\ ~Sets(h) /\ h.op \notin {"entry", "force", "store", "storeNon"}
      BY <2>2 DEF ToSave, Pends, Applies, Overrides
    <3>2. \A s \in SpecIndex :
            \A a : Differ(a, Saved(s, config[s])) \subseteq Unsaved(s, "file") =>
                    Differ(a, Saved(s, config'[s])) \subseteq Unsaved(s, "file")'
      BY <3>1, AgreesStill
    <3>3. CASE mode' = mode
      BY <3>1, <3>2, <3>3
    <3>4. CASE ~Idle(t)' /\ x.op = "open"
      <4>1. Pends(x)
        BY <3>4 DEF Pends
      <4>2. QED  BY <3>4, <4>1 DEF ToSave
    <3>5. QED  BY <3>3, <3>4
  <2>3. QED  BY <2>1, <2>2
<1>6. ASSUME \A u \in Thread : ~ToSave(u)'
      PROVE  /\ \A u \in Thread : ~ToSave(u)
             /\ \A text, k : k \in 0..NumSpecs => (Printed(text, k) => Printed(text, k)')
  <2>1. /\ ~ToSave(t) /\ mode' = mode
        /\ \A s \in SpecIndex : \A a :
             Differ(a, Saved(s, config[s])) \subseteq Unsaved(s, "file") =>
               Differ(a, Saved(s, config'[s])) \subseteq Unsaved(s, "file")'
    BY <1>5, <1>6
  <2>2. \A u \in Thread : ~ToSave(u)
    BY <1>4, <1>6, <2>1
  <2>3. \A k \in 0..NumSpecs : \A s \in 1..k : s \in SpecIndex
    BY SizeAssumption DEF SpecIndex
  <2>4. ASSUME NEW text, NEW k \in 0..NumSpecs, Printed(text, k)
        PROVE  Printed(text, k)'
    BY <2>1, <2>3, <2>4 DEF Printed
  <2>5. QED  BY <2>2, <2>4
<1>7. \A u \in Thread : mutex' = u <=> ~Idle(u)' /\ Now(u)'.op \in {"print", "close"}
  <2>1. \A u \in Thread : mutex = u <=> ~Idle(u) /\ Now(u).op \in {"print", "close"}
    BY DEF SaveInv
  <2>2. h.op \notin {"print", "close"}
    BY DEF Writes
  <2>3. QED  BY <1>1, <1>2, <2>1, <2>2
<1>8. closes' = 0 /\ (\E u \in Thread : Saving(u)') => file' = <<>>
  BY <1>3 DEF SaveInv
<1>9. ASSUME closes' = 0, \A u \in Thread : ~ToSave(u)',
             NEW u \in Thread, Saving(u)', \A v \in Thread : Saving(v)' => v = u
      PROVE  /\ Now(u)'.op = "print" => Printed(buffer[u], Now(u).spec - 1)'
             /\ Now(u)'.op = "close" => Printed(buffer[u], NumSpecs)'
  <2>1. u # t /\ Saving(u) /\ \A v \in Thread : Saving(v) => v = u
    BY <1>3, <1>9 DEF Saving
  <2>2. Now(u)' = Now(u)
    BY <1>1, <2>1
  <2>3. /\ Now(u).op = "print" => Printed(buffer[u], Now(u).spec - 1)
        /\ Now(u).op = "close" => Printed(buffer[u], NumSpecs)
    BY <1>6, <1>9, <2>1 DEF SaveInv
  <2>4. Now(u).op = "print" => Now(u).spec - 1 \in 0..NumSpecs
    <3>1. StepFits(Now(u))
      <4>1. Plan(todo[u]) /\ todo[u] # <<>>
        BY <2>1 DEF PlanInv, Saving, Idle
      <4>2. QED  BY <4>1, PlanIs DEF Now
    <3>2. NumSpecs \in Nat
      BY SizeAssumption
    <3>3. Now(u).op = "print" => Now(u).spec \in 1..NumSpecs
      BY <3>1 DEF StepFits, SpecIndex
    <3>4. QED  BY <3>2, <3>3
  <2>5. NumSpecs \in 0..NumSpecs
    BY SizeAssumption
  <2>6. \A text, k : k \in 0..NumSpecs => (Printed(text, k) => Printed(text, k)')
    BY <1>6, <1>9
  <2>7. buffer'[u] = buffer[u]
    OBVIOUS
  <2>8. Now(u).op = "print" => Printed(buffer[u], Now(u).spec - 1)'
    <3> SUFFICES ASSUME Now(u).op = "print"  PROVE Printed(buffer[u], Now(u).spec - 1)'
      OBVIOUS
    <3>1. /\ readConfig(buffer[u]).mode = mode'
          /\ \A s \in 1..Now(u).spec - 1 :
               Differ(Saved(s, readConfig(buffer[u]).config[s]), Saved(s, config'[s]))
                 \subseteq Unsaved(s, "file")'
      BY <2>3, <2>4, <2>6 DEF Printed
    <3>2. QED  BY <2>2, <2>7, <3>1 DEF Printed
  <2>9. Now(u).op = "close" => Printed(buffer[u], NumSpecs)'
    <3> SUFFICES ASSUME Now(u).op = "close"  PROVE Printed(buffer[u], NumSpecs)'
      OBVIOUS
    <3>1. /\ readConfig(buffer[u]).mode = mode'
          /\ \A s \in 1..NumSpecs :
               Differ(Saved(s, readConfig(buffer[u]).config[s]), Saved(s, config'[s]))
                 \subseteq Unsaved(s, "file")'
      BY <2>3, <2>5, <2>6 DEF Printed
    <3>2. QED  BY <2>7, <3>1 DEF Printed
  <2>10. QED  BY <2>2, <2>8, <2>9
<1>10. ASSUME closes' = 1, \A u \in Thread : ~ToSave(u)' /\ ~Saving(u)'
       PROVE  Printed(file, NumSpecs)'
  <2>1. Printed(file, NumSpecs)
    BY <1>3, <1>6, <1>10 DEF SaveInv
  <2>2. NumSpecs \in 0..NumSpecs
    BY SizeAssumption
  <2>3. /\ readConfig(file).mode = mode'
        /\ \A s \in 1..NumSpecs :
             Differ(Saved(s, readConfig(file).config[s]), Saved(s, config'[s]))
               \subseteq Unsaved(s, "file")'
    <3>1. \A u \in Thread : ~ToSave(u)'
      BY <1>10
    <3>2. \A text, k : k \in 0..NumSpecs => (Printed(text, k) => Printed(text, k)')
      BY <1>6, <3>1
    <3>3. QED  BY <2>1, <2>2, <3>2 DEF Printed
  <2>4. QED  BY <2>3 DEF Printed
<1>11. QED
  <2>1. (\A u \in Thread : mutex = u <=> ~Idle(u) /\ Now(u).op \in {"print", "close"})'
    BY <1>7
  <2>2. (closes = 0 /\ (\E u \in Thread : Saving(u)) => file = <<>>)'
    BY <1>8
  <2>3. (closes = 0 /\ (\A u \in Thread : ~ToSave(u)) =>
           \A u \in Thread : Saving(u) /\ (\A v \in Thread : Saving(v) => v = u) =>
             /\ Now(u).op = "print" => Printed(buffer[u], Now(u).spec - 1)
             /\ Now(u).op = "close" => Printed(buffer[u], NumSpecs))'
    BY <1>9
  <2>4. (closes = 1 /\ (\A u \in Thread : ~ToSave(u) /\ ~Saving(u)) => Printed(file, NumSpecs))'
    BY <1>10
  <2>5. QED  BY <2>1, <2>2, <2>3, <2>4 DEF SaveInv

\* What a process that dies leaves, while nothing is truncated or closed.
LEMMA CrashKept ==
  ASSUME PlanInv, AloneInv, CrashInv, NEW t \in Thread, OnlyMoves(t), Effect(t), file' = file,
         "file" \notin raced' => "file" \notin raced, Now(t).op \notin {"open", "close"},
         before' = IF Now(t).op = "cal" /\ Now(t).j = 1 THEN Loaded ELSE before
  PROVE  CrashInv'
<1> DEFINE h == Now(t)
           x == Now(t)'
<1> SUFFICES ASSUME "file" \notin raced'
             PROVE  /\ (\A u \in Thread : Idle(u)') => Loaded' = before' \/ Loaded' = AllSaved(config')
                    /\ \A u \in Thread : ~Idle(u)' =>
                         IF Logs(Now(u)') THEN Loaded' = AllSaved(config')
                         ELSE \/ Writes(Now(u)') \/ Loaded' = before'
                              \/ Now(u)'.op = "cal" /\ Now(u)'.j = 1 /\ Loaded' = AllSaved(config')
  BY DEF CrashInv, Quiet
<1>1. /\ ~Idle(t) /\ StepFits(h) /\ (Idle(t)' => Ends(h))
      /\ ~Idle(t)' => StepFits(x) /\ Succeeds(h, x)
      /\ \A u \in Thread \ {t} : Idle(u)' = Idle(u) /\ Now(u)' = Now(u)
  BY MovedIs
<1>2. alone /\ "file" \notin raced
  BY DEF AloneInv
<1>3. Loaded' = Loaded
  BY DEF Loaded, AllSaved, Saved
<1>4. \A u \in Thread \ {t} : Idle(u)'
  <2>1. \A u \in Thread : ~Idle(u) => u = t
    BY <1>1, <1>2 DEF AloneInv
  <2>2. QED  BY <1>1, <2>1
<1>5. IF Logs(h) THEN Loaded = AllSaved(config)
      ELSE \/ Writes(h) \/ Loaded = before
           \/ h.op = "cal" /\ h.j = 1 /\ Loaded = AllSaved(config)
  BY <1>1, <1>2 DEF CrashInv
<1> SUFFICES /\ Idle(t)' => Loaded' = before' \/ Loaded' = AllSaved(config')
             /\ ~Idle(t)' =>
                  IF Logs(x) THEN Loaded' = AllSaved(config')
                  ELSE \/ Writes(x) \/ Loaded' = before'
                       \/ x.op = "cal" /\ x.j = 1 /\ Loaded' = AllSaved(config')
  BY <1>4
<1>6. CASE Logs(h)
  <2>1. h.op \in {"dataLock", "copy", "log"}
    BY <1>6 DEF Logs
  <2>2. ~Sets(h) /\ ~Tunes(h)
    BY <2>1, SetsIs
  <2>3. AllSaved(config') = AllSaved(config)
    <3>1. \A s \in SpecIndex : config'[s] = config[s]
      BY <2>1, <2>2 DEF Effect, Turns
    <3>2. QED  BY <3>1 DEF AllSaved
  <2>4. ~Idle(t)' => Logs(x) \/ (x.op = "cal" /\ x.j = 1 /\ ~Logs(x))
    <3> SUFFICES ASSUME ~Idle(t)'  PROVE Logs(x) \/ (x.op = "cal" /\ x.j = 1 /\ ~Logs(x))
      OBVIOUS
    <3>1. x.op \in {"copy", "log"} \/ (x.op = "cal" /\ x.j = 1)
      BY <1>1, <2>1, NextIs
    <3>2. QED  BY <3>1 DEF Logs
  <2> HIDE DEF h, x
  <2>5. QED  BY <1>3, <1>5, <1>6, <2>3, <2>4
<1>7. CASE Writes(h)
  <2>1. h.op \in {"lock", "print"} /\ ~Idle(t)'
    BY <1>1, <1>7, EndsIs DEF Writes
  <2>2. x.op \in {"print", "close"}
    BY <1>1, <2>1, NextIs
  <2>3. Writes(x) /\ ~Logs(x)
    BY <2>2 DEF Writes, Logs
  <2>4. QED  BY <2>1, <2>3
<1>8. CASE ~Logs(h) /\ ~Writes(h)
  <2>1. Loaded' = before'
    BY <1>3, <1>5, <1>8
  <2>2. ~Idle(t)' => ~Logs(x)
    <3>1. ~Idle(t)' /\ Logs(x) => h.op \in {"close", "dataLock", "copy", "log"}
      BY <1>1, NextPends DEF Logs
    <3>2. QED  BY <1>8, <3>1 DEF Logs, Writes
  <2>3. QED  BY <2>1, <2>2
<1>9. QED  BY <1>6, <1>7, <1>8

\* The pixels of the wavelengths in use are found, one after the other.
LEMMA FoundMore ==
  ASSUME NEW s, NEW c, Shape(c), NEW d, NEW j \in Nat \ {0},
         j <= c.count, Found(s, c, j - 1), SameBut(c, d, {"pixels"}),
         d.pixels = [c.pixels EXCEPT ![j] = calcPixelValueForWavelength(s, c.waves[j])]
  PROVE  Found(s, d, j)
<1> DEFINE p == calcPixelValueForWavelength(s, c.waves[j])
<1>1. d.count = c.count /\ d.waves = c.waves
  BY DEF SameBut, Blank
<1>2. /\ c.count \in 0..MaxAbsWaves /\ MaxAbsWaves \in Nat
      /\ c.pixels = [i \in 1..MaxAbsWaves |-> c.pixels[i]]
  BY SizeAssumption DEF Shape
<1>3. \A i \in 1..j - 1 : i <= c.count => c.pixels[i] = calcPixelValueForWavelength(s, c.waves[i])
  BY DEF Found
<1> SUFFICES ASSUME NEW i \in 1..j, i <= c.count
             PROVE  d.pixels[i] = calcPixelValueForWavelength(s, c.waves[i])
  BY <1>1 DEF Found
<1>4. i \in 1..MaxAbsWaves
  BY <1>2
<1>5. CASE i = j
  <2>1. d.pixels[i] = p
    <3> HIDE DEF p
    <3>1. d.pixels = [c.pixels EXCEPT ![j] = p]
      BY DEF p
    <3>2. QED  BY <1>2, <1>4, <1>5, <3>1
  <2>2. QED  BY <1>5, <2>1
<1>6. CASE i # j
  <2>1. d.pixels[i] = c.pixels[i]
    <3> HIDE DEF p
    <3>1. d.pixels = [c.pixels EXCEPT ![j] = p]
      BY DEF p
    <3>2. QED  BY <1>2, <1>4, <1>6, <3>1
  <2>2. i \in 1..j - 1
    BY <1>6
  <2>3. QED  BY <1>3, <2>1, <2>2
<1>7. QED  BY <1>5, <1>6

\* What the loop over the wavelengths reads.
Reads(h, x, c) ==
  /\ x.spec = h.spec
  /\ h.j <= c.count => x.op = "store" /\ x.j = h.j /\ x.w = c.waves[h.j]
  /\ ~(h.j <= c.count) => x.op = "storeNon" /\ x.w = c.nonAbs

LEMMA LookingNext ==
  ASSUME NEW cs, NEW ds, NEW h, StepFits(h), NEW x, StepFits(x), Succeeds(h, x),
         \A s \in SpecIndex : Shape(cs[s]) /\ Turns(h, s, cs[s], ds[s]),
         Applies(h) => Looking(h, cs), h.op = "pixel" => Reads(h, x, cs[h.spec])
  PROVE  /\ Applies(x) => Looking(x, ds)
         /\ h.op = "storeNon" /\ x.op = "open" => \A s \in SpecIndex : FollowIn(s, ds[s])
<1>0. SpecIndex = 1..NumSpecs /\ NumSpecs \in Nat
  BY SizeAssumption DEF SpecIndex
<1>1. \/ Sets(h) /\ Dwells(h)
      \/ (Sets(h) /\ ~Dwells(h)) \/ Tunes(h)
      \/ Overrides(h) \/ h.op \in {"pixel", "store", "storeNon"}
      \/ h.op \in {"lock", "print", "close", "mode", "open", "dataLock", "copy", "log"}
  BY DEF StepFits, Applies, Writes, Logs
<1>2. \A s \in SpecIndex : h.spec # s => ds[s] = cs[s]
  BY DEF Turns
<1>3. Applies(x) => /\ x.op \in {"override", "entry", "force", "rest", "pixel", "store", "storeNon"}
                    /\ ~Sets(x)
  <2>1. Applies(x) => x.op \in {"override", "entry", "force", "rest", "pixel", "store", "storeNon"}
    BY DEF Applies, Overrides
  <2>2. QED  BY <2>1, SetsIs
<1>4. CASE Sets(h) /\ Dwells(h)
  <2>1. x.op = "open" /\ h.op = "put"
    BY <1>4, NextIs, DwellsIs
  <2>2. QED  BY <1>3, <2>1
<1>5. CASE (Sets(h) /\ ~Dwells(h)) \/ Tunes(h)
  <2>1. \/ Sets(x) \/ Tunes(x)
        \/ x.op = "override" /\ x.spec = 1
    BY <1>5, NextIs
  <2>2. h.op # "storeNon"
    BY <1>5, SetsIs
  <2>3. CASE Sets(x) \/ Tunes(x)
    <3>1. Tunes(x) => x.op = "put"
      BY SetsIs
    <3>2. QED  BY <1>3, <2>2, <2>3, <3>1
  <2>4. CASE x.op = "override" /\ x.spec = 1
    <3>1. \A s \in 1..x.spec - 1 : FALSE
      BY <2>4
    <3>2. Looking(x, ds)
      BY <2>4, <3>1 DEF Looking
    <3>3. QED  BY <2>2, <3>2
  <2>5. QED  BY <2>1, <2>3, <2>4
<1>6. CASE Overrides(h) \/ h.op \in {"pixel", "store", "storeNon"}
  <2> DEFINE z == h.spec
             c == cs[z]
             d == ds[z]
  <2>1. z \in 1..NumSpecs /\ Applies(h)
    <3>1. Applies(h)
      BY <1>6 DEF Applies
    <3>2. QED  BY <1>0, <1>6, <3>1 DEF StepFits, Overrides
  <2>2. Shape(c) /\ Turns(h, z, c, d)
    BY <1>0, <2>1
  <2>3. /\ \A s \in 1..z - 1 : FollowIn(s, cs[s])
        /\ h.op \in {"pixel", "store"} => Found(z, c, h.j - 1)
        /\ h.op = "store" => h.j <= c.count /\ h.w = c.waves[h.j]
        /\ h.op = "storeNon" => Found(z, c, c.count) /\ h.w = c.nonAbs
    BY <2>1 DEF Looking
  <2>4. \A s \in 1..z - 1 : FollowIn(s, ds[s])
    <3>1. \A s \in 1..z - 1 : s \in SpecIndex /\ s # z
      BY <1>0, <2>1
    <3>2. QED  BY <1>2, <2>3, <3>1
  <2> HIDE DEF c, d
  <2>5. CASE Overrides(h)
    <3>1. /\ x.spec = z /\ h.op # "storeNon"
          /\ x.op \in {"entry", "force", "rest"} \/ (x.op = "pixel" /\ x.j = 1)
      BY <2>5, NextIs DEF Overrides
    <3>2. x.op = "pixel" => Found(z, d, x.j - 1)
      <4>1. x.op = "pixel" => \A i \in 1..x.j - 1 : FALSE
        BY <3>1
      <4>2. QED  BY <4>1 DEF Found
    <3>3. Looking(x, ds)
      BY <2>4, <3>1, <3>2 DEF Looking, d
    <3>4. QED  BY <3>1, <3>3
  <2>6. CASE h.op = "pixel"
    <3>1. d = c
      <4>1. ~Sets(h) /\ ~Tunes(h)
        BY <2>6, SetsIs
      <4>2. QED  BY <2>2, <2>6, <4>1 DEF Turns
    <3>2. /\ x.spec = z
          /\ h.j <= c.count => x.op = "store" /\ x.j = h.j /\ x.w = c.waves[h.j]
          /\ ~(h.j <= c.count) => x.op = "storeNon" /\ x.w = c.nonAbs
      BY <2>6 DEF Reads, c
    <3>3. Found(z, c, h.j - 1)
      BY <2>3, <2>6
    <3>4. CASE h.j <= c.count
      <4>1. x.op = "store" /\ Found(z, d, x.j - 1) /\ x.j <= d.count /\ x.w = d.waves[x.j]
        BY <3>1, <3>2, <3>3, <3>4
      <4>2. Looking(x, ds)
        BY <2>4, <3>2, <4>1 DEF Looking, d
      <4>3. QED  BY <2>6, <4>2
    <3>5. CASE ~(h.j <= c.count)
      <4>1. Found(z, c, c.count)
        <5>1. h.j \in Nat \ {0} /\ c.count \in Nat
          BY <2>2, <2>6, SizeAssumption DEF StepFits, Shape
        <5>2. \A i \in 1..c.count : i \in 1..h.j - 1
          BY <3>5, <5>1
        <5>3. QED  BY <3>3, <5>2 DEF Found
      <4>2. x.op = "storeNon" /\ Found(z, d, d.count) /\ x.w = d.nonAbs
        BY <3>1, <3>2, <3>5, <4>1
      <4>3. Looking(x, ds)
        BY <2>4, <3>2, <4>2 DEF Looking, d
      <4>4. QED  BY <2>6, <4>3
    <3>6. QED  BY <3>4, <3>5
  <2>7. CASE h.op = "store"
    <3>1. x.op = "pixel" /\ x.spec = z /\ x.j = h.j + 1 /\ h.j \in Nat \ {0}
      BY <2>7, NextIs DEF StepFits
    <3>2. /\ SameBut(c, d, {"pixels"})
          /\ d.pixels = [c.pixels EXCEPT ![h.j] = calcPixelValueForWavelength(z, h.w)]
      BY <2>2, <2>7 DEF Turns
    <3>3. Found(z, c, h.j - 1) /\ h.j <= c.count /\ h.w = c.waves[h.j]
      BY <2>3, <2>7
    <3>4. Found(z, d, h.j)
      <4>1. d.pixels = [c.pixels EXCEPT ![h.j] = calcPixelValueForWavelength(z, c.waves[h.j])]
        BY <3>2, <3>3
      <4>2. QED  BY <2>2, <3>1, <3>2, <3>3, <4>1, FoundMore
    <3>5. x.j - 1 = h.j
      BY <3>1
    <3>6. Looking(x, ds)
      BY <2>4, <3>1, <3>4, <3>5 DEF Looking, d
    <3>7. QED  BY <2>7, <3>6
  <2>8. CASE h.op = "storeNon"
    <3>1. SameBut(c, d, {"nonAbsPixel"}) /\ d.nonAbsPixel = calcPixelValueForWavelength(z, h.w)
      BY <2>2, <2>8 DEF Turns
    <3>2. Found(z, c, c.count) /\ h.w = c.nonAbs
      BY <2>3, <2>8
    <3>3. FollowIn(z, d)
      <4>1. /\ d.count = c.count /\ d.waves = c.waves /\ d.nonAbs = c.nonAbs /\ d.pixels = c.pixels
        BY <3>1 DEF SameBut, Blank
      <4>2. c.count \in Nat
        BY <2>2, SizeAssumption DEF Shape
      <4>3. \A i \in 1..c.count : c.pixels[i] = calcPixelValueForWavelength(z, c.waves[i])
        BY <3>2, <4>2 DEF Found
      <4>4. QED  BY <3>1, <3>2, <4>1, <4>3 DEF FollowIn
    <3>4. \A s \in 1..z : FollowIn(s, ds[s])
      <4>1. \A s \in 1..z : s = z \/ s \in 1..z - 1
        BY <2>1
      <4>2. QED  BY <2>4, <3>3, <4>1 DEF d
    <3>5. IF z = NumSpecs THEN x.op = "open" ELSE x.op = "override" /\ x.spec = z + 1
      BY <2>8, NextIs
    <3>6. CASE z = NumSpecs
      BY <1>0, <1>3, <3>4, <3>5, <3>6
    <3>7. CASE z # NumSpecs
      <4>1. x.op = "override" /\ x.spec - 1 = z
        BY <2>1, <3>5, <3>7
      <4>2. Looking(x, ds)
        BY <3>4, <4>1 DEF Looking
      <4>3. QED  BY <4>1, <4>2
    <3>8. QED  BY <3>6, <3>7
  <2>9. QED  BY <1>6, <2>5, <2>6, <2>7, <2>8
<1>7. CASE h.op \in {"lock", "print", "close", "mode", "open", "dataLock", "copy", "log"}
  <2>1. x.op \notin {"override", "entry", "force", "rest", "pixel", "store", "storeNon"}
    <3>1. h.op \in {"lock", "print", "close"} => x.op \in {"print", "close", "dataLock"}
      BY NextIs
    <3>2. h.op \in {"mode", "open", "dataLock"} => x.op \in {"open", "lock", "copy"}
      BY NextIs
    <3>3. h.op \in {"copy", "log"} => x.op \in {"log", "cal", "copy"}
      BY NextIs
    <3>4. QED  BY <1>7, <3>1, <3>2, <3>3
  <2>2. QED  BY <1>3, <1>7, <2>1
<1>8. QED  BY <1>1, <1>4, <1>5, <1>6, <1>7

LEMMA PixelKept ==
  ASSUME PlanInv, AloneInv, PixelInv, NEW t \in Thread, OnlyMoves(t), Effect(t), alone' = alone,
         "pixels" \in raced /\ "pixels" \notin raced' =>
           Now(t).op = "storeNon" /\ Now(t).spec = NumSpecs,
         Now(t).op = "pixel" => ~Idle(t)' /\ Reads(Now(t), Now(t)', config[Now(t).spec])
  PROVE  PixelInv'
<1> SUFFICES ASSUME alone'
             PROVE  /\ "pixels" \notin raced' /\ (\A u \in Thread : KeepsPixels(u)') =>
                         \A s \in SpecIndex : FollowIn(s, config'[s])
                    /\ \A u \in Thread : ~Idle(u)' /\ Applies(Now(u)') => Looking(Now(u)', config')
  BY DEF PixelInv, Follow
<1> DEFINE h == Now(t)
           x == Now(t)'
<1>1. /\ ~Idle(t) /\ StepFits(h) /\ (Idle(t)' => Ends(h))
      /\ ~Idle(t)' => StepFits(x) /\ Succeeds(h, x)
      /\ \A u \in Thread \ {t} : Idle(u)' = Idle(u) /\ Now(u)' = Now(u)
  BY MovedIs
<1>2. \A s \in SpecIndex : Shape(config[s]) /\ Turns(h, s, config[s], config'[s])
  BY DEF Effect, PlanInv
<1>3. \A u \in Thread \ {t} : Idle(u) /\ Idle(u)'
  <2>1. \A u \in Thread : ~Idle(u) => u = t
    BY <1>1 DEF AloneInv
  <2>2. QED  BY <1>1, <2>1
<1>4. /\ "pixels" \notin raced /\ (\A u \in Thread : KeepsPixels(u)) =>
           \A s \in SpecIndex : FollowIn(s, config[s])
      /\ Applies(h) => Looking(h, config)
  BY <1>1 DEF PixelInv, Follow
<1>5. ~Idle(t)' => /\ Applies(x) => Looking(x, config')
                   /\ h.op = "storeNon" /\ x.op = "open" =>
                        \A s \in SpecIndex : FollowIn(s, config'[s])
  BY <1>1, <1>2, <1>4, LookingNext
<1>6. ASSUME "pixels" \notin raced', KeepsPixels(t)'
      PROVE  \A s \in SpecIndex : FollowIn(s, config'[s])
  <2>1. CASE h.op = "storeNon" /\ h.spec = NumSpecs
    <3>1. ~Idle(t)'
      BY <1>1, <2>1, EndsIs DEF Applies
    <3>2. x.op = "open"
      BY <1>1, <2>1, <3>1, NextIs
    <3>3. QED  BY <1>5, <2>1, <3>1, <3>2
  <2>2. CASE ~(h.op = "storeNon" /\ h.spec = NumSpecs)
    <3>1. "pixels" \notin raced
      BY <1>6, <2>2
    <3>2. ~Applies(h) /\ (Sets(h) => Dwells(h))
      <4>1. Applies(h) \/ (Sets(h) /\ ~Dwells(h)) =>
              ~Idle(t)' /\ (Applies(x) \/ (Sets(x) /\ ~Dwells(x)))
        <5> SUFFICES ASSUME Applies(h) \/ (Sets(h) /\ ~Dwells(h))
                     PROVE  ~Idle(t)' /\ (Applies(x) \/ (Sets(x) /\ ~Dwells(x)))
          OBVIOUS
        <5>1. ~Idle(t)'
          BY <1>1, EndsIs
        <5>2. CASE Sets(h) /\ ~Dwells(h)
          <6>1. (Sets(x) /\ ~Dwells(x)) \/ x.op = "override"
            BY <1>1, <5>1, <5>2, NextIs
          <6>2. QED  BY <5>1, <6>1 DEF Applies, Overrides
        <5>3. CASE Applies(h)
          <6>1. Overrides(h) => Overrides(x) \/ x.op = "pixel"
            BY <1>1, <5>1, NextIs DEF Overrides
          <6>2. h.op = "store" => x.op = "pixel"
            BY <1>1, <5>1, NextIs
          <6>3. h.op = "storeNon" => x.op = "override"
            BY <1>1, <2>2, <5>1, NextIs
          <6>4. h.op = "pixel" => x.op \in {"store", "storeNon"}
            BY DEF Reads
          <6>5. \/ Overrides(x) \/ x.op \in {"pixel", "store", "storeNon"}
                \/ x.op = "override"
            BY <5>3, <6>1, <6>2, <6>3, <6>4 DEF Applies
          <6>6. QED  BY <5>1, <6>5 DEF Applies, Overrides
        <5>4. QED  BY <5>2, <5>3
      <4>2. ~Idle(t)' => \/ ~Sets(x) /\ ~Applies(x)
                         \/ Dwells(x)
        BY <1>6 DEF KeepsPixels
      <4>3. Dwells(x) => ~Applies(x) /\ Sets(x)
        <5>1. Dwells(x) => x.op = "put" /\ Sets(x)
          BY DwellsIs
        <5>2. QED  BY <5>1 DEF Applies, Overrides
      <4>4. QED  BY <4>1, <4>2, <4>3
    <3>3. KeepsPixels(t)
      BY <3>2 DEF KeepsPixels
    <3>4. \A u \in Thread : KeepsPixels(u)
      BY <1>3, <3>3 DEF KeepsPixels
    <3>5. \A s \in SpecIndex : FollowIn(s, config[s])
      BY <1>4, <3>1, <3>4
    <3>6. ASSUME NEW s \in SpecIndex
          PROVE  FollowIn(s, config'[s]) <=> FollowIn(s, config[s])
      <4>1. CASE Tunes(h) \/ Dwells(h)
        BY <1>2, <4>1 DEF Turns
      <4>2. CASE ~Tunes(h) /\ ~Dwells(h)
        <5>1. ~Sets(h) /\ h.op \notin {"entry", "force", "store", "storeNon"}
          BY <3>2, <4>2 DEF Applies, Overrides
        <5>2. config'[s] = config[s]
          BY <1>2, <4>2, <5>1 DEF Turns
        <5>3. QED  BY <5>2
      <4>3. QED  BY <4>1, <4>2
    <3>7. QED  BY <3>5, <3>6
  <2>3. QED  BY <2>1, <2>2
<1>7. QED  BY <1>3, <1>5, <1>6


SettingsInv == PlanInv /\ LogInv /\ SaveInv /\ AloneInv /\ CrashInv /\ PixelInv

\* A step that touches neither the file nor writeConfigMutex nor a buffer.
LEMMA QuietKept ==
  ASSUME SettingsInv, LogInv', NEW t \in Thread, OnlyMoves(t), Effect(t),
         UNCHANGED <<file, mutex, buffer, closes, alone>>, dataMutex' \in Thread \cup {NoThread},
         logged' = [s \in SpecIndex |-> logged'[s]], behind' = [s \in SpecIndex |-> behind'[s]],
         Marks(t), StaysBehind("file"),
         before' = IF Now(t).op = "cal" /\ Now(t).j = 1 THEN Loaded ELSE before,
         ~Writes(Now(t)), Now(t).op # "open",
         mode' = mode \/ (~Idle(t)' /\ Now(t)'.op = "open"),
         \/ raced' = raced
         \/ /\ Now(t).op = "storeNon" /\ Now(t).spec = NumSpecs
            /\ alone /\ raced' = raced \ {"pixels"},
         Now(t).op = "pixel" => ~Idle(t)' /\ Reads(Now(t), Now(t)', config[Now(t).spec])
  PROVE  SettingsInv'
<1>1. PlanInv /\ SaveInv /\ AloneInv /\ CrashInv /\ PixelInv
  BY DEF SettingsInv
<1>2. PlanInv'
  <2>1. TextFits(file') /\ buffer' = [u \in Thread |-> buffer'[u]]
    BY <1>1 DEF PlanInv
  <2>2. /\ \A u \in Thread : TextFits(buffer'[u])
        /\ closes' \in Nat /\ mutex' \in Thread \cup {NoThread}
    BY <1>1 DEF PlanInv
  <2>3. QED  BY <1>1, <2>1, <2>2, PlanKept
<1>3. SaveInv'
  BY <1>1, SaveKept
<1>4. AloneInv'
  <2>1. Now(t).op \notin {"open", "lock", "print"}
    BY DEF Writes
  <2>2. ~alone => raced' = raced
    OBVIOUS
  <2>3. QED  BY <1>1, <2>1, <2>2, AloneKept
<1>5. CrashInv'
  <2>1. Now(t).op \notin {"open", "close"}
    BY DEF Writes
  <2>2. "file" \notin raced' => "file" \notin raced
    OBVIOUS
  <2>3. QED  BY <1>1, <2>1, <2>2, CrashKept
<1>6. PixelInv'
  <2>1. "pixels" \in raced /\ "pixels" \notin raced' =>
          Now(t).op = "storeNon" /\ Now(t).spec = NumSpecs
    OBVIOUS
  <2>2. QED  BY <1>1, <2>1, PixelKept
<1>7. QED  BY <1>2, <1>3, <1>4, <1>5, <1>6 DEF SettingsInv

\* What holds of the functions that a step leaves alone.
LEMMA StaysAFunction ==
  ASSUME PlanInv
  PROVE  /\ logged' = logged => logged' = [s \in SpecIndex |-> logged'[s]]
         /\ behind' = behind => /\ behind' = [s \in SpecIndex |-> behind'[s]]
                                /\ \A what \in {"file", "log"} : StaysBehind(what)
         /\ dataMutex' = dataMutex => dataMutex' \in Thread \cup {NoThread}
BY DEF PlanInv, StaysBehind

LEMMA AssignKeeps ==
  ASSUME SettingsInv, NEW t \in Thread, Assigns(t)
  PROVE  SettingsInv'
<1>1. PlanInv /\ LogInv
  BY DEF SettingsInv
<1>2. /\ Effect(t) /\ ~Idle(t) /\ Continue(t) /\ UNCHANGED <<unsaved, mode, raced>>
      /\ Sets(Now(t)) \/ Tunes(Now(t)) \/ Now(t).op \in {"entry", "force"}
      /\ behind' = [s \in SpecIndex |-> behind'[s]] /\ Marks(t)
      /\ StaysBehind("file") /\ StaysBehind("log")
      /\ before' = IF Now(t).op = "cal" /\ Now(t).j = 1 THEN Loaded ELSE before
  BY DEF Assigns
<1>3. OnlyMoves(t)
  BY <1>1, <1>2, ContinueMoves
<1>4. Now(t).op \in {"wave", "found", "cal", "put", "entry", "force"}
  BY <1>2, SetsIs
<1>5. /\ ~Writes(Now(t)) /\ Now(t).op # "open" /\ Now(t).op # "pixel"
      /\ Now(t).op \notin {"copy", "log", "dataLock"}
  BY <1>4 DEF Writes
<1>6. /\ mode' = mode /\ raced' = raced /\ UNCHANGED <<file, mutex, buffer, closes, alone>>
      /\ dataMutex' = dataMutex /\ logged' = logged
  BY <1>2 DEF unsaved
<1>7. LogInv'
  BY <1>1, <1>2, <1>3, <1>5, <1>6, LogKept
<1>8. dataMutex' \in Thread \cup {NoThread} /\ logged' = [s \in SpecIndex |-> logged'[s]]
  BY <1>1, <1>6, StaysAFunction
<1>9. QED  BY <1>2, <1>3, <1>5, <1>6, <1>7, <1>8, QuietKept

\* A step that neither logs nor assigns.
LEMMA StillKept ==
  ASSUME SettingsInv, NEW t \in Thread, OnlyMoves(t), Effect(t),
         UNCHANGED <<unsaved, behind, before>>,
         Now(t).op \notin {"cal", "put", "open", "lock", "print", "close", "dataLock", "copy", "log"},
         mode' = mode \/ (~Idle(t)' /\ Now(t)'.op = "open"),
         \/ raced' = raced
         \/ /\ Now(t).op = "storeNon" /\ Now(t).spec = NumSpecs
            /\ alone /\ raced' = raced \ {"pixels"},
         Now(t).op = "pixel" => ~Idle(t)' /\ Reads(Now(t), Now(t)', config[Now(t).spec])
  PROVE  SettingsInv'
<1>1. PlanInv /\ LogInv
  BY DEF SettingsInv
<1>2. ~Writes(Now(t)) /\ Marks(t)
  <2>1. ~Tunes(Now(t))
    BY SetsIs
  <2>2. QED  BY <2>1 DEF Writes, Marks
<1>3. UNCHANGED <<file, mutex, buffer, closes, alone>> /\ dataMutex' = dataMutex /\ logged' = logged
  BY DEF unsaved
<1>4. /\ logged' = [s \in SpecIndex |-> logged'[s]] /\ behind' = [s \in SpecIndex |-> behind'[s]]
      /\ StaysBehind("file") /\ StaysBehind("log") /\ dataMutex' \in Thread \cup {NoThread}
  BY <1>1, <1>3, StaysAFunction
<1>5. LogInv'
  BY <1>1, <1>2, <1>3, <1>4, LogKept
<1>6. QED  BY <1>2, <1>3, <1>4, <1>5, QuietKept

LEMMA StoreKeeps ==
  ASSUME SettingsInv, NEW t \in Thread, StorePixel(t)
  PROVE  SettingsInv'
<1>1. PlanInv
  BY DEF SettingsInv
<1>2. /\ Effect(t) /\ ~Idle(t) /\ Continue(t) /\ UNCHANGED <<unsaved, mode, behind, before>>
      /\ Now(t).op \in {"found", "store", "storeNon"}
      /\ raced' = IF Now(t).op = "storeNon" /\ alone /\ Now(t).spec = NumSpecs
                  THEN raced \ {"pixels"} ELSE raced
  BY <1>1, StoreEffect
<1>3. OnlyMoves(t)
  BY <1>1, <1>2, ContinueMoves
<1>4. \/ raced' = raced
      \/ /\ Now(t).op = "storeNon" /\ Now(t).spec = NumSpecs
         /\ alone /\ raced' = raced \ {"pixels"}
  BY <1>2
<1>5. QED  BY <1>2, <1>3, <1>4, StillKept

LEMMA OverrideKeeps ==
  ASSUME SettingsInv, NEW t \in Thread, Override(t)
  PROVE  SettingsInv'
<1>1. PlanInv
  BY DEF SettingsInv
<1>2. OnlyMoves(t) /\ Overrides(Now(t))
  BY <1>1, OverrideMoves
<1>3. config' = config /\ mode' = mode /\ raced' = raced /\ UNCHANGED <<unsaved, behind, before>>
  BY DEF Override
<1>4. Now(t).op \in {"override", "entry", "force", "rest"}
  BY <1>2 DEF Overrides
<1>5. Effect(t)
  BY <1>1, <1>3, <1>4, NoEffect
<1>6. QED  BY <1>2, <1>3, <1>4, <1>5, StillKept

LEMMA ModeKeeps ==
  ASSUME SettingsInv, NEW t \in Thread, SetMode(t)
  PROVE  SettingsInv'
<1>1. PlanInv
  BY DEF SettingsInv
<1>2. /\ OnlyMoves(t) /\ Now(t).op = "mode"
      /\ ~Idle(t)' => Now(t)'.op = "open"
      /\ Idle(t)' => mode' = mode
  BY <1>1, ModeMoves
<1>3. config' = config /\ raced' = raced /\ UNCHANGED <<unsaved, behind, before>>
  BY DEF SetMode
<1>4. Effect(t)
  BY <1>1, <1>2, <1>3, NoEffect
<1>5. mode' = mode \/ (~Idle(t)' /\ Now(t)'.op = "open")
  BY <1>2
<1>6. QED  BY <1>2, <1>3, <1>4, <1>5, StillKept

LEMMA ReadKeeps ==
  ASSUME SettingsInv, NEW t \in Thread, ReadWave(t)
  PROVE  SettingsInv'
<1>1. PlanInv
  BY DEF SettingsInv
<1>2. /\ OnlyMoves(t) /\ Now(t).op = "pixel"
      /\ ~Idle(t)' /\ Reads(Now(t), Now(t)', config[Now(t).spec])
  BY <1>1, ReadMoves DEF Reads
<1>3. config' = config /\ mode' = mode /\ raced' = raced /\ UNCHANGED <<unsaved, behind, before>>
  BY DEF ReadWave
<1>4. Effect(t)
  BY <1>1, <1>2, <1>3, NoEffect
<1>5. QED  BY <1>2, <1>3, <1>4, StillKept

\* The steps that log.
LEMMA LogStepKept ==
  ASSUME SettingsInv, LogInv', NEW t \in Thread, OnlyMoves(t),
         Now(t).op \in {"dataLock", "copy", "log"}, UNCHANGED logging, StaysBehind("file"),
         logged' = [s \in SpecIndex |-> logged'[s]], behind' = [s \in SpecIndex |-> behind'[s]],
         dataMutex' \in Thread \cup {NoThread}
  PROVE  SettingsInv'
<1>1. PlanInv
  BY DEF SettingsInv
<1>2. /\ config' = config /\ mode' = mode /\ raced' = raced /\ before' = before
      /\ UNCHANGED <<file, mutex, buffer, closes, alone>>
  BY DEF logging
<1>3. Effect(t)
  BY <1>1, <1>2, NoEffect
<1>4. ~Writes(Now(t)) /\ Marks(t) /\ Now(t).op \notin {"open", "pixel", "cal"}
  <2>1. ~Tunes(Now(t))
    BY SetsIs
  <2>2. QED  BY <2>1 DEF Writes, Marks
<1>5. QED  BY <1>2, <1>3, <1>4, QuietKept

LEMMA LockDataKeeps ==
  ASSUME SettingsInv, NEW t \in Thread, LockData(t)
  PROVE  SettingsInv'
<1>1. PlanInv /\ LogInv
  BY DEF SettingsInv
<1>2. /\ ~Idle(t) /\ Now(t).op = "dataLock" /\ Continue(t) /\ UNCHANGED <<logging, logged, behind>>
      /\ dataMutex = NoThread /\ dataMutex' = t
  BY DEF LockData, Step, Now
<1>3. OnlyMoves(t)
  BY <1>1, <1>2, ContinueMoves
<1>4. config' = config
  BY <1>2 DEF logging
<1>5. Effect(t) /\ Marks(t)
  <2>1. ~Tunes(Now(t))
    BY <1>2, SetsIs
  <2>2. Effect(t)
    BY <1>1, <1>2, <1>4, NoEffect
  <2>3. QED  BY <2>1, <2>2 DEF Marks
<1>6. /\ logged' = [s \in SpecIndex |-> logged'[s]] /\ behind' = [s \in SpecIndex |-> behind'[s]]
      /\ StaysBehind("file") /\ StaysBehind("log") /\ dataMutex' \in Thread \cup {NoThread}
  BY <1>1, <1>2, StaysAFunction
<1>7. LogInv'
  BY <1>1, <1>2, <1>3, <1>5, <1>6, LogKept
<1>8. UNCHANGED logging
  BY <1>2
<1>9. QED  BY <1>2, <1>3, <1>6, <1>7, <1>8, LogStepKept

\* The copy is what memory has; the thread that makes it is the only one that logs.
LEMMA CopyKeeps ==
  ASSUME SettingsInv, NEW t \in Thread, CopyConfig(t)
  PROVE  SettingsInv'
<1> DEFINE h == Now(t)
           x == Now(t)'
           z == h.spec
<1>1. PlanInv /\ LogInv
  BY DEF SettingsInv
<1>2. /\ OnlyMoves(t) /\ h.op = "copy" /\ z \in SpecIndex /\ ~Idle(t)'
      /\ x.op = "log" /\ x.spec = z /\ x.copy = Copied(config[z])
  BY <1>1, CopyMoves
<1>3. /\ UNCHANGED logging /\ logged' = logged /\ dataMutex' = dataMutex /\ config' = config
      /\ behind' = [behind EXCEPT ![z] = @ \ {"log"}]
  BY DEF CopyConfig, Now, logging
<1>4. ~Idle(t) /\ \A u \in Thread \ {t} : Idle(u)' = Idle(u) /\ Now(u)' = Now(u)
  BY <1>1, <1>2, MovedIs
<1>5. /\ behind' = [s \in SpecIndex |-> behind'[s]] /\ StaysBehind("file")
      /\ \A s \in SpecIndex \ {z} : behind'[s] = behind[s]
  <2>1. behind = [s \in SpecIndex |-> behind[s]]
    BY <1>1 DEF PlanInv
  <2>2. /\ behind' = [s \in SpecIndex |-> behind'[s]] /\ behind'[z] = behind[z] \ {"log"}
        /\ \A s \in SpecIndex \ {z} : behind'[s] = behind[s]
    BY <1>2, <1>3, <2>1
  <2>3. StaysBehind("file")
    BY <2>2 DEF StaysBehind
  <2>4. QED  BY <2>2, <2>3
<1>6. logged' = [s \in SpecIndex |-> logged'[s]] /\ dataMutex' \in Thread \cup {NoThread}
  BY <1>1, <1>3, StaysAFunction
<1>7. /\ \A u \in Thread : dataMutex = u <=> ~Idle(u) /\ Now(u).op \in {"copy", "log"}
      /\ \A s \in SpecIndex :
           \/ Agrees(logged[s].config, s) /\ logged[s].slopes = LoggedSlopes(s, config[s])
           \/ \E u \in Thread : ToCopy(u, s)
           \/ \E u \in Thread : Logging(u, s)
      /\ \A u \in Thread, s \in SpecIndex :
           Logging(u, s) => Agrees(Now(u).copy, s) \/ \E v \in Thread : ToCopy(v, s)
  BY <1>1 DEF LogInv
<1>8. \A u \in Thread : ~Idle(u) /\ Now(u).op \in {"copy", "log"} => u = t
  BY <1>2, <1>4, <1>7
<1>9. \A u \in Thread, s \in SpecIndex : ~Logging(u, s)
  BY <1>2, <1>8 DEF Logging
<1>10. Logging(t, z)' /\ \A u \in Thread, s \in SpecIndex : Logging(u, s)' => u = t /\ s = z
  <2>1. Logging(t, z)' /\ \A s \in SpecIndex : Logging(t, s)' => s = z
    BY <1>2 DEF Logging
  <2>2. \A u \in Thread \ {t}, s \in SpecIndex : ~Logging(u, s)'
    BY <1>4, <1>9 DEF Logging
  <2>3. QED  BY <2>1, <2>2
<1>11. \A u \in Thread, s \in SpecIndex \ {z} : ToCopy(u, s) => ToCopy(u, s)'
  <2>1. \A s \in SpecIndex \ {z} : z <= s => z < s
    BY <1>2, SizeAssumption DEF SpecIndex
  <2>2. \A s \in SpecIndex \ {z} : ToCopy(t, s) => ToCopy(t, s)'
    <3>1. ~Pends(h) /\ ~Writes(h)
      <4>1. ~Sets(h)
        BY <1>2, SetsIs
      <4>2. QED  BY <1>2, <4>1 DEF Pends, Writes, Applies, Overrides
    <3>2. QED  BY <1>2, <2>1, <3>1 DEF ToCopy
  <2>3. QED  BY <1>4, <2>2 DEF ToCopy
<1>12. \A u \in Thread : dataMutex' = u <=> ~Idle(u)' /\ Now(u)'.op \in {"copy", "log"}
  BY <1>2, <1>3, <1>4, <1>7
<1>13. ASSUME NEW s \in SpecIndex
       PROVE  (\/ Agrees(logged[s].config, s) /\ logged[s].slopes = LoggedSlopes(s, config[s])
               \/ \E u \in Thread : ToCopy(u, s)
               \/ \E u \in Thread : Logging(u, s))'
  <2>1. CASE s = z
    <3>1. \E u \in Thread : Logging(u, s)'
      BY <1>2, <2>1 DEF Logging
    <3>2. QED  BY <3>1
  <2>2. CASE s # z
    <3>1. CASE \E u \in Thread : ToCopy(u, s)
      BY <1>11, <2>2, <3>1
    <3>2. CASE Agrees(logged[s].config, s) /\ logged[s].slopes = LoggedSlopes(s, config[s])
      <4>1. Agrees(logged[s].config, s)'
        BY <1>3, <1>5, <2>2, <3>2 DEF Agrees, Unsaved
      <4>2. QED  BY <1>3, <3>2, <4>1
    <3>3. QED  BY <1>7, <1>9, <3>1, <3>2
  <2>3. QED  BY <2>1, <2>2
<1>14. ASSUME NEW u \in Thread, NEW s \in SpecIndex, Logging(u, s)'
       PROVE  Agrees(Now(u).copy, s)'
  <2>1. Now(u)'.copy = Copied(config'[s])
    BY <1>2, <1>3, <1>10, <1>14
  <2>2. \A a : Differ(a, a) = {}
    BY DEF Differ
  <2>3. QED  BY <2>1, <2>2 DEF Agrees
<1>15. LogInv'
  BY <1>12, <1>13, <1>14 DEF LogInv
<1>16. QED  BY <1>2, <1>3, <1>5, <1>6, <1>15, LogStepKept

\* The row has the copy, and the slopes of now.
LEMMA LogKeeps ==
  ASSUME SettingsInv, NEW t \in Thread, LogConfig(t)
  PROVE  SettingsInv'
<1> DEFINE h == Now(t)
           x == Now(t)'
           z == h.spec
           row == [config |-> h.copy, slopes |-> LoggedSlopes(z, config[z])]
<1>1. PlanInv /\ LogInv
  BY DEF SettingsInv
<1>2. /\ ~Idle(t) /\ h.op = "log" /\ Continue(t) /\ UNCHANGED logging /\ behind' = behind
      /\ logged' = [logged EXCEPT ![z] = row]
      /\ dataMutex' = (IF z = NumSpecs THEN NoThread ELSE dataMutex) /\ config' = config
  BY DEF LogConfig, Step, Now, logging
<1>3. OnlyMoves(t)
  BY <1>1, <1>2, ContinueMoves
<1>4. /\ StepFits(h) /\ (Idle(t)' => Ends(h))
      /\ ~Idle(t)' => StepFits(x) /\ Succeeds(h, x)
      /\ \A u \in Thread \ {t} : Idle(u)' = Idle(u) /\ Now(u)' = Now(u)
  BY <1>1, <1>3, MovedIs
<1>5. z \in SpecIndex /\ SpecIndex = 1..NumSpecs /\ NumSpecs \in Nat
  BY <1>2, <1>4, SizeAssumption DEF StepFits, SpecIndex
<1>6. /\ z = NumSpecs /\ ~Idle(t)' => x.op = "cal"
      /\ z # NumSpecs => ~Idle(t)' /\ x.op = "copy" /\ x.spec = z + 1
  <2>1. ~Idle(t)' => IF z = NumSpecs THEN x.op = "cal" ELSE x.op = "copy" /\ x.spec = z + 1
    BY <1>2, <1>4, NextIs
  <2>2. Idle(t)' => z = NumSpecs
    BY <1>2, <1>4, EndsIs
  <2>3. QED  BY <2>1, <2>2
<1>7. /\ logged' = [s \in SpecIndex |-> logged'[s]] /\ logged'[z] = row
      /\ \A s \in SpecIndex \ {z} : logged'[s] = logged[s]
  <2>1. logged = [s \in SpecIndex |-> logged[s]]
    BY <1>1 DEF PlanInv
  <2> HIDE DEF row
  <2>2. QED  BY <1>2, <1>5, <2>1
<1>8. /\ behind' = [s \in SpecIndex |-> behind'[s]] /\ StaysBehind("file")
      /\ dataMutex' \in Thread \cup {NoThread}
  BY <1>1, <1>2, StaysAFunction
<1>9. /\ \A u \in Thread : dataMutex = u <=> ~Idle(u) /\ Now(u).op \in {"copy", "log"}
      /\ \A s \in SpecIndex :
           \/ Agrees(logged[s].config, s) /\ logged[s].slopes = LoggedSlopes(s, config[s])
           \/ \E u \in Thread : ToCopy(u, s)
           \/ \E u \in Thread : Logging(u, s)
      /\ \A u \in Thread, s \in SpecIndex :
           Logging(u, s) => Agrees(Now(u).copy, s) \/ \E v \in Thread : ToCopy(v, s)
  BY <1>1 DEF LogInv
<1>10. dataMutex = t /\ \A u \in Thread \ {t} : ~(~Idle(u) /\ Now(u).op \in {"copy", "log"})
  BY <1>2, <1>9
<1>11. \A u \in Thread : dataMutex' = u <=> ~Idle(u)' /\ Now(u)'.op \in {"copy", "log"}
  BY <1>2, <1>4, <1>6, <1>10, ThreadAssumption
<1>12. \A u \in Thread, s \in SpecIndex : ~Logging(u, s)'
  BY <1>4, <1>6, <1>10 DEF Logging
<1>13. \A u \in Thread, s \in SpecIndex : Logging(u, s) => u = t /\ s = z
  BY <1>10 DEF Logging
<1>14. \A u \in Thread, s \in SpecIndex : ToCopy(u, s) => ToCopy(u, s)'
  <2>1. ASSUME NEW s \in SpecIndex, ToCopy(t, s)  PROVE ToCopy(t, s)'
    <3>1. ~Pends(h) /\ ~Writes(h)
      <4>1. ~Sets(h)
        BY <1>2, SetsIs
      <4>2. QED  BY <1>2, <4>1 DEF Pends, Writes, Applies, Overrides
    <3>2. z < s
      BY <1>2, <2>1, <3>1 DEF ToCopy
    <3>3. z # NumSpecs /\ z + 1 <= s
      BY <1>5, <3>2
    <3>4. QED  BY <1>6, <3>3 DEF ToCopy
  <2>2. QED  BY <1>4, <2>1 DEF ToCopy
<1>15. ASSUME NEW s \in SpecIndex
       PROVE  (\/ Agrees(logged[s].config, s) /\ logged[s].slopes = LoggedSlopes(s, config[s])
               \/ \E u \in Thread : ToCopy(u, s)
               \/ \E u \in Thread : Logging(u, s))'
  <2>1. CASE \E u \in Thread : ToCopy(u, s)
    BY <1>14, <2>1
  <2>2. CASE s = z /\ Agrees(h.copy, z)
    <3>1. Agrees(logged[s].config, s)'
      <4>1. logged'[s].config = h.copy
        BY <1>7, <2>2
      <4>2. QED  BY <1>2, <2>2, <4>1 DEF Agrees, Unsaved
    <3>2. logged'[s].slopes = LoggedSlopes(s, config'[s])
      BY <1>2, <1>7, <2>2
    <3>3. QED  BY <3>1, <3>2
  <2>3. CASE s # z /\ Agrees(logged[s].config, s) /\ logged[s].slopes = LoggedSlopes(s, config[s])
    <3>1. Agrees(logged[s].config, s)'
      BY <1>2, <1>7, <2>3 DEF Agrees, Unsaved
    <3>2. logged'[s].slopes = LoggedSlopes(s, config'[s])
      BY <1>2, <1>7, <2>3
    <3>3. QED  BY <3>1, <3>2
  <2>4. s = z => Agrees(h.copy, z) \/ \E u \in Thread : ToCopy(u, s)
    <3>1. Logging(t, z)
      BY <1>2 DEF Logging
    <3>2. QED  BY <1>5, <1>9, <3>1
  <2>5. QED  BY <1>9, <1>13, <2>1, <2>2, <2>3, <2>4
<1>16. LogInv'
  BY <1>11, <1>12, <1>15 DEF LogInv
<1>17. QED  BY <1>2, <1>3, <1>7, <1>8, <1>16, LogStepKept

LEMMA EmptyFits == TextFits(<<>>)
<1> DEFINE none == <<>>
<1>1. none \in Seq({}) /\ Len(none) = 0
  BY EmptySeq
<1> HIDE DEF none
<1>2. IsSeq(none)
  BY <1>1, SeqIs
<1>3. \A i \in 1..Len(none) : FALSE
  BY <1>1
<1>4. TextFits(none)
  BY <1>2, <1>3 DEF TextFits
<1>5. QED  BY <1>4 DEF none

LEMMA BufferIs ==
  ASSUME PlanInv, NEW t \in Thread, NEW text, TextFits(text), buffer' = [buffer EXCEPT ![t] = text]
  PROVE  /\ buffer' = [u \in Thread |-> buffer'[u]] /\ \A u \in Thread : TextFits(buffer'[u])
         /\ buffer'[t] = text /\ \A u \in Thread \ {t} : buffer'[u] = buffer[u]
<1>1. buffer = [u \in Thread |-> buffer[u]] /\ \A u \in Thread : TextFits(buffer[u])
  BY DEF PlanInv
<1>2. /\ buffer' = [u \in Thread |-> buffer'[u]] /\ buffer'[t] = text
      /\ \A u \in Thread \ {t} : buffer'[u] = buffer[u]
  BY <1>1
<1>3. QED  BY <1>1, <1>2

LEMMA LoadedIs ==
  /\ \A s \in SpecIndex : Loaded[s] = Saved(s, readConfig(file).config[s])
  /\ \A s \in SpecIndex : Loaded'[s] = Saved(s, readConfig(file').config[s])
<1>1. Loaded = [s \in SpecIndex |-> Saved(s, readConfig(file).config[s])]
  BY DEF Loaded, AllSaved
<1>2. Loaded' = [s \in SpecIndex |-> Saved(s, readConfig(file').config[s])]
  BY DEF Loaded, AllSaved
<1>3. QED  BY <1>1, <1>2

\* What the steps of a save have in common.
LEMMA SaveSteps ==
  ASSUME SettingsInv, NEW t \in Thread, ~Idle(t), Now(t).op \in {"open", "lock", "print", "close"},
         Continue(t), UNCHANGED <<config, mode, before, alone, logged, dataMutex>>,
         TextFits(file'), NEW text, TextFits(text), buffer' = [buffer EXCEPT ![t] = text],
         closes' \in Nat, mutex' \in Thread \cup {NoThread},
         behind' = [s \in SpecIndex |-> behind'[s]],
         \A s \in SpecIndex : /\ "log" \in behind[s] => "log" \in behind'[s]
                              /\ "file" \in behind'[s] => "file" \in behind[s],
         Now(t).op = "print" => "file" \notin behind'[Now(t).spec],
         Now(t).op = "open" => closes' = 0, Now(t).op \in {"lock", "print"} => closes' = closes,
         raced' = raced \/ (alone /\ raced' = raced \ {"file"})
  PROVE  /\ OnlyMoves(t) /\ Effect(t) /\ ~Idle(t)' /\ StepFits(Now(t)) /\ StepFits(Now(t)')
         /\ Succeeds(Now(t), Now(t)')
         /\ PlanInv' /\ LogInv' /\ AloneInv' /\ PixelInv'
<1>1. PlanInv /\ LogInv /\ SaveInv /\ AloneInv /\ CrashInv /\ PixelInv
  BY DEF SettingsInv
<1>2. OnlyMoves(t) /\ Effect(t)
  BY <1>1, ContinueMoves, NoEffect
<1>3. ~Tunes(Now(t)) /\ ~Sets(Now(t)) /\ Marks(t)
  <2>1. ~Tunes(Now(t)) /\ ~Sets(Now(t))
    BY SetsIs
  <2>2. QED  BY <2>1 DEF Marks
<1>4. /\ ~Idle(t)' /\ StepFits(Now(t)) /\ StepFits(Now(t)') /\ Succeeds(Now(t), Now(t)')
  <2>1. /\ StepFits(Now(t)) /\ (Idle(t)' => Ends(Now(t)))
        /\ ~Idle(t)' => StepFits(Now(t)') /\ Succeeds(Now(t), Now(t)')
    BY <1>1, <1>2, MovedIs
  <2>2. ~Ends(Now(t))
    BY <1>3 DEF Ends
  <2>3. QED  BY <2>1, <2>2
<1>5. logged' = [s \in SpecIndex |-> logged'[s]] /\ dataMutex' \in Thread \cup {NoThread}
  BY <1>1, StaysAFunction
<1>6. PlanInv'
  BY <1>1, <1>2, <1>5, BufferIs, PlanKept
<1>7. LogInv'
  <2>1. StaysBehind("log")
    BY DEF StaysBehind
  <2>2. Now(t).op \notin {"copy", "log", "dataLock"} /\ logged' = logged /\ dataMutex' = dataMutex
    OBVIOUS
  <2>3. QED  BY <1>1, <1>2, <1>3, <2>1, <2>2, LogKept
<1>8. AloneInv'
  <2>1. Now(t).op = "print" =>
          \A s \in SpecIndex : "file" \in behind'[s] => "file" \in behind[s] /\ s # Now(t).spec
    OBVIOUS
  <2>2. alone' = alone /\ (~alone => raced' = raced)
    OBVIOUS
  <2>3. QED  BY <1>1, <1>2, <2>1, <2>2, AloneKept
<1>9. PixelInv'
  <2>1. "pixels" \in raced => "pixels" \in raced'
    OBVIOUS
  <2>2. QED  BY <1>1, <1>2, <2>1, PixelKept
<1>10. QED  BY <1>2, <1>4, <1>6, <1>7, <1>8, <1>9

LEMMA OpenKeeps ==
  ASSUME SettingsInv, NEW t \in Thread, Open(t)
  PROVE  SettingsInv'
<1> DEFINE none == <<>>
           h == Now(t)
           x == Now(t)'
<1>1. PlanInv /\ SaveInv /\ AloneInv /\ CrashInv
  BY DEF SettingsInv
<1>2. /\ ~Idle(t) /\ h.op = "open" /\ Continue(t) /\ file' = none /\ closes' = 0
      /\ buffer' = [buffer EXCEPT ![t] = none]
      /\ UNCHANGED <<config, mode, mutex, before, behind, alone, logged, dataMutex>> /\ raced' = raced
  BY DEF Open, Step, Now
<1>3. TextFits(none)
  BY EmptyFits
<1>4. closes' \in Nat /\ mutex' \in Thread \cup {NoThread}
  BY <1>1, <1>2 DEF PlanInv
<1>5. /\ OnlyMoves(t) /\ ~Idle(t)' /\ StepFits(h) /\ StepFits(x) /\ Succeeds(h, x)
      /\ PlanInv' /\ LogInv' /\ AloneInv' /\ PixelInv'
  <2> HIDE DEF none
  <2>1. h.op \in {"open", "lock", "print", "close"} /\ h.op \notin {"lock", "print"}
    BY <1>2
  <2>2. behind' = [s \in SpecIndex |-> behind'[s]]
    BY <1>1, <1>2, StaysAFunction
  <2>3. QED  BY <1>2, <1>3, <1>4, <2>1, <2>2, SaveSteps
<1>6. x.op = "lock"
  BY <1>2, <1>5, NextIs
<1>7. Saving(t)' /\ ~ToSave(t)'
  <2>1. Writes(x) /\ ~Pends(x)
    BY <1>6 DEF Writes, Pends, Sets, Applies, Overrides
  <2>2. QED  BY <1>5, <2>1 DEF Saving, ToSave
<1>8. \A u \in Thread \ {t} : Idle(u)' = Idle(u) /\ Now(u)' = Now(u)
  BY <1>1, <1>5, MovedIs
<1>9. SaveInv'
  <2>1. (\A u \in Thread : mutex = u <=> ~Idle(u) /\ Now(u).op \in {"print", "close"})'
    <3>1. \A u \in Thread : mutex = u <=> ~Idle(u) /\ Now(u).op \in {"print", "close"}
      BY <1>1 DEF SaveInv
    <3>2. QED  BY <1>2, <1>6, <1>8, <3>1
  <2>2. (closes = 0 /\ (\E u \in Thread : Saving(u)) => file = <<>>)'
    BY <1>2
  <2>3. (closes = 0 /\ (\A u \in Thread : ~ToSave(u)) =>
           \A u \in Thread : Saving(u) /\ (\A v \in Thread : Saving(v) => v = u) =>
             /\ Now(u).op = "print" => Printed(buffer[u], Now(u).spec - 1)
             /\ Now(u).op = "close" => Printed(buffer[u], NumSpecs))'
    <3> SUFFICES ASSUME NEW u \in Thread, \A v \in Thread : Saving(v)' => v = u
                 PROVE  Now(u)'.op \notin {"print", "close"}
      OBVIOUS
    <3>1. u = t
      BY <1>7
    <3>2. QED  BY <1>6, <3>1
  <2>4. (closes = 1 /\ (\A u \in Thread : ~ToSave(u) /\ ~Saving(u)) => Printed(file, NumSpecs))'
    BY <1>2
  <2>5. QED  BY <2>1, <2>2, <2>3, <2>4 DEF SaveInv
<1>10. CrashInv'
  <2> SUFFICES ASSUME "file" \notin raced', NEW u \in Thread, ~Idle(u)'
               PROVE  ~Logs(Now(u)') /\ Writes(Now(u)')
    BY <1>5 DEF CrashInv, Quiet
  <2>1. alone
    BY <1>1, <1>2 DEF AloneInv
  <2>2. \A v \in Thread : ~Idle(v) => v = t
    BY <1>1, <1>2, <2>1 DEF AloneInv
  <2>3. u = t
    BY <1>8, <2>2
  <2>4. QED  BY <1>6, <2>3 DEF Logs, Writes
<1>11. QED  BY <1>5, <1>9, <1>10 DEF SettingsInv

LEMMA LockKeeps ==
  ASSUME SettingsInv, NEW t \in Thread, Lock(t)
  PROVE  SettingsInv'
<1> DEFINE text == Text(<<ModeLine>>)
           h == Now(t)
           x == Now(t)'
<1>1. PlanInv /\ SaveInv /\ AloneInv /\ CrashInv
  BY DEF SettingsInv
<1>2. /\ ~Idle(t) /\ h.op = "lock" /\ Continue(t) /\ mutex = NoThread /\ mutex' = t
      /\ buffer' = [buffer EXCEPT ![t] = text]
      /\ UNCHANGED <<config, mode, file, closes, before, behind, alone, logged, dataMutex>> /\ raced' = raced
  BY DEF Lock, Step, Now
<1>3. TextFits(text) /\ readConfig(text).mode = mode
  BY ModeIsRead
<1> HIDE DEF text
<1>4. closes' \in Nat /\ mutex' \in Thread \cup {NoThread} /\ TextFits(file')
  BY <1>1, <1>2 DEF PlanInv
<1>5. /\ OnlyMoves(t) /\ Effect(t) /\ ~Idle(t)' /\ StepFits(h) /\ StepFits(x) /\ Succeeds(h, x)
      /\ PlanInv' /\ LogInv' /\ AloneInv' /\ PixelInv'
  <2>1. h.op \in {"open", "lock", "print", "close"} /\ ~(h.op = "open")
    BY <1>2
  <2>2. behind' = [s \in SpecIndex |-> behind'[s]]
    BY <1>1, <1>2, StaysAFunction
  <2>3. QED  BY <1>2, <1>3, <1>4, <2>1, <2>2, SaveSteps
<1>6. x.op = "print" /\ x.spec = 1
  BY <1>2, <1>5, NextIs
<1>7. Saving(t)' /\ ~ToSave(t)' /\ Saving(t) /\ ~ToSave(t)
  <2>1. Writes(x) /\ ~Pends(x) /\ Writes(h) /\ ~Pends(h)
    BY <1>2, <1>6 DEF Writes, Pends, Sets, Applies, Overrides
  <2>2. QED  BY <1>2, <1>5, <2>1 DEF Saving, ToSave
<1>8. \A u \in Thread \ {t} : Idle(u)' = Idle(u) /\ Now(u)' = Now(u)
  BY <1>1, <1>5, MovedIs
<1>9. SaveInv'
  <2>1. (\A u \in Thread : mutex = u <=> ~Idle(u) /\ Now(u).op \in {"print", "close"})'
    <3>1. \A u \in Thread : mutex = u <=> ~Idle(u) /\ Now(u).op \in {"print", "close"}
      BY <1>1 DEF SaveInv
    <3>2. \A u \in Thread : mutex # u
      BY <1>2, ThreadAssumption
    <3>3. QED  BY <1>2, <1>5, <1>6, <1>8, <3>1, <3>2
  <2>2. (closes = 0 /\ (\E u \in Thread : Saving(u)) => file = <<>>)'
    BY <1>1, <1>2, <1>7 DEF SaveInv
  <2>3. (closes = 0 /\ (\A u \in Thread : ~ToSave(u)) =>
           \A u \in Thread : Saving(u) /\ (\A v \in Thread : Saving(v) => v = u) =>
             /\ Now(u).op = "print" => Printed(buffer[u], Now(u).spec - 1)
             /\ Now(u).op = "close" => Printed(buffer[u], NumSpecs))'
    <3> SUFFICES ASSUME NEW u \in Thread, \A v \in Thread : Saving(v)' => v = u
                 PROVE  /\ Now(u)'.op = "print" => Printed(buffer[u], Now(u).spec - 1)'
                        /\ Now(u)'.op = "close" => Printed(buffer[u], NumSpecs)'
      OBVIOUS
    <3>1. u = t
      BY <1>7
    <3>2. buffer'[u] = text
      BY <1>1, <1>2, <1>3, <3>1, BufferIs
    <3>3. Now(u)'.op = "print" /\ Now(u)'.spec - 1 = 0
      BY <1>6, <3>1
    <3>4. \A s \in 1..0 : FALSE
      OBVIOUS
    <3>5. Printed(buffer[u], Now(u).spec - 1)'
      BY <1>2, <1>3, <3>2, <3>3, <3>4 DEF Printed
    <3>6. QED  BY <3>3, <3>5
  <2>4. (closes = 1 /\ (\A u \in Thread : ~ToSave(u) /\ ~Saving(u)) => Printed(file, NumSpecs))'
    BY <1>7
  <2>5. QED  BY <2>1, <2>2, <2>3, <2>4 DEF SaveInv
<1>10. CrashInv'
  <2>1. h.op \notin {"open", "close", "cal"} /\ ("file" \notin raced' => "file" \notin raced)
    BY <1>2
  <2>2. QED  BY <1>1, <1>2, <1>5, <2>1, CrashKept
<1>11. QED  BY <1>5, <1>9, <1>10 DEF SettingsInv

LEMMA PrintKeeps ==
  ASSUME SettingsInv, NEW t \in Thread, PrintSpec(t)
  PROVE  SettingsInv'
<1> DEFINE h == Now(t)
           x == Now(t)'
           k == h.spec
           old == buffer[t]
           text == old \o Text(SpecLines(k))
<1>1. PlanInv /\ SaveInv /\ AloneInv /\ CrashInv
  BY DEF SettingsInv
<1>2. /\ ~Idle(t) /\ h.op = "print" /\ Continue(t)
      /\ buffer' = [buffer EXCEPT ![t] = text]
      /\ UNCHANGED <<config, mode, file, mutex, closes, before, alone, logged, dataMutex>>
      /\ raced' = raced /\ behind' = [behind EXCEPT ![k] = @ \ {"file"}]
  BY DEF PrintSpec, Step, Now
<1>3. k \in SpecIndex
  <2>1. Plan(todo[t]) /\ todo[t] # <<>>
    BY <1>1, <1>2 DEF PlanInv, Idle
  <2>2. StepFits(h)
    BY <2>1, PlanIs DEF Now
  <2>3. QED  BY <1>2, <2>2 DEF StepFits
<1>4. /\ TextFits(text) /\ readConfig(text).mode = readConfig(old).mode
      /\ \A s \in SpecIndex : s # k => readConfig(text).config[s] = readConfig(old).config[s]
      /\ Saved(k, readConfig(text).config[k]) = Saved(k, config[k])
  <2>1. TextFits(old) /\ Shape(config[k])
    BY <1>1, <1>3 DEF PlanInv
  <2> HIDE DEF old, k
  <2>2. QED  BY <1>3, <2>1, SpecIsRead
<1> HIDE DEF text
<1>5. /\ behind' = [s \in SpecIndex |-> behind'[s]] /\ behind'[k] = behind[k] \ {"file"}
       /\ \A s \in SpecIndex : s # k => behind'[s] = behind[s]
  <2>1. behind = [s \in SpecIndex |-> behind[s]]
    BY <1>1 DEF PlanInv
  <2> HIDE DEF k
  <2>2. QED  BY <1>2, <1>3, <2>1
<1>6. closes' \in Nat /\ mutex' \in Thread \cup {NoThread} /\ TextFits(file')
  BY <1>1, <1>2 DEF PlanInv
<1>7. /\ OnlyMoves(t) /\ Effect(t) /\ ~Idle(t)' /\ StepFits(h) /\ StepFits(x) /\ Succeeds(h, x)
      /\ PlanInv' /\ LogInv' /\ AloneInv' /\ PixelInv'
  <2>1. h.op \in {"open", "lock", "print", "close"} /\ ~(h.op = "open")
    BY <1>2
  <2>2. /\ "file" \notin behind'[h.spec]
        /\ \A s \in SpecIndex : /\ "log" \in behind[s] => "log" \in behind'[s]
                                /\ "file" \in behind'[s] => "file" \in behind[s]
    BY <1>5
  <2>3. QED  BY <1>2, <1>4, <1>6, <1>5, <2>1, <2>2, SaveSteps
<1>8. IF k = NumSpecs THEN x.op = "close" ELSE x.op = "print" /\ x.spec = k + 1
  BY <1>2, <1>7, NextIs
<1>9. Saving(t)' /\ ~ToSave(t)' /\ Saving(t) /\ ~ToSave(t)
  <2>1. Writes(x) /\ ~Pends(x) /\ Writes(h) /\ ~Pends(h)
    BY <1>2, <1>8 DEF Writes, Pends, Sets, Applies, Overrides
  <2>2. QED  BY <1>2, <1>7, <2>1 DEF Saving, ToSave
<1>10. \A u \in Thread \ {t} : Idle(u)' = Idle(u) /\ Now(u)' = Now(u)
  BY <1>1, <1>7, MovedIs
<1>11. \A u \in Thread : (Saving(u)' <=> Saving(u)) /\ (ToSave(u)' <=> ToSave(u))
  BY <1>9, <1>10 DEF Saving, ToSave
<1>12. ASSUME closes = 0, \A u \in Thread : ~ToSave(u), \A u \in Thread : Saving(u) => u = t
       PROVE  /\ readConfig(buffer'[t]).mode = mode'
              /\ \A s \in 1..k :
                   Differ(Saved(s, readConfig(buffer'[t]).config[s]), Saved(s, config'[s]))
                     \subseteq Unsaved(s, "file")'
  <2>1. Printed(old, k - 1)
    BY <1>1, <1>2, <1>9, <1>12 DEF SaveInv
  <2>2. buffer'[t] = text
    BY <1>1, <1>2, <1>4, BufferIs
  <2>3. k \in 1..NumSpecs /\ NumSpecs \in Nat
    BY <1>3, SizeAssumption DEF SpecIndex
  <2>4. readConfig(text).mode = mode
    BY <1>4, <2>1 DEF Printed
  <2>5. ASSUME NEW s \in 1..k
        PROVE  Differ(Saved(s, readConfig(text).config[s]), Saved(s, config[s]))
                 \subseteq Unsaved(s, "file")'
    <3>1. CASE s = k
      <4>1. \A a : Differ(a, a) = {}
        BY DEF Differ
      <4> HIDE DEF k
      <4>2. QED  BY <1>4, <3>1, <4>1
    <3>2. CASE s # k
      <4>1. s \in 1..k - 1 /\ s \in SpecIndex
        BY <2>3, <3>2 DEF SpecIndex
      <4>2. Differ(Saved(s, readConfig(old).config[s]), Saved(s, config[s]))
              \subseteq Unsaved(s, "file")
        BY <2>1, <4>1 DEF Printed
      <4>3. Unsaved(s, "file")' = Unsaved(s, "file")
        BY <1>5, <3>2, <4>1 DEF Unsaved
      <4>4. QED  BY <1>4, <3>2, <4>1, <4>2, <4>3
    <3>3. QED  BY <3>1, <3>2
  <2>6. QED  BY <1>2, <2>2, <2>4, <2>5
<1>13. SaveInv'
  <2>1. (\A u \in Thread : mutex = u <=> ~Idle(u) /\ Now(u).op \in {"print", "close"})'
    <3>1. \A u \in Thread : mutex = u <=> ~Idle(u) /\ Now(u).op \in {"print", "close"}
      BY <1>1 DEF SaveInv
    <3>2. x.op \in {"print", "close"}
      BY <1>8
    <3>3. QED  BY <1>2, <1>7, <1>10, <3>1, <3>2
  <2>2. (closes = 0 /\ (\E u \in Thread : Saving(u)) => file = <<>>)'
    BY <1>1, <1>2, <1>11 DEF SaveInv
  <2>3. (closes = 0 /\ (\A u \in Thread : ~ToSave(u)) =>
           \A u \in Thread : Saving(u) /\ (\A v \in Thread : Saving(v) => v = u) =>
             /\ Now(u).op = "print" => Printed(buffer[u], Now(u).spec - 1)
             /\ Now(u).op = "close" => Printed(buffer[u], NumSpecs))'
    <3> SUFFICES ASSUME closes' = 0, \A u \in Thread : ~ToSave(u)',
                        NEW u \in Thread, \A v \in Thread : Saving(v)' => v = u
                 PROVE  /\ Now(u)'.op = "print" => Printed(buffer[u], Now(u).spec - 1)'
                        /\ Now(u)'.op = "close" => Printed(buffer[u], NumSpecs)'
      OBVIOUS
    <3>1. u = t
      BY <1>9
    <3>2. /\ readConfig(buffer'[u]).mode = mode'
          /\ \A s \in 1..k :
               Differ(Saved(s, readConfig(buffer'[u]).config[s]), Saved(s, config'[s]))
                 \subseteq Unsaved(s, "file")'
      BY <1>2, <1>11, <1>12, <3>1
    <3>3. CASE k = NumSpecs
      <4>1. Now(u)'.op = "close"
        BY <1>8, <3>1, <3>3
      <4>2. Printed(buffer[u], NumSpecs)'
        BY <3>2, <3>3 DEF Printed
      <4>3. QED  BY <4>1, <4>2
    <3>4. CASE k # NumSpecs
      <4>1. Now(u)'.op = "print" /\ Now(u)'.spec - 1 = k
        <5>1. k \in Nat
          BY <1>3, SizeAssumption DEF SpecIndex
        <5>2. QED  BY <1>8, <3>1, <3>4, <5>1
      <4>2. Printed(buffer[u], Now(u).spec - 1)'
        BY <3>2, <4>1 DEF Printed
      <4>3. QED  BY <4>1, <4>2
    <3>5. QED  BY <3>3, <3>4
  <2>4. (closes = 1 /\ (\A u \in Thread : ~ToSave(u) /\ ~Saving(u)) => Printed(file, NumSpecs))'
    BY <1>9
  <2>5. QED  BY <2>1, <2>2, <2>3, <2>4 DEF SaveInv
<1>14. CrashInv'
  <2>1. h.op \notin {"open", "close", "cal"} /\ ("file" \notin raced' => "file" \notin raced)
    BY <1>2
  <2>2. QED  BY <1>1, <1>2, <1>7, <2>1, CrashKept
<1>15. QED  BY <1>7, <1>13, <1>14 DEF SettingsInv

\* What is written over an empty file.
LEMMA OverEmpty ==
  ASSUME NEW text, IsSeq(text)
  PROVE  Over(text, <<>>) = text
<1> DEFINE none == <<>>
           n == Len(text)
<1>1. n \in Nat /\ text \in Seq({text[i] : i \in DOMAIN text})
  BY SeqDomain DEF IsSeq
<1>2. SubSeq(none, n + 1, Len(none)) = none
  <2>1. Len(none) = 0
    BY EmptySeq
  <2> HIDE DEF n
  <2>2. SubSeq(none, n + 1, 0) = none
    BY <1>1
  <2>3. QED  BY <2>1, <2>2
<1>3. \A S : \A q \in Seq(S) : q \o none = q
  OBVIOUS
<1> HIDE DEF none
<1>4. text \o none = text
  BY <1>1, <1>3
<1>5. Over(text, none) = text \o SubSeq(none, n + 1, Len(none))
  BY DEF Over
<1>6. QED  BY <1>2, <1>4, <1>5 DEF none

\* A text that is written over another.
LEMMA OverFits ==
  ASSUME NEW a, NEW b, TextFits(a), TextFits(b)
  PROVE  TextFits(Over(a, b))
<1> DEFINE m == Len(a) + 1
           n == Len(b)
           c == SubSeq(b, m, n)
           T == {b[i] : i \in 1..n}
<1>1. IsSeq(a) /\ IsSeq(b) /\ Len(a) \in Nat /\ n \in Nat
  BY SeqDomain DEF TextFits
<1>2. m \in Int /\ n \in Int /\ m > 0
  BY <1>1
<1>3. \A i \in m..n : b[i] \in T
  <2>1. \A i \in m..n : i \in 1..n
    <3> HIDE DEF n
    <3>1. QED  BY <1>1
  <2>2. QED  BY <2>1
<1> HIDE DEF T, m, n
<1>4. c \in Seq(T)
  BY <1>2, <1>3, SubSeqProperties
<1> HIDE DEF c
<1>5. IsSeq(c)
  BY <1>4, SeqIs
<1>6. \A i \in 1..Len(c) : c[i] \in T
  BY <1>4, ElementOfSeq
<1>7. \A u \in T : LineFits(u[1])
  BY DEF T, n, TextFits
<1>8. TextFits(c)
  BY <1>5, <1>6, <1>7 DEF TextFits
<1>9. Over(a, b) = a \o c
  BY DEF Over, c, m, n
<1>10. QED  BY <1>8, <1>9, TextsFit

\* Where nothing differs.
LEMMA SavedAlike ==
  ASSUME NEW s, NEW c, NEW d, Differ(Saved(s, c), Saved(s, d)) \subseteq {}
  PROVE  Saved(s, c) = Saved(s, d)
<1> DEFINE x == Saved(s, c)
           y == Saved(s, d)
<1>1. DOMAIN x = DOMAIN y /\ x = [k \in DOMAIN x |-> x[k]] /\ y = [k \in DOMAIN y |-> y[k]]
  <2>1. \A f, g, n, v, w, p, q, r, m :
          LET z == [analyte |-> f, dwell |-> g, integration |-> n, scans |-> v, count |-> w,
                    waves |-> p, nonAbs |-> q, measure |-> r, cal |-> m]
          IN /\ DOMAIN z = {"analyte", "dwell", "integration", "scans", "count", "waves",
                            "nonAbs", "measure", "cal"}
             /\ z = [k \in DOMAIN z |-> z[k]]
    OBVIOUS
  <2>2. QED  BY <2>1, Zenon DEF Saved
<1> HIDE DEF x, y
<1>2. \A k \in DOMAIN y : x[k] = y[k]
  BY DEF Differ, x, y
<1>3. x = y
  BY <1>1, <1>2
<1>4. QED  BY <1>3 DEF x, y

LEMMA CloseKeeps ==
  ASSUME SettingsInv, NEW t \in Thread, Close(t)
  PROVE  SettingsInv'
<1> DEFINE h == Now(t)
           x == Now(t)'
           text == buffer[t]
           none == <<>>
<1>1. PlanInv /\ SaveInv /\ AloneInv /\ CrashInv
  BY DEF SettingsInv
<1>2. /\ ~Idle(t) /\ h.op = "close" /\ Continue(t) /\ file' = Over(text, file) /\ mutex' = NoThread
      /\ buffer' = [buffer EXCEPT ![t] = none] /\ closes' = closes + 1
      /\ UNCHANGED <<config, mode, before, behind, alone, logged, dataMutex>>
      /\ raced' = IF alone THEN raced \ {"file"} ELSE raced
  BY DEF Close, Step, Now
<1>3. /\ TextFits(none) /\ TextFits(text) /\ TextFits(file) /\ TextFits(Over(text, file))
      /\ closes \in Nat
  BY <1>1, EmptyFits, OverFits DEF PlanInv
<1> HIDE DEF none, text
<1>4. closes' \in Nat /\ mutex' \in Thread \cup {NoThread} /\ TextFits(file')
  BY <1>2, <1>3
<1>5. /\ OnlyMoves(t) /\ Effect(t) /\ ~Idle(t)' /\ StepFits(h) /\ StepFits(x) /\ Succeeds(h, x)
      /\ PlanInv' /\ LogInv' /\ AloneInv' /\ PixelInv'
  <2>1. /\ h.op \in {"open", "lock", "print", "close"} /\ ~(h.op = "open")
        /\ h.op \notin {"lock", "print"} /\ behind' = [s \in SpecIndex |-> behind'[s]]
    BY <1>1, <1>2, StaysAFunction
  <2>2. raced' = raced \/ (alone /\ raced' = raced \ {"file"})
    BY <1>2
  <2>3. QED  BY <1>2, <1>3, <1>4, <2>1, <2>2, SaveSteps
<1>6. x.op = "dataLock"
  BY <1>2, <1>5, NextIs
<1>7. ~Saving(t)' /\ ~ToSave(t)' /\ Saving(t) /\ ~ToSave(t)
  <2>1. ~Writes(x) /\ ~Pends(x) /\ Writes(h) /\ ~Pends(h)
    BY <1>2, <1>6 DEF Writes, Pends, Sets, Applies, Overrides
  <2>2. QED  BY <1>2, <1>5, <2>1 DEF Saving, ToSave
<1>8. \A u \in Thread \ {t} : Idle(u)' = Idle(u) /\ Now(u)' = Now(u)
  BY <1>1, <1>5, MovedIs
<1>9. \A u \in Thread \ {t} : (Saving(u)' <=> Saving(u)) /\ (ToSave(u)' <=> ToSave(u))
  BY <1>8 DEF Saving, ToSave
\* The only one who writes has printed all, and over an empty file.
<1>10. ASSUME closes = 0, \A u \in Thread : ~ToSave(u), \A u \in Thread : Saving(u) => u = t
       PROVE  /\ readConfig(file').mode = mode
              /\ \A s \in SpecIndex :
                   Differ(Saved(s, readConfig(file').config[s]), Saved(s, config[s]))
                     \subseteq Unsaved(s, "file")
  <2>1. Printed(text, NumSpecs)
    BY <1>1, <1>2, <1>7, <1>10 DEF SaveInv, text
  <2>2. file = <<>>
    BY <1>1, <1>7, <1>10 DEF SaveInv
  <2>3. file' = text
    <3>1. IsSeq(text)
      BY <1>3 DEF TextFits
    <3>2. QED  BY <1>2, <2>2, <3>1, OverEmpty
  <2>4. QED  BY <2>1, <2>3 DEF Printed, SpecIndex
<1>11. SaveInv'
  <2>1. (\A u \in Thread : mutex = u <=> ~Idle(u) /\ Now(u).op \in {"print", "close"})'
    <3>1. \A u \in Thread : mutex = u <=> ~Idle(u) /\ Now(u).op \in {"print", "close"}
      BY <1>1 DEF SaveInv
    <3>2. mutex = t
      BY <1>2, <3>1
    <3>3. QED  BY <1>2, <1>6, <1>8, <3>1, <3>2, ThreadAssumption
  <2>2. closes' # 0
    BY <1>2, <1>3
  <2>3. (closes = 0 /\ (\E u \in Thread : Saving(u)) => file = <<>>)'
    BY <2>2
  <2>4. (closes = 0 /\ (\A u \in Thread : ~ToSave(u)) =>
           \A u \in Thread : Saving(u) /\ (\A v \in Thread : Saving(v) => v = u) =>
             /\ Now(u).op = "print" => Printed(buffer[u], Now(u).spec - 1)
             /\ Now(u).op = "close" => Printed(buffer[u], NumSpecs))'
    BY <2>2
  <2>5. (closes = 1 /\ (\A u \in Thread : ~ToSave(u) /\ ~Saving(u)) => Printed(file, NumSpecs))'
    <3> SUFFICES ASSUME closes' = 1, \A u \in Thread : ~ToSave(u)' /\ ~Saving(u)'
                 PROVE  Printed(file, NumSpecs)'
      OBVIOUS
    <3>1. closes = 0
      BY <1>2, <1>3
    <3>2. (\A u \in Thread : ~ToSave(u)) /\ (\A u \in Thread : Saving(u) => u = t)
      BY <1>7, <1>9
    <3>3. /\ readConfig(file').mode = mode
          /\ \A s \in SpecIndex :
               Differ(Saved(s, readConfig(file').config[s]), Saved(s, config[s]))
                 \subseteq Unsaved(s, "file")
      BY <1>10, <3>1, <3>2
    <3>4. QED  BY <1>2, <3>3 DEF Printed, SpecIndex, Unsaved
  <2>6. QED  BY <2>1, <2>3, <2>4, <2>5 DEF SaveInv
<1>12. CrashInv'
  <2> SUFFICES ASSUME "file" \notin raced'
               PROVE  /\ Loaded' = AllSaved(config')
                      /\ \A u \in Thread : ~Idle(u)' => Logs(Now(u)')
    BY DEF CrashInv
  <2>1. alone
    BY <1>1, <1>2 DEF AloneInv
  <2>2. \A u \in Thread : ~Idle(u) => u = t
    BY <1>1, <1>2, <2>1 DEF AloneInv
  <2>3. /\ \A u \in Thread : ~ToSave(u)
        /\ \A u \in Thread : Saving(u) => u = t
    BY <1>7, <2>2 DEF ToSave, Saving
  <2>4. closes = 0 /\ \A s \in SpecIndex : Unsaved(s, "file") = {}
    BY <1>1, <1>2, <1>7, <2>1 DEF AloneInv, Unsaved
  <2>5. \A s \in SpecIndex : Saved(s, readConfig(file').config[s]) = Saved(s, config[s])
    BY <1>10, <2>3, <2>4, SavedAlike
  <2>6. Loaded' = AllSaved(config')
    BY <1>2, <2>5 DEF Loaded, AllSaved
  <2>7. \A u \in Thread : ~Idle(u)' => u = t
    BY <1>8, <2>2
  <2>8. QED  BY <1>6, <2>6, <2>7 DEF Logs
<1>13. QED  BY <1>5, <1>11, <1>12 DEF SettingsInv
-----------------------------------------------------------------------------
(* Requests, the start and the restart.                                    *)

\* A file of the mode and of every spectrometer gives what memory has.
LEMMA AllIsRead ==
  ASSUME \A s \in SpecIndex : Shape(config[s])
  PROVE  LET whole == Text(<<ModeLine>>) \o FlattenSeq([s \in SpecIndex |-> Text(SpecLines(s))])
         IN /\ TextFits(whole) /\ readConfig(whole).mode = mode
            /\ \A s \in SpecIndex : Saved(s, readConfig(whole).config[s]) = Saved(s, config[s])
<1> DEFINE text == Text(<<ModeLine>>)
           n == NumSpecs
           seqs == [s \in SpecIndex |-> Text(SpecLines(s))]
<1>1. n \in Nat \ {0} /\ SpecIndex = 1..n
  BY SizeAssumption DEF SpecIndex
<1>2. seqs = [i \in 1..n |-> seqs[i]] /\ \A i \in 1..n : seqs[i] = Text(SpecLines(i))
  BY <1>1
<1>3. TextFits(text) /\ readConfig(text).mode = mode
  BY ModeIsRead
<1>4. FlattenSeq([s \in SpecIndex |-> Text(SpecLines(s))]) = FlattenSeq(seqs)
  OBVIOUS
<1> HIDE DEF text, seqs, n
<1>5. Len(seqs) = n
  BY <1>1, <1>2, ListIs
<1> DEFINE g == CHOOSE g : Flattens(seqs, n, g)
<1>6. FlattenSeq(seqs) = g[n]
  BY <1>1, <1>5 DEF FlattenSeq, Flattens
<1>7. Flattens(seqs, n, g)
  BY <1>1, FlattensExists
<1> HIDE DEF g
<1>8. \A i \in 1..n : g[i] = IF i = 1 THEN seqs[i] ELSE g[i - 1] \o seqs[i]
  BY <1>7 DEF Flattens
<1> DEFINE Good(k) ==
             /\ TextFits(g[k]) /\ TextFits(text \o g[k])
             /\ readConfig(text \o g[k]).mode = mode
             /\ \A s \in 1..k :
                  Saved(s, readConfig(text \o g[k]).config[s]) = Saved(s, config[s])
           Bad == {k \in 1..n : ~Good(k)}
<1>9. Bad = {}
  <2> SUFFICES ASSUME Bad # {}  PROVE FALSE
    OBVIOUS
  <2>1. PICK k \in Bad : \A y \in Bad : k <= y
    <3>1. Bad \in SUBSET Nat /\ Bad # {}
      OBVIOUS
    <3> HIDE DEF Bad
    <3>2. QED  BY <3>1, LeastExists
  <2>2. /\ k \in 1..n /\ k \in SpecIndex /\ ~Good(k)
        /\ seqs[k] = Text(SpecLines(k)) /\ Shape(config[k])
    BY <1>1, <1>2, <2>1
  <2>3. CASE k = 1
    <3>1. g[k] = Text(SpecLines(k))
      BY <1>8, <2>2, <2>3
    <3>2. /\ TextFits(g[k]) /\ TextFits(text \o g[k])
          /\ readConfig(text \o g[k]).mode = readConfig(text).mode
          /\ Saved(k, readConfig(text \o g[k]).config[k]) = Saved(k, config[k])
      <4> HIDE DEF Good, Bad
      <4>1. QED  BY <1>3, <2>2, <3>1, SpecIsRead
    <3>3. \A s \in 1..k : s = k
      BY <2>3
    <3>4. Good(k)
      BY <1>3, <3>2, <3>3
    <3>5. QED  BY <2>2, <3>4
  <2>4. CASE k # 1
    <3> DEFINE p == g[k - 1]
               u == seqs[k]
               x == text \o p
    <3>1. k - 1 \in 1..n /\ k - 1 \notin Bad
      BY <1>1, <2>1, <2>2, <2>4
    <3>2. Good(k - 1)
      BY <3>1
    <3>3. g[k] = p \o u
      BY <1>8, <2>2, <2>4
    <3>4. TextFits(p) /\ TextFits(x) /\ readConfig(x).mode = mode
      BY <3>2
    <3>5. \A s \in 1..k - 1 : Saved(s, readConfig(x).config[s]) = Saved(s, config[s])
      BY <3>2
    <3> HIDE DEF Good, Bad, x
    <3>6. /\ TextFits(u) /\ TextFits(x \o u) /\ readConfig(x \o u).mode = readConfig(x).mode
          /\ \A s \in SpecIndex : s # k => readConfig(x \o u).config[s] = readConfig(x).config[s]
          /\ Saved(k, readConfig(x \o u).config[k]) = Saved(k, config[k])
      <4> HIDE DEF u
      <4>1. u = Text(SpecLines(k))
        BY <2>2 DEF u
      <4>2. QED  BY <2>2, <3>4, <4>1, SpecIsRead
    <3> HIDE DEF u, p
    <3>7. text \o g[k] = x \o u
      BY <1>3, <3>3, <3>4, <3>6, ConcatIsAssociative DEF TextFits, x
    <3>8. TextFits(g[k])
      BY <3>3, <3>4, <3>6, TextsFit
    <3>9. ASSUME NEW s \in 1..k
          PROVE  Saved(s, readConfig(text \o g[k]).config[s]) = Saved(s, config[s])
      <4>1. CASE s = k
        BY <3>6, <3>7, <4>1
      <4>2. CASE s # k
        <5>1. s \in 1..k - 1 /\ s \in SpecIndex
          BY <1>1, <2>2, <4>2
        <5>2. QED  BY <3>5, <3>6, <3>7, <4>2, <5>1
      <4>3. QED  BY <4>1, <4>2
    <3>10. TextFits(text \o g[k]) /\ readConfig(text \o g[k]).mode = mode
      BY <3>4, <3>6, <3>7
    <3>11. Good(k)
      BY <3>8, <3>9, <3>10 DEF Good
    <3>12. QED  BY <2>2, <3>11
  <2>5. QED  BY <2>3, <2>4
<1>10. Good(n)
  <2>1. n \in 1..n
    BY <1>1
  <2> HIDE DEF Good
  <2>2. QED  BY <1>9, <2>1
<1>11. /\ TextFits(text \o g[n]) /\ readConfig(text \o g[n]).mode = mode
       /\ \A s \in SpecIndex : Saved(s, readConfig(text \o g[n]).config[s]) = Saved(s, config[s])
  BY <1>1, <1>10
<1>12. QED  BY <1>4, <1>6, <1>11 DEF text

\* The server has just started: nothing is to do, and the file gives what memory has or
\* what it gave before.
Fresh ==
  /\ config = [s \in SpecIndex |-> config[s]]
  /\ \A s \in SpecIndex : Shape(config[s]) /\ Follow(s)
  /\ todo = [t \in Thread |-> <<>>] /\ buffer = [t \in Thread |-> <<>>]
  /\ mutex = NoThread /\ dataMutex = NoThread
  /\ alone /\ closes \in Nat /\ TextFits(file)
  /\ logged = [s \in SpecIndex |-> LogRow(s, config[s])]
  /\ behind = [s \in SpecIndex |-> {}]
  /\ closes = 1 => Printed(file, NumSpecs)
  /\ Loaded = before \/ Loaded = AllSaved(config)

LEMMA NothingIsPlanned == Plan(<<>>)
<1> DEFINE none == <<>>
<1>1. none \in Seq({}) /\ Len(none) = 0
  BY EmptySeq
<1> HIDE DEF none
<1>2. IsSeq(none)
  BY <1>1, SeqIs
<1>3. \A i \in 1..Len(none) : FALSE
  BY <1>1
<1>4. Plan(none)
  BY <1>1, <1>2, <1>3 DEF Plan, Chain
<1>5. QED  BY <1>4 DEF none

LEMMA FreshIs == Fresh => SettingsInv
<1> SUFFICES ASSUME Fresh  PROVE SettingsInv
  OBVIOUS
<1> DEFINE none == <<>>
<1>1. /\ todo = [t \in Thread |-> none] /\ buffer = [t \in Thread |-> none]
      /\ mutex = NoThread /\ dataMutex = NoThread
      /\ \A t \in Thread : Idle(t)
  BY DEF Fresh, Idle
<1>2. Plan(none) /\ TextFits(none)
  BY NothingIsPlanned, EmptyFits
<1> HIDE DEF none
<1>3. /\ \A t \in Thread : Plan(todo[t]) /\ TextFits(buffer[t])
      /\ todo = [t \in Thread |-> todo[t]] /\ buffer = [t \in Thread |-> buffer[t]]
  BY <1>1, <1>2
<1>4. PlanInv
  <2>1. logged = [s \in SpecIndex |-> logged[s]] /\ behind = [s \in SpecIndex |-> behind[s]]
    BY DEF Fresh
  <2>2. QED  BY <1>1, <1>3, <2>1 DEF Fresh, PlanInv
<1>5. LogInv
  <2>1. \A a : Differ(a, a) = {}
    BY DEF Differ
  <2>2. \A s \in SpecIndex : /\ logged[s].config = Copied(config[s])
                             /\ logged[s].slopes = LoggedSlopes(s, config[s])
    <3>1. \A s \in SpecIndex : logged[s] = LogRow(s, config[s])
      BY DEF Fresh
    <3>2. \A s, c : LogRow(s, c).config = Copied(c) /\ LogRow(s, c).slopes = LoggedSlopes(s, c)
      BY DEF LogRow
    <3>3. QED  BY <3>1, <3>2
  <2>3. \A s \in SpecIndex : Agrees(logged[s].config, s)
    BY <2>1, <2>2 DEF Agrees
  <2>4. \A t \in Thread, s \in SpecIndex : ~Logging(t, s)
    BY <1>1 DEF Logging
  <2>5. QED  BY <1>1, <2>2, <2>3, <2>4, ThreadAssumption DEF LogInv
<1>6. \A t \in Thread : ~ToSave(t) /\ ~Saving(t)
  BY <1>1 DEF ToSave, Saving
<1>7. SaveInv
  BY <1>1, <1>6, ThreadAssumption DEF Fresh, SaveInv
<1>8. AloneInv
  BY <1>1, <1>6 DEF Fresh, AloneInv
<1>9. CrashInv
  BY <1>1 DEF Fresh, CrashInv
<1>10. PixelInv
  BY <1>1 DEF Fresh, PixelInv
<1>11. QED  BY <1>4, <1>5, <1>7, <1>8, <1>9, <1>10 DEF SettingsInv

LEMMA SettingsInit == SInit => SettingsInv
<1> SUFFICES ASSUME SInit  PROVE Fresh
  BY FreshIs
<1> DEFINE c == [Blank EXCEPT !.count = 1, !.nonAbs = MCPNonAbs, !.waves = Front_(<<434>>, @)]
<1>1. /\ config = [s \in SpecIndex |-> Applied(s, c)]
      /\ file = Text(<<ModeLine>>) \o FlattenSeq([s \in SpecIndex |-> Text(SpecLines(s))])
      /\ todo = [t \in Thread |-> <<>>] /\ buffer = [t \in Thread |-> <<>>]
      /\ mutex = NoThread /\ dataMutex = NoThread /\ alone /\ closes \in Nat
      /\ logged = [s \in SpecIndex |-> LogRow(s, config[s])]
      /\ behind = [s \in SpecIndex |-> {}]
  BY DEF SInit, Init
<1>2. Shape(c)
  <2> DEFINE f == Front_(<<434>>, Zero)
             one == <<434>>
  <2>1. Shape(Blank) /\ Zero \in [1..MaxAbsWaves -> Nat] /\ Blank.waves = Zero
    BY BlankFits DEF Blank, Shape
  <2>2. one = [i \in 1..1 |-> 434]
    OBVIOUS
  <2>3. Len(one) = 1
    OBVIOUS
  <2>4. f \in [1..MaxAbsWaves -> Nat]
    <3>1. f = [i \in 1..MaxAbsWaves |-> IF i <= 1 THEN one[i] ELSE Zero[i]]
      BY <2>1, <2>3 DEF Front_
    <3>2. \A i \in 1..MaxAbsWaves : i <= 1 => one[i] = 434
      BY <2>2
    <3> HIDE DEF f, one
    <3>3. QED  BY <2>1, <3>1, <3>2
  <2>5. c = [Blank EXCEPT !.count = 1, !.nonAbs = MCPNonAbs, !.waves = f]
    BY <2>1
  <2> HIDE DEF f, c
  <2>6. c = [k \in DOMAIN Blank |-> IF k = "count" THEN 1 ELSE IF k = "nonAbs" THEN MCPNonAbs
                                    ELSE IF k = "waves" THEN f ELSE Blank[k]]
    BY <2>1, <2>5 DEF Shape
  <2>7. /\ c = [k \in DOMAIN Blank |-> c[k]] /\ c.count = 1 /\ c.nonAbs = MCPNonAbs /\ c.waves = f
        /\ c.cal = Blank.cal /\ c.pixels = Blank.pixels
    BY <2>6 DEF Blank
  <2>8. 1 \in 0..MaxAbsWaves /\ MCPNonAbs \in Nat
    BY TwoWaves
  <2>9. QED  BY <2>1, <2>4, <2>7, <2>8 DEF Shape
<1> HIDE DEF c
<1>3. /\ config = [s \in SpecIndex |-> config[s]]
      /\ \A s \in SpecIndex : Shape(config[s]) /\ Follow(s)
  BY <1>1, <1>2, AppliedIs DEF Follow
<1>4. /\ TextFits(file) /\ readConfig(file).mode = mode
      /\ \A s \in SpecIndex : Saved(s, readConfig(file).config[s]) = Saved(s, config[s])
  BY <1>1, <1>3, AllIsRead
<1>5. Loaded = AllSaved(config)
  BY <1>4 DEF Loaded, AllSaved
<1>6. Printed(file, NumSpecs)
  <2>1. \A a : Differ(a, a) = {}
    BY DEF Differ
  <2>2. QED  BY <1>4, <2>1 DEF Printed, SpecIndex
<1>7. QED  BY <1>1, <1>3, <1>4, <1>5, <1>6 DEF Fresh

\* The file is as it was, and so is what it gives.
LEMMA RestartKeeps ==
  ASSUME SettingsInv, Restart
  PROVE  SettingsInv'
<1> DEFINE cs == readConfig(file).config
<1>1. PlanInv
  BY DEF SettingsInv
<1>2. /\ config' = [s \in SpecIndex |-> Applied(s, cs[s])]
      /\ todo' = [t \in Thread |-> <<>>] /\ buffer' = [t \in Thread |-> <<>>]
      /\ mutex' = NoThread /\ dataMutex' = NoThread /\ alone' /\ closes' = 0
      /\ logged' = [s \in SpecIndex |-> LogRow(s, config'[s])]
      /\ behind' = [s \in SpecIndex |-> {}]
      /\ before' = Loaded /\ file' = file
  BY DEF Restart
<1>3. \A s \in SpecIndex : Shape(cs[s])
  <2>1. TextFits(file)
    BY <1>1 DEF PlanInv
  <2>2. QED  BY <2>1, TextIsRead DEF ReadFits
<1> HIDE DEF cs
<1>4. \A s \in SpecIndex : Shape(config'[s]) /\ FollowIn(s, config'[s])
  BY <1>2, <1>3, AppliedIs
<1>5. config' = [s \in SpecIndex |-> config'[s]]
  BY <1>2
<1>6. Loaded' = before'
  BY <1>2 DEF Loaded, AllSaved, Saved
<1>7. (\A s \in SpecIndex : Shape(config[s]) /\ Follow(s))'
  BY <1>4 DEF Follow
<1>8. closes' \in Nat /\ ~(closes' = 1) /\ TextFits(file')
  BY <1>1, <1>2 DEF PlanInv
<1>9. Fresh'
  BY <1>2, <1>5, <1>6, <1>7, <1>8 DEF Fresh
<1>10. QED  BY <1>9, FreshIs, PTL

\* A request sets, saves or changes the mode first.
LEMMA StartsIs ==
  ASSUME NEW h, Starts(h)
  PROVE  /\ ~Writes(h) /\ ~Applies(h) /\ ~Logs(h)
         /\ h.op \notin {"print", "close", "copy", "log"}
<1>1. h.op \in {"put", "wave", "found", "cal", "mode", "open"}
  BY SetsIs DEF Starts
<1>2. QED  BY <1>1 DEF Writes, Applies, Overrides, Logs

LEMMA BeginKeeps ==
  ASSUME SettingsInv, NEW t \in Thread, NEW r \in Menu, Begin(t, r)
  PROVE  SettingsInv'
<1> DEFINE q == Steps(r)
           x == Now(t)'
<1>1. PlanInv /\ LogInv /\ SaveInv /\ AloneInv /\ CrashInv /\ PixelInv
  BY DEF SettingsInv
<1>2. /\ Idle(t) /\ todo' = [todo EXCEPT ![t] = q]
      /\ alone' = Quiet /\ before' = (IF Quiet THEN Loaded ELSE before)
      /\ raced' = IF Quiet THEN raced ELSE {"file", "pixels"}
      /\ UNCHANGED <<config, mode, file, mutex, dataMutex, logged, buffer, closes, behind>>
  BY DEF Begin
<1>3. Request(q)
  BY RequestIs
<1> HIDE DEF q
<1>4. Plan(q) /\ q # <<>> /\ Starts(Head(q)) /\ StepFits(Head(q))
  <2>1. Plan(q) /\ Len(q) > 0 /\ Starts(q[1]) /\ IsSeq(q)
    BY <1>3 DEF Request, Plan, Chain
  <2>2. q # <<>>
    BY <2>1, EmptyIs
  <2>3. Head(q) = q[1] /\ StepFits(Head(q))
    BY <2>1, <2>2, PlanIs
  <2>4. QED  BY <2>1, <2>2, <2>3
<1>5. /\ todo' = [u \in Thread |-> todo'[u]] /\ todo'[t] = q
      /\ \A u \in Thread \ {t} : todo'[u] = todo[u]
  <2>1. todo = [u \in Thread |-> todo[u]]
    BY <1>1 DEF PlanInv
  <2>2. QED  BY <1>2, <2>1
<1>6. /\ ~Idle(t)' /\ x = Head(q)
      /\ \A u \in Thread \ {t} : Idle(u)' = Idle(u) /\ Now(u)' = Now(u)
  BY <1>4, <1>5 DEF Idle, Now
<1>7. /\ Starts(x) /\ StepFits(x) /\ ~Writes(x) /\ ~Applies(x) /\ ~Logs(x)
      /\ x.op \notin {"print", "close", "copy", "log"}
  BY <1>4, <1>6, StartsIs
<1>8. /\ ~Saving(t) /\ ~Saving(t)' /\ ~ToSave(t)
      /\ \A u \in Thread \ {t} : (Saving(u)' <=> Saving(u)) /\ (ToSave(u)' <=> ToSave(u))
  BY <1>2, <1>6, <1>7 DEF Saving, ToSave
<1>9. Quiet => \A u \in Thread : ~Saving(u) /\ ~ToSave(u)
  BY DEF Quiet, Saving, ToSave
<1>10. PlanInv'
  <2>1. (\A u \in Thread : Plan(todo[u]))'
    <3>1. \A u \in Thread : Plan(todo[u])
      BY <1>1 DEF PlanInv
    <3>2. QED  BY <1>4, <1>5, <3>1
  <2>2. (/\ config = [s \in SpecIndex |-> config[s]]
         /\ buffer = [u \in Thread |-> buffer[u]]
         /\ logged = [s \in SpecIndex |-> logged[s]]
         /\ behind = [s \in SpecIndex |-> behind[s]]
         /\ \A s \in SpecIndex : Shape(config[s])
         /\ TextFits(file)
         /\ \A u \in Thread : TextFits(buffer[u])
         /\ closes \in Nat
         /\ mutex \in Thread \cup {NoThread}
         /\ dataMutex \in Thread \cup {NoThread})'
    BY <1>1, <1>2 DEF PlanInv
  <2>3. QED  BY <1>5, <2>1, <2>2 DEF PlanInv
<1>11. LogInv'
  <2>1. /\ ~(~Idle(t)' /\ x.op \in {"copy", "log"})
        /\ \A s \in SpecIndex : ~Logging(t, s) /\ ~Logging(t, s)' /\ ~ToCopy(t, s)
    BY <1>2, <1>7 DEF Logging, ToCopy
  <2>2. \A u \in Thread \ {t}, s \in SpecIndex :
          (Logging(u, s)' <=> Logging(u, s)) /\ (ToCopy(u, s)' <=> ToCopy(u, s))
    BY <1>6 DEF Logging, ToCopy
  <2>3. /\ \A u \in Thread : dataMutex = u <=> ~Idle(u) /\ Now(u).op \in {"copy", "log"}
        /\ \A s \in SpecIndex :
             \/ Agrees(logged[s].config, s) /\ logged[s].slopes = LoggedSlopes(s, config[s])
             \/ \E u \in Thread : ToCopy(u, s)
             \/ \E u \in Thread : Logging(u, s)
        /\ \A u \in Thread, s \in SpecIndex :
             Logging(u, s) => Agrees(Now(u).copy, s) \/ \E v \in Thread : ToCopy(v, s)
    BY <1>1 DEF LogInv
  <2>4. \A u \in Thread : dataMutex' = u <=> ~Idle(u)' /\ Now(u)'.op \in {"copy", "log"}
    BY <1>2, <1>6, <2>1, <2>3
  <2>6. ASSUME NEW s \in SpecIndex
        PROVE  (\/ Agrees(logged[s].config, s) /\ logged[s].slopes = LoggedSlopes(s, config[s])
                \/ \E u \in Thread : ToCopy(u, s)
                \/ \E u \in Thread : Logging(u, s))'
    <3>1. CASE \E u \in Thread : ToCopy(u, s) \/ Logging(u, s)
      BY <2>1, <2>2, <3>1
    <3>2. CASE Agrees(logged[s].config, s) /\ logged[s].slopes = LoggedSlopes(s, config[s])
      <4>1. Agrees(logged[s].config, s)'
        BY <1>2, <3>2 DEF Agrees, Unsaved
      <4>2. QED  BY <1>2, <3>2, <4>1
    <3>3. QED  BY <2>3, <3>1, <3>2
  <2>7. ASSUME NEW u \in Thread, NEW s \in SpecIndex, Logging(u, s)'
        PROVE  (Agrees(Now(u).copy, s) \/ \E v \in Thread : ToCopy(v, s))'
    <3>1. u \in Thread \ {t} /\ Logging(u, s) /\ Now(u)' = Now(u)
      BY <1>6, <2>1, <2>2, <2>7
    <3>2. CASE \E v \in Thread : ToCopy(v, s)
      BY <2>1, <2>2, <3>2
    <3>3. CASE Agrees(Now(u).copy, s)
      <4>1. Agrees(Now(u).copy, s)'
        BY <1>2, <3>1, <3>3 DEF Agrees, Unsaved
      <4>2. QED  BY <4>1
    <3>4. QED  BY <2>3, <3>1, <3>2, <3>3
  <2>8. QED  BY <2>4, <2>6, <2>7 DEF LogInv
<1>13. SaveInv'
  <2>1. (\A u \in Thread : mutex = u <=> ~Idle(u) /\ Now(u).op \in {"print", "close"})'
    <3>1. \A u \in Thread : mutex = u <=> ~Idle(u) /\ Now(u).op \in {"print", "close"}
      BY <1>1 DEF SaveInv
    <3>2. QED  BY <1>2, <1>6, <1>7, <3>1
  <2>2. (closes = 0 /\ (\E u \in Thread : Saving(u)) => file = <<>>)'
    BY <1>1, <1>2, <1>8 DEF SaveInv
  <2>3. (closes = 0 /\ (\A u \in Thread : ~ToSave(u)) =>
           \A u \in Thread : Saving(u) /\ (\A v \in Thread : Saving(v) => v = u) =>
             /\ Now(u).op = "print" => Printed(buffer[u], Now(u).spec - 1)
             /\ Now(u).op = "close" => Printed(buffer[u], NumSpecs))'
    <3> SUFFICES ASSUME closes' = 0, \A u \in Thread : ~ToSave(u)', NEW u \in Thread, Saving(u)',
                        \A v \in Thread : Saving(v)' => v = u
                 PROVE  /\ Now(u)'.op = "print" => Printed(buffer[u], Now(u).spec - 1)'
                        /\ Now(u)'.op = "close" => Printed(buffer[u], NumSpecs)'
      OBVIOUS
    <3>1. u \in Thread \ {t} /\ Saving(u) /\ Now(u)' = Now(u)
      BY <1>6, <1>8
    <3>2. closes = 0 /\ (\A v \in Thread : ~ToSave(v)) /\ \A v \in Thread : Saving(v) => v = u
      BY <1>2, <1>8
    <3>3. /\ Now(u).op = "print" => Printed(buffer[u], Now(u).spec - 1)
          /\ Now(u).op = "close" => Printed(buffer[u], NumSpecs)
      BY <1>1, <3>1, <3>2 DEF SaveInv
    <3>4. QED  BY <1>2, <3>1, <3>3 DEF Printed, Unsaved
  <2>4. (closes = 1 /\ (\A u \in Thread : ~ToSave(u) /\ ~Saving(u)) => Printed(file, NumSpecs))'
    <3> SUFFICES ASSUME closes' = 1, \A u \in Thread : ~ToSave(u)' /\ ~Saving(u)'
                 PROVE  Printed(file, NumSpecs)'
      OBVIOUS
    <3>1. closes = 1 /\ \A u \in Thread : ~ToSave(u) /\ ~Saving(u)
      BY <1>2, <1>8
    <3>2. Printed(file, NumSpecs)
      BY <1>1, <3>1 DEF SaveInv
    <3>3. QED  BY <1>2, <3>2 DEF Printed, Unsaved
  <2>5. QED  BY <2>1, <2>2, <2>3, <2>4 DEF SaveInv
<1>14. AloneInv'
  <2>1. (alone => \A u, v \in Thread : ~Idle(u) /\ ~Idle(v) => u = v)'
    BY <1>2, <1>6 DEF Quiet
  <2>2. (~alone => {"file", "pixels"} \subseteq raced)'
    BY <1>2
  <2>3. alone' => \A u \in Thread : ~Saving(u)'
    BY <1>2, <1>8, <1>9
  <2>4. QED  BY <2>1, <2>2, <2>3 DEF AloneInv
<1>15. CrashInv'
  <2> SUFFICES ASSUME "file" \notin raced'
               PROVE  /\ Quiet' => (Loaded = before \/ Loaded = AllSaved(config))'
                      /\ \A u \in Thread : ~Idle(u)' =>
                           IF Logs(Now(u)') THEN (Loaded = AllSaved(config))'
                           ELSE \/ Writes(Now(u)') \/ (Loaded = before)'
                                \/ (Now(u).op = "cal" /\ Now(u).j = 1 /\ Loaded = AllSaved(config))'
    BY DEF CrashInv
  <2>1. Quiet /\ before' = Loaded
    BY <1>2
  <2>2. Loaded' = Loaded
    BY <1>2 DEF Loaded, AllSaved, Saved
  <2>3. \A u \in Thread : ~Idle(u)' => u = t
    BY <1>6, <2>1 DEF Quiet
  <2>4. QED  BY <1>7, <2>1, <2>2, <2>3
<1>16. PixelInv'
  <2>1. ASSUME alone', "pixels" \notin raced'
        PROVE  \A s \in SpecIndex : Follow(s)'
    <3>1. Quiet /\ raced' = raced
      BY <1>2, <2>1
    <3>2. \A u \in Thread : KeepsPixels(u)
      BY <3>1 DEF Quiet, KeepsPixels
    <3>3. alone
      BY <1>1, <2>1, <3>1 DEF AloneInv
    <3>4. \A s \in SpecIndex : Follow(s)
      BY <1>1, <2>1, <3>1, <3>2, <3>3 DEF PixelInv
    <3>5. QED  BY <1>2, <3>4 DEF Follow
  <2>2. ASSUME alone', NEW u \in Thread, ~Idle(u)', Applies(Now(u)')
        PROVE  FALSE
    <3>1. Quiet
      BY <1>2, <2>2
    <3>2. u = t
      BY <1>6, <2>2, <3>1 DEF Quiet
    <3>3. QED  BY <1>7, <2>2, <3>2
  <2>3. QED  BY <2>1, <2>2 DEF PixelInv
<1>17. QED  BY <1>10, <1>11, <1>13, <1>14, <1>15, <1>16 DEF SettingsInv

LEMMA SettingsStutter ==
  ASSUME SettingsInv,
         UNCHANGED <<config, mode, file, mutex, dataMutex, logged, todo, buffer, closes, before,
                     behind, alone, raced>>
  PROVE  SettingsInv'
<1>1. PlanInv /\ LogInv /\ SaveInv /\ AloneInv /\ CrashInv /\ PixelInv
  BY DEF SettingsInv
<1>2. \A u \in Thread : Idle(u)' = Idle(u) /\ Now(u)' = Now(u)
  BY DEF Idle, Now
<1>3. \A u \in Thread : (Saving(u)' <=> Saving(u)) /\ (ToSave(u)' <=> ToSave(u))
  BY <1>2 DEF Saving, ToSave
<1>4. PlanInv'
  BY <1>1 DEF PlanInv
<1>5. LogInv'
  <2>1. \A u \in Thread, s \in SpecIndex :
          (Logging(u, s)' <=> Logging(u, s)) /\ (ToCopy(u, s)' <=> ToCopy(u, s))
    BY <1>2 DEF Logging, ToCopy
  <2>2. QED  BY <1>1, <1>2, <2>1 DEF LogInv, Agrees, Unsaved
<1>6. SaveInv'
  <2>1. (\A u \in Thread : mutex = u <=> ~Idle(u) /\ Now(u).op \in {"print", "close"})'
    BY <1>1, <1>2 DEF SaveInv
  <2>2. (closes = 0 /\ (\E u \in Thread : Saving(u)) => file = <<>>)'
    BY <1>1, <1>3 DEF SaveInv
  <2>3. (closes = 0 /\ (\A u \in Thread : ~ToSave(u)) =>
           \A u \in Thread : Saving(u) /\ (\A v \in Thread : Saving(v) => v = u) =>
             /\ Now(u).op = "print" => Printed(buffer[u], Now(u).spec - 1)
             /\ Now(u).op = "close" => Printed(buffer[u], NumSpecs))'
    BY <1>1, <1>2, <1>3 DEF SaveInv, Printed, Unsaved
  <2>4. (closes = 1 /\ (\A u \in Thread : ~ToSave(u) /\ ~Saving(u)) => Printed(file, NumSpecs))'
    BY <1>1, <1>3 DEF SaveInv, Printed, Unsaved
  <2>5. QED  BY <2>1, <2>2, <2>3, <2>4 DEF SaveInv
<1>7. AloneInv'
  BY <1>1, <1>2, <1>3 DEF AloneInv
<1>8. CrashInv'
  <2>1. Loaded' = Loaded /\ AllSaved(config)' = AllSaved(config)
    BY DEF Loaded, AllSaved, Saved
  <2>2. Quiet' = Quiet
    BY <1>2 DEF Quiet
  <2>3. QED  BY <1>1, <1>2, <2>1, <2>2 DEF CrashInv
<1>9. PixelInv'
  <2>1. \A u \in Thread : KeepsPixels(u)' <=> KeepsPixels(u)
    BY <1>2 DEF KeepsPixels
  <2>2. \A s \in SpecIndex : Follow(s)' <=> Follow(s)
    BY DEF Follow
  <2>3. QED  BY <1>1, <1>2, <2>1, <2>2 DEF PixelInv
<1>10. QED  BY <1>4, <1>5, <1>6, <1>7, <1>8, <1>9 DEF SettingsInv

LEMMA SettingsStep == SettingsInv /\ [SNext]_allVars => SettingsInv'
<1> SUFFICES ASSUME SettingsInv, [SNext]_allVars  PROVE SettingsInv'
  OBVIOUS
<1>1. CASE SRestart
  BY <1>1, RestartKeeps DEF SRestart
<1>2. ASSUME NEW t \in Thread, Configure(t)  PROVE SettingsInv'
  BY <1>2, BeginKeeps DEF Configure
<1>3. ASSUME NEW t \in Thread, ConfigWork(t)  PROVE SettingsInv'
  <2>1. Work(t)
    BY <1>3 DEF ConfigWork
  <2>2. AssignField(t) \/ AssignEntry(t) => Assigns(t)
    BY FieldEffect, EntryEffect DEF SettingsInv
  <2>3. QED
    BY <2>1, <2>2, AssignKeeps, OverrideKeeps, ModeKeeps, ReadKeeps, StoreKeeps, OpenKeeps,
       LockKeeps, PrintKeeps, CloseKeeps, LockDataKeeps, CopyKeeps, LogKeeps DEF Work
<1>4. CASE \/ \E t \in Thread : SaveBench(t) \/ BenchWork(t)
           \/ UNCHANGED allVars
  <2>1. UNCHANGED <<config, mode, file, mutex, dataMutex, logged, todo, buffer, closes, before,
                    behind, alone, raced>>
    BY <1>4 DEF SaveBench, BenchWork, allVars, vars
  <2>2. QED  BY <2>1, SettingsStutter
<1>5. QED  BY <1>1, <1>2, <1>3, <1>4 DEF SNext

-----------------------------------------------------------------------------
(* What the invariant says once all requests are done.                     *)

LEMMA GreatestIsMax ==
  ASSUME NEW B, NEW p \in B, \A y \in B : y \in Int /\ y <= p
  PROVE  Max(B) = p
<1>1. p \in B /\ \A y \in B : p >= y
  OBVIOUS
<1>2. Max(B) \in B /\ \A y \in B : Max(B) >= y
  BY <1>1 DEF Max
<1>3. Max(B) \in Int /\ p \in Int /\ Max(B) <= p /\ Max(B) >= p
  BY <1>1, <1>2
<1>4. QED  BY <1>3

\* GetPixelForWavelength finds the pixel it should, if wavelengths grow with the pixels.
LEMMA PixelIsBefore ==
  ASSUME NEW lambda, Increasing(lambda), NEW w \in Int
  PROVE  GetPixelForWavelength(lambda, w) = PixelBefore(lambda, w)
<1> DEFINE last == Max(DOMAIN lambda)
           matches == {i \in 1..last - 1 : lambda[i-1] < w /\ w <= lambda[i+1]}
           below == {i \in 1..last - 1 : lambda[i] < w}
<1>1. GetPixelForWavelength(lambda, w) = IF matches = {} THEN 0 ELSE Min(matches)
  BY DEF GetPixelForWavelength
<1>2. PixelBefore(lambda, w) =
        IF lambda[0] < w /\ w <= lambda[last] THEN Max(below \cup {1}) ELSE 0
  BY DEF PixelBefore
<1>3. /\ last \in Nat /\ last > 1 /\ lambda \in [0..last -> Int]
      /\ \A i, j \in 0..last : i < j => lambda[i] < lambda[j]
  BY DEF Increasing
<1> HIDE DEF last
<1>4. \A i \in 0..last : lambda[i] \in Int
  BY <1>3
<1>5. CASE matches = {}
  <2> SUFFICES ASSUME lambda[0] < w, w <= lambda[last]  PROVE FALSE
    BY <1>1, <1>2, <1>5
  <2> DEFINE S == {i \in 1..last : w <= lambda[i]}
  <2>1. S \in SUBSET Nat /\ last \in S
    BY <1>3
  <2>2. PICK k \in S : \A y \in S : k <= y
    <3> HIDE DEF S
    <3>1. QED  BY <2>1, LeastExists
  <2>3. CASE k = 1
    <3>1. 0 \in 0..last /\ 1 \in 0..last /\ 2 \in 0..last
      BY <1>3
    <3>2. lambda[1] < lambda[2] /\ w <= lambda[1]
      BY <1>3, <2>2, <2>3, <3>1
    <3>3. lambda[1 - 1] < w /\ w <= lambda[1 + 1]
      BY <1>4, <3>1, <3>2
    <3>4. 1 \in matches
      BY <1>3, <3>3
    <3>5. QED  BY <1>5, <3>4
  <2>4. CASE k # 1
    <3>1. k \in 2..last /\ k - 1 \in 1..last - 1 /\ w <= lambda[k]
      BY <1>3, <2>1, <2>2, <2>4
    <3>2. k - 1 \notin S /\ k - 1 \in 0..last /\ k - 2 \in 0..last
      BY <1>3, <2>2, <3>1
    <3>3. lambda[k - 1] < w
      BY <1>3, <1>4, <3>1, <3>2
    <3>4. lambda[k - 2] < lambda[k - 1]
      BY <1>3, <3>1, <3>2
    <3>5. lambda[(k - 1) - 1] < w /\ w <= lambda[(k - 1) + 1]
      <4>1. (k - 1) - 1 = k - 2 /\ (k - 1) + 1 = k
        BY <3>1
      <4>2. QED  BY <1>4, <3>1, <3>2, <3>3, <3>4, <4>1
    <3>6. k - 1 \in matches
      BY <3>1, <3>5
    <3>7. QED  BY <1>5, <3>6
  <2>5. QED  BY <2>3, <2>4
<1>6. CASE matches # {}
  <2>1. PICK p \in matches : \A y \in matches : p <= y
    <3>1. matches \in SUBSET Nat
      BY <1>3
    <3> HIDE DEF matches
    <3>2. QED  BY <1>6, <3>1, LeastExists
  <2>2. p \in 1..last - 1 /\ lambda[p - 1] < w /\ w <= lambda[p + 1]
    BY <2>1
  <2>3. Min(matches) = p
    <3>1. \A y \in matches : y \in Int
      BY <1>3
    <3> HIDE DEF matches
    <3>2. QED  BY <2>1, <3>1 DEF Min
  <2>4. p - 1 \in 0..last /\ p \in 0..last /\ p + 1 \in 0..last /\ 0 \in 0..last /\ last \in 0..last
    BY <1>3, <2>2
  <2>5. lambda[0] < w /\ w <= lambda[last]
    <3>1. lambda[0] <= lambda[p - 1] /\ lambda[p + 1] <= lambda[last]
      <4>1. 0 < p - 1 \/ 0 = p - 1
        BY <2>2
      <4>2. p + 1 < last \/ p + 1 = last
        BY <1>3, <2>2
      <4>3. QED  BY <1>3, <1>4, <2>4, <4>1, <4>2
    <3>2. QED  BY <1>4, <2>2, <2>4, <3>1
  <2>6. p \in below \cup {1}
    <3> SUFFICES ASSUME p # 1, ~(lambda[p] < w)  PROVE FALSE
      BY <2>2
    <3>1. p - 1 \in 1..last - 1 /\ p - 2 \in 0..last
      BY <1>3, <2>2
    <3>2. lambda[p - 2] < lambda[p - 1] /\ w <= lambda[p]
      BY <1>3, <1>4, <2>2, <2>4, <3>1
    <3>3. lambda[(p - 1) - 1] < w /\ w <= lambda[(p - 1) + 1]
      <4>1. (p - 1) - 1 = p - 2 /\ (p - 1) + 1 = p
        BY <2>2
      <4>2. QED  BY <1>4, <2>2, <2>4, <3>1, <3>2, <4>1
    <3>4. p - 1 \in matches
      BY <3>1, <3>3
    <3>5. p <= p - 1
      BY <2>1, <3>4
    <3>6. QED  BY <2>2, <3>5
  <2>7. \A y \in below \cup {1} : y <= p /\ y \in Int
    <3> SUFFICES ASSUME NEW y \in below, y > p  PROVE FALSE
      BY <1>3, <2>2
    <3>1. y \in 0..last /\ lambda[y] < w /\ p + 1 <= y
      BY <1>3, <2>2
    <3>2. lambda[p + 1] <= lambda[y]
      <4>1. p + 1 < y \/ p + 1 = y
        BY <2>2, <3>1
      <4>2. QED  BY <1>3, <1>4, <2>4, <3>1, <4>1
    <3>3. QED  BY <1>4, <2>2, <2>4, <3>1, <3>2
  <2>8. Max(below \cup {1}) = p
    <3> DEFINE B == below \cup {1}
    <3>1. p \in B /\ (\A y \in B : y <= p /\ y \in Int) /\ p \in Int
      BY <2>2, <2>6, <2>7
    <3> HIDE DEF B
    <3>2. Max(B) = p
      BY <3>1, GreatestIsMax
    <3>3. QED  BY <3>2 DEF B
  <2>9. QED  BY <1>1, <1>2, <1>6, <2>3, <2>5, <2>8
<1>7. QED  BY <1>5, <1>6

\* Once all requests are done the file says what memory holds, but for what SSP has set
\* since: for any requests of the menu, threads that change and save at once, and crashes
\* at any moment, as long as only one save ended after the file was truncated.
THEOREM SavedIsInMemory == SSpec => []SavedIsMemory
<1>1. SettingsInv => SavedIsMemory
  <2> SUFFICES ASSUME SettingsInv, Quiet, closes = 1
               PROVE  Printed(file, NumSpecs)
    BY DEF SavedIsMemory, Printed, SpecIndex
  <2>1. \A t \in Thread : ~ToSave(t) /\ ~Saving(t)
    BY DEF Quiet, ToSave, Saving
  <2>2. QED  BY <2>1 DEF SettingsInv, SaveInv
<1>2. SSpec => SInit /\ [][SNext]_allVars
  BY DEF SSpec
<1>3. QED  BY <1>1, <1>2, SettingsInit, SettingsStep, PTL

\* Once all requests are done the last row of each spectrometer in the data file has what
\* memory has of what is logged, but for what SSP has set since: for any requests of the
\* menu, threads that change, save and log at once, and crashes at any moment.
THEOREM ConfigIsLogged == SSpec => []LoggedIsMemory
<1>1. SettingsInv => LoggedIsMemory
  <2> SUFFICES ASSUME SettingsInv, Quiet, NEW s \in SpecIndex
               PROVE  Agrees(logged[s].config, s) /\ logged[s].slopes = LoggedSlopes(s, config[s])
    BY DEF LoggedIsMemory, Agrees
  <2>1. \A t \in Thread : ~ToCopy(t, s) /\ ~Logging(t, s)
    BY DEF Quiet, ToCopy, Logging
  <2>2. QED  BY <2>1 DEF SettingsInv, LogInv
<1>2. SSpec => SInit /\ [][SNext]_allVars
  BY DEF SSpec
<1>3. QED  BY <1>1, <1>2, SettingsInit, SettingsStep, PTL

\* At whatever moment the process dies, each spectrometer is found in the file as it
\* was before the setter that runs, or as it is, or not at all, if requests run one at
\* a time: for any requests of the menu, and also after other crashes.
THEOREM CrashLeavesOldNewOrNothing == SSpec => []OldNewOrNothing
<1>1. SettingsInv => OldNewOrNothing
  <2> SUFFICES ASSUME SettingsInv, "file" \notin raced, NEW s \in SpecIndex
               PROVE  Loaded[s] \in {before[s], Saved(s, config[s]), Saved(s, Blank)}
    BY DEF OldNewOrNothing
  <2>1. SaveInv /\ AloneInv /\ CrashInv
    BY DEF SettingsInv
  <2>2. CASE Loaded = before \/ Loaded = AllSaved(config)
    BY <2>2 DEF AllSaved
  <2>3. CASE \E t \in Thread : Saving(t)
    <3>1. alone
      BY <2>1 DEF AloneInv
    <3>2. closes = 0
      BY <2>1, <2>3, <3>1 DEF AloneInv
    <3>3. file = <<>>
      BY <2>1, <2>3, <3>2 DEF SaveInv
    <3>4. readConfig(file) = Unread
      BY <3>3, NothingIsRead
    <3>5. readConfig(file).config[s] = Blank
      BY <3>4 DEF Unread
    <3>6. Loaded[s] = Saved(s, Blank)
      BY <3>5, LoadedIs
    <3>7. QED  BY <3>6
  <2>4. Quiet \/ \E t \in Thread : ~Idle(t)
    BY DEF Quiet
  <2>5. QED  BY <2>1, <2>2, <2>3, <2>4 DEF CrashInv, Saving
<1>2. SSpec => SInit /\ [][SNext]_allVars
  BY DEF SSpec
<1>3. QED  BY <1>1, <1>2, SettingsInit, SettingsStep, PTL

\* Once the requests, one at a time, are done, each wavelength in use has the pixel of
\* its spectrometer that belongs to it: for any requests of the menu, crashes at any
\* moment, and any spectrometers whose wavelengths grow with the pixels.
THEOREM PixelsFollowWaves ==
  ASSUME \A s \in SpecIndex : Increasing(Lambda[s])
  PROVE  SSpec => []PixelsFollow
<1>1. SettingsInv => PixelsFollow
  <2> SUFFICES ASSUME SettingsInv, Quiet, "pixels" \notin raced, NEW s \in SpecIndex
               PROVE  LET c == config[s]
                      IN /\ \A i \in 1..c.count : c.pixels[i] = PixelBefore(Lambda[s], c.waves[i])
                         /\ c.nonAbsPixel = PixelBefore(Lambda[s], c.nonAbs)
    BY DEF PixelsFollow
  <2> DEFINE c == config[s]
  <2>1. PlanInv /\ AloneInv /\ PixelInv
    BY DEF SettingsInv
  <2>2. \A t \in Thread : KeepsPixels(t)
    BY DEF Quiet, KeepsPixels
  <2>3. alone
    BY <2>1 DEF AloneInv
  <2>4. Follow(s)
    BY <2>1, <2>2, <2>3 DEF PixelInv
  <2>5. /\ \A i \in 1..c.count : c.pixels[i] = GetPixelForWavelength(Lambda[s], c.waves[i])
        /\ c.nonAbsPixel = GetPixelForWavelength(Lambda[s], c.nonAbs)
    BY <2>4 DEF Follow, FollowIn, calcPixelValueForWavelength
  <2>6. c.nonAbs \in Int /\ \A i \in 1..c.count : c.waves[i] \in Int
    <3>1. c.count \in 0..MaxAbsWaves /\ c.waves \in [1..MaxAbsWaves -> Nat] /\ c.nonAbs \in Nat
      BY <2>1 DEF PlanInv, Shape
    <3> HIDE DEF c
    <3>2. QED  BY <3>1, SizeAssumption
  <2>7. \A w \in Int : GetPixelForWavelength(Lambda[s], w) = PixelBefore(Lambda[s], w)
    BY PixelIsBefore
  <2> HIDE DEF c
  <2>8. /\ \A i \in 1..c.count : c.pixels[i] = PixelBefore(Lambda[s], c.waves[i])
        /\ c.nonAbsPixel = PixelBefore(Lambda[s], c.nonAbs)
    BY <2>5, <2>6, <2>7
  <2>9. QED  BY <2>8 DEF c
<1>2. SSpec => SInit /\ [][SNext]_allVars
  BY DEF SSpec
<1>3. QED  BY <1>1, <1>2, SettingsInit, SettingsStep, PTL

-----------------------------------------------------------------------------
(* Division and bytes.                                                     *)

LEMMA DivFacts ==
  ASSUME NEW x \in Int, NEW k \in Nat \ {0}
  PROVE  /\ x \div k \in Int
         /\ k * (x \div k) <= x /\ x < k * (x \div k) + k
         /\ x % k = x - k * (x \div k)
OBVIOUS

LEMMA DivIs ==
  ASSUME NEW x \in Int, NEW k \in Nat \ {0}, NEW q \in Int,
         k * q <= x, x < k * q + k
  PROVE  x \div k = q
<1> DEFINE d == x \div k
<1>1. d \in Int /\ k * d <= x /\ x < k * d + k
  BY DivFacts
<1> HIDE DEF d
<1>2. CASE d < q
  <2>1. d + 1 <= q /\ k * (d + 1) = k * d + k
    BY <1>1, <1>2
  <2>2. k * (d + 1) <= k * q
    BY <1>1, <2>1
  <2>3. QED  BY <1>1, <2>1, <2>2
<1>3. CASE q < d
  <2>1. q + 1 <= d /\ k * (q + 1) = k * q + k
    BY <1>1, <1>3
  <2>2. k * (q + 1) <= k * d
    BY <1>1, <2>1
  <2>3. QED  BY <1>1, <2>1, <2>2
<1>4. QED  BY <1>1, <1>2, <1>3 DEF d

LEMMA DivBetween ==
  ASSUME NEW x \in Int, NEW k \in Nat \ {0}, NEW lo \in Int, NEW hi \in Int,
         k * lo <= x, x <= k * hi
  PROVE  x \div k \in lo..hi
<1> DEFINE d == x \div k
<1>1. d \in Int /\ k * d <= x /\ x < k * d + k
  BY DivFacts
<1> HIDE DEF d
<1>2. CASE d < lo
  <2>1. d + 1 <= lo /\ k * (d + 1) = k * d + k
    BY <1>1, <1>2
  <2>2. k * (d + 1) <= k * lo
    BY <1>1, <2>1
  <2>3. QED  BY <1>1, <2>1, <2>2
<1>3. CASE hi < d
  <2>1. hi + 1 <= d /\ k * (hi + 1) = k * hi + k
    BY <1>1, <1>3
  <2>2. k * (hi + 1) <= k * d
    BY <1>1, <2>1
  <2>3. QED  BY <1>1, <2>1, <2>2
<1>4. QED  BY <1>1, <1>2, <1>3 DEF d

\* The digits of a number of up to four bytes.
LEMMA Digits ==
  ASSUME NEW n \in Nat, NEW b \in Nat \ {0}
  PROVE  /\ n \div b \in Nat /\ n % b \in 0..b - 1
         /\ n = (n % b) + (n \div b) * b
         /\ \A p \in Nat \ {0} : n \div (p * b) = (n \div b) \div p
<1> DEFINE d == n \div b
<1>1. d \in Int /\ b * d <= n /\ n < b * d + b /\ n % b = n - b * d
  BY DivFacts
<1>2. d \in Nat
  <2>1. d \in 0..n
    <3>1. b * 0 = 0 /\ n <= b * n
      OBVIOUS
    <3>2. QED  BY <3>1, DivBetween
  <2>2. QED  BY <2>1
<1>3. ASSUME NEW p \in Nat \ {0}
      PROVE  n \div (p * b) = d \div p
  <2> DEFINE q == d \div p
  <2>1. q \in Int /\ p * q <= d /\ d + 1 <= p * q + p
    BY <1>2, DivFacts
  <2> HIDE DEF d, q
  <2>2. p * b \in Nat \ {0}
    OBVIOUS
  <2>3. b * (p * q) <= b * d /\ b * (d + 1) <= b * (p * q + p)
    BY <1>2, <2>1
  <2>4. b * (p * q) = (p * b) * q /\ b * (d + 1) = b * d + b
        /\ b * (p * q + p) = (p * b) * q + p * b
    BY <1>2, <2>1
  <2>5. (p * b) * q <= n /\ n < (p * b) * q + p * b
    BY <1>1, <1>2, <2>1, <2>2, <2>3, <2>4
  <2>6. n \div (p * b) = q
    BY <2>1, <2>2, <2>5, DivIs
  <2>7. QED  BY <2>6 DEF q, d
<1>4. n % b \in 0..b - 1 /\ n = (n % b) + d * b
  <2> HIDE DEF d
  <2>1. b * d = d * b
    BY <1>2
  <2>2. QED  BY <1>1, <1>2, <2>1
<1>5. QED  BY <1>2, <1>3, <1>4

-----------------------------------------------------------------------------
(* Folds.  The library's folds choose a function that is defined by its own *)
(* values on smaller sets: there is one, whatever is folded.                *)

\* F folds the elements of S into base, in the order that c chooses them.
Folding(S, T, base, F, c) ==
  /\ IsFiniteSet(S) /\ base \in T /\ F \in [T \X S -> T]
  /\ \A s \in SUBSET S : s # {} => c[s] \in s
Folded(h, S, T, base, F, c) ==
  /\ h \in [SUBSET S -> T] /\ h[{}] = base
  /\ \A s \in SUBSET S : s # {} => h[s] = F[<<h[s \ {c[s]}], c[s]>>]

LEMMA FoldExists ==
  ASSUME NEW S, NEW T, NEW base, NEW F, NEW c, Folding(S, T, base, F, c)
  PROVE  \E h : Folded(h, S, T, base, F, c)
<1> USE DEF Folding
<1> DEFINE Of(h, s) == IF s = {} THEN base ELSE F[<<h[s \ {c[s]}], c[s]>>]
           UpTo(k, h) == \A s \in SUBSET S : Cardinality(s) <= k => h[s] = Of(h, s)
           Bad == {k \in Nat : ~\E h \in [SUBSET S -> T] : UpTo(k, h)}
<1>1. \A s \in SUBSET S : IsFiniteSet(s) /\ Cardinality(s) \in Nat
      /\ Cardinality(s) <= Cardinality(S) /\ (Cardinality(s) = 0 => s = {})
  BY FS_Subset, FS_CardinalityType, FS_EmptySet
<1>2. CASE Bad = {}
  <2>1. Cardinality(S) \in Nat
    BY <1>1
  <2>2. PICK h \in [SUBSET S -> T] : UpTo(Cardinality(S), h)
    BY <1>2, <2>1
  <2>3. \A s \in SUBSET S : h[s] = Of(h, s)
    BY <1>1, <2>2
  <2>4. {} \in SUBSET S
    OBVIOUS
  <2>5. QED  BY <2>3, <2>4 DEF Folded
<1>3. CASE Bad # {}
  <2>1. PICK k \in Bad : \A y \in Bad : k <= y
    BY <1>3, LeastExists
  <2>2. CASE k = 0
    <3> DEFINE h == [s \in SUBSET S |-> base]
    <3>1. h \in [SUBSET S -> T] /\ UpTo(0, h)
      BY <1>1
    <3>2. QED  BY <2>1, <2>2, <3>1
  <2>3. CASE k # 0
    <3>1. k - 1 \in Nat /\ k - 1 \notin Bad /\ k \in Nat
      <4>1. k \in Nat
        BY <2>1
      <4> HIDE DEF Bad
      <4>2. QED  BY <2>1, <2>3, <4>1
    <3>2. PICK g \in [SUBSET S -> T] : UpTo(k - 1, g)
      BY <3>1
    <3> DEFINE h == [s \in SUBSET S |-> Of(g, s)]
    <3>3. ASSUME NEW s \in SUBSET S  PROVE Of(g, s) \in T
      <4>1. s # {} => c[s] \in S /\ s \ {c[s]} \in SUBSET S
        OBVIOUS
      <4>2. s # {} => g[s \ {c[s]}] \in T
        BY <4>1
      <4>3. QED  BY <4>1, <4>2
    <3>4. h \in [SUBSET S -> T]
      BY <3>3
    <3>5. ASSUME NEW s \in SUBSET S, Cardinality(s) <= k, s # {}
          PROVE  h[s] = Of(h, s)
      <4>1. c[s] \in s /\ s \ {c[s]} \in SUBSET S
        BY <3>5
      <4>2. Cardinality(s \ {c[s]}) = Cardinality(s) - 1
        BY <1>1, <4>1, FS_RemoveElement
      <4>3. Cardinality(s \ {c[s]}) <= k - 1
        BY <1>1, <3>1, <3>5, <4>2
      <4>4. g[s \ {c[s]}] = h[s \ {c[s]}]
        BY <3>2, <4>1, <4>3
      <4>5. h[s] = Of(g, s)
        OBVIOUS
      <4> HIDE DEF h
      <4>6. QED  BY <3>5, <4>4, <4>5
    <3>6. h[{}] = Of(h, {})
      OBVIOUS
    <3>7. UpTo(k, h)
      <4> HIDE DEF h, Of
      <4>1. QED  BY <3>5, <3>6
    <3>8. QED  BY <2>1, <3>4, <3>7
  <2>4. QED  BY <2>2, <2>3
<1>4. QED  BY <1>2, <1>3

LEMMA LastIsMax ==
  ASSUME NEW n \in Nat, NEW s \in SUBSET (1..n), s # {}
  PROVE  Max(s) \in s
<1> DEFINE R == {n - x : x \in s}
<1>1. R \in SUBSET Nat /\ R # {}
  <2>1. \A x \in s : x \in 1..n /\ n - x \in Nat
    OBVIOUS
  <2>2. QED  BY <2>1
<1>2. PICK r \in R : \A y \in R : r <= y
  BY <1>1, LeastExists
<1>3. PICK x \in s : r = n - x
  BY <1>2
<1>4. \A y \in s : x >= y
  <2> SUFFICES ASSUME NEW y \in s  PROVE x >= y
    OBVIOUS
  <2>1. n - y \in R
    OBVIOUS
  <2>2. QED  BY <1>2, <1>3, <2>1
<1>5. QED  BY <1>3, <1>4 DEF Max

\* F folds 1 .. n into base from the left.
LeftFolding(n, T, base, F) == base \in T /\ F \in [T \X (1..n) -> T]
LeftFolded(h, n, T, base, F) ==
  /\ h \in [SUBSET (1..n) -> T] /\ h[{}] = base
  /\ \A s \in SUBSET (1..n) : s # {} => h[s] = F[<<h[s \ {Max(s)}], Max(s)>>]

LEMMA LeftFoldExists ==
  ASSUME NEW n \in Nat, NEW T, NEW base, NEW F, LeftFolding(n, T, base, F)
  PROVE  \E h : LeftFolded(h, n, T, base, F)
<1> DEFINE c == [s \in SUBSET (1..n) |-> Max(s)]
           S == 1..n
<1>1. \A s \in SUBSET S : s # {} => c[s] \in s
  BY LastIsMax
<1>2. IsFiniteSet(S)
  BY FS_Interval
<1>3. \A s \in SUBSET (1..n) : c[s] = Max(s)
  OBVIOUS
<1>4. Folding(S, T, base, F, c)
  BY <1>1, <1>2 DEF Folding, LeftFolding
<1> HIDE DEF c, S
<1>5. PICK h : Folded(h, S, T, base, F, c)
  BY <1>4, FoldExists
<1>6. LeftFolded(h, n, T, base, F)
  BY <1>3, <1>5 DEF S, Folded, LeftFolded
<1>7. QED  BY <1>6

LEMMA Prefix ==
  ASSUME NEW n \in Nat, NEW k \in 1..n
  PROVE  /\ 1..k \in SUBSET (1..n) /\ 1..k # {} /\ Max(1..k) = k
         /\ (1..k) \ {k} = 1..k - 1
<1>1. k \in Nat /\ k \in 1..k /\ (1..k) \ {k} = 1..k - 1 /\ 1..k \in SUBSET (1..n)
  OBVIOUS
<1>2. QED  BY <1>1, MaxIs

-----------------------------------------------------------------------------
(* The integration time.                                                   *)

Sums(bytes, h) ==
  LET index == [k \in DOMAIN bytes |-> k]
  IN h = [s \in SUBSET DOMAIN index |->
            IF s = {} THEN 0
            ELSE LET x == Max(s)
                 IN h[s \ {x}] + bytes[index[x]] * Place[index[x]]]

\* What UnsignedLEtoInt has after each byte.
LEMMA UnsignedRuns ==
  ASSUME NEW n \in 1..4, NEW bytes \in [1..n -> Int]
  PROVE  \E g : /\ g[0] = 0
                /\ \A k \in 1..n :
                     g[k] = g[k - 1] + bytes[k] * Place[k]
                /\ UnsignedLEtoInt(bytes) = g[n]
<1> DEFINE h == CHOOSE h : Sums(bytes, h)
           index == [k \in DOMAIN bytes |-> k]
           F == [a \in Int \X (1..n) |->
                   a[1] + bytes[a[2]] * Place[a[2]]]
<1>1. /\ n \in Nat /\ DOMAIN bytes = 1..n
      /\ DOMAIN index = 1..n
      /\ \A x \in 1..n : index[x] = x
  OBVIOUS
<1>2. UnsignedLEtoInt(bytes) = h[1..n]
  <2>1. UnsignedLEtoInt(bytes) = h[DOMAIN index]
    BY DEF UnsignedLEtoInt, FoldLeft, MapThenFoldSet, Sums
  <2>2. QED  BY <1>1, <2>1
<1>3. /\ 0 \in Int
      /\ \A a \in Int, x \in 1..n :
           a + bytes[x] * Place[x] \in Int
  <2>1. \A k \in 1..n : Place[k] \in Nat
    BY ByteAssumption DEF Place
  <2>2. QED  BY <2>1
<1>4. /\ LeftFolding(n, Int, 0, F)
      /\ \A a \in Int, x \in 1..n :
           F[<<a, x>>] = a + bytes[x] * Place[x]
  BY <1>3 DEF LeftFolding
<1>5. \E f : Sums(bytes, f)
  <2> HIDE DEF F
  <2>1. PICK f : LeftFolded(f, n, Int, 0, F)
    BY <1>1, <1>4, LeftFoldExists
  <2>2. ASSUME NEW s \in SUBSET (1..n), s # {}
        PROVE  f[s] = f[s \ {Max(s)}] + bytes[Max(s)] * Place[Max(s)]
    <3>1. Max(s) \in 1..n /\ s \ {Max(s)} \in SUBSET (1..n)
      BY <1>1, <2>2, LastIsMax
    <3>2. f[s \ {Max(s)}] \in Int
      BY <2>1, <3>1 DEF LeftFolded
    <3>3. QED  BY <1>4, <2>1, <2>2, <3>1, <3>2 DEF LeftFolded
  <2>3. f = [s \in SUBSET (1..n) |-> IF s = {} THEN 0
                 ELSE f[s \ {Max(s)}] + bytes[Max(s)] * Place[Max(s)]]
    BY <2>1, <2>2 DEF LeftFolded
  <2>4. \A s \in SUBSET (1..n) : s # {} => index[Max(s)] = Max(s)
    BY <1>1, LastIsMax
  <2> HIDE DEF index
  <2>5. f = [s \in SUBSET DOMAIN index |-> IF s = {} THEN 0
                 ELSE f[s \ {Max(s)}] + bytes[index[Max(s)]] * Place[index[Max(s)]]]
    BY <1>1, <2>3, <2>4
  <2>6. Sums(bytes, f)
    BY <2>5 DEF Sums, index
  <2>7. QED  BY <2>6
<1>6. Sums(bytes, h)
  BY <1>5
<1> HIDE DEF h, F
<1>7. h = [s \in SUBSET DOMAIN index |-> IF s = {} THEN 0
             ELSE h[s \ {Max(s)}] + bytes[index[Max(s)]] * Place[index[Max(s)]]]
  BY <1>6, Zenon DEF Sums
<1> HIDE DEF index
<1>8. \A s \in SUBSET (1..n) :
        h[s] = IF s = {} THEN 0
               ELSE h[s \ {Max(s)}] + bytes[index[Max(s)]] * Place[index[Max(s)]]
  BY <1>1, <1>7
<1> DEFINE g == [k \in 0..n |-> h[1..k]]
<1>9. g[0] = 0 /\ g[n] = h[1..n]
  <2>1. 1..0 = {} /\ {} \in SUBSET (1..n)
        /\ 0 \in 0..n /\ n \in 0..n
    BY <1>1
  <2>2. h[1..0] = 0
    BY <1>8, <2>1
  <2>3. QED  BY <2>1, <2>2
<1>10. ASSUME NEW k \in 1..n
      PROVE  g[k] = g[k - 1] + bytes[k] * Place[k]
  <2>1. /\ 1..k \in SUBSET (1..n) /\ 1..k # {} /\ Max(1..k) = k
        /\ (1..k) \ {k} = 1..k - 1
    BY <1>1, Prefix
  <2>2. h[1..k] = h[(1..k) \ {k}] + bytes[index[k]] * Place[index[k]]
    BY <1>1, <1>8, <2>1
  <2>3. k \in 0..n /\ k - 1 \in 0..n
    BY <1>1
  <2>4. QED  BY <1>1, <2>1, <2>2, <2>3
<1>11. QED  BY <1>2, <1>9, <1>10

Exchanges(bytes, h) ==
  LET index == [k \in 1..4 |-> k]
  IN h = [s \in SUBSET DOMAIN index |->
            IF s = {} THEN bytes
            ELSE LET x == Max(s)
                 IN Exchanged(h[s \ {x}], index[x])]

\* What swapBytes has after each exchange in four bytes.
LEMMA SwapRuns ==
  ASSUME NEW bytes \in [1..4 -> Int]
  PROVE  \E g : /\ g[0] = bytes
                /\ \A k \in 1..4 :
                     g[k] = Exchanged(g[k - 1], k)
                /\ swapBytes(bytes) = g[4]
<1> DEFINE h == CHOOSE h : Exchanges(bytes, h)
           index == [k \in 1..4 |-> k]
           F == [a \in [1..4 -> Int] \X (1..4) |->
                   Exchanged(a[1], a[2])]
<1>0. Len(bytes) = 4 /\ 1..(IF 4 % 2 = 0 THEN 4 ELSE 4 \div 2) = 1..4
  OBVIOUS
<1>1. /\ 4 \in Nat /\ 1..4 = 1..4
      /\ DOMAIN index = 1..4
      /\ \A x \in 1..4 : index[x] = x
  OBVIOUS
<1>2. swapBytes(bytes) = h[1..4]
  <2>1. swapBytes(bytes) = h[DOMAIN index]
    BY <1>0 DEF swapBytes, FoldLeft, MapThenFoldSet, Exchanges
  <2>2. QED  BY <1>1, <2>1
<1>3. /\ bytes \in [1..4 -> Int]
      /\ \A a \in [1..4 -> Int], x \in 1..4 :
           Exchanged(a, x) \in [1..4 -> Int]
  <2> SUFFICES ASSUME NEW a \in [1..4 -> Int], NEW x \in 1..4
               PROVE  Exchanged(a, x) \in [1..4 -> Int]
    OBVIOUS
  <2>1. Len(a) = 4 /\ 4 + 1 - x \in 1..4 /\ a[x] \in Int /\ a[4 + 1 - x] \in Int
    OBVIOUS
  <2>2. Exchanged(a, x) = [a EXCEPT ![x] = a[4 + 1 - x], ![4 + 1 - x] = a[x]]
    BY <2>1 DEF Exchanged
  <2>3. QED  BY <2>1, <2>2
<1>4. /\ LeftFolding(4, [1..4 -> Int], bytes, F)
      /\ \A a \in [1..4 -> Int], x \in 1..4 :
           F[<<a, x>>] = Exchanged(a, x)
  BY <1>3 DEF LeftFolding
<1>5. \E f : Exchanges(bytes, f)
  <2> HIDE DEF F
  <2>1. PICK f : LeftFolded(f, 4, [1..4 -> Int], bytes, F)
    BY <1>1, <1>4, LeftFoldExists
  <2>2. ASSUME NEW s \in SUBSET (1..4), s # {}
        PROVE  f[s] = Exchanged(f[s \ {Max(s)}], Max(s))
    <3>1. Max(s) \in 1..4 /\ s \ {Max(s)} \in SUBSET (1..4)
      BY <1>1, <2>2, LastIsMax
    <3>2. f[s \ {Max(s)}] \in [1..4 -> Int]
      BY <2>1, <3>1 DEF LeftFolded
    <3>3. QED  BY <1>4, <2>1, <2>2, <3>1, <3>2 DEF LeftFolded
  <2>3. f = [s \in SUBSET (1..4) |-> IF s = {} THEN bytes
                 ELSE Exchanged(f[s \ {Max(s)}], Max(s))]
    BY <2>1, <2>2 DEF LeftFolded
  <2>4. \A s \in SUBSET (1..4) : s # {} => index[Max(s)] = Max(s)
    BY <1>1, LastIsMax
  <2> HIDE DEF index
  <2>5. f = [s \in SUBSET DOMAIN index |-> IF s = {} THEN bytes
                 ELSE Exchanged(f[s \ {Max(s)}], index[Max(s)])]
    BY <1>1, <2>3, <2>4
  <2>6. Exchanges(bytes, f)
    BY <2>5 DEF Exchanges, index
  <2>7. QED  BY <2>6
<1>6. Exchanges(bytes, h)
  BY <1>5
<1> HIDE DEF h, F
<1>7. h = [s \in SUBSET DOMAIN index |-> IF s = {} THEN bytes
             ELSE Exchanged(h[s \ {Max(s)}], index[Max(s)])]
  BY <1>6, Zenon DEF Exchanges
<1> HIDE DEF index
<1>8. \A s \in SUBSET (1..4) :
        h[s] = IF s = {} THEN bytes
               ELSE Exchanged(h[s \ {Max(s)}], index[Max(s)])
  BY <1>1, <1>7
<1> DEFINE g == [k \in 0..4 |-> h[1..k]]
<1>9. g[0] = bytes /\ g[4] = h[1..4]
  <2>1. 1..0 = {} /\ {} \in SUBSET (1..4)
        /\ 0 \in 0..4 /\ 4 \in 0..4
    BY <1>1
  <2>2. h[1..0] = bytes
    BY <1>8, <2>1
  <2>3. QED  BY <2>1, <2>2
<1>10. ASSUME NEW k \in 1..4
      PROVE  g[k] = Exchanged(g[k - 1], k)
  <2>1. /\ 1..k \in SUBSET (1..4) /\ 1..k # {} /\ Max(1..k) = k
        /\ (1..k) \ {k} = 1..k - 1
    BY <1>1, Prefix
  <2>2. h[1..k] = Exchanged(h[(1..k) \ {k}], index[k])
    BY <1>1, <1>8, <2>1
  <2>3. k \in 0..4 /\ k - 1 \in 0..4
    BY <1>1
  <2>4. QED  BY <1>1, <2>1, <2>2, <2>3
<1>11. QED  BY <1>2, <1>9, <1>10

\* In four bytes each pair is exchanged twice.
LEMMA SwapsBack ==
  ASSUME NEW bytes \in [1..4 -> Int]
  PROVE  swapBytes(bytes) = bytes
<1>1. PICK g : /\ g[0] = bytes /\ \A k \in 1..4 : g[k] = Exchanged(g[k - 1], k)
               /\ swapBytes(bytes) = g[4]
  BY SwapRuns
<1>2. ASSUME NEW s \in [1..4 -> Int], NEW k \in 1..4
      PROVE  /\ Exchanged(s, k) \in [1..4 -> Int]
             /\ Exchanged(s, k)[k] = s[5 - k] /\ Exchanged(s, k)[5 - k] = s[k]
             /\ \A j \in 1..4 : j # k /\ j # 5 - k => Exchanged(s, k)[j] = s[j]
  <2>1. Len(s) = 4 /\ 4 + 1 - k \in 1..4 /\ 4 + 1 - k = 5 - k
        /\ s[k] \in Int /\ s[4 + 1 - k] \in Int /\ k # 4 + 1 - k
    OBVIOUS
  <2>2. Exchanged(s, k) = [s EXCEPT ![k] = s[4 + 1 - k], ![4 + 1 - k] = s[k]]
    BY <2>1 DEF Exchanged
  <2>3. QED  BY <2>1, <2>2
<1>3. g[1] \in [1..4 -> Int] /\ g[1] = Exchanged(bytes, 1)
  BY <1>1, <1>2
<1>4. g[2] \in [1..4 -> Int] /\ g[2] = Exchanged(g[1], 2)
  BY <1>1, <1>2, <1>3
<1>5. g[3] \in [1..4 -> Int] /\ g[3] = Exchanged(g[2], 3)
  BY <1>1, <1>2, <1>4
<1>6. g[4] \in [1..4 -> Int] /\ g[4] = Exchanged(g[3], 4)
  BY <1>1, <1>2, <1>5
<1>7. /\ g[1][1] = bytes[4] /\ g[1][2] = bytes[2] /\ g[1][3] = bytes[3] /\ g[1][4] = bytes[1]
      /\ g[2][1] = bytes[4] /\ g[2][2] = bytes[3] /\ g[2][3] = bytes[2] /\ g[2][4] = bytes[1]
  <2>1. g[1][1] = bytes[4] /\ g[1][2] = bytes[2] /\ g[1][3] = bytes[3] /\ g[1][4] = bytes[1]
    BY <1>2, <1>3
  <2>2. g[2][1] = g[1][1] /\ g[2][2] = g[1][3] /\ g[2][3] = g[1][2] /\ g[2][4] = g[1][4]
    BY <1>2, <1>3, <1>4
  <2>3. QED  BY <2>1, <2>2
<1>8. g[3][1] = g[2][1] /\ g[3][2] = g[2][3] /\ g[3][3] = g[2][2] /\ g[3][4] = g[2][4]
  BY <1>2, <1>4, <1>5
<1>9. g[4][1] = g[3][4] /\ g[4][2] = g[3][2] /\ g[4][3] = g[3][3] /\ g[4][4] = g[3][1]
  BY <1>2, <1>5, <1>6
<1>10. \A j \in 1..4 : g[4][j] = bytes[j]
  BY <1>7, <1>8, <1>9
<1>11. QED  BY <1>1, <1>6, <1>10

LEMMA BytesAre ==
  ASSUME NEW n \in Nat, NEW size \in 1..4
  PROVE  /\ Bytes(n, size) \in [1..size -> Int]
         /\ \A k \in 1..size : Bytes(n, size)[k] = (n \div Place[k]) % ByteSize
<1>1. ByteSize \in Nat \ {0}
  BY ByteAssumption
<1>2. \A k \in 1..4 : Place[k] \in Nat \ {0}
  BY <1>1 DEF Place
<1>3. \A k \in 1..4 : (n \div Place[k]) % ByteSize \in Int
  <2> SUFFICES ASSUME NEW k \in 1..4  PROVE (n \div Place[k]) % ByteSize \in Int
    OBVIOUS
  <2> DEFINE p == Place[k]
  <2>0. p \in Nat \ {0} /\ n \in Int
    BY <1>2
  <2> HIDE DEF p
  <2>1. n \div p \in Int
    BY <2>0, DivFacts
  <2> DEFINE d == n \div p
  <2> HIDE DEF d
  <2>2. d % ByteSize \in Int
    BY <1>1, <2>1 DEF d
  <2>3. QED  BY <2>2 DEF d, p
<1>4. QED  BY <1>3 DEF Bytes

\* Two bytes hold a count, four an integration time.
LEMMA TwoHold ==
  ASSUME NEW n \in 0..TwoBytes - 1
  PROVE  UnsignedLEtoInt(Bytes(n, 2)) = n
<1> DEFINE b == ByteSize
           d == n \div b
<1>1. b \in Nat \ {0} /\ TwoBytes = b * b /\ n \in Nat /\ Place[1] = 1 /\ Place[2] = b
  BY ByteAssumption DEF TwoBytes, Place
<1>2. Bytes(n, 2) \in [1..2 -> Int] /\ Bytes(n, 2)[1] = (n \div 1) % b /\ Bytes(n, 2)[2] = d % b
  <2>1. /\ Bytes(n, 2) \in [1..2 -> Int]
        /\ \A k \in 1..2 : Bytes(n, 2)[k] = (n \div Place[k]) % ByteSize
    <3>1. n \in Nat /\ 2 \in 1..4
      BY <1>1
    <3>2. QED  BY <3>1, BytesAre, Zenon
  <2>2. QED  BY <1>1, <2>1
<1>3. PICK g : /\ g[0] = 0 /\ \A k \in 1..2 : g[k] = g[k - 1] + Bytes(n, 2)[k] * Place[k]
               /\ UnsignedLEtoInt(Bytes(n, 2)) = g[2]
  BY <1>2, UnsignedRuns
<1>4. d \in Nat /\ n % b \in 0..b - 1 /\ n = (n % b) + d * b /\ n \div 1 = n
  <2>1. n \div 1 = n
    BY <1>1
  <2>2. QED  BY <1>1, <2>1, Digits
<1> HIDE DEF b, d
<1>5. d < b
  <2>1. d * b <= n /\ n < b * b
    BY <1>1, <1>4
  <2>2. CASE b <= d
    <3>1. b * b <= d * b
      BY <1>1, <1>4, <2>2
    <3>2. QED  BY <1>1, <1>4, <2>1, <3>1
  <2>3. QED  BY <1>1, <1>4, <2>2
<1>6. d % b = d
  BY <1>1, <1>4, <1>5
<1>7. g[1] = 0 + (n % b) * 1 /\ g[2] = g[1] + d * b
  <2>1. g[1] = g[0] + Bytes(n, 2)[1] * Place[1] /\ g[2] = g[1] + Bytes(n, 2)[2] * Place[2]
    BY <1>3
  <2>2. QED  BY <1>1, <1>2, <1>3, <1>4, <1>6, <2>1
<1>8. n % b \in Int /\ d * b \in Int
  BY <1>1, <1>4
<1>9. QED  BY <1>3, <1>4, <1>7, <1>8

LEMMA FourHold ==
  ASSUME NEW n \in 0..Place[4] * ByteSize - 1
  PROVE  UnsignedLEtoInt(Bytes(n, 4)) = n
<1> DEFINE b == ByteSize
           d1 == n \div b
           d2 == d1 \div b
           d3 == d2 \div b
<1>1. /\ b \in Nat \ {0} /\ n \in Nat /\ n < (b * b * b) * b
      /\ Place[1] = 1 /\ Place[2] = b /\ Place[3] = b * b /\ Place[4] = b * b * b
  BY ByteAssumption DEF Place
<1>2. /\ Bytes(n, 4) \in [1..4 -> Int]
      /\ \A k \in 1..4 : Bytes(n, 4)[k] = (n \div Place[k]) % b
  <2>1. n \in Nat /\ 4 \in 1..4
    BY <1>1
  <2>2. QED  BY <2>1, BytesAre, Zenon
<1>3. PICK g : /\ g[0] = 0 /\ \A k \in 1..4 : g[k] = g[k - 1] + Bytes(n, 4)[k] * Place[k]
               /\ UnsignedLEtoInt(Bytes(n, 4)) = g[4]
  BY <1>2, UnsignedRuns
<1>4. d1 \in Nat /\ n % b \in 0..b - 1 /\ n = (n % b) + d1 * b
      /\ \A p \in Nat \ {0} : n \div (p * b) = d1 \div p
  BY <1>1, Digits
<1>5. d2 \in Nat /\ d1 % b \in 0..b - 1 /\ d1 = (d1 % b) + d2 * b
      /\ \A p \in Nat \ {0} : d1 \div (p * b) = d2 \div p
  <2> HIDE DEF b, d1
  <2>1. QED  BY <1>1, <1>4, Digits
<1>6. d3 \in Nat /\ d2 % b \in 0..b - 1 /\ d2 = (d2 % b) + d3 * b
  <2> HIDE DEF b, d1, d2
  <2>1. QED  BY <1>1, <1>5, Digits
<1>7. n \div 1 = n /\ n \div b = d1 /\ n \div (b * b) = d2 /\ n \div (b * b * b) = d3
  <2>1. n \div 1 = n
    BY <1>1
  <2>2. b * b \in Nat \ {0} /\ b * b * b = (b * b) * b
    BY <1>1
  <2> HIDE DEF b, d1, d2, d3
  <2>3. n \div (b * b) = d1 \div b /\ n \div ((b * b) * b) = d1 \div (b * b)
    BY <1>1, <1>4, <2>2
  <2>4. d1 \div (b * b) = d2 \div b
    BY <1>1, <1>5
  <2>5. QED  BY <2>1, <2>2, <2>3, <2>4 DEF d1, d2, d3
<1> DEFINE x1 == n % b
           x2 == d1 % b
           x3 == d2 % b
           B1 == Bytes(n, 4)[1]
           B2 == Bytes(n, 4)[2]
           B3 == Bytes(n, 4)[3]
           B4 == Bytes(n, 4)[4]
<1>8. B1 = x1 /\ B2 = x2 /\ B3 = x3 /\ B4 = d3 % b
  <2> HIDE DEF b, d1, d2, d3
  <2>1. B1 = (n \div 1) % b /\ B2 = (n \div b) % b /\ B3 = (n \div (b * b)) % b
        /\ B4 = (n \div (b * b * b)) % b
    BY <1>1, <1>2
  <2>2. QED  BY <1>7, <2>1
<1>9. x1 \in Nat /\ x2 \in Nat /\ x3 \in Nat
      /\ n = x1 + d1 * b /\ d1 = x2 + d2 * b /\ d2 = x3 + d3 * b
  <2> HIDE DEF b, d1, d2, d3
  <2>1. QED  BY <1>1, <1>4, <1>5, <1>6
<1>10. /\ g[1] = g[0] + B1 * Place[1] /\ g[2] = g[1] + B2 * Place[2]
       /\ g[3] = g[2] + B3 * Place[3] /\ g[4] = g[3] + B4 * Place[4]
  <2>1. g[1] = g[0] + B1 * Place[1]
    BY <1>3
  <2>2. g[2] = g[1] + B2 * Place[2]
    BY <1>3
  <2>3. g[3] = g[2] + B3 * Place[3]
    BY <1>3
  <2>4. g[4] = g[3] + B4 * Place[4]
    BY <1>3
  <2>5. QED  BY <2>1, <2>2, <2>3, <2>4
<1> HIDE DEF b, d1, d2, d3, x1, x2, x3, B1, B2, B3, B4
<1>11. d1 * b <= n /\ d2 * b <= d1 /\ d3 * b <= d2
  <2>1. d1 * b \in Nat /\ d2 * b \in Nat /\ d3 * b \in Nat
    BY <1>1, <1>4, <1>5, <1>6
  <2>2. QED  BY <1>1, <1>4, <1>5, <1>6, <1>9, <2>1
<1>12. d3 < b
  <2>1. CASE b <= d3
    <3>1. b * b <= d2
      <4>1. b * b <= d3 * b
        BY <1>1, <1>6, <2>1
      <4>2. b * b \in Nat /\ d3 * b \in Nat
        BY <1>1, <1>6
      <4>3. QED  BY <1>5, <1>11, <4>1, <4>2
    <3>2. (b * b) * b <= d1
      <4>1. (b * b) * b <= d2 * b
        BY <1>1, <1>5, <3>1
      <4>2. (b * b) * b \in Nat /\ d2 * b \in Nat
        BY <1>1, <1>5
      <4>3. QED  BY <1>4, <1>11, <4>1, <4>2
    <3>3. ((b * b) * b) * b <= d1 * b
      BY <1>1, <1>4, <3>2
    <3>4. ((b * b) * b) * b \in Nat /\ d1 * b \in Nat
      BY <1>1, <1>4
    <3>5. QED  BY <1>1, <1>11, <3>3, <3>4
  <2>2. QED  BY <1>1, <1>6, <2>1
<1>13. d3 % b = d3
  BY <1>1, <1>6, <1>12
<1>14. g[4] = ((x1 * 1 + x2 * b) + x3 * (b * b)) + d3 * (b * b * b)
  <2>1. x1 * 1 \in Nat /\ 0 + x1 * 1 = x1 * 1
    BY <1>9
  <2>2. g[1] = x1 * 1
    BY <1>1, <1>3, <1>8, <1>10, <2>1
  <2>3. QED  BY <1>1, <1>8, <1>10, <1>13, <2>2
<1>15. x3 * (b * b) + d3 * (b * b * b) = d2 * (b * b)
  BY <1>1, <1>6, <1>9
<1>16. x2 * b + d2 * (b * b) = d1 * b
  BY <1>1, <1>5, <1>9
<1>17. n = ((x1 * 1 + x2 * b) + x3 * (b * b)) + d3 * (b * b * b)
  <2>1. x2 * b \in Nat /\ x3 * (b * b) \in Nat /\ d3 * (b * b * b) \in Nat /\ d2 * (b * b) \in Nat
        /\ d1 * b \in Nat
    BY <1>1, <1>4, <1>5, <1>6, <1>9
  <2>2. QED  BY <1>1, <1>9, <1>15, <1>16, <2>1
<1>18. QED  BY <1>3, <1>14, <1>17

\* TimeKept: the device integrates as long as it was asked to, for a byte of any size.
THEOREM TimeIsKept == ASpec => []TimeKept
<1>1. AInit => TimeKept
  <2>1. 0 \in 0..Place[4] * ByteSize - 1
    <3>1. ByteSize \in Nat \ {0} /\ Place[4] = ByteSize * ByteSize * ByteSize
      BY ByteAssumption DEF Place
    <3>2. ByteSize * ByteSize \in Nat \ {0}
      BY <3>1
    <3>3. (ByteSize * ByteSize) * ByteSize \in Nat \ {0}
      BY <3>1, <3>2
    <3>4. ((ByteSize * ByteSize) * ByteSize) * ByteSize \in Nat \ {0}
      BY <3>1, <3>3
    <3>5. QED  BY <3>1, <3>4
  <2>2. UnsignedLEtoInt(Bytes(0, 4)) = 0
    BY <2>1, FourHold
  <2>3. QED  BY <2>2 DEF AInit, TimeKept
<1>2. TimeKept /\ [ANext]_avars => TimeKept'
  <2> SUFFICES ASSUME TimeKept, [ANext]_avars  PROVE TimeKept'
    OBVIOUS
  <2>1. ASSUME NEW time \in Time, setIntegrationTime(time)
        PROVE  TimeKept'
    <3>1. time \in 0..Place[4] * ByteSize - 1 /\ time \in Nat
      BY ArgumentAssumption
    <3>2. Bytes(time, 4) \in [1..4 -> Int]
      <4>1. 4 \in 1..4
        OBVIOUS
      <4>2. QED  BY <3>1, <4>1, BytesAre, Zenon
    <3>3. UnsignedLEtoInt(swapBytes(Bytes(time, 4))) = time
      BY <3>1, <3>2, SwapsBack, FourHold
    <3>4. ASSUME intact'
          PROVE  told' = swapBytes(Bytes(time, 4)) /\ integrationTime' = UnsignedLEtoInt(told')
      BY <2>1, <3>4 DEF setIntegrationTime, updateStatus
    <3>5. asked' = time
      BY <2>1 DEF setIntegrationTime
    <3>6. QED  BY <3>3, <3>4, <3>5 DEF TimeKept
  <2>2. ASSUME NEW exposures \in Scans, NEW boxcar \in Boxcar,
               getSpecSample(exposures, boxcar) \/ readRefSpectra(exposures, boxcar)
        PROVE  TimeKept'
    BY <2>2 DEF getSpecSample, readRefSpectra, times, TimeKept
  <2>3. CASE UNCHANGED avars
    BY <2>3 DEF avars, TimeKept
  <2>4. QED  BY <2>1, <2>2, <2>3 DEF ANext
<1>3. QED  BY <1>1, <1>2, PTL DEF ASpec

-----------------------------------------------------------------------------
(* Sums, and the means of scans and neighbours.                            *)

SumFolds(f, S, h) ==
  h = [s \in SUBSET S |-> IF s = {} THEN 0
         ELSE LET x == CHOOSE x \in s : TRUE
              IN h[s \ {x}] + f[x]]

\* A sum lies between as many times the bounds of what is added.
LEMMA SumBetween ==
  ASSUME NEW S, IsFiniteSet(S), NEW f, NEW lo \in Int, NEW hi \in Int,
         \A p \in S : f[p] \in Int /\ lo <= f[p] /\ f[p] <= hi
  PROVE  /\ SumOf(f, S) \in Int
         /\ Cardinality(S) * lo <= SumOf(f, S) /\ SumOf(f, S) <= Cardinality(S) * hi
<1> DEFINE h == CHOOSE h : SumFolds(f, S, h)
           F == [a \in Int \X S |-> a[1] + f[a[2]]]
           c == [s \in SUBSET S |-> CHOOSE x \in s : TRUE]
           first(s) == CHOOSE x \in s : TRUE
<1>1. SumOf(f, S) = h[S]
  BY DEF SumOf, FoldSet, MapThenFoldSet, SumFolds
<1>2. /\ \A s \in SUBSET S : c[s] = first(s) /\ (s # {} => first(s) \in s)
      /\ \A a \in Int, x \in S : F[<<a, x>>] = a + f[x]
  OBVIOUS
<1>3. Folding(S, Int, 0, F, c)
  BY <1>2 DEF Folding
<1>4. \E g : SumFolds(f, S, g)
  <2> HIDE DEF F, c
  <2>1. PICK g : Folded(g, S, Int, 0, F, c)
    BY <1>3, FoldExists
  <2>2. ASSUME NEW s \in SUBSET S, s # {}
        PROVE  g[s] = g[s \ {first(s)}] + f[first(s)]
    <3>1. c[s] = first(s) /\ first(s) \in S /\ s \ {first(s)} \in SUBSET S
      BY <1>2, <2>2
    <3> HIDE DEF first
    <3>2. g[s \ {first(s)}] \in Int
      BY <2>1, <3>1 DEF Folded
    <3>3. QED  BY <1>2, <2>1, <2>2, <3>1, <3>2 DEF Folded
  <2>3. g = [s \in SUBSET S |-> IF s = {} THEN 0 ELSE g[s \ {first(s)}] + f[first(s)]]
    <3> HIDE DEF first
    <3>1. QED  BY <2>1, <2>2 DEF Folded
  <2>4. SumFolds(f, S, g)
    BY <2>3 DEF SumFolds
  <2>5. QED  BY <2>4
<1>5. SumFolds(f, S, h)
  BY <1>4
<1> HIDE DEF h
<1>6. h = [s \in SUBSET S |-> IF s = {} THEN 0 ELSE h[s \ {first(s)}] + f[first(s)]]
  BY <1>5 DEF SumFolds
<1>7. \A s \in SUBSET S : s # {} => first(s) \in s
  BY <1>2
<1> HIDE DEF F, c, first
<1> DEFINE Bounded(s) == /\ h[s] \in Int
                         /\ Cardinality(s) * lo <= h[s] /\ h[s] <= Cardinality(s) * hi
           Bad == {k \in Nat : \E s \in SUBSET S : Cardinality(s) = k /\ ~Bounded(s)}
<1>8. \A s \in SUBSET S : IsFiniteSet(s) /\ Cardinality(s) \in Nat
      /\ (Cardinality(s) = 0 => s = {}) /\ (s = {} => Cardinality(s) = 0)
  BY FS_Subset, FS_CardinalityType, FS_EmptySet
<1>9. Bad = {}
  <2> SUFFICES ASSUME Bad # {}  PROVE FALSE
    OBVIOUS
  <2>1. PICK k \in Bad : \A y \in Bad : k <= y
    <3>1. Bad \in SUBSET Nat
      OBVIOUS
    <3> HIDE DEF Bad
    <3>2. QED  BY <3>1, LeastExists
  <2>2. k \in Nat
    BY <2>1
  <2>3. PICK s \in SUBSET S : Cardinality(s) = k /\ ~Bounded(s)
    BY <2>1
  <2>4. CASE s = {}
    <3>1. h[s] = 0 /\ Cardinality(s) = 0
      BY <1>6, <1>8, <2>4
    <3>2. QED  BY <2>3, <3>1
  <2>5. CASE s # {}
    <3>1. first(s) \in s /\ s \ {first(s)} \in SUBSET S /\ f[first(s)] \in Int
          /\ lo <= f[first(s)] /\ f[first(s)] <= hi
      BY <1>7, <2>5
    <3>2. Cardinality(s \ {first(s)}) = k - 1 /\ k - 1 \in Nat
      <4>1. Cardinality(s \ {first(s)}) = k - 1
        BY <1>8, <2>3, <3>1, FS_RemoveElement
      <4>2. QED  BY <1>8, <3>1, <4>1
    <3>3. k - 1 \notin Bad
      <4> HIDE DEF Bad
      <4>1. QED  BY <2>1, <2>2
    <3>4. Bounded(s \ {first(s)})
      BY <3>1, <3>2, <3>3
    <3>5. h[s] = h[s \ {first(s)}] + f[first(s)]
      BY <1>6, <2>5
    <3> DEFINE r == h[s \ {first(s)}]
    <3>6. r \in Int /\ (k - 1) * lo <= r /\ r <= (k - 1) * hi
      BY <3>2, <3>4
    <3>7. (k - 1) * lo + lo = k * lo /\ (k - 1) * hi + hi = k * hi
          /\ (k - 1) * lo \in Int /\ (k - 1) * hi \in Int
      <4> HIDE DEF Bad, Bounded
      <4>1. (k - 1) * lo + lo = k * lo /\ (k - 1) * lo \in Int
        BY <2>2
      <4>2. (k - 1) * hi + hi = k * hi /\ (k - 1) * hi \in Int
        BY <2>2
      <4>3. QED  BY <4>1, <4>2
    <3> HIDE DEF r
    <3>8. r + f[first(s)] \in Int /\ k * lo <= r + f[first(s)] /\ r + f[first(s)] <= k * hi
      BY <3>1, <3>6, <3>7
    <3>9. QED  BY <2>3, <3>5, <3>8 DEF r
  <2>6. QED  BY <2>4, <2>5
<1>10. S \in SUBSET S /\ Cardinality(S) \in Nat
  BY <1>8
<1>11. Bounded(S)
  BY <1>9, <1>10
<1>12. QED  BY <1>1, <1>11

\* A run that each step leaves within its bounds ends within them.
LEMMA RunStays ==
  ASSUME NEW n \in Nat, NEW g, NEW T, g[0] \in T[0],
         \A k \in 1..n : g[k - 1] \in T[k - 1] => g[k] \in T[k]
  PROVE  g[n] \in T[n]
<1> DEFINE Bad == {k \in 0..n : g[k] \notin T[k]}
<1>1. SUFFICES ASSUME Bad # {}  PROVE FALSE
  OBVIOUS
<1>2. PICK k \in Bad : \A y \in Bad : k <= y
  <2>1. Bad \in SUBSET Nat /\ Bad # {}
    BY <1>1
  <2> HIDE DEF Bad
  <2>2. QED  BY <2>1, LeastExists
<1>3. k \in 0..n /\ g[k] \notin T[k] /\ k # 0
  BY <1>2
<1>4. k \in 1..n /\ k - 1 \in 0..n /\ k - 1 \notin Bad
  <2> HIDE DEF Bad
  <2>1. QED  BY <1>2, <1>3
<1>5. g[k - 1] \in T[k - 1]
  BY <1>4
<1>6. QED  BY <1>3, <1>4, <1>5

LEMMA Extremes ==
  ASSUME NEW A \in SUBSET Int, A # {}, NEW b \in Nat, \A a \in A : -b <= a /\ a <= b
  PROVE  /\ Max(A) \in A /\ \A a \in A : a <= Max(A)
         /\ Min(A) \in A /\ \A a \in A : Min(A) <= a
<1>1. \E m \in A : \A a \in A : m <= a
  <2> DEFINE R == {a + b : a \in A}
  <2>1. R \in SUBSET Nat /\ R # {}
    <3>1. \A a \in A : a + b \in Nat
      OBVIOUS
    <3>2. QED  BY <3>1
  <2>2. PICK r \in R : \A y \in R : r <= y
    BY <2>1, LeastExists
  <2>3. PICK m \in A : r = m + b
    BY <2>2
  <2>4. \A a \in A : m <= a
    <3> SUFFICES ASSUME NEW a \in A  PROVE m <= a
      OBVIOUS
    <3>1. a + b \in R /\ a \in Int /\ m \in Int
      BY <2>3
    <3> HIDE DEF R
    <3>2. QED  BY <2>2, <2>3, <3>1
  <2>5. QED  BY <2>4
<1>2. \E m \in A : \A a \in A : m >= a
  <2> DEFINE R == {b - a : a \in A}
  <2>1. R \in SUBSET Nat /\ R # {}
    <3>1. \A a \in A : b - a \in Nat
      OBVIOUS
    <3>2. QED  BY <3>1
  <2>2. PICK r \in R : \A y \in R : r <= y
    BY <2>1, LeastExists
  <2>3. PICK m \in A : r = b - m
    BY <2>2
  <2>4. \A a \in A : m >= a
    <3> SUFFICES ASSUME NEW a \in A  PROVE m >= a
      OBVIOUS
    <3>1. b - a \in R /\ a \in Int /\ m \in Int
      BY <2>3
    <3> HIDE DEF R
    <3>2. QED  BY <2>2, <2>3, <3>1
  <2>5. QED  BY <2>4
<1>3. Max(A) \in A /\ \A a \in A : Max(A) >= a
  BY <1>2 DEF Max
<1>4. Min(A) \in A /\ \A a \in A : Min(A) <= a
  BY <1>1 DEF Min
<1>5. QED  BY <1>3, <1>4

\* What is read of a pixel is its count, as a short.
LEMMA ScanIs ==
  ASSUME NEW e \in Exposure
  PROVE  /\ Raw(e) \in [Pixel -> 0..TwoBytes - 1]
         /\ Scan(e) \in [Pixel -> Int]
         /\ \A p \in Pixel :
              /\ Scan(e)[p] = (IF 2 * Raw(e)[p] >= TwoBytes THEN Raw(e)[p] - TwoBytes
                               ELSE Raw(e)[p]) * satScale
              /\ -(TwoBytes * satScale) <= Scan(e)[p] /\ Scan(e)[p] <= TwoBytes * satScale
<1>1. TwoBytes \in Nat \ {0} /\ satScale \in Nat \ {0}
  BY ByteAssumption, ScaleAssumption DEF TwoBytes
<1>2. Raw(e) \in [Pixel -> 0..TwoBytes - 1]
  <2> SUFFICES ASSUME NEW p \in Pixel  PROVE Raw(e)[p] \in 0..TwoBytes - 1
    BY DEF Raw
  <2> DEFINE counts == e.dark + (IF p < start THEN 0 ELSE e.light[p] * e.dim)
  <2>1. e.light[p] \in Nat /\ e.dim \in Nat /\ e.dark \in Nat
    BY ExposureAssumption
  <2>2. counts \in Nat
    <3>1. e.light[p] * e.dim \in Nat
      BY <2>1
    <3>2. QED  BY <2>1, <3>1
  <2>3. Raw(e)[p] = IF counts < TwoBytes THEN counts ELSE TwoBytes - 1
    BY DEF Raw
  <2> HIDE DEF counts
  <2>4. QED  BY <1>1, <2>2, <2>3
<1>3. ASSUME NEW p \in Pixel
      PROVE  /\ newPixel(Raw(e)[p]) \in Int
             /\ newPixel(Raw(e)[p]) = IF 2 * Raw(e)[p] >= TwoBytes THEN Raw(e)[p] - TwoBytes
                                      ELSE Raw(e)[p]
             /\ -TwoBytes <= newPixel(Raw(e)[p]) /\ newPixel(Raw(e)[p]) <= TwoBytes
  <2> DEFINE c == Raw(e)[p]
  <2>1. c \in 0..TwoBytes - 1
    BY <1>2
  <2> HIDE DEF c
  <2>2. UnsignedLEtoInt(Bytes(c, 2)) = c
    BY <2>1, TwoHold
  <2>3. newPixel(c) = IF 2 * c >= TwoBytes THEN c - TwoBytes ELSE c
    BY <2>2 DEF newPixel
  <2>4. QED  BY <1>1, <2>1, <2>3 DEF c
<1>4. ASSUME NEW p \in Pixel
      PROVE  /\ Scan(e)[p] = newPixel(Raw(e)[p]) * satScale /\ Scan(e)[p] \in Int
             /\ -(TwoBytes * satScale) <= Scan(e)[p] /\ Scan(e)[p] <= TwoBytes * satScale
  <2> DEFINE v == newPixel(Raw(e)[p])
  <2>1. Scan(e)[p] = v * satScale
    BY DEF Scan
  <2>2. v \in Int /\ -TwoBytes <= v /\ v <= TwoBytes
    BY <1>3
  <2> HIDE DEF v
  <2>3. -(TwoBytes * satScale) = (-TwoBytes) * satScale
    BY <1>1
  <2>4. (-TwoBytes) * satScale <= v * satScale /\ v * satScale <= TwoBytes * satScale
    BY <1>1, <2>2
  <2>5. QED  BY <1>1, <2>1, <2>2, <2>3, <2>4 DEF v
<1>5. Scan(e) \in [Pixel -> Int]
  BY <1>4 DEF Scan
<1>6. QED  BY <1>2, <1>3, <1>4, <1>5

Averages(exposures, h) ==
  LET index == [k \in DOMAIN exposures |-> k]
  IN h = [s \in SUBSET DOMAIN index |->
            IF s = {} THEN [p \in Pixel |-> 0]
            ELSE LET x == Max(s)
                 IN Averaged(h[s \ {x}], index[x], Scan(exposures[index[x]]))]

\* What AverageOf has after each scan.
LEMMA AverageRuns ==
  ASSUME NEW n \in Nat, NEW exposures \in [1..n -> Exposure]
  PROVE  \E g : /\ g[0] = [p \in Pixel |-> 0]
                /\ \A k \in 1..n :
                     g[k] = Averaged(g[k - 1], k, Scan(exposures[k]))
                /\ AverageOf(exposures) = g[n]
<1> DEFINE h == CHOOSE h : Averages(exposures, h)
           index == [k \in DOMAIN exposures |-> k]
           F == [a \in [Pixel -> Int] \X (1..n) |->
                   Averaged(a[1], a[2], Scan(exposures[a[2]]))]
<1>1. /\ n \in Nat /\ DOMAIN exposures = 1..n
      /\ DOMAIN index = 1..n
      /\ \A x \in 1..n : index[x] = x
  OBVIOUS
<1>2. AverageOf(exposures) = h[1..n]
  <2>1. AverageOf(exposures) = h[DOMAIN index]
    BY DEF AverageOf, FoldLeft, MapThenFoldSet, Averages
  <2>2. QED  BY <1>1, <2>1
<1>3. /\ [p \in Pixel |-> 0] \in [Pixel -> Int]
      /\ \A a \in [Pixel -> Int], x \in 1..n :
           Averaged(a, x, Scan(exposures[x])) \in [Pixel -> Int]
  <2> SUFFICES ASSUME NEW a \in [Pixel -> Int], NEW x \in 1..n, NEW p \in Pixel
               PROVE  (a[p] * (x - 1) + Scan(exposures[x])[p]) \div x \in Int
    BY DEF Averaged
  <2> DEFINE y == a[p] * (x - 1) + Scan(exposures[x])[p]
  <2>1. Scan(exposures[x])[p] \in Int /\ a[p] \in Int /\ x \in Nat \ {0}
    BY ScanIs
  <2>2. a[p] * (x - 1) \in Int
    BY <2>1
  <2>3. y \in Int
    BY <2>1, <2>2
  <2> HIDE DEF y
  <2>4. y \div x \in Int
    BY <2>1, <2>3, DivFacts
  <2>5. QED  BY <2>4 DEF y
<1>4. /\ LeftFolding(n, [Pixel -> Int], [p \in Pixel |-> 0], F)
      /\ \A a \in [Pixel -> Int], x \in 1..n :
           F[<<a, x>>] = Averaged(a, x, Scan(exposures[x]))
  BY <1>3 DEF LeftFolding
<1>5. \E f : Averages(exposures, f)
  <2> HIDE DEF F
  <2>1. PICK f : LeftFolded(f, n, [Pixel -> Int], [p \in Pixel |-> 0], F)
    BY <1>1, <1>4, LeftFoldExists
  <2>2. ASSUME NEW s \in SUBSET (1..n), s # {}
        PROVE  f[s] = Averaged(f[s \ {Max(s)}], Max(s), Scan(exposures[Max(s)]))
    <3>1. Max(s) \in 1..n /\ s \ {Max(s)} \in SUBSET (1..n)
      BY <1>1, <2>2, LastIsMax
    <3>2. f[s \ {Max(s)}] \in [Pixel -> Int]
      BY <2>1, <3>1 DEF LeftFolded
    <3>3. QED  BY <1>4, <2>1, <2>2, <3>1, <3>2 DEF LeftFolded
  <2>3. f = [s \in SUBSET (1..n) |-> IF s = {} THEN [p \in Pixel |-> 0]
                 ELSE Averaged(f[s \ {Max(s)}], Max(s), Scan(exposures[Max(s)]))]
    BY <2>1, <2>2 DEF LeftFolded
  <2>4. \A s \in SUBSET (1..n) : s # {} => index[Max(s)] = Max(s)
    BY <1>1, LastIsMax
  <2> HIDE DEF index
  <2>5. f = [s \in SUBSET DOMAIN index |-> IF s = {} THEN [p \in Pixel |-> 0]
                 ELSE Averaged(f[s \ {Max(s)}], index[Max(s)], Scan(exposures[index[Max(s)]]))]
    BY <1>1, <2>3, <2>4
  <2>6. Averages(exposures, f)
    BY <2>5 DEF Averages, index
  <2>7. QED  BY <2>6
<1>6. Averages(exposures, h)
  BY <1>5
<1> HIDE DEF h, F
<1>7. h = [s \in SUBSET DOMAIN index |-> IF s = {} THEN [p \in Pixel |-> 0]
             ELSE Averaged(h[s \ {Max(s)}], index[Max(s)], Scan(exposures[index[Max(s)]]))]
  BY <1>6, Zenon DEF Averages
<1> HIDE DEF index
<1>8. \A s \in SUBSET (1..n) :
        h[s] = IF s = {} THEN [p \in Pixel |-> 0]
               ELSE Averaged(h[s \ {Max(s)}], index[Max(s)], Scan(exposures[index[Max(s)]]))
  BY <1>1, <1>7
<1> DEFINE g == [k \in 0..n |-> h[1..k]]
<1>9. g[0] = [p \in Pixel |-> 0] /\ g[n] = h[1..n]
  <2>1. 1..0 = {} /\ {} \in SUBSET (1..n)
        /\ 0 \in 0..n /\ n \in 0..n
    BY <1>1
  <2>2. h[1..0] = [p \in Pixel |-> 0]
    BY <1>8, <2>1
  <2>3. QED  BY <2>1, <2>2
<1>10. ASSUME NEW k \in 1..n
      PROVE  g[k] = Averaged(g[k - 1], k, Scan(exposures[k]))
  <2>1. /\ 1..k \in SUBSET (1..n) /\ 1..k # {} /\ Max(1..k) = k
        /\ (1..k) \ {k} = 1..k - 1
    BY <1>1, Prefix
  <2>2. h[1..k] = Averaged(h[(1..k) \ {k}], index[k], Scan(exposures[index[k]]))
    BY <1>1, <1>8, <2>1
  <2>3. k \in 0..n /\ k - 1 \in 0..n
    BY <1>1
  <2>4. QED  BY <1>1, <2>1, <2>2, <2>3
<1>11. QED  BY <1>2, <1>9, <1>10

\* The average of scans lies between the bounds of the scans, pixel by pixel.
LEMMA AverageBetween ==
  ASSUME NEW n \in Nat \ {0}, NEW exposures \in [1..n -> Exposure],
         NEW lo \in [Pixel -> Int], NEW hi \in [Pixel -> Int],
         \A k \in 1..n, p \in Pixel :
           lo[p] <= Scan(exposures[k])[p] /\ Scan(exposures[k])[p] <= hi[p]
  PROVE  /\ AverageOf(exposures) \in [Pixel -> Int]
         /\ \A p \in Pixel : lo[p] <= AverageOf(exposures)[p] /\ AverageOf(exposures)[p] <= hi[p]
<1>1. PICK g : /\ g[0] = [p \in Pixel |-> 0]
               /\ \A k \in 1..n : g[k] = Averaged(g[k - 1], k, Scan(exposures[k]))
               /\ AverageOf(exposures) = g[n]
  <2>1. n \in Nat
    OBVIOUS
  <2>2. QED  BY <2>1, AverageRuns
<1> DEFINE Within(k) == {f \in [Pixel -> Int] :
                           k > 0 => \A p \in Pixel : lo[p] <= f[p] /\ f[p] <= hi[p]}
           T == [k \in 0..n |-> Within(k)]
<1>2. g[0] \in Within(0)
  BY <1>1
<1>3. ASSUME NEW k \in 1..n, g[k - 1] \in Within(k - 1)
      PROVE  g[k] \in Within(k)
  <2> DEFINE scan == Scan(exposures[k])
             mean == g[k - 1]
  <2>1. scan \in [Pixel -> Int] /\ mean \in [Pixel -> Int] /\ k \in Nat \ {0}
    BY <1>3, ScanIs
  <2>2. g[k] = [p \in Pixel |-> (mean[p] * (k - 1) + scan[p]) \div k]
    BY <1>1 DEF Averaged
  <2>3. ASSUME NEW p \in Pixel
        PROVE  (mean[p] * (k - 1) + scan[p]) \div k \in lo[p]..hi[p]
    <3>1. lo[p] \in Int /\ hi[p] \in Int /\ scan[p] \in Int /\ mean[p] \in Int
          /\ lo[p] <= scan[p] /\ scan[p] <= hi[p]
      BY <2>1
    <3>2. (k - 1) * lo[p] <= mean[p] * (k - 1) /\ mean[p] * (k - 1) <= (k - 1) * hi[p]
      <4>1. CASE k = 1
        BY <3>1, <4>1
      <4>2. CASE k # 1
        <5>1. lo[p] <= mean[p] /\ mean[p] <= hi[p] /\ k - 1 \in Nat
          BY <1>3, <2>1, <4>2
        <5> DEFINE j == k - 1
        <5>2. j \in Nat
          BY <5>1
        <5> HIDE DEF j, mean
        <5>3. j * lo[p] <= mean[p] * j /\ mean[p] * j <= j * hi[p]
          BY <3>1, <5>1, <5>2
        <5>4. QED  BY <5>3 DEF j
      <4>3. QED  BY <4>1, <4>2
    <3> DEFINE y == mean[p] * (k - 1) + scan[p]
               l == (k - 1) * lo[p]
               u == (k - 1) * hi[p]
               m == mean[p] * (k - 1)
    <3>3. l \in Int /\ u \in Int /\ m \in Int /\ k * lo[p] = l + lo[p] /\ k * hi[p] = u + hi[p]
      BY <2>1, <3>1
    <3>4. y = m + scan[p] /\ l <= m /\ m <= u
      BY <3>2
    <3> HIDE DEF y, l, u, m, scan, mean
    <3>5. y \in Int /\ k * lo[p] <= y /\ y <= k * hi[p]
      BY <3>1, <3>3, <3>4
    <3>6. y \div k \in lo[p]..hi[p]
      BY <2>1, <3>1, <3>5, DivBetween
    <3>7. QED  BY <3>6 DEF y
  <2>4. \A p \in Pixel : g[k][p] \in lo[p]..hi[p] /\ lo[p] \in Int /\ hi[p] \in Int
    BY <2>2, <2>3
  <2>5. g[k] \in [Pixel -> Int]
    <3>1. \A p \in Pixel : (mean[p] * (k - 1) + scan[p]) \div k \in Int
      BY <2>3
    <3>2. QED  BY <2>2, <3>1
  <2>6. QED  BY <2>4, <2>5
<1>4. T[0] = Within(0) /\ T[n] = Within(n) /\ n > 0
      /\ \A k \in 1..n : T[k] = Within(k) /\ T[k - 1] = Within(k - 1)
  BY DEF T
<1> HIDE DEF Within, T
<1>5. /\ n \in Nat /\ g[0] \in T[0]
      /\ \A k \in 1..n : g[k - 1] \in T[k - 1] => g[k] \in T[k]
  BY <1>2, <1>3, <1>4
<1>6. g[n] \in T[n]
  BY <1>5, RunStays
<1>7. QED  BY <1>1, <1>4, <1>6 DEF Within

LEMMA PixelsAre ==
  /\ start \in Nat \ {0} /\ numPixels \in Nat /\ start < numPixels /\ Word \in Nat
  /\ numPixels <= Word /\ Pixel = 0..numPixels - 1 /\ Lit \in SUBSET Pixel
BY PixelAssumption DEF start, Pixel, Lit

\* Neighbours' mean lies between the bounds of the pixels behind the dark ones.
LEMMA MeanBetween ==
  ASSUME NEW S \in SUBSET Lit, NEW own \in Lit, NEW f \in [Pixel -> Int],
         NEW lo \in Int, NEW hi \in Int, \A p \in Lit : lo <= f[p] /\ f[p] <= hi
  PROVE  (SumOf(f, S) + f[own]) \div (Cardinality(S) + 1) \in lo..hi
<1>1. IsFiniteSet(S) /\ Cardinality(S) \in Nat
  <2>1. IsFiniteSet(Lit)
    BY PixelsAre, FS_Interval DEF Lit
  <2>2. QED  BY <2>1, FS_Subset, FS_CardinalityType
<1>2. \A p \in S : f[p] \in Int /\ lo <= f[p] /\ f[p] <= hi
  BY PixelsAre
<1> DEFINE c == Cardinality(S)
           sum == SumOf(f, S)
<1>3. sum \in Int /\ c * lo <= sum /\ sum <= c * hi
  BY <1>1, <1>2, SumBetween
<1>4. f[own] \in Int /\ lo <= f[own] /\ f[own] <= hi /\ c \in Nat
  BY <1>1, PixelsAre
<1> HIDE DEF c, sum
<1>5. (c + 1) * lo = c * lo + lo /\ (c + 1) * hi = c * hi + hi /\ c * lo \in Int /\ c * hi \in Int
  BY <1>4
<1> DEFINE y == sum + f[own]
           k == c + 1
<1>6. y \in Int /\ k \in Nat \ {0} /\ k * lo <= y /\ y <= k * hi
  BY <1>3, <1>4, <1>5
<1> HIDE DEF y, k
<1>7. y \div k \in lo..hi
  BY <1>6, DivBetween
<1>8. QED  BY <1>7 DEF y, k, c, sum

\* With an odd width each pixel of the filter stays between the bounds.
LEMMA SmoothBetween ==
  ASSUME NEW f \in [Pixel -> Int], NEW lo \in Int, NEW hi \in Int,
         \A p \in Lit : lo <= f[p] /\ f[p] <= hi,
         NEW boxcar \in Nat, boxcar % 2 = 1, boxcar > 2, boxcar < numPixels - start,
         NEW i \in Lit
  PROVE  Smooth(f, i, boxcar) \in lo..hi
<1> DEFINE M == boxcar \div 2
           left == {j \in Pixel : (i - M) % Word <= j /\ j < i}
           after == i + 1 .. i + M
<1>1. M \in Nat \ {0} /\ boxcar = 2 * M + 1
  OBVIOUS
<1>2. i \in Nat /\ start <= i /\ i < numPixels
  BY PixelsAre DEF Lit
<1> USE PixelsAre
<1>3. CASE i < start + M
  <2> DEFINE S == (left \ 0..start - 1) \cup after
             own == i + M + 1
  <2>1. Smooth(f, i, boxcar) = (SumOf(f, S) + f[own]) \div (Cardinality(S) + 1)
    BY <1>3 DEF Smooth
  <2> HIDE DEF M
  <2>2. own \in Lit
    BY <1>1, <1>2, <1>3 DEF Lit
  <2>3. S \in SUBSET Lit
    BY <1>1, <1>2, <1>3 DEF Lit
  <2> HIDE DEF S, own
  <2>4. (SumOf(f, S) + f[own]) \div (Cardinality(S) + 1) \in lo..hi
    BY <2>2, <2>3, MeanBetween, Zenon
  <2>5. QED  BY <2>1, <2>4
<1>4. ASSUME ~(i < start + M)
      PROVE  left = i - M .. i - 1 /\ i - M \in Nat /\ start <= i - M
  <2> HIDE DEF M
  <2>1. i - M \in Nat /\ start <= i - M /\ i - M < Word
    BY <1>1, <1>2, <1>4
  <2>2. (i - M) % Word = i - M
    <3> DEFINE d == i - M
    <3>1. d \in Nat /\ d < Word
      BY <2>1
    <3> HIDE DEF d
    <3>2. d % Word = d
      BY <3>1
    <3>3. QED  BY <3>2 DEF d
  <2>3. left = {j \in Pixel : i - M <= j /\ j < i}
    BY <2>2
  <2>4. QED  BY <1>1, <1>2, <2>1, <2>3
<1>5. CASE ~(i < start + M) /\ i >= numPixels - M
  <2> DEFINE S == left \cup (after \cap Pixel)
  <2>1. Smooth(f, i, boxcar) = (SumOf(f, S) + f[i]) \div (Cardinality(S) + 1)
    BY <1>5 DEF Smooth
  <2>2. S \in SUBSET Lit
    <3>1. left \in SUBSET Lit
      <4> HIDE DEF M, left
      <4>1. QED  BY <1>1, <1>2, <1>4, <1>5 DEF Lit
    <3>2. after \cap Pixel \in SUBSET Lit
      <4> HIDE DEF M
      <4>1. QED  BY <1>1, <1>2 DEF Lit
    <3>3. QED  BY <3>1, <3>2
  <2> HIDE DEF S
  <2>3. (SumOf(f, S) + f[i]) \div (Cardinality(S) + 1) \in lo..hi
    BY <2>2, MeanBetween, Zenon
  <2>4. QED  BY <2>1, <2>3
<1>6. CASE ~(i < start + M) /\ ~(i >= numPixels - M)
  <2> DEFINE S == left \cup after
             sum == SumOf(f, S)
  <2>1. Smooth(f, i, boxcar) = (sum + f[i]) \div boxcar
    BY <1>6 DEF Smooth
  <2>2. S = (i - M .. i + M) \ {i} /\ S \in SUBSET Lit
    <3> HIDE DEF M, left
    <3>1. left = i - M .. i - 1 /\ i - M \in Nat /\ start <= i - M
      BY <1>4, <1>6
    <3>2. QED  BY <1>1, <1>2, <1>6, <3>1 DEF Lit
  <2>3. IsFiniteSet(S) /\ Cardinality(S) = 2 * M
    <3> HIDE DEF M, S
    <3>1. i - M \in Int /\ i + M \in Int /\ i - M <= i + M /\ i \in i - M .. i + M
          /\ (i + M) - (i - M) + 1 = 2 * M + 1
      BY <1>1, <1>2
    <3> DEFINE A == i - M .. i + M
    <3>2. IsFiniteSet(A) /\ Cardinality(A) = 2 * M + 1 /\ i \in A /\ S = A \ {i}
      BY <2>2, <3>1, FS_Interval
    <3> HIDE DEF A
    <3>3. IsFiniteSet(A \ {i}) /\ Cardinality(A \ {i}) = Cardinality(A) - 1
      BY <3>2, FS_RemoveElement
    <3>4. (2 * M + 1) - 1 = 2 * M
      BY <1>1
    <3>5. QED  BY <3>2, <3>3, <3>4
  <2>4. \A p \in S : f[p] \in Int /\ lo <= f[p] /\ f[p] <= hi
    <3> HIDE DEF S
    <3>1. QED  BY <2>2
  <2>5. sum \in Int /\ Cardinality(S) * lo <= sum /\ sum <= Cardinality(S) * hi
    <3> HIDE DEF S
    <3>1. QED  BY <2>3, <2>4, SumBetween
  <2>6. f[i] \in Int /\ lo <= f[i] /\ f[i] <= hi
    OBVIOUS
  <2> DEFINE l == (2 * M) * lo
             u == (2 * M) * hi
             y == sum + f[i]
  <2> HIDE DEF M, S, sum
  <2>7. l <= sum /\ sum <= u /\ l \in Int /\ u \in Int
        /\ boxcar * lo = l + lo /\ boxcar * hi = u + hi
    BY <1>1, <2>3, <2>5
  <2> HIDE DEF l, u
  <2>8. y \in Int /\ boxcar * lo <= y /\ y <= boxcar * hi /\ boxcar \in Nat \ {0}
    BY <2>5, <2>6, <2>7
  <2> HIDE DEF y
  <2>9. y \div boxcar \in lo..hi
    BY <2>8, DivBetween
  <2>10. QED  BY <2>1, <2>9 DEF y
<1>7. QED  BY <1>3, <1>5, <1>6

\* Samples that stay between the bounds behind the dark pixels and are pixels before.
Hull(pixels, lo, hi) ==
  {f \in [Pixel -> Int] : /\ \A p \in Lit : lo <= f[p] /\ f[p] <= hi
                          /\ \A p \in Pixel \ Lit : f[p] = pixels[p]}

LEMMA SmoothedStays ==
  ASSUME NEW pixels, NEW lo \in Int, NEW hi \in Int, NEW f \in Hull(pixels, lo, hi),
         NEW boxcar \in Nat, boxcar % 2 = 1, boxcar > 2, boxcar < numPixels - start,
         NEW i \in Lit
  PROVE  Smoothed(f, i, boxcar) \in Hull(pixels, lo, hi)
<1>1. f \in [Pixel -> Int] /\ \A p \in Lit : lo <= f[p] /\ f[p] <= hi
  BY DEF Hull
<1>2. Smooth(f, i, boxcar) \in lo..hi
  BY <1>1, SmoothBetween
<1>3. i \in Pixel /\ Smooth(f, i, boxcar) \in Int
  BY <1>2, PixelsAre
<1>4. Smoothed(f, i, boxcar) = [f EXCEPT ![i] = Smooth(f, i, boxcar)]
  BY DEF Smoothed
<1>5. Smoothed(f, i, boxcar) \in [Pixel -> Int]
  BY <1>1, <1>3, <1>4
<1>6. /\ Smoothed(f, i, boxcar)[i] = Smooth(f, i, boxcar)
      /\ \A p \in Pixel : p # i => Smoothed(f, i, boxcar)[p] = f[p]
  BY <1>1, <1>3, <1>4
<1>7. QED  BY <1>1, <1>2, <1>5, <1>6, PixelsAre DEF Hull

Filters(pixels, boxcar, h) ==
  LET index == [k \in 1..(numPixels - start) |-> start + k - 1]
  IN h = [s \in SUBSET DOMAIN index |->
            IF s = {} THEN pixels
            ELSE LET x == Max(s)
                 IN Smoothed(h[s \ {x}], index[x], boxcar)]

\* What boxcarFilter has after each pixel.
LEMMA FilterRuns ==
  ASSUME NEW lo \in Int, NEW hi \in Int, NEW pixels, pixels \in Hull(pixels, lo, hi),
         NEW boxcar \in Nat, boxcar % 2 = 1, boxcar > 2, boxcar < numPixels - start
  PROVE  \E g : /\ g[0] = pixels
                /\ \A k \in 1..(numPixels - start) :
                     g[k] = Smoothed(g[k - 1], start + k - 1, boxcar)
                /\ boxcarFilter(pixels, boxcar) = g[(numPixels - start)]
<1> DEFINE h == CHOOSE h : Filters(pixels, boxcar, h)
           index == [k \in 1..(numPixels - start) |-> start + k - 1]
           F == [a \in Hull(pixels, lo, hi) \X (1..(numPixels - start)) |->
                   Smoothed(a[1], start + a[2] - 1, boxcar)]
<1>1. /\ (numPixels - start) \in Nat /\ 1..(numPixels - start) = 1..(numPixels - start)
      /\ DOMAIN index = 1..(numPixels - start)
      /\ \A x \in 1..(numPixels - start) : index[x] = start + x - 1
  BY PixelsAre
<1>2. boxcarFilter(pixels, boxcar) = h[1..(numPixels - start)]
  <2>1. boxcarFilter(pixels, boxcar) = h[DOMAIN index]
    BY DEF boxcarFilter, FoldLeft, MapThenFoldSet, Filters
  <2>2. QED  BY <1>1, <2>1
<1>3. /\ pixels \in Hull(pixels, lo, hi)
      /\ \A a \in Hull(pixels, lo, hi), x \in 1..(numPixels - start) :
           Smoothed(a, start + x - 1, boxcar) \in Hull(pixels, lo, hi)
  <2> SUFFICES ASSUME NEW a \in Hull(pixels, lo, hi), NEW x \in 1..(numPixels - start)
               PROVE  Smoothed(a, start + x - 1, boxcar) \in Hull(pixels, lo, hi)
    OBVIOUS
  <2>1. start + x - 1 \in Lit
    BY PixelsAre DEF Lit
  <2>2. QED  BY <2>1, SmoothedStays
<1>4. /\ LeftFolding((numPixels - start), Hull(pixels, lo, hi), pixels, F)
      /\ \A a \in Hull(pixels, lo, hi), x \in 1..(numPixels - start) :
           F[<<a, x>>] = Smoothed(a, start + x - 1, boxcar)
  BY <1>3 DEF LeftFolding
<1>5. \E f : Filters(pixels, boxcar, f)
  <2> HIDE DEF F
  <2>1. PICK f : LeftFolded(f, (numPixels - start), Hull(pixels, lo, hi), pixels, F)
    BY <1>1, <1>4, LeftFoldExists
  <2>2. ASSUME NEW s \in SUBSET (1..(numPixels - start)), s # {}
        PROVE  f[s] = Smoothed(f[s \ {Max(s)}], start + Max(s) - 1, boxcar)
    <3>1. Max(s) \in 1..(numPixels - start) /\ s \ {Max(s)} \in SUBSET (1..(numPixels - start))
      BY <1>1, <2>2, LastIsMax
    <3>2. f[s \ {Max(s)}] \in Hull(pixels, lo, hi)
      BY <2>1, <3>1 DEF LeftFolded
    <3>3. QED  BY <1>4, <2>1, <2>2, <3>1, <3>2 DEF LeftFolded
  <2>3. f = [s \in SUBSET (1..(numPixels - start)) |-> IF s = {} THEN pixels
                 ELSE Smoothed(f[s \ {Max(s)}], start + Max(s) - 1, boxcar)]
    BY <2>1, <2>2 DEF LeftFolded
  <2>4. \A s \in SUBSET (1..(numPixels - start)) : s # {} => index[Max(s)] = start + Max(s) - 1
    BY <1>1, LastIsMax
  <2> HIDE DEF index
  <2>5. f = [s \in SUBSET DOMAIN index |-> IF s = {} THEN pixels
                 ELSE Smoothed(f[s \ {Max(s)}], index[Max(s)], boxcar)]
    BY <1>1, <2>3, <2>4
  <2>6. Filters(pixels, boxcar, f)
    BY <2>5 DEF Filters, index
  <2>7. QED  BY <2>6
<1>6. Filters(pixels, boxcar, h)
  BY <1>5
<1> HIDE DEF h, F
<1>7. h = [s \in SUBSET DOMAIN index |-> IF s = {} THEN pixels
             ELSE Smoothed(h[s \ {Max(s)}], index[Max(s)], boxcar)]
  BY <1>6, Zenon DEF Filters
<1> HIDE DEF index
<1>8. \A s \in SUBSET (1..(numPixels - start)) :
        h[s] = IF s = {} THEN pixels
               ELSE Smoothed(h[s \ {Max(s)}], index[Max(s)], boxcar)
  BY <1>1, <1>7
<1> DEFINE g == [k \in 0..(numPixels - start) |-> h[1..k]]
<1>9. g[0] = pixels /\ g[(numPixels - start)] = h[1..(numPixels - start)]
  <2>1. 1..0 = {} /\ {} \in SUBSET (1..(numPixels - start))
        /\ 0 \in 0..(numPixels - start) /\ (numPixels - start) \in 0..(numPixels - start)
    BY <1>1
  <2>2. h[1..0] = pixels
    BY <1>8, <2>1
  <2>3. QED  BY <2>1, <2>2
<1>10. ASSUME NEW k \in 1..(numPixels - start)
      PROVE  g[k] = Smoothed(g[k - 1], start + k - 1, boxcar)
  <2>1. /\ 1..k \in SUBSET (1..(numPixels - start)) /\ 1..k # {} /\ Max(1..k) = k
        /\ (1..k) \ {k} = 1..k - 1
    BY <1>1, Prefix
  <2>2. h[1..k] = Smoothed(h[(1..k) \ {k}], index[k], boxcar)
    BY <1>1, <1>8, <2>1
  <2>3. k \in 0..(numPixels - start) /\ k - 1 \in 0..(numPixels - start)
    BY <1>1
  <2>4. QED  BY <1>1, <2>1, <2>2, <2>3
<1>11. QED  BY <1>2, <1>9, <1>10

LEMMA FilterBetween ==
  ASSUME NEW lo \in Int, NEW hi \in Int, NEW pixels \in [Pixel -> Int],
         \A p \in Lit : lo <= pixels[p] /\ pixels[p] <= hi,
         NEW boxcar \in Nat, boxcar % 2 = 1
  PROVE  boxcarFilter(pixels, boxcar) \in Hull(pixels, lo, hi)
<1>1. pixels \in Hull(pixels, lo, hi)
  BY DEF Hull
<1>2. CASE ~(boxcar > 2 /\ boxcar < numPixels - start)
  BY <1>1, <1>2 DEF boxcarFilter
<1>3. CASE boxcar > 2 /\ boxcar < numPixels - start
  <2> DEFINE n == numPixels - start
             T == [k \in 0..n |-> Hull(pixels, lo, hi)]
  <2>1. PICK g : /\ g[0] = pixels
                 /\ \A k \in 1..n : g[k] = Smoothed(g[k - 1], start + k - 1, boxcar)
                 /\ boxcarFilter(pixels, boxcar) = g[n]
    BY <1>1, <1>3, FilterRuns
  <2>2. n \in Nat
    BY PixelsAre
  <2>3. T[0] = Hull(pixels, lo, hi) /\ T[n] = Hull(pixels, lo, hi)
        /\ \A k \in 1..n : T[k] = Hull(pixels, lo, hi) /\ T[k - 1] = Hull(pixels, lo, hi)
    BY <2>2
  <2>4. ASSUME NEW k \in 1..n, g[k - 1] \in Hull(pixels, lo, hi)
        PROVE  g[k] \in Hull(pixels, lo, hi)
    <3>1. start + k - 1 \in Lit
      BY PixelsAre DEF Lit
    <3>2. Smoothed(g[k - 1], start + k - 1, boxcar) \in Hull(pixels, lo, hi)
      BY <1>3, <2>4, <3>1, SmoothedStays
    <3>3. QED  BY <2>1, <3>2
  <2> HIDE DEF n, T
  <2>5. g[0] \in T[0] /\ \A k \in 1..n : g[k - 1] \in T[k - 1] => g[k] \in T[k]
    BY <1>1, <2>1, <2>3, <2>4
  <2>6. g[n] \in T[n]
    BY <2>2, <2>5, RunStays
  <2>7. QED  BY <2>1, <2>3, <2>6
<1>4. QED  BY <1>2, <1>3

LEMMA ScansAre ==
  ASSUME NEW exposures \in Scans
  PROVE  \E n \in Nat \ {0} : exposures \in [1..n -> Exposure]
<1>1. PICK n \in 0..MaxScans : exposures \in [1..n -> Exposure]
  BY DEF Scans, BoundedSeq, SeqOf
<1>2. n # 0
  <2> SUFFICES ASSUME n = 0  PROVE FALSE
    OBVIOUS
  <2>1. exposures = <<>>
    BY <1>1
  <2>2. QED  BY <2>1 DEF Scans
<1>3. QED  BY <1>1, <1>2, ArgumentAssumption

\* There are a least and a greatest count among what the scans have at some pixels.
LEMMA SeenBetween ==
  ASSUME NEW n \in Nat \ {0}, NEW exposures \in [1..n -> Exposure],
         NEW P \in SUBSET Pixel, P # {}
  PROVE  /\ Min(Seen(exposures, P)) \in Int /\ Max(Seen(exposures, P)) \in Int
         /\ \A k \in 1..n, p \in P : /\ Min(Seen(exposures, P)) <= Scan(exposures[k])[p]
                                    /\ Scan(exposures[k])[p] <= Max(Seen(exposures, P))
<1> DEFINE A == Seen(exposures, P)
           b == TwoBytes * satScale
<1>1. b \in Nat
  BY ByteAssumption, ScaleAssumption DEF TwoBytes
<1>2. A = {Scan(exposures[k])[p] : k \in 1..n, p \in P}
  BY DEF Seen, ToSet
<1>3. \A k \in 1..n, p \in P :
        Scan(exposures[k])[p] \in Int /\ -b <= Scan(exposures[k])[p] /\ Scan(exposures[k])[p] <= b
  BY ScanIs
<1>4. 1 \in 1..n
  OBVIOUS
<1> HIDE DEF A, b
<1>5. A \in SUBSET Int /\ A # {} /\ \A a \in A : -b <= a /\ a <= b
  <2>1. ASSUME NEW a \in A
        PROVE  a \in Int /\ -b <= a /\ a <= b
    <3>1. PICK k \in 1..n, p \in P : a = Scan(exposures[k])[p]
      BY <1>2
    <3>2. QED  BY <1>3, <3>1
  <2>2. A # {}
    <3>1. PICK p : p \in P
      OBVIOUS
    <3>2. Scan(exposures[1])[p] \in A
      BY <1>2, <1>4, <3>1
    <3>3. QED  BY <3>2
  <2>3. QED  BY <2>1, <2>2
<1>6. /\ Max(A) \in A /\ \A a \in A : a <= Max(A)
      /\ Min(A) \in A /\ \A a \in A : Min(A) <= a
  BY <1>1, <1>5, Extremes
<1>7. \A k \in 1..n, p \in P : Scan(exposures[k])[p] \in A
  BY <1>2
<1>8. QED  BY <1>5, <1>6, <1>7 DEF A

LEMMA WithinScans ==
  ASSUME NEW n \in Nat \ {0}, NEW exposures \in [1..n -> Exposure],
         NEW boxcar \in Nat, boxcar % 2 = 1, NEW p \in Pixel
  PROVE  boxcarFilter(AverageOf(exposures), boxcar)[p]
           \in Min(Seen(exposures, IF p < start THEN {p} ELSE Lit))
                 ..Max(Seen(exposures, IF p < start THEN {p} ELSE Lit))
<1> DEFINE around(q) == IF q < start THEN {q} ELSE Lit
           lo == [q \in Pixel |-> Min(Seen(exposures, around(q)))]
           hi == [q \in Pixel |-> Max(Seen(exposures, around(q)))]
           loLit == Min(Seen(exposures, Lit))
           hiLit == Max(Seen(exposures, Lit))
           mean == AverageOf(exposures)
<1>1. \A q \in Pixel : /\ q < start => q \notin Lit /\ around(q) = {q}
                       /\ ~(q < start) => q \in Lit /\ around(q) = Lit
  BY PixelsAre DEF Lit
<1>2. \A q \in Pixel : around(q) \in SUBSET Pixel /\ around(q) # {} /\ q \in around(q)
  BY <1>1, PixelsAre
<1> HIDE DEF around
<1>3. ASSUME NEW q \in Pixel
      PROVE  /\ lo[q] \in Int /\ hi[q] \in Int
             /\ \A k \in 1..n : lo[q] <= Scan(exposures[k])[q] /\ Scan(exposures[k])[q] <= hi[q]
  <2> DEFINE P == around(q)
  <2>1. P \in SUBSET Pixel /\ P # {} /\ q \in P
    BY <1>2
  <2>2. lo[q] = Min(Seen(exposures, P)) /\ hi[q] = Max(Seen(exposures, P))
    OBVIOUS
  <2> HIDE DEF P, lo, hi
  <2>3. QED  BY <2>1, <2>2, SeenBetween
<1>4. lo \in [Pixel -> Int] /\ hi \in [Pixel -> Int]
  BY <1>3
<1>5. \A q \in Lit : q \in Pixel /\ lo[q] = loLit /\ hi[q] = hiLit
  BY <1>1, PixelsAre
<1>6. loLit \in Int /\ hiLit \in Int
  <2>1. Lit \in SUBSET Pixel /\ start \in Lit
    BY PixelsAre DEF Lit
  <2>2. QED  BY <2>1, SeenBetween
<1>7. lo[p] = Min(Seen(exposures, around(p))) /\ hi[p] = Max(Seen(exposures, around(p)))
  OBVIOUS
<1> HIDE DEF lo, hi, loLit, hiLit, mean
<1>8. mean \in [Pixel -> Int] /\ \A q \in Pixel : lo[q] <= mean[q] /\ mean[q] <= hi[q]
  BY <1>3, <1>4, AverageBetween DEF mean
<1>9. boxcarFilter(mean, boxcar) \in Hull(mean, loLit, hiLit)
  <2>1. \A q \in Lit : loLit <= mean[q] /\ mean[q] <= hiLit
    BY <1>5, <1>8
  <2>2. QED  BY <1>6, <1>8, <2>1, FilterBetween
<1>10. boxcarFilter(mean, boxcar)[p] \in lo[p]..hi[p]
  <2>1. CASE p < start
    <3>1. boxcarFilter(mean, boxcar)[p] = mean[p]
      BY <1>1, <1>9, <2>1 DEF Hull
    <3>2. QED  BY <1>3, <1>8, <3>1
  <2>2. CASE ~(p < start)
    <3>1. p \in Lit
      BY <1>1, <2>2
    <3>2. QED  BY <1>5, <1>6, <1>9, <3>1 DEF Hull
  <2>3. QED  BY <2>1, <2>2
<1>11. boxcarFilter(mean, boxcar)[p]
         \in Min(Seen(exposures, around(p)))..Max(Seen(exposures, around(p)))
  BY <1>7, <1>10
<1>12. QED  BY <1>11 DEF around, mean

\* SmoothedWithin: whatever was scanned, filtered with an odd width, and however many
\* pixels there are, no pixel of a sample is outside of what it is the mean of.
THEOREM SmoothingStaysWithin == ASpec => []SmoothedWithin
<1>1. AInit => SmoothedWithin
  BY DEF AInit, SmoothedWithin
<1>2. ASSUME NEW exposures, NEW n \in Nat \ {0}, exposures \in [1..n -> Exposure],
             NEW boxcar \in Nat, getSample(exposures, boxcar)
      PROVE  SmoothedWithin'
  <2>1. CASE sample' = NoSample
    BY <2>1 DEF SmoothedWithin
  <2>2. CASE /\ sample' = boxcarFilter(AverageOf(exposures), boxcar)
             /\ taken' = [exposures |-> exposures, boxcar |-> boxcar]
    <3>1. taken'.exposures = exposures /\ taken'.boxcar = boxcar
      BY <2>2
    <3> SUFFICES ASSUME boxcar % 2 = 1, NEW p \in Pixel
                 PROVE  LET seen == Seen(exposures, IF p < start THEN {p} ELSE Lit)
                        IN sample'[p] \in Min(seen)..Max(seen)
      BY <3>1 DEF SmoothedWithin
    <3>2. QED  BY <1>2, <2>2, WithinScans
  <2>3. QED  BY <1>2, <2>1, <2>2 DEF getSample
<1>3. SmoothedWithin /\ [ANext]_avars => SmoothedWithin'
  <2> SUFFICES ASSUME SmoothedWithin, [ANext]_avars  PROVE SmoothedWithin'
    OBVIOUS
  <2>1. ASSUME NEW time \in Time, setIntegrationTime(time)
        PROVE  SmoothedWithin'
    <3>1. PICK e \in Exposure : getSample(<<e>>, 5)
      BY <2>1 DEF setIntegrationTime
    <3>2. <<e>> \in [1..1 -> Exposure] /\ 1 \in Nat \ {0} /\ 5 \in Nat
      OBVIOUS
    <3>3. QED  BY <1>2, <3>1, <3>2
  <2>2. ASSUME NEW exposures \in Scans, NEW boxcar \in Boxcar,
               getSpecSample(exposures, boxcar) \/ readRefSpectra(exposures, boxcar)
        PROVE  SmoothedWithin'
    <3>1. getSample(exposures, boxcar)
      BY <2>2 DEF getSpecSample, readRefSpectra
    <3>2. boxcar \in Nat
      BY ArgumentAssumption
    <3>3. QED  BY <1>2, <3>1, <3>2, ScansAre
  <2>3. CASE UNCHANGED avars
    <3>1. sample' = sample /\ taken' = taken
      BY <2>3 DEF avars
    <3>2. QED  BY <3>1 DEF SmoothedWithin
  <2>4. QED  BY <2>1, <2>2, <2>3 DEF ANext
<1>4. QED  BY <1>1, <1>3, PTL DEF ASpec

-----------------------------------------------------------------------------
(* Light that is dimmed.                                                   *)

\* A sample, and the history of it: what boxcarFilter left of the average.
IsSample(s, t) ==
  \/ s = NoSample /\ t = NoSample
  \/ \E n \in Nat \ {0} : /\ t.exposures \in [1..n -> Exposure] /\ t.boxcar \in Nat
                          /\ s = boxcarFilter(AverageOf(t.exposures), t.boxcar)

LEMMA SingleIsScan ==
  ASSUME NEW s, NEW t, IsSample(s, t), Single(t)
  PROVE  t.exposures[1] \in Exposure /\ s = Scan(t.exposures[1])
<1>1. t # NoSample /\ Len(t.exposures) = 1 /\ t.boxcar <= 2
  BY DEF Single
<1>2. PICK n \in Nat \ {0} : /\ t.exposures \in [1..n -> Exposure] /\ t.boxcar \in Nat
                             /\ s = boxcarFilter(AverageOf(t.exposures), t.boxcar)
  BY <1>1 DEF IsSample
<1> DEFINE x == t.exposures
           e == x[1]
<1>3. n = 1
  <2>1. x \in [1..n -> Exposure] /\ Len(x) = 1
    BY <1>1, <1>2
  <2> HIDE DEF x
  <2>2. x \in Seq(Exposure) /\ DOMAIN x = 1..n
    BY <2>1
  <2>3. 1..n = 1..1
    BY <2>1, <2>2, LenProperties
  <2>4. n \in 1..1
    BY <2>3
  <2>5. QED  BY <2>4
<1>4. x \in [1..1 -> Exposure] /\ e \in Exposure /\ s = boxcarFilter(AverageOf(x), t.boxcar)
  BY <1>2, <1>3
<1>5. boxcarFilter(AverageOf(x), t.boxcar) = AverageOf(x)
  <2>1. ~(t.boxcar > 2 /\ t.boxcar < numPixels - start)
    BY <1>1, <1>2
  <2>2. QED  BY <2>1 DEF boxcarFilter
<1> HIDE DEF x
<1>6. PICK g : /\ g[0] = [p \in Pixel |-> 0]
               /\ \A k \in 1..1 : g[k] = Averaged(g[k - 1], k, Scan(x[k]))
               /\ AverageOf(x) = g[1]
  BY <1>4, AverageRuns
<1>7. g[1] = [p \in Pixel |-> (g[0][p] * 0 + Scan(e)[p]) \div 1]
  BY <1>6 DEF Averaged
<1>8. Scan(e) \in [Pixel -> Int]
  BY <1>4, ScanIs
<1>9. \A p \in Pixel : (g[0][p] * 0 + Scan(e)[p]) \div 1 = Scan(e)[p]
  BY <1>6, <1>8
<1>10. g[1] = Scan(e)
  BY <1>7, <1>8, <1>9
<1>11. QED  BY <1>4, <1>5, <1>6, <1>10 DEF x

LEMMA Cancel ==
  ASSUME NEW a \in Int, NEW b \in Int, NEW m \in Nat \ {0}, a * m = b * m
  PROVE  a = b
<1>1. CASE a < b
  <2>1. a + 1 <= b /\ (a + 1) * m = a * m + m
    BY <1>1
  <2>2. (a + 1) * m <= b * m
    BY <2>1
  <2>3. QED  BY <2>1, <2>2
<1>2. CASE b < a
  <2>1. b + 1 <= a /\ (b + 1) * m = b * m + m
    BY <1>2
  <2>2. (b + 1) * m <= a * m
    BY <2>1
  <2>3. QED  BY <2>1, <2>2
<1>3. QED  BY <1>1, <1>2

\* Small counts are read as they are: the dark value, and behind it the dimmed light.
LEMMA SmallScan ==
  ASSUME NEW e \in Exposure, Small(e), NEW p \in Pixel
  PROVE  Scan(e)[p] = (e.dark + (IF p < start THEN 0 ELSE e.light[p] * e.dim)) * satScale
<1> DEFINE counts == e.dark + (IF p < start THEN 0 ELSE e.light[p] * e.dim)
<1>1. TwoBytes \in Nat /\ TwoBytes >= 4
  <2>1. ByteSize \in Nat /\ ByteSize >= 2
    BY ByteAssumption
  <2>2. ByteSize * ByteSize >= 2 * ByteSize
    BY <2>1
  <2>3. QED  BY <2>1, <2>2 DEF TwoBytes
<1>2. Raw(e)[p] = IF counts < TwoBytes THEN counts ELSE TwoBytes - 1
  BY DEF Raw
<1>3. 2 * Raw(e)[p] < TwoBytes /\ Raw(e)[p] \in Int
  BY <1>1, ScanIs DEF Small
<1> HIDE DEF counts
<1>4. Raw(e)[p] = counts
  BY <1>1, <1>2, <1>3
<1>5. Scan(e)[p] = (IF 2 * Raw(e)[p] >= TwoBytes THEN Raw(e)[p] - TwoBytes
                    ELSE Raw(e)[p]) * satScale
  BY ScanIs
<1>6. ~(2 * Raw(e)[p] >= TwoBytes)
  BY <1>1, <1>3
<1>7. QED  BY <1>4, <1>5, <1>6 DEF counts

\* What is left of a pixel without the dark value is the light, dimmed.
LEMMA SignalIs ==
  ASSUME NEW e \in Exposure, Small(e), NEW o, NEW m \in Nat \ {0}, NEW p \in Lit,
         \A q \in Pixel : /\ Counts(o, Scan(e), q) \in Int
                          /\ Counts(o, Scan(e), q) * m = Scan(e)[q]
  PROVE  /\ Cardinality(Dark) * satScale \in Nat \ {0}
         /\ Signal(o, Scan(e), Dark, p) \in Int
         /\ Signal(o, Scan(e), Dark, p) * m
              = ((Cardinality(Dark) * satScale) * e.light[p]) * e.dim
<1> DEFINE at(q) == Counts(o, Scan(e), q)
           d == at(START_DARK)
           c == Cardinality(Dark)
           f == [q \in Dark |-> at(q)]
<1>1. /\ START_DARK \in Dark /\ Dark \in SUBSET Pixel /\ \A q \in Dark : q < start
      /\ IsFiniteSet(Dark) /\ c \in Nat \ {0}
  <2>1. /\ START_DARK \in Nat /\ MAX_DARK_PIXEL \in Nat /\ START_DARK < MAX_DARK_PIXEL
        /\ start = MAX_DARK_PIXEL + 1
    BY PixelAssumption DEF start
  <2>2. START_DARK \in Dark /\ Dark \in SUBSET Pixel /\ \A q \in Dark : q < start
    BY <2>1, PixelsAre DEF Dark
  <2>3. IsFiniteSet(Dark)
    BY <2>1, FS_Interval DEF Dark
  <2>4. c \in Nat /\ c # 0
    BY <2>2, <2>3, FS_CardinalityType, FS_EmptySet
  <2>5. QED  BY <2>2, <2>3, <2>4
<1>2. /\ e.light[p] \in Nat /\ e.dim \in Nat /\ e.dark \in Nat /\ satScale \in Nat \ {0}
      /\ p \in Pixel /\ ~(p < start)
  BY ExposureAssumption, ScaleAssumption, PixelsAre DEF Lit
<1>3. \A q \in Dark : at(q) \in Int /\ at(q) * m = e.dark * satScale
  <2> SUFFICES ASSUME NEW q \in Dark  PROVE at(q) \in Int /\ at(q) * m = e.dark * satScale
    OBVIOUS
  <2>1. q \in Pixel /\ q < start
    BY <1>1
  <2>2. Scan(e)[q] = (e.dark + 0) * satScale
    BY <2>1, SmallScan
  <2>3. QED  BY <1>2, <2>1, <2>2
<1>4. at(p) \in Int /\ at(p) * m = (e.dark + e.light[p] * e.dim) * satScale
  <2>1. Scan(e)[p] = (e.dark + e.light[p] * e.dim) * satScale
    BY <1>2, SmallScan
  <2>2. QED  BY <1>2, <2>1
<1> HIDE DEF at
<1>5. d \in Int /\ d * m = e.dark * satScale
  BY <1>1, <1>3
<1>6. \A q \in Dark : f[q] \in Int /\ d <= f[q] /\ f[q] <= d
  <2> SUFFICES ASSUME NEW q \in Dark  PROVE f[q] \in Int /\ f[q] = d
    BY <1>5
  <2>1. at(q) * m = d * m /\ at(q) \in Int
    BY <1>3, <1>5
  <2>2. at(q) = d
    BY <1>5, <2>1, Cancel
  <2>3. QED  BY <2>1, <2>2
<1>7. SumOf(f, Dark) = c * d
  <2> HIDE DEF f, d
  <2>1. SumOf(f, Dark) \in Int /\ c * d <= SumOf(f, Dark) /\ SumOf(f, Dark) <= c * d
    BY <1>1, <1>5, <1>6, SumBetween
  <2>2. QED  BY <1>1, <1>5, <2>1
<1>8. Signal(o, Scan(e), Dark, p) = at(p) * c - c * d
  BY <1>7 DEF Signal, DarkSum, at
<1> HIDE DEF d, c, f
<1>9. at(p) * c - c * d = c * (at(p) - d) /\ at(p) - d \in Int
  BY <1>1, <1>4, <1>5
<1>10. (at(p) - d) * m = (e.light[p] * e.dim) * satScale
  <2>1. (at(p) - d) * m = at(p) * m - d * m
    BY <1>4, <1>5
  <2> DEFINE l == e.light[p] * e.dim
  <2>2. l \in Nat
    BY <1>2
  <2> HIDE DEF l
  <2>3. (e.dark + l) * satScale = e.dark * satScale + l * satScale
    BY <1>2, <2>2
  <2>4. e.dark * satScale \in Int /\ l * satScale \in Int
    BY <1>2, <2>2
  <2>5. (e.dark + l) * satScale - e.dark * satScale = l * satScale
    BY <2>3, <2>4
  <2>6. QED  BY <1>4, <1>5, <2>1, <2>5 DEF l
<1>11. (c * (at(p) - d)) * m = ((c * satScale) * e.light[p]) * e.dim
  <2> DEFINE a == at(p) - d
  <2>1. a \in Int /\ a * m = (e.light[p] * e.dim) * satScale
    BY <1>9, <1>10
  <2> HIDE DEF a
  <2>2. (c * a) * m = c * (a * m)
    BY <1>1, <2>1
  <2>3. c * ((e.light[p] * e.dim) * satScale) = ((c * satScale) * e.light[p]) * e.dim
    BY <1>1, <1>2
  <2>4. QED  BY <2>1, <2>2, <2>3 DEF a
<1>12. c * satScale \in Nat \ {0} /\ c * (at(p) - d) \in Int
  BY <1>1, <1>2, <1>9
<1>13. QED  BY <1>8, <1>9, <1>11, <1>12 DEF c


LEMMA DimmedPixels ==
  ASSUME NEW e \in Exposure, NEW r \in Exposure, e.light = r.light, Small(e), Small(r),
         NEW o, Exact(o), NEW p \in Lit, NEW q \in Lit, e.light[p] > 0, e.light[q] > 0
  PROVE  LET raw == ComputeAbsorbance(o, Scan(r), Scan(e), Dark, p, q, FALSE)
             corrected == ComputeAbsorbance(o, Scan(r), Scan(e), Dark, p, q, TRUE)
         IN raw[1] * e.dim = raw[2] * r.dim /\ corrected[1] = corrected[2]
<1>1. PICK m \in 1..TwoBytes * satScale : \A x \in Exposure, i \in Pixel :
        Counts(o, Scan(x), i) \in Int /\ Counts(o, Scan(x), i) * m = Scan(x)[i]
  BY DEF Exact
<1> DEFINE K == Cardinality(Dark) * satScale
           R(i) == Signal(o, Scan(r), Dark, i)
           E(i) == Signal(o, Scan(e), Dark, i)
<1>2. m \in Nat \ {0}
  BY <1>1, ByteAssumption, ScaleAssumption DEF TwoBytes
<1>3. \A i \in Lit : /\ K \in Nat \ {0}
                     /\ E(i) \in Int /\ E(i) * m = (K * e.light[i]) * e.dim
                     /\ R(i) \in Int /\ R(i) * m = (K * r.light[i]) * r.dim
  BY <1>1, <1>2, SignalIs
<1>4. e.dim \in Nat \ {0} /\ r.dim \in Nat \ {0} /\ \A i \in Lit : e.light[i] \in Nat
  BY ExposureAssumption, PixelsAre
<1> HIDE DEF K, E, R
<1>5. ASSUME NEW i \in Lit, e.light[i] > 0
      PROVE  E(i) > 0 /\ R(i) > 0 /\ R(i) * e.dim = E(i) * r.dim
  <2> DEFINE L == K * e.light[i]
             u == E(i)
             v == R(i)
             ed == e.dim
             rd == r.dim
  <2>1. L \in Nat \ {0}
    BY <1>3, <1>4, <1>5
  <2>2. u \in Int /\ v \in Int /\ u * m = L * ed /\ v * m = L * rd
        /\ ed \in Nat \ {0} /\ rd \in Nat \ {0}
    BY <1>3, <1>4
  <2> HIDE DEF L, u, v, ed, rd
  <2>3. L * ed > 0 /\ L * rd > 0
    BY <2>1, <2>2
  <2>4. u > 0
    <3>1. CASE u <= 0
      <4>1. u * m <= 0
        BY <1>2, <2>2, <3>1
      <4>2. QED  BY <2>2, <2>3, <4>1
    <3>2. QED  BY <2>2, <3>1
  <2>5. v > 0
    <3>1. CASE v <= 0
      <4>1. v * m <= 0
        BY <1>2, <2>2, <3>1
      <4>2. QED  BY <2>2, <2>3, <4>1
    <3>2. QED  BY <2>2, <3>1
  <2>6. (v * ed) * m = (u * rd) * m
    <3>1. (v * ed) * m = (v * m) * ed /\ (u * rd) * m = (u * m) * rd
      BY <1>2, <2>2
    <3>2. (L * rd) * ed = (L * ed) * rd
      BY <2>1, <2>2
    <3>3. QED  BY <2>2, <3>1, <3>2
  <2>7. v * ed \in Int /\ u * rd \in Int
    BY <2>2
  <2>8. v * ed = u * rd
    BY <1>2, <2>6, <2>7, Cancel
  <2>9. QED  BY <2>4, <2>5, <2>8 DEF u, v, ed, rd
<1>6. Scan(r) # NoSample /\ Scan(e) # NoSample
  <2>1. /\ Scan(e) \in [Pixel -> Int] /\ Scan(r) \in [Pixel -> Int] /\ 0 \in Pixel
    <3>1. 0 \in Pixel
      BY PixelsAre
    <3>2. QED  BY <3>1, ScanIs
  <2>2. DOMAIN Scan(e) # {} /\ DOMAIN Scan(r) # {}
    BY <2>1
  <2>3. QED  BY <2>2 DEF NoSample
<1>7. R(p) > 0 /\ E(p) > 0 /\ R(q) > 0 /\ E(q) > 0 /\ R(p) \in Int /\ E(p) \in Int
      /\ R(q) \in Int /\ E(q) \in Int
      /\ R(p) * e.dim = E(p) * r.dim /\ R(q) * e.dim = E(q) * r.dim
  BY <1>3, <1>5
<1>8. ComputeAbsorbance(o, Scan(r), Scan(e), Dark, p, q, FALSE) = <<R(p), E(p)>>
  BY <1>6, <1>7 DEF ComputeAbsorbance, R, E
<1>9. ComputeCorrectionAbsorbance(o, Scan(r), Scan(e), Dark, q) = <<R(q), E(q)>>
  BY <1>6, <1>7 DEF ComputeCorrectionAbsorbance, Log, R, E
<1>10. ComputeAbsorbance(o, Scan(r), Scan(e), Dark, p, q, TRUE) = <<R(p) * E(q), E(p) * R(q)>>
  <2>1. ComputeAbsorbance(o, Scan(r), Scan(e), Dark, p, q, TRUE)
          = Minus(<<R(p), E(p)>>, ComputeCorrectionAbsorbance(o, Scan(r), Scan(e), Dark, q))
    BY <1>6, <1>7 DEF ComputeAbsorbance, R, E
  <2>2. Minus(<<R(p), E(p)>>, <<R(q), E(q)>>) = <<R(p) * E(q), E(p) * R(q)>>
    BY <1>7 DEF Minus
  <2>3. QED  BY <1>9, <2>1, <2>2
<1>11. R(p) * E(q) = E(p) * R(q)
  <2> DEFINE a == R(p)
             b == E(p)
             c == R(q)
             d == E(q)
             ed == e.dim
             rd == r.dim
  <2>1. /\ a \in Int /\ b \in Int /\ c \in Int /\ d \in Int /\ ed \in Nat \ {0} /\ rd \in Nat \ {0}
        /\ a * ed = b * rd /\ c * ed = d * rd
    BY <1>4, <1>7
  <2> HIDE DEF a, b, c, d, ed, rd
  <2>2. (a * d) * rd = (b * c) * rd
    <3>1. (a * d) * rd = a * (d * rd) /\ a * (c * ed) = (a * ed) * c /\ (b * rd) * c = (b * c) * rd
      BY <2>1
    <3>2. QED  BY <2>1, <3>1
  <2>3. a * d \in Int /\ b * c \in Int
    BY <2>1
  <2>4. a * d = b * c
    BY <2>1, <2>2, <2>3, Cancel
  <2>5. QED  BY <2>4 DEF a, b, c, d
<1>12. QED
  <2> DEFINE raw == ComputeAbsorbance(o, Scan(r), Scan(e), Dark, p, q, FALSE)
             corrected == ComputeAbsorbance(o, Scan(r), Scan(e), Dark, p, q, TRUE)
  <2>1. raw = <<R(p), E(p)>> /\ corrected = <<R(p) * E(q), E(p) * R(q)>>
    BY <1>8, <1>10
  <2> HIDE DEF raw, corrected
  <2>2. /\ raw[1] = R(p) /\ raw[2] = E(p)
        /\ corrected[1] = R(p) * E(q) /\ corrected[2] = E(p) * R(q)
    BY <2>1
  <2>3. raw[1] * e.dim = raw[2] * r.dim /\ corrected[1] = corrected[2]
    BY <1>7, <1>11, <2>2
  <2>4. QED  BY <2>3 DEF raw, corrected

\* DimmedNotAbsorbed: for any exposures, dark values and non-linear corrections that
\* divide exactly, dimmed light absorbs what it was dimmed by, and nothing once the
\* baseline is subtracted.
THEOREM DimmedIsNotAbsorbed ==
  ASSUME \A o \in Order : Exact(o)
  PROVE  ASpec => []DimmedNotAbsorbed
<1> DEFINE Inv == IsSample(sample, taken) /\ IsSample(refSample, kept)
<1>1. AInit => Inv
  BY DEF AInit, IsSample
<1>2. ASSUME NEW exposures, NEW n \in Nat \ {0}, exposures \in [1..n -> Exposure],
             NEW boxcar \in Nat, getSample(exposures, boxcar)
      PROVE  IsSample(sample', taken')
  <2>1. CASE sample' = NoSample /\ taken' = NoSample
    BY <2>1 DEF IsSample
  <2>2. CASE /\ sample' = boxcarFilter(AverageOf(exposures), boxcar)
             /\ taken' = [exposures |-> exposures, boxcar |-> boxcar]
    <3>1. taken'.exposures = exposures /\ taken'.boxcar = boxcar
      BY <2>2
    <3>2. QED  BY <1>2, <2>2, <3>1 DEF IsSample
  <2>3. QED  BY <1>2, <2>1, <2>2 DEF getSample
<1>3. Inv /\ [ANext]_avars => Inv'
  <2> SUFFICES ASSUME Inv, [ANext]_avars  PROVE Inv'
    OBVIOUS
  <2>1. ASSUME NEW time \in Time, setIntegrationTime(time)
        PROVE  Inv'
    <3>1. PICK e \in Exposure : getSample(<<e>>, 5)
      BY <2>1 DEF setIntegrationTime
    <3>2. <<e>> \in [1..1 -> Exposure] /\ 1 \in Nat \ {0} /\ 5 \in Nat
      OBVIOUS
    <3>3. IsSample(sample', taken')
      BY <1>2, <3>1, <3>2
    <3>4. refSample' = refSample /\ kept' = kept
      BY <2>1 DEF setIntegrationTime
    <3>5. QED  BY <3>3, <3>4
  <2>2. ASSUME NEW exposures \in Scans, NEW boxcar \in Boxcar,
               getSpecSample(exposures, boxcar) \/ readRefSpectra(exposures, boxcar)
        PROVE  Inv'
    <3>1. getSample(exposures, boxcar) /\ boxcar \in Nat
      BY <2>2, ArgumentAssumption DEF getSpecSample, readRefSpectra
    <3>2. IsSample(sample', taken')
      BY <1>2, <3>1, ScansAre
    <3>3. \/ refSample' = refSample /\ kept' = kept
          \/ refSample' = sample' /\ kept' = taken'
      BY <2>2 DEF getSpecSample, readRefSpectra
    <3>4. QED  BY <3>2, <3>3
  <2>3. CASE UNCHANGED avars
    BY <2>3 DEF avars
  <2>4. QED  BY <2>1, <2>2, <2>3 DEF ANext
<1>4. Inv => DimmedNotAbsorbed
  <2> DEFINE e == taken.exposures[1]
             r == kept.exposures[1]
  <2> SUFFICES ASSUME Inv, Single(taken), Single(kept), e.light = r.light, Small(e), Small(r),
                      NEW p \in Lit, NEW q \in Lit, NEW o \in Order,
                      e.light[p] > 0, e.light[q] > 0
               PROVE  LET raw == ComputeAbsorbance(o, refSample, sample, Dark, p, q, FALSE)
                          corrected == ComputeAbsorbance(o, refSample, sample, Dark, p, q, TRUE)
                      IN raw[1] * e.dim = raw[2] * r.dim /\ corrected[1] = corrected[2]
    BY DEF DimmedNotAbsorbed
  <2>1. e \in Exposure /\ sample = Scan(e)
    BY SingleIsScan
  <2>2. r \in Exposure /\ refSample = Scan(r)
    BY SingleIsScan
  <2>3. Exact(o)
    OBVIOUS
  <2> HIDE DEF e, r
  <2>4. QED  BY <2>1, <2>2, <2>3, DimmedPixels
<1>5. QED  BY <1>1, <1>3, <1>4, PTL DEF ASpec

=============================================================================
