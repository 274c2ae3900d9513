----------------------------- MODULE Acquisition -----------------------------
(***************************************************************************)
(* What the spectrometer's driver (USB4000Gum.c) does with the numbers of  *)
(* one device: it tells the device its integration time as bytes, reads    *)
(* the counts of its pixels as bytes, averages scans, smooths the average  *)
(* and keeps it as sample or as reference, from which Absorbance           *)
(* calculates.  (Who may do so at the same time is in Spectrometer.)       *)
(*                                                                         *)
(* A mean is rounded down where the code has a floating-point number.  A   *)
(* byte has ByteSize values, so that all two-byte counts can be had.       *)
(***************************************************************************)
EXTENDS Absorbance, SequencesExt

CONSTANTS numPixels,
          START_DARK, MAX_DARK_PIXEL,  \* the dark pixels, and one that is neither
          ByteSize,
          Word,      \* values of an unsigned short
          satScale,  \* counts are multiplied by it; here it is a whole number
          Exposure,  \* what the device may be exposed to: light, dimming, dark counts
          MaxScans,  \* scans per sample
          Boxcar,    \* widths of the filter
          Time,      \* integration times
          Order      \* coefficients of the non-linear correction; <<>> for none

Pixel == 0..numPixels - 1
Dark == START_DARK..MAX_DARK_PIXEL - 1
start == MAX_DARK_PIXEL + 1
Lit == start..numPixels - 1

\* The bytes of an integer stand for so many.
Place == <<1, ByteSize, ByteSize * ByteSize, ByteSize * ByteSize * ByteSize>>
TwoBytes == ByteSize * ByteSize

ASSUME PixelAssumption == /\ {START_DARK, MAX_DARK_PIXEL, numPixels, Word} \subseteq Nat
                          /\ START_DARK < MAX_DARK_PIXEL
                          /\ start < numPixels /\ numPixels <= Word
ASSUME ByteAssumption == ByteSize \in Nat \ {0, 1}
ASSUME ScaleAssumption == satScale \in Nat \ {0}
ASSUME ExposureAssumption == \A e \in Exposure :
  /\ e.light \in [Pixel -> Nat] /\ e.dim \in Nat \ {0} /\ e.dark \in Nat
ASSUME ArgumentAssumption == \* what the callers ask for
  /\ MaxScans \in Nat /\ Boxcar \subseteq Nat
  /\ Time \subseteq 0..Place[4] * ByteSize - 1

VARIABLES
  told,   \* the bytes of the integration time that the device was told last
  integrationTime,  \* of the status that the device is taken to have reported
  sample, refSample,
  asked,  \* history: the integration time that was asked for last
  intact, \* history: the transfers of that and of the status then were made
  taken,  \* history: the exposures and the filter of sample
  kept    \* history: those of refSample

avars == <<told, integrationTime, sample, refSample, asked, intact, taken, kept>>
times == <<told, integrationTime, asked, intact>>

-----------------------------------------------------------------------------
\* Bytes.

\* The bytes of an integer where the server runs, lowest first.
Bytes(n, size) == [k \in 1..size |-> (n \div Place[k]) % ByteSize]

UnsignedLEtoInt(bytes) ==
  FoldLeft(LAMBDA sum, k : sum + bytes[k] * Place[k], 0, [k \in DOMAIN bytes |-> k])

Exchanged(s, k) == [s EXCEPT ![k] = s[Len(s) + 1 - k], ![Len(s) + 1 - k] = s[k]]

\* Faulty: stops in the middle.
swapBytes_Half(bytes) ==
  FoldLeft(Exchanged, bytes, [k \in 1..(Len(bytes) \div 2) |-> k])

\* One index goes up and one down, until they meet; in an even number of bytes they
\* pass each other, and each pair is exchanged once more.
swapBytes(bytes) ==
  LET n == Len(bytes)
      exchanges == IF n % 2 = 0 THEN n ELSE n \div 2
  IN FoldLeft(Exchanged, bytes, [k \in 1..exchanges |-> k])

-----------------------------------------------------------------------------
\* Samples.

\* The counts of a pixel as the device has them, in two bytes.
Raw(e) == [p \in Pixel |-> LET counts == e.dark + (IF p < start THEN 0 ELSE e.light[p] * e.dim)
                           IN IF counts < TwoBytes THEN counts ELSE TwoBytes - 1]

\* They are stored in a short.
newPixel(counts) ==
  LET value == UnsignedLEtoInt(Bytes(counts, 2))
  IN IF 2 * value >= TwoBytes THEN value - TwoBytes ELSE value
Scan(e) == [p \in Pixel |-> newPixel(Raw(e)[p]) * satScale]

\* Each scan is averaged with the ones before it.
Averaged(mean, k, scan) == [p \in Pixel |-> (mean[p] * (k - 1) + scan[p]) \div k]
AverageOf(exposures) ==
  FoldLeft(LAMBDA mean, k : Averaged(mean, k, Scan(exposures[k])),
           [p \in Pixel |-> 0], [k \in DOMAIN exposures |-> k])

\* Faulty: the pixel itself is added but not counted.
Smooth_NotCounted(pixels, i, boxcar) ==
  LET M == boxcar \div 2
      before == {j \in Pixel : (i - M) % Word <= j /\ j < i}
      after == i + 1 .. i + M
      Mean(S, own) == (SumOf(pixels, S) + pixels[own]) \div Cardinality(S)
  IN CASE i < start + M -> Mean((before \ 0..start - 1) \cup after, i + M + 1)
       [] i >= numPixels - M -> Mean(before \cup (after \cap Pixel), i)
       [] OTHER -> (SumOf(pixels, before \cup after) + pixels[i]) \div boxcar

\* Pixel i of the filter.  At the start the neighbours before it are cut off, and in
\* its own place the pixel behind the window is added; at the end those after it are
\* cut off.  The index of the first neighbour wraps below 0: then there is none before.
Smooth(pixels, i, boxcar) ==
  LET M == boxcar \div 2
      before == {j \in Pixel : (i - M) % Word <= j /\ j < i}
      after == i + 1 .. i + M
      Mean(S, own) == (SumOf(pixels, S) + pixels[own]) \div (Cardinality(S) + 1)
  IN CASE i < start + M -> Mean((before \ 0..start - 1) \cup after, i + M + 1)
       [] i >= numPixels - M -> Mean(before \cup (after \cap Pixel), i)
       [] OTHER -> (SumOf(pixels, before \cup after) + pixels[i]) \div boxcar

\* In place: the neighbours before a pixel are smoothed already.
Smoothed(pixels, i, boxcar) == [pixels EXCEPT ![i] = Smooth(pixels, i, boxcar)]
boxcarFilter(pixels, boxcar) ==
  IF boxcar > 2 /\ boxcar < numPixels - start
  THEN FoldLeft(LAMBDA s, i : Smoothed(s, i, boxcar), pixels,
                [k \in 1..(numPixels - start) |-> start + k - 1])
  ELSE pixels

\* getSample.  If one of the scans fails there is no sample.
getSample(exposures, boxcar) ==
  \/ /\ sample' = boxcarFilter(AverageOf(exposures), boxcar)
     /\ taken' = [exposures |-> exposures, boxcar |-> boxcar]
  \/ sample' = NoSample /\ taken' = NoSample

Scans == BoundedSeq(Exposure, MaxScans) \ {<<>>}

-----------------------------------------------------------------------------
AInit ==
  /\ told = Bytes(0, 4) /\ integrationTime = 0 /\ asked = 0 /\ intact = TRUE
  /\ sample = NoSample /\ taken = NoSample
  /\ refSample = NoSample /\ kept = NoSample

\* What the device reports of itself, of which the time is modelled.  If it is not read
\* the buffer is used all the same, with whatever is in it.
updateStatus(reported, read) ==
  IF read THEN integrationTime' = UnsignedLEtoInt(reported)
  ELSE \E left \in Time : integrationTime' = left

\* The device takes the lowest byte first, and reports what it was told.  Whether it is
\* told, and reports, is not tested.  The sample is thrown away: a boxcar of 5 is what
\* the code asks for.
setIntegrationTime(time) ==
  /\ asked' = time
  /\ \E written, read \in BOOLEAN :
       /\ told' = IF written THEN swapBytes(Bytes(time, 4)) ELSE told
       /\ updateStatus(told', read)
       /\ intact' = (written /\ read)
  /\ \E e \in Exposure : getSample(<<e>>, 5)
  /\ UNCHANGED <<refSample, kept>>

getSpecSample(exposures, boxcar) ==
  /\ getSample(exposures, boxcar)
  /\ UNCHANGED <<times, refSample, kept>>

readRefSpectra(exposures, boxcar) ==
  /\ getSample(exposures, boxcar)
  /\ refSample' = sample'
  /\ kept' = taken'
  /\ UNCHANGED times

ANext ==
  \/ \E time \in Time : setIntegrationTime(time)
  \/ \E exposures \in Scans, boxcar \in Boxcar :
       getSpecSample(exposures, boxcar) \/ readRefSpectra(exposures, boxcar)

ASpec == AInit /\ [][ANext]_avars

-----------------------------------------------------------------------------
\* Properties.

\* The device integrates as long as it was asked to, and so says its status, unless a
\* transfer failed: the bytes that swapBytes leaves are those that the device and
\* UnsignedLEtoInt understand.
TimeKept == intact => UnsignedLEtoInt(told) = asked /\ integrationTime = asked

\* What the scans have at the pixels P.
Seen(exposures, P) == {Scan(e)[p] : e \in ToSet(exposures), p \in P}

\* With a filter of odd width, as the configuration has it, a sample is nowhere
\* brighter or darker than what it is the mean of, and the pixels before the filter
\* are the plain mean: no index, weight or number of neighbours is off.
SmoothedWithin ==
  sample # NoSample /\ taken.boxcar % 2 = 1 =>
    \A p \in Pixel :
      LET seen == Seen(taken.exposures, IF p < start THEN {p} ELSE Lit)
      IN sample[p] \in Min(seen)..Max(seen)

Single(t) == t # NoSample /\ Len(t.exposures) = 1 /\ t.boxcar <= 2
\* Counts stay below half of their range: they are stored in a short.
Small(e) == \A p \in Pixel : 2 * Raw(e)[p] < TwoBytes

\* The non-linear correction of every count is a division without rest by one number,
\* as it is without coefficients: only then has light that is dimmed a dimmed correction.
Exact(order) ==
  \E m \in 1..TwoBytes * satScale : \A e \in Exposure, p \in Pixel :
    LET counts == Counts(order, Scan(e), p)
    IN counts \in Int /\ counts * m = Scan(e)[p]

\* If reference and sample are of the same light, dimmed as a whole, then with the
\* baseline subtracted nothing absorbs, whichever pixel is the non-absorbing one, and
\* without it each pixel absorbs what the light was dimmed by, however much the dark
\* value has drifted in between.  (Without a filter, below the sign of a short.)
DimmedNotAbsorbed ==
  Single(taken) /\ Single(kept) =>
    LET e == taken.exposures[1]
        r == kept.exposures[1]
    IN (e.light = r.light /\ Small(e) /\ Small(r)) =>
         \A p, q \in Lit, o \in Order : e.light[p] > 0 /\ e.light[q] > 0 =>
           LET raw == ComputeAbsorbance(o, refSample, sample, Dark, p, q, FALSE)
               corrected == ComputeAbsorbance(o, refSample, sample, Dark, p, q, TRUE)
           IN /\ raw[1] * e.dim = raw[2] * r.dim
              /\ corrected[1] = corrected[2]

=============================================================================
