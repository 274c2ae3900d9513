------------------------------ MODULE Absorbance -----------------------------
(***************************************************************************)
(* The calculations of absorbanceCalculation.c: which pixel of a           *)
(* spectrometer belongs to a wavelength, and what an absorbance is         *)
(* computed from.                                                          *)
(*                                                                         *)
(* A calibration is the sequence of the coefficients of a polynomial; a    *)
(* sample and lambda are functions on 0 .. numPixels - 1.  An absorbance   *)
(* is a logarithm: it is represented by the fraction it is the logarithm   *)
(* of, <<numerator, denominator>>, so that a difference of absorbances is  *)
(* a quotient of fractions and nothing is rounded.                         *)
(***************************************************************************)
EXTENDS Integers, Sequences, FiniteSets, FiniteSetsExt

ComputeSpectrometerLambdaValues(wavelengthOrder, numPixels) ==
  [i \in 0..numPixels - 1 |->
     wavelengthOrder[4] * i * i * i + wavelengthOrder[3] * i * i
       + wavelengthOrder[2] * i + wavelengthOrder[1]]

\* Faulty: the last of the matches.
GetPixelForWavelength_Last(lambda, w) ==
  LET matches == {i \in 1..Max(DOMAIN lambda) - 1 : lambda[i-1] < w /\ w <= lambda[i+1]}
  IN IF matches = {} THEN 0 ELSE Max(matches)

\* The first pixel whose neighbours enclose the wavelength; pixel 0 if there is none.
GetPixelForWavelength(lambda, w) ==
  LET matches == {i \in 1..Max(DOMAIN lambda) - 1 : lambda[i-1] < w /\ w <= lambda[i+1]}
  IN IF matches = {} THEN 0 ELSE Min(matches)

\* What it should be: of the pixels with two neighbours the last one before the
\* wavelength, as long as the spectrometer sees that wavelength.
PixelBefore(lambda, w) ==
  LET last == Max(DOMAIN lambda)
      before == {i \in 1..last - 1 : lambda[i] < w}
  IN IF lambda[0] < w /\ w <= lambda[last] THEN Max(before \cup {1}) ELSE 0

\* The calibration of a spectrometer: the wavelengths grow with the pixels.
Increasing(lambda) ==
  LET last == Max(DOMAIN lambda)
  IN /\ last \in Nat /\ last > 1
     /\ lambda \in [0..last -> Int]
     /\ \A i, j \in 0..last : i < j => lambda[i] < lambda[j]

-----------------------------------------------------------------------------
\* Absorbances.

NoSample == <<>>

\* Counts divided by a polynomial in the counts, here without its fraction.
NonLinearCountCorrection(order, counts) ==
  LET term[k \in 1..Len(order)] ==
        order[k] * counts ^ (k - 1) + (IF k = 1 THEN 0 ELSE term[k - 1])
  IN counts \div term[Len(order)]

\* order is <<>> if the counts are not corrected.
Counts(order, sample, p) ==
  IF order = <<>> THEN sample[p] ELSE NonLinearCountCorrection(order, sample[p])

SumOf(counts, S) == FoldSet(LAMBDA p, sum : sum + counts[p], 0, S)

\* The mean of the dark pixels, times their number.
DarkSum(order, sample, dark) ==
  SumOf([p \in dark |-> Counts(order, sample, p)], dark)

\* The counts without the dark value, times the number of dark pixels.
Signal(order, sample, dark, p) ==
  Counts(order, sample, p) * Cardinality(dark) - DarkSum(order, sample, dark)

NoAbsorbance == <<1, 1>>
NotComputed == <<1, 10>>

\* log10 of a fraction, 0 unless that is positive.  (A denominator of 0 stands for
\* an infinite absorbance.)
Log(num, den) ==
  IF (num > 0 /\ den >= 0) \/ (num < 0 /\ den < 0) THEN <<num, den>> ELSE NoAbsorbance

Minus(a, b) == <<a[1] * b[2], a[2] * b[1]>>

\* Faulty: the dark value of the reference sample is taken for both.
ComputeCorrectionAbsorbance_OneDark(order, refSample, sample, dark, p) ==
  IF refSample = NoSample \/ sample = NoSample THEN NotComputed
  ELSE Log(Signal(order, refSample, dark, p),
           Counts(order, sample, p) * Cardinality(dark) - DarkSum(order, refSample, dark))

\* The absorbance of one pixel; -1, which is log10 of 1/10, without the samples.
ComputeCorrectionAbsorbance(order, refSample, sample, dark, p) ==
  IF refSample = NoSample \/ sample = NoSample THEN NotComputed
  ELSE Log(Signal(order, refSample, dark, p), Signal(order, sample, dark, p))

\* The same, less that of the non-absorbing pixel if subBaseline is set; it is not
\* subtracted from an absorbance that is 0 for want of a positive fraction.
ComputeAbsorbance(order, refSample, sample, dark, p, nonAbsorbing, subBaseline) ==
  IF refSample = NoSample \/ sample = NoSample THEN NotComputed
  ELSE LET num == Signal(order, refSample, dark, p)
           den == Signal(order, sample, dark, p)
           positive == (num > 0 /\ den >= 0) \/ (num < 0 /\ den < 0)
       IN IF ~positive THEN NoAbsorbance
          ELSE IF ~subBaseline THEN <<num, den>>
          ELSE Minus(<<num, den>>,
                 ComputeCorrectionAbsorbance(order, refSample, sample, dark, nonAbsorbing))

=============================================================================
