------------------------------ MODULE FftView ------------------------------
(***************************************************************************)
(* The FFT page of power_model.c: from a frame of FFT bins, each with a    *)
(* voltage and a current, and the metrics of the reading, the fundamental, *)
(* the distortion and the first seven harmonics of both channels.          *)
(*                                                                         *)
(* A frame is given by its bins that are not zero: a function from bins to *)
(* the real and imaginary parts of each channel.  A channel's view is its  *)
(* thd in 1/1000 percent, its harmonics in mV or mA and its bars; blank is *)
(* a harmonic shown as dashes.                                             *)
(***************************************************************************)
EXTENDS IntMath, Sequences, FiniteSetsExt

CONSTANTS Points, SearchRadius, BandRadius, BarMax    \* FFT_*
ASSUME FftAssumption ==
    /\ Points \in Nat \ {0} /\ SearchRadius \in Nat /\ BandRadius \in Nat /\ BarMax \in Nat

Amp == INSTANCE AmpComp WITH
    Unity <- 1000000, MaxFreq <- 0, freq <- 0, freqOk <- FALSE

Channels == {"voltage", "current"}
PositiveBins == 1..(Points \div 2 - 1)
Blank == -1

Square(re, im) == re * re + im * im
MagSq(frame, ch, bin) ==
    IF bin \in DOMAIN frame THEN Square(frame[bin][ch].re, frame[bin][ch].im) ELSE 0

Clamped(n, lo, hi) == IF n < lo THEN lo ELSE IF n > hi THEN hi ELSE n

\* Fault: the search does not use the measured frequency.
SearchAll(m) == PositiveBins

\* Near the measured frequency if there is one, else everywhere.
SearchBins(m) ==
    IF ~m.freqOk THEN PositiveBins
    ELSE LET guess == Clamped(DivRound(m.freq * Points, 100000), 1, Points \div 2 - 1)
         IN  PositiveBins \cap (guess - SearchRadius)..(guess + SearchRadius)

\* The lowest of the strongest voltage bins.
Fundamental(frame, m) ==
    LET bins == SearchBins(m)
        Mag(b) == MagSq(frame, "voltage", b)
    IN  IF \A b \in bins : Mag(b) = 0 THEN 1
        ELSE CHOOSE b \in bins :
                \A c \in bins : Mag(b) > Mag(c) \/ (Mag(b) = Mag(c) /\ b <= c)

Band(bin) == PositiveBins \cap (bin - BandRadius)..(bin + BandRadius)
BandEnergy(frame, ch, bin) ==
    IF bin \in PositiveBins
    THEN MapThenSumSet(LAMBDA b : MagSq(frame, ch, b), Band(bin) \cap DOMAIN frame)
    ELSE 0

Gain(m, ch, order) ==
    IF ~m.freqOk THEN 1000000
    ELSE Amp!Lookup(IF ch = "voltage" THEN Amp!VoltageTable ELSE Amp!CurrentTable, m.freq * order)

Magnitude(frame, m, ch, fundamental, order) ==
    DivRound(Isqrt(BandEnergy(frame, ch, order * fundamental)) * Gain(m, ch, order), 1000000)

\* Fault: the fundamental is counted as a harmonic.
FirstCounted == 1
FirstHarmonic == 2

\* Over every harmonic below half the sample rate, those past the seventh, too.
HarmonicEnergy(frame, m, ch, fundamental) ==
    MapThenSumSet(LAMBDA k : Magnitude(frame, m, ch, fundamental, k)
                               * Magnitude(frame, m, ch, fundamental, k),
                  {k \in FirstHarmonic..(Points \div 2) : k * fundamental \in PositiveBins})

\* The part of the total rms that belongs to the fundamental.
FirstRms(rms, ratio) == DivRound(rms * 1000, Isqrt(1000000 + ratio * ratio))

Bar(mag, ref) == IF mag = 0 THEN 0 ELSE Clamped(DivRound(mag * BarMax, ref), 0, BarMax)

ChannelView(frame, m, ch, rms) ==
    LET fundamental == Fundamental(frame, m)
        mag == [k \in 1..7 |-> Magnitude(frame, m, ch, fundamental, k)]
        distortion == Isqrt(HarmonicEnergy(frame, m, ch, fundamental))
        first == FirstRms(rms, DivRound(distortion * 1000, mag[1]))
    IN  IF mag[1] = 0
        THEN [thd |-> 0, harmonics |-> [k \in 1..7 |-> 0], bars |-> [k \in 1..7 |-> 0]]
        ELSE [thd |-> DivRound(distortion * 100000, mag[1]),
              harmonics |-> [k \in 1..7 |-> DivRound(first * mag[k], mag[1])],
              bars |-> [k \in 1..7 |-> IF k = 1 THEN BarMax ELSE Bar(mag[k], mag[1])]]

FrameView(frame, m) ==
    [voltage |-> ChannelView(frame, m, "voltage", m.vRms),
     current |-> ChannelView(frame, m, "current", m.iRms)]

\* Without a frame all of the rms is shown as the fundamental.
NoFrameView(m) ==
    LET View(rms) == [thd |-> Blank,
                      harmonics |-> [k \in 1..7 |-> IF k = 1 THEN rms ELSE Blank],
                      bars |-> [k \in 1..7 |-> IF k = 1 THEN BarMax ELSE 0]]
    IN  [voltage |-> View(m.vRms), current |-> View(m.iRms)]

\* The page before there is a reading: the bars are a drawing's.
FftDefaults ==
    LET View(bars) == [thd |-> Blank, harmonics |-> [k \in 1..7 |-> Blank], bars |-> bars]
    IN  [voltage |-> View(<<136, 24, 68, 20, 52, 18, 40>>),
         current |-> View(<<116, 18, 52, 16, 32, 14, 24>>)]
=============================================================================
