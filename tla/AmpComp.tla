------------------------------ MODULE AmpComp ------------------------------
(***************************************************************************)
(* amp_comp.c: the frequency response of the two input amplifiers is       *)
(* measured at 25 frequencies, 5 kHz apart; a reading is multiplied by the *)
(* gain interpolated between them, in parts per million.  The gains of the *)
(* FFT page's harmonics (fft_harmonic_gain_ppm) come from the same tables. *)
(* The functions are pure: a step is the signal's next frequency.          *)
(***************************************************************************)
EXTENDS Integers, Sequences

CONSTANTS
    Unity,      \* AMP_COMP_UNITY_PPM, the gain of 1
    MaxFreq     \* bound on the sweep of the fundamental, in centi-kHz

ASSUME UnityAssumption == Unity \in Nat \ {0} /\ Unity % 2 = 0
ASSUME SweepAssumption == MaxFreq \in Nat

VoltageGains ==
    <<1000000, 1000000, 1001524, 1004393, 1009405, 1014350, 1019858, 1025986, 1034015,
      1043038, 1052010, 1062167, 1073046, 1085180, 1098922, 1112263, 1127235, 1143012,
      1159801, 1176721, 1195282, 1208410, 1228738, 1248753, 1270290>>
CurrentGains ==
    <<1020408, 1020408, 1021963, 1024891, 1024777, 1029797, 1035389, 1041610, 1049761,
      1058922, 1068030, 1078342, 1092715, 1105071, 1121349, 1134962, 1159707, 1178363,
      1200622, 1225751, 1250295, 1270673, 1293408, 1314477, 1337147>>

Table(gains) == [i \in 1..Len(gains) |-> [freq |-> 500 * (i - 1), gain |-> gains[i]]]
VoltageTable == Table(VoltageGains)
CurrentTable == Table(CurrentGains)

\* Division in C.
Quotient(n, d) == IF n >= 0 THEN n \div d ELSE -((-n) \div d)

\* The first segment of the table that ends at f or above, by its last point.
Segment(t, f) == CHOOSE i \in 2..Len(t) : f <= t[i].freq /\ \A j \in 2..(i - 1) : f > t[j].freq

\* Fault: the offset is taken from the segment's end.
OffsetFromEnd(lo, hi, f) == hi.freq - f
Offset(lo, hi, f) == f - lo.freq

Lookup(t, f) ==
    IF f <= t[1].freq THEN t[1].gain
    ELSE IF f >= t[Len(t)].freq THEN t[Len(t)].gain
    ELSE LET hi == t[Segment(t, f)]
             lo == t[Segment(t, f) - 1]
             span == hi.freq - lo.freq
         IN  lo.gain + Quotient((hi.gain - lo.gain) * Offset(lo, hi, f) + span \div 2, span)

ApplyU32(raw, gain) == (raw * gain + Unity \div 2) \div Unity

\* Fault: a negative reading is rounded as a positive one.
ApplyRoundsUp(raw, gain) == Quotient(raw * gain + Unity \div 2, Unity)
ApplyS64(raw, gain) ==
    IF raw >= 0 THEN (raw * gain + Unity \div 2) \div Unity
    ELSE -(((-raw) * gain + Unity \div 2) \div Unity)

Orders == 1..7

VARIABLES freq, freqOk      \* of the metrics
sweepVars == <<freq, freqOk>>

HarmonicGain(table, order) ==
    IF freqOk THEN Lookup(table, freq * order) ELSE Unity

SweepInit == freq = 0 /\ freqOk = FALSE

Reading ==
    /\ freq < MaxFreq
    /\ freq' = freq + 1 /\ freqOk' \in BOOLEAN

\* The sweep starts over.
Restart == freq = MaxFreq /\ freq' = 0 /\ freqOk' \in BOOLEAN

SweepNext == Reading \/ Restart
SweepSpec == SweepInit /\ [][SweepNext]_sweepVars

-----------------------------------------------------------------------------
(* Properties.                                                             *)

\* The line through the two measured points around f, by the points' spacing; it
\* is scaled by 500 to stay in the integers.
Line(gains, f) ==
    LET i == f \div 500 + 1
    IN  IF i >= Len(gains) THEN 500 * gains[Len(gains)]
        ELSE gains[i] * (500 - (f % 500)) + gains[i + 1] * (f % 500)

\* f is on a segment whose gains fall, or at its end.
Falls(gains, f) ==
    LET i == (f + 499) \div 500 IN i \in 1..(Len(gains) - 1) /\ gains[i] > gains[i + 1]

\* Every gain is the nearest to the line between the measured points, so the
\* points themselves are met, and flat past the last.  Only where the gains fall
\* does the division round the other way: there one may be up to 1.5 ppm high.
GainOnLine ==
    \A gains \in {VoltageGains, CurrentGains}, order \in Orders :
        LET error == 500 * HarmonicGain(Table(gains), order) - Line(gains, freq * order)
        IN  freqOk => error \in -250..(IF Falls(gains, freq * order) THEN 749 ELSE 250)

\* A compensated value is the nearest to the exact product.
Nearest(raw, gain, v) ==
    LET error == Unity * v - raw * gain IN -Unity <= 2 * error /\ 2 * error <= Unity
=============================================================================
