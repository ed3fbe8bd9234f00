---------------------------- MODULE PowerMetrics ----------------------------
(***************************************************************************)
(* power_model_step of power_model.c and the FFT page built after it: from *)
(* the sums of one window of samples and the PLL's words to the readings   *)
(* the pages show.                                                         *)
(*                                                                         *)
(* The numbers are the code's with a smaller full scale: samples are of    *)
(* -FullScale..FullScale-1, a turn of phase is 2 * PhaseHalf and a sample  *)
(* clock is IncSpan of the PLL's increment.  A behaviour keeps one input,  *)
(* of which the registers hold the sums; power_model_init's outcome and    *)
(* whether each step succeeds are open.  The snapshots themselves are      *)
(* SnapshotReader's.                                                       *)
(***************************************************************************)
EXTENDS FftView

CONSTANTS
    FullScale, FsMilli,     \* FS_COUNTS, V_FS_MV and I_FS_MA
    PhaseHalf, IncSpan,     \* 2^31, 2^32
    Inputs, NoLag           \* [samples, pll, frame]; and what the tests know of them:
                            \* lag, of a current behind its voltage in eighths of a
                            \* period, or NoLag; bin of the fundamental, or 0, and
                            \* each channel's amplitudes at its multiples

ASSUME ScaleAssumption == {FullScale, FsMilli, PhaseHalf, IncSpan} \subseteq Nat \ {0}

\* The squares of a rms in counts and of the apparent power at full scale with the
\* largest gains fit the radicand.
ASSUME WidthAssumption ==
    LET most == (FsMilli * FsMilli) \div 500 + 2
    IN  FullScale * FullScale < PowerOf4[RootDigits] /\ most * most < PowerOf4[RootDigits]

Counts == -FullScale..(FullScale - 1)
ASSUME InputAssumption == \A in \in Inputs :
    /\ in.samples \in Seq([v : Counts, i : Counts])
    /\ in.pll.dphi \in -PhaseHalf..(PhaseHalf - 1) /\ in.pll.inc \in 0..(IncSpan - 1)

VARIABLES
    input,
    backend, tick,      \* g_hw.backend, g_tick modulo the demo's patterns
    metrics,            \* live_metrics_t
    mode,               \* view->mode
    frameSeen,          \* fft_valid
    fft                 \* fft_view_t
vars == <<input, backend, tick, metrics, mode, frameSeen, fft>>

NoMetrics == [vRms |-> 0, iRms |-> 0, vPeak |-> 0, iPeak |-> 0, p |-> 0, s |-> 0, q |-> 0,
              pf |-> 0, freq |-> 0, phi |-> 0, freqOk |-> FALSE, phiOk |-> FALSE]

\* Unless /dev/mem opens and both register blocks map, the demo runs.
Init ==
    /\ input \in Inputs /\ backend \in {"live", "demo"} /\ tick = 0
    /\ metrics = NoMetrics /\ mode = "UNKNOWN"
    /\ frameSeen = FALSE /\ fft = FftDefaults

-----------------------------------------------------------------------------
(* The td_stats block: the sums over a window.                             *)

Total(values) ==
    LET sum[k \in 0..Len(values)] == IF k = 0 THEN 0 ELSE sum[k - 1] + values[k]
    IN  sum[Len(values)]
Peak(values) == Max({Max({values[j], -values[j]}) : j \in DOMAIN values})

-----------------------------------------------------------------------------
(* update_monitor_view_live.                                               *)

ToMilli(counts) == (counts * FsMilli + FullScale \div 2) \div FullScale
ToMicro(counts) == Truncated(counts * FsMilli * FsMilli, FullScale * FullScale)

Freq(inc) == (inc * 100000 + IncSpan \div 2) \div IncSpan

\* Fault: the phase word's sign is not turned.
PhaseUnturned(dphi) == {dphi}

\* Minus the phase word.  For the lowest one that overflows an int32_t: negated in
\* 32 bits it stays the lowest, in 64 it becomes half a turn.
Turned(dphi) == IF dphi = -PhaseHalf THEN {PhaseHalf, -PhaseHalf} ELSE {-dphi}
Phi(turned) == DivRound(turned * 18000, PhaseHalf)

\* amp_comp_mul_ppm, by parts of 1000 that fit TLC's integers.
MulPpm(a, b) ==
    LET cross == (a \div 1000) * (b % 1000) + (a % 1000) * (b \div 1000)
    IN  (a \div 1000) * (b \div 1000) + cross \div 1000
        + ((cross % 1000) * 1000 + (a % 1000) * (b % 1000) + 500000) \div 1000000

\* Fault: the active power may be larger than the apparent one.
ActiveUncapped(p, s) == p
ActiveCapped(p, s) == IF p > s THEN s ELSE p

\* The reactive power's size; unsigned, a negative difference would wrap.
Reactive(p, s) ==
    LET active == ActiveCapped(IF p >= 0 THEN p ELSE -p, s)
        difference == s * s - active * active
    IN  Isqrt(IF difference >= 0 THEN difference ELSE PowerOf4[RootDigits] + difference)

Mode(m) ==
    IF ~m.phiOk THEN "UNKNOWN"
    ELSE IF m.phi > 50 THEN "INDUCTIVE"
    ELSE IF m.phi < -50 THEN "CAPACITIVE"
    ELSE "RESISTIVE"

\* What the sums over the window give, in counts.
Counted ==
    LET window == input.samples
        n == Len(window)
        v == [j \in 1..n |-> window[j].v]
        i == [j \in 1..n |-> window[j].i]
    IN  [vRms |-> Isqrt(Total([j \in 1..n |-> v[j] * v[j]]) \div n),
         iRms |-> Isqrt(Total([j \in 1..n |-> i[j] * i[j]]) \div n),
         vPeak |-> Peak(v), iPeak |-> Peak(i),
         p |-> Truncated(Total([j \in 1..n |-> v[j] * i[j]]), n)]

FreqOk == input.pll.read /\ input.pll.valid /\ input.pll.locked
FreqRead == IF input.pll.read THEN Freq(input.pll.inc) ELSE 0

\* Only a frequency that is locked is compensated for.
Gains ==
    IF FreqOk
    THEN LET kv == Amp!Lookup(Amp!VoltageTable, FreqRead)
             ki == Amp!Lookup(Amp!CurrentTable, FreqRead)
         IN  [v |-> kv, i |-> ki, vi |-> MulPpm(kv, ki)]
    ELSE [v |-> 1000000, i |-> 1000000, vi |-> 1000000]

Live(turned) ==
    LET n == Counted
        k == Gains
        sCounts == n.vRms * n.iRms
        phi == IF input.pll.read THEN Phi(turned) ELSE 0
        p == Amp!ApplyS64(DivRound(ToMicro(n.p), 1000), k.vi)
        s == Amp!ApplyU32((ToMicro(sCounts) + 500) \div 1000, k.vi)
        q == Reactive(p, s)
    IN  [vRms |-> Amp!ApplyU32(ToMilli(n.vRms), k.v), iRms |-> Amp!ApplyU32(ToMilli(n.iRms), k.i),
         vPeak |-> Amp!ApplyU32(ToMilli(n.vPeak), k.v),
         iPeak |-> Amp!ApplyU32(ToMilli(n.iPeak), k.i),
         p |-> p, s |-> s, q |-> IF phi < 0 THEN -q ELSE q,
         pf |-> IF sCounts = 0 THEN 0 ELSE Clamped(DivRound(n.p * 1000, sCounts), -1000, 1000),
         freq |-> FreqRead, phi |-> phi, freqOk |-> FreqOk,
         phiOk |-> input.pll.read /\ input.pll.valid /\ input.pll.dphiValid]

-----------------------------------------------------------------------------
(* build_demo_metrics.                                                     *)

Demo ==
    LET At(pattern) == pattern[tick + 1]
        p == At(<<12480, 12610, 12540, 12390, 12280, 12410, 12590, 12640>>)
        s == At(<<12930, 13050, 12980, 12870, 12790, 12880, 13010, 13080>>)
        q == Isqrt(IF s * s >= p * p THEN s * s - p * p ELSE 0)
        phi == At(<<1520, 1540, 1570, 1510, 1480, 1500, 1530, 1560>>)
    IN  [vRms |-> At(<<220500, 220860, 220720, 220180, 219940, 220240, 220690, 220910>>),
         iRms |-> At(<<58, 59, 58, 57, 57, 58, 59, 59>>),
         vPeak |-> At(<<311800, 312210, 312040, 311460, 311130, 311520, 312000, 312260>>),
         iPeak |-> At(<<82, 83, 82, 81, 80, 81, 83, 83>>),
         p |-> p, s |-> s, q |-> IF phi < 0 THEN -q ELSE q, pf |-> DivRound(p * 1000, s),
         freq |-> At(<<1000, 1001, 1002, 1001, 999, 998, 999, 1000>>),
         phi |-> phi, freqOk |-> TRUE, phiOk |-> TRUE]

-----------------------------------------------------------------------------
(* A reading of the main loop.                                             *)

\* After a step that succeeded; once a frame was copied the page stays with frames.
BuildFft ==
    /\ frameSeen' \in {TRUE, frameSeen}
    /\ fft' = IF frameSeen' THEN FrameView(input.frame, metrics') ELSE NoFrameView(metrics')

StepLive ==
    /\ backend = "live" /\ input.samples # << >>
    /\ \E turned \in Turned(input.pll.dphi) : metrics' = Live(turned)
    /\ mode' = Mode(metrics') /\ BuildFft
    /\ UNCHANGED <<input, backend, tick>>

\* The snapshot timed out, or its window is empty: everything stays.
StepFails ==
    /\ backend = "live" /\ UNCHANGED vars

StepDemo ==
    /\ backend = "demo" /\ metrics' = Demo /\ mode' = Mode(metrics') /\ BuildFft
    /\ tick' = (tick + 1) % 8
    /\ UNCHANGED <<input, backend>>

Next == StepLive \/ StepFails \/ StepDemo
Spec == Init /\ [][Next]_vars

-----------------------------------------------------------------------------
(* Properties.                                                             *)

TypeOK ==
    /\ backend \in {"live", "demo"} /\ tick \in 0..7
    /\ \A f \in {"vRms", "iRms", "vPeak", "iPeak", "s", "freq"} : metrics[f] \in Nat
    /\ {metrics.p, metrics.q, metrics.pf, metrics.phi} \subseteq Int
    /\ {metrics.freqOk, metrics.phiOk, frameSeen} \subseteq BOOLEAN
    /\ mode \in {"UNKNOWN", "INDUCTIVE", "CAPACITIVE", "RESISTIVE"}

Read == metrics # NoMetrics
Size(n) == IF n >= 0 THEN n ELSE -n
Near(a, b, slack) == Size(a - b) <= slack

\* One count, in mV or mA, with the largest gain: what cutting a rms to whole counts
\* can lose.
Count == (FsMilli * 27) \div (FullScale * 20) + 1

\* In uW: what the roundings of a compensated power add up to, and that of its gain.
Rounding == 1395 + (FsMilli * FsMilli) \div 500000

Active(m) == IF Size(m.p) > m.s THEN m.s ELSE Size(m.p)

\* P, Q and S are a right triangle although P may come out above S.
RightTriangle(m) ==
    /\ m.q * m.q <= m.s * m.s - Active(m) * Active(m)
    /\ (Size(m.q) + 1) * (Size(m.q) + 1) > m.s * m.s - Active(m) * Active(m)

\* S is V times I, 2 mV and 2 mA aside, and P no more than it but for the counts cut
\* from the rms values.
ProductOfRms(m) ==
    LET Most(n) == (m.vRms + n) * (m.iRms + n) + Rounding
    IN  /\ 1000 * m.s <= Most(2)
        /\ m.vRms >= 2 /\ m.iRms >= 2 => 1000 * m.s >= (m.vRms - 2) * (m.iRms - 2) - Rounding
        /\ 1000 * Size(m.p) <= Most(Count + 2)

\* PF is P over S.
FactorOfShown(m) ==
    /\ m.pf \in -1000..1000
    /\ Near(m.pf * m.s, 1000 * (IF m.p < 0 THEN -Active(m) ELSE Active(m)),
            m.s \div 2 + (IF m.freqOk THEN 2791 ELSE 1000))

Coherent(m) == RightTriangle(m) /\ ProductOfRms(m) /\ FactorOfShown(m)

\* The numbers of a live reading go together, whatever the window and whether they
\* are compensated or not.
ReadingCoherent == Read /\ backend = "live" => Coherent(metrics)

\* The cosine of eighths of a turn, in 1/1000.
Cosine(k) == CASE Size(k) = 0 -> 1000 [] Size(k) = 1 -> 707 [] Size(k) = 2 -> 0
               [] Size(k) = 3 -> -707 [] Size(k) = 4 -> -1000

\* A sine load is read as what it is: P is S cos, Q is S sin, positive and INDUCTIVE
\* when the current lags, negative and CAPACITIVE when it leads, also at half a turn
\* where the phase word has no negative.  When the phase is not valid the mode is
\* UNKNOWN and Q has the right size, but not always the sign.
SineReading ==
    LET m == metrics  k == input.lag  sine == Cosine(Size(k) - 2) * m.s
    IN  Read /\ backend = "live" /\ k # NoLag =>
        /\ Near(1000 * m.p, Cosine(k) * m.s, 50 * m.s + 2000)
        /\ Near(1000 * Size(m.q), sine, 150 * m.s + 2000)
        /\ IF ~m.phiOk THEN mode = "UNKNOWN"
           ELSE IF k = 0 THEN mode = "RESISTIVE"
           ELSE IF Size(k) = 4 THEN mode # "RESISTIVE" /\ Size(m.phi) = 18000
           ELSE IF k > 0 THEN mode = "INDUCTIVE" /\ m.q > 0
           ELSE mode = "CAPACITIVE" /\ m.q < 0

\* A channel's k-th harmonic, with the gain of the line between the measured points.
Reference(ch, k) ==
    LET gains == IF ch = "voltage" THEN Amp!VoltageGains ELSE Amp!CurrentGains
    IN  input.amplitudes[ch][k] *
        (IF metrics.freqOk THEN Amp!Line(gains, metrics.freq * k) \div 500000 ELSE 1000)

\* The page shows the spectrum there is, at any fundamental the harmonics' bands are
\* apart for, with a stronger tone beyond the searched bins and with more current in
\* a harmonic than in the fundamental: the harmonics are in the proportion of the
\* tones, THD counts every tone but the first, those past the seventh, too, and the
\* fundamental's rms and the distortion add up to the measured rms.
SpectrumMeasured ==
    Read /\ backend = "live" /\ frameSeen /\ input.bin # 0 => \A ch \in Channels :
        LET view == fft[ch]
            h == view.harmonics
            orders == {k \in DOMAIN input.amplitudes[ch] : k * input.bin \in PositiveBins}
            first == Reference(ch, 1)
            Tone(k) == Reference(ch, k) \div 1000
            shown == (view.thd * Tone(1)) \div 100000
            distortion == (h[1] * view.thd) \div 100000
            rms == IF ch = "voltage" THEN metrics.vRms ELSE metrics.iRms
        IN  /\ \A k \in 1..7 :
                 IF k \in orders
                 THEN Near(h[k] * (first \div 10), h[1] * (Reference(ch, k) \div 10), first \div 10 + 300 * h[1])
                 ELSE h[k] = 0 /\ view.bars[k] = 0
            /\ Near(shown * shown, MapThenSumSet(LAMBDA k : Tone(k) * Tone(k), orders \ {1}),
                    10 * shown)
            /\ Near(h[1] * h[1] + distortion * distortion, rms * rms, 4 * rms)
            /\ view.bars[1] = BarMax
=============================================================================
