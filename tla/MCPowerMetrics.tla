--------------------------- MODULE MCPowerMetrics ---------------------------
(* Windows, phase words and spectra for TLC.                               *)
EXTENDS PowerMetrics

Input(samples, pll, lag) ==
    [samples |-> samples, pll |-> pll, lag |-> lag, frame |-> << >>, bin |-> 0,
     amplitudes |-> << >>]
Pll(read, valid, locked, phaseValid, dphi, inc) ==
    [read |-> read, valid |-> valid, locked |-> locked, dphiValid |-> phaseValid,
     dphi |-> dphi, inc |-> inc]
Locked(dphi, inc) == Pll(TRUE, TRUE, TRUE, TRUE, dphi, inc)
NoPll == Pll(FALSE, FALSE, FALSE, FALSE, 0, 0)

\* Every window of two samples out of a few, and the one of none.
Few == {-80, -7, 0, 1, 63}
Samples == {[v |-> v, i |-> i] : v \in Few, i \in Few}
Windows ==
    {Input(w, p, NoLag) :
        w \in {<< >>} \cup {<<a>> : a \in Samples} \cup {<<a, b>> : a \in Samples, b \in Samples},
        p \in {NoPll, Locked(-1, 1638), Locked(180, 8000)}}

\* One period of two sines in eight samples, and a phase word for the lag.
Wave(a, t) == LET s == <<0, 707, 1000, 707, 0, -707, -1000, -707>>
              IN  DivRound(a * s[(t % 8) + 1], 1000)
Sine(a, b, k) == [t \in 1..8 |-> [v |-> Wave(a, t), i |-> Wave(b, t - k)]]
Sines ==
    {Input(Sine(a, b, k),
           Pll(read, valid, locked, valid, IF valid THEN -90 * k ELSE 17, inc), k) :
        a \in {60, 85, 110}, b \in {60, 83, 90}, k \in -3..4,
        read \in BOOLEAN, valid \in BOOLEAN, locked \in BOOLEAN, inc \in {164, 1638, 8000}}

\* Tones at the multiples of a bin, in phase or not, with half of each in both bins
\* beside it if it leaks, and a stronger tone at DC or just beyond the searched bins.
Bins == {4, 5, 20, 64, 101, 127, 248}
Tones == {<<1000>>, <<900, 0, 300, 0, 180>>, <<400, 250, 30, 200, 0, 0, 90, 120, 77>>}
Currents == {<<700>>, <<120, 50, 250>>}
Part(amps, bin, b) ==
    LET k == b \div bin IN
    IF b % bin = 0 /\ k \in DOMAIN amps THEN amps[k] ELSE 0
Level(amps, bin, leaks, b) ==
    IF ~leaks \/ Part(amps, bin, b) # 0 THEN Part(amps, bin, b)
    ELSE (Part(amps, bin, b - 1) + Part(amps, bin, b + 1)) \div 2
Frame(v, i, bin, leaks, spur) ==
    [b \in {c \in 2..255 : Level(v, bin, leaks, c) # 0 \/ Level(i, bin, leaks, c) # 0} \cup {spur} |->
        IF b = spur THEN [voltage |-> [re |-> 1100, im |-> -400], current |-> [re |-> 9, im |-> 5]]
        ELSE [voltage |-> [re |-> Level(v, bin, leaks, b), im |-> 0],
              current |-> [re |-> 0, im |-> -Level(i, bin, leaks, b)]]]
Spectra ==
    {[Input(<<[v |-> 80, i |-> 63]>>, IF spur = 0 /\ drift = 0 THEN NoPll
                                     ELSE Locked(0, 32 * bin + drift), NoLag)
        EXCEPT !.frame = Frame(v, i, bin, leaks, IF bin > 19 /\ spur # 0 THEN bin + spur ELSE 0),
               !.bin = bin, !.amplitudes = [voltage |-> v, current |-> i]] :
        v \in Tones, i \in Currents, bin \in Bins, leaks \in BOOLEAN,
        spur \in {-7, 0, 7}, drift \in {-90, 0, 90}}
MCInputs == Windows \cup Sines \cup Spectra
=============================================================================
