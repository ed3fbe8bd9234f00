---------------------------- MODULE HoldTracker ----------------------------
(***************************************************************************)
(* The hold page's limits: hold_update once a second from the main loop,   *)
(* hold_apply_actions and the freeze button from touches.                  *)
(*                                                                         *)
(* A reading gives every quantity a value, and a frequency when the PLL is *)
(* locked.  Every quantity has a highest value, all but the power also a   *)
(* lowest one.  The history variables are the values each limit should be  *)
(* the extreme of: those that updates counted since it was last cleared,   *)
(* and the one it was cleared to.                                          *)
(***************************************************************************)
EXTENDS Integers, FiniteSets

CONSTANTS
    Quantities,     \* v_rms, i_rms and p
    LowQuantities,  \* those with a lowest value: v_rms and i_rms
    Values,         \* what a reading may say of a quantity
    Freqs,          \* and of the frequency, in centi-kHz
    EventWrap       \* 2^32: event_count is a uint32_t

NoFreq == -1        \* freq_ok is 0

ASSUME QuantityAssumption ==
    IsFiniteSet(Quantities) /\ LowQuantities \subseteq Quantities
ASSUME ValueAssumption == Values \subseteq Int /\ Freqs \subseteq Nat
\* One update cannot take the count once round.
ASSUME WrapAssumption ==
    EventWrap \in Nat /\ Cardinality(Quantities) + Cardinality(LowQuantities) + 2 < EventWrap

VARIABLES
    value, freq,        \* live_metrics_t: the reading of the last step
    initialized, frozen, freqValid,
    high, low,          \* *_max_*, *_min_*
    freqHigh, freqLow,  \* freq_max_centi_khz, freq_min_centi_khz
    events,             \* event_count
    highs, lows,        \* history: values counted for high and low, by quantity
    freqHighs, freqLows,
    counted,            \* history: the last reading was not kept out by a freeze
    phantom             \* history: the frequency limits declared valid but never set

readingVars == <<value, freq>>
freqVars == <<freqValid, freqHigh, freqLow, freqHighs, freqLows, phantom>>
valueVars == <<high, low, highs, lows>>
vars == <<readingVars, freqVars, valueVars, initialized, frozen, events, counted>>

Init ==
    /\ value = [q \in Quantities |-> 0] /\ freq = NoFreq
    /\ initialized = FALSE /\ frozen = FALSE /\ freqValid = FALSE
    /\ high = [q \in Quantities |-> 0] /\ low = [q \in LowQuantities |-> 0]
    /\ freqHigh = 0 /\ freqLow = 0 /\ events = 0
    /\ highs = [q \in Quantities |-> {}] /\ lows = [q \in LowQuantities |-> {}]
    /\ freqHighs = {} /\ freqLows = {}
    /\ counted = FALSE /\ phantom = {}

Locked(f) == f # NoFreq

-----------------------------------------------------------------------------
(* hold_update on the new reading v, f of a step that gave one.            *)

Reading(v, f) == value' = v /\ freq' = f

\* The first reading seeds every limit, frozen or not.
Seed(v, f) ==
    /\ ~initialized /\ initialized' = TRUE
    /\ high' = v /\ highs' = [q \in Quantities |-> {v[q]}]
    /\ low' = [q \in LowQuantities |-> v[q]]
    /\ lows' = [q \in LowQuantities |-> {v[q]}]
    /\ IF Locked(f)
       THEN /\ freqValid' = TRUE /\ freqHigh' = f /\ freqLow' = f
            /\ freqHighs' = {f} /\ freqLows' = {f}
       ELSE freqValid' = FALSE /\ UNCHANGED <<freqHigh, freqLow, freqHighs, freqLows>>
    /\ counted' = TRUE
    /\ UNCHANGED <<frozen, events, phantom>>

Frozen ==
    /\ initialized /\ frozen /\ counted' = FALSE
    /\ UNCHANGED <<initialized, frozen, freqVars, valueVars, events>>

\* Fault: the highest power is forgotten, as it has no lowest to go with.
AbovePaired(v) == {q \in LowQuantities : v[q] > high[q]}
Above(v) == {q \in Quantities : v[q] > high[q]}
Below(v) == {q \in LowQuantities : v[q] < low[q]}

FreqAbove(f) == IF f > freqHigh THEN 1 ELSE 0
FreqBelow(f) == IF f < freqLow THEN 1 ELSE 0

\* Fault: a new lowest frequency is no event.
FreqMovesOneSided(f) == IF Locked(f) /\ freqValid THEN FreqAbove(f) ELSE 0
FreqMoves(f) == IF Locked(f) /\ freqValid THEN FreqAbove(f) + FreqBelow(f) ELSE 0

Moves(v, f) == Cardinality(Above(v)) + Cardinality(Below(v)) + FreqMoves(f)

\* A highest frequency of 0 gives way to the next one counted, a lowest of 0 does not.
\* Fault: a frequency that raised the highest is not compared with the lowest.
WidenFreqOneSide(f) ==
    IF ~Locked(f) THEN UNCHANGED freqVars
    ELSE /\ freqValid' = TRUE
         /\ freqHigh' = IF ~freqValid \/ f > freqHigh THEN f ELSE freqHigh
         /\ freqLow' = IF ~freqValid \/ (f < freqLow /\ f <= freqHigh) THEN f ELSE freqLow
         /\ freqHighs' = freqHighs \union {f} /\ freqLows' = freqLows \union {f}
         /\ phantom' = phantom \ {"high"}

WidenFreq(f) ==
    IF ~Locked(f) THEN UNCHANGED freqVars
    ELSE /\ freqValid' = TRUE
         /\ freqHigh' = IF ~freqValid \/ f > freqHigh THEN f ELSE freqHigh
         /\ freqLow' = IF ~freqValid \/ f < freqLow THEN f ELSE freqLow
         /\ freqHighs' = freqHighs \union {f} /\ freqLows' = freqLows \union {f}
         /\ phantom' = phantom \ {"high"}

Widen(v, f) ==
    /\ initialized /\ ~frozen
    /\ high' = [q \in Quantities |-> IF q \in Above(v) THEN v[q] ELSE high[q]]
    /\ low' = [q \in LowQuantities |-> IF q \in Below(v) THEN v[q] ELSE low[q]]
    /\ highs' = [q \in Quantities |-> highs[q] \union {v[q]}]
    /\ lows' = [q \in LowQuantities |-> lows[q] \union {v[q]}]
    /\ WidenFreq(f)
    /\ events' = (events + Moves(v, f)) % EventWrap
    /\ counted' = TRUE
    /\ UNCHANGED <<initialized, frozen>>

Update ==
    \E v \in [Quantities -> Values], f \in Freqs \union {NoFreq} :
        Reading(v, f) /\ (Seed(v, f) \/ Frozen \/ Widen(v, f))

-----------------------------------------------------------------------------
(* The three buttons.  Clears act on the reading of the last step, and     *)
(* while frozen too.                                                       *)

\* Clearing one frequency limit declares both valid, the other one at 0 if the
\* PLL had not been locked in any reading counted.
ClearFreqHigh ==
    IF Locked(freq)
    THEN /\ freqValid' = TRUE /\ freqHigh' = freq /\ freqHighs' = {freq}
         /\ phantom' = IF freqValid THEN phantom \ {"high"} ELSE {"low"}
         /\ UNCHANGED <<freqLow, freqLows>>
    ELSE UNCHANGED freqVars

ClearFreqLow ==
    IF Locked(freq)
    THEN /\ freqValid' = TRUE /\ freqLow' = freq /\ freqLows' = {freq}
         /\ phantom' = IF freqValid THEN phantom \ {"low"} ELSE {"high"}
         /\ UNCHANGED <<freqHigh, freqHighs>>
    ELSE UNCHANGED freqVars

ClearMax ==
    /\ initialized
    /\ high' = value /\ highs' = [q \in Quantities |-> {value[q]}]
    /\ ClearFreqHigh
    /\ UNCHANGED <<readingVars, initialized, frozen, low, lows, events, counted>>

ClearMin ==
    /\ initialized
    /\ low' = [q \in LowQuantities |-> value[q]]
    /\ lows' = [q \in LowQuantities |-> {value[q]}]
    /\ ClearFreqLow
    /\ UNCHANGED <<readingVars, initialized, frozen, high, highs, events, counted>>

Freeze ==
    /\ frozen' = ~frozen
    /\ UNCHANGED <<readingVars, freqVars, valueVars, initialized, events, counted>>

Next == Update \/ ClearMax \/ ClearMin \/ Freeze

Spec == Init /\ [][Next]_vars

-----------------------------------------------------------------------------
(* Properties.                                                             *)

TypeOK ==
    /\ value \in [Quantities -> Values \union {0}] /\ freq \in Freqs \union {NoFreq}
    /\ initialized \in BOOLEAN /\ frozen \in BOOLEAN /\ freqValid \in BOOLEAN
    /\ high \in [Quantities -> Values \union {0}]
    /\ low \in [LowQuantities -> Values \union {0}]
    /\ freqHigh \in Freqs \union {0} /\ freqLow \in Freqs \union {0}
    /\ events \in 0..(EventWrap - 1)
    /\ highs \in [Quantities -> SUBSET Values] /\ lows \in [LowQuantities -> SUBSET Values]
    /\ freqHighs \subseteq Freqs /\ freqLows \subseteq Freqs
    /\ counted \in BOOLEAN /\ phantom \subseteq {"high", "low"}

Highest(x, S) == x \in S /\ \A y \in S : y <= x
Lowest(x, S) == x \in S /\ \A y \in S : x <= y

\* The frequency's limits, once valid, are its extremes with two exceptions:
\* hold_apply_actions on a first lock that a freeze kept out declares valid, at 0,
\* the lowest when it clears the highest, and the highest when it clears the
\* lowest.  The lowest stays at 0 until it is cleared, too; the highest only until
\* it is cleared or an update counts a frequency.
FreqExtremes ==
    freqValid =>
        /\ IF "high" \in phantom
           THEN freqHigh = 0 /\ freqHighs = {} /\ ~(counted /\ Locked(freq))
           ELSE Highest(freqHigh, freqHighs)
        /\ IF "low" \in phantom THEN freqLow = 0 ELSE Lowest(freqLow, freqLows)

\* Every limit shown is the extreme of the readings counted since it was cleared,
\* through any interleaving of updates, clears and freezes, but for the frequency's
\* limits at 0 that FreqExtremes names.
LimitsAreExtremes ==
    initialized =>
        /\ \A q \in Quantities : Highest(high[q], highs[q])
        /\ \A q \in LowQuantities : Lowest(low[q], lows[q])
        /\ FreqExtremes

\* The reading on the screen lies within the limits, unless a freeze kept it out;
\* so highest and lowest, which clears can cross while frozen, are in order again
\* with the first update after it.
ReadingWithinLimits ==
    counted =>
        /\ \A q \in Quantities : value[q] <= high[q]
        /\ \A q \in LowQuantities : low[q] <= value[q]
        /\ Locked(freq) => freqValid /\ freqLow <= freq /\ freq <= freqHigh

Widens ==
    \/ \E q \in Quantities : high'[q] > high[q]
    \/ \E q \in LowQuantities : low'[q] < low[q]
    \/ freqHigh' > freqHigh \/ freqLow' < freqLow

\* While the limits enclose the reading an event is counted exactly when one of
\* them is pushed outwards: clears only pull them in.
EventPerWidening ==
    [][counted /\ initialized /\ freqValid => (events' # events <=> Widens)]_vars

-----------------------------------------------------------------------------
(* The inductive invariant.                                                *)

\* Before the first reading, and before the first lock, nothing was counted.
FreshInv ==
    /\ initialized => value \in [Quantities -> Values]
    /\ ~initialized => ~counted /\ ~freqValid
    /\ ~freqValid => /\ freqHigh = 0 /\ freqLow = 0 /\ phantom = {}
                     /\ freqHighs = {} /\ freqLows = {}

IInv == TypeOK /\ FreshInv /\ LimitsAreExtremes /\ ReadingWithinLimits
=============================================================================
