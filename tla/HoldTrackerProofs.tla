------------------------ MODULE HoldTrackerProofs ------------------------
(***************************************************************************)
(* Proofs about HoldTracker, for any quantities and any values.            *)
(***************************************************************************)
EXTENDS HoldTracker, FiniteSetTheorems, TLAPS

LEMMA Numbers ==
    /\ \A x \in Values \union {0} : x \in Int
    /\ \A x \in Freqs \union {0} \union {NoFreq} : x \in Int
BY ValueAssumption DEF NoFreq

LEMMA Wrap ==
    /\ EventWrap \in Nat \ {0}
    /\ \A n \in Nat : n <= Cardinality(Quantities) + Cardinality(LowQuantities) + 2 => n < EventWrap
<1>1. IsFiniteSet(Quantities) /\ IsFiniteSet(LowQuantities)
  BY QuantityAssumption, FS_Subset
<1>2. Cardinality(Quantities) \in Nat /\ Cardinality(LowQuantities) \in Nat
  BY <1>1, FS_CardinalityType
<1> QED
  BY <1>2, WrapAssumption

LEMMA InitInv == Init => IInv
<1> SUFFICES ASSUME Init PROVE IInv
  OBVIOUS
<1>1. TypeOK
  <2>1. events \in 0..(EventWrap - 1)
    BY Wrap DEF Init
  <2>2. highs \in [Quantities -> SUBSET Values] /\ lows \in [LowQuantities -> SUBSET Values]
    BY DEF Init
  <2> QED
    BY <2>1, <2>2 DEF Init, TypeOK
<1>2. FreshInv
  BY DEF Init, FreshInv
<1>3. LimitsAreExtremes /\ ReadingWithinLimits
  BY DEF Init, LimitsAreExtremes, ReadingWithinLimits
<1> QED
  BY <1>1, <1>2, <1>3 DEF IInv

\* A set with one more element has the higher of the two as its highest, ...
LEMMA HighestUnion ==
    ASSUME NEW S \in SUBSET Int, NEW x \in Int, NEW h, Highest(h, S)
    PROVE  /\ x > h => Highest(x, S \union {x})
           /\ ~(x > h) => Highest(h, S \union {x})
BY DEF Highest

\* ... and the lower of the two as its lowest.
LEMMA LowestUnion ==
    ASSUME NEW S \in SUBSET Int, NEW x \in Int, NEW h, Lowest(h, S)
    PROVE  /\ x < h => Lowest(x, S \union {x})
           /\ ~(x < h) => Lowest(h, S \union {x})
BY DEF Lowest

LEMMA Singleton == ASSUME NEW x \in Int PROVE Highest(x, {x}) /\ Lowest(x, {x})
BY DEF Highest, Lowest

\* Event counts stay below the wrap.
LEMMA EventsType ==
    ASSUME TypeOK, NEW v, NEW f
    PROVE  (events + Moves(v, f)) % EventWrap \in 0..(EventWrap - 1)
<1>1. IsFiniteSet(Above(v)) /\ IsFiniteSet(Below(v))
  BY QuantityAssumption, FS_Subset DEF Above, Below
<1>2. Cardinality(Above(v)) \in Nat /\ Cardinality(Below(v)) \in Nat
  BY <1>1, FS_CardinalityType
<1>3. FreqMoves(f) \in Nat
  BY DEF FreqMoves, FreqAbove, FreqBelow
<1>4. \A n \in Nat : n % EventWrap \in 0..(EventWrap - 1)
  BY Wrap
<1> QED
  BY <1>2, <1>3, <1>4, Wrap DEF Moves, TypeOK

-----------------------------------------------------------------------------
(* hold_update.                                                            *)

LEMMA SeedInv ==
    ASSUME IInv, NEW v \in [Quantities -> Values], NEW f \in Freqs \union {NoFreq},
           Reading(v, f), Seed(v, f)
    PROVE  IInv'
<1> USE QuantityAssumption, ValueAssumption DEF Reading, Seed
<1>1. TypeOK' BY DEF IInv, TypeOK, Locked
<1>2. FreshInv' BY DEF IInv, FreshInv, Locked
<1>3. (\A q \in Quantities : v[q] \in Int) /\ f \in Int
  <2>1. \A q \in Quantities : v[q] \in Values
    OBVIOUS
  <2> QED
    BY <2>1, Numbers
<1>4. LimitsAreExtremes'
  <2>1. \A q \in Quantities : Highest(high'[q], highs'[q])
    BY <1>3, Singleton
  <2>2. \A q \in LowQuantities : Lowest(low'[q], lows'[q])
    BY <1>3, Singleton
  <2>3. FreqExtremes'
    <3>1. phantom' = {}
      BY DEF IInv, FreshInv
    <3>2. freqValid' => /\ Highest(freqHigh', freqHighs') /\ Lowest(freqLow', freqLows')
      BY <1>3, Singleton
    <3> QED
      BY <3>1, <3>2 DEF FreqExtremes
  <2> QED
    BY <2>1, <2>2, <2>3 DEF LimitsAreExtremes
<1>5. ReadingWithinLimits'
  <2>1. \A q \in Quantities : value'[q] <= high'[q]
    BY <1>3
  <2>2. \A q \in LowQuantities : low'[q] <= value'[q]
    BY <1>3
  <2>3. Locked(f) => freqValid' /\ freqLow' <= f /\ f <= freqHigh'
    BY <1>3
  <2> QED
    BY <2>1, <2>2, <2>3 DEF ReadingWithinLimits, Locked
<1> QED BY <1>1, <1>2, <1>4, <1>5 DEF IInv

LEMMA FrozenInv ==
    ASSUME IInv, NEW v \in [Quantities -> Values], NEW f \in Freqs \union {NoFreq},
           Reading(v, f), Frozen
    PROVE  IInv'
BY DEF Reading, Frozen, freqVars, valueVars, IInv, TypeOK, FreshInv, LimitsAreExtremes,
       FreqExtremes, ReadingWithinLimits

LEMMA WidenInv ==
    ASSUME IInv, NEW v \in [Quantities -> Values], NEW f \in Freqs \union {NoFreq},
           Reading(v, f), Widen(v, f)
    PROVE  IInv'
<1> USE QuantityAssumption, ValueAssumption DEF Reading, Widen
<1>1. TypeOK'
  <2>1. events' \in 0..(EventWrap - 1)
    BY EventsType DEF IInv
  <2>2. high' \in [Quantities -> Values \union {0}] /\ low' \in [LowQuantities -> Values \union {0}]
    BY DEF IInv, TypeOK
  <2>3. highs' \in [Quantities -> SUBSET Values] /\ lows' \in [LowQuantities -> SUBSET Values]
    BY DEF IInv, TypeOK
  <2>4. /\ freqValid' \in BOOLEAN /\ phantom' \subseteq {"high", "low"}
        /\ freqHigh' \in Freqs \union {0} /\ freqLow' \in Freqs \union {0}
        /\ freqHighs' \subseteq Freqs /\ freqLows' \subseteq Freqs
    BY DEF IInv, TypeOK, WidenFreq, Locked, freqVars
  <2> QED
    BY <2>1, <2>2, <2>3, <2>4 DEF IInv, TypeOK
<1>2. FreshInv'
  BY DEF IInv, FreshInv, WidenFreq, Locked, freqVars
<1>3. f \in Int
  BY Numbers
<1>4. LimitsAreExtremes'
  <2>1. ASSUME NEW q \in Quantities PROVE Highest(high'[q], highs'[q])
    BY HighestUnion DEF IInv, TypeOK, LimitsAreExtremes, Above
  <2>2. ASSUME NEW q \in LowQuantities PROVE Lowest(low'[q], lows'[q])
    BY LowestUnion DEF IInv, TypeOK, LimitsAreExtremes, Below
  <2>3. FreqExtremes'
    <3>1. CASE ~Locked(f)
      <4>1. FreqExtremes
        BY DEF IInv, LimitsAreExtremes
      <4>2. UNCHANGED freqVars /\ ~Locked(freq)'
        BY <3>1 DEF WidenFreq, Locked
      <4> QED
        BY <4>1, <4>2 DEF FreqExtremes, freqVars
    <3>2. CASE Locked(f) /\ ~freqValid
      <4>1. f \in Int
        BY <1>3, <3>2
      <4>2. /\ freqHigh' = f /\ freqHighs' = {f} /\ freqLow' = f /\ freqLows' = {f}
            /\ phantom' = {}
        BY <3>2 DEF IInv, FreshInv, WidenFreq
      <4> QED
        BY <4>1, <4>2, Singleton DEF FreqExtremes
    <3>3. CASE Locked(f) /\ freqValid
      <4>1. f \in Nat
        BY <3>3 DEF Locked
      <4>2. /\ freqHigh' = IF f > freqHigh THEN f ELSE freqHigh
            /\ freqLow' = IF f < freqLow THEN f ELSE freqLow
            /\ freqHighs' = freqHighs \union {f} /\ freqLows' = freqLows \union {f}
            /\ phantom' = phantom \ {"high"}
        BY <3>3 DEF WidenFreq
      <4>3. freqHighs \in SUBSET Int /\ freqLows \in SUBSET Int
        BY DEF IInv, TypeOK
      <4>4. FreqExtremes
        BY DEF IInv, LimitsAreExtremes
      <4>5. ASSUME "high" \notin phantom PROVE Highest(freqHigh', freqHighs')
        <5>1. Highest(freqHigh, freqHighs)
          BY <3>3, <4>4, <4>5 DEF FreqExtremes
        <5> QED
          BY <4>1, <4>2, <4>3, <5>1 DEF Highest
      <4>6. ASSUME "high" \in phantom PROVE Highest(freqHigh', freqHighs')
        <5>1. freqHigh = 0 /\ freqHighs = {}
          BY <3>3, <4>4, <4>6 DEF FreqExtremes
        <5> QED
          BY <4>1, <4>2, <5>1 DEF Highest
      <4>7. ASSUME "low" \notin phantom PROVE Lowest(freqLow', freqLows')
        <5>1. Lowest(freqLow, freqLows)
          BY <3>3, <4>4, <4>7 DEF FreqExtremes
        <5> QED
          BY <4>1, <4>2, <4>3, <5>1 DEF Lowest
      <4>8. ASSUME "low" \in phantom PROVE freqLow' = 0
        <5>1. freqLow = 0
          BY <3>3, <4>4, <4>8 DEF FreqExtremes
        <5> QED
          BY <4>1, <4>2, <5>1
      <4>9. "high" \notin phantom' /\ ("low" \in phantom' <=> "low" \in phantom)
        BY <4>2
      <4> QED
        BY <4>5, <4>6, <4>7, <4>8, <4>9 DEF FreqExtremes
    <3> QED
      BY <3>1, <3>2, <3>3
  <2> QED
    BY <2>1, <2>2, <2>3 DEF LimitsAreExtremes
<1>5. ReadingWithinLimits'
  <2>1. /\ \A q \in Quantities : v[q] \in Values /\ high[q] \in Values \union {0}
        /\ \A q \in LowQuantities : low[q] \in Values \union {0}
    BY DEF IInv, TypeOK
  <2>2. \A q \in Quantities : v[q] \in Int /\ high[q] \in Int
    BY <2>1, Numbers
  <2>3. \A q \in LowQuantities : low[q] \in Int
    BY <2>1, Numbers
  <2>4. \A q \in Quantities : value'[q] <= high'[q]
    BY <2>2 DEF Above
  <2>5. \A q \in LowQuantities : low'[q] <= value'[q]
    BY <2>2, <2>3 DEF Below
  <2>6. f \in Int /\ freqHigh \in Int /\ freqLow \in Int
    BY DEF IInv, TypeOK, NoFreq
  <2>7. Locked(f) => freqValid' /\ freqLow' <= f /\ f <= freqHigh'
    BY <2>6 DEF WidenFreq
  <2> QED
    BY <2>4, <2>5, <2>7 DEF ReadingWithinLimits, Locked
<1> QED BY <1>1, <1>2, <1>4, <1>5 DEF IInv

-----------------------------------------------------------------------------
(* The buttons.                                                            *)

LEMMA ClearMaxInv == ASSUME IInv, ClearMax PROVE IInv'
<1> USE QuantityAssumption, ValueAssumption DEF ClearMax, ClearFreqHigh, readingVars
<1>1. TypeOK'
  <2>1. value \in [Quantities -> Values]
    BY DEF IInv, TypeOK, FreshInv
  <2>2. high' \in [Quantities -> Values \union {0}] /\ highs' \in [Quantities -> SUBSET Values]
    BY <2>1
  <2>3. /\ freqValid' \in BOOLEAN /\ phantom' \subseteq {"high", "low"}
        /\ freqHigh' \in Freqs \union {0} /\ freqLow' \in Freqs \union {0}
        /\ freqHighs' \subseteq Freqs /\ freqLows' \subseteq Freqs
    BY DEF IInv, TypeOK, freqVars, Locked
  <2> QED
    BY <2>2, <2>3 DEF IInv, TypeOK
<1>2. FreshInv' BY DEF IInv, FreshInv, freqVars, Locked
<1>3. (\A q \in Quantities : value[q] \in Int) /\ freq \in Int
  <2>1. (\A q \in Quantities : value[q] \in Values \union {0}) /\ freq \in Freqs \union {NoFreq}
    BY DEF IInv, TypeOK
  <2> QED
    BY <2>1, Numbers
<1>4. LimitsAreExtremes'
  <2>1. \A q \in Quantities : Highest(high'[q], highs'[q])
    BY <1>3, Singleton DEF IInv, LimitsAreExtremes
  <2>2. \A q \in LowQuantities : Lowest(low'[q], lows'[q])
    BY <1>3, Singleton DEF IInv, LimitsAreExtremes
  <2>3. FreqExtremes'
    <3>1. CASE ~Locked(freq)
      <4>1. FreqExtremes
        BY DEF IInv, LimitsAreExtremes
      <4>2. UNCHANGED <<freqVars, freq, counted>>
        BY <3>1
      <4> QED
        BY <4>1, <4>2 DEF FreqExtremes, freqVars, Locked
    <3>2. CASE Locked(freq) /\ freqValid
      <4>1. FreqExtremes
        BY DEF IInv, LimitsAreExtremes
      <4>2. /\ freqHigh' = freq /\ freqHighs' = {freq} /\ phantom' = phantom \ {"high"}
            /\ UNCHANGED <<freqLow, freqLows, freq, counted>>
        BY <3>2
      <4>3. Highest(freq, {freq}) /\ Lowest(freq, {freq})
        BY <1>3, Singleton
      <4> QED
        BY <3>2, <4>1, <4>2, <4>3 DEF FreqExtremes, Locked
    <3>3. CASE Locked(freq) /\ ~freqValid
      <4>1. /\ freqHigh' = freq /\ freqHighs' = {freq} /\ phantom' = {"low"}
            /\ freqLow' = 0 /\ freqLows' = {} /\ UNCHANGED <<freq, counted>>
        BY <3>3 DEF IInv, FreshInv
      <4>2. Highest(freq, {freq}) /\ Lowest(freq, {freq})
        BY <1>3, Singleton
      <4>3. ~counted
        BY <3>3 DEF IInv, ReadingWithinLimits
      <4> QED
        BY <4>1, <4>2, <4>3 DEF FreqExtremes
    <3> QED
      BY <3>1, <3>2, <3>3
  <2> QED
    BY <2>1, <2>2, <2>3 DEF LimitsAreExtremes
<1>5. ReadingWithinLimits'
  <2>1. ASSUME counted, Locked(freq)
        PROVE  freqValid' /\ freqLow' <= freq /\ freq <= freqHigh'
    BY <1>3, <2>1 DEF IInv, ReadingWithinLimits
  <2>2. ASSUME counted, NEW q \in Quantities PROVE value[q] <= high'[q]
    BY <1>3, <2>2 DEF IInv, ReadingWithinLimits
  <2>3. ASSUME counted, NEW q \in LowQuantities PROVE low'[q] <= value[q]
    BY <1>3, <2>3 DEF IInv, ReadingWithinLimits
  <2> QED
    BY <2>1, <2>2, <2>3 DEF ReadingWithinLimits, Locked
<1> QED BY <1>1, <1>2, <1>4, <1>5 DEF IInv

LEMMA ClearMinInv == ASSUME IInv, ClearMin PROVE IInv'
<1> USE QuantityAssumption, ValueAssumption DEF ClearMin, ClearFreqLow, readingVars
<1>1. TypeOK'
  <2>1. value \in [Quantities -> Values]
    BY DEF IInv, TypeOK, FreshInv
  <2>2. /\ low' \in [LowQuantities -> Values \union {0}]
        /\ lows' \in [LowQuantities -> SUBSET Values]
    BY <2>1
  <2>3. /\ freqValid' \in BOOLEAN /\ phantom' \subseteq {"high", "low"}
        /\ freqHigh' \in Freqs \union {0} /\ freqLow' \in Freqs \union {0}
        /\ freqHighs' \subseteq Freqs /\ freqLows' \subseteq Freqs
    BY DEF IInv, TypeOK, freqVars, Locked
  <2> QED
    BY <2>2, <2>3 DEF IInv, TypeOK
<1>2. FreshInv' BY DEF IInv, FreshInv, freqVars, Locked
<1>3. (\A q \in Quantities : value[q] \in Int) /\ freq \in Int
  <2>1. (\A q \in Quantities : value[q] \in Values \union {0}) /\ freq \in Freqs \union {NoFreq}
    BY DEF IInv, TypeOK
  <2> QED
    BY <2>1, Numbers
<1>4. LimitsAreExtremes'
  <2>1. \A q \in Quantities : Highest(high'[q], highs'[q])
    BY <1>3, Singleton DEF IInv, LimitsAreExtremes
  <2>2. \A q \in LowQuantities : Lowest(low'[q], lows'[q])
    BY <1>3, Singleton DEF IInv, LimitsAreExtremes
  <2>3. FreqExtremes'
    <3>1. CASE ~Locked(freq)
      <4>1. FreqExtremes
        BY DEF IInv, LimitsAreExtremes
      <4>2. UNCHANGED <<freqVars, freq, counted>>
        BY <3>1
      <4> QED
        BY <4>1, <4>2 DEF FreqExtremes, freqVars, Locked
    <3>2. CASE Locked(freq) /\ freqValid
      <4>1. FreqExtremes
        BY DEF IInv, LimitsAreExtremes
      <4>2. /\ freqLow' = freq /\ freqLows' = {freq} /\ phantom' = phantom \ {"low"}
            /\ UNCHANGED <<freqHigh, freqHighs, freq, counted>>
        BY <3>2
      <4>3. Highest(freq, {freq}) /\ Lowest(freq, {freq})
        BY <1>3, Singleton
      <4> QED
        BY <3>2, <4>1, <4>2, <4>3 DEF FreqExtremes, Locked
    <3>3. CASE Locked(freq) /\ ~freqValid
      <4>1. /\ freqLow' = freq /\ freqLows' = {freq} /\ phantom' = {"high"}
            /\ freqHigh' = 0 /\ freqHighs' = {} /\ UNCHANGED <<freq, counted>>
        BY <3>3 DEF IInv, FreshInv
      <4>2. Highest(freq, {freq}) /\ Lowest(freq, {freq})
        BY <1>3, Singleton
      <4>3. ~counted
        BY <3>3 DEF IInv, ReadingWithinLimits
      <4> QED
        BY <4>1, <4>2, <4>3 DEF FreqExtremes
    <3> QED
      BY <3>1, <3>2, <3>3
  <2> QED
    BY <2>1, <2>2, <2>3 DEF LimitsAreExtremes
<1>5. ReadingWithinLimits'
  <2>1. ASSUME counted, Locked(freq)
        PROVE  freqValid' /\ freqLow' <= freq /\ freq <= freqHigh'
    BY <1>3, <2>1 DEF IInv, ReadingWithinLimits
  <2>2. ASSUME counted, NEW q \in Quantities PROVE value[q] <= high'[q]
    BY <1>3, <2>2 DEF IInv, ReadingWithinLimits
  <2>3. ASSUME counted, NEW q \in LowQuantities PROVE low'[q] <= value[q]
    BY <1>3, <2>3 DEF IInv, ReadingWithinLimits
  <2> QED
    BY <2>1, <2>2, <2>3 DEF ReadingWithinLimits, Locked
<1> QED BY <1>1, <1>2, <1>4, <1>5 DEF IInv

LEMMA FreezeInv == ASSUME IInv, Freeze PROVE IInv'
BY DEF Freeze, readingVars, freqVars, valueVars, IInv, TypeOK, FreshInv,
       LimitsAreExtremes, FreqExtremes, ReadingWithinLimits, Locked

-----------------------------------------------------------------------------
(* The theorems.                                                           *)

\* The invariant that carries the two below: before the first reading and the
\* first lock nothing was counted and the limits are those of the memset.
THEOREM Inductive == Spec => []IInv
<1>1. ASSUME IInv, UNCHANGED vars PROVE IInv'
  BY <1>1 DEF vars, readingVars, freqVars, valueVars, IInv, TypeOK, FreshInv,
              LimitsAreExtremes, FreqExtremes, ReadingWithinLimits, Locked
<1>2. IInv /\ [Next]_vars => IInv'
  BY <1>1, SeedInv, FrozenInv, WidenInv, ClearMaxInv, ClearMinInv, FreezeInv
  DEF Next, Update
<1> QED
  BY InitInv, <1>2, PTL DEF Spec

\* Every limit is the extreme of what was counted for it.
THEOREM LimitsCorrect == Spec => []LimitsAreExtremes
<1>1. IInv => LimitsAreExtremes
  BY DEF IInv
<1> QED
  BY <1>1, Inductive, PTL

\* The limits enclose a reading that no freeze kept out.
THEOREM LimitsEnclose == Spec => []ReadingWithinLimits
<1>1. IInv => ReadingWithinLimits
  BY DEF IInv
<1> QED
  BY <1>1, Inductive, PTL

-----------------------------------------------------------------------------
(* Events.                                                                 *)

\* A count of one to EventWrap - 1 more is another count.
LEMMA CountMoves ==
    ASSUME NEW w \in Nat, NEW e \in 0..(w - 1), NEW n \in 0..(w - 1)
    PROVE  (e + n) % w = e <=> n = 0
<1>1. CASE e + n < w
  <2>1. (e + n) % w = e + n
    BY <1>1
  <2> QED
    BY <2>1
<1>2. CASE ~(e + n < w)
  <2>1. e + n - w \in 0..(w - 1) /\ e + n = w * 1 + (e + n - w)
    BY <1>2
  <2>2. (e + n) % w = e + n - w
    BY <2>1
  <2> QED
    BY <1>2, <2>2
<1> QED
  BY <1>1, <1>2

\* The limits an update moves, counted.
LEMMA MovesCounted ==
    ASSUME TypeOK, NEW v, NEW f, freqValid
    PROVE  /\ Moves(v, f) \in 0..(EventWrap - 1)
           /\ Moves(v, f) = 0 <=> /\ Above(v) = {} /\ Below(v) = {}
                                  /\ Locked(f) => ~(f > freqHigh) /\ ~(f < freqLow)
<1> DEFINE a == Cardinality(Above(v))
           b == Cardinality(Below(v))
           m == FreqMoves(f)
<1>1. IsFiniteSet(Quantities) /\ IsFiniteSet(LowQuantities)
  BY QuantityAssumption, FS_Subset
<1>2. IsFiniteSet(Above(v)) /\ a \in Nat /\ a <= Cardinality(Quantities)
  <2>1. Above(v) \subseteq Quantities
    BY DEF Above
  <2> QED
    BY <1>1, <2>1, FS_Subset, FS_CardinalityType
<1>3. IsFiniteSet(Below(v)) /\ b \in Nat /\ b <= Cardinality(LowQuantities)
  <2>1. Below(v) \subseteq LowQuantities
    BY DEF Below
  <2> QED
    BY <1>1, <2>1, FS_Subset, FS_CardinalityType
<1>4. (a = 0 <=> Above(v) = {}) /\ (b = 0 <=> Below(v) = {})
  BY <1>2, <1>3, FS_EmptySet
<1>5. m \in 0..2 /\ (m = 0 <=> (Locked(f) => ~(f > freqHigh) /\ ~(f < freqLow)))
  BY DEF FreqMoves, FreqAbove, FreqBelow
<1>6. Moves(v, f) = a + b + m
  BY DEF Moves
<1>7. Cardinality(Quantities) \in Nat /\ Cardinality(LowQuantities) \in Nat
  BY <1>1, FS_CardinalityType
<1> HIDE DEF a, b, m
<1>8. a + b + m \in Nat /\ a + b + m <= Cardinality(Quantities) + Cardinality(LowQuantities) + 2
  BY <1>2, <1>3, <1>5, <1>7
<1>9. a + b + m < EventWrap
  BY <1>8, Wrap
<1>10. a + b + m = 0 <=> a = 0 /\ b = 0 /\ m = 0
  BY <1>2, <1>3, <1>5
<1> QED
  BY <1>4, <1>5, <1>6, <1>8, <1>9, <1>10, Wrap

\* An update moves a limit outwards exactly when it counts.
LEMMA WidenCounts ==
    ASSUME IInv, freqValid, NEW v \in [Quantities -> Values],
           NEW f \in Freqs \union {NoFreq}, Widen(v, f)
    PROVE  events' # events <=> Widens
<1>1. /\ \A q \in Quantities : v[q] \in Int /\ high[q] \in Int
      /\ \A q \in LowQuantities : v[q] \in Int /\ low[q] \in Int
  <2>1. /\ \A q \in Quantities : v[q] \in Values /\ high[q] \in Values \union {0}
        /\ \A q \in LowQuantities : v[q] \in Values /\ low[q] \in Values \union {0}
    BY QuantityAssumption DEF IInv, TypeOK
  <2> QED
    BY <2>1, Numbers
<1>2. (\E q \in Quantities : high'[q] > high[q]) <=> Above(v) # {}
  <2>1. ASSUME NEW q \in Quantities PROVE high'[q] > high[q] <=> q \in Above(v)
    <3>1. high'[q] = IF q \in Above(v) THEN v[q] ELSE high[q]
      BY DEF Widen
    <3> QED
      BY <1>1, <3>1 DEF Above
  <2> QED
    BY <2>1 DEF Above
<1>3. (\E q \in LowQuantities : low'[q] < low[q]) <=> Below(v) # {}
  <2>1. ASSUME NEW q \in LowQuantities PROVE low'[q] < low[q] <=> q \in Below(v)
    <3>1. low'[q] = IF q \in Below(v) THEN v[q] ELSE low[q]
      BY DEF Widen
    <3> QED
      BY <1>1, <3>1 DEF Below
  <2> QED
    BY <2>1 DEF Below
<1>4. f \in Int /\ freqHigh \in Int /\ freqLow \in Int
  BY ValueAssumption DEF IInv, TypeOK, NoFreq
<1>5. (freqHigh' > freqHigh \/ freqLow' < freqLow)
      <=> Locked(f) /\ (f > freqHigh \/ f < freqLow)
  <2>1. CASE ~Locked(f)
    <3>1. freqHigh' = freqHigh /\ freqLow' = freqLow
      BY <2>1 DEF Widen, WidenFreq, freqVars
    <3> QED
      BY <1>4, <2>1, <3>1
  <2>2. CASE Locked(f)
    <3>1. /\ freqHigh' = IF f > freqHigh THEN f ELSE freqHigh
          /\ freqLow' = IF f < freqLow THEN f ELSE freqLow
      BY <2>2 DEF Widen, WidenFreq
    <3> QED
      BY <1>4, <2>2, <3>1
  <2> QED
    BY <2>1, <2>2
<1>6. events' # events <=> Moves(v, f) # 0
  <2>1. events' = (events + Moves(v, f)) % EventWrap
    BY DEF Widen
  <2>2. events \in 0..(EventWrap - 1) /\ Moves(v, f) \in 0..(EventWrap - 1)
    BY MovesCounted DEF IInv, TypeOK
  <2> QED
    BY <2>1, <2>2, CountMoves, Wrap
<1>7. Moves(v, f) # 0 <=> \/ Above(v) # {} \/ Below(v) # {}
                          \/ Locked(f) /\ (f > freqHigh \/ f < freqLow)
  BY MovesCounted DEF IInv
<1> QED
  BY <1>2, <1>3, <1>5, <1>6, <1>7 DEF Widens

\* Nothing else counts, nor moves a limit outwards.
LEMMA OthersPullIn ==
    ASSUME IInv, counted,
           \/ UNCHANGED vars \/ Freeze \/ ClearMax \/ ClearMin
           \/ Frozen
    PROVE  events' = events /\ ~Widens
<1>1. /\ \A q \in Quantities : value[q] \in Int /\ high[q] \in Int
      /\ \A q \in LowQuantities : value[q] \in Int /\ low[q] \in Int
  <2>1. /\ \A q \in Quantities : value[q] \in Values \union {0} /\ high[q] \in Values \union {0}
        /\ \A q \in LowQuantities : value[q] \in Values \union {0} /\ low[q] \in Values \union {0}
    BY QuantityAssumption DEF IInv, TypeOK
  <2> QED
    BY <2>1, Numbers
<1>2. freq \in Int /\ freqHigh \in Int /\ freqLow \in Int
  BY ValueAssumption DEF IInv, TypeOK, NoFreq
<1>3. /\ \A q \in Quantities : value[q] <= high[q]
      /\ \A q \in LowQuantities : low[q] <= value[q]
      /\ Locked(freq) => freqLow <= freq /\ freq <= freqHigh
  BY DEF IInv, ReadingWithinLimits
<1>4. events' = events
  BY DEF vars, Freeze, ClearMax, ClearMin, Frozen
<1>5. ASSUME NEW q \in Quantities PROVE ~(high'[q] > high[q])
  <2>1. high' = high \/ high' = value
    BY DEF vars, valueVars, Freeze, ClearMax, ClearMin, Frozen
  <2> QED
    BY <1>1, <1>3, <2>1
<1>6. ASSUME NEW q \in LowQuantities PROVE ~(low'[q] < low[q])
  <2>1. low' = low \/ low'[q] = value[q]
    BY DEF vars, valueVars, Freeze, ClearMax, ClearMin, Frozen
  <2> QED
    BY <1>1, <1>3, <2>1
<1>7. /\ freqHigh' = freqHigh \/ (Locked(freq) /\ freqHigh' = freq)
      /\ freqLow' = freqLow \/ (Locked(freq) /\ freqLow' = freq)
  BY DEF vars, freqVars, Freeze, ClearMax, ClearMin, ClearFreqHigh, ClearFreqLow, Frozen
<1>8. ~(freqHigh' > freqHigh) /\ ~(freqLow' < freqLow)
  BY <1>2, <1>3, <1>7
<1> QED
  BY <1>4, <1>5, <1>6, <1>8 DEF Widens

\* event_count tells every widening, however updates, clears and freezes follow
\* each other, also when it wraps.
THEOREM EventsCorrect == Spec => EventPerWidening
<1>1. ASSUME IInv, [Next]_vars, counted, initialized, freqValid
      PROVE  events' # events <=> Widens
  <2>1. CASE Update
    <3>1. PICK v \in [Quantities -> Values], f \in Freqs \union {NoFreq} :
             Seed(v, f) \/ Frozen \/ Widen(v, f)
      BY <2>1 DEF Update
    <3>2. ~Seed(v, f)
      BY <1>1 DEF Seed
    <3> QED
      BY <1>1, <3>1, <3>2, WidenCounts, OthersPullIn
  <2>2. CASE ~Update
    BY <1>1, <2>2, OthersPullIn DEF Next
  <2> QED
    BY <2>1, <2>2
<1>2. IInv /\ [Next]_vars =>
         [counted /\ initialized /\ freqValid => (events' # events <=> Widens)]_vars
  BY <1>1
<1> QED
  BY Inductive, <1>2, PTL DEF Spec, EventPerWidening
=============================================================================
