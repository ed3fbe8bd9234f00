------------------------- MODULE PowerMetricsProofs -------------------------
(***************************************************************************)
(* From the arithmetic to the readings.  The roundings and the             *)
(* interpolation of AmpComp are right for every reading, gain and          *)
(* frequency, the square root of IntMath for every radicand, and with them *)
(* the numbers of a live reading go together: for every full scale, every  *)
(* window of samples and every frequency.                                  *)
(***************************************************************************)
EXTENDS AmpComp, PowerMetrics, WellFoundedInduction, SequenceTheorems, TLAPS

\* Adding half a divisor before a division gives the nearest quotient.
LEMMA HalfUp ==
    ASSUME NEW n \in Nat, NEW d \in Nat \ {0}
    PROVE  LET q == (n + d \div 2) \div d
           IN  q \in Nat /\ -d <= 2 * (d * q - n) /\ 2 * (d * q - n) <= d
<1> DEFINE h == d \div 2
           q == (n + h) \div d
           r == (n + h) % d
<1>1. h \in Nat /\ 2 * h <= d /\ d <= 2 * h + 1
  OBVIOUS
<1>2. n + h \in Nat
  BY <1>1
<1>3. q \in Nat /\ r \in 0..(d - 1) /\ n + h = d * q + r
  BY <1>1, <1>2
<1> HIDE DEF h, q, r
<1>4. d * q \in Nat
  BY <1>3
<1>5. -d <= 2 * (d * q - n) /\ 2 * (d * q - n) <= d
  BY <1>1, <1>3, <1>4
<1> QED
  BY <1>3, <1>5 DEF q, h

\* amp_comp_apply_u32 returns the nearest value to the exact product.
THEOREM ApplyU32Nearest ==
    ASSUME NEW raw \in Nat, NEW gain \in Nat
    PROVE  ApplyU32(raw, gain) \in Nat /\ Nearest(raw, gain, ApplyU32(raw, gain))
<1>1. raw * gain \in Nat
  OBVIOUS
<1> QED
  BY <1>1, HalfUp, UnityAssumption DEF ApplyU32, Nearest

\* amp_comp_apply_s64 does so for either sign of the power, and a power that
\* changes its sign reads the same.
THEOREM ApplyS64Nearest ==
    ASSUME NEW raw \in Nat \ {0}, NEW gain \in Nat
    PROVE  /\ Nearest(raw, gain, ApplyS64(raw, gain))
           /\ Nearest(-raw, gain, ApplyS64(-raw, gain))
           /\ ApplyS64(-raw, gain) = -ApplyS64(raw, gain)
<1> DEFINE q == (raw * gain + Unity \div 2) \div Unity
<1>1. raw * gain \in Nat /\ raw >= 0 /\ ~(-raw >= 0) /\ -(-raw) = raw
  OBVIOUS
<1>2. /\ q \in Nat
      /\ -Unity <= 2 * (Unity * q - raw * gain) /\ 2 * (Unity * q - raw * gain) <= Unity
  BY <1>1, HalfUp, UnityAssumption
<1>3. ApplyS64(raw, gain) = q /\ ApplyS64(-raw, gain) = -q
  BY <1>1 DEF ApplyS64
<1> HIDE DEF q
<1>4. /\ Unity \in Nat /\ Unity * (-q) = -(Unity * q) /\ (-raw) * gain = -(raw * gain)
      /\ Unity * q \in Nat
  BY <1>2, UnityAssumption
<1>5. Nearest(raw, gain, q)
  BY <1>2 DEF Nearest
<1>6. Nearest(-raw, gain, -q)
  BY <1>1, <1>2, <1>4 DEF Nearest
<1> QED
  BY <1>3, <1>5, <1>6

-----------------------------------------------------------------------------
(* The interpolation.  A table of gains is any sequence of two or more.     *)

GainTables == {g \in Seq(Int) : Len(g) >= 2}

\* The two tables are tables of gains.
LEMMA TablesAreGains == VoltageGains \in GainTables /\ CurrentGains \in GainTables
<1>1. VoltageGains \in Seq(Int) /\ Len(VoltageGains) = 25
  BY DEF VoltageGains
<1>2. CurrentGains \in Seq(Int) /\ Len(CurrentGains) = 25
  BY DEF CurrentGains
<1>3. Len(VoltageGains) >= 2 /\ Len(CurrentGains) >= 2
  BY <1>1, <1>2
<1> QED
  BY <1>1, <1>2, <1>3, Zenon DEF GainTables

\* A table has a point every 5 kHz.
LEMMA TablePoints ==
    ASSUME NEW gains \in GainTables
    PROVE  /\ Len(Table(gains)) = Len(gains) /\ Len(gains) \in Nat /\ Len(gains) >= 2
           /\ \A i \in 1..Len(gains) :
                 /\ Table(gains)[i].freq = 500 * (i - 1)
                 /\ Table(gains)[i].gain = gains[i] /\ gains[i] \in Int
<1>1. gains \in Seq(Int) /\ Len(gains) \in Nat /\ Len(gains) >= 2
  BY DEF GainTables
<1>2. Len(Table(gains)) = Len(gains)
  BY <1>1 DEF Table
<1>3. ASSUME NEW i \in 1..Len(gains)
      PROVE  /\ Table(gains)[i].freq = 500 * (i - 1)
             /\ Table(gains)[i].gain = gains[i] /\ gains[i] \in Int
  BY <1>1, <1>3 DEF Table
<1> QED
  BY <1>1, <1>2, <1>3

\* Between the first point and the last, the search ends at the segment around f.
LEMMA SegmentAround ==
    ASSUME NEW gains \in GainTables, NEW f \in Nat, f > 0, f < 500 * (Len(gains) - 1)
    PROVE  LET s == Segment(Table(gains), f)
           IN  s \in 2..Len(gains) /\ 500 * (s - 2) < f /\ f <= 500 * (s - 1)
<1> DEFINE t == Table(gains)
           n == Len(gains)
           Ends(i) == f <= t[i].freq /\ \A j \in 2..(i - 1) : f > t[j].freq
           k == (f + 499) \div 500 + 1
           s == CHOOSE i \in 2..n : Ends(i)
<1>1. n \in Nat /\ n >= 2 /\ Len(t) = n /\ \A i \in 1..n : t[i].freq = 500 * (i - 1)
  BY TablePoints
<1>2. k \in 2..n /\ 500 * (k - 2) < f /\ f <= 500 * (k - 1)
  BY <1>1
<1> HIDE DEF t, n, k
<1>3. Ends(k)
  <2>1. f <= t[k].freq
    BY <1>1, <1>2
  <2>2. ASSUME NEW j \in 2..(k - 1) PROVE f > t[j].freq
    BY <1>1, <1>2, <2>2
  <2> QED
    BY <2>1, <2>2
<1>4. s \in 2..n /\ Ends(s)
  BY <1>2, <1>3
<1>5. s = Segment(t, f)
  BY <1>1 DEF Segment
<1> HIDE DEF s
<1>6. f <= 500 * (s - 1)
  BY <1>1, <1>4
<1>7. 500 * (s - 2) < f
  <2>1. CASE s = 2
    BY <2>1
  <2>2. CASE s # 2
    <3>1. s - 1 \in 2..(s - 1) /\ s - 1 \in 1..n
      BY <1>1, <1>4, <2>2
    <3>2. f > t[s - 1].freq /\ t[s - 1].freq = 500 * (s - 1 - 1)
      BY <1>1, <1>4, <3>1
    <3> QED
      BY <1>4, <3>2
  <2> QED
    BY <2>1, <2>2
<1> QED
  BY <1>4, <1>5, <1>6, <1>7 DEF t, n

\* C's division truncates: what a rounding quotient by 500 can be off by.
LEMMA RoundedQuotient ==
    ASSUME NEW p \in Int
    PROVE  LET error == 500 * Quotient(p + 250, 500) - p
           IN  /\ Quotient(p + 250, 500) \in Int
               /\ -250 <= error /\ error <= 749
               /\ p >= 0 => error <= 250
BY DEF Quotient

\* The line by its distance from the segment's start.
LEMMA Interpolation ==
    ASSUME NEW a \in Int, NEW b \in Int, NEW x \in Int
    PROVE  a * (500 - x) + b * x = 500 * a + (b - a) * x
<1>1. a * (500 - x) = 500 * a - a * x /\ (b - a) * x = b * x - a * x
  OBVIOUS
<1>2. a * x \in Int /\ b * x \in Int
  OBVIOUS
<1> QED
  BY <1>1, <1>2

\* On a segment the line runs through its two ends.
LEMMA LineOnSegment ==
    ASSUME NEW gains \in GainTables, NEW f \in Nat, NEW s \in 2..Len(gains),
           500 * (s - 2) < f, f <= 500 * (s - 1), f < 500 * (Len(gains) - 1)
    PROVE  Line(gains, f) =
              500 * gains[s - 1] + (gains[s] - gains[s - 1]) * (f - 500 * (s - 2))
<1> DEFINE off == f - 500 * (s - 2)
<1>1. /\ Len(gains) \in Nat /\ s \in Nat /\ gains[s - 1] \in Int /\ gains[s] \in Int
      /\ off \in 1..500
  BY TablePoints
<1>2. CASE off < 500
  <2>1. f \div 500 = s - 2 /\ f % 500 = off
    BY <1>1, <1>2
  <2>2. Line(gains, f) = gains[s - 1] * (500 - off) + gains[s] * off
    BY <1>1, <2>1 DEF Line
  <2>3. off \in Int
    BY <1>1
  <2> HIDE DEF off
  <2>4. gains[s - 1] * (500 - off) + gains[s] * off
          = 500 * gains[s - 1] + (gains[s] - gains[s - 1]) * off
    <3> DEFINE a == gains[s - 1]
               b == gains[s]
    <3>1. a \in Int /\ b \in Int
      BY <1>1
    <3> HIDE DEF a, b
    <3>2. a * (500 - off) + b * off = 500 * a + (b - a) * off
      BY <2>3, <3>1, Interpolation
    <3> QED
      BY <3>2, Zenon DEF a, b
  <2> QED
    BY <2>2, <2>4 DEF off
<1>3. CASE off = 500
  <2>1. f \div 500 = s - 1 /\ f % 500 = 0 /\ s + 1 \in 1..Len(gains)
    BY <1>1, <1>3
  <2>2. gains[s + 1] \in Int
    BY <2>1, TablePoints
  <2>3. Line(gains, f) = gains[s] * 500 + gains[s + 1] * 0
    BY <1>1, <2>1 DEF Line
  <2> QED
    BY <1>1, <1>3, <2>2, <2>3
<1> QED
  BY <1>1, <1>2, <1>3

\* amp_comp_lookup is within its rounding of the line between the points.
LEMMA LookupOnLine ==
    ASSUME NEW gains \in GainTables, NEW f \in Nat
    PROVE  /\ Lookup(Table(gains), f) \in Int
           /\ 500 * Lookup(Table(gains), f) - Line(gains, f)
                 \in -250..(IF Falls(gains, f) THEN 749 ELSE 250)
<1> DEFINE t == Table(gains)
           n == Len(gains)
<1>1. /\ n \in Nat /\ n >= 2 /\ Len(t) = n
      /\ \A i \in 1..n : t[i].freq = 500 * (i - 1) /\ t[i].gain = gains[i] /\ gains[i] \in Int
  BY TablePoints
<1>0. Table(gains) = t
  OBVIOUS
<1> HIDE DEF t, n
<1>2. CASE f = 0
  <2>1. Lookup(t, f) = gains[1]
    BY <1>1, <1>2 DEF Lookup
  <2>2. Line(gains, f) = gains[1] * (500 - 0) + gains[2] * 0 /\ gains[1] \in Int /\ gains[2] \in Int
    BY <1>1, <1>2 DEF Line, n
  <2> QED
    BY <1>0, <2>1, <2>2
<1>3. CASE f >= 500 * (n - 1)
  <2>1. Lookup(t, f) = gains[n] /\ gains[n] \in Int
    BY <1>1, <1>3 DEF Lookup
  <2>2. f \div 500 + 1 >= n
    BY <1>1, <1>3
  <2>3. Line(gains, f) = 500 * gains[n]
    BY <2>2 DEF Line, n
  <2> QED
    BY <1>0, <2>1, <2>3
<1>4. CASE f > 0 /\ f < 500 * (n - 1)
  <2> DEFINE s == Segment(t, f)
             d == gains[s] - gains[s - 1]
             off == f - 500 * (s - 2)
  <2>1. s \in 2..n /\ 500 * (s - 2) < f /\ f <= 500 * (s - 1)
    BY <1>4, SegmentAround DEF t, n
  <2> HIDE DEF s
  <2>2. /\ t[s].freq = 500 * (s - 1) /\ t[s - 1].freq = 500 * (s - 2)
        /\ t[s].gain = gains[s] /\ t[s - 1].gain = gains[s - 1]
        /\ gains[s] \in Int /\ gains[s - 1] \in Int
    <3>1. s \in 1..n /\ s - 1 \in 1..n /\ s - 1 - 1 = s - 2
      BY <1>1, <2>1
    <3> QED
      BY <1>1, <3>1
  <2>3. d \in Int /\ off \in 1..500 /\ d * off \in Int /\ t[s].freq - t[s - 1].freq = 500
    BY <2>1, <2>2
  <2>4. Lookup(t, f) = gains[s - 1] + Quotient(d * off + 250, 500)
    <3>1. ~(f <= t[1].freq) /\ ~(f >= t[Len(t)].freq)
      BY <1>1, <1>4
    <3> DEFINE span == t[s].freq - t[s - 1].freq
    <3>2. Lookup(t, f) = t[s - 1].gain +
            Quotient((t[s].gain - t[s - 1].gain) * (f - t[s - 1].freq) + span \div 2, span)
      BY <3>1, Zenon DEF Lookup, Offset, s
    <3>3. span = 500 /\ span \div 2 = 250
      BY <2>3
    <3> QED
      BY <2>2, <3>2, <3>3
  <2>5. Line(gains, f) = 500 * gains[s - 1] + d * off
    BY <1>4, <2>1, LineOnSegment DEF n
  <2>6. d < 0 => Falls(gains, f)
    <3>1. (f + 499) \div 500 = s - 1 /\ s - 1 \in 1..(n - 1) /\ (s - 1) + 1 = s
      BY <1>1, <2>1
    <3>2. d < 0 => gains[s - 1] > gains[s]
      BY <2>2
    <3> QED
      BY <3>1, <3>2 DEF Falls, n
  <2> HIDE DEF d, off
  <2>7. d * off < 0 => d < 0
    BY <2>3
  <2> DEFINE p == d * off
  <2>8. p \in Int /\ (p < 0 => Falls(gains, f))
    BY <2>3, <2>6, <2>7
  <2>9. Lookup(t, f) = gains[s - 1] + Quotient(p + 250, 500) /\ Line(gains, f) = 500 * gains[s - 1] + p
    BY <2>4, <2>5
  <2> HIDE DEF p
  <2> DEFINE q == Quotient(p + 250, 500)
  <2>10. /\ q \in Int /\ -250 <= 500 * q - p /\ 500 * q - p <= 749
         /\ p >= 0 => 500 * q - p <= 250
    BY <2>8, RoundedQuotient, SMT
  <2>11. Lookup(t, f) = gains[s - 1] + q
    BY <2>9
  <2> HIDE DEF q
  <2>12. 500 * Lookup(t, f) - Line(gains, f) = 500 * q - p
    BY <2>2, <2>8, <2>9, <2>10, <2>11
  <2>13. Lookup(t, f) \in Int
    BY <2>2, <2>10, <2>11
  <2> QED
    BY <1>0, <2>8, <2>10, <2>12, <2>13
<1> QED
  BY <1>1, <1>2, <1>3, <1>4

\* Both tables' gains are on the lines between the measured points, at the metrics'
\* frequency and at each of its harmonics, however far the fundamental sweeps.
THEOREM LookupCorrect == SweepSpec => []GainOnLine
<1> DEFINE Inv == freq \in Nat
<1>1. SweepInit => Inv
  BY DEF SweepInit
<1>2. Inv /\ [SweepNext]_sweepVars => Inv'
  BY DEF SweepNext, Reading, Restart, sweepVars
<1>3. Inv => GainOnLine
  <2> SUFFICES ASSUME freq \in Nat, NEW gains \in {VoltageGains, CurrentGains},
                      NEW order \in Orders, freqOk
               PROVE  500 * HarmonicGain(Table(gains), order) - Line(gains, freq * order)
                        \in -250..(IF Falls(gains, freq * order) THEN 749 ELSE 250)
    BY DEF GainOnLine
  <2>1. gains \in GainTables /\ freq * order \in Nat
    BY TablesAreGains DEF Orders
  <2>2. HarmonicGain(Table(gains), order) = Lookup(Table(gains), freq * order)
    BY DEF HarmonicGain
  <2>3. 500 * Lookup(Table(gains), freq * order) - Line(gains, freq * order)
          \in -250..(IF Falls(gains, freq * order) THEN 749 ELSE 250)
    BY <2>1, LookupOnLine
  <2> QED
    BY <2>2, <2>3
<1> QED
  BY <1>1, <1>2, <1>3, PTL DEF SweepSpec

-----------------------------------------------------------------------------
(* Functions that are defined by recursion over 0..n.                       *)

\* A set of naturals that is not empty has a least element.
LEMMA Least ==
    ASSUME NEW S, S \subseteq Nat, S # {}
    PROVE  \E m \in S : \A n \in S : m <= n
<1>1. PICK m \in S : \A n \in S : ~(<<n, m>> \in OpToRel(<, Nat))
  BY NatLessThanWellFounded, WFMin
<1>2. \A n \in S : ~(n < m)
  BY <1>1 DEF OpToRel
<1> QED
  BY <1>2

\* f[0] is d, and G[k] makes f[k] out of f[k - 1].
Recursive(f, n, D, d, G) ==
    f \in [0..n -> D] /\ f[0] = d /\ \A k \in 1..n : f[k] = G[k][f[k - 1]]

\* Every step of a recursion has a value.
LEMMA Recursion ==
    ASSUME NEW n \in Nat, NEW D, NEW d, d \in D, NEW G, G \in [1..n -> [D -> D]]
    PROVE  \E f : Recursive(f, n, D, d, G)
<1> DEFINE Defines(f, m) ==
             /\ f \in [0..m -> D] /\ f[0] = d
             /\ \A k \in 1..m : f[k] = G[k][f[k - 1]]
           Bad == {m \in 0..n : ~(\E f : Defines(f, m))}
<1>1. SUFFICES ASSUME Bad # {} PROVE FALSE
  <2>1. n \notin Bad => \E f : Defines(f, n)
    OBVIOUS
  <2> QED
    BY <2>1 DEF Recursive
<1>2. PICK m \in Bad : \A k \in Bad : m <= k
  <2>1. Bad \subseteq Nat
    OBVIOUS
  <2> HIDE DEF Bad
  <2> QED
    BY <1>1, <2>1, Least
<1>3. m \in 0..n /\ m \in Nat
  OBVIOUS
<1>4. CASE m = 0
  <2>1. Defines([k \in 0..0 |-> d], 0)
    OBVIOUS
  <2> QED
    BY <1>2, <1>4, <2>1
<1>5. CASE m # 0
  <2>1. m - 1 \in 0..n /\ m - 1 \notin Bad
    BY <1>2, <1>3, <1>5
  <2>2. PICK g : Defines(g, m - 1)
    BY <2>1
  <2> DEFINE f == [k \in 0..m |-> IF k = m THEN G[m][g[m - 1]] ELSE g[k]]
  <2>3. /\ g \in [0..(m - 1) -> D] /\ g[0] = d
        /\ \A k \in 1..(m - 1) : g[k] = G[k][g[k - 1]]
    BY <2>2
  <2>4. g[m - 1] \in D /\ m \in 1..n
    BY <1>3, <1>5, <2>3
  <2>5. G[m][g[m - 1]] \in D
    BY <2>4
  <2>6. f \in [0..m -> D] /\ f[0] = d
    BY <1>3, <1>5, <2>3, <2>5
  <2>7. ASSUME NEW k \in 1..m PROVE f[k] = G[k][f[k - 1]]
    <3>1. k - 1 \in 0..m /\ k - 1 # m /\ k \in 0..m /\ (k # m => k \in 1..(m - 1))
      BY <1>3
    <3>2. f[k - 1] = g[k - 1]
      BY <3>1
    <3> QED
      BY <2>3, <3>1, <3>2
  <2>8. Defines(f, m)
    BY <2>6, <2>7
  <2> QED
    BY <2>8
<1> QED
  BY <1>4, <1>5

\* A set of positions that has 0 and the next of each has them all.
LEMMA Upwards ==
    ASSUME NEW n \in Nat, NEW S, 0 \in S, \A k \in 1..n : k - 1 \in S => k \in S
    PROVE  0..n \subseteq S
<1> DEFINE Bad == {k \in 0..n : k \notin S}
<1>1. SUFFICES ASSUME Bad # {} PROVE FALSE
  OBVIOUS
<1>2. PICK m \in Bad : \A k \in Bad : m <= k
  <2>1. Bad \subseteq Nat
    OBVIOUS
  <2> HIDE DEF Bad
  <2> QED
    BY <1>1, <2>1, Least
<1>3. m \in 1..n /\ m - 1 \in 0..n /\ ~(m <= m - 1)
  OBVIOUS
<1>4. m - 1 \in S
  BY <1>2, <1>3
<1> QED
  BY <1>3, <1>4

\* The powers of 4 are defined, and squares.
LEMMA Powers ==
    /\ PowerOf4 \in [0..RootDigits -> Nat] /\ PowerOf4[0] = 1
    /\ \A k \in 1..RootDigits : PowerOf4[k] = 4 * PowerOf4[k - 1]
<1> DEFINE G == [k \in 1..RootDigits |-> [a \in Nat |-> 4 * a]]
           Is(f) == f = [k \in 0..RootDigits |-> IF k = 0 THEN 1 ELSE 4 * f[k - 1]]
<1>1. RootDigits \in Nat /\ G \in [1..RootDigits -> [Nat -> Nat]]
  BY RootAssumption
<1>2. PICK f \in [0..RootDigits -> Nat] :
         f[0] = 1 /\ \A k \in 1..RootDigits : f[k] = G[k][f[k - 1]]
  <2> DEFINE D == Nat
             d == 1
  <2>1. d \in D /\ RootDigits \in Nat /\ G \in [1..RootDigits -> [D -> D]]
    BY <1>1
  <2> HIDE DEF G, D, d
  <2>2. \E f : Recursive(f, RootDigits, D, d, G)
    BY <2>1, Recursion
  <2> QED
    BY <2>2 DEF D, d, Recursive
<1>3. ASSUME NEW k \in 1..RootDigits PROVE f[k] = 4 * f[k - 1]
  <2>1. f[k] = G[k][f[k - 1]] /\ G[k] = [a \in Nat |-> 4 * a]
    BY <1>2
  <2>2. f[k - 1] \in Nat
    BY <1>1, <1>2
  <2> HIDE DEF G
  <2> QED
    BY <2>1, <2>2
<1>4. Is(f)
  BY <1>1, <1>2, <1>3
<1>5. Is(PowerOf4)
  <2>1. PowerOf4 = CHOOSE g : Is(g)
    BY DEF PowerOf4
  <2> HIDE DEF Is
  <2> QED
    BY <1>4, <2>1
<1> DEFINE S == {k \in Nat : k \in 0..RootDigits => PowerOf4[k] \in Nat}
<1>6. PowerOf4[0] = 1 /\ \A k \in 1..RootDigits : PowerOf4[k] = 4 * PowerOf4[k - 1]
  BY <1>1, <1>5
<1>7. 0 \in S /\ \A k \in 1..RootDigits : k - 1 \in S => k \in S
  BY <1>1, <1>6
<1>8. 0..RootDigits \subseteq S
  <2> HIDE DEF S
  <2> QED
    BY <1>1, <1>7, Upwards
<1> QED
  BY <1>5, <1>6, <1>8

\* A power of 4 is the square of a natural.
LEMMA PowersAreSquares ==
    \A k \in 0..RootDigits : \E u \in Nat \ {0} : u * u = PowerOf4[k]
<1> DEFINE S == {k \in Nat : \E u \in Nat \ {0} : u * u = PowerOf4[k]}
<1>1. RootDigits \in Nat
  BY RootAssumption
<1>2. 0 \in S
  <2>1. 1 * 1 = PowerOf4[0] /\ 1 \in Nat \ {0} /\ 0 \in Nat
    BY Powers
  <2> QED
    BY <2>1
<1>3. ASSUME NEW k \in 1..RootDigits, k - 1 \in S PROVE k \in S
  <2>1. PICK u \in Nat \ {0} : u * u = PowerOf4[k - 1]
    BY <1>3
  <2>2. (2 * u) * (2 * u) = 4 * (u * u)
    OBVIOUS
  <2>3. 2 * u \in Nat \ {0} /\ k \in Nat /\ (2 * u) * (2 * u) = PowerOf4[k]
    BY <1>1, <2>1, <2>2, Powers
  <2> QED
    BY <2>3
<1>4. 0..RootDigits \subseteq S
  <2> HIDE DEF S
  <2> QED
    BY <1>1, <1>2, <1>3, Upwards
<1> QED
  BY <1>4

\* A square has one root.
LEMMA SameRoot ==
    ASSUME NEW u \in Nat, NEW w \in Nat, u * u = w * w
    PROVE  u = w
<1>1. ASSUME NEW a \in Nat, NEW b \in Nat, a < b PROVE a * a < b * b
  <2>1. a * a <= a * b /\ a * b < b * b
    BY <1>1
  <2> QED
    BY <2>1
<1>2. u * u \in Nat /\ w * w \in Nat
  OBVIOUS
<1> QED
  BY <1>1, <1>2

\* One digit of the root: what is left is x less the root's square, and x lies below
\* the square of the next candidate.
LEMMA DigitKept ==
    ASSUME NEW x \in Nat, NEW root \in Nat, NEW b \in Nat \ {0}, NEW s,
           s.op = x - root * root, s.res = root * (2 * b), s.one = b * b,
           root * root <= x, x < (root + 2 * b) * (root + 2 * b)
    PROVE  \E next \in Nat :
              /\ RootDigit(s).op = x - next * next /\ RootDigit(s).res = next * b
              /\ next * next <= x /\ x < (next + b) * (next + b)
<1> DEFINE rr == root * root
           rb == root * b
           bb == b * b
<1>1. rr \in Nat /\ rb \in Nat /\ bb \in Nat
  OBVIOUS
<1>2. /\ s.res = 2 * rb /\ (root + b) * (root + b) = rr + 2 * rb + bb
      /\ (root + 2 * b) * (root + 2 * b) = (root + b + b) * (root + b + b)
      /\ (root + b) * b = rb + bb
  OBVIOUS
<1>3. s.op = x - rr /\ s.one = bb /\ rr <= x
  OBVIOUS
<1>4. CASE s.op >= s.res + s.one
  <2>1. RootDigit(s).op = s.op - (s.res + s.one) /\ RootDigit(s).res = s.res \div 2 + s.one
    BY <1>4 DEF RootDigit
  <2> HIDE DEF rr, rb, bb
  <2>2. (2 * rb) \div 2 = rb
    BY <1>1
  <2>3. /\ RootDigit(s).op = x - (root + b) * (root + b) /\ RootDigit(s).res = (root + b) * b
        /\ (root + b) * (root + b) <= x
    BY <1>1, <1>2, <1>3, <1>4, <2>1, <2>2
  <2>4. root + b \in Nat /\ x < (root + b + b) * (root + b + b)
    BY <1>2
  <2> QED
    BY <2>3, <2>4
<1>5. CASE ~(s.op >= s.res + s.one)
  <2>1. RootDigit(s).op = s.op /\ RootDigit(s).res = s.res \div 2
    BY <1>5 DEF RootDigit
  <2> HIDE DEF rr, rb, bb
  <2>2. (2 * rb) \div 2 = rb
    BY <1>1
  <2>3. RootDigit(s).op = x - rr /\ RootDigit(s).res = rb /\ x < (root + b) * (root + b)
    BY <1>1, <1>2, <1>3, <1>5, <2>1, <2>2
  <2> QED
    BY <1>3, <2>3 DEF rr, rb
<1> QED
  BY <1>4, <1>5

\* app_isqrt_u64 is the root, rounded down, of every number that fits the radicand.
THEOREM RootFloor ==
    ASSUME NEW x \in Nat, x < PowerOf4[RootDigits]
    PROVE  LET r == Isqrt(x) IN r \in Nat /\ r * r <= x /\ x < (r + 1) * (r + 1)
<1> DEFINE D == [op : Int, res : Int, one : Int]
           d == [op |-> x, res |-> 0, one |-> PowerOf4[RootDigits - 1]]
           G == [k \in 1..RootDigits |-> [s \in D |-> RootDigit(s)]]
           Is(f) == f = [k \in 0..RootDigits |-> IF k = 0 THEN d ELSE RootDigit(f[k - 1])]
           after == CHOOSE f : Is(f)
<1>1. RootDigits \in Nat /\ RootDigits > 0 /\ PowerOf4[RootDigits - 1] \in Nat
  BY RootAssumption, Powers
<1>2. ASSUME NEW s \in D PROVE RootDigit(s) \in D
  BY DEF RootDigit
<1>3. d \in D
  BY <1>1
<1>4. Isqrt(x) = after[RootDigits].res
  BY DEF Isqrt
<1>5. Is(after)
  <2>1. G \in [1..RootDigits -> [D -> D]]
    BY <1>2
  <2>2. ASSUME NEW k \in 1..RootDigits PROVE G[k] = [s \in D |-> RootDigit(s)]
    OBVIOUS
  <2> HIDE DEF D, G, d
  <2>0. d \in D /\ RootDigits \in Nat /\ G \in [1..RootDigits -> [D -> D]]
    BY <1>1, <1>3, <2>1
  <2>3. PICK f : Recursive(f, RootDigits, D, d, G)
    BY <2>0, Recursion
  <2>4. ASSUME NEW k \in 1..RootDigits PROVE f[k] = RootDigit(f[k - 1])
    <3>1. f[k - 1] \in D
      BY <1>1, <2>3 DEF Recursive
    <3> QED
      BY <2>2, <2>3, <3>1 DEF Recursive
  <2>5. Is(f)
    BY <1>1, <2>3, <2>4 DEF Recursive
  <2> HIDE DEF Is
  <2> QED
    BY <2>5
<1> HIDE DEF after
<1>6. after[0] = d /\ \A k \in 1..RootDigits : after[k] = RootDigit(after[k - 1])
  BY <1>1, <1>5
<1> DEFINE Kept(k, root, u) ==
             /\ u * u = PowerOf4[RootDigits - k]
             /\ after[k].op = x - root * root /\ after[k].res = root * u
             /\ k < RootDigits => after[k].one = PowerOf4[RootDigits - k - 1]
             /\ root * root <= x /\ x < (root + u) * (root + u)
           S == {k \in Nat : \E root \in Nat, u \in Nat \ {0} : Kept(k, root, u)}
<1>7. 0 \in S
  <2>1. PICK u \in Nat \ {0} : u * u = PowerOf4[RootDigits]
    BY <1>1, PowersAreSquares
  <2>2. after[0].op = x /\ after[0].res = 0 /\ after[0].one = PowerOf4[RootDigits - 1]
    BY <1>6
  <2>3. Kept(0, 0, u)
    BY <1>1, <2>1, <2>2
  <2> QED
    BY <2>3
<1>8. ASSUME NEW k \in 1..RootDigits, k - 1 \in S PROVE k \in S
  <2>1. PICK root \in Nat, u \in Nat \ {0} : Kept(k - 1, root, u)
    BY <1>8
  <2>2. PICK b \in Nat \ {0} : b * b = PowerOf4[RootDigits - k]
    BY <1>1, PowersAreSquares
  <2>3. u = 2 * b
    <3>1. PowerOf4[RootDigits - (k - 1)] = 4 * PowerOf4[RootDigits - k]
      BY <1>1, Powers
    <3>2. u * u = PowerOf4[RootDigits - (k - 1)]
      BY <2>1
    <3>3. (2 * b) * (2 * b) = 4 * (b * b)
      OBVIOUS
    <3>4. 2 * b \in Nat /\ u * u = (2 * b) * (2 * b)
      BY <2>2, <3>1, <3>2, <3>3
    <3> QED
      BY <3>4, SameRoot
  <2> DEFINE s == after[k - 1]
  <2>4. /\ s.op = x - root * root /\ s.res = root * (2 * b) /\ s.one = b * b
        /\ root * root <= x /\ x < (root + 2 * b) * (root + 2 * b)
    <3>1. RootDigits - (k - 1) - 1 = RootDigits - k /\ k - 1 < RootDigits
      BY <1>1
    <3> QED
      BY <2>1, <2>2, <2>3, <3>1
  <2>5. after[k] = RootDigit(s)
    BY <1>6
  <2> HIDE DEF s
  <2>6. PICK next \in Nat :
          /\ RootDigit(s).op = x - next * next /\ RootDigit(s).res = next * b
          /\ next * next <= x /\ x < (next + b) * (next + b)
    BY <2>4, DigitKept
  <2>7. k < RootDigits => after[k].one = PowerOf4[RootDigits - k - 1]
    <3>1. after[k].one = (b * b) \div 4
      BY <2>4, <2>5 DEF RootDigit
    <3>2. ASSUME k < RootDigits
          PROVE  /\ PowerOf4[RootDigits - k] = 4 * PowerOf4[RootDigits - k - 1]
                 /\ PowerOf4[RootDigits - k - 1] \in Nat
      <4>1. /\ RootDigits - k \in 1..RootDigits /\ RootDigits - k - 1 \in 0..RootDigits
        BY <1>1, <3>2
      <4> QED
        BY <4>1, Powers
    <3> QED
      BY <2>2, <3>1, <3>2
  <2>8. Kept(k, next, b)
    BY <2>2, <2>5, <2>6, <2>7
  <2> QED
    BY <1>1, <2>8
<1>9. 0..RootDigits \subseteq S
  <2> HIDE DEF S
  <2> QED
    BY <1>1, <1>7, <1>8, Upwards
<1>10. PICK root \in Nat, u \in Nat \ {0} : Kept(RootDigits, root, u)
  BY <1>1, <1>9
<1>11. u = 1
  <2>1. u * u = 1 * 1
    BY <1>1, <1>10, Powers
  <2> QED
    BY <2>1, SameRoot
<1> QED
  BY <1>4, <1>10, <1>11
-----------------------------------------------------------------------------
(* The sums over a window.                                                  *)

\* A sum is the last of the running sums.
LEMMA RunningSum ==
    ASSUME NEW n \in Nat, NEW values, values \in [1..n -> Int]
    PROVE  \E sum \in [0..n -> Int] :
              /\ sum[0] = 0 /\ \A k \in 1..n : sum[k] = sum[k - 1] + values[k]
              /\ Total(values) = sum[n]
<1> DEFINE G == [k \in 1..n |-> [a \in Int |-> a + values[k]]]
           Is(f) == f = [k \in 0..n |-> IF k = 0 THEN 0 ELSE f[k - 1] + values[k]]
           sum == CHOOSE f : Is(f)
<1>1. Total(values) = sum[n]
  <2>1. values \in Seq(Int) /\ Len(values) = n
    OBVIOUS
  <2> QED
    BY <2>1 DEF Total
<1>2. Is(sum)
  <2> DEFINE D == Int
             d == 0
  <2>1. d \in D /\ G \in [1..n -> [D -> D]] /\ \A k \in 1..n : G[k] = [a \in Int |-> a + values[k]]
    OBVIOUS
  <2> HIDE DEF D, d, G
  <2>2. PICK f : Recursive(f, n, D, d, G)
    BY <2>1, Recursion
  <2>3. ASSUME NEW k \in 1..n PROVE f[k] = f[k - 1] + values[k]
    <3>1. f[k - 1] \in Int
      BY <2>2 DEF Recursive, D
    <3> QED
      BY <2>1, <2>2, <3>1 DEF Recursive
  <2>4. Is(f)
    BY <2>2, <2>3 DEF Recursive, d
  <2> HIDE DEF Is
  <2> QED
    BY <2>4
<1> HIDE DEF sum
<1>3. sum[0] = 0 /\ \A k \in 1..n : sum[k] = sum[k - 1] + values[k]
  BY <1>2
<1> DEFINE S == {k \in Nat : k \in 0..n => sum[k] \in Int}
<1>4. 0..n \subseteq S
  <2>1. 0 \in S
    BY <1>3
  <2>2. \A k \in 1..n : k - 1 \in S => k \in S
    BY <1>3
  <2> HIDE DEF S
  <2> QED
    BY <2>1, <2>2, Upwards
<1>5. sum \in [0..n -> Int]
  BY <1>2, <1>4
<1> QED
  BY <1>1, <1>3, <1>5

Squares(n, v) == Total([j \in 1..n |-> v[j] * v[j]])
Products(n, v, i) == Total([j \in 1..n |-> v[j] * i[j]])

\* A square is a natural.
LEMMA SquareNatural ==
    ASSUME NEW a \in Int
    PROVE  a * a \in Nat
<1>1. CASE a >= 0
  BY <1>1
<1>2. CASE a < 0
  <2>1. (-a) * (-a) = a * a /\ -a \in Nat
    BY <1>2
  <2>2. (-a) * (-a) \in Nat
    BY <2>1
  <2> QED
    BY <2>1, <2>2
<1> QED
  BY <1>1, <1>2

\* A sum of squares is at most the largest square that often.
LEMMA SumOfSquares ==
    ASSUME NEW n \in Nat, NEW v, v \in [1..n -> Counts]
    PROVE  Squares(n, v) \in Nat /\ Squares(n, v) <= n * (FullScale * FullScale)
<1> DEFINE squares == [j \in 1..n |-> v[j] * v[j]]
           most == FullScale * FullScale
<1>1. FullScale \in Nat
  BY ScaleAssumption
<1>2. ASSUME NEW j \in 1..n
      PROVE  squares[j] \in Nat /\ squares[j] <= most
  <2>1. v[j] \in Int /\ -FullScale <= v[j] /\ v[j] <= FullScale
    BY <1>1 DEF Counts
  <2>2. ASSUME NEW a \in Nat, a <= FullScale PROVE a * a <= FullScale * FullScale
    <3>1. a * a <= a * FullScale /\ a * FullScale <= FullScale * FullScale
      BY <1>1, <2>2
    <3> QED
      BY <1>1, <3>1
  <2> DEFINE a == v[j]
  <2>3. CASE a >= 0
    BY <2>1, <2>2, <2>3
  <2>4. CASE a < 0
    <3> HIDE DEF a
    <3>1. -a \in Nat /\ -a <= FullScale /\ (-a) * (-a) = a * a
      BY <1>1, <2>1, <2>4 DEF a
    <3> QED
      BY <2>2, <3>1 DEF a
  <2>5. v[j] * v[j] \in Nat
    BY <2>1, SquareNatural
  <2> QED
    BY <2>1, <2>3, <2>4, <2>5
<1>3. most \in Nat
  BY <1>1
<1> HIDE DEF most
<1>4. PICK sum \in [0..n -> Int] :
         /\ sum[0] = 0 /\ \A k \in 1..n : sum[k] = sum[k - 1] + squares[k]
         /\ Total(squares) = sum[n]
  <2>1. squares \in [1..n -> Int]
    BY <1>2
  <2> HIDE DEF squares
  <2> QED
    BY <2>1, RunningSum
<1> HIDE DEF squares
<1> DEFINE S == {k \in Nat : k \in 0..n => sum[k] \in Nat /\ sum[k] <= k * most}
<1>5. 0 \in S
  BY <1>3, <1>4
<1>6. ASSUME NEW k \in 1..n, k - 1 \in S PROVE k \in S
  <2>1. sum[k - 1] \in Nat /\ sum[k - 1] <= (k - 1) * most /\ k \in Nat
    BY <1>6
  <2>2. (k - 1) * most = k * most - most /\ k * most \in Int
    BY <1>3, <2>1
  <2>3. sum[k] = sum[k - 1] + squares[k] /\ squares[k] \in Nat /\ squares[k] <= most
    BY <1>2, <1>4
  <2>4. sum[k] \in Nat /\ sum[k] <= k * most
    BY <1>3, <2>1, <2>2, <2>3
  <2> QED
    BY <2>1, <2>4
<1>7. 0..n \subseteq S
  <2> HIDE DEF S
  <2> QED
    BY <1>5, <1>6, Upwards
<1>8. Total(squares) \in Nat /\ Total(squares) <= n * most
  BY <1>4, <1>7
<1> QED
  BY <1>8 DEF squares, most, Squares

FormOfSums(n, v, i, x, y) ==
    Squares(n, v) * (x * x) + 2 * (Products(n, v, i) * (x * y)) + Squares(n, i) * (y * y) >= 0

\* The sums are those of a form that is never negative: what Cauchy and Schwarz's
\* inequality comes from.
LEMMA SumsOfForm ==
    ASSUME NEW n \in Nat, NEW v, v \in [1..n -> Counts], NEW i, i \in [1..n -> Counts],
           NEW x \in Int, NEW y \in Int
    PROVE  Products(n, v, i) \in Int /\ FormOfSums(n, v, i, x, y)
<1> DEFINE vv == [j \in 1..n |-> v[j] * v[j]]
           ii == [j \in 1..n |-> i[j] * i[j]]
           vi == [j \in 1..n |-> v[j] * i[j]]
<1>1. \A j \in 1..n : v[j] \in Int /\ i[j] \in Int
  BY ScaleAssumption DEF Counts
<1>2. vv \in [1..n -> Int] /\ ii \in [1..n -> Int] /\ vi \in [1..n -> Int]
  BY <1>1
<1>3. \A j \in 1..n : vv[j] = v[j] * v[j] /\ ii[j] = i[j] * i[j] /\ vi[j] = v[j] * i[j]
  OBVIOUS
<1> HIDE DEF vv, ii, vi
<1>4. PICK a \in [0..n -> Int] :
         /\ a[0] = 0 /\ \A k \in 1..n : a[k] = a[k - 1] + vv[k]
         /\ Total(vv) = a[n]
  BY <1>2, RunningSum
<1>5. PICK b \in [0..n -> Int] :
         /\ b[0] = 0 /\ \A k \in 1..n : b[k] = b[k - 1] + ii[k]
         /\ Total(ii) = b[n]
  BY <1>2, RunningSum
<1>6. PICK c \in [0..n -> Int] :
         /\ c[0] = 0 /\ \A k \in 1..n : c[k] = c[k - 1] + vi[k]
         /\ Total(vi) = c[n]
  BY <1>2, RunningSum
<1> DEFINE X == x * x
           Y == y * y
           Z == x * y
           S == {k \in Nat : k \in 0..n => a[k] * X + 2 * (c[k] * Z) + b[k] * Y >= 0}
<1>7. 0 \in S
  <2>1. 0 * X + 2 * (0 * Z) + 0 * Y >= 0
    OBVIOUS
  <2> QED
    BY <1>4, <1>5, <1>6, <2>1
<1>8. ASSUME NEW k \in 1..n, k - 1 \in S PROVE k \in S
  <2> DEFINE p == v[k]
             q == i[k]
             A == a[k - 1]
             B == b[k - 1]
             C == c[k - 1]
  <2>1. p \in Int /\ q \in Int /\ A \in Int /\ B \in Int /\ C \in Int
    BY <1>1
  <2>2. A * X + 2 * (C * Z) + B * Y >= 0
    BY <1>8
  <2>3. a[k] = A + p * p /\ b[k] = B + q * q /\ c[k] = C + p * q
    BY <1>3, <1>4, <1>5, <1>6
  <2> HIDE DEF p, q, A, B, C
  <2>4. (p * x + q * y) * (p * x + q * y) >= 0
    <3>1. p * x + q * y \in Int
      BY <2>1
    <3> QED
      BY <3>1, SquareNatural
  <2>5. (p * x + q * y) * (p * x + q * y)
          = (p * p) * (x * x) + 2 * ((p * q) * (x * y)) + (q * q) * (y * y)
    BY <2>1
  <2>6. (A + p * p) * X + 2 * ((C + p * q) * Z) + (B + q * q) * Y
          = (A * X + 2 * (C * Z) + B * Y)
            + ((p * p) * (x * x) + 2 * ((p * q) * (x * y)) + (q * q) * (y * y))
    BY <2>1
  <2>7. (A + p * p) * X + 2 * ((C + p * q) * Z) + (B + q * q) * Y >= 0
    BY <2>1, <2>2, <2>4, <2>5, <2>6
  <2> QED
    BY <2>3, <2>7 DEF A, B, C, p, q
<1>9. 0..n \subseteq S
  <2> HIDE DEF S
  <2> QED
    BY <1>7, <1>8, Upwards
<1>10. Total(vi) \in Int /\ Total(vv) * X + 2 * (Total(vi) * Z) + Total(ii) * Y >= 0
  BY <1>4, <1>5, <1>6, <1>9
<1> QED
  BY <1>10 DEF vv, ii, vi, Squares, Products, FormOfSums
-----------------------------------------------------------------------------
(* What the conversions to mV, mA and mW and the gains round.               *)

\* A factor on both sides can be dropped.
LEMMA CancelFactor ==
    ASSUME NEW a \in Int, NEW b \in Int, NEW d \in Nat \ {0}, d * a <= d * b
    PROVE  a <= b
<1>1. ASSUME a >= b + 1 PROVE FALSE
  <2>1. d * a >= d * (b + 1) /\ d * (b + 1) = d * b + d /\ d * b \in Int /\ d * a \in Int
    BY <1>1
  <2> QED
    BY <2>1
<1> QED
  BY <1>1

\* What a division rounds down.
LEMMA QuotientBounds ==
    ASSUME NEW a \in Nat, NEW d \in Nat \ {0}
    PROVE  /\ a \div d \in Nat /\ d * (a \div d) <= a /\ a < d * (a \div d) + d
           /\ \A m \in Nat : a <= d * m => a \div d <= m
<1> DEFINE q == a \div d
<1>1. q \in Nat /\ a = d * q + (a % d) /\ (a % d) \in 0..(d - 1)
  OBVIOUS
<1> HIDE DEF q
<1>2. d * q \in Nat
  BY <1>1
<1>3. d * q <= a /\ a < d * q + d
  BY <1>1, <1>2
<1>4. ASSUME NEW m \in Nat, a <= d * m PROVE q <= m
  <2>1. d * q <= d * m
    BY <1>2, <1>3, <1>4
  <2> QED
    BY <1>1, <2>1, CancelFactor
<1> QED
  BY <1>1, <1>3, <1>4 DEF q

\* It keeps the order.
LEMMA QuotientGrows ==
    ASSUME NEW a \in Nat, NEW b \in Nat, a <= b, NEW d \in Nat \ {0}
    PROVE  a \div d <= b \div d
<1> DEFINE p == a \div d
           q == b \div d
<1>1. /\ p \in Nat /\ a = d * p + (a % d) /\ (a % d) \in 0..(d - 1)
      /\ q \in Nat /\ b = d * q + (b % d) /\ (b % d) \in 0..(d - 1)
  OBVIOUS
<1> HIDE DEF p, q
<1>2. ASSUME p >= q + 1 PROVE FALSE
  <2>1. d * p >= d * (q + 1) /\ d * (q + 1) = d * q + d /\ d * p \in Nat /\ d * q \in Nat
    BY <1>1, <1>2
  <2> QED
    BY <1>1, <2>1
<1>3. p <= q
  BY <1>1, <1>2
<1> QED
  BY <1>3 DEF p, q

\* amp_comp_mul_ppm by parts of 1000 is the rounded product.
THEOREM MulPpmExact ==
    ASSUME NEW a \in Nat, NEW b \in Nat
    PROVE  MulPpm(a, b) = (a * b + 500000) \div 1000000
<1> DEFINE a1 == a \div 1000
           a0 == a % 1000
           b1 == b \div 1000
           b0 == b % 1000
           cross == a1 * b0 + a0 * b1
           c1 == cross \div 1000
           c0 == cross % 1000
           rest == c0 * 1000 + a0 * b0 + 500000
<1>1. /\ a1 \in Nat /\ a0 \in Nat /\ b1 \in Nat /\ b0 \in Nat
      /\ a = 1000 * a1 + a0 /\ b = 1000 * b1 + b0
  OBVIOUS
<1>2. MulPpm(a, b) = a1 * b1 + c1 + rest \div 1000000
  BY DEF MulPpm
<1> HIDE DEF a1, a0, b1, b0
<1>3. cross \in Nat /\ a1 * b1 \in Nat /\ a0 * b0 \in Nat
  BY <1>1
<1>4. a * b = 1000000 * (a1 * b1) + 1000 * cross + a0 * b0
  BY <1>1
<1> HIDE DEF cross
<1>5. c1 \in Nat /\ c0 \in Nat /\ cross = 1000 * c1 + c0
  BY <1>3
<1> HIDE DEF c1, c0
<1> DEFINE high == a1 * b1
<1>6. rest \in Nat /\ a * b + 500000 = 1000000 * (high + c1) + rest
  BY <1>3, <1>4, <1>5
<1>7. high + c1 \in Nat
  BY <1>3, <1>5
<1> HIDE DEF rest, high
<1>8. (1000000 * (high + c1) + rest) \div 1000000 = high + c1 + rest \div 1000000
  BY <1>6, <1>7
<1> QED
  BY <1>2, <1>6, <1>8 DEF high

\* The gains the tables give are from 1 to 1.34; rounding may add one.
Measured(g) == g \in Int /\ 1000000 <= g /\ g <= 1337147
InGains(g) == g \in Int /\ 1000000 <= g /\ g <= 1337148

\* The gain on a line is between those of the points, up to its rounding.
LEMMA GainBetween ==
    ASSUME NEW gains \in GainTables, NEW f \in Nat, \A j \in 1..Len(gains) : Measured(gains[j])
    PROVE  InGains(Lookup(Table(gains), f))
<1> DEFINE n == Len(gains)
           found == Lookup(Table(gains), f)
           line == Line(gains, f)
<1>1. n \in Nat /\ n >= 2
  BY TablePoints
<1>2. \A j \in 1..n : Measured(gains[j])
  OBVIOUS
<1>3. line \in Int /\ 500 * 1000000 <= line /\ line <= 500 * 1337147
  <2> DEFINE j == f \div 500 + 1
             x == f % 500
  <2>1. j \in Nat /\ j >= 1 /\ x \in 0..499
    OBVIOUS
  <2>2. CASE j >= n
    BY <1>1, <1>2, <2>2 DEF Line, Measured
  <2>3. CASE j < n
    <3> DEFINE a == gains[j]
               b == gains[j + 1]
    <3>1. Line(gains, f) = a * (500 - x) + b * x
      BY <2>3 DEF Line
    <3>2. Measured(a) /\ Measured(b)
      BY <1>1, <1>2, <2>1, <2>3
    <3> HIDE DEF a, b, x
    <3>3. /\ 1000000 * (500 - x) <= a * (500 - x) /\ a * (500 - x) <= 1337147 * (500 - x)
          /\ 1000000 * x <= b * x /\ b * x <= 1337147 * x
          /\ a * (500 - x) \in Int /\ b * x \in Int
      BY <2>1, <3>2 DEF Measured
    <3> QED
      BY <2>1, <3>1, <3>3
  <2> QED
    BY <1>1, <2>1, <2>2, <2>3
<1>4. found \in Int /\ -250 <= 500 * found - line /\ 500 * found - line <= 749
  <2> DEFINE top == IF Falls(gains, f) THEN 749 ELSE 250
  <2>1. found \in Int /\ 500 * found - line \in -250..top
    BY LookupOnLine
  <2>2. top \in Int /\ top <= 749
    OBVIOUS
  <2> HIDE DEF found, line, top
  <2> QED
    BY <1>3, <2>1, <2>2
<1> HIDE DEF found, line
<1>5. InGains(found)
  BY <1>3, <1>4 DEF InGains
<1> QED
  BY <1>5, Zenon DEF found

\* The gains the tables give are from 1 to 1.34.
LEMMA GainRange ==
    ASSUME NEW f \in Nat
    PROVE  /\ InGains(Amp!Lookup(Amp!VoltageTable, f))
           /\ InGains(Amp!Lookup(Amp!CurrentTable, f))
<1>1. \A j \in 1..25 : Measured(VoltageGains[j])
  BY DEF VoltageGains, Measured
<1>2. \A j \in 1..25 : Measured(CurrentGains[j])
  BY DEF CurrentGains, Measured
<1>3. Len(VoltageGains) = 25 /\ Len(CurrentGains) = 25
  BY DEF VoltageGains, CurrentGains
<1>4. InGains(Lookup(VoltageTable, f)) /\ InGains(Lookup(CurrentTable, f))
  <2>1. \A j \in 1..Len(VoltageGains) : Measured(VoltageGains[j])
    BY <1>1, <1>3
  <2>2. \A j \in 1..Len(CurrentGains) : Measured(CurrentGains[j])
    BY <1>2, <1>3
  <2>3. InGains(Lookup(Table(VoltageGains), f))
    BY <2>1, TablesAreGains, GainBetween
  <2>4. InGains(Lookup(Table(CurrentGains), f))
    BY <2>2, TablesAreGains, GainBetween
  <2> QED
    BY <2>3, <2>4, Zenon DEF VoltageTable, CurrentTable
<1>5. Amp!VoltageTable = VoltageTable /\ Amp!CurrentTable = CurrentTable
  <2>1. Amp!VoltageGains = VoltageGains
    BY DEF Amp!VoltageGains, VoltageGains
  <2>2. Amp!CurrentGains = CurrentGains
    BY DEF Amp!CurrentGains, CurrentGains
  <2> QED
    BY <2>1, <2>2, Zenon DEF Amp!VoltageTable, Amp!CurrentTable, Amp!Table, VoltageTable, CurrentTable, Table
<1>6. ASSUME NEW t PROVE Amp!Lookup(t, f) = Lookup(t, f)
  BY Zenon DEF Amp!Lookup, Amp!Segment, Amp!Quotient, Amp!Offset, Lookup, Segment, Quotient, Offset
<1> QED
  BY <1>4, <1>5, <1>6

\* What a number of counts reads is off by less than 2 mV or mA with its gain, in parts
\* of a millionth of a count.
LEMMA ReadingScale ==
    ASSUME NEW n \in Nat, NEW k, InGains(k)
    PROVE  LET r == Amp!ApplyU32(ToMilli(n), k)
               e == 1000000 * (FullScale * r) - (n * FsMilli) * k
           IN  /\ r \in Nat
               /\ -2000000 * FullScale <= e /\ e <= 2000000 * FullScale
<1> DEFINE z == n * FsMilli
           a == ToMilli(n)
           r == Amp!ApplyU32(a, k)
           H == FullScale
<1>1. H \in Nat \ {0} /\ FsMilli \in Nat /\ z \in Nat
  BY ScaleAssumption
<1>2. k \in Nat /\ k <= 2000000
  BY DEF InGains
<1>3. a \in Nat /\ -H <= 2 * (H * a - z) /\ 2 * (H * a - z) <= H
  BY <1>1, HalfUp DEF ToMilli
<1>4. a * k \in Nat
  BY <1>2, <1>3
<1>5. r \in Nat /\ -1000000 <= 2 * (1000000 * r - a * k) /\ 2 * (1000000 * r - a * k) <= 1000000
  <2>1. 1000000 \in Nat \ {0}
    OBVIOUS
  <2> QED
    BY <1>4, <2>1, HalfUp DEF Amp!ApplyU32
<1> HIDE DEF z, a, r, H
<1> DEFINE b == H * a
           y == a * k
           q == 1000000 * r - y
           d == b - z
           w == H * r
<1>6. b \in Nat /\ w \in Nat /\ y \in Nat /\ q \in Int /\ d \in Int
  BY <1>1, <1>3, <1>4, <1>5
<1>7. -1000000 * H <= 2 * (H * q) /\ 2 * (H * q) <= 1000000 * H /\ H * q \in Int
  <2>1. -1000000 <= 2 * q /\ 2 * q <= 1000000
    BY <1>5
  <2> HIDE DEF q
  <2> QED
    BY <1>1, <1>6, <2>1
<1>8. -2000000 * H <= 2 * (d * k) /\ 2 * (d * k) <= 2000000 * H /\ d * k \in Int
  <2>1. -H <= 2 * d /\ 2 * d <= H
    BY <1>3
  <2> HIDE DEF d
  <2>2. H * k <= 2000000 * H /\ H * k \in Nat
    BY <1>1, <1>2
  <2>3. (2 * d) * k <= H * k /\ (-2 * d) * k <= H * k
    BY <1>1, <1>2, <1>6, <2>1
  <2>4. (2 * d) * k = 2 * (d * k) /\ (-2 * d) * k = -(2 * (d * k)) /\ d * k \in Int
    BY <1>2, <1>6
  <2> QED
    BY <1>1, <2>2, <2>3, <2>4
<1>9. 1000000 * w - z * k = H * q + d * k
  <2>1. H * q = 1000000 * w - H * y
    BY <1>1, <1>5, <1>6
  <2>2. d * k = b * k - z * k
    BY <1>1, <1>2, <1>6
  <2>3. H * y = b * k
    BY <1>1, <1>2, <1>3
  <2>4. H * y \in Int /\ b * k \in Int /\ z * k \in Int
    BY <1>1, <1>2, <1>6
  <2> HIDE DEF b, y, q, d, w
  <2> QED
    BY <1>6, <2>1, <2>2, <2>3, <2>4
<1> HIDE DEF q, d
<1>10. -2000000 * H <= 1000000 * w - z * k /\ 1000000 * w - z * k <= 2000000 * H
  BY <1>1, <1>7, <1>8, <1>9
<1> QED
  BY <1>5, <1>10 DEF z, a, r, H, w

\* A power of so many squared counts, with its gain.
PowerOf(m, k) == Amp!ApplyU32((ToMicro(m) + 500) \div 1000, k)

InPowerGains(k) == k \in Int /\ 1000000 <= k /\ k <= 1787965

\* What a power is off by, in uW and parts of a millionth of a squared count.
LEMMA PowerScale ==
    ASSUME NEW m \in Nat, NEW k, InPowerGains(k)
    PROVE  LET p == PowerOf(m, k)
               HH == FullScale * FullScale
               e == 1000000000 * (HH * p) - k * (m * FsMilli * FsMilli)
               most == (IF k = 1000000 THEN 500 ELSE 1395) * (1000000 * HH)
           IN  /\ p \in Nat
               /\ -most <= e /\ e <= most
<1> DEFINE z == m * FsMilli * FsMilli
           HH == FullScale * FullScale
           t == z \div HH
           u == (t + 500) \div 1000
           p == PowerOf(m, k)
<1>1. FullScale \in Nat \ {0} /\ FsMilli \in Nat
  BY ScaleAssumption
<1>2. HH \in Nat \ {0} /\ z \in Nat
  BY <1>1
<1>3. k \in Nat /\ 1000000 <= k /\ k <= 1787965
  BY DEF InPowerGains
<1>4. t \in Nat /\ HH * t \in Nat /\ HH * t <= z /\ z < HH * t + HH
  <2> HIDE DEF z, HH
  <2>1. t \in Nat /\ z = HH * t + (z % HH) /\ (z % HH) \in 0..(HH - 1)
    BY <1>2
  <2>2. HH * t \in Nat
    BY <1>2, <2>1
  <2> QED
    BY <1>2, <2>1, <2>2
<1>5. p = Amp!ApplyU32(u, k)
  BY <1>2 DEF PowerOf, ToMicro, Truncated
<1> HIDE DEF z, HH, t
<1>6. u \in Nat /\ t - 499 <= 1000 * u /\ 1000 * u <= t + 500
  BY <1>4
<1> HIDE DEF u
<1> DEFINE y == u * k
<1>7. y \in Nat
  BY <1>3, <1>6
<1>8. p \in Nat /\ -1000000 <= 2 * (1000000 * p - y) /\ 2 * (1000000 * p - y) <= 1000000
  <2>1. p = (y + 1000000 \div 2) \div 1000000
    BY <1>5 DEF Amp!ApplyU32
  <2> HIDE DEF p, y
  <2> DEFINE r == (y + 1000000 \div 2) \div 1000000
  <2>2. r \in Nat /\ -1000000 <= 2 * (1000000 * r - y) /\ 2 * (1000000 * r - y) <= 1000000
    BY <1>7
  <2> HIDE DEF r
  <2> QED
    BY <2>1, <2>2 DEF r
<1> HIDE DEF p
<1> DEFINE b == HH * u
           c == HH * p
           d == 1000 * b - z
           q == 1000000 * p - y
<1>9. b \in Nat /\ c \in Nat /\ d \in Int /\ q \in Int
  BY <1>2, <1>6, <1>7, <1>8
<1>10. -500 * HH <= d /\ d <= 500 * HH
  <2>1. /\ HH * (t - 499) <= HH * (1000 * u) /\ HH * (1000 * u) <= HH * (t + 500)
        /\ HH * (t - 499) = HH * t - 499 * HH /\ HH * (1000 * u) = 1000 * b
        /\ HH * (t + 500) = HH * t + 500 * HH
    BY <1>2, <1>4, <1>6
  <2> HIDE DEF b
  <2> QED
    BY <1>2, <1>4, <1>9, <2>1
<1>11. -500 * (HH * k) <= d * k /\ d * k <= 500 * (HH * k) /\ d * k \in Int /\ HH * k \in Nat
  <2> HIDE DEF d
  <2>1. (-500 * HH) * k <= d * k /\ d * k <= (500 * HH) * k
    BY <1>2, <1>3, <1>9, <1>10
  <2> QED
    BY <1>2, <1>3, <1>9, <2>1
<1>12. 1000000000 * c - k * z = 1000 * (HH * q) + d * k
  <2>1. HH * q = 1000000 * c - HH * y
    BY <1>2, <1>7, <1>8
  <2>2. d * k = 1000 * (b * k) - k * z
    BY <1>2, <1>3, <1>9
  <2>3. HH * y = b * k
    BY <1>2, <1>3, <1>6
  <2>4. HH * y \in Int /\ b * k \in Int /\ k * z \in Int
    BY <1>2, <1>3, <1>7, <1>9
  <2> HIDE DEF b, c, d, q, y
  <2> QED
    BY <1>9, <2>1, <2>2, <2>3, <2>4
<1>13. -1000000 * HH <= 2 * (HH * q) /\ 2 * (HH * q) <= 1000000 * HH /\ HH * q \in Int
  <2> HIDE DEF q
  <2>1. -1000000 <= 2 * q /\ 2 * q <= 1000000
    BY <1>8 DEF q
  <2> QED
    BY <1>2, <1>9, <2>1
<1>14. k = 1000000 => q = 0
  BY <1>6, <1>8
<1> DEFINE most == (IF k = 1000000 THEN 500 ELSE 1395) * (1000000 * HH)
<1>15. -most <= 1000000000 * c - k * z /\ 1000000000 * c - k * z <= most
  <2> HIDE DEF q, d, b, c
  <2>1. CASE k = 1000000
    <3>1. most = 500 * (1000000 * HH) /\ HH * q = 0 /\ HH * k = 1000000 * HH
      BY <1>2, <1>14, <2>1
    <3> QED
      BY <1>2, <1>11, <1>12, <3>1
  <2>2. CASE k # 1000000
    <3>1. most = 1395 * (1000000 * HH)
      BY <1>2, <2>2
    <3>2. HH * k <= 1787965 * HH
      BY <1>2, <1>3
    <3> HIDE DEF most
    <3> QED
      BY <1>2, <1>11, <1>12, <1>13, <3>1, <3>2
  <2> QED
    BY <2>1, <2>2
<1> QED
  BY <1>8, <1>15 DEF z, HH, p, c

\* More counts are no less power.
LEMMA PowerGrows ==
    ASSUME NEW m \in Nat, NEW n \in Nat, m <= n, NEW k, InPowerGains(k)
    PROVE  PowerOf(m, k) <= PowerOf(n, k)
<1> DEFINE Z(x) == x * FsMilli * FsMilli
           HH == FullScale * FullScale
           T(x) == Z(x) \div HH
           U(x) == (T(x) + 500) \div 1000
           Y(x) == U(x) * k + 500000
<1>1. FsMilli \in Nat /\ HH \in Nat \ {0} /\ k \in Nat
  BY ScaleAssumption DEF InPowerGains
<1>2. Z(m) \in Nat /\ Z(n) \in Nat /\ Z(m) <= Z(n)
  <2> DEFINE f == FsMilli * FsMilli
  <2>1. f \in Nat /\ Z(m) = m * f /\ Z(n) = n * f
    BY <1>1
  <2> HIDE DEF f, Z
  <2>2. m * f \in Nat /\ n * f \in Nat /\ m * f <= n * f
    BY <2>1
  <2> QED
    BY <2>1, <2>2
<1>3. ASSUME NEW x \in {m, n} PROVE PowerOf(x, k) = Y(x) \div 1000000
  <2>1. Z(x) >= 0
    BY <1>2
  <2> QED
    BY <2>1 DEF PowerOf, ToMicro, Truncated, Amp!ApplyU32
<1> HIDE DEF Z, HH
<1>4. T(m) \in Nat /\ T(n) \in Nat /\ T(m) <= T(n)
  BY <1>1, <1>2, QuotientGrows
<1> HIDE DEF T
<1>5. U(m) \in Nat /\ U(n) \in Nat /\ U(m) <= U(n)
  BY <1>4
<1> HIDE DEF U
<1>6. U(m) * k <= U(n) * k /\ U(m) * k \in Nat /\ U(n) * k \in Nat
  BY <1>1, <1>5
<1>7. Y(m) \in Nat /\ Y(n) \in Nat /\ Y(m) <= Y(n)
  BY <1>6
<1> HIDE DEF Y
<1> QED
  BY <1>3, <1>7

\* The sign of the active power does not change its size.
LEMMA PowerSigned ==
    ASSUME NEW c \in Int, NEW k, InPowerGains(k)
    PROVE  Amp!ApplyS64(DivRound(ToMicro(c), 1000), k)
              = IF c >= 0 THEN PowerOf(c, k) ELSE -PowerOf(-c, k)
<1> DEFINE F == FsMilli
           HH == FullScale * FullScale
<1>1. F \in Nat \ {0} /\ HH \in Nat \ {0} /\ k \in Nat
  BY ScaleAssumption DEF InPowerGains
<1>2. CASE c >= 0
  <2> DEFINE t == ToMicro(c)
  <2>1. c * F * F \in Nat
    BY <1>1, <1>2
  <2>2. t \in Nat
    BY <1>1, <2>1 DEF ToMicro, Truncated
  <2> HIDE DEF t
  <2> DEFINE u == (t + 500) \div 1000
  <2>3. u \in Nat /\ DivRound(t, 1000) = u
    BY <2>2 DEF DivRound
  <2> HIDE DEF u
  <2>4. Amp!ApplyS64(u, k) = Amp!ApplyU32(u, k)
    BY <2>3 DEF Amp!ApplyS64, Amp!ApplyU32
  <2> QED
    BY <1>2, <2>3, <2>4 DEF PowerOf, t, u
<1>3. CASE c < 0
  <2> DEFINE z == (-c) * F * F
             t == z \div HH
  <2>1. c * F * F = -z /\ z \in Nat /\ z > 0 /\ -(-z) = z
    <3> DEFINE f == F * F
    <3>1. f \in Nat \ {0} /\ -c \in Nat \ {0} /\ z = (-c) * f /\ c * F * F = c * f
      BY <1>1, <1>3
    <3> HIDE DEF f, z
    <3>2. (-c) * f > 0 /\ (-c) * f \in Nat /\ c * f = -((-c) * f)
      BY <3>1
    <3> QED
      BY <3>1, <3>2
  <2>2. ToMicro(c) = -t /\ ToMicro(-c) = t
    <3>1. ~(-z >= 0) /\ z >= 0
      BY <2>1
    <3> QED
      BY <2>1, <3>1 DEF ToMicro, Truncated
  <2> HIDE DEF z, HH
  <2>3. t \in Nat
    BY <1>1, <2>1
  <2> HIDE DEF t
  <2> DEFINE u == (t + 500) \div 1000
  <2>4. u \in Nat /\ (t = 0 => u = 0)
    BY <2>3
  <2>5. DivRound(-t, 1000) = -u
    BY <2>3, <2>4 DEF DivRound
  <2>6. PowerOf(-c, k) = Amp!ApplyU32(u, k)
    BY <2>2 DEF PowerOf
  <2> HIDE DEF u
  <2>7. Amp!ApplyS64(-u, k) = -Amp!ApplyU32(u, k)
    <3>1. CASE u = 0
      <4>1. Amp!ApplyS64(-u, k) = (0 * k + 1000000 \div 2) \div 1000000
        BY <3>1 DEF Amp!ApplyS64
      <4>2. Amp!ApplyU32(u, k) = (0 * k + 1000000 \div 2) \div 1000000
        BY <3>1 DEF Amp!ApplyU32
      <4>3. (0 * k + 1000000 \div 2) \div 1000000 = 0
        BY <1>1
      <4> QED
        BY <4>1, <4>2, <4>3
    <3>2. CASE u # 0
      <4>1. ~(-u >= 0) /\ -(-u) = u
        BY <2>4, <3>2
      <4> QED
        BY <4>1 DEF Amp!ApplyS64, Amp!ApplyU32
    <3> QED
      BY <3>1, <3>2
  <2> QED
    BY <1>3, <2>2, <2>5, <2>6, <2>7
<1> QED
  BY <1>2, <1>3
-----------------------------------------------------------------------------
(* Between powers and readings.                                             *)

\* The power factor's size, from the mean product and the rms values' product; and
\* that it is the ratio of two powers.
Ratio(m, n) == (m * 1000 + n \div 2) \div n
IsRatio(f, p, s, k) ==
    LET most == s \div 2 + (IF k = 1000000 THEN 1000 ELSE 2791)
    IN  f \in Nat /\ f <= 1000 /\ -most <= f * s - 1000 * p /\ f * s - 1000 * p <= most

\* The power factor, taken from the sums, is that of the powers shown.
LEMMA FactorOfPowers ==
    ASSUME NEW m \in Nat, NEW n \in Nat \ {0}, m <= n, NEW k, InPowerGains(k)
    PROVE  IsRatio(Ratio(m, n), PowerOf(m, k), PowerOf(n, k), k)
<1> DEFINE f == (m * 1000 + n \div 2) \div n
           p == PowerOf(m, k)
           s == PowerOf(n, k)
           E == IF k = 1000000 THEN 500 ELSE 1395
           v == 1000000 * (FullScale * FullScale)
           g == k * (FsMilli * FsMilli)
           ep == 1000 * (v * p) - g * m
           es == 1000 * (v * s) - g * n
           d == f * n - 1000 * m
<1>1. FullScale \in Nat \ {0} /\ FsMilli \in Nat /\ k \in Nat
  BY ScaleAssumption DEF InPowerGains
<1>2. v \in Nat \ {0} /\ g \in Nat /\ E \in {500, 1395}
  BY <1>1
<1>3. f \in Nat /\ -n <= 2 * (n * f - m * 1000) /\ 2 * (n * f - m * 1000) <= n
  <2> DEFINE a == m * 1000
             q == (a + n \div 2) \div n
  <2>1. a \in Nat /\ f = q
    OBVIOUS
  <2> HIDE DEF a, f
  <2>2. q \in Nat /\ -n <= 2 * (n * q - a) /\ 2 * (n * q - a) <= n
    BY <2>1, HalfUp
  <2> QED
    BY <2>1, <2>2 DEF a
<1>4. f <= 1000
  <2> HIDE DEF f
  <2>1. ASSUME f >= 1001 PROVE FALSE
    <3>1. n * f >= n * 1001
      BY <1>3, <2>1
    <3>2. n * f \in Nat /\ m * 1000 <= n * 1000
      BY <1>3
    <3> QED
      BY <1>3, <3>1, <3>2
  <2> QED
    BY <1>3, <2>1
<1>5. p \in Nat /\ s \in Nat /\ -(E * v) <= ep /\ ep <= E * v /\ -(E * v) <= es /\ es <= E * v
  <2> DEFINE HH == FullScale * FullScale
  <2>1. HH \in Nat
    BY <1>1
  <2>2. ASSUME NEW x \in Nat
        PROVE  /\ PowerOf(x, k) \in Nat
               /\ -(E * v) <= 1000 * (v * PowerOf(x, k)) - g * x
               /\ 1000 * (v * PowerOf(x, k)) - g * x <= E * v
    <3> DEFINE y == PowerOf(x, k)
    <3>1. /\ y \in Nat
          /\ -(E * (1000000 * HH)) <= 1000000000 * (HH * y) - k * (x * FsMilli * FsMilli)
          /\ 1000000000 * (HH * y) - k * (x * FsMilli * FsMilli) <= E * (1000000 * HH)
      BY PowerScale
    <3> HIDE DEF y, HH, E
    <3>2. k * (x * FsMilli * FsMilli) = g * x
      BY <1>1
    <3>3. 1000000000 * (HH * y) = 1000 * ((1000000 * HH) * y)
      BY <2>1, <3>1
    <3>4. v = 1000000 * HH
      BY DEF HH
    <3> HIDE DEF v, g
    <3> QED
      BY <3>1, <3>2, <3>3, <3>4 DEF y
  <2> HIDE DEF HH, E, v, g
  <2> QED
    BY <2>2
<1> HIDE DEF f, p, s, E, v, g
<1> DEFINE x == f * s - 1000 * p
<1>6. /\ v * s \in Nat /\ v * p \in Nat /\ g * m \in Nat /\ g * n \in Nat /\ E * v \in Nat
      /\ ep \in Int /\ es \in Int /\ f * n \in Nat /\ d \in Int /\ x \in Int
  <2>1. E \in Nat
    BY <1>2
  <2> QED
    BY <1>2, <1>3, <1>5, <2>1
<1>7. 1000 * (v * x) = g * d + (f * es - 1000 * ep)
  <2>1. v * x = f * (v * s) - 1000 * (v * p)
    BY <1>2, <1>3, <1>5
  <2>2. f * es = 1000 * (f * (v * s)) - f * (g * n)
    BY <1>3, <1>6
  <2>3. g * d = f * (g * n) - 1000 * (g * m)
    BY <1>2, <1>3
  <2>4. f * (v * s) \in Int /\ f * (g * n) \in Int
    BY <1>3, <1>6
  <2>5. 1000 * ep = 1000000 * (v * p) - 1000 * (g * m)
    BY <1>6
  <2> HIDE DEF ep, es, d, x
  <2> QED
    BY <1>6, <2>1, <2>2, <2>3, <2>4, <2>5
<1>8. -(g * n) <= 2 * (g * d) /\ 2 * (g * d) <= g * n
  <2>1. -n <= 2 * d /\ 2 * d <= n
    BY <1>3, <1>6
  <2> HIDE DEF d
  <2>2. g * (2 * d) <= g * n /\ g * (-(2 * d)) <= g * n
    BY <1>2, <1>6, <2>1
  <2>3. g * (2 * d) = 2 * (g * d) /\ g * (-(2 * d)) = -(2 * (g * d)) /\ g * d \in Int
    BY <1>2, <1>6
  <2> QED
    BY <1>6, <2>2, <2>3
<1>9. g * n <= 1000 * (v * s) + E * v
  BY <1>5, <1>6
<1>10. -(1000 * (E * v)) <= f * es /\ f * es <= 1000 * (E * v) /\ f * es \in Int
  <2> HIDE DEF es
  <2> DEFINE w == E * v
  <2>1. w \in Nat /\ -w <= es /\ es <= w
    BY <1>5, <1>6
  <2> HIDE DEF w
  <2>2. f * es <= f * w /\ f * (-es) <= f * w /\ f * w <= 1000 * w
    BY <1>3, <1>4, <1>6, <2>1
  <2>3. f * (-es) = -(f * es) /\ f * es \in Int /\ f * w \in Int
    BY <1>3, <1>6, <2>1
  <2> QED
    BY <2>1, <2>2, <2>3 DEF w
<1>11. /\ 2000 * (v * x) <= 1000 * (v * s) + 4001 * (E * v)
       /\ -(2000 * (v * x)) <= 1000 * (v * s) + 4001 * (E * v)
  <2>1. v * x \in Int /\ g * d \in Int
    BY <1>2, <1>6
  <2> HIDE DEF x, ep, es, d
  <2> QED
    BY <1>5, <1>6, <1>7, <1>8, <1>9, <1>10, <2>1
<1>12. 2000 * x <= 1000 * s + 4001 * E /\ -(2000 * x) <= 1000 * s + 4001 * E
  <2> HIDE DEF x
  <2> DEFINE r == 1000 * s + 4001 * E
  <2>1. r \in Int /\ v * r = 1000 * (v * s) + 4001 * (E * v)
    BY <1>2, <1>5
  <2>2. v * (2000 * x) = 2000 * (v * x) /\ v * (-(2000 * x)) = -(2000 * (v * x))
    BY <1>2, <1>6
  <2> HIDE DEF r
  <2>3. v * (2000 * x) <= v * r /\ v * (-(2000 * x)) <= v * r
    BY <1>11, <2>1, <2>2
  <2>4. ASSUME NEW a \in Int, v * a <= v * r PROVE a <= r
    <3>1. ASSUME a >= r + 1 PROVE FALSE
      <4>1. v * a >= v * (r + 1) /\ v * (r + 1) = v * r + v /\ v * r \in Int /\ v * a \in Int
        BY <1>2, <2>1, <3>1
      <4> QED
        BY <1>2, <2>4, <4>1
    <3> QED
      BY <2>1, <3>1
  <2>5. 2000 * x <= r /\ -(2000 * x) <= r
    <3>1. 2000 * x \in Int /\ -(2000 * x) \in Int
      BY <1>6
    <3> QED
      BY <2>3, <2>4, <3>1
  <2> QED
    BY <2>5 DEF r
<1> DEFINE most == s \div 2 + (IF k = 1000000 THEN 1000 ELSE 2791)
<1>13. -most <= x /\ x <= most
  <2> HIDE DEF x
  <2>1. CASE k = 1000000
    BY <1>5, <1>6, <1>12, <2>1 DEF E
  <2>2. CASE k # 1000000
    BY <1>5, <1>6, <1>12, <2>2 DEF E
  <2> QED
    BY <2>1, <2>2
<1> QED
  BY <1>3, <1>4, <1>13 DEF f, p, s, x, Ratio, IsRatio

\* The gain of a power is the product of its factors' gains, rounded.
LEMMA PowerGain ==
    ASSUME NEW kv, InGains(kv), NEW ki, InGains(ki)
    PROVE  LET k == MulPpm(kv, ki)
           IN  /\ InPowerGains(k)
               /\ -500000 <= 1000000 * k - kv * ki /\ 1000000 * k - kv * ki <= 500000
<1> DEFINE y == kv * ki
           k == (y + 500000) \div 1000000
<1>1. kv \in Nat /\ ki \in Nat /\ 1000000 <= kv /\ kv <= 1337148 /\ 1000000 <= ki /\ ki <= 1337148
  BY DEF InGains
<1>2. y \in Nat /\ 1000000000000 <= y /\ y <= 1787964773904
  <2>1. 1000000 * 1000000 <= 1000000 * ki /\ 1000000 * ki <= kv * ki
    BY <1>1
  <2>2. kv * ki <= 1337148 * ki /\ 1337148 * ki <= 1337148 * 1337148
    BY <1>1
  <2> QED
    BY <1>1, <2>1, <2>2
<1>3. MulPpm(kv, ki) = k
  BY <1>1, MulPpmExact
<1> HIDE DEF y
<1>4. /\ k \in Int /\ 1000000 <= k /\ k <= 1787965
      /\ -500000 <= 1000000 * k - y /\ 1000000 * k - y <= 500000
  BY <1>2
<1> QED
  BY <1>3, <1>4 DEF InPowerGains, y

\* A power is within its roundings of the counts', compensated or not.
PowerNear(m, k) ==
    LET HH == FullScale * FullScale
        e == 1000000000 * (HH * PowerOf(m, k)) - k * (m * (FsMilli * FsMilli))
        most == 1395 * (1000000 * HH)
    IN  -most <= e /\ e <= most

\* A power in mW is its counts with their gain, but for the roundings.
LEMMA PowerIsNear ==
    ASSUME NEW m \in Nat, NEW k, InPowerGains(k)
    PROVE  PowerOf(m, k) \in Nat /\ PowerNear(m, k)
<1> DEFINE p == PowerOf(m, k)
           FF == FsMilli * FsMilli
           HH == FullScale * FullScale
           most == (IF k = 1000000 THEN 500 ELSE 1395) * (1000000 * HH)
           e == 1000000000 * (HH * p) - k * (m * FsMilli * FsMilli)
<1>1. p \in Nat /\ -most <= e /\ e <= most
  BY PowerScale
<1>2. FsMilli \in Nat /\ HH \in Nat /\ k \in Nat
  BY ScaleAssumption DEF InPowerGains
<1>3. most <= 1395 * (1000000 * HH) /\ most \in Int
  BY <1>2
<1>4. m * FsMilli * FsMilli = m * FF /\ m * FF \in Int
  BY <1>2
<1> HIDE DEF most, p, HH
<1>5. e \in Int /\ e = 1000000000 * (HH * p) - k * (m * FF)
  BY <1>1, <1>2, <1>4
<1> HIDE DEF e
<1>6. -(1395 * (1000000 * HH)) <= e /\ e <= 1395 * (1000000 * HH)
  BY <1>1, <1>2, <1>3, <1>5
<1> QED
  BY <1>1, <1>5, <1>6 DEF PowerNear, p, HH

\* A reading is at least, or at most, so many counts with their gain.
Covers(r, n, k) == (n * FsMilli) * k <= 1000000 * (FullScale * r)
Within(r, n, k) == 1000000 * (FullScale * r) <= (n * FsMilli) * k

\* A power is no more than the product of readings that are at least the counts',
\* but for its roundings.
LEMMA PowerBelow ==
    ASSUME NEW x \in Nat, NEW y \in Nat, x <= 2 * FullScale, y <= 2 * FullScale,
           NEW kv, InGains(kv), NEW ki, InGains(ki),
           NEW rv \in Nat, Covers(rv, x, kv),
           NEW ri \in Nat, Covers(ri, y, ki),
           NEW m \in Nat, m <= x * y
    PROVE  1000 * PowerOf(m, MulPpm(kv, ki)) <= rv * ri + Rounding
<1> DEFINE k == MulPpm(kv, ki)
           p == PowerOf(m, k)
           FF == FsMilli * FsMilli
           HH == FullScale * FullScale
           xy == x * y
<1>1. /\ FullScale \in Nat \ {0} /\ FsMilli \in Nat /\ FF \in Nat /\ HH \in Nat \ {0} /\ xy \in Nat
      /\ kv \in Nat /\ ki \in Nat
  BY ScaleAssumption DEF InGains
<1>2. k \in Nat /\ InPowerGains(k) /\ 1000000 * k - kv * ki <= 500000
  BY PowerGain DEF InPowerGains
<1> HIDE DEF k
<1>3. p \in Nat /\ 1000000000 * (HH * p) <= k * (m * FF) + 1395 * (1000000 * HH)
  <2>1. p \in Nat /\ PowerNear(m, k)
    BY <1>2, PowerIsNear
  <2>2. 1000000000 * (HH * p) - k * (m * FF) <= 1395 * (1000000 * HH)
    BY <2>1 DEF PowerNear
  <2> HIDE DEF p, HH, FF
  <2>3. k * (m * FF) \in Int /\ HH * p \in Int
    BY <1>1, <1>2, <2>1
  <2> QED
    BY <1>1, <2>1, <2>2, <2>3
<1>4. (xy * FF) * (kv * ki) <= 1000000000000 * (HH * (rv * ri))
  <2> DEFINE a == (x * FsMilli) * kv
             b == 1000000 * (FullScale * rv)
             c == (y * FsMilli) * ki
             d == 1000000 * (FullScale * ri)
  <2>1. a \in Nat /\ b \in Nat /\ c \in Nat /\ d \in Nat /\ a <= b /\ c <= d
    BY <1>1 DEF Covers
  <2>2. a * c = (xy * FF) * (kv * ki)
    BY <1>1
  <2>3. b * d = 1000000000000 * (HH * (rv * ri))
    BY <1>1
  <2> HIDE DEF a, b, c, d
  <2>4. a * c <= b * c /\ b * c <= b * d
    BY <2>1
  <2>5. a * c <= b * d
    BY <2>1, <2>4
  <2> QED
    BY <2>2, <2>3, <2>5
<1>5. xy <= 4 * HH
  <2>1. x * y <= (2 * FullScale) * y /\ (2 * FullScale) * y <= (2 * FullScale) * (2 * FullScale)
    BY <1>1
  <2>2. (2 * FullScale) * (2 * FullScale) = 4 * HH /\ (2 * FullScale) * y \in Int
    BY <1>1
  <2> QED
    BY <1>1, <2>1, <2>2
<1> HIDE DEF FF, HH, xy, p
<1> DEFINE w == rv * ri
           z == xy * FF
<1>6. w \in Nat /\ z \in Nat /\ HH * w \in Nat /\ HH * p \in Nat /\ HH * FF \in Nat /\ k * z \in Nat
  BY <1>1, <1>2, <1>3
<1>7. z <= 4 * (HH * FF)
  <2>1. xy * FF <= (4 * HH) * FF
    BY <1>1, <1>5
  <2> QED
    BY <1>1, <2>1
<1>8. k * (m * FF) <= k * z
  <2>1. m * FF <= xy * FF /\ m * FF \in Nat
    BY <1>1 DEF xy
  <2> QED
    BY <1>2, <1>6, <2>1
<1>9. 1000000 * (k * z) <= 1000000000000 * (HH * w) + 500000 * z
  <2> DEFINE a == kv * ki
             b == z * a
             c == 1000000000000 * (HH * w)
             d == 1000000 * k - a
  <2>1. a \in Nat /\ d <= 500000 /\ d \in Int
    BY <1>1, <1>2
  <2>2. b <= c /\ c \in Nat
    BY <1>4, <1>6
  <2> HIDE DEF w, z, a, c
  <2> DEFINE e == k * z
             f == z * d
  <2>3. f = 1000000 * e - b /\ b \in Int /\ e \in Int /\ f \in Int
    BY <1>2, <1>6, <2>1
  <2> HIDE DEF b, d, e
  <2>4. f <= z * 500000
    BY <1>6, <2>1
  <2> HIDE DEF f
  <2>5. 1000000 * e <= c + 500000 * z
    BY <1>6, <2>2, <2>3, <2>4
  <2> QED
    BY <2>5 DEF c, e
<1>10. 1000000000 * (HH * p) <= 1000000 * (HH * w) + 1395000000 * HH + 2 * (HH * FF)
  <2> HIDE DEF w, z
  <2>1. k * (m * FF) \in Int
    BY <1>1, <1>2
  <2> QED
    BY <1>1, <1>3, <1>6, <1>7, <1>8, <1>9, <2>1
<1>11. 500000000 * p <= 500000 * w + 697500000 + FF
  <2> HIDE DEF w
  <2> DEFINE a == 500000000 * p
             b == 500000 * w + 697500000 + FF
  <2>1. a \in Int /\ b \in Int
    BY <1>1, <1>3, <1>6
  <2>2. HH * a = 500000000 * (HH * p)
    BY <1>1, <1>3
  <2>3. HH * b = 500000 * (HH * w) + 697500000 * HH + HH * FF
    BY <1>1, <1>6
  <2> HIDE DEF a, b
  <2>4. HH * a <= HH * b
    BY <1>1, <1>6, <1>10, <2>2, <2>3
  <2>5. a <= b
    BY <1>1, <2>1, <2>4, CancelFactor
  <2> QED
    BY <2>5 DEF a, b
<1>12. 1000 * p <= w + 1395 + FF \div 500000
  <2> HIDE DEF w
  <2> QED
    BY <1>1, <1>3, <1>6, <1>11
<1>13. 1000 * p <= w + Rounding
  <2> DEFINE r == FF \div 500000
  <2>1. Rounding = 1395 + r /\ r \in Int
    BY <1>1 DEF Rounding, FF
  <2> HIDE DEF r, w
  <2> QED
    BY <1>3, <1>6, <1>12, <2>1 DEF r
<1> QED
  BY <1>13 DEF p, k

\* Nor is it less than the product of readings that are at most the counts'.
LEMMA PowerAbove ==
    ASSUME NEW x \in Nat, NEW y \in Nat, x <= 2 * FullScale, y <= 2 * FullScale,
           NEW kv, InGains(kv), NEW ki, InGains(ki),
           NEW rv \in Nat, Within(rv, x, kv),
           NEW ri \in Nat, Within(ri, y, ki)
    PROVE  1000 * PowerOf(x * y, MulPpm(kv, ki)) >= rv * ri - Rounding
<1> DEFINE k == MulPpm(kv, ki)
           FF == FsMilli * FsMilli
           HH == FullScale * FullScale
           xy == x * y
           p == PowerOf(xy, k)
<1>1. /\ FullScale \in Nat \ {0} /\ FsMilli \in Nat /\ FF \in Nat /\ HH \in Nat \ {0} /\ xy \in Nat
      /\ kv \in Nat /\ ki \in Nat
  BY ScaleAssumption DEF InGains
<1>2. k \in Nat /\ InPowerGains(k) /\ -500000 <= 1000000 * k - kv * ki
  BY PowerGain DEF InPowerGains
<1> HIDE DEF k
<1>3. p \in Nat /\ 1000000000 * (HH * p) >= k * (xy * FF) - 1395 * (1000000 * HH)
  <2> HIDE DEF xy
  <2>1. p \in Nat /\ PowerNear(xy, k)
    BY <1>1, <1>2, PowerIsNear
  <2>2. 1000000000 * (HH * p) - k * (xy * FF) >= -(1395 * (1000000 * HH))
    BY <2>1 DEF PowerNear
  <2> HIDE DEF p, HH, FF
  <2>3. k * (xy * FF) \in Int /\ HH * p \in Int
    BY <1>1, <1>2, <2>1
  <2> QED
    BY <1>1, <2>1, <2>2, <2>3
<1>4. 1000000000000 * (HH * (rv * ri)) <= (xy * FF) * (kv * ki)
  <2> DEFINE a == (x * FsMilli) * kv
             b == 1000000 * (FullScale * rv)
             c == (y * FsMilli) * ki
             d == 1000000 * (FullScale * ri)
  <2>1. a \in Nat /\ b \in Nat /\ c \in Nat /\ d \in Nat /\ b <= a /\ d <= c
    BY <1>1 DEF Within
  <2>2. a * c = (xy * FF) * (kv * ki)
    BY <1>1
  <2>3. b * d = 1000000000000 * (HH * (rv * ri))
    BY <1>1
  <2> HIDE DEF a, b, c, d
  <2>4. b * d <= a * d /\ a * d <= a * c
    BY <2>1
  <2>5. b * d <= a * c
    BY <2>1, <2>4
  <2> QED
    BY <2>2, <2>3, <2>5
<1>5. xy <= 4 * HH
  <2>1. x * y <= (2 * FullScale) * y /\ (2 * FullScale) * y <= (2 * FullScale) * (2 * FullScale)
    BY <1>1
  <2>2. (2 * FullScale) * (2 * FullScale) = 4 * HH /\ (2 * FullScale) * y \in Int
    BY <1>1
  <2> QED
    BY <1>1, <2>1, <2>2
<1> HIDE DEF FF, HH, xy, p
<1> DEFINE w == rv * ri
           z == xy * FF
<1>6. w \in Nat /\ z \in Nat /\ HH * w \in Nat /\ HH * p \in Nat /\ HH * FF \in Nat /\ k * z \in Nat
  BY <1>1, <1>2, <1>3
<1>7. z <= 4 * (HH * FF)
  <2>1. xy * FF <= (4 * HH) * FF
    BY <1>1, <1>5
  <2> QED
    BY <1>1, <2>1
<1>8. 1000000 * (k * z) >= 1000000000000 * (HH * w) - 500000 * z
  <2> DEFINE a == kv * ki
             b == z * a
             c == 1000000000000 * (HH * w)
             d == 1000000 * k - a
  <2>1. a \in Nat /\ -500000 <= d /\ d \in Int
    BY <1>1, <1>2
  <2>2. c <= b /\ c \in Nat
    BY <1>4, <1>6
  <2> HIDE DEF w, z, a, c
  <2> DEFINE e == k * z
             f == z * d
  <2>3. f = 1000000 * e - b /\ b \in Int /\ e \in Int /\ f \in Int
    BY <1>2, <1>6, <2>1
  <2> HIDE DEF b, d, e
  <2>4. f >= -(500000 * z)
    <3>1. z * (d + 500000) >= 0 /\ z * (d + 500000) = z * d + 500000 * z
      BY <1>6, <2>1
    <3> QED
      BY <1>6, <2>3, <3>1
  <2> HIDE DEF f
  <2>5. 1000000 * e >= c - 500000 * z
    BY <1>6, <2>2, <2>3, <2>4
  <2> QED
    BY <2>5 DEF c, e
<1>9. 1000000000 * (HH * p) >= 1000000 * (HH * w) - 1395000000 * HH - 2 * (HH * FF)
  <2>1. 1000000000 * (HH * p) >= k * z - 1395 * (1000000 * HH)
    BY <1>3
  <2> HIDE DEF w, z
  <2> QED
    BY <1>1, <1>3, <1>6, <1>7, <1>8, <2>1
<1>10. 500000000 * p + 697500000 + FF >= 500000 * w
  <2> HIDE DEF w
  <2> DEFINE a == 500000 * w
             b == 500000000 * p + 697500000 + FF
  <2>1. a \in Int /\ b \in Int
    BY <1>1, <1>3, <1>6
  <2>2. HH * a = 500000 * (HH * w)
    BY <1>1, <1>6
  <2>3. HH * b = 500000000 * (HH * p) + 697500000 * HH + HH * FF
    BY <1>1, <1>3
  <2> HIDE DEF a, b
  <2>4. HH * a <= HH * b
    BY <1>1, <1>6, <1>9, <2>2, <2>3
  <2>5. a <= b
    BY <1>1, <2>1, <2>4, CancelFactor
  <2> QED
    BY <2>5 DEF a, b
<1>11. 1000 * p >= w - Rounding
  <2> DEFINE r == FF \div 500000
  <2>1. Rounding = 1395 + r /\ r \in Int /\ 500000 * r <= FF /\ FF < 500000 * r + 500000
    BY <1>1 DEF Rounding, FF
  <2> HIDE DEF r, w
  <2> QED
    BY <1>1, <1>3, <1>6, <1>10, <2>1
<1> QED
  BY <1>11 DEF p, k, xy
-----------------------------------------------------------------------------
(* The readings of a window.                                                *)

\* The root of the mean square is at most the full scale, and what it cuts is less
\* than a count.
LEMMA RootMeanSquare ==
    ASSUME NEW n \in Nat \ {0}, NEW v, v \in [1..n -> Counts]
    PROVE  LET r == Isqrt(Squares(n, v) \div n)
           IN  r \in Nat /\ r <= FullScale /\ Squares(n, v) <= n * ((r + 1) * (r + 1))
<1> DEFINE a == Squares(n, v)
           x == a \div n
           r == Isqrt(x)
           HH == FullScale * FullScale
<1>1. a \in Nat /\ a <= n * HH
  BY SumOfSquares
<1>2. FullScale \in Nat /\ HH \in Nat /\ HH < PowerOf4[RootDigits]
  BY ScaleAssumption, WidthAssumption
<1> HIDE DEF a, HH
<1>3. x \in Nat /\ n * x <= a /\ a < n * x + n /\ x <= HH
  BY <1>1, <1>2, QuotientBounds
<1> HIDE DEF x
<1>4. r \in Nat /\ r * r <= x /\ x < (r + 1) * (r + 1)
  <2>1. x < PowerOf4[RootDigits]
    <3>1. PowerOf4[RootDigits] \in Nat
      BY Powers, RootAssumption
    <3> QED
      BY <1>2, <1>3, <3>1
  <2> QED
    BY <1>3, <2>1, RootFloor
<1> HIDE DEF r
<1>5. r <= FullScale
  <2>1. ASSUME r >= FullScale + 1 PROVE FALSE
    <3>1. /\ r * r >= (FullScale + 1) * r
          /\ (FullScale + 1) * r >= (FullScale + 1) * (FullScale + 1)
          /\ (FullScale + 1) * (FullScale + 1) = HH + 2 * FullScale + 1
      BY <1>2, <1>4, <2>1 DEF HH
    <3>2. r * r \in Int /\ (FullScale + 1) * r \in Int
      BY <1>2, <1>4
    <3> QED
      BY <1>2, <1>3, <1>4, <3>1, <3>2
  <2> QED
    BY <1>2, <1>4, <2>1
<1>6. a <= n * ((r + 1) * (r + 1))
  <2> DEFINE y == (r + 1) * (r + 1)
  <2>1. y \in Nat /\ x + 1 <= y
    BY <1>3, <1>4
  <2> HIDE DEF y
  <2>2. n * (x + 1) <= n * y /\ n * (x + 1) = n * x + n /\ n * x \in Int /\ n * y \in Int
    BY <1>3, <2>1
  <2>3. a <= n * y
    BY <1>1, <1>3, <2>2
  <2> QED
    BY <2>3 DEF y
<1> QED
  BY <1>1, <1>4, <1>5, <1>6 DEF a, x, r

\* What the form tells of the mixed sum.
LEMMA MixedSum ==
    ASSUME NEW n \in Nat, NEW a \in Nat, NEW b \in Nat, NEW t \in Int,
           NEW x \in Nat \ {0}, a <= n * (x * x), NEW y \in Nat \ {0}, b <= n * (y * y),
           a * (y * y) + 2 * (t * (y * x)) + b * (x * x) >= 0
    PROVE  -t <= n * (x * y)
<1> DEFINE X == x * x
           Y == y * y
           xy == x * y
           r == n * xy
           w == xy * r
           aY == a * Y
           bX == b * X
<1>1. /\ X \in Nat /\ Y \in Nat /\ xy \in Nat \ {0} /\ r \in Nat /\ w \in Nat
      /\ n * X \in Nat /\ n * Y \in Nat /\ aY \in Int /\ bX \in Int
  OBVIOUS
<1>2. w = (n * X) * Y /\ w = (n * Y) * X
  OBVIOUS
<1>3. a <= n * X /\ b <= n * Y
  OBVIOUS
<1>4. t * (y * x) = t * xy
  OBVIOUS
<1>5. aY + 2 * (t * xy) + bX >= 0
  BY <1>4
<1> HIDE DEF X, Y, w, xy, r
<1>6. aY <= w
  BY <1>1, <1>2, <1>3
<1>7. bX <= w
  BY <1>1, <1>2, <1>3
<1> HIDE DEF aY, bX
<1>8. xy * (-t) <= w
  <2> DEFINE u == t * xy
  <2>1. u \in Int /\ xy * (-t) = -u
    BY <1>1
  <2> HIDE DEF u
  <2> QED
    BY <1>1, <1>5, <1>6, <1>7, <2>1 DEF u
<1>9. -t <= r
  <2>1. xy * (-t) <= xy * r /\ -t \in Int
    BY <1>8 DEF w
  <2> QED
    BY <1>1, <2>1, CancelFactor
<1> QED
  BY <1>9 DEF r, xy

\* The mean of the products is at most the product of the two roots, each a count up.
LEMMA MeanProduct ==
    ASSUME NEW n \in Nat \ {0}, NEW v, v \in [1..n -> Counts], NEW i, i \in [1..n -> Counts],
           NEW x \in Nat \ {0}, Squares(n, v) <= n * (x * x),
           NEW y \in Nat \ {0}, Squares(n, i) <= n * (y * y)
    PROVE  LET c == Truncated(Products(n, v, i), n)
           IN  c \in Int /\ Size(c) \in Nat /\ Size(c) <= x * y
<1> DEFINE a == Squares(n, v)
           b == Squares(n, i)
           t == Products(n, v, i)
           z == -x
           m == x * y
<1>1. a \in Nat /\ b \in Nat
  BY SumOfSquares
<1>2. t \in Int /\ a * (y * y) + 2 * (t * (y * x)) + b * (x * x) >= 0
  <2>1. t \in Int /\ FormOfSums(n, v, i, y, x)
    BY SumsOfForm
  <2> QED
    BY <2>1 DEF FormOfSums
<1>3. a * (y * y) + 2 * (t * (y * z)) + b * (z * z) >= 0
  <2>1. z \in Int
    OBVIOUS
  <2> HIDE DEF z
  <2>2. FormOfSums(n, v, i, y, z)
    BY <2>1, SumsOfForm
  <2> QED
    BY <2>2 DEF FormOfSums
<1>4. a <= n * (x * x) /\ b <= n * (y * y)
  OBVIOUS
<1> HIDE DEF a, b, t
<1>5. -t <= n * m
  BY <1>1, <1>2, <1>4, MixedSum
<1>6. t <= n * m
  <2> DEFINE u == -t
  <2>1. u \in Int /\ -u = t
    BY <1>2
  <2>2. t * (y * z) = u * (y * x) /\ z * z = x * x
    BY <1>2
  <2>3. a * (y * y) + 2 * (u * (y * x)) + b * (x * x) >= 0
    BY <1>3, <2>2
  <2> HIDE DEF u
  <2>4. -u <= n * (x * y)
    BY <1>1, <1>4, <2>1, <2>3, MixedSum
  <2> QED
    BY <2>1, <2>4
<1>7. m \in Nat
  OBVIOUS
<1> HIDE DEF m
<1>8. CASE t >= 0
  <2> DEFINE q == t \div n
  <2>1. t \in Nat
    BY <1>2, <1>8
  <2>2. q \in Nat /\ q <= m
    BY <1>6, <1>7, <2>1, QuotientBounds
  <2>3. Truncated(t, n) = q
    BY <1>8 DEF Truncated
  <2> HIDE DEF q
  <2> QED
    BY <2>2, <2>3 DEF Size, t, m
<1>9. CASE ~(t >= 0)
  <2> DEFINE u == -t
             q == u \div n
  <2>1. u \in Nat /\ u <= n * m
    BY <1>2, <1>5, <1>9
  <2>2. Truncated(t, n) = -q
    BY <1>9 DEF Truncated
  <2> HIDE DEF u
  <2>3. q \in Nat /\ q <= m
    BY <1>7, <2>1, QuotientBounds
  <2> HIDE DEF q
  <2>4. Size(-q) = q
    BY <2>3 DEF Size
  <2> QED
    BY <2>2, <2>3, <2>4 DEF t, m
<1> QED
  BY <1>8, <1>9

\* What rms values, mean product and gains a reading is made of.
ReadFrom(m, v, i, c, kv, ki) ==
    /\ v \in Nat /\ v <= FullScale /\ i \in Nat /\ i <= FullScale
    /\ c \in Int /\ Size(c) \in Nat /\ Size(c) <= (v + 1) * (i + 1)
    /\ InGains(kv) /\ InGains(ki)
    /\ m.vRms = Amp!ApplyU32(ToMilli(v), kv) /\ m.iRms = Amp!ApplyU32(ToMilli(i), ki)
    /\ m.p = Amp!ApplyS64(DivRound(ToMicro(c), 1000), MulPpm(kv, ki))
    /\ m.s = PowerOf(v * i, MulPpm(kv, ki))
    /\ m.q \in {Reactive(m.p, m.s), -Reactive(m.p, m.s)}
    /\ m.pf = IF v * i = 0 THEN 0 ELSE Clamped(DivRound(c * 1000, v * i), -1000, 1000)
    /\ m.freqOk \/ (kv = 1000000 /\ ki = 1000000)

\* A reading is that of its counts but for 2 mV or mA, and the next count's but for a
\* count more.
LEMMA ReadingOfCounts ==
    ASSUME NEW n \in Nat, NEW k, InGains(k)
    PROVE  LET r == Amp!ApplyU32(ToMilli(n), k)
           IN  /\ r \in Nat /\ Covers(r + 2, n, k)
               /\ r >= 2 => Within(r - 2, n, k)
               /\ Count \in Nat /\ Covers(r + (Count + 2), n + 1, k)
<1> DEFINE r == Amp!ApplyU32(ToMilli(n), k)
           H == FullScale
           F == FsMilli
           z == n * F
           y == z * k
           w == H * r
<1>1. H \in Nat \ {0} /\ F \in Nat /\ k \in Nat /\ k <= 1337148 /\ z \in Nat /\ y \in Nat
  BY ScaleAssumption DEF InGains
<1>2. /\ r \in Nat /\ -2000000 * H <= 1000000 * w - y /\ 1000000 * w - y <= 2000000 * H
  BY ReadingScale
<1>3. Count \in Nat /\ 1350000 * F <= 1000000 * (H * Count)
  <2> DEFINE a == F * 27
             d == H * 20
             q == a \div d
  <2>1. a \in Nat /\ d \in Nat \ {0}
    BY <1>1
  <2>2. Count = q + 1
    BY DEF Count
  <2>3. q \in Nat /\ a < d * q + d
    <3> HIDE DEF a, d
    <3> QED
      BY <2>1, QuotientBounds
  <2> HIDE DEF q
  <2>4. d * q + d = 20 * (H * (q + 1)) /\ H * (q + 1) \in Nat
    BY <1>1, <2>3
  <2> DEFINE x == H * (q + 1)
  <2>5. a < 20 * x /\ x \in Nat
    BY <2>3, <2>4
  <2> HIDE DEF x
  <2>6. 1350000 * F <= 1000000 * x
    BY <1>1, <2>5
  <2> QED
    BY <2>2, <2>3, <2>6 DEF x
<1>4. (n + 1) * F = z + F
  BY <1>1
<1>5. w \in Nat
  BY <1>1, <1>2
<1> HIDE DEF r, H, F, z
<1>6. Covers(r + 2, n, k)
  <2>1. H * (r + 2) = w + 2 * H
    BY <1>1, <1>2
  <2> HIDE DEF w, y
  <2>2. y <= 1000000 * (w + 2 * H)
    BY <1>1, <1>2, <1>5
  <2> QED
    BY <2>1, <2>2 DEF Covers, y, z, F, H
<1>7. ASSUME r >= 2 PROVE Within(r - 2, n, k)
  <2>1. H * (r - 2) = w - 2 * H
    BY <1>1, <1>2
  <2> HIDE DEF w, y
  <2>2. 1000000 * (w - 2 * H) <= y
    BY <1>1, <1>2, <1>5
  <2> QED
    BY <2>1, <2>2 DEF Within, y, z, F, H
<1>8. Covers(r + (Count + 2), n + 1, k)
  <2> DEFINE x == H * Count
             g == F * k
  <2>1. x \in Nat /\ g \in Nat
    BY <1>1, <1>3
  <2>2. H * (r + (Count + 2)) = w + x + 2 * H
    BY <1>1, <1>2, <1>3
  <2>3. ((n + 1) * F) * k = y + g
    BY <1>1, <1>4
  <2>4. g <= 1337148 * F
    BY <1>1
  <2>5. 1350000 * F <= 1000000 * x
    BY <1>3
  <2> HIDE DEF w, y, x, g
  <2>6. y + g <= 1000000 * (w + x + 2 * H)
    BY <1>1, <1>2, <1>5, <2>1, <2>4, <2>5
  <2> QED
    BY <2>2, <2>3, <2>6 DEF Covers, F, H
<1> QED
  BY <1>2, <1>3, <1>6, <1>7, <1>8 DEF r

\* The apparent power's square fits the radicand.
LEMMA ApparentFits ==
    ASSUME NEW m \in Nat, m <= FullScale * FullScale, NEW k, InPowerGains(k)
    PROVE  LET s == PowerOf(m, k) IN s \in Nat /\ s * s < PowerOf4[RootDigits]
<1> DEFINE s == PowerOf(m, k)
           HH == FullScale * FullScale
           FF == FsMilli * FsMilli
           most == FF \div 500 + 2
<1>1. HH \in Nat \ {0} /\ FF \in Nat /\ k \in Nat /\ k <= 1787965
  BY ScaleAssumption DEF InPowerGains
<1>2. s \in Nat /\ 1000000000 * (HH * s) <= k * (m * FF) + 1395 * (1000000 * HH)
  <2>1. s \in Nat /\ PowerNear(m, k)
    BY PowerIsNear
  <2>2. 1000000000 * (HH * s) - k * (m * FF) <= 1395 * (1000000 * HH)
    BY <2>1 DEF PowerNear
  <2> HIDE DEF s, HH, FF
  <2>3. k * (m * FF) \in Int /\ HH * s \in Int
    BY <1>1, <2>1
  <2> QED
    BY <1>1, <2>1, <2>2, <2>3
<1>3. m <= HH
  OBVIOUS
<1> HIDE DEF s, HH, FF
<1>4. k * (m * FF) <= 1787965 * (HH * FF)
  <2>1. m * FF <= HH * FF /\ m * FF \in Nat /\ HH * FF \in Nat
    BY <1>1, <1>3
  <2>2. k * (m * FF) <= 1787965 * (m * FF)
    BY <1>1, <2>1
  <2> QED
    BY <1>1, <2>1, <2>2
<1>5. 1000000000 * s <= 1787965 * FF + 1395000000
  <2> DEFINE a == 1000000000 * s
             b == 1787965 * FF + 1395000000
  <2>1. a \in Int /\ b \in Int
    BY <1>1, <1>2
  <2>2. HH * a = 1000000000 * (HH * s) /\ HH * b = 1787965 * (HH * FF) + 1395 * (1000000 * HH)
    BY <1>1, <1>2
  <2>3. HH * s \in Int /\ HH * FF \in Int /\ k * (m * FF) \in Int
    BY <1>1, <1>2
  <2>4. HH * a <= HH * b
    <3> HIDE DEF a, b
    <3> QED
      BY <1>1, <1>2, <1>4, <2>2, <2>3
  <2> HIDE DEF a, b
  <2>5. a <= b
    BY <1>1, <2>1, <2>4, CancelFactor
  <2> QED
    BY <2>5 DEF a, b
<1>6. most \in Nat /\ s <= most
  BY <1>1, <1>2, <1>5
<1>7. most * most < PowerOf4[RootDigits] /\ PowerOf4[RootDigits] \in Nat
  BY WidthAssumption, Powers, RootAssumption DEF FF
<1> HIDE DEF most
<1>8. s * s <= most * most
  <2>1. s * s <= s * most /\ s * most <= most * most /\ s * most \in Nat
    BY <1>2, <1>6
  <2> QED
    BY <1>2, <1>6, <2>1
<1>9. s * s \in Nat /\ most * most \in Nat
  BY <1>2, <1>6
<1> QED
  BY <1>2, <1>7, <1>8, <1>9 DEF s

\* The reactive power is the third side, rounded down.
LEMMA ReactiveFloor ==
    ASSUME NEW p \in Int, NEW s \in Nat, s * s < PowerOf4[RootDigits]
    PROVE  LET active == IF Size(p) > s THEN s ELSE Size(p)
               q == Reactive(p, s)
           IN  /\ q \in Nat /\ q * q <= s * s - active * active
               /\ (q + 1) * (q + 1) > s * s - active * active
<1> DEFINE active == IF Size(p) > s THEN s ELSE Size(p)
           difference == s * s - active * active
<1>1. active \in Nat /\ active <= s
  BY DEF Size
<1>2. Reactive(p, s) = Isqrt(IF difference >= 0 THEN difference
                             ELSE PowerOf4[RootDigits] + difference)
  BY DEF Reactive, ActiveCapped, Size
<1> HIDE DEF active
<1>3. difference \in Nat /\ difference <= s * s
  <2>1. active * active <= s * active /\ s * active <= s * s
    BY <1>1
  <2>2. active * active \in Nat /\ s * active \in Nat /\ s * s \in Nat
    BY <1>1
  <2> QED
    BY <2>1, <2>2
<1>4. difference < PowerOf4[RootDigits]
  <2>1. PowerOf4[RootDigits] \in Nat /\ s * s \in Nat
    BY Powers, RootAssumption
  <2> HIDE DEF difference
  <2> QED
    BY <1>3, <2>1
<1> HIDE DEF difference
<1> DEFINE q == Isqrt(difference)
<1>5. q \in Nat /\ q * q <= difference /\ difference < (q + 1) * (q + 1)
  BY <1>3, <1>4, RootFloor
<1>6. Reactive(p, s) = q
  BY <1>2, <1>3
<1> HIDE DEF q
<1>7. (q + 1) * (q + 1) > difference
  <2> DEFINE y == (q + 1) * (q + 1)
  <2>1. y \in Int
    BY <1>5
  <2> HIDE DEF y
  <2>2. difference < y
    BY <1>5 DEF y
  <2>3. y > difference
    BY <1>3, <2>1, <2>2
  <2> QED
    BY <2>3 DEF y
<1> QED
  BY <1>5, <1>6, <1>7 DEF active, difference

\* Both powers have one gain, and the active one has the mean product's sign.
LEMMA PowersRead ==
    ASSUME NEW m, NEW v, NEW i, NEW c, NEW kv, NEW ki, ReadFrom(m, v, i, c, kv, ki)
    PROVE  LET k == MulPpm(kv, ki)
               p == PowerOf(Size(c), k)
           IN  /\ InPowerGains(k) /\ (m.freqOk \/ k = 1000000)
               /\ p \in Nat /\ m.p = (IF c >= 0 THEN p ELSE -p) /\ Size(m.p) = p /\ m.p \in Int
               /\ m.s = PowerOf(v * i, k) /\ m.s \in Nat /\ m.s * m.s < PowerOf4[RootDigits]
<1> DEFINE k == MulPpm(kv, ki)
           p == PowerOf(Size(c), k)
           n == v * i
<1>1. /\ v \in Nat /\ v <= FullScale /\ i \in Nat /\ i <= FullScale /\ c \in Int
      /\ Size(c) \in Nat /\ InGains(kv) /\ InGains(ki)
      /\ m.p = Amp!ApplyS64(DivRound(ToMicro(c), 1000), k) /\ m.s = PowerOf(n, k)
      /\ m.freqOk \/ (kv = 1000000 /\ ki = 1000000)
  BY SMT DEF ReadFrom
<1>2. InPowerGains(k)
  BY <1>1, PowerGain
<1>3. m.freqOk \/ k = 1000000
  <2>1. CASE kv = 1000000 /\ ki = 1000000
    <3>1. MulPpm(1000000, 1000000) = (1000000 * 1000000 + 500000) \div 1000000
      BY MulPpmExact
    <3>2. (1000000 * 1000000 + 500000) \div 1000000 = 1000000
      OBVIOUS
    <3> QED
      BY <2>1, <3>1, <3>2
  <2> QED
    BY <1>1, <2>1
<1> HIDE DEF k
<1>4. p \in Nat
  BY <1>1, <1>2, PowerIsNear
<1>5. m.p = IF c >= 0 THEN p ELSE -p
  <2>1. m.p = IF c >= 0 THEN PowerOf(c, k) ELSE -PowerOf(-c, k)
    BY <1>1, <1>2, PowerSigned
  <2> QED
    BY <2>1 DEF Size
<1>6. n \in Nat /\ n <= FullScale * FullScale
  <2>1. FullScale \in Nat
    BY ScaleAssumption
  <2>2. v * i <= FullScale * i /\ FullScale * i <= FullScale * FullScale
    BY <1>1, <2>1
  <2>3. v * i \in Nat /\ FullScale * i \in Nat /\ FullScale * FullScale \in Nat
    BY <1>1, <2>1
  <2> QED
    BY <2>2, <2>3
<1> HIDE DEF n, p
<1>7. m.s \in Nat /\ m.s * m.s < PowerOf4[RootDigits]
  BY <1>1, <1>2, <1>6, ApparentFits
<1>8. Size(m.p) = p /\ m.p \in Int
  BY <1>4, <1>5 DEF Size
<1> QED
  BY <1>1, <1>2, <1>3, <1>4, <1>5, <1>7, <1>8 DEF k, p, n

\* P, Q and S of a reading are a right triangle.
LEMMA TriangleRead ==
    ASSUME NEW m, NEW v, NEW i, NEW c, NEW kv, NEW ki, ReadFrom(m, v, i, c, kv, ki)
    PROVE  RightTriangle(m)
<1> DEFINE s == m.s
           q == Reactive(m.p, s)
           active == Active(m)
           rest == s * s - active * active
<1>1. m.p \in Int /\ s \in Nat /\ s * s < PowerOf4[RootDigits]
  BY PowersRead
<1>2. m.q \in {q, -q}
  BY SMT DEF ReadFrom
<1>3. q \in Nat /\ q * q <= rest /\ (q + 1) * (q + 1) > rest
  <2> DEFINE a == IF Size(m.p) > s THEN s ELSE Size(m.p)
  <2>1. active = a
    BY DEF Active
  <2> HIDE DEF s, active
  <2>2. q \in Nat /\ q * q <= s * s - a * a /\ (q + 1) * (q + 1) > s * s - a * a
    BY <1>1, ReactiveFloor
  <2> QED
    BY <2>1, <2>2
<1> HIDE DEF q, rest
<1>4. m.q * m.q = q * q /\ Size(m.q) = q
  <2>1. (-q) * (-q) = q * q /\ Size(-q) = q /\ Size(q) = q
    BY <1>3 DEF Size
  <2> QED
    BY <1>2, <2>1
<1>5. m.q * m.q <= rest /\ (Size(m.q) + 1) * (Size(m.q) + 1) > rest
  BY <1>3, <1>4
<1> QED
  BY <1>5 DEF RightTriangle, rest

\* S is the product of the rms values, and P at most that.
LEMMA ProductRead ==
    ASSUME NEW m, NEW v, NEW i, NEW c, NEW kv, NEW ki, ReadFrom(m, v, i, c, kv, ki)
    PROVE  ProductOfRms(m)
<1> DEFINE k == MulPpm(kv, ki)
           rv == m.vRms
           ri == m.iRms
           vi == v * i
<1>1. /\ v \in Nat /\ v <= FullScale /\ i \in Nat /\ i <= FullScale /\ FullScale \in Nat \ {0}
      /\ Size(c) \in Nat /\ Size(c) <= (v + 1) * (i + 1) /\ InGains(kv) /\ InGains(ki)
      /\ rv = Amp!ApplyU32(ToMilli(v), kv) /\ ri = Amp!ApplyU32(ToMilli(i), ki)
  BY ScaleAssumption DEF ReadFrom
<1>2. Size(m.p) = PowerOf(Size(c), k) /\ m.s = PowerOf(vi, k)
  BY PowersRead
<1> HIDE DEF rv, ri
<1>3. /\ rv \in Nat /\ Covers(rv + 2, v, kv) /\ (rv >= 2 => Within(rv - 2, v, kv))
      /\ Count \in Nat /\ Covers(rv + (Count + 2), v + 1, kv)
  BY <1>1, ReadingOfCounts
<1>4. /\ ri \in Nat /\ Covers(ri + 2, i, ki) /\ (ri >= 2 => Within(ri - 2, i, ki))
      /\ Covers(ri + (Count + 2), i + 1, ki)
  BY <1>1, ReadingOfCounts
<1>5. 1000 * m.s <= (rv + 2) * (ri + 2) + Rounding
  <2> DEFINE x == rv + 2
             y == ri + 2
  <2>1. x \in Nat /\ y \in Nat /\ Covers(x, v, kv) /\ Covers(y, i, ki)
    BY <1>3, <1>4
  <2>2. vi \in Nat /\ v <= 2 * FullScale /\ i <= 2 * FullScale
    BY <1>1
  <2> HIDE DEF x, y, k
  <2>3. 1000 * PowerOf(vi, MulPpm(kv, ki)) <= x * y + Rounding
    BY <1>1, <2>1, <2>2, PowerBelow
  <2> QED
    BY <1>2, <2>3 DEF x, y, k
<1>6. ASSUME rv >= 2, ri >= 2
      PROVE  1000 * m.s >= (rv - 2) * (ri - 2) - Rounding
  <2> DEFINE x == rv - 2
             y == ri - 2
  <2>1. x \in Nat /\ y \in Nat /\ Within(x, v, kv) /\ Within(y, i, ki)
    BY <1>3, <1>4, <1>6
  <2>2. v <= 2 * FullScale /\ i <= 2 * FullScale
    BY <1>1
  <2> HIDE DEF x, y, k
  <2>3. 1000 * PowerOf(v * i, MulPpm(kv, ki)) >= x * y - Rounding
    BY <1>1, <2>1, <2>2, PowerAbove
  <2> QED
    BY <1>2, <2>3 DEF x, y, k
<1>7. 1000 * Size(m.p) <= (rv + (Count + 2)) * (ri + (Count + 2)) + Rounding
  <2> DEFINE x == rv + (Count + 2)
             y == ri + (Count + 2)
             v1 == v + 1
             i1 == i + 1
             z == Size(c)
  <2>1. x \in Nat /\ y \in Nat /\ Covers(x, v1, kv) /\ Covers(y, i1, ki)
    BY <1>3, <1>4
  <2>2. /\ v1 \in Nat /\ i1 \in Nat /\ v1 <= 2 * FullScale /\ i1 <= 2 * FullScale
        /\ z \in Nat /\ z <= v1 * i1
    BY <1>1
  <2> HIDE DEF x, y, k, v1, i1, z
  <2>3. 1000 * PowerOf(z, MulPpm(kv, ki)) <= x * y + Rounding
    BY <1>1, <2>1, <2>2, PowerBelow
  <2> QED
    BY <1>2, <2>3 DEF x, y, k, z
<1> QED
  BY <1>5, <1>6, <1>7 DEF ProductOfRms, rv, ri

\* Without a product of rms values there is no power.
LEMMA NoPower ==
    ASSUME NEW k, InPowerGains(k)
    PROVE  PowerOf(0, k) = 0
<1> DEFINE HH == FullScale * FullScale
<1>1. FsMilli \in Nat /\ HH \in Nat \ {0} /\ k \in Nat
  BY ScaleAssumption DEF InPowerGains
<1>2. 0 * FsMilli * FsMilli = 0 /\ 0 \div HH = 0
  <2> HIDE DEF HH
  <2> QED
    BY <1>1
<1>3. ToMicro(0) = 0
  BY <1>2 DEF ToMicro, Truncated
<1>4. (0 + 500) \div 1000 = 0 /\ (0 * k + 1000000 \div 2) \div 1000000 = 0
  BY <1>1
<1> QED
  BY <1>3, <1>4 DEF PowerOf, Amp!ApplyU32

FactorOf(z, n) == IF Ratio(z, n) > 1000 THEN 1000 ELSE Ratio(z, n)
Lesser(p, s) == IF p > s THEN s ELSE p

\* Also when the mean product comes out above the product of the rms values.
LEMMA FactorOfLesser ==
    ASSUME NEW z \in Nat, NEW n \in Nat \ {0}, NEW k, InPowerGains(k)
    PROVE  LET s == PowerOf(n, k) IN IsRatio(FactorOf(z, n), Lesser(PowerOf(z, k), s), s, k)
<1> DEFINE f == Ratio(z, n)
           p == PowerOf(z, k)
           s == PowerOf(n, k)
<1>1. p \in Nat /\ s \in Nat
  BY PowerIsNear
<1>2. CASE z <= n
  <2>1. IsRatio(f, p, s, k)
    BY <1>2, FactorOfPowers
  <2>2. p <= s
    BY <1>2, PowerGrows
  <2> HIDE DEF f, p, s
  <2>3. f \in Nat /\ f <= 1000 /\ ~(f > 1000)
    BY <2>1 DEF IsRatio
  <2>4. FactorOf(z, n) = f /\ Lesser(p, s) = p
    BY <1>1, <2>2, <2>3 DEF FactorOf, Lesser, f
  <2> QED
    BY <2>1, <2>4 DEF p, s
<1>3. CASE ~(z <= n)
  <2>1. f \in Nat /\ f >= 1000
    <3> DEFINE a == z * 1000 + n \div 2
               q == a \div n
    <3>1. a \in Nat /\ a >= 1000 * n
      BY <1>3
    <3> HIDE DEF a
    <3>2. q \in Nat /\ a < n * q + n
      BY <3>1, QuotientBounds
    <3> HIDE DEF q
    <3>3. ASSUME q <= 999 PROVE FALSE
      <4>1. n * q <= n * 999 /\ n * q \in Nat
        BY <3>2, <3>3
      <4> QED
        BY <3>1, <3>2, <4>1
    <3>4. q >= 1000
      BY <3>2, <3>3
    <3> QED
      BY <3>2, <3>4 DEF q, a, Ratio
  <2>2. s <= p
    BY <1>3, PowerGrows
  <2> HIDE DEF f, p, s
  <2>3. FactorOf(z, n) = 1000 /\ Lesser(p, s) = s
    BY <1>1, <2>1, <2>2 DEF FactorOf, Lesser, f
  <2>4. IsRatio(1000, s, s, k)
    BY <1>1 DEF IsRatio
  <2> QED
    BY <2>3, <2>4 DEF p, s
<1> QED
  BY <1>2, <1>3

\* C's division to the nearest and its clamp treat both signs alike.
LEMMA FactorSigned ==
    ASSUME NEW c \in Int, NEW n \in Nat \ {0}
    PROVE  LET f == FactorOf(Size(c), n)
           IN  Clamped(DivRound(c * 1000, n), -1000, 1000) = IF c >= 0 THEN f ELSE -f
<1> DEFINE z == Size(c)
           r == Ratio(z, n)
<1>1. z \in Nat /\ c = (IF c >= 0 THEN z ELSE -z) /\ (~(c >= 0) => z > 0)
  BY DEF Size
<1> HIDE DEF z
<1>2. r \in Nat
  <2>1. z * 1000 + n \div 2 \in Nat
    BY <1>1
  <2> QED
    BY <2>1, QuotientBounds DEF Ratio
<1>3. DivRound(c * 1000, n) = IF c >= 0 THEN r ELSE -r
  <2>1. CASE c >= 0
    BY <1>1, <2>1 DEF DivRound, Ratio
  <2>2. CASE ~(c >= 0)
    <3>1. ~(c * 1000 >= 0) /\ -(c * 1000) = z * 1000
      BY <1>1, <2>2
    <3> QED
      BY <2>2, <3>1 DEF DivRound, Ratio
  <2> QED
    BY <2>1, <2>2
<1> HIDE DEF r
<1>4. Clamped(r, -1000, 1000) = IF r > 1000 THEN 1000 ELSE r
  BY <1>2 DEF Clamped
<1>5. Clamped(-r, -1000, 1000) = -(IF r > 1000 THEN 1000 ELSE r)
  BY <1>2 DEF Clamped
<1> QED
  BY <1>3, <1>4, <1>5 DEF FactorOf, r, z

\* The factor that is shown is that of the powers that are shown.
LEMMA FactorRead ==
    ASSUME NEW m, NEW v, NEW i, NEW c, NEW kv, NEW ki, ReadFrom(m, v, i, c, kv, ki)
    PROVE  FactorOfShown(m)
<1> DEFINE k == MulPpm(kv, ki)
           n == v * i
           z == Size(c)
           p == PowerOf(z, k)
           s == m.s
           active == Active(m)
           most == s \div 2 + (IF m.freqOk THEN 2791 ELSE 1000)
<1>1. /\ InPowerGains(k) /\ (m.freqOk \/ k = 1000000)
      /\ p \in Nat /\ m.p = (IF c >= 0 THEN p ELSE -p) /\ Size(m.p) = p
      /\ s = PowerOf(n, k) /\ s \in Nat
  BY PowersRead
<1>2. /\ v \in Nat /\ i \in Nat /\ c \in Int /\ z \in Nat
      /\ m.pf = IF n = 0 THEN 0 ELSE Clamped(DivRound(c * 1000, n), -1000, 1000)
  BY SMT DEF ReadFrom
<1>3. n \in Nat
  BY <1>2
<1>4. active = Lesser(p, s)
  BY <1>1 DEF Active, Lesser
<1> HIDE DEF k, n, z, p, s, active

\* A factor of the shown one's size.
<1>5. \E f \in Nat : /\ m.pf = (IF c >= 0 THEN f ELSE -f) /\ f <= 1000
                     /\ -most <= f * s - 1000 * active /\ f * s - 1000 * active <= most
  <2>1. CASE n = 0
    <3>1. s = 0
      BY <1>1, <2>1, NoPower
    <3>2. active = 0
      BY <1>1, <1>4, <3>1 DEF Lesser
    <3>3. m.pf = 0 /\ most \in Nat
      BY <1>1, <1>2, <2>1
    <3> HIDE DEF most
    <3>4. -most <= 0 * s - 1000 * active /\ 0 * s - 1000 * active <= most
      BY <3>1, <3>2, <3>3
    <3> QED
      BY <3>3, <3>4
  <2>2. CASE n # 0
    <3> DEFINE f == FactorOf(z, n)
    <3>1. n \in Nat \ {0}
      BY <1>3, <2>2
    <3>2. m.pf = IF c >= 0 THEN f ELSE -f
      BY <1>2, <2>2, <3>1, FactorSigned DEF z
    <3>3. IsRatio(f, active, s, k)
      BY <1>1, <1>2, <1>4, <3>1, FactorOfLesser DEF p
    <3> HIDE DEF f
    <3>4. f \in Nat /\ f <= 1000
      BY <3>3 DEF IsRatio
    <3> DEFINE x == f * s - 1000 * active
               r == s \div 2 + (IF k = 1000000 THEN 1000 ELSE 2791)
    <3>5. -r <= x /\ x <= r
      BY <3>3 DEF IsRatio
    <3>6. x \in Int /\ r \in Int /\ most \in Int /\ r <= most
      <4>1. active \in Nat
        BY <1>1, <1>4 DEF Lesser
      <4> QED
        BY <1>1, <3>4, <4>1
    <3> HIDE DEF x, r, most
    <3>7. -most <= x /\ x <= most
      BY <3>5, <3>6
    <3> QED
      BY <3>2, <3>4, <3>7 DEF x
  <2> QED
    BY <2>1, <2>2
<1>6. PICK f \in Nat : /\ m.pf = (IF c >= 0 THEN f ELSE -f) /\ f <= 1000
                       /\ -most <= f * s - 1000 * active /\ f * s - 1000 * active <= most
  BY <1>5
<1> DEFINE signed == IF m.p < 0 THEN -active ELSE active
           x == f * s
           y == 1000 * active
<1>7. active \in Nat /\ (p = 0 => active = 0) /\ most \in Nat
  BY <1>1, <1>4 DEF Lesser
<1>8. x \in Nat /\ y \in Nat
  BY <1>1, <1>6, <1>7
<1>9. 1000 * signed = IF c >= 0 THEN y ELSE -y
  <2>1. m.p < 0 <=> (~(c >= 0) /\ p # 0)
    BY <1>1, <1>2
  <2> QED
    BY <1>1, <1>7, <2>1
<1>10. m.pf * s = IF c >= 0 THEN x ELSE -x
  BY <1>1, <1>6
<1>11. -most <= x - y /\ x - y <= most
  BY <1>6
<1>12. m.pf \in -1000..1000
  BY <1>6
<1> HIDE DEF x, y, most, signed
<1>13. Near(m.pf * s, 1000 * signed, most)
  BY <1>7, <1>8, <1>9, <1>10, <1>11 DEF Near, Size
<1> QED
  BY <1>12, <1>13 DEF FactorOfShown, s, active, most, signed

\* A live reading is made from its window, whether it is compensated or not.
LEMMA LiveReadFrom ==
    ASSUME input \in Inputs, input.samples # << >>, NEW turned
    PROVE  \E v, i, c, kv, ki : ReadFrom(Live(turned), v, i, c, kv, ki)
<1> DEFINE window == input.samples
           n == Len(window)
           v == [j \in 1..n |-> window[j].v]
           i == [j \in 1..n |-> window[j].i]
           V == Isqrt(Squares(n, v) \div n)
           I == Isqrt(Squares(n, i) \div n)
           c == Truncated(Products(n, v, i), n)
           kv == Gains.v
           ki == Gains.i
           kvi == Gains.vi
           m == Live(turned)
<1>1. /\ m.vRms = Amp!ApplyU32(ToMilli(V), kv) /\ m.iRms = Amp!ApplyU32(ToMilli(I), ki)
      /\ m.p = Amp!ApplyS64(DivRound(ToMicro(c), 1000), kvi)
      /\ m.s = Amp!ApplyU32((ToMicro(V * I) + 500) \div 1000, kvi)
      /\ m.q \in {Reactive(m.p, m.s), -Reactive(m.p, m.s)}
      /\ m.pf = (IF V * I = 0 THEN 0 ELSE Clamped(DivRound(c * 1000, V * I), -1000, 1000))
      /\ m.freqOk = FreqOk
  <2>1. Counted.vRms = V /\ Counted.iRms = I /\ Counted.p = c
    BY SMT DEF Counted, Squares, Products
  <2> HIDE DEF V, I, c, kv, ki, kvi
  <2>2. /\ m.vRms = Amp!ApplyU32(ToMilli(Counted.vRms), kv)
        /\ m.iRms = Amp!ApplyU32(ToMilli(Counted.iRms), ki)
        /\ m.p = Amp!ApplyS64(DivRound(ToMicro(Counted.p), 1000), kvi)
        /\ m.s = Amp!ApplyU32((ToMicro(Counted.vRms * Counted.iRms) + 500) \div 1000, kvi)
        /\ m.q \in {Reactive(m.p, m.s), -Reactive(m.p, m.s)}
        /\ m.pf = (IF Counted.vRms * Counted.iRms = 0 THEN 0
                   ELSE Clamped(DivRound(Counted.p * 1000, Counted.vRms * Counted.iRms), -1000, 1000))
        /\ m.freqOk = FreqOk
    BY SMT DEF Live, kv, ki, kvi
  <2> HIDE DEF m
  <2> QED
    BY <2>1, <2>2
<1>2. /\ window \in Seq([v : Counts, i : Counts]) /\ window # << >>
      /\ input.pll.inc \in 0..(IncSpan - 1)
  BY InputAssumption
<1>3. n \in Nat \ {0} /\ v \in [1..n -> Counts] /\ i \in [1..n -> Counts]
  <2> DEFINE D == [v : Counts, i : Counts]
  <2>1. window \in Seq(D) /\ window # << >>
    BY <1>2
  <2> HIDE DEF D, window
  <2>2. n \in Nat /\ n # 0 /\ \A j \in 1..n : window[j] \in D
    BY <2>1, EmptySeq, LenProperties, ElementOfSeq
  <2> HIDE DEF n
  <2>3. \A j \in 1..n : window[j].v \in Counts /\ window[j].i \in Counts
    BY <2>2 DEF D
  <2> QED
    BY <2>2, <2>3
<1>4. FreqRead \in Nat
  <2>1. Freq(input.pll.inc) \in Nat
    <3> DEFINE a == input.pll.inc * 100000 + IncSpan \div 2
    <3>1. a \in Nat /\ IncSpan \in Nat \ {0}
      BY <1>2, ScaleAssumption
    <3> HIDE DEF a
    <3>2. a \div IncSpan \in Nat
      BY <3>1, QuotientBounds
    <3> QED
      BY <3>2 DEF Freq, a
  <2> QED
    BY <2>1 DEF FreqRead
<1> HIDE DEF m
<1>5. /\ InGains(kv) /\ InGains(ki) /\ kvi = MulPpm(kv, ki)
      /\ FreqOk \/ (kv = 1000000 /\ ki = 1000000)
  <2>1. CASE FreqOk
    <3>1. /\ kv = Amp!Lookup(Amp!VoltageTable, FreqRead)
          /\ ki = Amp!Lookup(Amp!CurrentTable, FreqRead)
          /\ kvi = MulPpm(kv, ki)
      BY <2>1 DEF Gains
    <3> QED
      BY <1>4, <2>1, <3>1, GainRange
  <2>2. CASE ~FreqOk
    <3>1. kv = 1000000 /\ ki = 1000000 /\ kvi = 1000000
      BY <2>2 DEF Gains
    <3>2. MulPpm(1000000, 1000000) = (1000000 * 1000000 + 500000) \div 1000000
      BY MulPpmExact
    <3>3. (1000000 * 1000000 + 500000) \div 1000000 = 1000000
      OBVIOUS
    <3> QED
      BY <3>1, <3>2, <3>3 DEF InGains
  <2> QED
    BY <2>1, <2>2
<1> HIDE DEF n, v, i, window
<1>6. /\ V \in Nat /\ V <= FullScale /\ Squares(n, v) <= n * ((V + 1) * (V + 1))
      /\ I \in Nat /\ I <= FullScale /\ Squares(n, i) <= n * ((I + 1) * (I + 1))
  BY <1>3, RootMeanSquare
<1> HIDE DEF V, I
<1>7. c \in Int /\ Size(c) \in Nat /\ Size(c) <= (V + 1) * (I + 1)
  <2> DEFINE x == V + 1
             y == I + 1
  <2>1. /\ x \in Nat \ {0} /\ Squares(n, v) <= n * (x * x)
        /\ y \in Nat \ {0} /\ Squares(n, i) <= n * (y * y)
    BY <1>6
  <2> HIDE DEF x, y, c
  <2>2. c \in Int /\ Size(c) \in Nat /\ Size(c) <= x * y
    BY <1>3, <2>1, MeanProduct DEF c
  <2> QED
    BY <2>2 DEF x, y
<1> HIDE DEF c, kv, ki, kvi
<1>8. ReadFrom(m, V, I, c, kv, ki)
  BY <1>1, <1>5, <1>6, <1>7, SMT DEF ReadFrom, PowerOf
<1> QED
  BY <1>8 DEF m

\* The numbers of a live reading go together, for every window and every state of the
\* PLL: what a reading does not change stays, and what it changes is made from one
\* window.
THEOREM ReadingsCohere == Spec => []ReadingCoherent
<1> DEFINE Inv == input \in Inputs /\ ReadingCoherent
<1>1. Init => Inv
  BY DEF Init, ReadingCoherent, Read
<1>2. Inv /\ [Next]_vars => Inv'
  <2> SUFFICES ASSUME Inv, [Next]_vars PROVE Inv'
    OBVIOUS
  <2>1. CASE StepLive
    <3>1. PICK turned : metrics' = Live(turned)
      BY <2>1 DEF StepLive
    <3>2. input.samples # << >> /\ input' = input
      BY <2>1 DEF StepLive
    <3>3. PICK v, i, c, kv, ki : ReadFrom(Live(turned), v, i, c, kv, ki)
      BY <3>2, LiveReadFrom
    <3> DEFINE m == Live(turned)
    <3> HIDE DEF m
    <3>4. RightTriangle(m) /\ ProductOfRms(m) /\ FactorOfShown(m)
      BY <3>3, TriangleRead, ProductRead, FactorRead DEF m
    <3>5. metrics' = m
      BY <3>1 DEF m
    <3>6. RightTriangle(metrics)'
      BY <3>4, <3>5 DEF RightTriangle, Active
    <3>7. ProductOfRms(metrics)'
      BY <3>4, <3>5 DEF ProductOfRms, Count
    <3>8. FactorOfShown(metrics)'
      BY <3>4, <3>5 DEF FactorOfShown, Active
    <3> QED
      BY <3>2, <3>6, <3>7, <3>8 DEF ReadingCoherent, Coherent
  <2>2. CASE StepFails
    BY <2>2 DEF StepFails, vars, ReadingCoherent, Read, Coherent
  <2>3. CASE StepDemo
    BY <2>3 DEF StepDemo, ReadingCoherent
  <2>4. CASE UNCHANGED vars
    BY <2>4 DEF vars, ReadingCoherent, Read, Coherent
  <2> QED
    BY <2>1, <2>2, <2>3, <2>4 DEF Next
<1>3. Inv => ReadingCoherent
  OBVIOUS
<1> QED
  BY <1>1, <1>2, <1>3, PTL DEF Spec
=============================================================================
