------------------------- MODULE ScopeHistoryProofs -------------------------
(* For any frame length, history, window and screen, and any samples: the   *)
(* invariants of ScopeHistory.                                              *)
EXTENDS ScopeHistory, SequenceTheorems, WellFoundedInduction, TLAPS

-----------------------------------------------------------------------------
(* Division.                                                               *)

\* What a quotient is at least.
LEMMA QuotientAtLeast ==
    ASSUME NEW n \in Nat \ {0}, NEW x \in Nat, NEW k \in Int
    PROVE  /\ x \div n \in Nat
           /\ k <= x \div n <=> n * k <= x
<1> DEFINE q == x \div n
           r == x % n
<1>1. q \in Nat /\ r \in 0..(n - 1) /\ x = n * q + r
  OBVIOUS
<1> HIDE DEF q, r
<1>2. ASSUME k <= q PROVE n * k <= n * q
  BY <1>1, <1>2
<1>3. ASSUME k >= q + 1 PROVE n * k >= n * q + n
  <2>1. n * k >= n * (q + 1)
    BY <1>1, <1>3
  <2> QED
    BY <1>1, <2>1
<1>4. n * k \in Int /\ n * q \in Nat
  BY <1>1
<1>5. k <= q <=> n * k <= x
  BY <1>1, <1>2, <1>3, <1>4
<1> QED
  BY <1>1, <1>5 DEF q

\* The ring's index arithmetic never goes round more than once.
LEMMA WrapsOnce ==
    ASSUME NEW n \in Nat \ {0}, NEW x \in 0..(2 * n - 1)
    PROVE  x % n = IF x < n THEN x ELSE x - n
<1> DEFINE q == x \div n
           r == x % n
<1>1. q \in Nat /\ r \in 0..(n - 1) /\ x = n * q + r
  OBVIOUS
<1> HIDE DEF q, r
<1>2. q = 0 \/ q = 1
  <2>1. q >= 2 => n * q >= n * 2
    BY <1>1
  <2> QED
    BY <1>1, <2>1
<1>3. r = IF x < n THEN x ELSE x - n
  BY <1>1, <1>2
<1> QED
  BY <1>3 DEF r

\* A set of naturals that is not empty has a least element.
LEMMA Least ==
    ASSUME NEW S, S \subseteq Nat, S # {}
    PROVE  \E m \in S : \A n \in S : m <= n
<1>1. PICK m \in S : \A n \in S : ~(<<n, m>> \in OpToRel(<, Nat))
  BY NatLessThanWellFounded, WFMin
<1>2. \A n \in S : ~(n < m)
  BY <1>1 DEF OpToRel
<1> QED
  BY <1>2

LEMMA Sizes ==
    /\ Capacity \in Nat \ {0} /\ FrameSamples \in 1..Capacity
    /\ Points \in Nat \ {0} /\ PrePoints \in 0..(Points - 1) /\ WindowSamples \in Nat \ {0}
<1>1. FrameSamples \in Nat \ {0} /\ HistoryFrames \in Nat \ {0}
  BY SizeAssumption
<1>2. FrameSamples * HistoryFrames >= FrameSamples * 1 /\ FrameSamples * HistoryFrames \in Nat
  BY <1>1
<1> QED
  BY <1>1, <1>2, SizeAssumption DEF Capacity

-----------------------------------------------------------------------------
(* The ring.                                                               *)

\* Where the i-th oldest sample is.
LEMMA SlotOf ==
    ASSUME NEW h \in Slot, NEW c \in 0..Capacity, NEW i \in Nat, i < c
    PROVE  LET s == h - c + i
           IN  (((h + Capacity - c) % Capacity) + i) % Capacity =
                  (IF s >= 0 THEN s ELSE s + Capacity)
<1>1. Capacity \in Nat \ {0} /\ h \in 0..(Capacity - 1) /\ i < Capacity
  BY Sizes DEF Slot
<1> DEFINE n == Capacity
           x == h + Capacity - c
           b == x % n
           y == b + i
<1>2. n \in Nat \ {0} /\ x \in 0..(2 * n - 1)
  BY <1>1
<1> HIDE DEF n, x
<1>3. b = IF x < n THEN x ELSE x - n
  BY <1>2, WrapsOnce
<1> HIDE DEF b
<1>4. y \in 0..(2 * n - 1)
  BY <1>1, <1>2, <1>3 DEF n
<1> HIDE DEF y
<1>5. y % n = IF y < n THEN y ELSE y - n
  BY <1>2, <1>4, WrapsOnce
<1>6. y % n = IF h - c + i >= 0 THEN h - c + i ELSE h - c + i + Capacity
  BY <1>1, <1>3, <1>5 DEF y, x, n
<1> QED
  BY <1>6 DEF y, b, x, n

\* The ring, read from the oldest sample on.
LEMMA SampleSlot ==
    ASSUME TypeOK, NEW i \in Nat, i < count
    PROVE  /\ Sample(i) = ring[IF head - count + i >= 0 THEN head - count + i
                               ELSE head - count + i + Capacity]
           /\ Sample(i) \in Raw \union {0}
<1>1. head \in Slot /\ count \in 0..Capacity /\ ring \in [Slot -> Raw \union {0}]
  BY DEF TypeOK
<1> DEFINE s == IF head - count + i >= 0 THEN head - count + i ELSE head - count + i + Capacity
<1>2. HistoryIndex(i) = s
  BY <1>1, SlotOf DEF HistoryIndex
<1>3. s \in Slot
  BY <1>1, Sizes DEF Slot
<1> HIDE DEF s
<1>4. Sample(i) = ring[s]
  BY <1>2 DEF Sample
<1>5. ring[s] \in Raw \union {0}
  BY <1>1, <1>3
<1> QED
  BY <1>4, <1>5, Zenon DEF s

\* A frame moves the head on, and fills the ring up to its capacity.
LEMMA PushCounts ==
    ASSUME TypeOK, PushFrame
    PROVE  /\ head' \in Slot
           /\ head' = IF head + FrameSamples < Capacity THEN head + FrameSamples
                      ELSE head + FrameSamples - Capacity
           /\ count' \in 0..Capacity
           /\ count' = IF count + FrameSamples < Capacity THEN count + FrameSamples ELSE Capacity
<1>1. /\ head \in 0..(Capacity - 1) /\ count \in 0..Capacity
      /\ Capacity \in Nat \ {0} /\ FrameSamples \in 1..Capacity
  BY Sizes DEF TypeOK, Slot
<1> DEFINE x == head + FrameSamples
<1>2. x \in 0..(2 * Capacity - 1)
  BY <1>1
<1>3. head' = x % Capacity /\ count' = Smaller(count + FrameSamples, Capacity)
  BY DEF PushFrame, Advance
<1> HIDE DEF x
<1>4. x % Capacity = IF x < Capacity THEN x ELSE x - Capacity
  BY <1>1, <1>2, WrapsOnce
<1>5. head' = IF head + FrameSamples < Capacity THEN head + FrameSamples
              ELSE head + FrameSamples - Capacity
  BY <1>1, <1>3, <1>4 DEF x
<1>6. count' = IF count + FrameSamples < Capacity THEN count + FrameSamples ELSE Capacity
  BY <1>1, <1>3 DEF Smaller
<1>7. head' \in Slot
  BY <1>1, <1>5 DEF Slot
<1>8. count' \in 0..Capacity
  BY <1>1, <1>6
<1> QED
  BY <1>5, <1>6, <1>7, <1>8

\* Each slot holds the frame's sample if the frame reached it, and its own otherwise.
LEMMA PushSlot ==
    ASSUME TypeOK, PushFrame,
           NEW frame,
           ring' = [s \in Slot |->
                       LET k == (s + Capacity - head) % Capacity IN
                       IF k < FrameSamples THEN frame[k + 1] ELSE ring[s]],
           NEW s \in Slot
    PROVE  LET k == IF s < head THEN s + Capacity - head ELSE s - head
           IN  ring'[s] = IF k < FrameSamples THEN frame[k + 1] ELSE ring[s]
<1>1. head \in 0..(Capacity - 1) /\ Capacity \in Nat \ {0} /\ s \in 0..(Capacity - 1)
  BY Sizes DEF TypeOK, Slot
<1> DEFINE x == s + Capacity - head
           k == x % Capacity
<1>2. x \in 0..(2 * Capacity - 1)
  BY <1>1
<1>3. ring'[s] = IF k < FrameSamples THEN frame[k + 1] ELSE ring[s]
  OBVIOUS
<1> HIDE DEF x
<1>4. k = IF x < Capacity THEN x ELSE x - Capacity
  BY <1>1, <1>2, WrapsOnce
<1> HIDE DEF k
<1>5. k = IF s < head THEN s + Capacity - head ELSE s - head
  BY <1>1, <1>4 DEF x
<1> QED
  BY <1>3, <1>5

\* The newest samples, by their age, after a frame.
Kept(frame) ==
    LET s == newest \o frame
    IN  SubSeq(s, Len(s) - Smaller(Len(s), Capacity) + 1, Len(s))

LEMMA PushNewest ==
    ASSUME TypeOK, count = Len(newest), PushFrame,
           NEW frame \in [1..FrameSamples -> Raw], newest' = Kept(frame)
    PROVE  /\ newest' \in Seq(Raw) /\ Len(newest') = count'
           /\ \A i \in 0..(count' - 1) :
                 LET j == i + count + FrameSamples - count'
                 IN  newest'[i + 1] = IF j < count THEN newest[j + 1] ELSE frame[j - count + 1]
<1> DEFINE s == newest \o frame
           m == count + FrameSamples - count' + 1
           n == count + FrameSamples
<1>1. /\ FrameSamples \in Nat \ {0} /\ Capacity \in Nat /\ count \in 0..Capacity
      /\ newest \in Seq(Raw) /\ count' \in 0..Capacity /\ count' <= n
      /\ count' = Smaller(n, Capacity)
  BY Sizes, PushCounts DEF TypeOK, Smaller
<1>2. frame \in Seq(Raw) /\ Len(frame) = FrameSamples
  BY <1>1
<1>3. /\ s \in Seq(Raw) /\ Len(s) = n
      /\ \A i \in 1..n : s[i] = IF i <= count THEN newest[i] ELSE frame[i - count]
  BY <1>1, <1>2, ConcatProperties
<1> HIDE DEF s
<1>4. newest' = SubSeq(s, m, n)
  <2>1. newest' = SubSeq(s, Len(s) - Smaller(Len(s), Capacity) + 1, Len(s))
    BY DEF s, Kept
  <2>2. Len(s) - Smaller(Len(s), Capacity) + 1 = m
    BY <1>1, <1>3 DEF Smaller
  <2> QED
    BY <1>3, <2>1, <2>2
<1>5. m \in Int /\ n \in Int /\ m >= 1 /\ n - m + 1 = count' /\ (m <= n \/ count' = 0)
  BY <1>1
<1>6. \A i \in m..n : s[i] \in Raw
  BY <1>3, <1>5
<1>7. /\ SubSeq(s, m, n) \in Seq(Raw)
      /\ Len(SubSeq(s, m, n)) = IF m <= n THEN n - m + 1 ELSE 0
      /\ \A i \in 1..(n - m + 1) : SubSeq(s, m, n)[i] = s[m + i - 1]
  BY <1>5, <1>6, SubSeqProperties
<1>8. Len(newest') = count'
  BY <1>1, <1>4, <1>5, <1>7
<1>9. ASSUME NEW i \in 0..(count' - 1)
      PROVE  LET j == i + count + FrameSamples - count'
             IN  newest'[i + 1] = IF j < count THEN newest[j + 1] ELSE frame[j - count + 1]
  <2>1. i + 1 \in 1..(n - m + 1)
    BY <1>1, <1>5
  <2>2. newest'[i + 1] = s[m + (i + 1) - 1]
    BY <1>4, <1>7, <2>1
  <2> DEFINE j == i + count + FrameSamples - count'
  <2>3. m + (i + 1) - 1 = j + 1 /\ j + 1 \in 1..n /\ j \in Int
    <3>1. i \in Nat /\ count' \in Nat /\ i < count' /\ count \in Nat /\ FrameSamples \in Nat
      BY <1>1
    <3>2. count' <= count + FrameSamples
      BY <1>1
    <3>3. j \in Int /\ j >= 0 /\ j < n /\ n \in Int
      BY <3>1, <3>2
    <3>4. m + (i + 1) - 1 = j + 1
      BY <3>1
    <3> QED
      BY <3>3, <3>4
  <2> HIDE DEF j, m, n
  <2>4. s[j + 1] = IF j + 1 <= count THEN newest[j + 1] ELSE frame[j + 1 - count]
    BY <1>3, <2>3
  <2>5. j + 1 - count = j - count + 1 /\ (j + 1 <= count <=> j < count)
    BY <1>1, <2>3
  <2>6. newest'[i + 1] = IF j < count THEN newest[j + 1] ELSE frame[j - count + 1]
    BY <2>2, <2>3, <2>4, <2>5
  <2> QED
    BY <2>6 DEF j
<1> QED
  BY <1>4, <1>7, <1>8, <1>9

\* A frame keeps the ring the newest samples.
LEMMA PushRing ==
    ASSUME TypeOK, RingHoldsNewest, PushFrame
    PROVE  RingHoldsNewest' /\ newest' \in Seq(Raw) /\ ring' \in [Slot -> Raw \union {0}]
<1>1. PICK frame \in [1..FrameSamples -> Raw] :
         /\ ring' = [s \in Slot |->
                       LET k == (s + Capacity - head) % Capacity IN
                       IF k < FrameSamples THEN frame[k + 1] ELSE ring[s]]
         /\ newest' = Kept(frame)
  BY DEF PushFrame, Kept
<1>2. /\ head \in 0..(Capacity - 1) /\ count \in 0..Capacity
      /\ Capacity \in Nat \ {0} /\ FrameSamples \in 1..Capacity
      /\ ring \in [Slot -> Raw \union {0}]
  BY Sizes DEF TypeOK, Slot
<1>3. /\ head' \in 0..(Capacity - 1) /\ count' \in 0..Capacity
      /\ head' = IF head + FrameSamples < Capacity THEN head + FrameSamples
                 ELSE head + FrameSamples - Capacity
      /\ count' = IF count + FrameSamples < Capacity THEN count + FrameSamples ELSE Capacity
  BY PushCounts DEF Slot
<1>4. ring' \in [Slot -> Raw \union {0}]
  <2>1. ASSUME NEW s \in Slot PROVE ring'[s] \in Raw \union {0}
    <3> DEFINE k == IF s < head THEN s + Capacity - head ELSE s - head
    <3>1. ring'[s] = IF k < FrameSamples THEN frame[k + 1] ELSE ring[s]
      BY <1>1, PushSlot
    <3>2. k \in Nat
      BY <1>2 DEF Slot
    <3> HIDE DEF k
    <3>3. k < FrameSamples => k + 1 \in 1..FrameSamples
      BY <1>2, <3>2
    <3>4. ring[s] \in Raw \union {0}
      BY <1>2
    <3> QED
      BY <3>1, <3>3, <3>4
  <2> QED
    BY <1>1, <2>1
<1>5. /\ newest' \in Seq(Raw) /\ Len(newest') = count'
      /\ \A i \in 0..(count' - 1) :
            LET j == i + count + FrameSamples - count'
            IN  newest'[i + 1] = IF j < count THEN newest[j + 1] ELSE frame[j - count + 1]
  BY <1>1, PushNewest DEF RingHoldsNewest
<1>6. ASSUME NEW i \in Nat, i < count'
      PROVE  (Sample(i))' = newest'[i + 1]
  <2> DEFINE s == IF head' - count' + i >= 0 THEN head' - count' + i
                  ELSE head' - count' + i + Capacity
             k == IF s < head THEN s + Capacity - head ELSE s - head
             j == i + count + FrameSamples - count'
  <2>1. i \in Nat /\ i < count' /\ i <= Capacity
    BY <1>2, <1>3, <1>6
  <2>2. s \in 0..(Capacity - 1)
    BY <1>2, <1>3, <2>1
  <2>3. (HistoryIndex(i))' = s
    <3>1. head' \in Slot /\ count' \in 0..Capacity
      BY <1>3 DEF Slot
    <3> QED
      BY <2>1, <3>1, SlotOf DEF HistoryIndex
  <2>4. (Sample(i))' = ring'[s]
    BY <2>1, <2>3 DEF Sample
  <2>5. ring'[s] = IF k < FrameSamples THEN frame[k + 1] ELSE ring[s]
    <3>1. s \in Slot
      BY <2>2 DEF Slot
    <3> HIDE DEF s
    <3> QED
      BY <1>1, <3>1, PushSlot
  <2>6. newest'[i + 1] = IF j < count THEN newest[j + 1] ELSE frame[j - count + 1]
    <3>1. i \in 0..(count' - 1)
      BY <1>2, <1>3, <1>6
    <3> QED
      BY <1>5, <3>1, Zenon
  <2>7. j \in Nat
    BY <1>2, <1>3, <2>1
  <2>8. CASE j < count
    <3>1. ~(k < FrameSamples)
      BY <1>2, <1>3, <2>1, <2>8
    <3>2. s = IF head - count + j >= 0 THEN head - count + j ELSE head - count + j + Capacity
      BY <1>2, <1>3, <2>1, <2>8
    <3> HIDE DEF s, k, j
    <3>3. Sample(j) = ring[s]
      BY <2>7, <2>8, <3>2, SampleSlot
    <3>4. Sample(j) = newest[j + 1]
      <4>1. j \in 0..(count - 1)
        BY <1>2, <2>7, <2>8
      <4> QED
        BY <4>1 DEF RingHoldsNewest
    <3> QED
      BY <2>4, <2>5, <2>6, <2>8, <3>1, <3>3, <3>4
  <2>9. CASE ~(j < count)
    <3>1. k < FrameSamples /\ k = j - count
      BY <1>2, <1>3, <2>1, <2>9
    <3> HIDE DEF s, k, j
    <3> QED
      BY <2>4, <2>5, <2>6, <2>9, <3>1
  <2> QED
    BY <2>8, <2>9
<1>7. RingHoldsNewest'
  <2>1. \A i \in 0..(count' - 1) : i \in Nat /\ i < count'
    BY <1>2, <1>3
  <2> QED
    BY <1>5, <1>6, <2>1 DEF RingHoldsNewest
<1> QED
  BY <1>4, <1>5, <1>7

-----------------------------------------------------------------------------
(* The view.                                                               *)

\* Its window is part of the history.
LEMMA WindowFits ==
    ASSUME TypeOK, count >= 2
    PROVE  ViewWindow \in 1..count
BY Sizes DEF TypeOK, ViewWindow

\* Bounded sets of integers have their extremes.
LEMMA Lowest ==
    ASSUME NEW S, S # {}, S \subseteq Int, NEW b \in Int, \A x \in S : b <= x
    PROVE  \E x \in S : \A y \in S : x <= y
<1> DEFINE T == {x - b : x \in S}
<1>1. T \subseteq Nat /\ T # {}
  <2>1. \A x \in S : x - b \in Nat
    OBVIOUS
  <2> QED
    BY <2>1, Zenon
<1>2. PICK m \in T : \A n \in T : m <= n
  <2> HIDE DEF T
  <2> QED
    BY <1>1, Least
<1>3. PICK x \in S : m = x - b
  OBVIOUS
<1>4. ASSUME NEW y \in S PROVE x <= y
  <2>1. y - b \in T /\ x \in Int /\ y \in Int
    OBVIOUS
  <2> HIDE DEF T
  <2> QED
    BY <1>2, <1>3, <2>1
<1> HIDE DEF T
<1> QED
  BY <1>4, Zenon

LEMMA Highest ==
    ASSUME NEW S, S # {}, S \subseteq Int, NEW b \in Int, \A x \in S : x <= b
    PROVE  \E x \in S : \A y \in S : y <= x
<1> DEFINE T == {b - x : x \in S}
<1>1. T \subseteq Nat /\ T # {}
  <2>1. \A x \in S : b - x \in Nat
    OBVIOUS
  <2> QED
    BY <2>1, Zenon
<1>2. PICK m \in T : \A n \in T : m <= n
  <2> HIDE DEF T
  <2> QED
    BY <1>1, Least
<1>3. PICK x \in S : m = b - x
  OBVIOUS
<1>4. ASSUME NEW y \in S PROVE y <= x
  <2>1. b - y \in T /\ x \in Int /\ y \in Int
    OBVIOUS
  <2> HIDE DEF T
  <2> QED
    BY <1>2, <1>3, <2>1
<1> HIDE DEF T
<1> QED
  BY <1>4, Zenon

\* Samples are of 16 bits, so any number of them has both.
LEMMA Extremes ==
    ASSUME NEW S, S \subseteq Raw \union {0}, S # {}
    PROVE  /\ S \subseteq Int
           /\ \E x \in S : \A y \in S : x <= y
           /\ \E x \in S : \A y \in S : y <= x
<1> DEFINE a == -32768
           b == 32767
<1>1. S \subseteq Int
  BY RawAssumption
<1>2. a \in Int /\ b \in Int /\ \A x \in S : a <= x /\ x <= b
  BY RawAssumption
<1> HIDE DEF a, b
<1>3. \E x \in S : \A y \in S : x <= y
  BY <1>1, <1>2, Lowest
<1>4. \E x \in S : \A y \in S : y <= x
  BY <1>1, <1>2, Highest
<1> QED
  BY <1>1, <1>3, <1>4

LEMMA LevelType ==
    ASSUME TypeOK, count >= 2
    PROVE  TriggerLevel(count - ViewWindow, ViewWindow) \in Int
<1> DEFINE w == ViewWindow
           S == {Sample(i) : i \in (count - w)..(Smaller((count - w) + w, count) - 1)}
<1>1. count \in Nat /\ w \in 1..count
  BY WindowFits, Sizes DEF TypeOK
<1> HIDE DEF w
<1>2. Smaller((count - w) + w, count) = count
  BY <1>1 DEF Smaller
<1>3. S = {Sample(i) : i \in (count - w)..(count - 1)}
  BY <1>2
<1>4. \A i \in (count - w)..(count - 1) : Sample(i) \in Raw \union {0}
  <2> SUFFICES ASSUME NEW i \in (count - w)..(count - 1) PROVE Sample(i) \in Raw \union {0}
    OBVIOUS
  <2>1. i \in Nat /\ i < count
    BY <1>1
  <2> QED
    BY <2>1, SampleSlot
<1>5. S \subseteq Raw \union {0}
  BY <1>3, <1>4
<1>6. S # {}
  <2>1. count - 1 \in (count - w)..(count - 1)
    BY <1>1
  <2> QED
    BY <1>3, <2>1
<1> DEFINE lo == CHOOSE x \in S : \A y \in S : x <= y
           hi == CHOOSE x \in S : \A y \in S : y <= x
<1> HIDE DEF S
<1>7. lo \in S /\ hi \in S /\ S \subseteq Int
  BY <1>5, <1>6, Extremes
<1>8. lo \in Int /\ hi \in Int
  BY <1>7, Zenon
<1>9. TriggerLevel(count - w, w) = Half(lo + hi)
  BY DEF TriggerLevel, S
<1> HIDE DEF lo, hi
<1>10. Half(lo + hi) \in Int
  BY <1>8 DEF Half
<1> QED
  BY <1>9, <1>10 DEF w

\* The search reports the first index that qualifies.
LEMMA FirstCrossing ==
    ASSUME TypeOK, NEW l
    PROVE  LET t == FindTrigger(l)
           IN  \/ t = -1 /\ \A i \in 1..(count - 1) : ~Crosses(i, l)
               \/ /\ t \in 1..(count - 1) /\ Crosses(t, l)
                  /\ \A i \in 1..(t - 1) : ~Crosses(i, l)
<1> DEFINE C == {i \in 1..(count - 1) : Crosses(i, l)}
<1>1. count \in Nat
  BY Sizes DEF TypeOK
<1>2. CASE C = {}
  BY <1>2 DEF FindTrigger
<1>3. CASE C # {}
  <2>1. C \subseteq Nat
    BY <1>1
  <2> DEFINE t == CHOOSE i \in C : \A j \in C : i <= j
  <2>2. t \in C /\ \A j \in C : t <= j
    <3> HIDE DEF C
    <3> QED
      BY <1>3, <2>1, Least
  <2>3. FindTrigger(l) = t
    BY <1>3 DEF FindTrigger
  <2> HIDE DEF t
  <2>4. ASSUME NEW i \in 1..(t - 1) PROVE ~Crosses(i, l)
    <3>1. i \in 1..(count - 1) /\ ~(t <= i)
      BY <1>1, <2>2
    <3> QED
      BY <2>2, <3>1
  <2> QED
    BY <2>2, <2>3, <2>4
<1> QED
  BY <1>2, <1>3

\* The part of the window before the trigger is shorter than the window.
LEMMA PreFits ==
    ASSUME NEW w \in Nat \ {0}
    PROVE  (w * PrePoints) \div Points \in 0..(w - 1)
<1>1. Points \in Nat \ {0} /\ PrePoints \in Nat /\ PrePoints < Points
  BY Sizes
<1>2. w * PrePoints \in Nat /\ Points * w \in Nat /\ w * PrePoints < Points * w
  BY <1>1
<1>3. (w * PrePoints) \div Points \in Nat
  BY <1>1, <1>2, QuotientAtLeast
<1>4. ~(w <= (w * PrePoints) \div Points)
  BY <1>1, <1>2, QuotientAtLeast
<1> QED
  BY <1>3, <1>4

\* The window lies in the history, with the trigger in it.
LEMMA StartFits ==
    ASSUME TypeOK, NEW w \in 1..count, NEW t \in -1..(count - 1)
    PROVE  LET s == ViewStart(t, w)
           IN  s \in 0..(count - w) /\ (t >= 0 => s <= t /\ t < s + w)
<1> DEFINE pre == (w * PrePoints) \div Points
<1>1. count \in Nat /\ w \in Nat \ {0}
  BY Sizes DEF TypeOK
<1>2. pre \in 0..(w - 1)
  BY <1>1, PreFits
<1> HIDE DEF pre
<1>3. ViewStart(t, w) =
         IF t < 0 \/ (IF t > pre THEN t - pre ELSE 0) + w > count THEN count - w
         ELSE IF t > pre THEN t - pre ELSE 0
  BY DEF ViewStart, pre
<1> QED
  BY <1>1, <1>2, <1>3

-----------------------------------------------------------------------------
(* The columns.                                                            *)

InHistory ==
    /\ count \in Nat /\ start \in Nat /\ window \in Nat \ {0}
    /\ start + window <= count

\* Each column shows at least one sample, all of them of the window.
LEMMA ColumnEnds ==
    ASSUME InHistory, NEW c \in 0..(Points - 1)
    PROVE  LET a == (window * c) \div Points
               b == (window * (c + 1)) \div Points
           IN  /\ a \in 0..(window - 1) /\ b \in 0..window
               /\ ColumnFrom(c) = start + a
               /\ ColumnTo(c) = start + (IF b <= a THEN a + 1 ELSE b)
<1> DEFINE a == (window * c) \div Points
           b == (window * (c + 1)) \div Points
<1>1. /\ Points \in Nat \ {0} /\ c \in Nat /\ c + 1 <= Points
      /\ window \in Nat \ {0} /\ count \in Nat /\ start \in Nat /\ start + window <= count
  BY Sizes DEF InHistory
<1>2. /\ window * c \in Nat /\ window * (c + 1) \in Nat
      /\ window * (c + 1) = window * c + window
      /\ window * (c + 1) <= Points * window /\ Points * window \in Nat
      /\ Points * (window + 1) = Points * window + Points
  BY <1>1
<1>3. a \in Nat /\ b \in Nat
  BY <1>1, <1>2, QuotientAtLeast
<1>4. ~(window <= a)
  BY <1>1, <1>2, QuotientAtLeast
<1>5. ~(window + 1 <= b)
  <2>1. ~(Points * (window + 1) <= window * (c + 1))
    BY <1>1, <1>2
  <2>2. window + 1 \in Int
    BY <1>1
  <2> QED
    BY <1>1, <1>2, <2>1, <2>2, QuotientAtLeast
<1>6. ColumnFrom(c) = start + a
  BY DEF ColumnFrom
<1>7. ColumnTo(c) = Smaller(IF start + b <= start + a THEN start + a + 1 ELSE start + b, count)
  BY DEF ColumnTo, ColumnFrom
<1> HIDE DEF a, b
<1>8. ColumnTo(c) = start + (IF b <= a THEN a + 1 ELSE b)
  BY <1>1, <1>3, <1>4, <1>5, <1>7 DEF Smaller
<1> QED
  BY <1>1, <1>3, <1>4, <1>5, <1>6, <1>8 DEF a, b

\* The column of a sample: the last that starts at it or before.
LEMMA ColumnOf ==
    ASSUME InHistory, NEW y \in 0..(window - 1)
    PROVE  LET c == (Points * (y + 1) - 1) \div window
           IN  c \in 0..(Points - 1) /\ start + y \in ColumnFrom(c)..(ColumnTo(c) - 1)
<1> DEFINE n == Points * (y + 1) - 1
           c == n \div window
<1>1. Points \in Nat \ {0} /\ window \in Nat \ {0} /\ y \in Nat /\ y < window /\ start \in Nat
  BY Sizes DEF InHistory
<1>2. /\ n \in Nat /\ n = Points * y + Points - 1 /\ Points * y \in Nat
      /\ n < window * Points /\ window * Points \in Nat
  <2>1. Points * (y + 1) <= Points * window /\ Points * (y + 1) = Points * y + Points
    BY <1>1
  <2> QED
    BY <1>1, <2>1
<1> HIDE DEF n
<1>3. c \in Nat /\ ~(Points <= c) /\ window * c <= n /\ ~(window * (c + 1) <= n)
  <2>1. c \in Nat /\ ~(Points <= c)
    BY <1>1, <1>2, QuotientAtLeast
  <2>2. c \in Int /\ c + 1 \in Int /\ c <= c /\ ~(c + 1 <= c)
    BY <2>1
  <2>3. window * c <= n
    BY <1>1, <1>2, <2>2, QuotientAtLeast
  <2>4. ~(window * (c + 1) <= n)
    BY <1>1, <1>2, <2>2, QuotientAtLeast
  <2> QED
    BY <2>1, <2>3, <2>4
<1> HIDE DEF c
<1> DEFINE a == (window * c) \div Points
           b == (window * (c + 1)) \div Points
<1>4. c \in 0..(Points - 1) /\ window * c \in Nat /\ window * (c + 1) \in Nat
  BY <1>1, <1>3
<1>5. a \in Nat /\ ~(y + 1 <= a)
  <2>1. ~(Points * (y + 1) <= window * c)
    BY <1>1, <1>2, <1>3, <1>4
  <2>2. y + 1 \in Int
    BY <1>1
  <2> QED
    BY <1>1, <1>4, <2>1, <2>2, QuotientAtLeast
<1>6. y + 1 <= b /\ b \in Nat
  <2>1. Points * (y + 1) <= window * (c + 1)
    BY <1>1, <1>2, <1>3, <1>4
  <2>2. y + 1 \in Int
    BY <1>1
  <2> QED
    BY <1>1, <1>4, <2>1, <2>2, QuotientAtLeast
<1>7. /\ ColumnFrom(c) = start + a
      /\ ColumnTo(c) = start + (IF b <= a THEN a + 1 ELSE b)
  BY <1>4, ColumnEnds
<1> HIDE DEF a, b
<1>8. start + y \in ColumnFrom(c)..(ColumnTo(c) - 1)
  BY <1>1, <1>5, <1>6, <1>7
<1> QED
  BY <1>4, <1>8 DEF c, n

LEMMA ColumnsCover ==
    ASSUME InHistory
    PROVE  /\ \A c \in 0..(Points - 1) : ColumnFrom(c) < ColumnTo(c)
           /\ UNION {ColumnFrom(c)..(ColumnTo(c) - 1) : c \in 0..(Points - 1)}
                = start..(start + window - 1)
<1>1. start \in Nat /\ window \in Nat \ {0}
  BY DEF InHistory
<1>2. ASSUME NEW c \in 0..(Points - 1)
      PROVE  /\ ColumnFrom(c) \in Int /\ ColumnTo(c) \in Int /\ ColumnFrom(c) < ColumnTo(c)
             /\ start <= ColumnFrom(c) /\ ColumnTo(c) <= start + window
  <2> DEFINE a == (window * c) \div Points
             b == (window * (c + 1)) \div Points
  <2>1. /\ a \in 0..(window - 1) /\ b \in 0..window
        /\ ColumnFrom(c) = start + a
        /\ ColumnTo(c) = start + (IF b <= a THEN a + 1 ELSE b)
    BY ColumnEnds
  <2> HIDE DEF a, b
  <2> QED
    BY <1>1, <2>1
<1>3. ASSUME NEW c \in 0..(Points - 1), NEW x \in ColumnFrom(c)..(ColumnTo(c) - 1)
      PROVE  x \in start..(start + window - 1)
  BY <1>1, <1>2
<1>4. ASSUME NEW x \in start..(start + window - 1)
      PROVE  \E c \in 0..(Points - 1) : x \in ColumnFrom(c)..(ColumnTo(c) - 1)
  <2>1. x - start \in 0..(window - 1) /\ start + (x - start) = x
    BY <1>1
  <2> QED
    BY <2>1, ColumnOf
<1> QED
  BY <1>2, <1>3, <1>4

\* The marker of a sample of the window.
LEMMA MarkerColumn ==
    ASSUME InHistory, NEW t \in start..(start + window - 1)
    PROVE  LET x == ScreenX(t, start, window)
           IN  /\ x \in 0..(Points - 1)
               /\ \E c \in {x, x + 1} :
                     c < Points /\ t \in ColumnFrom(c)..(ColumnTo(c) - 1)
<1> DEFINE y == t - start
           x == (y * Points) \div window
<1>1. /\ Points \in Nat \ {0} /\ window \in Nat \ {0} /\ start \in Nat /\ t \in Int
      /\ y \in 0..(window - 1) /\ start + y = t
  BY Sizes DEF InHistory
<1>2. ScreenX(t, start, window) = x
  BY <1>1 DEF ScreenX
<1> HIDE DEF y
<1>3. /\ y * Points \in Nat /\ y * Points = Points * y /\ window * Points \in Nat
      /\ Points * (y + 1) = Points * y + Points /\ Points * (y + 1) <= window * Points
  BY <1>1
<1>4. /\ x \in Nat /\ ~(Points <= x)
      /\ window * x <= y * Points /\ ~(window * (x + 1) <= y * Points)
  <2>1. x \in Nat /\ ~(Points <= x)
    BY <1>1, <1>3, QuotientAtLeast
  <2>2. x \in Int /\ x + 1 \in Int /\ x <= x /\ ~(x + 1 <= x)
    BY <2>1
  <2>3. window * x <= y * Points
    BY <1>1, <1>3, <2>2, QuotientAtLeast
  <2>4. ~(window * (x + 1) <= y * Points)
    BY <1>1, <1>3, <2>2, QuotientAtLeast
  <2> QED
    BY <2>1, <2>3, <2>4
<1> HIDE DEF x
<1>5. /\ window * x \in Nat /\ window * (x + 1) = window * x + window
      /\ window * (x + 2) = window * x + 2 * window
  BY <1>1, <1>4
<1>6. CASE Points <= window
  <2> DEFINE n == Points * (y + 1) - 1
             c == n \div window
  <2>1. c \in 0..(Points - 1) /\ t \in ColumnFrom(c)..(ColumnTo(c) - 1)
    BY <1>1, ColumnOf
  <2>2. n \in Nat /\ n = y * Points + Points - 1
    BY <1>1, <1>3
  <2> HIDE DEF n
  <2>3. x <= c
    <3>1. x \in Int /\ window * x <= n
      BY <1>1, <1>3, <1>4, <1>5, <2>2
    <3> QED
      BY <1>1, <2>2, <3>1, QuotientAtLeast
  <2>4. ~(x + 2 <= c)
    <3>1. x + 2 \in Int /\ ~(window * (x + 2) <= n)
      BY <1>1, <1>3, <1>4, <1>5, <1>6, <2>2
    <3> QED
      BY <1>1, <2>2, <3>1, QuotientAtLeast
  <2> HIDE DEF c
  <2>5. c \in {x, x + 1} /\ c < Points
    BY <1>1, <1>4, <2>1, <2>3, <2>4
  <2> QED
    BY <1>2, <1>1, <1>4, <2>1, <2>5
<1>7. CASE Points > window
  <2> DEFINE c == x + 1
             a == (window * c) \div Points
             b == (window * (c + 1)) \div Points
  <2>1. c \in 0..(Points - 1)
    <3>1. x <= Points - 2 \/ x = Points - 1
      BY <1>1, <1>4
    <3>2. x # Points - 1
      <4>1. window * (Points - 1) = window * Points - window
        BY <1>1
      <4> QED
        BY <1>1, <1>3, <1>4, <1>7, <4>1
    <3> QED
      BY <1>1, <1>4, <3>1, <3>2
  <2>2. /\ window * c \in Nat
        /\ Points * y <= window * c /\ ~(Points * (y + 1) <= window * c)
    BY <1>1, <1>3, <1>4, <1>5, <1>7
  <2>3. y \in Int /\ y + 1 \in Int
    BY <1>1
  <2>4. y <= a
    BY <1>1, <2>2, <2>3, QuotientAtLeast
  <2>5. ~(y + 1 <= a)
    BY <1>1, <2>2, <2>3, QuotientAtLeast
  <2>6. /\ a \in 0..(window - 1) /\ b \in 0..window /\ ColumnFrom(c) = start + a
        /\ ColumnTo(c) = start + (IF b <= a THEN a + 1 ELSE b)
    BY <2>1, ColumnEnds
  <2> HIDE DEF a, b
  <2>7. a = y
    BY <2>3, <2>4, <2>5, <2>6
  <2> HIDE DEF c
  <2>8. t \in ColumnFrom(c)..(ColumnTo(c) - 1)
    BY <1>1, <2>6, <2>7
  <2>9. c \in {x, x + 1} /\ c < Points
    BY <1>1, <2>1 DEF c
  <2> QED
    BY <1>2, <1>1, <1>4, <2>8, <2>9
<1> QED
  BY <1>1, <1>6, <1>7

-----------------------------------------------------------------------------
(* The invariant.                                                          *)

LEMMA InitInv == Init => IInv
<1> SUFFICES ASSUME Init PROVE IInv
  OBVIOUS
<1>1. TypeOK
  BY Sizes, EmptySeq DEF Init, TypeOK, Slot
<1>2. RingHoldsNewest
  BY EmptySeq DEF Init, RingHoldsNewest
<1>3. ViewInv
  BY DEF Init, ViewInv
<1> QED
  BY <1>1, <1>2, <1>3 DEF IInv

LEMMA PushInv == ASSUME IInv, PushFrame PROVE IInv'
<1>1. RingHoldsNewest' /\ newest' \in Seq(Raw) /\ ring' \in [Slot -> Raw \union {0}]
  BY PushRing DEF IInv
<1>2. head' \in Slot /\ count' \in 0..Capacity
  BY PushCounts DEF IInv
<1>3. fresh' = FALSE /\ UNCHANGED <<edge, viewVars>>
  BY DEF PushFrame
<1>4. TypeOK'
  BY <1>1, <1>2, <1>3 DEF IInv, TypeOK, viewVars
<1> QED
  BY <1>1, <1>3, <1>4 DEF IInv, ViewInv

\* How far into the window the trigger is.
LEMMA Distance ==
    ASSUME NEW s \in Nat, NEW t \in Int, NEW w \in Nat \ {0},
           ~(t < s), t >= 0 => s <= t /\ t < s + w
    PROVE  t - s \in Nat /\ t - s < w
OBVIOUS

\* A part of the window is a part of the screen.
LEMMA ShareFits ==
    ASSUME NEW w \in Nat \ {0}, NEW d \in Nat, d < w
    PROVE  (d * Points) \div w \in 0..(Points - 1)
<1> DEFINE n == d * Points
           q == n \div w
<1>1. Points \in Nat \ {0} /\ Points \in Int
  BY Sizes
<1>2. n \in Nat /\ ~(w * Points <= n)
  BY <1>1
<1> HIDE DEF n
<1>3. q \in Nat /\ (Points <= q <=> w * Points <= n)
  BY <1>1, <1>2, QuotientAtLeast
<1> HIDE DEF q
<1>4. q \in 0..(Points - 1)
  BY <1>1, <1>2, <1>3
<1> QED
  BY <1>4 DEF q, n

\* What a build leaves in the view.
LEMMA BuildType ==
    ASSUME TypeOK, BuildView
    PROVE  TypeOK'
<1>1. count >= 2 /\ count \in 0..Capacity /\ Capacity \in Nat
  BY Sizes DEF BuildView, TypeOK
<1>2. window' = ViewWindow /\ window' \in 1..count
  BY <1>1, WindowFits DEF BuildView
<1>3. level' \in Int
  BY <1>1, LevelType DEF BuildView
<1>4. trigger' \in -1..(count - 1)
  <2>1. trigger' = FindTrigger(level')
    BY DEF BuildView
  <2> QED
    BY <1>1, <2>1, FirstCrossing
<1>5. /\ start' \in 0..(count - window')
      /\ trigger' >= 0 => start' <= trigger' /\ trigger' < start' + window'
  BY <1>2, <1>4, StartFits DEF BuildView
<1>6. screenX' \in -1..(Points - 1)
  <2>1. CASE trigger' < start'
    BY <2>1, Sizes DEF BuildView, ScreenX
  <2>2. CASE ~(trigger' < start')
    <3> DEFINE w == window'
               d == trigger' - start'
    <3>1. count \in Nat
      BY <1>1
    <3>2. w \in Nat \ {0} /\ w <= count
      BY <1>2, <3>1
    <3>3. start' \in Nat
      BY <1>5, <3>1, <3>2
    <3>4. trigger' \in Int
      BY <1>4, <3>1
    <3>5. d \in Nat /\ d < w
      BY <1>5, <2>2, <3>2, <3>3, <3>4, Distance
    <3>7. screenX' = (d * Points) \div w
      BY <2>2 DEF BuildView, ScreenX
    <3> HIDE DEF w, d
    <3>8. (d * Points) \div w \in 0..(Points - 1)
      BY <3>2, <3>5, ShareFits
    <3> QED
      BY <3>7, <3>8, Sizes
  <2> QED
    BY <2>1, <2>2
<1>7. UNCHANGED <<ring, head, count, edge, newest>> /\ fresh' \in BOOLEAN
  BY DEF BuildView, ringVars
<1>8. start' \in 0..Capacity /\ window' \in 0..Capacity /\ trigger' \in -1..Capacity
  BY <1>1, <1>2, <1>4, <1>5
<1> QED
  BY <1>3, <1>6, <1>7, <1>8 DEF TypeOK

LEMMA BuildInv == ASSUME IInv, BuildView PROVE IInv'
<1>1. TypeOK'
  BY BuildType DEF IInv
<1>2. UNCHANGED <<ring, head, count, edge, newest>>
  BY DEF BuildView, ringVars
<1>3. RingHoldsNewest'
  BY <1>2 DEF IInv, RingHoldsNewest, Sample, HistoryIndex
<1>4. (ViewWindow)' = ViewWindow
  BY <1>2 DEF ViewWindow
<1>5. (FindTrigger(level))' = FindTrigger(level')
  BY <1>2 DEF FindTrigger, Crosses, Sample, HistoryIndex
<1>6. (ViewStart(trigger, window))' = ViewStart(trigger', window')
  BY <1>2 DEF ViewStart
<1>7. ViewInv'
  BY <1>2, <1>4, <1>5, <1>6 DEF ViewInv, BuildView, ScreenX
<1> QED
  BY <1>1, <1>3, <1>7 DEF IInv

\* Every step of the history keeps the invariant: the ring holds the newest
\* samples in order, and a fresh view is what scope_build_view_from_history
\* computes from them.
THEOREM Inductive == Spec => []IInv
<1>1. IInv /\ [Next]_vars => IInv'
  <2> SUFFICES ASSUME IInv, [Next]_vars PROVE IInv'
    OBVIOUS
  <2>1. CASE PushFrame
    BY <2>1, PushInv
  <2>2. CASE BuildView
    BY <2>2, BuildInv
  <2>3. CASE ToggleEdge
    <3>1. /\ UNCHANGED <<ring, head, count, start, window, level, trigger, screenX, newest>>
          /\ fresh' = FALSE /\ edge' \in {"rising", "falling"}
      BY <2>3 DEF ToggleEdge, ringVars, viewVars
    <3> QED
      BY <3>1 DEF IInv, TypeOK, RingHoldsNewest, Sample, HistoryIndex, ViewInv
  <2>4. CASE UNCHANGED vars
    <3>1. /\ UNCHANGED <<ring, head, count, edge, start, window, level, trigger, screenX>>
          /\ UNCHANGED <<newest, fresh>>
      BY <2>4 DEF vars, ringVars, viewVars
    <3>2. TypeOK' /\ RingHoldsNewest'
      BY <3>1 DEF IInv, TypeOK, RingHoldsNewest, Sample, HistoryIndex
    <3>3. ViewInv'
      BY <3>1 DEF IInv, ViewInv, ViewWindow, FindTrigger, Crosses, Sample, HistoryIndex,
        ViewStart, ScreenX
    <3> QED
      BY <3>2, <3>3 DEF IInv
  <2> QED
    BY <2>1, <2>2, <2>3, <2>4 DEF Next
<1> QED
  BY InitInv, <1>1, PTL DEF Spec

-----------------------------------------------------------------------------
(* The theorems.                                                           *)

\* A fresh view's window is part of the history, and its trigger part of the window.
LEMMA FreshView ==
    ASSUME IInv, fresh
    PROVE  InHistory /\ (trigger >= 0 => trigger \in start..(start + window - 1))
<1>1. TypeOK /\ count >= 2 /\ count \in Nat
  BY Sizes DEF IInv, ViewInv, TypeOK
<1>2. window \in 1..count
  BY <1>1, WindowFits DEF IInv, ViewInv
<1>3. trigger \in -1..(count - 1)
  <2>1. trigger = FindTrigger(level)
    BY DEF IInv, ViewInv
  <2> QED
    BY <1>1, <2>1, FirstCrossing
<1>4. /\ start \in 0..(count - window)
      /\ trigger >= 0 => start <= trigger /\ trigger < start + window
  BY <1>1, <1>2, <1>3, StartFits DEF IInv, ViewInv
<1> QED
  BY <1>1, <1>2, <1>3, <1>4 DEF InHistory

\* The ring holds the newest samples in order, for every frame and ring size.
THEOREM RingCorrect == Spec => []RingHoldsNewest
BY Inductive, PTL DEF IInv

\* A view stays inside the history and its columns leave out no sample of it, for
\* every window and screen, also when there are fewer samples than columns.
THEOREM ViewCovers == Spec => []ColumnsCoverWindow
<1>1. IInv => ColumnsCoverWindow
  BY FreshView, ColumnsCover DEF ColumnsCoverWindow, InHistory
<1> QED
  BY <1>1, Inductive, PTL

\* The trigger's marker is on the screen, at the trigger's sample or next to it.
THEOREM MarkerCorrect == Spec => []MarkerAtTrigger
<1>1. IInv => MarkerAtTrigger
  <2> SUFFICES ASSUME IInv, fresh, trigger >= 0
               PROVE  /\ screenX \in 0..(Points - 1)
                      /\ \E c \in {screenX, screenX + 1} :
                            c < Points /\ trigger \in ColumnFrom(c)..(ColumnTo(c) - 1)
    BY DEF MarkerAtTrigger
  <2>1. screenX = ScreenX(trigger, start, window)
    BY DEF IInv, ViewInv
  <2> QED
    BY <2>1, FreshView, MarkerColumn
<1> QED
  BY <1>1, Inductive, PTL

\* The search in the ring finds the first edge of the samples as they were received.
THEOREM TriggerCorrect == Spec => []TriggerIsFirstEdge
<1>1. IInv => TriggerIsFirstEdge
  <2> SUFFICES ASSUME IInv PROVE TriggerIsFirstEdge
    OBVIOUS
  <2> DEFINE Steps(i) ==
               newest[IF edge = "rising" THEN i ELSE i + 1] <= level - Hysteresis
               /\ newest[IF edge = "rising" THEN i + 1 ELSE i] >= level + Hysteresis
  <2>1. count \in Nat /\ TypeOK
    BY Sizes DEF IInv, TypeOK
  <2>2. ASSUME NEW i \in 1..(count - 1) PROVE Crosses(i, level) <=> Steps(i)
    <3>1. i \in 0..(count - 1) /\ i - 1 \in 0..(count - 1) /\ (i - 1) + 1 = i
      BY <2>1
    <3>2. Sample(i) = newest[i + 1] /\ Sample(i - 1) = newest[i]
      BY <3>1 DEF IInv, RingHoldsNewest
    <3> QED
      BY <3>2 DEF Crosses
  <2>3. ASSUME fresh
        PROVE  /\ trigger >= 0 => trigger > 0 /\ Steps(trigger)
               /\ \A i \in 1..((IF trigger < 0 THEN count ELSE trigger) - 1) : ~Steps(i)
    <3>1. trigger = FindTrigger(level)
      BY <2>3 DEF IInv, ViewInv
    <3> HIDE DEF Steps
    <3>2. CASE trigger = -1 /\ \A i \in 1..(count - 1) : ~Crosses(i, level)
      BY <2>2, <3>2
    <3>3. CASE /\ trigger \in 1..(count - 1) /\ Crosses(trigger, level)
               /\ \A i \in 1..(trigger - 1) : ~Crosses(i, level)
      <4>1. trigger > 0 /\ ~(trigger < 0) /\ Steps(trigger)
        BY <2>1, <2>2, <3>3
      <4>2. ASSUME NEW i \in 1..(trigger - 1) PROVE ~Steps(i)
        <5>1. i \in 1..(count - 1)
          BY <2>1, <3>3
        <5> QED
          BY <2>2, <3>3, <5>1
      <4> QED
        BY <4>1, <4>2
    <3> QED
      BY <2>1, <3>1, <3>2, <3>3, FirstCrossing
  <2> QED
    BY <2>3 DEF TriggerIsFirstEdge
<1> QED
  BY <1>1, Inductive, PTL
=============================================================================
