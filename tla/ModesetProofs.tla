--------------------------- MODULE ModesetProofs ---------------------------
(* For any connectors, CRTCs and wirings, and whichever kernel calls fail:  *)
(* the invariants of Modeset.                                               *)
EXTENDS Modeset, SequenceTheorems, WellFoundedInduction, TLAPS

-----------------------------------------------------------------------------
(* The choice of a CRTC.                                                   *)

\* A set of naturals that is not empty has a least element.
LEMMA Least ==
    ASSUME NEW S, S \subseteq Nat, S # {}
    PROVE  \E m \in S : \A n \in S : m <= n
<1>1. PICK m \in S : \A n \in S : ~(<<n, m>> \in OpToRel(<, Nat))
  BY NatLessThanWellFounded, WFMin
<1>2. \A n \in S : ~(n < m)
  BY <1>1 DEF OpToRel
<1> QED
  BY <1>2

\* So has a set of pairs of naturals, by position.
LEMMA LeastPair ==
    ASSUME NEW C, C \subseteq Nat \X Nat, C # {}
    PROVE  \E p \in C : \A q \in C : p[1] < q[1] \/ (p[1] = q[1] /\ p[2] <= q[2])
<1> DEFINE Rows == {q[1] : q \in C}
<1>1. Rows # {} /\ Rows \subseteq Nat
  OBVIOUS
<1> HIDE DEF Rows
<1>2. PICK r \in Rows : \A n \in Rows : r <= n
  BY <1>1, Least
<1> DEFINE Columns == {q[2] : q \in {q \in C : q[1] = r}}
<1>3. Columns # {} /\ Columns \subseteq Nat
  BY <1>2 DEF Rows
<1> HIDE DEF Columns
<1>4. PICK c \in Columns : \A n \in Columns : c <= n
  BY <1>3, Least
<1>5. PICK p \in C : p[1] = r /\ p[2] = c
  BY <1>4 DEF Columns
<1>6. ASSUME NEW q \in C
      PROVE  p[1] < q[1] \/ (p[1] = q[1] /\ p[2] <= q[2])
  <2>1. r <= q[1] /\ q[1] \in Nat /\ r \in Nat
    BY <1>1, <1>2, <1>5 DEF Rows
  <2>2. q[1] = r => c <= q[2]
    BY <1>4 DEF Columns
  <2> QED
    BY <1>5, <2>1, <2>2
<1> QED
  BY <1>5, <1>6

\* modeset_find_crtc returns a CRTC no listed device has, or fails.
LEMMA FindCrtcFree ==
    ASSUME TypeOK, NEW conn \in Conn, NEW answering \in SUBSET Encoders, NEW found \in BOOLEAN,
           found => wiring.encoder[conn] # NoEncoder
    PROVE  LET c == FindCrtc(conn, found, answering)
           IN  c = NoCrtc \/ (c \in Crtc /\ ~InUse(c))
<1> DEFINE e == wiring.encoder[conn]
           C == Candidates(conn, answering)
           First(p) == \A q \in C : p[1] < q[1] \/ (p[1] = q[1] /\ p[2] <= q[2])
<1>1. /\ wiring.encoder \in [Conn -> Encoders \union {NoEncoder}]
      /\ wiring.crtc \in [Encoders -> Crtc \union {NoCrtc}]
      /\ wiring.encoders \in [Conn -> Seq(Encoders)]
  BY WiringAssumption DEF TypeOK
<1>2. CASE found /\ wiring.crtc[e] # NoCrtc /\ ~InUse(wiring.crtc[e])
  <2>1. wiring.crtc[e] \in Crtc
    BY <1>1, <1>2
  <2> QED
    BY <1>2, <2>1 DEF FindCrtc
<1>3. CASE ~(found /\ wiring.crtc[e] # NoCrtc /\ ~InUse(wiring.crtc[e])) /\ C = {}
  BY <1>3 DEF FindCrtc
<1>4. CASE ~(found /\ wiring.crtc[e] # NoCrtc /\ ~InUse(wiring.crtc[e])) /\ C # {}
  <2> DEFINE p == CHOOSE q \in C : First(q)
  <2>1. C \subseteq Nat \X Nat
    BY DEF Candidates
  <2>2. p \in C
    <3> HIDE DEF C
    <3>1. \E q \in C : First(q)
      BY <1>4, <2>1, LeastPair
    <3> HIDE DEF First
    <3> QED
      BY <3>1
  <2>3. FindCrtc(conn, found, answering) = Crtcs[p[2]]
    BY <1>4 DEF FindCrtc
  <2>4. p[2] \in 1..Len(Crtcs) /\ ~InUse(Crtcs[p[2]])
    <3> HIDE DEF p
    <3> QED BY <2>2 DEF Candidates
  <2>5. Crtcs[p[2]] \in Crtc
    BY <2>4, ListAssumption
  <2> QED
    BY <2>3, <2>4, <2>5
<1> QED
  BY <1>2, <1>3, <1>4

-----------------------------------------------------------------------------
(* Types.                                                                  *)

\* Connectors and CRTCs are told apart by their places in the kernel's lists.
LEMMA Places ==
    /\ Len(Connectors) \in Nat /\ Connectors[1] \in Conn
    /\ \A k \in 1..Len(Connectors) : Connectors[k] \in Conn
    /\ \A j, k \in 1..Len(Connectors) : Connectors[j] = Connectors[k] => j = k
BY ListAssumption DEF IsInjective

LEMMA InitType == Init => TypeOK
BY Places DEF Init, TypeOK, NoDev, Devices

\* What SkipConnector leaves behind.
LEMMA SkipType ==
    ASSUME TypeOK, SkipConnector
    PROVE  next' \in Nat \ {0} /\ dev' \in Devices /\ pc' = "connector"
BY Places DEF TypeOK, SkipConnector, NoDev, Devices

\* A device of the list has a connector and a CRTC.
LEMMA ListedDevice ==
    ASSUME IInv, NEW i \in 1..Len(list)
    PROVE  /\ list[i] \in Devices /\ list[i].conn \in Conn /\ list[i].crtc \in Crtc
           /\ Len(list) \in Nat
<1>1. list \in Seq(Devices) /\ list[i].crtc \in Crtc
  BY DEF IInv, TypeOK, ListInv
<1>2. list[i] \in Devices /\ Len(list) \in Nat
  BY <1>1
<1>3. list[i].conn \in Conn
  BY <1>2 DEF Devices
<1> QED
  BY <1>1, <1>2, <1>3

\* What SetupDevice does with a choice of answers.
SetUp(conn, found, answering) ==
    LET crtc == FindCrtc(conn, found, answering) IN
    IF crtc = NoCrtc THEN SkipConnector
    ELSE /\ dev' = [conn |-> conn, crtc |-> crtc, buf |-> 0]
         /\ pc' = "create" /\ UNCHANGED next

LEMMA SetUpDevice ==
    ASSUME TypeOK, next <= Len(Connectors), NEW answering \in SUBSET Encoders,
           NEW found \in BOOLEAN,
           SetUp(Connectors[next], found /\ wiring.encoder[Connectors[next]] # NoEncoder, answering)
    PROVE  \/ SkipConnector
           \/ /\ pc' = "create" /\ next' = next
              /\ \E crtc \in Crtc : /\ ~InUse(crtc)
                                    /\ dev' = [conn |-> Connectors[next], crtc |-> crtc, buf |-> 0]
<1> DEFINE on == found /\ wiring.encoder[Connectors[next]] # NoEncoder
<1>1. Connectors[next] \in Conn /\ on \in BOOLEAN
  BY Places DEF TypeOK
<1>2. on => wiring.encoder[Connectors[next]] # NoEncoder
  OBVIOUS
<1>3. SetUp(Connectors[next], on, answering)
  OBVIOUS
<1> HIDE DEF on
<1>4. LET c == FindCrtc(Connectors[next], on, answering)
      IN  c = NoCrtc \/ (c \in Crtc /\ ~InUse(c))
  BY <1>1, <1>2, FindCrtcFree
<1> QED
  BY <1>3, <1>4 DEF SetUp

LEMMA PrepareType == ASSUME IInv, Prepare PROVE TypeOK'
<1> USE DEF IInv, TypeOK, kernelVars, showVars
<1>1. CASE ResourcesFail BY <1>1 DEF ResourcesFail
<1>2. CASE ConnectorUnusable BY <1>2, SkipType DEF ConnectorUnusable
<1>3. CASE SetupDevice
  <2>1. PICK found \in BOOLEAN, answering \in SUBSET Encoders :
          SetUp(Connectors[next], found /\ wiring.encoder[Connectors[next]] # NoEncoder, answering)
    BY <1>3 DEF SetupDevice, SetUp
  <2>2. TypeOK /\ next <= Len(Connectors)
    BY <1>3 DEF SetupDevice
  <2>3. \/ SkipConnector
        \/ /\ pc' = "create" /\ next' = next
           /\ \E crtc \in Crtc : /\ ~InUse(crtc)
                                 /\ dev' = [conn |-> Connectors[next], crtc |-> crtc, buf |-> 0]
    BY <2>1, <2>2, SetUpDevice, Zenon
  <2>4. next' \in Nat \ {0} /\ dev' \in Devices /\ pc' \in {"connector", "create"}
    BY <2>2, <2>3, Places, SkipType DEF Devices
  <2> QED
    BY <1>3, <2>4 DEF SetupDevice
<1>4. CASE Prepared BY <1>4 DEF Prepared
<1>5. This \in Buffer
  BY DEF This, Buffer, Devices
<1>6. CASE CreateDumb BY <1>5, <1>6 DEF CreateDumb
<1>7. CASE AddFb BY <1>5, <1>7 DEF AddFb
<1>8. CASE MapBuffer
  <2>1. maps' \subseteq Buffer /\ next' \in Nat \ {0} /\ dev' \in Devices
    BY <1>5, <1>8, SkipType DEF MapBuffer, Devices
  <2>2. list' \in Seq(Devices)
    <3>1. list \in Seq(Devices) /\ dev \in Devices
      OBVIOUS
    <3>2. list' = list \/ list' = <<dev>> \o list
      BY <1>8 DEF MapBuffer
    <3>3. \A S : \A l \in Seq(S), e \in S : <<e>> \o l \in Seq(S)
      OBVIOUS
    <3> HIDE DEF IInv, TypeOK
    <3> QED
      BY <3>1, <3>2, <3>3, Zenon
  <2> QED
    BY <1>8, <2>1, <2>2 DEF MapBuffer, SkipConnector
<1>9. CASE BufferFails BY <1>9, SkipType DEF BufferFails
<1> QED
  BY <1>1, <1>2, <1>3, <1>4, <1>6, <1>7, <1>8, <1>9 DEF Prepare

LEMMA ShowType == ASSUME IInv, Show PROVE TypeOK'
<1> USE DEF IInv, TypeOK, kernelVars, showVars
<1>1. ASSUME NEW b \in {0, 1}, next <= Len(list), Scans(Device, b)
      PROVE  scan' \in [Crtc -> Buffer \union {Boot, Off}]
  <2>1. Device.conn \in Conn
    BY <1>1, ListedDevice DEF Device
  <2> QED
    BY <1>1, <2>1 DEF Scans, Buffer
<1>2. CASE SaveCrtc BY <1>2, ListedDevice DEF SaveCrtc, Device
<1>3. CASE ShowDevice
  <2>1. next \in 1..Len(list)
    BY <1>3 DEF ShowDevice, ListInv
  <2>2. Device.conn \in Conn
    BY <2>1, ListedDevice DEF Device
  <2>3. front[Device.conn] \in {0, 1}
    BY <2>2
  <2>4. scan' \in [Crtc -> Buffer \union {Boot, Off}]
    BY <1>1, <1>3, <2>1, <2>3 DEF ShowDevice
  <2> QED
    BY <1>3, <2>4 DEF ShowDevice
<1>4. CASE EnterLoop BY <1>4 DEF EnterLoop
<1>5. CASE DrawPage BY <1>5 DEF DrawPage
<1>6. CASE Flip
  <2>1. next <= Len(list) /\ Device.conn \in Conn
    BY <1>6, ListedDevice DEF Flip, ListInv, Device
  <2>2. Back \in {0, 1}
    BY <2>1 DEF Back
  <2> QED
    BY <1>1, <1>6, <2>1, <2>2 DEF Flip
<1>7. CASE FlipFails BY <1>7 DEF FlipFails
<1>8. CASE Stop BY <1>8 DEF Stop
<1> QED
  BY <1>2, <1>3, <1>4, <1>5, <1>6, <1>7, <1>8 DEF Show

\* The two halves of cleaning a device up.
Restoring == /\ list # << >> /\ pc = "cleanup" /\ pc' = "remove" /\ RestoreCrtc /\ list' = list
             /\ UNCHANGED <<wiring, next, dev, saved, front>>
Removing == /\ list # << >> /\ pc = "remove" /\ pc' = "cleanup" /\ RemoveBuffers
            /\ list' = Tail(list) /\ UNCHANGED <<wiring, next, dev, saved, front>>

LEMMA CleanupSteps == CleanupDevice <=> Restoring \/ Removing
BY DEF CleanupDevice, Restoring, Removing

\* The device being cleaned up.
LEMMA FirstDevice ==
    ASSUME IInv, list # << >>
    PROVE  /\ 1 \in 1..Len(list) /\ Head(list) = list[1]
           /\ Head(list).conn \in Conn /\ Head(list).crtc \in Crtc
<1>1. 1 \in 1..Len(list) /\ Head(list) = list[1]
  BY DEF IInv, TypeOK
<1> QED
  BY <1>1, ListedDevice

LEMMA CleanupType == ASSUME IInv, CleanupDevice \/ Exit PROVE TypeOK'
<1> USE DEF IInv, TypeOK, kernelVars, showVars
<1>1. CASE Restoring
  <2> DEFINE d == Head(list)
  <2>1. d.conn \in Conn /\ d.crtc \in Crtc
    BY <1>1, FirstDevice DEF Restoring
  <2>2. saved[d.conn] # NoCrtc => saved[d.conn] = Boot
    BY <2>1 DEF SavedInv
  <2>3. scan' \in [Crtc -> Buffer \union {Boot, Off}] /\ lost' \subseteq Crtc
    BY <1>1, <2>1, <2>2 DEF Restoring, RestoreCrtc, Restored
  <2> QED
    BY <1>1, <2>3 DEF Restoring, RestoreCrtc
<1>2. CASE Removing
  <2>1. list' \in Seq(Devices)
    BY <1>2 DEF Removing
  <2>2. scan' \in [Crtc -> Buffer \union {Boot, Off}]
    BY <1>2 DEF Removing, RemoveBuffers, Without
  <2> QED
    BY <1>2, <2>1, <2>2 DEF Removing, RemoveBuffers
<1>3. CASE Exit BY <1>3 DEF Exit
<1> QED
  BY <1>1, <1>2, <1>3, CleanupSteps

-----------------------------------------------------------------------------
(* The list.                                                               *)

LEMMA Pushed ==
    ASSUME TypeOK, list' = <<dev>> \o list
    PROVE  /\ Len(list') = Len(list) + 1 /\ list'[1] = dev
           /\ \A i \in 1..Len(list) : list'[i + 1] = list[i]
           /\ \A i \in 2..Len(list') : i - 1 \in 1..Len(list) /\ list'[i] = list[i - 1]
BY DEF TypeOK

LEMMA Popped ==
    ASSUME TypeOK, list # << >>, list' = Tail(list)
    PROVE  /\ Len(list') = Len(list) - 1 /\ 1 \in 1..Len(list) /\ Head(list) = list[1]
           /\ \A i \in 1..Len(list') : i + 1 \in 1..Len(list) /\ list'[i] = list[i + 1]
           /\ \A i \in 2..Len(list) : i - 1 \in 1..Len(list') /\ list'[i - 1] = list[i]
BY DEF TypeOK

\* The connector at work is not listed yet.
LEMMA NewConnector ==
    ASSUME IInv, Making
    PROVE  dev.conn \in Conn /\ \A i \in 1..Len(list) : list[i].conn # dev.conn
<1>1. /\ next \in 1..Len(Connectors) /\ dev.conn = Connectors[next]
      /\ \A i \in 1..Len(list) : \E k \in 1..(next - 1) :
            k <= Len(Connectors) /\ list[i].conn = Connectors[k]
  BY Places DEF IInv, TypeOK, ListInv, Preparing
<1> QED
  BY <1>1, Places

LEMMA PrepareList == ASSUME IInv, Prepare PROVE ListInv'
<1> TypeOK /\ ListInv /\ next \in Nat \ {0} /\ Len(list) \in Nat
  BY DEF IInv, TypeOK
<1> USE DEF ListInv, OneDevicePerCrtc, Preparing, Making, kernelVars, showVars, InUse
<1>1. CASE ResourcesFail
  <2>1. Len(list) = 0 /\ list = << >>
    BY <1>1 DEF ResourcesFail, TypeOK
  <2> QED
    BY <1>1, <2>1 DEF ResourcesFail
<1>2. CASE ConnectorUnusable
  BY <1>2 DEF ConnectorUnusable, SkipConnector
<1>3. CASE SetupDevice
  <2>1. PICK found \in BOOLEAN, answering \in SUBSET Encoders :
          SetUp(Connectors[next], found /\ wiring.encoder[Connectors[next]] # NoEncoder, answering)
    BY <1>3 DEF SetupDevice, SetUp
  <2>2. next <= Len(Connectors) /\ pc = "connector" /\ list' = list
    BY <1>3 DEF SetupDevice
  <2>3. \/ SkipConnector
        \/ /\ pc' = "create" /\ next' = next
           /\ \E crtc \in Crtc : /\ ~InUse(crtc)
                                 /\ dev' = [conn |-> Connectors[next], crtc |-> crtc, buf |-> 0]
    BY <2>1, <2>2, SetUpDevice, Zenon
  <2> QED
    BY <2>2, <2>3 DEF SkipConnector
<1>4. CASE Prepared
  BY <1>4 DEF Prepared
<1>5. CASE CreateDumb
  BY <1>5 DEF CreateDumb
<1>6. CASE AddFb
  BY <1>6 DEF AddFb
<1>7. CASE MapBuffer /\ dev.buf = 0
  BY <1>7 DEF MapBuffer, TypeOK, Devices
<1>8. CASE MapBuffer /\ dev.buf # 0
  <2>1. pc = "map" /\ list' = <<dev>> \o list /\ pc' = "connector" /\ next' = next + 1
    BY <1>8 DEF MapBuffer, SkipConnector
  <2>2. /\ Len(list') = Len(list) + 1 /\ list'[1] = dev
        /\ \A i \in 2..Len(list') : i - 1 \in 1..Len(list) /\ list'[i] = list[i - 1]
    BY <2>1, Pushed
  <2>3. \A i \in 1..Len(list) : list[i].conn # dev.conn /\ list[i].crtc # dev.crtc
    BY <2>1, NewConnector
  <2>4. Len(list) \in Nat /\ \A i \in 1..Len(list') : i = 1 \/ i \in 2..Len(list')
    BY <2>2
  <2>5. ASSUME NEW i \in 1..Len(list'), NEW j \in 1..Len(list')
        PROVE  /\ list'[i].crtc = list'[j].crtc => i = j
               /\ list'[i].conn = list'[j].conn => i = j
    <3> DEFINE Before(k) == k - 1 \in 1..Len(list) /\ list'[k] = list[k - 1]
    <3>1. (i = 1 \/ Before(i)) /\ (j = 1 \/ Before(j)) /\ i \in Int /\ j \in Int
      BY <2>2, <2>4
    <3>2. CASE i = 1 /\ j = 1
      BY <3>2
    <3>3. CASE i = 1 /\ Before(j)
      BY <2>2, <2>3, <3>3
    <3>4. CASE Before(i) /\ j = 1
      BY <2>2, <2>3, <3>4
    <3>5. CASE Before(i) /\ Before(j)
      <4>1. list[i - 1].crtc = list[j - 1].crtc => i - 1 = j - 1
        BY <3>5
      <4>2. list[i - 1].conn = list[j - 1].conn => i - 1 = j - 1
        BY <3>5
      <4> QED
        BY <3>1, <3>5, <4>1, <4>2
    <3> QED
      BY <3>1, <3>2, <3>3, <3>4, <3>5
  <2>6. ASSUME NEW i \in 1..Len(list')
        PROVE  /\ list'[i].crtc \in Crtc
               /\ \E k \in 1..next : k <= Len(Connectors) /\ list'[i].conn = Connectors[k]
    <3>1. CASE i = 1
      BY <2>1, <2>2, <3>1
    <3>2. CASE i - 1 \in 1..Len(list) /\ list'[i] = list[i - 1]
      <4>1. /\ list[i - 1].crtc \in Crtc
            /\ \E k \in 1..(next - 1) : k <= Len(Connectors) /\ list[i - 1].conn = Connectors[k]
        BY <2>1, <3>2
      <4> QED
        BY <3>2, <4>1
    <3> QED
      BY <2>2, <2>4, <3>1, <3>2
  <2>7. OneDevicePerCrtc' /\ (\A i \in 1..Len(list) : list[i].crtc \in Crtc)'
    BY <2>5, <2>6
  <2>8. (\A i, j \in 1..Len(list) : list[i].conn = list[j].conn => i = j)'
    BY <2>5
  <2>9. (\A i \in 1..Len(list) : \E k \in 1..(next - 1) :
            k <= Len(Connectors) /\ list[i].conn = Connectors[k])'
    <3>1. (next + 1) - 1 = next
      OBVIOUS
    <3> QED
      BY <2>1, <2>6, <3>1
  <2> QED
    BY <2>1, <2>7, <2>8, <2>9
<1>9. CASE BufferFails
  BY <1>9 DEF BufferFails, SkipConnector
<1> QED
  BY <1>1, <1>2, <1>3, <1>4, <1>5, <1>6, <1>7, <1>8, <1>9 DEF Prepare

LEMMA LaterList == ASSUME IInv, Show \/ CleanupDevice \/ Exit PROVE ListInv'
<1> TypeOK /\ ListInv /\ next \in Nat \ {0} /\ Len(list) \in Nat
  BY DEF IInv, TypeOK
<1> USE DEF ListInv, OneDevicePerCrtc, Preparing, Making, kernelVars, showVars, InUse
<1>1. CASE Show
  BY <1>1 DEF Show, SaveCrtc, ShowDevice, EnterLoop, DrawPage, Flip, FlipFails, Stop
<1>2. CASE Restoring
  BY <1>2 DEF Restoring
<1>3. CASE Removing
  <2>1. pc = "remove" /\ pc' = "cleanup" /\ list # << >> /\ list' = Tail(list)
    BY <1>3 DEF Removing
  <2>2. /\ Len(list') = Len(list) - 1
        /\ \A i \in 1..Len(list') : i + 1 \in 1..Len(list) /\ list'[i] = list[i + 1]
    BY <2>1, Popped
  <2>3. ASSUME NEW i \in 1..Len(list'), NEW j \in 1..Len(list')
        PROVE  /\ list'[i].crtc = list'[j].crtc => i = j
               /\ list'[i].conn = list'[j].conn => i = j
               /\ list'[i].crtc \in Crtc
    <3>1. /\ i + 1 \in 1..Len(list) /\ list'[i] = list[i + 1] /\ i \in Int
          /\ j + 1 \in 1..Len(list) /\ list'[j] = list[j + 1] /\ j \in Int
      BY <2>2
    <3>2. /\ list[i + 1].crtc = list[j + 1].crtc => i + 1 = j + 1
          /\ list[i + 1].conn = list[j + 1].conn => i + 1 = j + 1
          /\ list[i + 1].crtc \in Crtc
      BY <3>1
    <3> QED
      BY <3>1, <3>2
  <2> QED
    BY <2>1, <2>3
<1>4. CASE Exit
  BY <1>4 DEF Exit
<1> QED
  BY <1>1, <1>2, <1>3, <1>4, CleanupSteps

-----------------------------------------------------------------------------
(* The buffers.                                                            *)

LEMMA PrepareBuffers == ASSUME IInv, Prepare PROVE BufferInv'
<1> TypeOK /\ ListInv /\ BufferInv
  BY DEF IInv
<1> USE DEF Making, kernelVars, showVars
<1>1. Making => /\ This \notin Owned /\ FirstBuffer \cap Owned = {} /\ This \notin FirstBuffer
                /\ dev.buf \in {0, 1}
  <2> SUFFICES ASSUME Making
               PROVE  /\ This \notin Owned /\ FirstBuffer \cap Owned = {} /\ This \notin FirstBuffer
                      /\ dev.buf \in {0, 1}
    OBVIOUS
  <2>1. dev.buf \in {0, 1}
    BY DEF TypeOK, Devices
  <2>2. \A i \in 1..Len(list) : list[i].conn # dev.conn
    BY NewConnector
  <2>3. \A b \in Owned : b[1] # dev.conn
    BY <2>2 DEF Owned
  <2> QED
    BY <2>1, <2>3 DEF This, FirstBuffer
<1>2. list' = list => Owned' = Owned
  BY DEF Owned
<1>3. dev' = dev => This' = This /\ FirstBuffer' = FirstBuffer
  BY DEF This, FirstBuffer
<1>4. CASE ResourcesFail
  BY <1>2, <1>4 DEF ResourcesFail, BufferInv
<1>5. CASE ConnectorUnusable
  BY <1>2, <1>5 DEF ConnectorUnusable, SkipConnector, BufferInv
<1>6. CASE SetupDevice
  <2>1. PICK found \in BOOLEAN, answering \in SUBSET Encoders :
          SetUp(Connectors[next], found /\ wiring.encoder[Connectors[next]] # NoEncoder, answering)
    BY <1>6 DEF SetupDevice, SetUp
  <2>2. /\ pc = "connector" /\ list' = list /\ next <= Len(Connectors)
        /\ handles' = handles /\ fbs' = fbs /\ maps' = maps
    BY <1>6 DEF SetupDevice
  <2>3. SkipConnector \/ (pc' = "create" /\ dev'.buf = 0)
    BY <2>1, <2>2 DEF SetUp
  <2>4. pc' = "create" => FirstBuffer' = {}
    BY <2>3 DEF SkipConnector, FirstBuffer
  <2> QED
    BY <1>2, <2>2, <2>3, <2>4 DEF BufferInv, SkipConnector
<1>7. CASE Prepared
  BY <1>2, <1>7 DEF Prepared, BufferInv
<1>8. CASE CreateDumb
  BY <1>1, <1>2, <1>3, <1>8 DEF CreateDumb, BufferInv
<1>9. CASE AddFb
  BY <1>1, <1>2, <1>3, <1>9 DEF AddFb, BufferInv
<1>10. CASE MapBuffer /\ dev.buf = 0
  <2>1. /\ pc = "map" /\ pc' = "create" /\ maps' = maps \union {This}
        /\ handles' = handles /\ fbs' = fbs /\ list' = list
    BY <1>10 DEF MapBuffer
  <2>2. FirstBuffer = {} /\ FirstBuffer' = {This}
    BY <1>10 DEF MapBuffer, FirstBuffer, This, TypeOK, Devices
  <2> QED
    BY <1>1, <1>2, <2>1, <2>2 DEF BufferInv
<1>11. CASE MapBuffer /\ dev.buf # 0
  <2>1. /\ pc = "map" /\ pc' = "connector" /\ maps' = maps \union {This}
        /\ handles' = handles /\ fbs' = fbs /\ list' = <<dev>> \o list
    BY <1>11 DEF MapBuffer, SkipConnector
  <2>2. dev.buf = 1 /\ dev.conn \in Conn
    BY <1>1, <1>11, <2>1, NewConnector
  <2>3. FirstBuffer = {<<dev.conn, 0>>} /\ This = <<dev.conn, 1>>
    BY <2>2 DEF FirstBuffer, This
  <2>4. Owned' = Owned \union {<<dev.conn, 0>>, <<dev.conn, 1>>}
    <3>1. \A c : (\E i \in 1..Len(list') : list'[i].conn = c)
                 <=> c = dev.conn \/ \E i \in 1..Len(list) : list[i].conn = c
      BY <2>1, Pushed DEF TypeOK
    <3>2. {b \in Buffer : b[1] = dev.conn} = {<<dev.conn, 0>>, <<dev.conn, 1>>}
      BY <2>2 DEF Buffer
    <3> QED
      BY <3>1, <3>2 DEF Owned
  <2> QED
    BY <2>1, <2>3, <2>4 DEF BufferInv
<1>12. CASE BufferFails
  <2>1. /\ Making /\ pc' = "connector" /\ list' = list
        /\ handles' = handles \ (FirstBuffer \union IF pc = "create" THEN {} ELSE {This})
        /\ fbs' = fbs \ (FirstBuffer \union IF pc = "map" THEN {This} ELSE {})
        /\ maps' = maps \ FirstBuffer
    BY <1>12 DEF BufferFails, SkipConnector
  <2> QED
    BY <1>1, <1>2, <2>1 DEF BufferInv
<1> QED
  BY <1>4, <1>5, <1>6, <1>7, <1>8, <1>9, <1>10, <1>11, <1>12 DEF Prepare

LEMMA LaterBuffers == ASSUME IInv, Show \/ CleanupDevice \/ Exit PROVE BufferInv'
<1> TypeOK /\ ListInv /\ BufferInv
  BY DEF IInv
<1> USE DEF Making, kernelVars, showVars
<1>1. list' = list => Owned' = Owned
  BY DEF Owned
<1>2. CASE Show
  BY <1>1, <1>2 DEF Show, SaveCrtc, ShowDevice, EnterLoop, DrawPage, Flip, FlipFails, Stop,
                    BufferInv
<1>3. CASE Restoring
  BY <1>1, <1>3 DEF Restoring, RestoreCrtc, BufferInv
<1>4. CASE Removing
  <2> DEFINE d == Head(list)
  <2>1. /\ pc = "remove" /\ pc' = "cleanup" /\ list # << >> /\ list' = Tail(list)
        /\ handles' = handles \ Buffers(d) /\ fbs' = fbs \ Buffers(d)
        /\ maps' = maps \ Buffers(d)
    BY <1>4 DEF Removing, RemoveBuffers
  <2>2. \A i \in 2..Len(list) : list[i].conn # d.conn
    BY <2>1, Popped DEF ListInv
  <2>3. \A c : (\E i \in 1..Len(list') : list'[i].conn = c)
               <=> c # d.conn /\ \E i \in 1..Len(list) : list[i].conn = c
    <3> Len(list) \in Nat
      BY DEF TypeOK
    <3>1. /\ list[1] = d
          /\ \A i \in 1..Len(list') : i + 1 \in 2..Len(list) /\ list'[i] = list[i + 1]
          /\ \A i \in 2..Len(list) : i - 1 \in 1..Len(list') /\ list'[i - 1] = list[i]
      BY <2>1, Popped
    <3>2. ASSUME NEW i \in 1..Len(list')
          PROVE  list'[i].conn # d.conn /\ \E k \in 1..Len(list) : list[k].conn = list'[i].conn
      <4>1. i + 1 \in 1..Len(list)
        BY <3>1
      <4> QED
        BY <2>2, <3>1, <4>1
    <3>3. ASSUME NEW i \in 1..Len(list), list[i].conn # d.conn
          PROVE  \E k \in 1..Len(list') : list'[k].conn = list[i].conn
      <4>1. i \in 2..Len(list)
        BY <3>1, <3>3
      <4> QED
        BY <3>1, <4>1
    <3> HIDE DEF d
    <3>4. \A c : (\E i \in 1..Len(list') : list'[i].conn = c)
                 => c # d.conn /\ \E i \in 1..Len(list) : list[i].conn = c
      BY <3>2
    <3>5. \A c : c # d.conn /\ (\E i \in 1..Len(list) : list[i].conn = c)
                 => \E i \in 1..Len(list') : list'[i].conn = c
      BY <3>3
    <3> QED
      BY <3>4, <3>5
  <2>4. Owned' = Owned \ Buffers(d)
    BY <2>3 DEF Owned, Buffers, Buffer
  <2> QED
    BY <2>1, <2>4 DEF BufferInv
<1>5. CASE Exit
  BY <1>1, <1>5 DEF Exit, BufferInv
<1> QED
  BY <1>2, <1>3, <1>4, <1>5, CleanupSteps

-----------------------------------------------------------------------------
(* The screens.                                                            *)

\* Nothing is saved or shown until all connectors were passed.
LEMMA PrepareScreens == ASSUME IInv, Prepare PROVE ScanInv' /\ SavedInv'
<1>1. TypeOK /\ ListInv /\ ScanInv /\ SavedInv
  BY DEF IInv
<1>2. scan' = scan /\ saved' = saved /\ lost' = lost /\ pc \notin {"cleanup", "remove", "exit"}
  BY DEF Prepare, ResourcesFail, ConnectorUnusable, SetupDevice, Prepared, CreateDumb,
         AddFb, MapBuffer, BufferFails, kernelVars, showVars
<1>3. Shown = {}
  BY DEF Shown, Prepare, ResourcesFail, ConnectorUnusable, SetupDevice, Prepared, CreateDumb,
         AddFb, MapBuffer, BufferFails
<1>4. Saved' = {}
  BY DEF Saved, Prepare, ResourcesFail, ConnectorUnusable, SetupDevice, Prepared, CreateDumb,
         AddFb, MapBuffer, BufferFails, SkipConnector
<1>5. \A c \in Crtc : scan'[c] = Boot
  BY <1>1, <1>2, <1>3 DEF ScanInv
<1> QED
  BY <1>1, <1>2, <1>4, <1>5 DEF ScanInv, SavedInv

\* A CRTC whose device was not shown is as it was at the start.
LEMMA NotYetShown ==
    ASSUME IInv, NEW i \in 1..Len(list), i \notin Shown, pc \notin {"cleanup", "remove", "exit"}
    PROVE  scan[list[i].crtc] = Boot
<1>1. list[i].crtc \in Crtc
  BY ListedDevice
<1>2. \A j \in 1..Len(list) : list[j].crtc = list[i].crtc => j \notin Shown
  BY DEF IInv, ListInv, OneDevicePerCrtc
<1> QED
  BY <1>1, <1>2 DEF IInv, ScanInv

\* Another CRTC shows a device of another connector.
LEMMA OtherScreen ==
    ASSUME IInv, NEW i \in 1..Len(list), NEW c \in Crtc, c # list[i].crtc,
           scan[c] # Boot, pc \notin {"cleanup", "remove", "exit"}
    PROVE  \E j \in 1..Len(list) :
              /\ j \in Shown /\ list[j].crtc = c /\ scan[c] = <<list[j].conn, front[list[j].conn]>>
              /\ list[j].conn \in Conn /\ list[j].conn # list[i].conn
<1>1. PICK j \in 1..Len(list) :
         j \in Shown /\ list[j].crtc = c /\ scan[c] = <<list[j].conn, front[list[j].conn]>>
  BY DEF IInv, ScanInv
<1>2. list[j].conn \in Conn /\ list[j].conn # list[i].conn
  BY <1>1, ListedDevice DEF IInv, ListInv, Shown
<1> QED
  BY <1>1, <1>2

LEMMA ShowScreens == ASSUME IInv, Show PROVE ScanInv' /\ SavedInv'
<1> USE DEF kernelVars, showVars, Device
<1>1. TypeOK /\ ListInv /\ ScanInv /\ SavedInv /\ Len(list) \in Nat /\ next \in Nat \ {0}
  BY DEF IInv, TypeOK
<1>2. CASE SaveCrtc
  <2> DEFINE d == list[next]
  <2>1. /\ next \in 1..Len(list) /\ pc = "save" /\ pc' = "show" /\ list' = list
        /\ next' = next /\ scan' = scan /\ front' = front
    BY <1>1, <1>2 DEF SaveCrtc
  <2>2. d.conn \in Conn /\ d.crtc \in Crtc
    BY <2>1, ListedDevice
  <2>3. scan[d.crtc] = Boot
    BY <2>1, <1>1, NotYetShown DEF Shown
  <2>4. ScanInv'
    <3>1. Shown' = Shown
      BY <2>1 DEF Shown
    <3>2. lost \subseteq lost'
      BY <1>2 DEF SaveCrtc
    <3> QED
      BY <1>1, <2>1, <3>1, <3>2 DEF ScanInv
  <2>5. \A i \in 1..Len(list) : i # next => (i \in Saved' <=> i \in Saved) /\ list[i].conn # d.conn
    BY <1>1, <2>1 DEF Saved, ListInv
  <2>6. ASSUME saved' = [saved EXCEPT ![d.conn] = scan[d.crtc]] /\ lost' = lost
        PROVE  SavedInv'
    <3>1. /\ saved'[d.conn] = Boot
          /\ \A c \in Conn : c # d.conn => saved'[c] = saved[c]
      BY <1>1, <2>2, <2>3, <2>6 DEF TypeOK
    <3>2. \A c \in Conn : saved'[c] \in {NoCrtc, Boot}
      BY <1>1, <3>1 DEF SavedInv
    <3>3. ASSUME NEW i \in 1..Len(list), i \in Saved', saved'[list[i].conn] = NoCrtc
          PROVE  list[i].crtc \in lost'
      <4>1. i # next /\ list[i].conn \in Conn
        BY <3>1, <3>3, ListedDevice, NameAssumption
      <4> QED
        BY <1>1, <2>5, <2>6, <3>1, <3>3, <4>1 DEF SavedInv
    <3> QED
      BY <2>1, <3>2, <3>3 DEF SavedInv
  <2>7. ASSUME lost' = lost \union {d.crtc} /\ saved' = saved
        PROVE  SavedInv'
    BY <1>1, <2>1, <2>5, <2>7 DEF SavedInv
  <2> QED
    BY <1>2, <2>4, <2>6, <2>7 DEF SaveCrtc
<1>3. CASE ShowDevice
  <2> DEFINE d == list[next]
  <2>1. /\ pc = "show" /\ pc' = "save" /\ next' = next + 1 /\ list' = list
        /\ saved' = saved /\ lost' = lost /\ front' = front /\ next \in 1..Len(list)
    BY <1>1, <1>3 DEF ShowDevice, ListInv
  <2>2. SavedInv'
    <3>1. Saved' = Saved
      BY <1>1, <2>1 DEF Saved
    <3> QED
      BY <1>1, <2>1, <3>1 DEF SavedInv
  <2>3. Shown \subseteq Shown'
    BY <1>1, <2>1 DEF Shown
  <2>4. next \in Shown' /\ d.crtc \in Crtc /\ d.conn \in Conn
    BY <1>1, <2>1, ListedDevice DEF Shown
  <2>5. ASSUME scan' = scan
        PROVE  ScanInv'
    BY <1>1, <2>1, <2>3, <2>5 DEF ScanInv
  <2>6. ASSUME scan' = [scan EXCEPT ![d.crtc] = <<d.conn, front[d.conn]>>]
        PROVE  ScanInv'
    <3>1. /\ scan'[d.crtc] = <<d.conn, front[d.conn]>>
          /\ \A c \in Crtc : c # d.crtc => scan'[c] = scan[c]
      BY <1>1, <2>4, <2>6 DEF TypeOK
    <3>2. ASSUME NEW c \in Crtc, scan'[c] # Boot
          PROVE  \E j \in 1..Len(list) : /\ j \in Shown' /\ list[j].crtc = c
                                         /\ scan'[c] = <<list[j].conn, front[list[j].conn]>>
      <4>1. CASE c = d.crtc
        BY <2>1, <2>4, <3>1, <4>1
      <4>2. CASE c # d.crtc
        BY <2>1, <2>3, <3>1, <3>2, <4>2, OtherScreen
      <4> QED
        BY <4>1, <4>2
    <3> QED
      BY <2>1, <3>2 DEF ScanInv
  <2> QED
    BY <1>3, <2>2, <2>5, <2>6 DEF ShowDevice, Scans, ScanInv
<1>4. CASE EnterLoop
  <2>1. /\ pc = "save" /\ next > Len(list) /\ list' = list /\ scan' = scan /\ saved' = saved
        /\ front' = front /\ lost' = lost
    BY <1>4 DEF EnterLoop
  <2>2. Saved = 1..Len(list) /\ Shown \subseteq Shown'
    BY <1>1, <1>4, <2>1 DEF Saved, Shown, EnterLoop
  <2> QED
    BY <1>1, <2>1, <2>2 DEF ScanInv, SavedInv
<1>5. CASE DrawPage \/ FlipFails \/ Stop
  <2>1. /\ pc \in {"loop", "flip"} /\ pc' \in {"loop", "flip", "cleanup"} /\ list' = list
        /\ scan' = scan /\ saved' = saved /\ front' = front /\ lost' = lost
    BY <1>5 DEF DrawPage, FlipFails, Stop
  <2>2. Saved = 1..Len(list) /\ Shown \subseteq 1..Len(list) /\ Shown' = 1..Len(list)
    BY <2>1 DEF Saved, Shown
  <2> QED
    BY <1>1, <2>1, <2>2 DEF ScanInv, SavedInv
<1>6. CASE Flip
  <2> DEFINE d == list[next]
  <2>1. /\ pc = "flip" /\ pc' = "loop" /\ list' = list /\ saved' = saved /\ lost' = lost
        /\ scan' = [scan EXCEPT ![d.crtc] = <<d.conn, Back>>]
        /\ front' = [front EXCEPT ![d.conn] = Back] /\ next \in 1..Len(list)
    BY <1>1, <1>6 DEF Flip, Scans, ListInv
  <2>2. Saved = 1..Len(list) /\ Shown \subseteq 1..Len(list) /\ Shown' = 1..Len(list)
    BY <2>1 DEF Saved, Shown
  <2>3. d.crtc \in Crtc /\ d.conn \in Conn
    BY <2>1, ListedDevice
  <2>4. /\ scan'[d.crtc] = <<d.conn, front'[d.conn]>>
        /\ \A c \in Crtc : c # d.crtc => scan'[c] = scan[c]
        /\ \A c \in Conn : c # d.conn => front'[c] = front[c]
    BY <1>1, <2>1, <2>3 DEF TypeOK
  <2>5. ASSUME NEW c \in Crtc, scan'[c] # Boot
        PROVE  \E j \in 1..Len(list) : /\ list[j].crtc = c
                                       /\ scan'[c] = <<list[j].conn, front'[list[j].conn]>>
    <3>1. CASE c = d.crtc
      BY <2>1, <2>4, <3>1
    <3>2. CASE c # d.crtc
      BY <2>1, <2>4, <2>5, <3>2, OtherScreen
    <3> QED
      BY <3>1, <3>2
  <2> QED
    BY <1>1, <2>1, <2>2, <2>5 DEF ScanInv, SavedInv
<1> QED
  BY <1>2, <1>3, <1>4, <1>5, <1>6 DEF Show

\* Buffers of listed devices go in modeset_cleanup only.
LEMMA EarlierRemove == ASSUME IInv, Prepare \/ Show PROVE RemoveInv'
<1>1. pc' # "remove"
  BY DEF Prepare, ResourcesFail, ConnectorUnusable, SetupDevice, Prepared, CreateDumb,
         AddFb, MapBuffer, BufferFails, SkipConnector, Show, SaveCrtc, ShowDevice, EnterLoop,
         DrawPage, Flip, FlipFails, Stop
<1> QED
  BY <1>1 DEF RemoveInv

LEMMA CleanupScreens == ASSUME IInv, CleanupDevice \/ Exit PROVE ScanInv' /\ SavedInv' /\ RemoveInv'
<1>1. TypeOK /\ ListInv /\ ScanInv /\ SavedInv
  BY DEF IInv
<1>2. CASE Restoring
  <2> DEFINE d == Head(list)
  <2>1. /\ pc = "cleanup" /\ pc' = "remove" /\ list' = list /\ saved' = saved /\ front' = front
        /\ lost \subseteq lost'
    BY <1>2 DEF Restoring, RestoreCrtc
  <2>2. d.conn \in Conn /\ d.crtc \in Crtc /\ 1 \in 1..Len(list) /\ d = list[1]
    BY <1>2, FirstDevice DEF Restoring
  <2>3. Saved = 1..Len(list) /\ Shown = 1..Len(list) /\ Saved' = Saved /\ Shown' = Shown
    BY <2>1 DEF Saved, Shown
  <2>4. SavedInv'
    BY <1>1, <2>1, <2>3 DEF SavedInv
  <2>5. saved[d.conn] \in {NoCrtc, Boot} /\ (saved[d.conn] = NoCrtc => d.crtc \in lost)
    BY <1>1, <2>2, <2>3 DEF SavedInv
  <2>6. \/ d.crtc \in lost' /\ scan' = scan
        \/ scan' = [scan EXCEPT ![d.crtc] = Boot]
    BY <1>2, <2>1, <2>5 DEF Restoring, RestoreCrtc, Restored
  <2>7. RemoveInv'
    BY <1>1, <2>1, <2>2, <2>6 DEF RemoveInv, TypeOK
  <2>8. \A c \in Crtc : scan'[c] = scan[c] \/ scan'[c] = Boot
    BY <1>1, <2>2, <2>6 DEF TypeOK
  <2>9. ScanInv'
    BY <1>1, <2>1, <2>3, <2>8 DEF ScanInv
  <2> QED
    BY <2>4, <2>7, <2>9
<1>3. CASE Removing
  <2> DEFINE d == Head(list)
  <2>1. /\ pc = "remove" /\ pc' = "cleanup" /\ list # << >> /\ list' = Tail(list)
        /\ saved' = saved /\ front' = front /\ lost' = lost
    BY <1>3 DEF Removing, RemoveBuffers
  <2>2. /\ 1 \in 1..Len(list) /\ d = list[1]
        /\ \A i \in 1..Len(list') : i + 1 \in 1..Len(list) /\ list'[i] = list[i + 1]
        /\ \A i \in 2..Len(list) : i - 1 \in 1..Len(list') /\ list'[i - 1] = list[i]
    BY <1>1, <2>1, Popped
  <2>3. d.conn \in Conn /\ d.crtc \in Crtc
    BY <2>2, ListedDevice
  <2>4. Saved = 1..Len(list) /\ Shown = 1..Len(list) /\ Saved' = 1..Len(list') /\ Shown' = 1..Len(list')
    BY <2>1 DEF Saved, Shown
  <2>5. SavedInv'
    BY <1>1, <2>1, <2>2, <2>4 DEF SavedInv
  <2>6. d.crtc \in lost \/ scan[d.crtc] = Boot
    BY <2>1 DEF IInv, RemoveInv
  <2>7. scan' = Without(scan, Buffers(d))
    BY <1>3 DEF Removing, RemoveBuffers
  <2>8. Boot \notin Buffers(d) /\ Off \notin Buffers(d)
    BY <2>3, NameAssumption DEF Buffers, Buffer
  <2>9. ASSUME NEW c \in Crtc
        PROVE  \/ scan'[c] = Boot
               \/ scan'[c] = Off /\ c \in lost'
               \/ \E i \in 1..Len(list') :
                     list'[i].crtc = c /\ scan'[c] = <<list'[i].conn, front[list'[i].conn]>>
    <3>1. CASE c = d.crtc
      <4>1. scan'[c] = Boot \/ (c \in lost' /\ scan'[c] = IF scan[c] \in Buffers(d) THEN Off ELSE scan[c])
        BY <1>1, <2>1, <2>6, <2>7, <2>8, <3>1 DEF Without
      <4>2. \A i \in 1..Len(list) : list[i].crtc = c => i = 1
        BY <1>1, <2>2, <3>1 DEF ListInv, OneDevicePerCrtc
      <4>3. scan[c] \in {Boot, Off} \/ scan[c] = <<d.conn, front[d.conn]>>
        BY <1>1, <2>2, <4>2 DEF ScanInv
      <4>4. <<d.conn, front[d.conn]>> \in Buffers(d)
        BY <1>1, <2>3 DEF Buffers, TypeOK
      <4> QED
        BY <4>1, <4>3, <4>4
    <3>2. CASE c # d.crtc
      <4>1. scan'[c] = IF scan[c] \in Buffers(d) THEN Off ELSE scan[c]
        BY <2>7 DEF Without
      <4>2. CASE scan[c] = Boot \/ (scan[c] = Off /\ c \in lost)
        BY <2>1, <2>8, <4>1, <4>2
      <4>3. CASE \E i \in 1..Len(list) :
                   list[i].crtc = c /\ scan[c] = <<list[i].conn, front[list[i].conn]>>
        <5>1. PICK i \in 1..Len(list) :
                   list[i].crtc = c /\ scan[c] = <<list[i].conn, front[list[i].conn]>>
          BY <4>3
        <5>2. i # 1 /\ list[i].conn # d.conn
          BY <1>1, <2>2, <3>2, <5>1 DEF ListInv
        <5>3. scan[c] \notin Buffers(d)
          BY <5>1, <5>2 DEF Buffers
        <5>4. i - 1 \in 1..Len(list') /\ list'[i - 1] = list[i]
          BY <2>2, <5>2
        <5> QED
          BY <4>1, <5>1, <5>3, <5>4
      <4> QED
        BY <1>1, <4>2, <4>3 DEF ScanInv
    <3> QED
      BY <3>1, <3>2
  <2>10. ScanInv'
    BY <2>1, <2>4, <2>9 DEF ScanInv
  <2> QED
    BY <2>1, <2>5, <2>10 DEF RemoveInv
<1>4. CASE Exit
  <2>1. /\ list = << >> /\ list' = list /\ pc' = "exit" /\ scan' = scan /\ saved' = saved
        /\ lost' = lost /\ Len(list) = 0
    BY <1>1, <1>4 DEF Exit, kernelVars, showVars, TypeOK
  <2> QED
    BY <1>1, <2>1 DEF ScanInv, SavedInv, RemoveInv
<1> QED
  BY <1>2, <1>3, <1>4, CleanupSteps

-----------------------------------------------------------------------------
(* The theorems.                                                           *)

LEMMA InitInv == Init => IInv
<1> SUFFICES ASSUME Init PROVE IInv
  OBVIOUS
<1>1. list = << >> /\ Len(list) = 0 /\ pc = "connector"
  BY DEF Init
<1>2. ListInv
  BY <1>1 DEF ListInv, OneDevicePerCrtc, Making
<1>3. BufferInv
  BY <1>1 DEF Init, BufferInv, Owned, Making
<1>4. ScanInv /\ SavedInv
  BY <1>1 DEF Init, ScanInv, SavedInv
<1>5. RemoveInv
  BY <1>1 DEF RemoveInv
<1> QED
  BY <1>2, <1>3, <1>4, <1>5, InitType DEF IInv

LEMMA Stutter == ASSUME IInv, UNCHANGED vars PROVE IInv'
<1> USE DEF vars, kernelVars, showVars
<1>1. TypeOK'
  BY DEF IInv, TypeOK
<1>2. ListInv'
  BY DEF IInv, ListInv, OneDevicePerCrtc, Preparing, Making, InUse
<1>3. BufferInv'
  BY DEF IInv, BufferInv, Making, Owned, FirstBuffer, This
<1>4. Saved' = Saved /\ Shown' = Shown
  BY DEF Saved, Shown
<1>5. ScanInv' /\ SavedInv'
  BY <1>4 DEF IInv, ScanInv, SavedInv
<1>6. RemoveInv'
  BY DEF IInv, RemoveInv
<1> QED
  BY <1>1, <1>2, <1>3, <1>5, <1>6 DEF IInv

\* The ownership of CRTCs and buffers, and what the screens show, at every step of
\* preparing, showing and cleaning up, whatever fails.
THEOREM Inductive == Spec => []IInv
<1>1. IInv /\ [Next]_vars => IInv'
  <2> SUFFICES ASSUME IInv, [Next]_vars PROVE IInv'
    OBVIOUS
  <2>1. CASE Prepare
    BY <2>1, PrepareType, PrepareList, PrepareBuffers, PrepareScreens, EarlierRemove DEF IInv
  <2>2. CASE Show
    BY <2>2, ShowType, LaterList, LaterBuffers, ShowScreens, EarlierRemove DEF IInv
  <2>3. CASE CleanupDevice \/ Exit
    BY <2>3, CleanupType, LaterList, LaterBuffers, CleanupScreens DEF IInv
  <2>4. CASE UNCHANGED vars
    BY <2>4, Stutter
  <2> QED
    BY <2>1, <2>2, <2>3, <2>4 DEF Next, Ended
<1> QED
  BY <1>1, InitInv, PTL DEF Spec

\* modeset_find_crtc never gives two screens one CRTC.
THEOREM CrtcsNotShared == Spec => []OneDevicePerCrtc
<1>1. IInv => OneDevicePerCrtc
  BY DEF IInv, ListInv
<1> QED
  BY <1>1, Inductive, PTL

\* No failure of modeset_create_fb or modeset_prepare_connector leaves a buffer
\* behind or takes one away, and modeset_cleanup frees them all.
THEOREM BuffersAccounted == Spec => []NothingLost
<1>1. IInv => NothingLost
  <2> SUFFICES ASSUME IInv, ~Making PROVE NothingLost
    BY DEF NothingLost, Making
  <2>1. Owned = UNION {Buffers(list[i]) : i \in 1..Len(list)}
    BY ListedDevice DEF Owned, Buffers, Buffer
  <2> QED
    BY <2>1 DEF IInv, BufferInv, NothingLost, Making
<1> QED
  BY <1>1, Inductive, PTL

\* A page is never drawn into the buffer on screen, also after flips that failed.
THEOREM NoTearing == Spec => []DrawsOffScreen
<1>1. IInv => DrawsOffScreen
  <2> SUFFICES ASSUME IInv, pc = "flip"
               PROVE  scan[Device.crtc] # <<Device.conn, Back>>
    BY DEF DrawsOffScreen
  <2> DEFINE d == list[next]
  <2>1. next \in 1..Len(list)
    BY DEF IInv, TypeOK, ListInv
  <2>2. d.conn \in Conn /\ d.crtc \in Crtc /\ front[d.conn] \in {0, 1}
    BY <2>1, ListedDevice DEF IInv, TypeOK
  <2>3. <<d.conn, 1 - front[d.conn]>> \in Buffer /\ 1 - front[d.conn] # front[d.conn]
    BY <2>2 DEF Buffer
  <2>4. scan[d.crtc] = Boot \/ scan[d.crtc] = <<d.conn, front[d.conn]>>
    <3>1. \A i \in 1..Len(list) : list[i].crtc = d.crtc => i = next
      BY <2>1 DEF IInv, ListInv, OneDevicePerCrtc
    <3> QED
      BY <2>2, <3>1 DEF IInv, ScanInv
  <2> QED
    BY <2>3, <2>4, NameAssumption DEF Device, Back
<1> QED
  BY <1>1, Inductive, PTL

\* Every screen shows at exit what it showed before, if its CRTC could be read and
\* set back, and none goes dark before.
THEOREM ScreensComeBack == Spec => []ScreenRestored
<1>1. IInv => ScreenRestored
  <2> SUFFICES ASSUME IInv, NEW c \in Crtc \ lost
               PROVE  scan[c] # Off /\ (pc = "exit" => scan[c] = Boot)
    BY DEF ScreenRestored
  <2>1. \/ scan[c] = Boot
        \/ \E i \in 1..Len(list) : scan[c] = <<list[i].conn, front[list[i].conn]>>
    BY DEF IInv, ScanInv
  <2>2. \A i \in 1..Len(list) : <<list[i].conn, front[list[i].conn]>> \in Buffer
    BY ListedDevice DEF IInv, TypeOK, Buffer
  <2>3. scan[c] # Off
    BY <2>1, <2>2, NameAssumption
  <2>4. pc = "exit" => Len(list) = 0
    BY DEF IInv, ListInv
  <2> QED
    BY <2>1, <2>3, <2>4
<1> QED
  BY <1>1, Inductive, PTL
=============================================================================
