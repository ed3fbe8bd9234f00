------------------------------ MODULE Modeset ------------------------------
(***************************************************************************)
(* The display side of drm_page1.c: finding a CRTC and two framebuffers    *)
(* for every connected screen (modeset_prepare), taking the CRTCs over,    *)
(* double buffering in the main loop, and giving everything back           *)
(* (modeset_cleanup).                                                      *)
(*                                                                         *)
(* One thread does it all; what varies is the hardware and which of the    *)
(* kernel calls fail.  A step is one kernel call that may fail and what    *)
(* the code does with its result; modeset_cleanup ignores the results of   *)
(* the removals, so those of one device are one step.  A buffer is         *)
(* <<connector, 0 or 1>>; the kernel's side is which of them have a handle,*)
(* a framebuffer and a mapping, and what each CRTC scans out.              *)
(***************************************************************************)
EXTENDS Integers, Sequences, Functions

CONSTANTS
    Connectors,  \* res->connectors, a sequence
    Crtcs,       \* res->crtcs, a sequence
    Encoders,
    Wirings,     \* the ways connectors, encoders and CRTCs may be connected
    NoCrtc, NoEncoder,
    Boot,        \* what a CRTC scans out before the program
    Off

Conn == Range(Connectors)
Crtc == Range(Crtcs)
Buffer == Conn \X {0, 1}

\* The kernel's lists name no connector and no CRTC twice.
ASSUME ListAssumption ==
    /\ Connectors \in Seq(Conn) /\ Connectors # << >> /\ IsInjective(Connectors)
    /\ Crtcs \in Seq(Crtc) /\ IsInjective(Crtcs)
ASSUME NameAssumption ==
    /\ NoCrtc \notin Crtc \union Buffer /\ NoEncoder \notin Encoders
    /\ Boot \notin Buffer /\ Off \notin Buffer /\ Boot \notin {Off, NoCrtc}

\* Wiring: the encoders of each connector, the one it uses now, the CRTC each
\* encoder is on now, and those it could be on.
ASSUME WiringAssumption ==
    Wirings \subseteq [encoders : [Conn -> Seq(Encoders)],
                       encoder  : [Conn -> Encoders \union {NoEncoder}],
                       crtc     : [Encoders -> Crtc \union {NoCrtc}],
                       possible : [Encoders -> SUBSET Crtc]]

VARIABLES
    wiring,     \* fixed
    pc,         \* where the program is
    next,       \* the connector modeset_prepare is at, the device main() is at
    dev,        \* the device being set up, and its buffer
    list,       \* modeset_list, newest first
    saved,      \* saved_crtc of each listed device
    front,      \* front_buf of each listed device
    handles, fbs, maps,     \* kernel: buffers that have one
    scan,       \* kernel: what each CRTC scans out
    lost        \* history: CRTCs that could not be saved or restored

kernelVars == <<handles, fbs, maps, scan>>
showVars == <<saved, front, lost>>
vars == <<wiring, pc, next, dev, list, showVars, kernelVars>>

NoDev == [conn |-> Connectors[1], crtc |-> NoCrtc, buf |-> 0]

Init ==
    /\ wiring \in Wirings
    /\ pc = "connector" /\ next = 1 /\ dev = NoDev /\ list = << >>
    /\ saved = [c \in Conn |-> NoCrtc] /\ front = [c \in Conn |-> 0] /\ lost = {}
    /\ handles = {} /\ fbs = {} /\ maps = {} /\ scan = [c \in Crtc |-> Boot]

-----------------------------------------------------------------------------
(* modeset_prepare, connector by connector.                                *)

\* The resources cannot be read: main() skips to out_close.
ResourcesFail ==
    /\ pc = "connector" /\ next = 1 /\ pc' = "exit"
    /\ UNCHANGED <<wiring, next, dev, list, showVars, kernelVars>>

SkipConnector ==
    /\ pc' = "connector" /\ next' = next + 1 /\ dev' = NoDev

\* The connector cannot be read, has no screen, or its screen has no mode.
ConnectorUnusable ==
    /\ pc = "connector" /\ next <= Len(Connectors) /\ SkipConnector
    /\ UNCHANGED <<wiring, list, showVars, kernelVars>>

\* Fault: only the device set up last is asked.
InUseByNewest(c) == list # << >> /\ Head(list).crtc = c
InUse(c) == \E i \in 1..Len(list) : list[i].crtc = c

\* The pairs of an encoder that answers and a free CRTC it can use, by position.
Candidates(conn, answering) ==
    LET E == wiring.encoders[conn] IN
    {p \in (1..Len(E)) \X (1..Len(Crtcs)) :
        /\ E[p[1]] \in answering /\ Crtcs[p[2]] \in wiring.possible[E[p[1]]]
        /\ ~InUse(Crtcs[p[2]])}

\* The CRTC the connector's encoder is on, if it was found and is free; else the
\* first that is free.
FindCrtc(conn, found, answering) ==
    LET e == wiring.encoder[conn]
        C == Candidates(conn, answering)
        First(p) == \A q \in C : p[1] < q[1] \/ (p[1] = q[1] /\ p[2] <= q[2])
    IN  IF found /\ wiring.crtc[e] # NoCrtc /\ ~InUse(wiring.crtc[e])
        THEN wiring.crtc[e]
        ELSE IF C = {} THEN NoCrtc ELSE Crtcs[(CHOOSE p \in C : First(p))[2]]

SetupDevice ==
    /\ pc = "connector" /\ next <= Len(Connectors)
    /\ \E found \in BOOLEAN, answering \in SUBSET Encoders :
          LET conn == Connectors[next]
              crtc == FindCrtc(conn, found /\ wiring.encoder[conn] # NoEncoder, answering)
          IN  IF crtc = NoCrtc THEN SkipConnector
              ELSE /\ dev' = [conn |-> conn, crtc |-> crtc, buf |-> 0]
                   /\ pc' = "create" /\ UNCHANGED next
    /\ UNCHANGED <<wiring, list, showVars, kernelVars>>

-----------------------------------------------------------------------------
(* modeset_create_fb.                                                      *)

This == <<dev.conn, dev.buf>>

CreateDumb ==
    /\ pc = "create" /\ pc' = "addfb"
    /\ handles' = handles \union {This}
    /\ UNCHANGED <<wiring, next, dev, list, showVars, fbs, maps, scan>>

AddFb ==
    /\ pc = "addfb" /\ pc' = "map"
    /\ fbs' = fbs \union {This}
    /\ UNCHANGED <<wiring, next, dev, list, showVars, handles, maps, scan>>

\* The second buffer completes the device.
MapBuffer ==
    /\ pc = "map"
    /\ maps' = maps \union {This}
    /\ IF dev.buf = 0
       THEN /\ pc' = "create" /\ dev' = [dev EXCEPT !.buf = 1]
            /\ UNCHANGED <<next, list>>
       ELSE /\ list' = <<dev>> \o list /\ SkipConnector
    /\ UNCHANGED <<wiring, showVars, handles, fbs, scan>>

\* Fault: the first buffer is kept when the second fails.
FirstIsKept == {}
FirstBuffer == IF dev.buf = 1 THEN {<<dev.conn, 0>>} ELSE {}

\* Any of the calls fails: the buffer's own steps are undone, then the first buffer.
BufferFails ==
    /\ pc \in {"create", "addfb", "map"}
    /\ handles' = handles \ (FirstBuffer \union IF pc = "create" THEN {} ELSE {This})
    /\ fbs' = fbs \ (FirstBuffer \union IF pc = "map" THEN {This} ELSE {})
    /\ maps' = maps \ FirstBuffer
    /\ SkipConnector
    /\ UNCHANGED <<wiring, list, showVars, scan>>

-----------------------------------------------------------------------------
(* main() and the loop.                                                    *)

Device == list[next]
Scans(d, b) == scan' = [scan EXCEPT ![d.crtc] = <<d.conn, b>>]

Prepared ==
    /\ pc = "connector" /\ next > Len(Connectors)
    /\ pc' = "save" /\ next' = 1
    /\ UNCHANGED <<wiring, dev, list, showVars, kernelVars>>

SaveCrtc ==
    /\ pc = "save" /\ next <= Len(list) /\ pc' = "show"
    /\ \/ saved' = [saved EXCEPT ![Device.conn] = scan[Device.crtc]] /\ UNCHANGED lost
       \/ lost' = lost \union {Device.crtc} /\ UNCHANGED saved
    /\ UNCHANGED <<wiring, next, dev, list, front, kernelVars>>

\* A failure is printed and ignored.
ShowDevice ==
    /\ pc = "show" /\ pc' = "save" /\ next' = next + 1
    /\ Scans(Device, front[Device.conn]) \/ UNCHANGED scan
    /\ UNCHANGED <<wiring, dev, list, showVars, handles, fbs, maps>>

\* modeset_draw uses the newest device; it returns at once when there is none.
\* The first page goes to the buffer on screen.
EnterLoop ==
    /\ pc = "save" /\ next > Len(list) /\ next' = 1
    /\ pc' = IF list = << >> THEN "cleanup" ELSE "loop"
    /\ UNCHANGED <<wiring, dev, list, showVars, kernelVars>>

\* Every later page is drawn into the other buffer ...
DrawPage ==
    /\ pc = "loop" /\ pc' = "flip"
    /\ UNCHANGED <<wiring, next, dev, list, showVars, kernelVars>>

Back == 1 - front[Device.conn]

Flip ==
    /\ pc = "flip" /\ pc' = "loop"
    /\ Scans(Device, Back) /\ front' = [front EXCEPT ![Device.conn] = Back]
    /\ UNCHANGED <<wiring, next, dev, list, saved, lost, handles, fbs, maps>>

\* Fault: the buffer counts as shown although the call failed.
FlipFailureIgnored ==
    /\ pc = "flip" /\ pc' = "loop"
    /\ front' = [front EXCEPT ![Device.conn] = Back]
    /\ UNCHANGED <<wiring, next, dev, list, saved, lost, kernelVars>>

\* ... which stays the other buffer when it cannot be shown.
FlipFails ==
    /\ pc = "flip" /\ pc' = "loop"
    /\ UNCHANGED <<wiring, next, dev, list, showVars, kernelVars>>

Stop ==
    /\ pc = "loop" /\ pc' = "cleanup"
    /\ UNCHANGED <<wiring, next, dev, list, showVars, kernelVars>>

-----------------------------------------------------------------------------
(* modeset_cleanup, device by device.                                      *)

Buffers(d) == {d.conn} \X {0, 1}

\* The kernel turns off a CRTC whose framebuffer is removed.
Without(s, B) == [c \in Crtc |-> IF s[c] \in B THEN Off ELSE s[c]]

Restored(d) == saved[d.conn] # NoCrtc

\* The CRTC is set back, which may fail.
RestoreCrtc ==
    /\ LET d == Head(list) IN
         \/ /\ Restored(d) /\ scan' = [scan EXCEPT ![d.crtc] = saved[d.conn]]
            /\ UNCHANGED lost
         \/ Restored(d) /\ lost' = lost \union {d.crtc} /\ UNCHANGED scan
         \/ ~Restored(d) /\ UNCHANGED <<scan, lost>>
    /\ UNCHANGED <<handles, fbs, maps>>

\* Both buffers go; nobody asks whether the calls succeed.
RemoveBuffers ==
    LET B == Buffers(Head(list)) IN
    /\ scan' = Without(scan, B)
    /\ maps' = maps \ B /\ fbs' = fbs \ B /\ handles' = handles \ B
    /\ UNCHANGED lost

\* Fault: the buffers go while the CRTC still shows one of them.
CleanupRemovesFirst ==
    /\ list # << >>
    /\ \/ pc = "cleanup" /\ pc' = "remove" /\ RemoveBuffers /\ UNCHANGED list
       \/ pc = "remove" /\ pc' = "cleanup" /\ RestoreCrtc /\ list' = Tail(list)
    /\ UNCHANGED <<wiring, next, dev, saved, front>>

\* The device leaves the list with its buffers; the code unlinks it before, but
\* reads the list only between devices.
CleanupDevice ==
    /\ list # << >>
    /\ \/ pc = "cleanup" /\ pc' = "remove" /\ RestoreCrtc /\ UNCHANGED list
       \/ pc = "remove" /\ pc' = "cleanup" /\ RemoveBuffers /\ list' = Tail(list)
    /\ UNCHANGED <<wiring, next, dev, saved, front>>

Exit ==
    /\ pc = "cleanup" /\ list = << >> /\ pc' = "exit"
    /\ UNCHANGED <<wiring, next, dev, list, showVars, kernelVars>>

Ended == pc = "exit" /\ UNCHANGED vars

Prepare ==
    \/ ResourcesFail \/ ConnectorUnusable \/ SetupDevice \/ Prepared
    \/ CreateDumb \/ AddFb \/ MapBuffer \/ BufferFails
Show == SaveCrtc \/ ShowDevice \/ EnterLoop \/ DrawPage \/ Flip \/ FlipFails \/ Stop
Next == Prepare \/ Show \/ CleanupDevice \/ Exit \/ Ended

Spec == Init /\ [][Next]_vars

-----------------------------------------------------------------------------
(* Properties.                                                             *)

Devices == [conn : Conn, crtc : Crtc \union {NoCrtc}, buf : {0, 1}]

TypeOK ==
    /\ wiring \in Wirings /\ next \in Nat \ {0}
    /\ pc \in {"connector", "create", "addfb", "map", "save", "show", "loop", "flip",
              "cleanup", "remove", "exit"}
    /\ dev \in Devices /\ list \in Seq(Devices)
    /\ saved \in [Conn -> Buffer \union {NoCrtc, Boot, Off}]
    /\ front \in [Conn -> {0, 1}] /\ lost \subseteq Crtc
    /\ handles \subseteq Buffer /\ fbs \subseteq Buffer /\ maps \subseteq Buffer
    /\ scan \in [Crtc -> Buffer \union {Boot, Off}]

\* No two screens are driven by one CRTC, not even when they share an encoder or
\* start out as clones: the later one would take the picture from the earlier.
OneDevicePerCrtc ==
    \A i, j \in 1..Len(list) : list[i].crtc = list[j].crtc => i = j

\* Whatever fails, the kernel holds two complete buffers for every listed device
\* and none for any other connector; at exit it holds nothing.
NothingLost ==
    pc \notin {"create", "addfb", "map"} =>
        LET owned == UNION {Buffers(list[i]) : i \in 1..Len(list)}
        IN  handles = owned /\ fbs = owned /\ maps = owned

\* Except for the first page, the loop never draws into the buffer on screen, also
\* after flips that failed and when the CRTC was never taken over.
DrawsOffScreen == pc = "flip" => scan[Device.crtc] # <<Device.conn, Back>>

\* At exit every CRTC shows what it showed before, or could not be saved or
\* restored; none goes dark before, so no buffer is removed while it is shown.
ScreenRestored ==
    \A c \in Crtc \ lost : scan[c] # Off /\ (pc = "exit" => scan[c] = Boot)

-----------------------------------------------------------------------------
(* The inductive invariant behind these properties.                        *)

Making == pc \in {"create", "addfb", "map"}
Preparing == pc = "connector" \/ Making

\* The devices are of connectors that were passed, one each, on CRTCs of their own;
\* the one being made is of the next connector, on a CRTC that is still free.
ListInv ==
    /\ OneDevicePerCrtc
    /\ \A i \in 1..Len(list) : list[i].crtc \in Crtc
    /\ \A i, j \in 1..Len(list) : list[i].conn = list[j].conn => i = j
    /\ Preparing => \A i \in 1..Len(list) : \E k \in 1..(next - 1) :
                       k <= Len(Connectors) /\ list[i].conn = Connectors[k]
    /\ Making => /\ next <= Len(Connectors) /\ dev.conn = Connectors[next]
                 /\ dev.crtc \in Crtc /\ ~InUse(dev.crtc)
    /\ pc = "show" => next <= Len(list)
    /\ pc \in {"loop", "flip"} => list # << >> /\ next = 1
    /\ pc = "remove" => list # << >>
    /\ pc = "exit" => list = << >>

\* What the kernel holds: the buffers of the devices, and those of the device being
\* made as far as it got.
Owned == {b \in Buffer : \E i \in 1..Len(list) : list[i].conn = b[1]}
BufferInv ==
    LET made == IF Making THEN Owned \union FirstBuffer ELSE Owned IN
    /\ handles = made \union (IF pc \in {"addfb", "map"} THEN {This} ELSE {})
    /\ fbs = made \union (IF pc = "map" THEN {This} ELSE {})
    /\ maps = made

\* The devices whose CRTC was saved, and those that may have been shown.
Saved == {i \in 1..Len(list) :
            \/ pc \in {"loop", "flip", "cleanup", "remove"}
            \/ pc = "save" /\ i < next
            \/ pc = "show" /\ i <= next}
Shown == {i \in 1..Len(list) :
            pc \in {"loop", "flip", "cleanup", "remove"} \/ (pc \in {"save", "show"} /\ i < next)}

\* A CRTC shows what it did at the start, the front buffer of its device, or
\* nothing, when it could not be restored.
ScanInv == \A c \in Crtc :
    \/ scan[c] = Boot
    \/ scan[c] = Off /\ c \in lost /\ pc \in {"cleanup", "remove", "exit"}
    \/ \E i \in 1..Len(list) :
          /\ i \in Shown /\ list[i].crtc = c
          /\ scan[c] = <<list[i].conn, front[list[i].conn]>>

SavedInv ==
    /\ \A c \in Conn : saved[c] \in {NoCrtc, Boot}
    /\ \A i \in 1..Len(list) :
          i \in Saved /\ saved[list[i].conn] = NoCrtc => list[i].crtc \in lost

\* The buffers go once the CRTC does not show them, or could not be set back.
RemoveInv ==
    pc = "remove" => Head(list).crtc \in lost \/ scan[Head(list).crtc] = Boot

IInv == TypeOK /\ ListInv /\ BufferInv /\ ScanInv /\ SavedInv /\ RemoveInv
=============================================================================
