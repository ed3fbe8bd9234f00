---------------------------- MODULE TouchPages ----------------------------
(***************************************************************************)
(* Touch input, pages and redraws of drm_page1.c: the kernel's queue of    *)
(* input packets, ui_poll_input that reads it once per turn of the main    *)
(* loop, ui_handle_touch_base that acts on taps, and the redraw that shows *)
(* what they changed.                                                      *)
(*                                                                         *)
(* The panel follows fingers in slots, which the code takes for one finger.*)
(* A packet carries what changed since the one before: the kernel drops    *)
(* coordinates a slot had already, and when the queue is full it keeps     *)
(* only the end of the newest packet (behind a SYN_DROPPED, which the code *)
(* does not look at).  at is the fingers a packet was sent for.            *)
(***************************************************************************)
EXTENDS Integers, Sequences, FiniteSetsExt

CONSTANTS
    Panels,     \* size, range of raw coordinates, fingers it tells apart, where it is
                \* touched (spots), packets its queue holds, where fingers are at the
                \* start (rests), and touches, a bound on their changes
    Margin      \* the tests' own: how far a button may be off its picture

Finger(s, d) == [x |-> s[1], y |-> s[2], down |-> d]
FingersOn(p) ==
    {f \in [x : p.xMin..p.xMax, y : p.yMin..p.yMax, down : BOOLEAN] : <<f.x, f.y>> \in p.spots}

PanelsFit == \A p \in Panels :
    /\ p.width \in Nat \ {0, 1} /\ p.height \in Nat \ {0, 1}
    /\ {p.xMin, p.xMax, p.yMin, p.yMax} \subseteq Int /\ p.xMin < p.xMax /\ p.yMin < p.yMax
    /\ p.fingers \in Nat \ {0} /\ p.packets \in Nat \ {0} /\ p.touches \in Nat
    /\ p.rests # {} /\ p.rests \subseteq FingersOn(p)
    /\ p.spots # {} /\ p.spots \subseteq (p.xMin..p.xMax) \X (p.yMin..p.yMax)
ASSUME PanelAssumption == PanelsFit
ASSUME BoundAssumption == Margin \in Nat
\* Up to 5 pixels of a button's place are lost in rounding it; the labels at the bottom
\* are two rows of the layout off as well.
ASSUME MarginAssumption == \A p \in Panels :
    \/ Margin >= 5 /\ Margin > p.height \div 240
    \/ Margin >= 3 /\ <<p.width, p.height>> \in {<<800, 480>>, <<1280, 720>>}

Axes == {"x", "y"}
Fields == Axes \union {"down"}
Pages == {"main", "fft", "hold", "scope"}

VARIABLES
    panel,      \* fixed
    finger,     \* by slot, as the kernel knows it
    queue, touches,
    input,      \* input_raw_x, input_raw_y, touch_down
    seen,       \* input_have_x, input_have_y: axes that were reported
    look,       \* the part of ui_state_t the pages show
    dirty,
    pc, need,   \* the main loop, need_redraw
    shown,      \* the look last shown
    read, source, stale, missed     \* history: the fingers at the last packet read,
                            \* the slot input was last set from, what was not reported
                            \* since the start or a loss, the last flip failed

kernelVars == <<panel, finger, queue, touches>>
inputVars == <<input, seen, look, read, source>>
drawVars == <<shown, missed>>
vars == <<kernelVars, inputVars, stale, dirty, pc, need, drawVars>>

Slots == 0..(panel.fingers - 1)     \* as ABS_MT_SLOT counts them

Init ==
    /\ panel \in Panels
    /\ finger \in [Slots -> panel.rests]
    /\ queue = << >> /\ touches = 0
    /\ input = [x |-> 0, y |-> 0, down |-> FALSE] /\ seen = {}
    /\ look = [page |-> "main", tab |-> "voltage", cleared |-> "none", frozen |-> FALSE,
               running |-> TRUE, edge |-> "rising"]
    /\ dirty = FALSE /\ pc = "poll" /\ need = FALSE
    /\ shown = look /\ missed = FALSE
    /\ read = finger /\ source = [f \in Fields |-> 0]
    /\ stale = Axes \union IF \E s \in Slots : finger[s].down THEN {"down"} ELSE {}

-----------------------------------------------------------------------------
(* The kernel's input core.                                                *)

Full == Len(queue) = panel.packets

FieldsOf(changes) == {c[2] : c \in changes}
Sent == UNION {FieldsOf(queue[i].changes) : i \in DOMAIN queue}

\* The ends of a packet; the order of a slot's own events is the driver's.
Ends(changes) ==
    {left \in SUBSET changes : \A c \in left, d \in changes : d[1] > c[1] => d \in left}

Report(f) ==
    LET changes == {c \in Slots \X Fields : f[c[1]][c[2]] # finger[c[1]][c[2]]} IN
    /\ changes # {} /\ touches < panel.touches
    /\ touches' = touches + 1 /\ finger' = f
    /\ \/ /\ ~Full
          /\ queue' = Append(queue, [changes |-> changes, at |-> f])
          /\ UNCHANGED stale
       \/ /\ Full
          /\ \E left \in Ends(changes) : queue' = <<[changes |-> left, at |-> f]>>
          /\ stale' = stale \union Sent \union FieldsOf(changes)
    /\ UNCHANGED <<panel, inputVars, dirty, pc, need, drawVars>>

\* Some fingers are put on the panel, moved or lifted, all in one packet.  A lifted
\* finger leaves its place behind in its slot.
Touch ==
    LET Places == {Finger(to, TRUE) : to \in panel.spots}
                  \union {[finger[s] EXCEPT !.down = FALSE] : s \in Slots}
    IN  \E f \in [Slots -> Places \union {finger[s] : s \in Slots}] :
           /\ \A s \in Slots :
                 f[s] \in {finger[s], [finger[s] EXCEPT !.down = FALSE]} \/ f[s].down
           /\ Report(f)

-----------------------------------------------------------------------------
(* What is touched.                                                        *)

\* input_abs_to_screen and the scaling to the 800 x 480 the pages are laid out in.
PixelX(x) == ((x - panel.xMin) * (panel.width - 1)) \div (panel.xMax - panel.xMin)
PixelY(y) == ((y - panel.yMin) * (panel.height - 1)) \div (panel.yMax - panel.yMin)
BaseX(x) == (PixelX(x) * 800) \div panel.width
\* Fault: a pixel is taken for a point of the layout.
BaseYUnscaled(y) == PixelY(y)
BaseY(y) == (PixelY(y) * 480) \div panel.height

Area(name, on, x, y, w, h) ==
    [name |-> name, on |-> on, x |-> x, y |-> y, w |-> w, h |-> h]

Areas ==
    {Area("main", Pages, 46, 416, 168, 28), Area("fft", Pages, 226, 416, 168, 28),
     Area("hold", Pages, 406, 416, 168, 28), Area("scope", Pages, 586, 416, 168, 28),
     Area("voltage", {"fft"}, 564, 150, 92, 30), Area("current", {"fft"}, 664, 150, 92, 30),
     Area("max", {"hold"}, 48, 356, 220, 34), Area("min", {"hold"}, 290, 356, 220, 34),
     Area("freeze", {"hold"}, 532, 356, 220, 34), Area("run", {"scope"}, 532, 356, 220, 34),
     Area("edge", {"scope"}, 290, 356, 220, 34)}

Hit(a, x, y) == x >= a.x /\ x < a.x + a.w /\ y >= a.y /\ y < a.y + a.h

\* What a button does.
Press(l, b) ==
    CASE b \in Pages -> [l EXCEPT !.page = b]
      [] b \in {"voltage", "current"} -> [l EXCEPT !.tab = b]
      [] b \in {"max", "min"} -> [l EXCEPT !.cleared = b]
      [] b = "freeze" -> [l EXCEPT !.frozen = ~@]
      [] b = "run" -> [l EXCEPT !.running = ~@]
      [] b = "edge" -> [l EXCEPT !.edge = IF @ = "rising" THEN "falling" ELSE "rising"]

\* Fault: only a new page is drawn.
DirtyIfPage(b) == dirty \/ b \in Pages
DirtyAfter(b) == TRUE

Buttons(x, y) == {a \in Areas : look.page \in a.on /\ Hit(a, x, y)}

HandleTouch(x, y) ==
    \/ Buttons(x, y) = {} /\ UNCHANGED <<look, dirty>>
    \/ \E a \in Buttons(x, y) : look' = Press(look, a.name) /\ dirty' = DirtyAfter(a.name)

-----------------------------------------------------------------------------
(* The main loop.                                                          *)

\* Fault: a dragged finger keeps tapping.
TapsWhileDown(now) == now.down
Taps(now) == now.down /\ ~input.down

\* The slots whose events set a field; of several, the last one's stays.
Reporters(p, f) == {s \in DOMAIN p.at : <<s, f>> \in p.changes}

\* Fault: a lift is not noted.
AfterNoLift(p) ==
    [f \in Fields |->
        LET by == {s \in Reporters(p, f) : f # "down" \/ p.at[s].down}
        IN  IF by = {} THEN input[f] ELSE p.at[Max(by)][f]]
After(p) ==
    [f \in Fields |->
        IF Reporters(p, f) = {} THEN input[f] ELSE p.at[Max(Reporters(p, f))][f]]

ReadPacket ==
    /\ pc = "poll" /\ queue # << >> /\ queue' = Tail(queue)
    /\ LET p == Head(queue)
           now == After(p)
       IN  /\ input' = now /\ seen' = seen \union (FieldsOf(p.changes) \ {"down"})
           /\ IF Taps(now) /\ seen' = Axes
              THEN HandleTouch(BaseX(now.x), BaseY(now.y))
              ELSE UNCHANGED <<look, dirty>>
           /\ stale' = stale \ FieldsOf(p.changes) /\ read' = p.at
           /\ source' = [f \in Fields |-> IF Reporters(p, f) = {} THEN source[f]
                                         ELSE Max(Reporters(p, f))]
    /\ UNCHANGED <<panel, finger, touches, pc, need, drawVars>>

PollDone ==
    /\ pc = "poll" /\ queue = << >>
    /\ need' = dirty /\ dirty' = FALSE /\ pc' = "update"
    /\ UNCHANGED <<kernelVars, inputVars, stale, drawVars>>

\* Fault: the reading is not drawn by itself.
RefreshUndrawn ==
    /\ pc = "update" /\ pc' = IF need THEN "draw" ELSE "poll"
    /\ UNCHANGED <<kernelVars, inputVars, stale, need, dirty, drawVars>>

\* A second passed and power_model_step has a reading, or a frame came on the
\* running scope page.
Refresh ==
    /\ pc = "update" /\ need' = TRUE /\ pc' = "draw"
    /\ UNCHANGED <<kernelVars, inputVars, stale, dirty, drawVars>>

NoRefresh ==
    /\ pc = "update" /\ pc' = IF need THEN "draw" ELSE "poll"
    /\ UNCHANGED <<kernelVars, inputVars, stale, need, dirty, drawVars>>

Draw ==
    /\ pc = "draw" /\ pc' = "poll" /\ need' = FALSE
    /\ shown' = look /\ missed' = FALSE
    /\ UNCHANGED <<kernelVars, inputVars, stale, dirty>>

\* The flip fails; the loop goes on as if it had not.
DrawFails ==
    /\ pc = "draw" /\ pc' = "poll" /\ need' = FALSE /\ missed' = TRUE
    /\ UNCHANGED <<kernelVars, inputVars, stale, dirty, shown>>

Loop == ReadPacket \/ PollDone \/ Refresh \/ NoRefresh \/ Draw \/ DrawFails
Next == Touch \/ Loop

\* The loop runs on; readings keep coming, and some flips succeed.
Fairness ==
    /\ WF_vars(Loop) /\ SF_vars(Refresh) /\ SF_vars(Draw)
Spec == Init /\ [][Next]_vars /\ Fairness

-----------------------------------------------------------------------------
(* Properties.                                                             *)

Looks == [page : Pages, tab : {"voltage", "current"}, cleared : {"none", "max", "min"},
          frozen : BOOLEAN, running : BOOLEAN, edge : {"rising", "falling"}]

Fingers == FingersOn(panel)

TypeOK ==
    /\ panel \in Panels /\ source \in [Fields -> Slots]
    /\ finger \in [Slots -> Fingers] /\ read \in [Slots -> Fingers]
    /\ queue \in Seq([changes : SUBSET (Slots \X Fields), at : [Slots -> Fingers]])
    /\ Len(queue) <= panel.packets /\ touches \in 0..panel.touches
    /\ seen \subseteq Axes /\ stale \subseteq Fields
    /\ look \in Looks /\ shown \in Looks
    /\ {input.down, dirty, need, missed} \subseteq BOOLEAN
    /\ pc \in {"poll", "update", "draw"}

\* Where the pages draw their buttons, in pixels.
ScaleX(x) == (x * panel.width) \div 800
ScaleY(y) == (y * panel.height) \div 480
NavW == (ScaleX(732) - ScaleX(12) * 5) \div 4
Nav(name, i) ==
    Area(name, Pages, ScaleX(34) + ScaleX(12) * (i + 1) + NavW * i,
         ScaleY(414) + (ScaleY(36) - ScaleY(28)) \div 2, NavW, ScaleY(28))
Tab(name, x) ==
    Area(name, {"fft"}, ScaleX(48) + ScaleX(x), ScaleY(142) + ScaleY(8), ScaleX(92), ScaleY(30))
Button(name, page, x) ==
    Area(name, {page}, ScaleX(x), ScaleY(356), ScaleX(220), ScaleY(34))
Drawn ==
    {Nav("main", 0), Nav("fft", 1), Nav("hold", 2), Nav("scope", 3),
     Tab("voltage", 516), Tab("current", 616),
     Button("max", "hold", 48), Button("min", "hold", 290), Button("freeze", "hold", 532),
     Button("edge", "scope", 290), Button("run", "scope", 532)}

Grown(a, m) == [a EXCEPT !.x = @ - m, !.y = @ - m, !.w = @ + 2 * m, !.h = @ + 2 * m]
OnDrawn(f, m) ==
    {a \in Drawn : look.page \in a.on /\ Hit(Grown(a, m), PixelX(f.x), PixelY(f.y))}

\* A button answers where its picture is, in pixels of any screen, and nowhere else.
PicturesAnswer ==
    \A spot \in panel.spots :
        LET at == Finger(spot, TRUE)  hit == Buttons(BaseX(at.x), BaseY(at.y)) IN
        /\ hit = {} => OnDrawn(at, -Margin) = {}
        /\ \A a \in hit : \E b \in OnDrawn(at, Margin) : b.name = a.name

\* Finger s alone comes with the packet, all of the code's input that the packet
\* leaves alone was reported for s, and touch_down is whether any finger is down.
Known(p, s) ==
    /\ {c[1] : c \in p.changes} = {s}
    /\ "down" \notin stale /\ input.down = (\E t \in DOMAIN read : read[t].down)
    /\ \A a \in Axes : <<s, a>> \in p.changes \/ (a \notin stale /\ source[a] = s)

\* A finger put on a button's picture does what the button says, once; one clear of
\* every picture, a drag, a lift and a second finger do nothing.  What makes a tap go
\* wrong is only what the kernel has not reported since the start or a loss, a
\* coordinate the other slot set last, and one finger lifted while the other stays.
TapsExact ==
    [][\A s \in Slots : ReadPacket /\ Known(Head(queue), s) =>
         LET at == Head(queue).at[s]
             pressed == at.down /\ \A t \in Slots : ~read[t].down
         IN
         \/ look' = look /\ (pressed => OnDrawn(at, -Margin) = {})
         \/ pressed /\ \E b \in OnDrawn(at, Margin) : look' = Press(look, b.name)]_vars

\* Neither a loss nor a second finger is for ever: with the queue read, what was
\* reported since is right, for the finger that reported it last.
InputSettles ==
    queue = << >> => \A f \in Fields : input[f] = finger[source[f]][f] \/ f \in stale

\* The screen shows the pages' state but for what is about to be drawn and what
\* a failed flip kept out ...
NothingForgotten == shown = look \/ dirty \/ need \/ missed

\* ... and that is made up for by the next reading, though dirty was cleared.
CatchesUp == (shown # look) ~> (shown = look)

-----------------------------------------------------------------------------
(* The inductive invariant.                                                *)

\* No packet behind the i-th reports field f of slot s.
LastReport(i, s, f) == \A j \in DOMAIN queue : j > i => <<s, f>> \notin queue[j].changes

\* What no packet in the queue will change is as the kernel has it.
QueueInv ==
    \A i \in DOMAIN queue, s \in Slots, f \in Fields :
        LastReport(i, s, f) => queue[i].at[s][f] = finger[s][f]

\* A packet's fingers are those before it but for its changes; before the first are
\* the fingers last read, but for what was lost.
Follows(i, s, f) ==
    \/ <<s, f>> \in queue[i].changes
    \/ i = 1 /\ (f \in stale \/ queue[i].at[s][f] = read[s][f])
    \/ i > 1 /\ queue[i].at[s][f] = queue[i - 1].at[s][f]
ChainInv == \A i \in DOMAIN queue, s \in Slots, f \in Fields : Follows(i, s, f)

\* The input is of the fingers last read, but for what was not reported.
InputInv ==
    /\ Axes \ stale \subseteq seen
    /\ \A f \in Fields \ stale :
          /\ input[f] = read[source[f]][f]
          /\ \A s \in Slots : LastReport(0, s, f) => read[s][f] = finger[s][f]

\* need_redraw is a local of the turn.
LoopInv == pc = "poll" => need = FALSE

IInv == TypeOK /\ QueueInv /\ ChainInv /\ InputInv /\ LoopInv /\ NothingForgotten
=============================================================================
