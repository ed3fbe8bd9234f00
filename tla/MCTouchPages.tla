--------------------------- MODULE MCTouchPages ---------------------------
(* Panels of the layout's size, for one finger and for two, and one that    *)
(* both axes are scaled on.                                                 *)
EXTENDS TouchPages, TLC

\* The FFT and SCOPE buttons, a tab, and both buttons of the SCOPE page.
Lcd == [fingers |-> 1, packets |-> 2, touches |-> 4,
        width |-> 800, height |-> 480, xMin |-> 0, xMax |-> 799, yMin |-> 0, yMax |-> 479,
        spots |-> {<<310, 430>>, <<640, 430>>, <<700, 165>>, <<640, 373>>, <<310, 373>>}]

\* The HOLD button; FREEZE just inside and just outside its picture, CLEAR MIN, and
\* the last rows of the SCOPE button, which are drawn but do not answer.
Hdmi == [fingers |-> 1, packets |-> 2, touches |-> 5,
         width |-> 1280, height |-> 720, xMin |-> 0, xMax |-> 4095, yMin |-> 0, yMax |-> 4095,
         spots |-> {<<2090, 3590>>, <<2727, 3050>>, <<3862, 3050>>, <<2090, 3300>>,
                    <<3862, 3800>>}]

\* The FFT button and a tab, apart on both axes, for two fingers.
TwoFingers == [rests |-> {Finger(<<700, 165>>, FALSE)}] @@
              [Lcd EXCEPT !.fingers = 2,
                          !.spots = {<<310, 430>>, <<700, 165>>}]
Anywhere(p) == [rests |-> {Finger(s, d) : s \in p.spots, d \in BOOLEAN}] @@ p
MCPanels == {Anywhere(Lcd), Anywhere(Hdmi), TwoFingers}
=============================================================================
