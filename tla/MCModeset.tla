----------------------------- MODULE MCModeset -----------------------------
(* Three connectors and two CRTCs, for TLC.                                *)
EXTENDS Modeset

MCConnectors == <<"lcd", "hdmi", "dp">>
MCCrtcs == <<"c0", "c1">>
MCEncoders == {"e0", "e1", "e2"}

Own == [c \in Conn |-> IF c = "lcd" THEN <<"e0">> ELSE IF c = "hdmi" THEN <<"e1">> ELSE <<"e2">>]
Shared == [c \in Conn |-> IF c = "lcd" THEN <<"e0", "e1">> ELSE IF c = "hdmi" THEN <<"e1", "e0">> ELSE <<"e1">>]
Now(e0, e1, e2) == [e \in MCEncoders |-> IF e = "e0" THEN e0 ELSE IF e = "e1" THEN e1 ELSE e2]
Uses(s) == [c \in Conn |-> s[c][1]]
Free == [c \in Conn |-> NoEncoder]
Any == [e \in MCEncoders |-> Crtc]

\* Encoders of their own or shared; idle, each on a CRTC, or clones of one.
MCWirings ==
    {[encoders |-> Own, encoder |-> Free, crtc |-> Now(NoCrtc, NoCrtc, NoCrtc),
      possible |-> [Any EXCEPT !["e0"] = {"c1"}]],
     [encoders |-> Own, encoder |-> Uses(Own), crtc |-> Now("c0", "c1", "c1"), possible |-> Any],
     [encoders |-> Own, encoder |-> Uses(Own), crtc |-> Now("c1", "c1", NoCrtc), possible |-> Any],
     [encoders |-> Shared, encoder |-> Uses(Shared), crtc |-> Now("c0", "c0", "c0"),
      possible |-> Any]}
=============================================================================
