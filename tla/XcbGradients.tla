---------------------------- MODULE XcbGradients -----------------------------
(***************************************************************************)
(* The demo i915_xcb_gradients: stripes whose colours come from a table,   *)
(* and which move with the time.  It starts with a smaller window, which   *)
(* it may ask to be made as large as the screen, and draws any size.       *)
(***************************************************************************)
EXTENDS XcbWindow

CONSTANTS
  Stripes,  \* 7
  Colours   \* 8, the entries of the colour map that are set

ASSUME GradientsAssumption ==
  Stripes \in Nat \ {0} /\ Colours \in Nat /\ Colours > Stripes

(* With -f, XCBWindow::set_fullscreen asks the window manager, if there is *)
(* one that knows how; what comes of it are events like others.            *)
SetFullscreen ==
  /\ program = "gradients"
  /\ \/ Advance("fullscreen", "rte")
     \/ Throw("fullscreen")
     \/ Crash("fullscreen")
  /\ UNCHANGED <<server, window, frame>>

(* The kernel and the colour map.                                          *)
GradientsReady ==
  /\ program = "gradients"
  /\ \/ Construct("kernel", "loop", "sources") /\ UNCHANGED swallowed
     \/ Throw("kernel")
  /\ UNCHANGED <<server, window, frame>>

(* The time is taken for the frame's position, which may fail.             *)
GradientsTurn ==
  /\ program = "gradients" /\ ~closed
  /\ Advance("loop", "poll") \/ Throw("loop")
  /\ UNCHANGED <<server, window, frame>>

GradientsDraws == program = "gradients" /\ GetBackbuffer

StripeHeight(h) == h \div Stripes

(* colormap_idx of a line                                                  *)
ColourOf(j, h) == j \div StripeHeight(h)

GradientsExecutes ==
  /\ program = "gradients"
  /\ Executed({buf.size[2]})

GradientsCloses ==
  /\ program = "gradients" /\ closed
  /\ Leave("loop", "success")
  /\ UNCHANGED <<server, window, frame>>

GradientsStep ==
  \/ SetFullscreen \/ GradientsReady \/ GradientsTurn \/ GradientsCloses
  \/ GradientsDraws \/ GradientsExecutes
=============================================================================
