----------------------------- MODULE XcbDisplay ------------------------------
(***************************************************************************)
(* The demo i915_xcb_display: three source images of fixed size hold a     *)
(* pattern that fits the window's size, as the program knows it, and a     *)
(* kernel converts the part of the window's size to the back buffer.       *)
(*                                                                         *)
(* The three images are always written together and are one here.  Of a    *)
(* pixel only the height matters that its line's colour was computed for.  *)
(***************************************************************************)
EXTENDS XcbWindow

CONSTANTS
  MaxWidth,   \* 3840
  MaxHeight   \* 2160

(* The window is asked to be as large as the images.                       *)
ASSUME DisplayAssumption ==
  /\ MaxWidth \in Nat \ {0} /\ MaxHeight \in Nat \ {0}
  /\ "display" \in Programs => StartSize["display"] = <<MaxWidth, MaxHeight>>

VARIABLES
  last,       \* last_width, last_height
  source      \* pixel -> the height it was computed for, 0 for none

display == <<last, source>>

Pixels == (0..MaxWidth - 1) \X (0..MaxHeight - 1)
TooLarge(s) == s[1] > MaxWidth \/ s[2] > MaxHeight

DisplayTypeOK ==
  /\ last \in Sizes \cup {NoSize}
  /\ source \in [Pixels -> Nat]

DisplayInit ==
  /\ last = NoSize
  /\ source = [p \in Pixels |-> 0]

(* The kernel and the images.                                              *)
DisplayReady ==
  /\ program = "display"
  /\ \/ Construct("kernel", "loop", "sources") /\ UNCHANGED swallowed
     \/ Throw("kernel")
  /\ UNCHANGED <<server, window, frame, display>>

(* Variant: only the lines that are new are written.                       *)
UpdateNew(s) ==
  [p \in Pixels |-> IF p[1] < s[1] /\ p[2] < s[2] /\ source[p] = 0 THEN s[2] ELSE source[p]]

(* update_pattern                                                          *)
Updated(s) ==
  IF TooLarge(s) THEN source
  ELSE [p \in Pixels |-> IF p[1] < s[1] /\ p[2] < s[2] THEN s[2] ELSE source[p]]

DisplayTurn ==
  /\ program = "display" /\ ~closed
  /\ Advance("loop", "poll")
  /\ last' = size
  /\ source' = IF last # size THEN Updated(size) ELSE source
  /\ UNCHANGED <<server, window, frame>>

(* The window is taken to be too large for a frame.                        *)
DisplaySkips ==
  /\ program = "display" /\ TooLarge(size)
  /\ Advance("draw", "loop")
  /\ UNCHANGED <<server, window, frame, display>>

(* Variant: the size is not looked at.                                     *)
DisplayDrawsAll ==
  /\ program = "display"
  /\ GetBackbuffer
  /\ UNCHANGED display

DisplayDraws ==
  /\ program = "display" /\ ~TooLarge(size)
  /\ GetBackbuffer
  /\ UNCHANGED display

(* Where the kernel looks for the pixel of column i and line j.            *)
SourceOffset(i, j) == j * MaxWidth + i
SourceAt(k) ==
  IF k < MaxWidth * MaxHeight THEN source[<<k % MaxWidth, k \div MaxWidth>>] ELSE 0
SourcesRead == {SourceOffset(i, j) : i \in 0..buf.size[1] - 1, j \in 0..buf.size[2] - 1}

DisplayExecutes ==
  /\ program = "display"
  /\ Executed({SourceAt(k) : k \in SourcesRead})
  /\ UNCHANGED display

DisplayCloses ==
  /\ program = "display" /\ closed
  /\ Leave("loop", "success")
  /\ UNCHANGED <<server, window, frame, display>>

DisplayStep ==
  \/ DisplayReady \/ DisplayTurn \/ DisplayCloses
  \/ DisplaySkips \/ DisplayDraws \/ DisplayExecutes
=============================================================================
