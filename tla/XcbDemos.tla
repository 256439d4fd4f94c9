------------------------------ MODULE XcbDemos -------------------------------
(***************************************************************************)
(* One run of either demo against the X server.                            *)
(***************************************************************************)
EXTENDS XcbDisplay, XcbGradients

vars == <<main, server, window, frame, display>>

TypeOK == WindowTypeOK /\ DisplayTypeOK

Init == WindowInit /\ DisplayInit

Step ==
  \/ DisplayStep
  \/ (WindowStep \/ GradientsStep) /\ UNCHANGED display

Next == Step \/ (Environment /\ UNCHANGED display)

Spec == Init /\ [][Next]_vars

(* The demo has one thread, which never waits for an event.  The X server  *)
(* answers requests; of its events none is owed to the demo.               *)
FairSpec == Spec /\ WF_vars(Step)

-----------------------------------------------------------------------------
(* A frame goes into the back buffer of the window: what is executed       *)
(* writes to the object the server will swap, which has the size the       *)
(* kernel was told, whatever happened to the window in between.            *)
(* (draw, from get_backbuffer to swap_buffers.)                            *)
FrameIsShown ==
  pc \in {"execute", "swap"} => buf = [name |-> back.name, size |-> back.size]

(* The pixels of a frame are computed from memory the program has set.     *)
(*                                                                         *)
(* The display reads from its images what update_pattern has filled in,    *)
(* which is never more than the window's size of some time: the first call *)
(* comes ahead of the first event.  It reads past the images only when the *)
(* window has grown too large after the last event that was read and the   *)
(* news are on the way: the guard of draw (i915_xcb_display.cc:521) looks  *)
(* at what was read, the buffer has the size of now.                       *)
(*                                                                         *)
(* The lines the stripes of the gradients leave over do not run past the   *)
(* entries of the colour map.  When there are fewer lines they do, and     *)
(* with fewer lines than stripes the kernel divides by zero.               *)
Announced ==
  \E i \in 1..Len(events) : events[i].kind = "configure" /\ TooLarge(events[i].size)
PixelsDefined ==
  pc = "execute" =>
    IF program = "display"
    THEN IF TooLarge(buf.size) THEN Announced \/ lost
         ELSE \A k \in SourcesRead : SourceAt(k) # 0
    ELSE buf.size[2] >= Stripes * (Stripes - 1) =>
           \A j \in 0..buf.size[2] - 1 : ColourOf(j, buf.size[2]) < Colours

(* Every pixel of the frame is written, by one work item, to where a tiled *)
(* surface has it, for each pitch of whole tiles.  (DIV_ROUND_UP and the   *)
(* range of execute, with y_offset in the kernels.)                        *)
TileOf(i, j, pitch) == (j \div TileHeight) * (pitch \div TileWidth) + i \div TileWidth
PixelsPlaced ==
  pc = "execute" =>
    LET whole == WorkSize(buf.size)[1]
    IN \A i \in 0..buf.size[1] - 1, j \in 0..buf.size[2] - 1 :
         /\ i < whole /\ j < WorkSize(buf.size)[2]
         /\ \A pitch \in {whole, whole + TileWidth} :
              Offset(i, j, pitch) = TileOf(i, j, pitch) * TileWidth * TileHeight
                + (j % TileHeight) * TileWidth + (i % TileWidth)

(* The process is aborted only when the window could not be made, which    *)
(* its constructor keeps to itself; it never comes to the loop then.       *)
(* (XCBWindow::XCBWindow, the catch clause, with ~XCBWindow.)              *)
AbortsOnlyUnreported ==
  /\ result = "terminated" => swallowed
  /\ swallowed => pc \notin Loop \cup {"authenticate", "kernel"}

(* A demo whose window was closed, or whose connection broke, ends; but    *)
(* the display does not when it took the window for too large at that time,*)
(* because then it makes no request that could fail.                       *)
Closing == lost \/ closed \/ \E i \in 1..Len(events) : events[i].kind = Delete
ClosedEnds ==
  Closing ~> Ended \/ (lost /\ program = "display" /\ TooLarge(size) /\ ~closed)

(* When the window changes no more, the picture that is shown comes to     *)
(* have its size, and the pattern that belongs to it.                      *)
PictureSettles ==
  <>[](\/ Ended
       \/ lost
       \/ program = "display" /\ TooLarge(actual)
       \/ shown = [size |-> actual, picture |-> {actual[2]}])
=============================================================================
