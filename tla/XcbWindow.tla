------------------------------ MODULE XcbWindow ------------------------------
(***************************************************************************)
(* What the two X demos have in common: the connection to the X server, the*)
(* window with its DRI2 back buffer, the events, the construction of the   *)
(* locals of main and their destruction, in reverse order, when main       *)
(* returns or an exception leaves its try block.                           *)
(*                                                                         *)
(* The X server is external.  It resizes the window and sends events when  *)
(* it likes; requests and replies are one step; it has a new back buffer,  *)
(* of the window's size of then, when one is asked for after a resize.     *)
(*                                                                         *)
(* A window's size is a pair, width first.                                 *)
(***************************************************************************)
EXTENDS Integers, Sequences, FiniteSets

CONSTANTS
  Programs,   \* the demos: a subset of {"display", "gradients"}
  StartSize,  \* the size each asks for: XCBWindow::width and height
  Sizes,      \* sizes the window may be given
  Names,      \* global names of GEM objects
  TileWidth,  \* 128 pixels
  TileHeight, \* 8 lines
  MaxEvents   \* bound: events the server sends

ASSUME WindowAssumption ==
  /\ Programs \subseteq {"display", "gradients"}
  /\ Sizes \subseteq (Nat \ {0}) \X (Nat \ {0})
  /\ StartSize \in [Programs -> Sizes]
  /\ Names # {}
  /\ TileWidth \in Nat \ {0} /\ TileHeight \in Nat \ {0}
  /\ MaxEvents \in Nat

VARIABLES
  program, pc,
  result,         \* how the process ends
  objects,        \* the locals of main that are constructed
  swallowed,      \* history: the constructor of XCBWindow caught an exception
  actual,         \* the window's size at the server
  events,         \* sent and not read; a configure event is the new size
  sent,           \* how many were sent
  back,           \* the back buffer at the server and the picture in it
  lost,           \* the connection is broken
  size, closed,   \* XCBWindow::width, height and closed
  registered,     \* XCBConnection::windows has the window
  drm_connected,
  buf,            \* what get_backbuffer returned for this frame
  shown           \* what was swapped last


main == <<program, pc, result, objects, swallowed>>
server == <<actual, events, sent, back, lost>>
window == <<size, closed, registered, drm_connected>>
frame == <<buf, shown>>

Delete == "delete"    \* WM_PROTOCOLS with WM_DELETE_WINDOW
Other == "other"      \* expose, other client messages, other events
NoSize == <<0, 0>>
NoBuffer == [name |-> "none", size |-> NoSize]

(* A picture is the set of heights its pixels were computed for.           *)
Unknown == {}

Setup == {"connect", "window", "fullscreen", "rte", "authenticate", "kernel"}
Loop == {"loop", "poll", "draw", "execute", "swap"}
Ended == pc = "end"

Event ==
  [kind : {"configure"}, size : Sizes] \cup [kind : {Delete, Other}, size : {NoSize}]

WindowTypeOK ==
  /\ program \in Programs
  /\ pc \in Setup \cup Loop \cup {"unwind", "end"}
  /\ result \in {"none", "success", "failure", "terminated", "crashed"}
  /\ objects \in Seq({"xcb", "win", "rte", "sources"}) /\ Len(objects) \in 0..4
  /\ swallowed \in BOOLEAN /\ lost \in BOOLEAN
  /\ actual \in Sizes
  /\ events \in Seq(Event)
  /\ sent \in 0..MaxEvents /\ Len(events) \in 0..sent
  /\ back \in [name : Names \cup {"none"}, size : Sizes \cup {NoSize}, picture : SUBSET Nat]
  /\ size \in Sizes
  /\ closed \in BOOLEAN /\ registered \in BOOLEAN /\ drm_connected \in BOOLEAN
  /\ buf \in [name : Names \cup {"none"}, size : Sizes \cup {NoSize}]
  /\ shown \in [size : Sizes \cup {NoSize}, picture : SUBSET Nat]

WindowInit ==
  /\ program \in Programs
  /\ pc = "connect" /\ result = "none"
  /\ objects = <<>> /\ swallowed = FALSE
  /\ actual = StartSize[program] /\ events = <<>> /\ sent = 0
  /\ back = [name |-> "none", size |-> NoSize, picture |-> Unknown] /\ lost = FALSE
  /\ size = StartSize[program] /\ closed = FALSE
  /\ registered = FALSE /\ drm_connected = FALSE
  /\ buf = NoBuffer /\ shown = [size |-> NoSize, picture |-> Unknown]

-----------------------------------------------------------------------------
(* The X server and the window manager                                     *)

Exists == registered

Send(e) ==
  /\ Exists /\ ~lost /\ sent < MaxEvents
  /\ events' = Append(events, e)
  /\ sent' = sent + 1
  /\ UNCHANGED <<main, window, frame, back, lost>>

Resize ==
  \E s \in Sizes \ {actual} :
    /\ Send([kind |-> "configure", size |-> s])
    /\ actual' = s

Notify ==
  /\ \E k \in {Delete, Other} : Send([kind |-> k, size |-> NoSize])
  /\ UNCHANGED actual

(* From now on no event can be read and no request is answered.            *)
Lose ==
  /\ ~lost /\ ~Ended
  /\ lost' = TRUE
  /\ events' = <<>>
  /\ UNCHANGED <<main, window, frame, actual, sent, back>>

Environment == Resize \/ Notify \/ Lose

-----------------------------------------------------------------------------
(* main, up to its loop                                                    *)

Go(from, to) == pc = from /\ pc' = to
Advance(from, to) == Go(from, to) /\ UNCHANGED <<program, result, objects, swallowed>>
Construct(from, to, o) ==
  /\ Go(from, to)
  /\ objects' = Append(objects, o)
  /\ UNCHANGED <<program, result>>

(* An exception comes to the handler of main, or main returns: the locals  *)
(* are destroyed on the way.                                               *)
Leave(from, r) ==
  /\ Go(from, "unwind")
  /\ result' = r
  /\ UNCHANGED <<program, objects, swallowed>>
Throw(from) == Leave(from, "failure")

(* A reply that is missing is used without a look.  There is none when the *)
(* connection is lost, and none when the server answers with an error.     *)
Crash(from) ==
  /\ Go(from, "end")
  /\ result' = "crashed"
  /\ UNCHANGED <<program, objects, swallowed>>

Connect ==
  /\ \/ ~lost /\ Construct("connect", "window", "xcb") /\ UNCHANGED swallowed
     \/ Throw("connect")
     \/ Crash("connect")
  /\ UNCHANGED <<server, window, frame>>

AfterWindow == IF program = "gradients" THEN "fullscreen" ELSE "rte"

(* Variant: the window is not added to the connection's map.               *)
CreateWindowUnregistered ==
  /\ Construct("window", AfterWindow, "win")
  /\ UNCHANGED <<swallowed, registered, size, closed, drm_connected, server, frame>>

CreateWindow ==
  /\ ~lost
  /\ Construct("window", AfterWindow, "win")
  /\ registered' = TRUE
  /\ UNCHANGED <<swallowed, size, closed, drm_connected, server, frame>>

(* An atom or the DRM device is missing.  The constructor of XCBWindow     *)
(* catches the exception and ends as if there had been none: the object    *)
(* lives, the window does not, and there is no name of a device.           *)
CreateWindowFails ==
  /\ Construct("window", AfterWindow, "win")
  /\ swallowed' = TRUE
  /\ UNCHANGED <<server, window, frame>>

CreateWindowCrashes == Crash("window") /\ UNCHANGED <<server, window, frame>>

(* create_i915_rte with the empty name fails, with another one it may.     *)
CreateRte ==
  /\ \/ ~swallowed /\ Construct("rte", "authenticate", "rte") /\ UNCHANGED swallowed
     \/ Throw("rte")
  /\ UNCHANGED <<server, window, frame>>

ConnectDrmDevice ==
  /\ \/ ~lost /\ Advance("authenticate", "kernel") /\ drm_connected' = TRUE
     \/ Throw("authenticate") /\ UNCHANGED drm_connected
     \/ Crash("authenticate") /\ UNCHANGED drm_connected
  /\ UNCHANGED <<server, size, closed, registered, frame>>

-----------------------------------------------------------------------------
(* XCBConnection::main_iteration(false) and XCBWindow::process_event       *)

(* Variant: every event is taken for one with a size.                      *)
ReadAnyEvent ==
  /\ pc = "poll" /\ events # <<>>
  /\ LET e == Head(events)
     IN /\ size' = e.size
        /\ closed' = (closed \/ e.kind = Delete)
  /\ events' = Tail(events)
  /\ UNCHANGED <<main, registered, drm_connected, actual, sent, back, lost, frame>>

ReadEvent ==
  /\ pc = "poll" /\ events # <<>>
  /\ LET e == Head(events)
     IN /\ size' = IF e.kind = "configure" THEN e.size ELSE size
        /\ closed' = (closed \/ e.kind = Delete)
  /\ events' = Tail(events)
  /\ UNCHANGED <<main, registered, drm_connected, actual, sent, back, lost, frame>>

(* There is no event, or no connection, which looks the same.              *)
NoEvent ==
  /\ events = <<>>
  /\ Advance("poll", "draw")
  /\ UNCHANGED <<server, window, frame>>

-----------------------------------------------------------------------------
(* The parts of draw that are about the window                             *)

(* There is a new buffer when the window's size has changed.               *)
Request ==
  \E n \in Names :
    back' = IF back.size = actual THEN back
            ELSE [name |-> n, size |-> actual, picture |-> Unknown]
Described == [name |-> back'.name, size |-> back'.size]

(* Variant: the buffer of an earlier frame is kept.                        *)
GetBackbufferOnce ==
  /\ ~lost
  /\ Request
  /\ buf' = IF buf.name = "none" THEN Described ELSE buf
  /\ Advance("draw", "execute")
  /\ UNCHANGED <<actual, events, sent, lost, window, shown>>

GetBackbuffer ==
  /\ ~lost
  /\ Request
  /\ buf' = Described
  /\ Advance("draw", "execute")
  /\ UNCHANGED <<actual, events, sent, lost, window, shown>>

(* Variant: a request that failed costs one frame.                         *)
DrawSkips(from) == Advance(from, "loop") /\ UNCHANGED <<server, window, frame>>

(* Without a connection there is no reply; the server may refuse as well.  *)
DrawFails(from) == Throw(from) /\ UNCHANGED <<server, window, frame>>

(* The kernel writes to the object that was named, see Execute.            *)
Executed(picture) ==
  /\ Advance("execute", "swap")
  /\ back' = IF buf.name = back.name THEN [back EXCEPT !.picture = picture] ELSE back
  /\ UNCHANGED <<actual, events, sent, lost, window, frame>>

(* What was the front buffer becomes the back buffer, or is copied to; the *)
(* server tells with the next buffer that is asked for.                    *)
SwapBuffers ==
  /\ ~lost
  /\ Advance("swap", "loop")
  /\ shown' = [size |-> back.size, picture |-> back.picture]
  /\ \E n \in Names : back' = [name |-> n, size |-> back.size, picture |-> Unknown]
  /\ UNCHANGED <<actual, events, sent, lost, window, buf>>

-----------------------------------------------------------------------------
(* The size of the kernel's range, and where its work items write          *)

DivRoundUp(a, b) == (a + b - 1) \div b

(* Variant: a tile that is only partly in the frame is left out.           *)
WorkSizeDown(s) == <<(s[1] \div TileWidth) * TileWidth, ((s[2] + 1) \div 2) * 2>>

(* Whole tiles in a row, and groups of two lines.                          *)
WorkSize(s) == <<DivRoundUp(s[1], TileWidth) * TileWidth, ((s[2] + 1) \div 2) * 2>>

(* The work item of column i and line j, in pixels from the start.         *)
Offset(i, j, pitch) ==
  (i % TileWidth) + (i \div TileWidth) * TileWidth * TileHeight
  + (j \div TileHeight) * pitch * TileHeight + (j % TileHeight) * TileWidth

-----------------------------------------------------------------------------
(* The end of main                                                         *)

(* ~XCBWindow throws out of a destructor when the window is not in the map.*)
Unwind ==
  /\ pc = "unwind" /\ objects # <<>>
  /\ LET o == objects[Len(objects)]
     IN /\ objects' = SubSeq(objects, 1, Len(objects) - 1)
        /\ IF o = "win" /\ ~registered
           THEN pc' = "end" /\ result' = "terminated"
           ELSE UNCHANGED <<pc, result>>
        /\ registered' = (registered /\ o # "win")
        /\ drm_connected' = (drm_connected /\ o # "win")
  /\ UNCHANGED <<program, swallowed, server, size, closed, frame>>

Return ==
  /\ objects = <<>>
  /\ Advance("unwind", "end")
  /\ UNCHANGED <<server, window, frame>>

WindowStep ==
  \/ Connect \/ CreateWindow \/ CreateWindowFails \/ CreateWindowCrashes
  \/ CreateRte \/ ConnectDrmDevice
  \/ ReadEvent \/ NoEvent
  \/ SwapBuffers \/ (\E l \in {"draw", "execute", "swap"} : DrawFails(l))
  \/ Unwind \/ Return
=============================================================================
