--------------------------- MODULE XcbDemosProofs ---------------------------
(***************************************************************************)
(* Proofs about one run of a demo, for every set of window sizes, every    *)
(* size of tiles, images and colour map, and every number of events.       *)
(***************************************************************************)
EXTENDS XcbDemos, SequenceTheorems, TLAPS

(* How many locals of main there are at a place of main that is not the way*)
(* out. The window is the second.                                          *)
Locals ==
  /\ \A i \in 1..Len(objects) : objects[i] = "win" <=> i = 2
  /\ pc = "connect" => Len(objects) = 0
  /\ pc = "window" => Len(objects) = 1
  /\ pc \in {"fullscreen", "rte"} => Len(objects) = 2
  /\ pc \in {"authenticate", "kernel"} => Len(objects) = 3
  /\ pc \in Loop => Len(objects) = 4

(* A window object is in the map, or its constructor failed.               *)
Recorded == Len(objects) >= 2 => registered \/ swallowed

(* The last news of the window's size are under way, or were read.         *)
Configures(i) == events[i].kind = "configure"
LatestAt(i) ==
  /\ Configures(i)
  /\ events[i].size = actual
  /\ \A k \in 1..Len(events) : k > i => ~Configures(k)
Informed ==
  \/ lost
  \/ size = actual /\ \A i \in 1..Len(events) : ~Configures(i)
  \/ \E i \in 1..Len(events) : LatestAt(i)

(* Until its first turn the display has read no event; after it all of the *)
(* images are filled in.                                                   *)
Covered ==
  program = "display" =>
    IF last = NoSize
    THEN size = StartSize["display"] /\ pc \notin {"poll", "draw", "execute", "swap"}
    ELSE \A p \in Pixels : source[p] # 0

(* A frame that is larger than the images has an event under way.          *)
Foreseen ==
  (pc = "execute" /\ program = "display" /\ TooLarge(buf.size)) => Announced \/ lost

WindowInv == TypeOK /\ Locals /\ Recorded /\ AbortsOnlyUnreported
IInv == WindowInv /\ FrameIsShown /\ Informed /\ Covered /\ Foreseen

-----------------------------------------------------------------------------
LEMMA InitInv == Init => IInv
<1> SUFFICES ASSUME Init PROVE IInv
  OBVIOUS
<1> USE DEF Init, WindowInit, DisplayInit
<1>1. StartSize[program] \in Sizes /\ program \in {"display", "gradients"}
  BY WindowAssumption
<1>2. source \in [Pixels -> Nat] /\ last = NoSize
  OBVIOUS
<1>3. TypeOK
  <2>1. objects \in Seq({"xcb", "win", "rte", "sources"}) /\ Len(objects) \in 0..4
    OBVIOUS
  <2>2. events \in Seq(Event) /\ sent \in 0..MaxEvents /\ Len(events) \in 0..sent
    BY WindowAssumption
  <2>3. back \in [name : Names \cup {"none"}, size : Sizes \cup {NoSize}, picture : SUBSET Nat]
    BY DEF Unknown
  <2>4. /\ buf \in [name : Names \cup {"none"}, size : Sizes \cup {NoSize}]
        /\ shown \in [size : Sizes \cup {NoSize}, picture : SUBSET Nat]
    BY DEF NoBuffer, Unknown
  <2>5. pc \in Setup \cup Loop \cup {"unwind", "end"}
    BY DEF Setup
  <2>6. program \in Programs /\ actual \in Sizes /\ size \in Sizes
    BY <1>1
  <2> QED
    BY <1>2, <2>1, <2>2, <2>3, <2>4, <2>5, <2>6 DEF TypeOK, WindowTypeOK, DisplayTypeOK
<1>4. Locals /\ Recorded /\ AbortsOnlyUnreported
  BY DEF Locals, Recorded, AbortsOnlyUnreported, Loop
<1>5. FrameIsShown /\ Informed /\ Covered /\ Foreseen
  BY DEF FrameIsShown, Informed, Covered, Foreseen, NoSize
<1> QED
  BY <1>3, <1>4, <1>5 DEF IInv, WindowInv

(* What a place in an image has: its line and column are in the image.     *)
LEMMA PlaceIsPixel ==
  ASSUME NEW k \in Nat, k < MaxWidth * MaxHeight
  PROVE  <<k % MaxWidth, k \div MaxWidth>> \in Pixels
<1> DEFINE q == k \div MaxWidth
           r == k % MaxWidth
<1>1. MaxWidth \in Nat /\ MaxWidth > 0 /\ MaxHeight \in Nat
  BY DisplayAssumption
<1>2. q \in Nat /\ r \in 0..MaxWidth - 1 /\ k = MaxWidth * q + r
  BY <1>1
<1>3. q < MaxHeight
  <2> SUFFICES ASSUME q >= MaxHeight PROVE FALSE
    BY <1>1, <1>2
  <2> HIDE DEF q, r
  <2>1. MaxWidth * q >= MaxWidth * MaxHeight
    BY <1>1, <1>2
  <2> QED
    BY <1>1, <1>2, <2>1
<1> QED
  BY <1>1, <1>2, <1>3 DEF Pixels

LEMMA SourceAtType ==
  ASSUME TypeOK, NEW k \in Nat
  PROVE  SourceAt(k) \in Nat
<1>1. CASE k < MaxWidth * MaxHeight
  BY <1>1, PlaceIsPixel DEF SourceAt, TypeOK, DisplayTypeOK
<1>2. CASE ~(k < MaxWidth * MaxHeight)
  BY <1>2 DEF SourceAt
<1> QED
  BY <1>1, <1>2

(* What is executed reads at places that are natural numbers.              *)
LEMMA SourcesReadType ==
  ASSUME TypeOK
  PROVE  SourcesRead \subseteq Nat
<1>1. buf.size[1] \in Nat /\ buf.size[2] \in Nat
  BY WindowAssumption DEF TypeOK, WindowTypeOK, NoSize
<1>2. MaxWidth \in Nat
  BY DisplayAssumption
<1>3. ASSUME NEW i \in 0..buf.size[1] - 1, NEW j \in 0..buf.size[2] - 1
      PROVE  SourceOffset(i, j) \in Nat
  BY <1>1, <1>2 DEF SourceOffset
<1> QED
  BY <1>3 DEF SourcesRead

-----------------------------------------------------------------------------
(* The types. A step of main changes pc, the locals and the result.        *)
MainTyped ==
  /\ program \in Programs
  /\ pc \in Setup \cup Loop \cup {"unwind", "end"}
  /\ result \in {"none", "success", "failure", "terminated", "crashed"}
  /\ objects \in Seq({"xcb", "win", "rte", "sources"}) /\ Len(objects) \in 0..4
  /\ swallowed \in BOOLEAN

LEMMA MainFrame ==
  ASSUME TypeOK, MainTyped', UNCHANGED <<server, frame, display>>,
         size' \in Sizes, closed' \in BOOLEAN, registered' \in BOOLEAN,
         drm_connected' \in BOOLEAN
  PROVE  TypeOK'
BY DEF MainTyped, TypeOK, WindowTypeOK, DisplayTypeOK, server, frame, display

(* Every step keeps the types.                                             *)
LEMMA TypeStep ==
  ASSUME TypeOK, Locals, [Next]_vars
  PROVE  TypeOK'
<1> USE DEF Setup, Loop
<1>0. MainTyped
  BY DEF MainTyped, TypeOK, WindowTypeOK
<1>w. /\ size \in Sizes /\ closed \in BOOLEAN /\ registered \in BOOLEAN
      /\ drm_connected \in BOOLEAN /\ lost \in BOOLEAN
  BY DEF TypeOK, WindowTypeOK
<1>c. ASSUME NEW o \in {"xcb", "win", "rte", "sources"}, Len(objects) \in 0..3
      PROVE  /\ Append(objects, o) \in Seq({"xcb", "win", "rte", "sources"})
             /\ Len(Append(objects, o)) \in 0..4
  <2>1. objects \in Seq({"xcb", "win", "rte", "sources"})
    BY <1>0 DEF MainTyped
  <2>2. Len(Append(objects, o)) = Len(objects) + 1
    BY <2>1
  <2>3. \A n \in 0..3 : n + 1 \in 0..4
    OBVIOUS
  <2>4. Len(objects) + 1 \in 0..4
    BY <1>c, <2>3
  <2> QED
    BY <2>1, <2>2, <2>4
<1>l. pc \in {"connect", "window", "rte", "kernel"} => Len(objects) \in 0..3
  BY DEF Locals
<1>a. AfterWindow \in {"fullscreen", "rte"}
  BY DEF AfterWindow
<1>1. CASE Connect /\ UNCHANGED display
  <2>1. MainTyped'
    BY <1>1, <1>0, <1>c, <1>l DEF Connect, Construct, Go, Throw, Leave, Crash, MainTyped
  <2> QED
    BY <1>1, <2>1, <1>w, MainFrame DEF Connect, window
<1>2. CASE CreateWindow /\ UNCHANGED display
  <2>1. MainTyped'
    BY <1>2, <1>0, <1>c, <1>l, <1>a DEF CreateWindow, Construct, Go, MainTyped
  <2> QED
    BY <1>2, <2>1, <1>w, MainFrame DEF CreateWindow
<1>3. CASE CreateWindowFails /\ UNCHANGED display
  <2>1. objects' = Append(objects, "win") /\ Len(objects) \in 0..3
    BY <1>3, <1>l DEF CreateWindowFails, Construct, Go
  <2>2. pc' = AfterWindow /\ UNCHANGED <<program, result>> /\ swallowed' = TRUE
    BY <1>3 DEF CreateWindowFails, Construct, Go
  <2>3. MainTyped'
    BY <1>0, <1>a, <1>c, <2>1, <2>2 DEF MainTyped
  <2> QED
    BY <1>3, <2>3, <1>w, MainFrame DEF CreateWindowFails, window
<1>4. CASE CreateWindowCrashes /\ UNCHANGED display
  <2>1. MainTyped'
    BY <1>4, <1>0 DEF CreateWindowCrashes, Crash, Go, MainTyped
  <2> QED
    BY <1>4, <2>1, <1>w, MainFrame DEF CreateWindowCrashes, window
<1>5. CASE CreateRte /\ UNCHANGED display
  <2>1. MainTyped'
    BY <1>5, <1>0, <1>c, <1>l DEF CreateRte, Construct, Go, Throw, Leave, MainTyped
  <2> QED
    BY <1>5, <2>1, <1>w, MainFrame DEF CreateRte, window
<1>6. CASE ConnectDrmDevice /\ UNCHANGED display
  <2>1. MainTyped'
    BY <1>6, <1>0 DEF ConnectDrmDevice, Advance, Go, Throw, Leave, Crash, MainTyped
  <2> QED
    BY <1>6, <2>1, <1>w, MainFrame DEF ConnectDrmDevice
<1>7. CASE ReadEvent /\ UNCHANGED display
  <2>1. events # <<>> /\ events \in Seq(Event) /\ Len(events) \in 0..sent /\ sent \in 0..MaxEvents
    BY <1>7 DEF ReadEvent, TypeOK, WindowTypeOK
  <2>2. Head(events) \in Event /\ Tail(events) \in Seq(Event)
    BY <2>1
  <2>3. Len(Tail(events)) \in 0..sent
    BY <2>1
  <2>4. size' \in Sizes /\ closed' \in BOOLEAN
    BY <1>7, <1>w, <2>2 DEF ReadEvent, Event, Delete, Other
  <2> QED
    BY <1>7, <2>1, <2>2, <2>3, <2>4
    DEF ReadEvent, TypeOK, WindowTypeOK, DisplayTypeOK, main, frame, display
<1>8. CASE NoEvent /\ UNCHANGED display
  <2>1. MainTyped'
    BY <1>8, <1>0 DEF NoEvent, Advance, Go, MainTyped
  <2> QED
    BY <1>8, <2>1, <1>w, MainFrame DEF NoEvent, window
<1>9. CASE SwapBuffers /\ UNCHANGED display
  <2>1. MainTyped'
    BY <1>9, <1>0 DEF SwapBuffers, Advance, Go, MainTyped
  <2>2. back' \in [name : Names \cup {"none"}, size : Sizes \cup {NoSize}, picture : SUBSET Nat]
    BY <1>9 DEF SwapBuffers, Unknown, TypeOK, WindowTypeOK
  <2>3. shown' \in [size : Sizes \cup {NoSize}, picture : SUBSET Nat]
    BY <1>9 DEF SwapBuffers, TypeOK, WindowTypeOK
  <2> QED
    BY <1>9, <2>1, <2>2, <2>3
    DEF SwapBuffers, MainTyped, TypeOK, WindowTypeOK, DisplayTypeOK, window, display
<1>10. ASSUME NEW l \in {"draw", "execute", "swap"}, DrawFails(l), UNCHANGED display
       PROVE  TypeOK'
  <2>1. MainTyped'
    BY <1>10, <1>0 DEF DrawFails, Throw, Leave, Go, MainTyped
  <2> QED
    BY <1>10, <2>1, <1>w, MainFrame DEF DrawFails, window
<1>11. CASE Unwind /\ UNCHANGED display
  <2>1. /\ SubSeq(objects, 1, Len(objects) - 1) \in Seq({"xcb", "win", "rte", "sources"})
        /\ Len(SubSeq(objects, 1, Len(objects) - 1)) \in 0..4
    BY <1>0, <1>11 DEF Unwind, MainTyped
  <2>2. MainTyped'
    BY <1>11, <1>0, <2>1 DEF Unwind, MainTyped
  <2>3. registered' \in BOOLEAN /\ drm_connected' \in BOOLEAN
    BY <1>11, <1>w DEF Unwind
  <2> QED
    BY <1>11, <2>2, <2>3, <1>w, MainFrame DEF Unwind
<1>12. CASE Return /\ UNCHANGED display
  <2>1. MainTyped'
    BY <1>12, <1>0 DEF Return, Advance, Go, MainTyped
  <2> QED
    BY <1>12, <2>1, <1>w, MainFrame DEF Return, window
<1>13. CASE WindowStep /\ UNCHANGED display
  BY <1>13, <1>1, <1>2, <1>3, <1>4, <1>5, <1>6, <1>7, <1>8, <1>9, <1>10, <1>11, <1>12 DEF WindowStep
<1>14. CASE SetFullscreen /\ UNCHANGED display
  <2>1. MainTyped'
    BY <1>14, <1>0 DEF SetFullscreen, Advance, Go, Throw, Leave, Crash, MainTyped
  <2> QED
    BY <1>14, <2>1, <1>w, MainFrame DEF SetFullscreen, window
<1>15. CASE GradientsReady /\ UNCHANGED display
  <2>1. MainTyped'
    BY <1>15, <1>0, <1>c, <1>l DEF GradientsReady, Construct, Go, Throw, Leave, MainTyped
  <2> QED
    BY <1>15, <2>1, <1>w, MainFrame DEF GradientsReady, window
<1>16. CASE GradientsTurn /\ UNCHANGED display
  <2>1. MainTyped'
    BY <1>16, <1>0 DEF GradientsTurn, Advance, Go, Throw, Leave, MainTyped
  <2> QED
    BY <1>16, <2>1, <1>w, MainFrame DEF GradientsTurn, window
<1>17. CASE GradientsCloses /\ UNCHANGED display
  <2>1. MainTyped'
    BY <1>17, <1>0 DEF GradientsCloses, Leave, Go, MainTyped
  <2> QED
    BY <1>17, <2>1, <1>w, MainFrame DEF GradientsCloses, window
<1>18. CASE GetBackbuffer /\ UNCHANGED display
  <2>1. MainTyped'
    BY <1>18, <1>0 DEF GetBackbuffer, Advance, Go, MainTyped
  <2>2. back' \in [name : Names \cup {"none"}, size : Sizes \cup {NoSize}, picture : SUBSET Nat]
    BY <1>18 DEF GetBackbuffer, Request, Unknown, TypeOK, WindowTypeOK
  <2>3. buf' \in [name : Names \cup {"none"}, size : Sizes \cup {NoSize}]
    BY <1>18, <2>2 DEF GetBackbuffer, Described
  <2> QED
    BY <1>18, <2>1, <2>2, <2>3
    DEF GetBackbuffer, MainTyped, TypeOK, WindowTypeOK, DisplayTypeOK, window, display
<1>19. ASSUME NEW picture \in SUBSET Nat, Executed(picture), UNCHANGED display
       PROVE  TypeOK'
  <2>1. MainTyped'
    BY <1>19, <1>0 DEF Executed, Advance, Go, MainTyped
  <2>2. back' \in [name : Names \cup {"none"}, size : Sizes \cup {NoSize}, picture : SUBSET Nat]
    BY <1>19 DEF Executed, TypeOK, WindowTypeOK
  <2> QED
    BY <1>19, <2>1, <2>2
    DEF Executed, MainTyped, TypeOK, WindowTypeOK, DisplayTypeOK, window, frame, display
<1>20. CASE GradientsStep /\ UNCHANGED display
  <2>1. buf.size[2] \in Nat
    BY WindowAssumption DEF TypeOK, WindowTypeOK, NoSize
  <2>2. CASE GradientsExecutes
    BY <1>20, <1>19, <2>1, <2>2 DEF GradientsExecutes
  <2> QED
    BY <1>20, <1>14, <1>15, <1>16, <1>17, <1>18, <2>2 DEF GradientsStep, GradientsDraws
<1>21. CASE DisplayReady
  <2>1. MainTyped'
    BY <1>21, <1>0, <1>c, <1>l DEF DisplayReady, Construct, Go, Throw, Leave, MainTyped
  <2> QED
    BY <1>21, <2>1, <1>w, MainFrame DEF DisplayReady, window
<1>22. CASE DisplayTurn
  <2>1. MainTyped'
    BY <1>22, <1>0 DEF DisplayTurn, Advance, Go, MainTyped
  <2>2. size[2] \in Nat
    BY <1>w, WindowAssumption
  <2>3. Updated(size) \in [Pixels -> Nat]
    BY <2>2 DEF Updated, TypeOK, DisplayTypeOK
  <2>4. DisplayTypeOK'
    BY <1>22, <1>w, <2>3 DEF DisplayTurn, TypeOK, DisplayTypeOK
  <2> QED
    BY <1>22, <2>1, <2>4 DEF DisplayTurn, MainTyped, TypeOK, WindowTypeOK, server, window, frame
<1>23. CASE DisplayCloses
  <2>1. MainTyped'
    BY <1>23, <1>0 DEF DisplayCloses, Leave, Go, MainTyped
  <2> QED
    BY <1>23, <2>1, <1>w, MainFrame DEF DisplayCloses, window
<1>24. CASE DisplaySkips
  <2>1. MainTyped'
    BY <1>24, <1>0 DEF DisplaySkips, Advance, Go, MainTyped
  <2> QED
    BY <1>24, <2>1, <1>w, MainFrame DEF DisplaySkips, window
<1>25. CASE DisplayExecutes
  <2>1. {SourceAt(k) : k \in SourcesRead} \in SUBSET Nat
    BY SourceAtType, SourcesReadType
  <2> QED
    BY <1>25, <1>19, <2>1 DEF DisplayExecutes
<1>26. CASE DisplayStep
  BY <1>26, <1>18, <1>21, <1>22, <1>23, <1>24, <1>25 DEF DisplayStep, DisplayDraws
<1>27. CASE Environment /\ UNCHANGED display
  <2>1. ASSUME NEW e \in Event, Send(e), actual' \in Sizes, UNCHANGED display
        PROVE  TypeOK'
    <3>1. Append(events, e) \in Seq(Event) /\ Len(Append(events, e)) = Len(events) + 1
      BY DEF TypeOK, WindowTypeOK
    <3>2. /\ events' \in Seq(Event) /\ sent' \in 0..MaxEvents /\ Len(events') \in 0..sent'
      BY <2>1, <3>1, WindowAssumption DEF Send, TypeOK, WindowTypeOK
    <3> QED
      BY <2>1, <3>2 DEF Send, TypeOK, WindowTypeOK, DisplayTypeOK, main, window, frame, display
  <2>2. CASE Resize
    <3>1. PICK s \in Sizes : Send([kind |-> "configure", size |-> s]) /\ actual' = s
      BY <2>2 DEF Resize
    <3>2. [kind |-> "configure", size |-> s] \in Event
      BY DEF Event
    <3> QED
      BY <1>27, <2>1, <3>1, <3>2
  <2>3. CASE Notify
    <3>1. PICK k \in {Delete, Other} : Send([kind |-> k, size |-> NoSize])
      BY <2>3 DEF Notify
    <3>2. [kind |-> k, size |-> NoSize] \in Event /\ actual' \in Sizes
      BY <2>3 DEF Event, Notify, TypeOK, WindowTypeOK
    <3> QED
      BY <1>27, <2>1, <3>1, <3>2
  <2>4. CASE Lose
    <3>1. events' \in Seq(Event) /\ Len(events') \in 0..sent'
      BY <2>4 DEF Lose, TypeOK, WindowTypeOK
    <3> QED
      BY <1>27, <2>4, <3>1 DEF Lose, TypeOK, WindowTypeOK, DisplayTypeOK, main, window, frame, display
  <2> QED
    BY <1>27, <2>2, <2>3, <2>4 DEF Environment
<1>28. CASE UNCHANGED vars
  BY <1>28 DEF vars, TypeOK, WindowTypeOK, DisplayTypeOK, main, server, window, frame, display
<1> QED
  BY <1>13, <1>20, <1>26, <1>27, <1>28 DEF Next, Step

-----------------------------------------------------------------------------
(* The locals of main, and what became of the window.                      *)
WindowKept == Recorded /\ AbortsOnlyUnreported

(* A step of main that leaves its locals and the window alone.             *)
LEMMA LocalsFrame ==
  ASSUME WindowInv, UNCHANGED <<objects, swallowed, registered>>,
         result' # "terminated" \/ result' = result,
         \/ pc' = pc
         \/ pc' \in {"unwind", "end"}
         \/ pc \in {"fullscreen", "rte"} /\ pc' \in {"fullscreen", "rte"}
         \/ pc \in {"authenticate", "kernel"} /\ pc' \in {"authenticate", "kernel"}
         \/ pc \in Loop /\ pc' \in Loop
  PROVE  Locals' /\ WindowKept'
<1>1. Locals'
  BY DEF WindowInv, Locals, Loop
<1>2. Recorded'
  BY DEF WindowInv, Recorded
<1>3. AbortsOnlyUnreported'
  BY DEF WindowInv, AbortsOnlyUnreported, Loop
<1> QED
  BY <1>1, <1>2, <1>3 DEF WindowKept

(* A step that adds a local.                                               *)
LEMMA LocalsGrow ==
  ASSUME WindowInv, NEW o \in {"xcb", "win", "rte", "sources"},
         objects' = Append(objects, o), o = "win" <=> Len(objects) = 1,
         \/ pc' = "window" /\ Len(objects) = 0
         \/ pc' \in {"fullscreen", "rte"} /\ Len(objects) = 1
         \/ pc' = "authenticate" /\ Len(objects) = 2
         \/ pc' = "loop" /\ Len(objects) = 3
  PROVE  Locals'
<1>1. objects \in Seq({"xcb", "win", "rte", "sources"})
  BY DEF WindowInv, TypeOK, WindowTypeOK
<1>2. /\ Len(objects') = Len(objects) + 1 /\ Len(objects) \in Nat
      /\ \A i \in 1..Len(objects) : objects'[i] = objects[i]
      /\ objects'[Len(objects) + 1] = o
  BY <1>1
<1>3. \A i \in 1..Len(objects') : objects'[i] = "win" <=> i = 2
  BY <1>2 DEF WindowInv, Locals
<1>4. \/ pc' = "window" /\ Len(objects') = 1
      \/ pc' \in {"fullscreen", "rte"} /\ Len(objects') = 2
      \/ pc' = "authenticate" /\ Len(objects') = 3
      \/ pc' = "loop" /\ Len(objects') = 4
  <2>1. Len(objects') = Len(objects) + 1
    BY <1>2
  <2>2. CASE pc' = "window" /\ Len(objects) = 0
    BY <2>1, <2>2
  <2>3. CASE pc' \in {"fullscreen", "rte"} /\ Len(objects) = 1
    BY <2>1, <2>3
  <2>4. CASE pc' = "authenticate" /\ Len(objects) = 2
    BY <2>1, <2>4
  <2>5. CASE pc' = "loop" /\ Len(objects) = 3
    BY <2>1, <2>5
  <2> QED
    BY <2>2, <2>3, <2>4, <2>5
<1> QED
  BY <1>3, <1>4 DEF Locals, Loop

(* What is left when the last local was destroyed.                         *)
LEMMA Destroyed ==
  ASSUME WindowInv, objects # <<>>,
         objects' = SubSeq(objects, 1, Len(objects) - 1)
  PROVE  /\ Len(objects') = Len(objects) - 1 /\ Len(objects) \in 1..4
         /\ objects[Len(objects)] = "win" <=> Len(objects) = 2
         /\ \A i \in 1..Len(objects') : objects'[i] = "win" <=> i = 2
<1>1. objects \in Seq({"xcb", "win", "rte", "sources"}) /\ Len(objects) \in 0..4
  BY DEF WindowInv, TypeOK, WindowTypeOK
<1>2. Len(objects) \in 1..4
  BY <1>1, EmptySeq
<1>3. /\ Len(objects') = Len(objects) - 1
      /\ \A i \in 1..Len(objects) - 1 : objects'[i] = objects[i]
  <2> DEFINE n == Len(objects) - 1
  <2>1. n \in 0..3 /\ \A i \in 1..n : objects[i] \in {"xcb", "win", "rte", "sources"}
    BY <1>1, <1>2
  <2> HIDE DEF n
  <2>2. /\ Len(SubSeq(objects, 1, n)) = IF 1 <= n THEN n - 1 + 1 ELSE 0
        /\ \A i \in 1..n - 1 + 1 : SubSeq(objects, 1, n)[i] = objects[1 + i - 1]
    BY <2>1, SubSeqProperties
  <2>3. Len(SubSeq(objects, 1, n)) = n /\ \A i \in 1..n : SubSeq(objects, 1, n)[i] = objects[i]
    BY <2>1, <2>2
  <2> QED
    BY <2>3 DEF n
<1>4. \A i \in 1..Len(objects) : objects[i] = "win" <=> i = 2
  BY DEF WindowInv, Locals
<1>5. \A i \in 1..Len(objects') : objects'[i] = "win" <=> i = 2
  <2> SUFFICES ASSUME NEW i \in 1..Len(objects') PROVE objects'[i] = "win" <=> i = 2
    OBVIOUS
  <2>1. i \in 1..Len(objects) - 1
    BY <1>3
  <2>2. i \in 1..Len(objects)
    BY <1>2, <2>1
  <2> QED
    BY <1>3, <1>4, <2>1, <2>2
<1>6. objects[Len(objects)] = "win" <=> Len(objects) = 2
  <2>1. \A n \in 1..4 : n \in 1..n
    OBVIOUS
  <2>2. Len(objects) \in 1..Len(objects)
    BY <1>2, <2>1
  <2> QED
    BY <1>4, <2>2
<1> QED
  BY <1>2, <1>3, <1>5, <1>6

(* main's locals and the window, for every step.                           *)
LEMMA WindowStepKept ==
  ASSUME WindowInv, [Next]_vars
  PROVE  Locals' /\ WindowKept'
<1> USE DEF Setup, Loop
<1>0. Locals /\ Recorded /\ AbortsOnlyUnreported
  BY DEF WindowInv
<1>m. ASSUME NEW from \in Setup \cup Loop, NEW r \in {"success", "failure"}, Leave(from, r),
             registered' = registered
      PROVE  Locals' /\ WindowKept'
  BY <1>m, LocalsFrame DEF Leave, Go
<1>n. ASSUME NEW from \in Setup \cup Loop, Crash(from), registered' = registered
      PROVE  Locals' /\ WindowKept'
  BY <1>n, LocalsFrame DEF Crash, Go
<1>c. ASSUME NEW to, NEW o \in {"xcb", "win", "rte", "sources"},
             NEW from \in {"connect", "window", "rte", "kernel"}, Construct(from, to, o),
             \/ from = "connect" /\ to = "window" /\ o = "xcb"
             \/ from = "window" /\ to \in {"fullscreen", "rte"} /\ o = "win"
             \/ from = "rte" /\ to = "authenticate" /\ o = "rte"
             \/ from = "kernel" /\ to = "loop" /\ o = "sources",
             swallowed' = swallowed \/ (swallowed' = TRUE /\ from = "window"),
             registered' = registered \/ registered' = TRUE,
             from = "window" => registered' \/ swallowed',
             from \in {"rte", "kernel"} => ~swallowed
      PROVE  Locals' /\ WindowKept'
  <2>1. pc = from /\ pc' = to /\ objects' = Append(objects, o) /\ result' = result
    BY <1>c DEF Construct, Go
  <2>2. \/ from = "connect" /\ Len(objects) = 0
        \/ from = "window" /\ Len(objects) = 1
        \/ from = "rte" /\ Len(objects) = 2
        \/ from = "kernel" /\ Len(objects) = 3
    BY <1>0, <2>1 DEF Locals
  <2>3. Locals'
    <3>1. CASE from = "connect"
      BY <1>c, <2>1, <2>2, <3>1, LocalsGrow
    <3>2. CASE from = "window"
      BY <1>c, <2>1, <2>2, <3>2, LocalsGrow
    <3>3. CASE from = "rte"
      BY <1>c, <2>1, <2>2, <3>3, LocalsGrow
    <3>4. CASE from = "kernel"
      BY <1>c, <2>1, <2>2, <3>4, LocalsGrow
    <3> QED
      BY <3>1, <3>2, <3>3, <3>4
  <2>4. registered \in BOOLEAN /\ swallowed \in BOOLEAN
    BY DEF WindowInv, TypeOK, WindowTypeOK
  <2>5. Recorded'
    <3>1. CASE from = "connect"
      BY <1>c, <2>1, <2>3, <3>1 DEF Locals, Recorded
    <3>2. CASE from = "window"
      BY <1>c, <3>2 DEF Recorded
    <3>3. CASE from \in {"rte", "kernel"}
      BY <1>0, <1>c, <2>2, <2>4, <3>3 DEF Recorded
    <3> QED
      BY <3>1, <3>2, <3>3
  <2>6. AbortsOnlyUnreported'
    BY <1>0, <1>c, <2>1, <2>4 DEF AbortsOnlyUnreported
  <2> QED
    BY <2>3, <2>5, <2>6 DEF WindowKept
<1>a. AfterWindow \in {"fullscreen", "rte"}
  BY DEF AfterWindow
<1>1. CASE Connect /\ UNCHANGED display
  <2>1. CASE Construct("connect", "window", "xcb") /\ UNCHANGED swallowed
    BY <1>1, <1>c, <2>1 DEF Connect, window
  <2> QED
    BY <1>1, <1>m, <1>n, <2>1 DEF Connect, Throw, window
<1>2. CASE CreateWindow /\ UNCHANGED display
  BY <1>2, <1>a, <1>c DEF CreateWindow
<1>3. CASE CreateWindowFails /\ UNCHANGED display
  BY <1>3, <1>a, <1>c DEF CreateWindowFails, window
<1>4. CASE CreateWindowCrashes /\ UNCHANGED display
  BY <1>4, <1>n DEF CreateWindowCrashes, window
<1>5. CASE CreateRte /\ UNCHANGED display
  <2>1. CASE ~swallowed /\ Construct("rte", "authenticate", "rte") /\ UNCHANGED swallowed
    BY <1>5, <1>c, <2>1 DEF CreateRte, window
  <2> QED
    BY <1>5, <1>m, <2>1 DEF CreateRte, Throw, window
<1>6. CASE ConnectDrmDevice /\ UNCHANGED display
  <2>1. CASE Advance("authenticate", "kernel")
    BY <1>6, <2>1, LocalsFrame DEF ConnectDrmDevice, Advance, Go
  <2> QED
    BY <1>6, <1>m, <1>n, <2>1 DEF ConnectDrmDevice, Throw
<1>7. CASE ReadEvent \/ (Environment /\ UNCHANGED display) \/ UNCHANGED vars
  <2>1. UNCHANGED <<main, registered>>
    BY <1>7 DEF ReadEvent, Environment, Resize, Notify, Send, Lose, vars, window
  <2> QED
    BY <2>1, LocalsFrame DEF main
<1>8. ASSUME NEW from \in Loop, NEW to \in Loop, Advance(from, to), registered' = registered
      PROVE  Locals' /\ WindowKept'
  BY <1>8, LocalsFrame DEF Advance, Go
<1>9. CASE NoEvent \/ SwapBuffers \/ GetBackbuffer \/ DisplayTurn \/ DisplaySkips
  BY <1>8, <1>9 DEF NoEvent, SwapBuffers, GetBackbuffer, DisplayTurn, DisplaySkips, window
<1>10. ASSUME NEW picture, Executed(picture)
       PROVE  Locals' /\ WindowKept'
  BY <1>8, <1>10 DEF Executed, window
<1>11. ASSUME NEW l \in {"draw", "execute", "swap"}, DrawFails(l)
       PROVE  Locals' /\ WindowKept'
  BY <1>m, <1>11 DEF DrawFails, Throw, window
<1>12. CASE Unwind /\ UNCHANGED display
  <2>1. /\ Len(objects') = Len(objects) - 1 /\ Len(objects) \in 1..4
        /\ objects[Len(objects)] = "win" <=> Len(objects) = 2
        /\ \A i \in 1..Len(objects') : objects'[i] = "win" <=> i = 2
    BY <1>12, Destroyed DEF Unwind
  <2>2. pc' \in {"unwind", "end"}
    BY <1>12 DEF Unwind
  <2>3. Locals'
    BY <2>1, <2>2 DEF Locals
  <2>4. registered \in BOOLEAN
    BY DEF WindowInv, TypeOK, WindowTypeOK
  <2>5. Recorded'
    <3> SUFFICES ASSUME Len(objects') >= 2 PROVE registered' \/ swallowed'
      BY DEF Recorded
    <3>1. \A n \in 1..4 : n - 1 >= 2 => n >= 2 /\ n # 2
      OBVIOUS
    <3>2. Len(objects) >= 2 /\ Len(objects) # 2
      BY <2>1, <3>1
    <3>3. objects[Len(objects)] # "win" /\ (registered \/ swallowed)
      BY <1>0, <2>1, <3>2 DEF Recorded
    <3> QED
      BY <1>12, <2>4, <3>3 DEF Unwind
  <2>6. result' = "terminated" => swallowed'
    <3>1. CASE objects[Len(objects)] = "win" /\ ~registered
      BY <1>0, <1>12, <2>1, <3>1 DEF Unwind, Recorded
    <3>2. CASE ~(objects[Len(objects)] = "win" /\ ~registered)
      BY <1>0, <1>12, <3>2 DEF Unwind, AbortsOnlyUnreported
    <3> QED
      BY <3>1, <3>2
  <2>7. AbortsOnlyUnreported'
    BY <2>2, <2>6 DEF AbortsOnlyUnreported
  <2> QED
    BY <2>3, <2>5, <2>7 DEF WindowKept
<1>13. CASE Return /\ UNCHANGED display
  BY <1>13, LocalsFrame DEF Return, Advance, Go, window
<1>14. CASE WindowStep /\ UNCHANGED display
  BY <1>14, <1>1, <1>2, <1>3, <1>4, <1>5, <1>6, <1>7, <1>9, <1>11, <1>12, <1>13 DEF WindowStep
<1>15. CASE SetFullscreen
  <2>1. CASE Advance("fullscreen", "rte")
    BY <1>15, <2>1, LocalsFrame DEF SetFullscreen, Advance, Go, window
  <2> QED
    BY <1>15, <1>m, <1>n, <2>1 DEF SetFullscreen, Throw, window
<1>16. CASE GradientsReady \/ DisplayReady
  <2>1. CASE Construct("kernel", "loop", "sources") /\ UNCHANGED swallowed
    <3>1. ~swallowed
      BY <1>0, <2>1 DEF Construct, Go, AbortsOnlyUnreported
    <3> QED
      BY <1>16, <1>c, <2>1, <3>1 DEF GradientsReady, DisplayReady, window
  <2> QED
    BY <1>16, <1>m, <2>1 DEF GradientsReady, DisplayReady, Throw, window
<1>17. CASE GradientsTurn \/ GradientsCloses \/ DisplayCloses
  BY <1>17, <1>8, <1>m DEF GradientsTurn, GradientsCloses, DisplayCloses, Throw, window
<1>18. CASE GradientsStep
  BY <1>18, <1>9, <1>10, <1>15, <1>16, <1>17 DEF GradientsStep, GradientsDraws, GradientsExecutes
<1>19. CASE DisplayStep
  BY <1>19, <1>9, <1>10, <1>16, <1>17 DEF DisplayStep, DisplayDraws, DisplayExecutes
<1> QED
  BY <1>7, <1>14, <1>18, <1>19 DEF Next, Step

-----------------------------------------------------------------------------
(* What most steps do: nothing to what the server knows and the program    *)
(* knows of it, and they do not come to where a frame is executed.         *)
Quiet ==
  /\ UNCHANGED <<server, size, buf, last, source, program>>
  /\ pc' \notin {"execute", "poll", "draw"}
  /\ pc' = "swap" => pc = "swap"

(* The steps by what they do to a frame.                                   *)
LEMMA StepKinds ==
  ASSUME [Next]_vars
  PROVE  \/ Quiet
         \/ ReadEvent /\ UNCHANGED display
         \/ Environment /\ UNCHANGED display
         \/ NoEvent /\ UNCHANGED display
         \/ SwapBuffers /\ UNCHANGED display
         \/ GetBackbuffer /\ UNCHANGED display /\ (program = "display" => ~TooLarge(size))
         \/ (\E picture : Executed(picture)) /\ UNCHANGED display
         \/ GradientsTurn /\ UNCHANGED display
         \/ DisplayTurn
         \/ UNCHANGED vars
<1>1. CASE WindowStep /\ UNCHANGED display
  <2>1. CASE Connect
    BY <1>1, <2>1 DEF Connect, Construct, Throw, Leave, Crash, Go, Quiet, window, frame, display
  <2>2. CASE CreateWindow \/ CreateWindowFails \/ CreateWindowCrashes
    <3>1. AfterWindow \in {"fullscreen", "rte"}
      BY DEF AfterWindow
    <3> QED
      BY <1>1, <2>2, <3>1
      DEF CreateWindow, CreateWindowFails, CreateWindowCrashes, Construct, Crash, Go, Quiet,
          window, frame, display
  <2>3. CASE CreateRte \/ ConnectDrmDevice
    BY <1>1, <2>3
    DEF CreateRte, ConnectDrmDevice, Construct, Advance, Throw, Leave, Crash, Go, Quiet,
        window, frame, display
  <2>4. CASE \E l \in {"draw", "execute", "swap"} : DrawFails(l)
    BY <1>1, <2>4 DEF DrawFails, Throw, Leave, Go, Quiet, window, frame, display
  <2>5. CASE Unwind \/ Return
    BY <1>1, <2>5 DEF Unwind, Return, Advance, Go, Quiet, window, frame, display
  <2> QED
    BY <1>1, <2>1, <2>2, <2>3, <2>4, <2>5 DEF WindowStep
<1>2. CASE GradientsStep /\ UNCHANGED display
  <2>1. CASE SetFullscreen \/ GradientsReady \/ GradientsCloses
    BY <1>2, <2>1
    DEF SetFullscreen, GradientsReady, GradientsCloses, Construct, Advance, Throw, Leave, Crash,
        Go, Quiet, window, frame, display
  <2>2. CASE GradientsDraws
    BY <1>2, <2>2 DEF GradientsDraws
  <2>3. CASE GradientsExecutes
    BY <1>2, <2>3 DEF GradientsExecutes
  <2> QED
    BY <1>2, <2>1, <2>2, <2>3 DEF GradientsStep
<1>3. CASE DisplayStep
  <2>1. CASE DisplayReady \/ DisplayCloses \/ DisplaySkips
    BY <2>1
    DEF DisplayReady, DisplayCloses, DisplaySkips, Construct, Advance, Throw, Leave, Go, Quiet,
        window, frame, display
  <2>2. CASE DisplayDraws
    BY <2>2 DEF DisplayDraws
  <2>3. CASE DisplayExecutes
    BY <2>3 DEF DisplayExecutes
  <2> QED
    BY <1>3, <2>1, <2>2, <2>3 DEF DisplayStep
<1> QED
  BY <1>1, <1>2, <1>3 DEF Next, Step

(* A frame keeps its buffer.                                               *)
LEMMA FrameStep ==
  ASSUME TypeOK, FrameIsShown, [Next]_vars
  PROVE  FrameIsShown'
<1>0. back \in [name : Names \cup {"none"}, size : Sizes \cup {NoSize}, picture : SUBSET Nat]
  BY DEF TypeOK, WindowTypeOK
<1>1. CASE Quiet
  BY <1>1 DEF Quiet, FrameIsShown, server
<1>2. CASE ReadEvent \/ Environment \/ UNCHANGED vars
  <2>1. UNCHANGED <<pc, buf, back>>
    BY <1>2
    DEF ReadEvent, Environment, Resize, Notify, Send, Lose, vars, main, frame, server
  <2> QED
    BY <2>1 DEF FrameIsShown
<1>3. CASE NoEvent \/ SwapBuffers \/ GradientsTurn \/ DisplayTurn
  <2>1. pc' \notin {"execute", "swap"}
    BY <1>3 DEF NoEvent, SwapBuffers, GradientsTurn, DisplayTurn, Advance, Throw, Leave, Go
  <2> QED
    BY <2>1 DEF FrameIsShown
<1>4. CASE GetBackbuffer
  BY <1>4 DEF GetBackbuffer, Described, FrameIsShown
<1>5. ASSUME NEW picture, Executed(picture)
      PROVE  FrameIsShown'
  <2>1. back'.name = back.name /\ back'.size = back.size
    BY <1>0, <1>5 DEF Executed
  <2> QED
    BY <1>5, <2>1 DEF Executed, Advance, Go, FrameIsShown, frame
<1> QED
  BY <1>1, <1>2, <1>3, <1>4, <1>5, StepKinds

(* The news of a change of size are not lost.                              *)
LEMMA InformedStep ==
  ASSUME TypeOK, Informed, [Next]_vars
  PROVE  Informed'
<1>0. events \in Seq(Event) /\ Len(events) \in Nat
  BY DEF TypeOK, WindowTypeOK
<1>1. ASSUME UNCHANGED <<lost, actual, events, size>>
      PROVE  Informed'
  BY <1>1 DEF Informed, LatestAt, Configures
<1>2. CASE ReadEvent
  <2>1. events # <<>> /\ events' = Tail(events) /\ lost' = lost /\ actual' = actual
    BY <1>2 DEF ReadEvent
  <2>2. /\ Len(events') = Len(events) - 1 /\ Head(events) = events[1]
        /\ \A i \in 1..Len(events') : events'[i] = events[i + 1] /\ i + 1 \in 1..Len(events)
    BY <1>0, <2>1
  <2>3. size' = IF Configures(1) THEN events[1].size ELSE size
    BY <1>2, <2>2 DEF ReadEvent, Configures
  <2>4. CASE lost
    BY <2>1, <2>4 DEF Informed
  <2>5. CASE size = actual /\ \A i \in 1..Len(events) : ~Configures(i)
    <3>1. 1 \in 1..Len(events)
      BY <1>0, <2>1
    <3>2. size' = actual' /\ \A i \in 1..Len(events') : ~Configures(i)'
      BY <2>1, <2>2, <2>3, <2>5, <3>1 DEF Configures
    <3> QED
      BY <3>2 DEF Informed
  <2>6. ASSUME NEW i \in 1..Len(events), LatestAt(i)
        PROVE  Informed'
    <3>1. CASE i = 1
      <4>1. size' = actual'
        BY <2>1, <2>3, <2>6, <3>1 DEF LatestAt
      <4>2. ASSUME NEW k \in 1..Len(events') PROVE ~Configures(k)'
        <5>1. k + 1 \in 1..Len(events) /\ k + 1 > 1 /\ events'[k] = events[k + 1]
          BY <2>2
        <5> QED
          BY <2>6, <3>1, <5>1 DEF LatestAt, Configures
      <4> QED
        BY <4>1, <4>2 DEF Informed
    <3>2. CASE i # 1
      <4>1. i - 1 \in 1..Len(events') /\ events'[i - 1] = events[i]
        BY <2>2, <3>2
      <4>2. ASSUME NEW k \in 1..Len(events'), k > i - 1 PROVE ~Configures(k)'
        <5>1. k + 1 \in 1..Len(events) /\ k + 1 > i /\ events'[k] = events[k + 1]
          BY <2>2, <4>2
        <5> QED
          BY <2>6, <5>1 DEF LatestAt, Configures
      <4>3. LatestAt(i - 1)'
        BY <2>1, <2>6, <4>1, <4>2 DEF LatestAt, Configures
      <4> QED
        BY <4>1, <4>3 DEF Informed
    <3> QED
      BY <3>1, <3>2
  <2> QED
    BY <2>4, <2>5, <2>6 DEF Informed
<1>3. ASSUME NEW e \in Event, Send(e)
      PROVE  /\ Len(events') = Len(events) + 1 /\ events'[Len(events) + 1] = e
             /\ \A i \in 1..Len(events) : events'[i] = events[i]
             /\ UNCHANGED <<lost, size>>
  BY <1>0, <1>3 DEF Send, window
<1>4. CASE Resize
  <2>1. PICK s \in Sizes : Send([kind |-> "configure", size |-> s]) /\ actual' = s
    BY <1>4 DEF Resize
  <2>2. [kind |-> "configure", size |-> s] \in Event
    BY DEF Event
  <2>3. PICK n \in Nat : n = Len(events) + 1
    BY <1>0
  <2>4. n = Len(events') /\ n \in 1..Len(events') /\ events'[n] = [kind |-> "configure", size |-> s]
    BY <1>0, <1>3, <2>1, <2>2, <2>3
  <2>5. LatestAt(n)'
    BY <2>1, <2>4 DEF LatestAt, Configures
  <2> QED
    BY <2>4, <2>5 DEF Informed
<1>5. CASE Notify
  <2>1. PICK n \in {Delete, Other} : Send([kind |-> n, size |-> NoSize]) /\ actual' = actual
    BY <1>5 DEF Notify
  <2>2. [kind |-> n, size |-> NoSize] \in Event
    BY DEF Event
  <2>3. /\ Len(events') = Len(events) + 1 /\ events'[Len(events) + 1].kind # "configure"
        /\ \A i \in 1..Len(events) : events'[i] = events[i]
        /\ UNCHANGED <<lost, size, actual>>
    BY <1>3, <2>1, <2>2 DEF Delete, Other
  <2>4. CASE lost
    BY <2>3, <2>4 DEF Informed
  <2>5. CASE size = actual /\ \A i \in 1..Len(events) : ~Configures(i)
    <3>1. \A i \in 1..Len(events') : i \in 1..Len(events) \/ i = Len(events) + 1
      BY <1>0, <2>3
    <3>2. \A i \in 1..Len(events') : ~Configures(i)'
      BY <2>3, <2>5, <3>1 DEF Configures
    <3> QED
      BY <2>3, <2>5, <3>2 DEF Informed
  <2>6. ASSUME NEW i \in 1..Len(events), LatestAt(i)
        PROVE  Informed'
    <3>1. i \in 1..Len(events') /\ \A k \in 1..Len(events') : k \in 1..Len(events) \/ k = Len(events) + 1
      BY <1>0, <2>3
    <3>2. LatestAt(i)'
      BY <2>3, <2>6, <3>1 DEF LatestAt, Configures
    <3> QED
      BY <3>1, <3>2 DEF Informed
  <2> QED
    BY <2>4, <2>5, <2>6 DEF Informed
<1>6. CASE Lose
  BY <1>6 DEF Lose, Informed
<1>7. CASE Quiet \/ UNCHANGED vars
  BY <1>1, <1>7 DEF Quiet, vars, server, window
<1>8. CASE NoEvent \/ SwapBuffers \/ GetBackbuffer \/ GradientsTurn \/ DisplayTurn
  BY <1>1, <1>8
  DEF NoEvent, SwapBuffers, GetBackbuffer, GradientsTurn, DisplayTurn, server, window
<1>9. ASSUME NEW picture, Executed(picture)
      PROVE  Informed'
  BY <1>1, <1>9 DEF Executed, window
<1> QED
  BY <1>2, <1>4, <1>5, <1>6, <1>7, <1>8, <1>9, StepKinds DEF Environment

(* The images stay filled in.                                              *)
LEMMA CoveredStep ==
  ASSUME TypeOK, Covered, [Next]_vars
  PROVE  Covered'
<1>1. ASSUME UNCHANGED <<program, size, display>>, pc' \notin {"poll", "draw", "execute", "swap"}
             \/ pc' = pc \/ pc \in {"poll", "draw", "execute", "swap"}
      PROVE  Covered'
  BY <1>1 DEF Covered, display
<1>2. CASE Quiet
  BY <1>1, <1>2 DEF Quiet, display
<1>3. CASE Environment /\ UNCHANGED display
  <2>1. UNCHANGED <<main, size>>
    BY <1>3 DEF Environment, Resize, Notify, Send, Lose, window
  <2> QED
    BY <1>1, <1>3, <2>1 DEF main
<1>4. CASE ReadEvent /\ UNCHANGED display
  BY <1>4 DEF ReadEvent, Covered, main, display
<1>5. CASE (NoEvent \/ SwapBuffers \/ GetBackbuffer) /\ UNCHANGED display
  BY <1>1, <1>5 DEF NoEvent, SwapBuffers, GetBackbuffer, Advance, Go, window
<1>6. ASSUME NEW picture, Executed(picture), UNCHANGED display
      PROVE  Covered'
  BY <1>1, <1>6 DEF Executed, Advance, Go, window
<1>7. CASE GradientsTurn
  BY <1>7 DEF GradientsTurn, Advance, Throw, Leave, Covered
<1>8. CASE DisplayTurn
  <2>1. size \in Sizes /\ size[1] \in Nat /\ size[2] \in Nat \ {0} /\ size # NoSize
    BY WindowAssumption DEF TypeOK, WindowTypeOK, NoSize
  <2>2. source \in [Pixels -> Nat] /\ program = "display" /\ last' = size /\ last' # NoSize
    BY <1>8, <2>1 DEF DisplayTurn, TypeOK, DisplayTypeOK
  <2>3. ASSUME NEW p \in Pixels PROVE source'[p] # 0
    <3>1. CASE last = NoSize
      <4>1. size = <<MaxWidth, MaxHeight>>
        BY <2>2, <3>1, DisplayAssumption DEF Covered, TypeOK, WindowTypeOK
      <4>2. p[1] < size[1] /\ p[2] < size[2] /\ ~TooLarge(size)
        BY <4>1, DisplayAssumption DEF Pixels, TooLarge
      <4>3. source' = [q \in Pixels |-> IF q[1] < size[1] /\ q[2] < size[2] THEN size[2] ELSE source[q]]
        BY <1>8, <2>1, <3>1, <4>2 DEF DisplayTurn, Updated
      <4> QED
        BY <2>1, <4>2, <4>3
    <3>2. CASE last # NoSize
      <4>1. source[p] # 0
        BY <2>2, <3>2 DEF Covered
      <4>2. CASE source' = source
        BY <4>1, <4>2
      <4>3. CASE source' = [q \in Pixels |-> IF q[1] < size[1] /\ q[2] < size[2] THEN size[2] ELSE source[q]]
        BY <2>1, <4>1, <4>3
      <4> QED
        BY <1>8, <4>2, <4>3 DEF DisplayTurn, Updated
    <3> QED
      BY <3>1, <3>2
  <2> QED
    BY <2>2, <2>3 DEF Covered, Pixels
<1>9. CASE UNCHANGED vars
  BY <1>1, <1>9 DEF vars, main, window
<1> QED
  BY <1>2, <1>3, <1>4, <1>5, <1>6, <1>7, <1>8, <1>9, StepKinds

(* A frame that is too large for the images has been announced.            *)
LEMMA ForeseenStep ==
  ASSUME TypeOK, Informed, Foreseen, [Next]_vars
  PROVE  Foreseen'
<1>0. events \in Seq(Event) /\ Len(events) \in Nat
  BY DEF TypeOK, WindowTypeOK
<1>1. CASE pc' # "execute"
  BY <1>1 DEF Foreseen
<1>2. CASE Environment /\ UNCHANGED display
  <2>1. UNCHANGED <<pc, program, buf>>
    BY <1>2 DEF Environment, Resize, Notify, Send, Lose, main, frame
  <2>2. CASE Lose
    BY <2>2 DEF Lose, Foreseen
  <2>3. ASSUME NEW e, Send(e) PROVE Foreseen'
    <3>1. /\ lost' = lost /\ Len(events') = Len(events) + 1
          /\ \A i \in 1..Len(events) : i \in 1..Len(events') /\ events'[i] = events[i]
      BY <1>0, <2>3 DEF Send
    <3>2. Announced => Announced'
      BY <3>1 DEF Announced
    <3> QED
      BY <2>1, <3>1, <3>2 DEF Foreseen
  <2> QED
    BY <1>2, <2>2, <2>3 DEF Environment, Resize, Notify
<1>3. CASE GetBackbuffer /\ (program = "display" => ~TooLarge(size))
  <2>1. /\ UNCHANGED <<program, actual, events, lost>> /\ buf'.size = actual
    BY <1>3
    DEF GetBackbuffer, Request, Described, Advance, TypeOK, WindowTypeOK
  <2> SUFFICES ASSUME program = "display", TooLarge(actual) PROVE Announced \/ lost
    BY <2>1 DEF Foreseen, Announced
  <2>2. size # actual
    BY <1>3
  <2>3. ASSUME NEW i \in 1..Len(events), LatestAt(i) PROVE Announced
    BY <2>3 DEF LatestAt, Configures, Announced
  <2> QED
    BY <2>2, <2>3 DEF Informed
<1>4. CASE UNCHANGED vars
  BY <1>4 DEF vars, main, server, frame, Foreseen, Announced
<1>5. CASE Quiet \/ NoEvent \/ SwapBuffers \/ GradientsTurn \/ DisplayTurn
  <2>1. pc' # "execute"
    BY <1>5 DEF Quiet, NoEvent, SwapBuffers, GradientsTurn, DisplayTurn, Advance, Throw, Leave, Go
  <2> QED
    BY <1>1, <2>1
<1>6. CASE ReadEvent
  BY <1>6 DEF ReadEvent, main, Foreseen
<1>7. ASSUME NEW picture, Executed(picture) PROVE Foreseen'
  BY <1>1, <1>7 DEF Executed, Advance, Go
<1> QED
  BY <1>2, <1>3, <1>4, <1>5, <1>6, <1>7, StepKinds

LEMMA StepInv ==
  ASSUME IInv, [Next]_vars
  PROVE  IInv'
<1>1. WindowInv'
  BY TypeStep, WindowStepKept DEF IInv, WindowInv, WindowKept
<1> QED
  BY <1>1, FrameStep, InformedStep, CoveredStep, ForeseenStep DEF IInv, WindowInv

LEMMA Invariance == Spec => []IInv
<1>1. IInv /\ [Next]_vars => IInv'
  BY StepInv
<1> QED
  BY InitInv, <1>1, PTL DEF Spec

-----------------------------------------------------------------------------
(* The variables hold what they are declared to hold.                      *)
THEOREM TypeCorrect == Spec => []TypeOK
<1>1. IInv => TypeOK
  BY DEF IInv, WindowInv
<1> QED
  BY Invariance, <1>1, PTL

(* A frame goes into the back buffer that is swapped, which has the size   *)
(* the kernel was told. (draw.)                                            *)
THEOREM FramesAreShown == Spec => []FrameIsShown
<1>1. IInv => FrameIsShown
  BY DEF IInv
<1> QED
  BY Invariance, <1>1, PTL

(* A destructor throws only when a constructor kept its failure to itself. *)
THEOREM AbortIsUnreported == Spec => []AbortsOnlyUnreported
<1>1. IInv => AbortsOnlyUnreported
  BY DEF IInv, WindowInv
<1> QED
  BY Invariance, <1>1, PTL

-----------------------------------------------------------------------------
(* A frame no larger than the images reads at places inside of them.       *)
LEMMA InsideOfImages ==
  ASSUME NEW w \in Nat, NEW h \in Nat, w <= MaxWidth, h <= MaxHeight,
         NEW i \in 0..w - 1, NEW j \in 0..h - 1
  PROVE  SourceOffset(i, j) \in Nat /\ SourceOffset(i, j) < MaxWidth * MaxHeight
<1>1. MaxWidth \in Nat /\ MaxHeight \in Nat /\ i \in Nat /\ j \in Nat
  BY DisplayAssumption
<1>2. i < MaxWidth /\ j + 1 <= MaxHeight
  BY <1>1
<1>3. (j + 1) * MaxWidth <= MaxHeight * MaxWidth
  BY <1>1, <1>2
<1> QED
  BY <1>1, <1>2, <1>3 DEF SourceOffset

(* Lines in parts of equal height, and a rest: when there are enough       *)
(* lines, the rest is less than a part.                                    *)
LEMMA ColourInMap ==
  ASSUME NEW h \in Nat \ {0}, h >= Stripes * (Stripes - 1), NEW j \in 0..h - 1
  PROVE  ColourOf(j, h) < Colours
<1> DEFINE q == h \div Stripes
           r == h % Stripes
<1>0. Stripes \in Nat /\ Stripes > 0 /\ Colours \in Nat /\ Colours > Stripes
  BY GradientsAssumption
<1>1. q \in Nat /\ r \in 0..Stripes - 1 /\ h = Stripes * q + r
  BY <1>0
<1>2. q >= Stripes - 1 /\ q >= 1
  <2> HIDE DEF q, r
  <2>1. q >= Stripes - 1
    <3> SUFFICES ASSUME q + 1 <= Stripes - 1 PROVE FALSE
      BY <1>0, <1>1
    <3>1. Stripes * (q + 1) <= Stripes * (Stripes - 1)
      BY <1>0, <1>1
    <3>2. Stripes * (q + 1) = Stripes * q + Stripes
      BY <1>0, <1>1
    <3> QED
      BY <1>0, <1>1, <3>1, <3>2
  <2>2. CASE Stripes = 1
    BY <1>1, <2>2
  <2> QED
    BY <1>0, <1>1, <2>1, <2>2
<1>3. j < (Stripes + 1) * q
  <2> HIDE DEF q, r
  <2>1. (Stripes + 1) * q = Stripes * q + q
    BY <1>0, <1>1
  <2> QED
    BY <1>0, <1>1, <1>2, <2>1
<1>4. j \div q <= Stripes
  <2> HIDE DEF q, r
  <2>1. j \in Nat /\ j \div q \in Nat /\ (j \div q) * q <= j
    BY <1>1, <1>2
  <2> DEFINE c == j \div q
  <2> HIDE DEF c
  <2> SUFFICES ASSUME c >= Stripes + 1 PROVE FALSE
    BY <1>0, <2>1 DEF c
  <2>2. c * q >= (Stripes + 1) * q
    BY <1>0, <1>1, <2>1 DEF c
  <2> QED
    BY <1>0, <1>1, <1>3, <2>1, <2>2 DEF c
<1> QED
  BY <1>0, <1>1, <1>2, <1>4 DEF ColourOf, StripeHeight

(* The pixels of a frame are computed from memory the program has set.     *)
LEMMA DefinedInv ==
  ASSUME IInv
  PROVE  PixelsDefined
<1> SUFFICES ASSUME pc = "execute"
    PROVE  IF program = "display"
           THEN IF TooLarge(buf.size) THEN Announced \/ lost
                ELSE \A k \in SourcesRead : SourceAt(k) # 0
           ELSE buf.size[2] >= Stripes * (Stripes - 1) =>
                  \A j \in 0..buf.size[2] - 1 : ColourOf(j, buf.size[2]) < Colours
  BY DEF PixelsDefined
<1>0. TypeOK
  BY DEF IInv, WindowInv
<1>1. buf.size[1] \in Nat /\ buf.size[2] \in Nat
  BY <1>0, WindowAssumption DEF TypeOK, WindowTypeOK, NoSize
<1>2. CASE program = "display" /\ TooLarge(buf.size)
  BY <1>2 DEF IInv, Foreseen
<1>3. CASE program = "display" /\ ~TooLarge(buf.size)
  <2>1. \A p \in Pixels : source[p] # 0
    BY <1>3 DEF IInv, Covered
  <2>2. buf.size[1] <= MaxWidth /\ buf.size[2] <= MaxHeight
    BY <1>1, <1>3, DisplayAssumption DEF TooLarge
  <2>3. ASSUME NEW k \in SourcesRead PROVE SourceAt(k) # 0
    <3>1. k \in Nat /\ k < MaxWidth * MaxHeight
      BY <1>1, <2>2, InsideOfImages DEF SourcesRead
    <3> QED
      BY <2>1, <3>1, PlaceIsPixel DEF SourceAt
  <2> QED
    BY <1>3, <2>3
<1>4. CASE program # "display"
  <2> SUFFICES ASSUME buf.size[2] >= Stripes * (Stripes - 1), NEW j \in 0..buf.size[2] - 1
      PROVE  ColourOf(j, buf.size[2]) < Colours
    BY <1>4
  <2>1. buf.size[2] \in Nat \ {0}
    BY <1>1
  <2> QED
    BY <2>1, ColourInMap
<1> QED
  BY <1>2, <1>3, <1>4

-----------------------------------------------------------------------------
(* Rounding up to whole parts covers, and leaves whole parts.              *)
LEMMA RoundedUp ==
  ASSUME NEW a \in Nat, NEW b \in Nat \ {0}
  PROVE  DivRoundUp(a, b) \in Nat /\ a <= DivRoundUp(a, b) * b
<1> DEFINE c == a + b - 1
           q == c \div b
           r == c % b
<1>1. c \in Nat /\ q \in Nat /\ r \in 0..b - 1 /\ c = b * q + r
  OBVIOUS
<1>2. q * b = b * q
  BY <1>1
<1>3. a <= q * b
  BY <1>1, <1>2
<1> QED
  BY <1>1, <1>3 DEF DivRoundUp

(* In a surface of n whole tiles a row, the offset of a pixel is that of   *)
(* its tile and its place in the tile.                                     *)
LEMMA OffsetInTile ==
  ASSUME NEW n \in Nat, NEW i \in Nat, NEW j \in Nat
  PROVE  Offset(i, j, n * TileWidth)
           = TileOf(i, j, n * TileWidth) * TileWidth * TileHeight
             + (j % TileHeight) * TileWidth + (i % TileWidth)
<1> DEFINE t == j \div TileHeight
           u == i \div TileWidth
           x == i % TileWidth
           y == j % TileHeight
<1>0. TileWidth \in Nat \ {0} /\ TileHeight \in Nat \ {0}
  BY WindowAssumption
<1>1. t \in Nat /\ u \in Nat /\ x \in Nat /\ y \in Nat
  BY <1>0
<1>2. (n * TileWidth) \div TileWidth = n
  BY <1>0
<1>3. TileOf(i, j, n * TileWidth) = t * n + u
  BY <1>2 DEF TileOf
<1>4. Offset(i, j, n * TileWidth)
        = x + u * TileWidth * TileHeight + t * (n * TileWidth) * TileHeight + y * TileWidth
  BY DEF Offset
<1> HIDE DEF t, u, x, y
<1>5. (t * n + u) * TileWidth * TileHeight
        = t * (n * TileWidth) * TileHeight + u * TileWidth * TileHeight
  BY <1>0, <1>1
<1>6. /\ (t * n + u) * TileWidth * TileHeight \in Int /\ u * TileWidth * TileHeight \in Int
      /\ t * (n * TileWidth) * TileHeight \in Int /\ y * TileWidth \in Int
  BY <1>0, <1>1
<1>7. Offset(i, j, n * TileWidth) = (t * n + u) * TileWidth * TileHeight + y * TileWidth + x
  BY <1>1, <1>4, <1>5, <1>6
<1> QED
  BY <1>3, <1>7 DEF x, y

(* Every pixel of a frame is written, to where a tiled surface has it.     *)
LEMMA PlacedInv ==
  ASSUME TypeOK
  PROVE  PixelsPlaced
<1> DEFINE s == buf.size
           n == DivRoundUp(s[1], TileWidth)
           whole == WorkSize(s)[1]
<1>0. s[1] \in Nat /\ s[2] \in Nat /\ TileWidth \in Nat \ {0}
  BY WindowAssumption DEF TypeOK, WindowTypeOK, NoSize
<1>1. whole = n * TileWidth /\ WorkSize(s)[2] = ((s[2] + 1) \div 2) * 2
  BY DEF WorkSize
<1>2. n \in Nat /\ s[1] <= n * TileWidth
  BY <1>0, RoundedUp
<1> HIDE DEF s, n, whole
<1>3. ASSUME NEW i \in 0..s[1] - 1, NEW j \in 0..s[2] - 1
      PROVE  /\ i < whole /\ j < WorkSize(s)[2]
             /\ \A pitch \in {whole, whole + TileWidth} :
                  Offset(i, j, pitch) = TileOf(i, j, pitch) * TileWidth * TileHeight
                    + (j % TileHeight) * TileWidth + (i % TileWidth)
  <2>1. i \in Nat /\ j \in Nat /\ i < whole /\ j < WorkSize(s)[2]
    BY <1>0, <1>1, <1>2
  <2>2. whole + TileWidth = (n + 1) * TileWidth /\ n + 1 \in Nat
    BY <1>0, <1>1, <1>2
  <2>3. ASSUME NEW pitch \in {whole, whole + TileWidth}
        PROVE  Offset(i, j, pitch) = TileOf(i, j, pitch) * TileWidth * TileHeight
                 + (j % TileHeight) * TileWidth + (i % TileWidth)
    BY <1>1, <1>2, <2>1, <2>2, OffsetInTile
  <2> QED
    BY <2>1, <2>3
<1> QED
  BY <1>3 DEF PixelsPlaced, s, whole

(* The pixels of a frame are computed from memory the program has set.     *)
(* (update_pattern and the guard of draw; the kernel of the gradients.)    *)
THEOREM PixelsAreDefined == Spec => []PixelsDefined
<1>1. IInv => PixelsDefined
  BY DefinedInv
<1> QED
  BY Invariance, <1>1, PTL

(* Every pixel of a frame is written, whatever the sizes of tile and frame.*)
(* (DIV_ROUND_UP and the range of execute, with y_offset in the kernels.)  *)
THEOREM PixelsArePlaced == Spec => []PixelsPlaced
<1>1. IInv => PixelsPlaced
  BY PlacedInv DEF IInv, WindowInv
<1> QED
  BY Invariance, <1>1, PTL
=============================================================================
