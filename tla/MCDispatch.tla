----------------------------- MODULE MCDispatch ------------------------------
(***************************************************************************)
(* Instances of Dispatch for TLC.  Kernels differ from a usual one (all    *)
(* three widths compiled, local ids present, 64 bytes of cross-thread data)*)
(* in one or two fields; ranges are small boxes around the widths.         *)
(***************************************************************************)
EXTENDS Dispatch

Usual == [largest |-> 32, compiled |-> Widths, ids |-> 3, unused |-> FALSE,
          cross |-> 2, slm |-> 0, flaw |-> "none"]

WidthKernels ==
  {[Usual EXCEPT !.largest = l, !.compiled = c, !.unused = u] :
     l \in {8, 16, 32, 64}, c \in SUBSET Widths, u \in BOOLEAN}
PlainKernels ==
  {[Usual EXCEPT !.ids = i, !.cross = c] : i \in 0..1, c \in {1, 5, 1984}}
SlmKernels == {[Usual EXCEPT !.slm = s] : s \in {1, 1024, 1025, 4096, 65536, 65537}}
FlawedKernels == {[Usual EXCEPT !.flaw = f] : f \in {"early", "late", "local"}}

AllKernels == WidthKernels \cup PlainKernels \cup SlmKernels \cup FlawedKernels

Box(a, b, c) == [x |-> a, y |-> b, z |-> c]
Boxes == {Box(a, b, c) : a \in {8, 12, 16, 32}, b \in {1, 3}, c \in {1, 2}}
Odd == {Box(0, 1, 1), Box(64, 17, 1), Box(8, 65, 1), Box(8, 67, 1)}

SmallRanges ==
  {[global |-> Box(2 * l.x, 3 * l.y, l.z), local |-> l] : l \in Boxes \cup Odd}
  \cup {[global |-> Box(20, 1, 1), local |-> Box(16, 1, 1)]}

(* Sizes whose product passes 2^16, which stands for 2^32.                 *)
WideRanges ==
  {[global |-> Box(a, b, c), local |-> Box(a, b, c)] :
     a \in {8, 32}, b \in {1, 2}, c \in {1, 1024, 32768}}
=============================================================================
