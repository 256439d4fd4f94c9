--------------------------- MODULE DispatchProofs ---------------------------
(***************************************************************************)
(* Proofs about Dispatch, for every kernel, every range, every number of   *)
(* hardware threads and every page size: the choice of the width, the      *)
(* layout and the bounds of the local ids, and the shared local memory.    *)
(*                                                                         *)
(* Sizes are computed in 32 bits; what depends on them is proved of calls  *)
(* in which they do not wrap.                                              *)
(***************************************************************************)
EXTENDS Dispatch, TLAPS

(* The work group has fewer than 2^32 items.                               *)
ItemsUnwrapped == Items < Word
(* The indirect data has fewer than 2^32 bytes.                            *)
LengthUnwrapped == PerThreadBytes * threads + CrossThreadBytes < Word

Ahead == {"threads", "global", "payload"}
Placing == {"ids", "length", "slm", "urb", "dispatched"}

(* Where the id of dimension c of lane l is written.                       *)
Slot(l, c) == ((l \div simd) * PerThreadBytes + c * LocalIdBytes) \div 2 + (l % simd)

-----------------------------------------------------------------------------
(* The width that was chosen fits; until then there are no threads.        *)
NotYet ==
  /\ stage = "group" => simd = 0 /\ threads = 0
  /\ stage = "width" => simd \in {4} \cup Widths /\ simd <= kernel.largest /\ threads = 0
  /\ stage \in {"group", "width"} \cup Ahead => lane = 0 /\ x = 0 /\ y = 0 /\ z = 0 /\ payload = <<>>
Sized == stage \in {"width"} \cup Ahead \cup Placing => local.x >= 1 /\ local.y >= 1 /\ local.z >= 1
Chosen ==
  stage \in Ahead \cup Placing \/ threads > 0 =>
    /\ simd \in Widths /\ simd <= kernel.largest /\ Fits(simd)
    /\ threads = ThreadsAt(simd)
Widest == ItemsUnwrapped =>
  /\ reason = "width" => Usable = {}
  /\ stage = "width" \/ threads > 0 => \A s \in Usable : s <= simd

(* The checks between the width and the ids.                               *)
Checked ==
  /\ stage \in {"payload"} \cup Placing => \A d \in {"x", "y", "z"} : global[d] % local[d] = 0
  /\ stage \in Placing => kernel.ids \in {0, 3}
  /\ stage \in Placing \ {"ids"} /\ kernel.ids = 3 => lane = threads * simd

(* The running id, read as the number of the lane.                         *)
Number(a, b, c) == a + local.x * (b + local.y * c)
Counted ==
  stage \in Placing =>
    x \in 0..local.x - 1 /\ y \in 0..local.y - 1 /\ lane = Number(x, y, z)

(* Every lane so far has the id of its number, in a place of the buffer.   *)
Laid ==
  stage \in Placing =>
    \A l \in 0..lane - 1 :
      /\ \A c \in 0..2 : Slot(l, c) \in DOMAIN payload
      /\ payload[Slot(l, 0)] \in 0..local.x - 1
      /\ payload[Slot(l, 1)] \in 0..local.y - 1
      /\ payload[Slot(l, 2)] \in Nat
      /\ Number(payload[Slot(l, 0)], payload[Slot(l, 1)], payload[Slot(l, 2)]) = l
Inside == \A o \in DOMAIN payload : o \in Nat /\ 2 * o + 2 <= PerThreadBytes * threads

(* The power of two on its way up.                                         *)
Powers == {1024, 2048, 4096, 8192, 16384, 32768, 65536}
Rounded ==
  /\ slm \in {0} \cup Powers
  /\ stage \in {"slm", "urb", "dispatched"} =>
       /\ slm > 1024 => slm < 2 * kernel.slm
       /\ slm = 0 => kernel.slm = 0
  /\ stage \in {"urb", "dispatched"} => slm >= kernel.slm

IInv ==
  /\ TypeOK /\ NotYet /\ Sized /\ Chosen /\ Widest /\ Checked
  /\ Counted /\ Laid /\ Inside /\ Rounded

-----------------------------------------------------------------------------
LEMMA Typed ==
  ASSUME TypeOK
  PROVE  /\ local.x \in Nat /\ local.y \in Nat /\ local.z \in Nat
         /\ global.x \in Nat /\ global.y \in Nat /\ global.z \in Nat
         /\ kernel \in KernelType /\ Word \in Nat \ {0} /\ MaxCsThreads \in Nat
         /\ PageSize \in Nat \ {0} /\ Items \in Nat
<1>1. [global |-> global, local |-> local] \in [global : NDRange, local : NDRange]
  BY DispatchAssumption DEF TypeOK
<1>2. local \in NDRange /\ global \in NDRange
  BY <1>1
<1>3. local.x \in Nat /\ local.y \in Nat /\ local.z \in Nat
  BY <1>2 DEF NDRange
<1>4. Items \in Nat
  BY <1>3 DEF Items
<1> QED
  BY <1>2, <1>3, <1>4, DispatchAssumption DEF NDRange, TypeOK

LEMMA Small ==
  ASSUME NEW a \in Nat, NEW w \in Nat \ {0}, a < w
  PROVE  a % w = a /\ a \div w = 0
OBVIOUS

(* A product and one of its factors are enough to know the other.          *)
LEMMA Digits ==
  ASSUME NEW X \in Nat, NEW a \in 0..X - 1, NEW b \in 0..X - 1, NEW p \in Nat, NEW q \in Nat,
         a + X * p = b + X * q
  PROVE  a = b /\ p = q
<1>1. ASSUME NEW c \in 0..X - 1, NEW d \in 0..X - 1, NEW m \in Nat, NEW n \in Nat,
             c + X * m = d + X * n, m < n
      PROVE  FALSE
  <2>1. X * (m + 1) <= X * n
    BY <1>1
  <2>2. X * (m + 1) = X * m + X
    OBVIOUS
  <2>3. X * m \in Nat /\ X * n \in Nat
    OBVIOUS
  <2> QED
    BY <1>1, <2>1, <2>2, <2>3
<1>2. ~(p < q) /\ ~(q < p)
  BY <1>1
<1>3. p = q
  BY <1>2
<1> QED
  BY <1>3

(* The places of the ids: where they are, that no two are the same, and    *)
(* that they are in the buffer. Registers are filled up to the last byte.  *)
LEMMA Slots ==
  ASSUME simd \in Widths, kernel \in KernelType, kernel.ids = 3, threads \in Nat
  PROVE  /\ \A l \in Nat, c \in 0..2 : Slot(l, c) \in Nat
         /\ \A l \in Nat, c \in 0..2 : l < threads * simd =>
              2 * Slot(l, c) + 2 <= PerThreadBytes * threads
         /\ \A l, m \in Nat, c, d \in 0..2 : Slot(l, c) = Slot(m, d) => l = m /\ c = d
<1> DEFINE L == LocalIdBytes
           P == PerThreadBytes
<1>1. /\ (simd \in {8, 16} /\ L = 32) \/ (simd = 32 /\ L = 64)
      /\ P = 3 * L \/ P = 3 * L + 32
  <2>1. kernel.unused \in BOOLEAN /\ kernel.ids = 3
    BY DEF KernelType
  <2>2. (simd \in {8, 16} /\ L = 32) \/ (simd = 32 /\ L = 64)
    <3>1. simd = 8 \/ simd = 16 \/ simd = 32
      BY DEF Widths
    <3>2. CASE simd = 8
      BY <3>2 DEF LocalIdBytes, Grf
    <3>3. CASE simd = 16
      BY <3>3 DEF LocalIdBytes, Grf
    <3>4. CASE simd = 32
      BY <3>4 DEF LocalIdBytes, Grf
    <3> QED
      BY <3>1, <3>2, <3>3, <3>4
  <2>3. P = 3 * L + (IF kernel.unused THEN 32 ELSE 0)
    BY <2>1 DEF PerThreadBytes, Grf
  <2>4. L \in Nat
    BY <2>2
  <2> HIDE DEF L, P
  <2>5. P = 3 * L \/ P = 3 * L + 32
    BY <2>1, <2>3, <2>4
  <2> QED
    BY <2>2, <2>5
<1>2. \A l, c : Slot(l, c) = ((l \div simd) * P + c * L) \div 2 + (l % simd)
  BY DEF Slot
<1> HIDE DEF L, P
<1>3. ASSUME NEW l \in Nat, NEW c \in 0..2
      PROVE  \E i \in Nat, j \in 0..simd - 1 :
               /\ i = l \div simd /\ l = simd * i + j
               /\ Slot(l, c) \in Nat /\ 2 * Slot(l, c) = i * P + c * L + 2 * j
  <2> DEFINE i == l \div simd
             j == l % simd
  <2>1. i \in Nat /\ j \in 0..simd - 1 /\ l = simd * i + j
    BY <1>1
  <2> HIDE DEF i, j
  <2>2. \E h \in Nat : i * P + c * L = 2 * h
    <3>1. CASE P = 96
      BY <1>1, <2>1, <3>1, i * 48 + c * 16 \in Nat, i * P + c * L = 2 * (i * 48 + c * 16)
    <3>2. CASE P = 128
      BY <1>1, <2>1, <3>2, i * 64 + c * 16 \in Nat, i * P + c * L = 2 * (i * 64 + c * 16)
    <3>3. CASE P = 192
      BY <1>1, <2>1, <3>3, i * 96 + c * 32 \in Nat, i * P + c * L = 2 * (i * 96 + c * 32)
    <3>4. CASE P = 224
      BY <1>1, <2>1, <3>4, i * 112 + c * 32 \in Nat, i * P + c * L = 2 * (i * 112 + c * 32)
    <3> QED
      BY <1>1, <3>1, <3>2, <3>3, <3>4
  <2>3. PICK h \in Nat : i * P + c * L = 2 * h
    BY <2>2
  <2>4. (2 * h) \div 2 = h
    OBVIOUS
  <2>5. Slot(l, c) = h + j
    BY <1>2, <2>3, <2>4 DEF i, j
  <2> QED
    BY <2>1, <2>3, <2>5 DEF i
<1>4. ASSUME NEW l \in Nat, NEW c \in 0..2, l < threads * simd
      PROVE  2 * Slot(l, c) + 2 <= P * threads
  <2>1. PICK i \in Nat, j \in 0..simd - 1 :
          l = simd * i + j /\ 2 * Slot(l, c) = i * P + c * L + 2 * j
    BY <1>3
  <2>2. i < threads
    BY <1>1, <1>4, <2>1
  <2>3. c = 0 \/ c = 1 \/ c = 2
    OBVIOUS
  <2>4. c * L + 2 * j + 2 <= P
    BY <1>1, <2>1, <2>3
  <2>5. (i + 1) * P <= threads * P /\ (i + 1) * P = i * P + P /\ threads * P = P * threads
    BY <1>1, <2>2
  <2>6. i * P \in Nat /\ threads * P \in Nat /\ c * L \in Nat /\ P \in Nat
    BY <1>1, <2>3
  <2> QED
    BY <2>1, <2>4, <2>5, <2>6
<1>5. ASSUME NEW l \in Nat, NEW m \in Nat, NEW c \in 0..2, NEW d \in 0..2, Slot(l, c) = Slot(m, d)
      PROVE  l = m /\ c = d
  <2>1. PICK i \in Nat, j \in 0..simd - 1 :
          l = simd * i + j /\ 2 * Slot(l, c) = i * P + c * L + 2 * j
    BY <1>3
  <2>2. PICK k \in Nat, n \in 0..simd - 1 :
          m = simd * k + n /\ 2 * Slot(m, d) = k * P + d * L + 2 * n
    BY <1>3
  <2>3. c \in {0, 1, 2} /\ d \in {0, 1, 2}
    OBVIOUS
  <2>4. P * i = i * P /\ P * k = k * P /\ P \in Nat /\ L \in Nat
    BY <1>1
  <2>5. 2 * j \in 0..L - 1 /\ 2 * n \in 0..L - 1
    <3>1. CASE simd \in {8, 16}
      BY <1>1, <2>1, <2>2, <3>1
    <3>2. CASE simd = 32
      BY <1>1, <2>1, <2>2, <3>2
    <3> QED
      BY <1>1, <3>1, <3>2
  <2>6. c * L \in 0..2 * L /\ d * L \in 0..2 * L /\ L * c = c * L /\ L * d = d * L
    BY <2>3, <2>4
  <2>7. c * L + 2 * j \in 0..P - 1 /\ d * L + 2 * n \in 0..P - 1
    BY <1>1, <2>1, <2>2, <2>4, <2>5, <2>6
  <2>8. (c * L + 2 * j) + P * i = (d * L + 2 * n) + P * k
    BY <1>5, <2>1, <2>2, <2>3, <2>4, c * L \in Nat, d * L \in Nat, i * P \in Nat, k * P \in Nat
  <2>9. c * L + 2 * j = d * L + 2 * n /\ i = k
    BY <2>4, <2>7, <2>8, Digits
  <2>10. 2 * j + L * c = 2 * n + L * d
    BY <2>4, <2>9, <2>5, <2>6
  <2>11. c \in Nat /\ d \in Nat
    OBVIOUS
  <2>12. 2 * j = 2 * n /\ c = d
    BY <2>4, <2>5, <2>10, <2>11, Digits
  <2>13. j = n
    BY <2>12
  <2> QED
    BY <2>1, <2>2, <2>9, <2>12, <2>13
<1> QED
  BY <1>3, <1>4, <1>5 DEF P

(* The number of threads of a width, when nothing wraps.                   *)
LEMMA ThreadsTimesWidth ==
  ASSUME TypeOK, ItemsUnwrapped, NEW s \in Widths, local.x % s = 0
  PROVE  /\ ThreadsAt(s) = (local.x \div s) * local.y * local.z
         /\ ThreadsAt(s) * s = Items
         /\ (local.x \div s) * s = local.x
<1> DEFINE k == local.x \div s
           n == k * local.y * local.z
<1>1. local.x \in Nat /\ local.y \in Nat /\ local.z \in Nat /\ Word \in Nat \ {0}
  BY Typed
<1>2. s \in {8, 16, 32}
  BY DEF Widths
<1>3. k \in Nat /\ k * s = local.x
  BY <1>1, <1>2
<1>4. k * local.y \in Nat /\ n \in Nat
  BY <1>1, <1>3
<1>5. n * s = Items
  <2>1. n * s = (k * local.y) * s * local.z
    BY <1>1, <1>2, <1>3, <1>4
  <2>2. (k * local.y) * s = (k * s) * local.y
    BY <1>1, <1>2, <1>3
  <2> QED
    BY <1>3, <2>1, <2>2 DEF Items
<1> HIDE DEF k, n
<1>6. n <= n * s
  BY <1>2, <1>4
<1>7. n < Word
  BY <1>1, <1>2, <1>4, <1>5, <1>6 DEF ItemsUnwrapped
<1>8. ThreadsAt(s) = n % Word
  BY DEF ThreadsAt, n, k
<1>9. ThreadsAt(s) = n
  BY <1>1, <1>4, <1>7, <1>8, Small
<1> QED
  BY <1>3, <1>5, <1>9 DEF n, k

(* A width of the kernel's choice is usable when the loop takes it.        *)
LEMMA UsableFits ==
  ASSUME TypeOK, ItemsUnwrapped, local.x >= 1, NEW s \in kernel.compiled, s <= kernel.largest
  PROVE  s \in Usable <=> Fits(s)
<1>1. /\ local.x \in Nat /\ local.y \in Nat /\ local.z \in Nat
      /\ kernel.compiled \subseteq Widths
  BY Typed DEF KernelType
<1>2. s \in Widths /\ s \in {8, 16, 32}
  BY <1>1 DEF Widths
<1>3. ASSUME Fits(s)
      PROVE  \E k \in 1..local.x : k * s = local.x /\ k * local.y * local.z <= MaxCsThreads
  <2>1. local.x % s = 0 /\ ThreadsAt(s) <= MaxCsThreads
    BY <1>3 DEF Fits
  <2>2. /\ ThreadsAt(s) = (local.x \div s) * local.y * local.z
        /\ (local.x \div s) * s = local.x
    BY <1>2, <2>1, ThreadsTimesWidth
  <2>3. local.x \div s \in 1..local.x
    BY <1>1, <1>2, <2>2
  <2> QED
    BY <2>1, <2>2, <2>3
<1>4. ASSUME NEW k \in 1..local.x, k * s = local.x, k * local.y * local.z <= MaxCsThreads
      PROVE  Fits(s)
  <2>1. local.x % s = 0 /\ local.x \div s = k
    BY <1>1, <1>2, <1>4
  <2>2. ThreadsAt(s) = k * local.y * local.z
    BY <1>2, <2>1, ThreadsTimesWidth
  <2> QED
    BY <1>4, <2>1, <2>2 DEF Fits
<1> QED
  BY <1>3, <1>4 DEF Usable

-----------------------------------------------------------------------------
LEMMA InitIInv == ASSUME Init PROVE IInv
<1>1. TypeOK
  <2>1. [global |-> global, local |-> local] \in Ranges
    <3>1. PICK r \in Ranges : global = r.global /\ local = r.local
      BY DEF Init
    <3>2. r \in [global : NDRange, local : NDRange]
      BY DispatchAssumption
    <3>3. r = [global |-> global, local |-> local]
      BY <3>1, <3>2
    <3> QED
      BY <3>3
  <2> QED
    BY <2>1, DispatchAssumption DEF Init, TypeOK, Stages, Reasons
<1>2. NotYet /\ Sized /\ Chosen /\ Widest
  BY DEF Init, NotYet, Sized, Chosen, Widest, Ahead, Placing
<1>3. Checked /\ Counted /\ Laid /\ Inside /\ Rounded
  BY DEF Init, Checked, Counted, Laid, Inside, Rounded, Ahead, Placing
<1> QED
  BY <1>1, <1>2, <1>3 DEF IInv

(* What depends on the call alone.                                         *)
LEMMA SameCall ==
  ASSUME UNCHANGED input
  PROVE  /\ kernel' = kernel /\ local' = local /\ global' = global
         /\ Usable' = Usable /\ (ItemsUnwrapped' <=> ItemsUnwrapped)
         /\ \A s : ThreadsAt(s)' = ThreadsAt(s) /\ (Fits(s)' <=> Fits(s))
<1>1. kernel' = kernel /\ local' = local /\ global' = global
  BY DEF input
<1>2. Usable' = Usable
  BY <1>1 DEF Usable
<1>3. ItemsUnwrapped' <=> ItemsUnwrapped
  BY <1>1 DEF ItemsUnwrapped, Items
<1>4. \A s : ThreadsAt(s)' = ThreadsAt(s)
  BY <1>1 DEF ThreadsAt
<1>5. \A s : Fits(s)' <=> Fits(s)
  BY <1>1, <1>4 DEF Fits
<1> QED
  BY <1>1, <1>2, <1>3, <1>4, <1>5

(* What depends on the call and the width.                                 *)
LEMMA SameLayout ==
  ASSUME UNCHANGED <<input, simd>>
  PROVE  /\ PerThreadBytes' = PerThreadBytes
         /\ \A l, c : Slot(l, c)' = Slot(l, c)
         /\ \A a, b, c : Number(a, b, c)' = Number(a, b, c)
<1>1. kernel' = kernel /\ local' = local
  BY DEF input
<1>2. LocalIdBytes' = LocalIdBytes
  BY DEF LocalIdBytes
<1>3. PerThreadBytes' = PerThreadBytes
  BY <1>1, <1>2 DEF PerThreadBytes
<1>4. \A l, c : Slot(l, c)' = Slot(l, c)
  BY <1>2, <1>3 DEF Slot
<1>5. \A a, b, c : Number(a, b, c)' = Number(a, b, c)
  BY <1>1 DEF Number
<1> QED
  BY <1>3, <1>4, <1>5

(* What depends on the ids as well.                                        *)
LEMMA SameIds ==
  ASSUME UNCHANGED <<input, simd, threads, ids>>
  PROVE  /\ lane' = lane /\ x' = x /\ y' = y /\ z' = z /\ payload' = payload
         /\ PerThreadBytes' = PerThreadBytes
         /\ \A l, c : Slot(l, c)' = Slot(l, c)
         /\ \A a, b, c : Number(a, b, c)' = Number(a, b, c)
<1>1. lane' = lane /\ x' = x /\ y' = y /\ z' = z /\ payload' = payload
  BY DEF ids
<1> QED
  BY <1>1, SameLayout

-----------------------------------------------------------------------------
(* The steps between the loops leave the width and the ids as they are.    *)
LEMMA Kept ==
  ASSUME IInv, UNCHANGED <<input, simd, threads, ids>>,
         stage' \in Stages \ {"group", "width"},
         stage' \in Ahead => stage \in Ahead \cup {"width"},
         stage' \in Placing => stage \in Placing \cup {"payload"},
         stage # "width",
         reason' \in Reasons \ {"width"} \/ reason' = reason,
         stage' = "rejected" <=> reason' # "none",
         slm' \in Nat
  PROVE  TypeOK' /\ NotYet' /\ Sized' /\ Chosen' /\ Widest' /\ Counted' /\ Laid' /\ Inside'
<1>1. /\ kernel' = kernel /\ local' = local /\ global' = global
      /\ Usable' = Usable /\ (ItemsUnwrapped' <=> ItemsUnwrapped)
      /\ \A s : ThreadsAt(s)' = ThreadsAt(s) /\ (Fits(s)' <=> Fits(s))
  BY SameCall
<1>2. /\ lane' = lane /\ x' = x /\ y' = y /\ z' = z /\ payload' = payload
      /\ PerThreadBytes' = PerThreadBytes
      /\ \A l, c : Slot(l, c)' = Slot(l, c)
      /\ \A a, b, c : Number(a, b, c)' = Number(a, b, c)
  BY SameIds
<1>3. TypeOK /\ NotYet /\ Sized /\ Chosen /\ Widest /\ Counted /\ Laid /\ Inside
  BY DEF IInv
<1>4. TypeOK'
  BY <1>1, <1>2, <1>3 DEF TypeOK
<1>5. NotYet'
  BY <1>1, <1>2, <1>3 DEF NotYet, Ahead, Placing
<1>6. Sized'
  BY <1>1, <1>3 DEF Sized, Ahead, Placing
<1>7. Chosen'
  BY <1>1, <1>3 DEF Chosen, Ahead, Placing
<1>8. Widest'
  BY <1>1, <1>3 DEF Widest
<1>9. Counted'
  <2>1. Number(x, y, z)' = Number(x, y, z)
    BY <1>1, <1>2 DEF Number
  <2>2. CASE stage' \in Placing /\ stage \in Placing
    BY <1>1, <1>2, <1>3, <2>1, <2>2 DEF Counted
  <2>3. CASE stage' \in Placing /\ stage = "payload"
    <3>1. lane = 0 /\ x = 0 /\ y = 0 /\ z = 0 /\ local.x >= 1 /\ local.y >= 1
      BY <1>3, <2>3 DEF NotYet, Sized, Ahead
    <3>2. local.x \in Nat /\ local.y \in Nat
      BY <1>3, Typed
    <3>3. Number(x, y, z) = 0
      BY <3>1, <3>2 DEF Number
    <3> QED
      BY <1>1, <1>2, <2>1, <3>1, <3>2, <3>3 DEF Counted
  <2> QED
    BY <2>2, <2>3 DEF Counted
<1>10. Laid'
  <2>1. CASE stage' \in Placing /\ stage \in Placing
    BY <1>1, <1>2, <1>3, <2>1 DEF Laid
  <2>2. CASE stage' \in Placing /\ stage = "payload"
    <3>1. 0..lane' - 1 = {}
      BY <1>2, <1>3, <2>2 DEF NotYet, Ahead
    <3> QED
      BY <3>1 DEF Laid
  <2> QED
    BY <2>1, <2>2 DEF Laid
<1>11. Inside'
  BY <1>1, <1>2, <1>3 DEF Inside
<1> QED
  BY <1>4, <1>5, <1>6, <1>7, <1>8, <1>9, <1>10, <1>11

(* The size of the group.                                                  *)
LEMMA CheckGroupStep == ASSUME IInv, CheckGroup PROVE IInv'
<1>1. /\ TypeOK /\ NotYet /\ Widest /\ Rounded /\ stage = "group"
      /\ UNCHANGED <<input, threads, ids, slm>>
  BY DEF IInv, CheckGroup
<1>2. /\ simd = 0 /\ threads = 0 /\ threads' = 0 /\ reason = "none"
      /\ lane = 0 /\ x = 0 /\ y = 0 /\ z = 0 /\ payload = <<>>
      /\ lane' = 0 /\ x' = 0 /\ y' = 0 /\ z' = 0 /\ payload' = <<>> /\ slm' = slm
  BY <1>1 DEF NotYet, TypeOK, ids
<1>3. /\ kernel' = kernel /\ local' = local /\ global' = global
      /\ Usable' = Usable /\ (ItemsUnwrapped' <=> ItemsUnwrapped)
  BY <1>1, SameCall
<1>4. \/ /\ stage' = "rejected" /\ reason' \in {"largest", "empty", "group"} /\ simd' = 0
      \/ /\ stage' = "width" /\ reason' = "none"
         /\ simd' = kernel.largest /\ simd' \in Widths
         /\ local.x >= 1 /\ local.y >= 1 /\ local.z >= 1
  <2>1. local.x \in Nat /\ local.y \in Nat /\ local.z \in Nat
    BY <1>1, Typed
  <2>2. CASE kernel.largest \notin Widths
    BY <1>2, <2>2 DEF CheckGroup, Throw
  <2>3. CASE local.x < 1 \/ local.y < 1 \/ local.z < 1
    BY <1>2, <2>2, <2>3 DEF CheckGroup, Throw
  <2>4. CASE kernel.largest \in Widths /\ ~(local.x < 1 \/ local.y < 1 \/ local.z < 1)
    BY <1>2, <2>1, <2>4 DEF CheckGroup, Throw, Go
  <2> QED
    BY <2>2, <2>3, <2>4
<1>5. TypeOK'
  BY <1>1, <1>2, <1>3, <1>4 DEF TypeOK, Stages, Reasons, Widths
<1>6. NotYet' /\ Sized' /\ Chosen' /\ Checked'
  BY <1>2, <1>3, <1>4, Typed DEF NotYet, Sized, Chosen, Checked, Ahead, Placing, Widths
<1>7. Widest'
  BY <1>1, <1>2, <1>3, <1>4 DEF Widest, Usable
<1>8. Counted' /\ Laid' /\ Inside'
  BY <1>2, <1>4 DEF Counted, Laid, Inside, Placing
<1>9. Rounded'
  BY <1>1, <1>2, <1>4 DEF Rounded
<1> QED
  BY <1>5, <1>6, <1>7, <1>8, <1>9 DEF IInv

(* The choice of the width.                                                *)
LEMMA TryWidthStep == ASSUME IInv, TryWidth PROVE IInv'
<1>1. /\ TypeOK /\ NotYet /\ Sized /\ Widest /\ Rounded /\ stage = "width"
      /\ UNCHANGED <<input, ids, slm>>
  BY DEF IInv, TryWidth
<1>2. /\ threads = 0 /\ reason = "none" /\ simd \in {4, 8, 16, 32} /\ simd <= kernel.largest
      /\ lane' = 0 /\ x' = 0 /\ y' = 0 /\ z' = 0 /\ payload' = <<>> /\ slm' = slm
      /\ local.x >= 1 /\ local.y >= 1 /\ local.z >= 1
  BY <1>1 DEF NotYet, Sized, TypeOK, ids, Widths
<1>3. /\ kernel' = kernel /\ local' = local /\ global' = global
      /\ Usable' = Usable /\ (ItemsUnwrapped' <=> ItemsUnwrapped)
      /\ \A s : ThreadsAt(s)' = ThreadsAt(s) /\ (Fits(s)' <=> Fits(s))
  BY <1>1, SameCall
<1>4. /\ kernel \in KernelType /\ MaxCsThreads \in Nat /\ Word \in Nat \ {0}
      /\ local.x \in Nat /\ local.y \in Nat /\ local.z \in Nat
      /\ kernel.largest \in Nat /\ kernel.compiled \subseteq {8, 16, 32}
  BY <1>1, Typed DEF KernelType, Widths
<1>5. /\ ItemsUnwrapped => \A s \in Usable : s <= simd
      /\ \A s \in Usable : s \in {8, 16, 32} /\ s \in kernel.compiled /\ s <= kernel.largest
  BY <1>1, <1>4 DEF Widest, Usable
<1>6. CASE simd < 8
  <2>1. /\ stage' = "rejected" /\ reason' = "width" /\ simd' = simd /\ threads' = 0
    BY <1>2, <1>6 DEF TryWidth, Throw
  <2>2. TypeOK'
    BY <1>1, <1>2, <1>3, <2>1 DEF TypeOK, Stages, Reasons
  <2>3. NotYet' /\ Sized' /\ Chosen' /\ Checked' /\ Counted' /\ Laid' /\ Inside' /\ Rounded'
    BY <1>1, <1>2, <2>1
       DEF NotYet, Sized, Chosen, Checked, Counted, Laid, Inside, Rounded, Ahead, Placing
  <2>4. Widest'
    BY <1>2, <1>3, <1>5, <1>6, <2>1 DEF Widest
  <2> QED
    BY <2>2, <2>3, <2>4 DEF IInv
<1>7. CASE simd >= 8 /\ Fits(simd)
  <2>1. /\ stage' = "threads" /\ reason' = "none" /\ simd' = simd /\ threads' = ThreadsAt(simd)
        /\ simd \in {8, 16, 32}
    BY <1>2, <1>7 DEF TryWidth, Go
  <2>2. threads' \in 0..MaxCsThreads
    <3>1. local.x \div simd \in Nat
      BY <1>4, <2>1
    <3>2. (local.x \div simd) * local.y * local.z \in Nat
      BY <1>4, <3>1
    <3>3. ThreadsAt(simd) \in Nat
      BY <1>4, <3>2 DEF ThreadsAt
    <3> QED
      BY <1>7, <2>1, <3>3, <1>4 DEF Fits
  <2>3. TypeOK'
    BY <1>1, <1>2, <1>3, <2>1, <2>2 DEF TypeOK, Stages, Reasons
  <2>4. NotYet' /\ Sized' /\ Checked' /\ Counted' /\ Laid' /\ Rounded'
    BY <1>1, <1>2, <1>3, <2>1
       DEF NotYet, Sized, Checked, Counted, Laid, Rounded, Ahead, Placing
  <2>5. Chosen'
    BY <1>2, <1>3, <1>7, <2>1 DEF Chosen, Fits, ThreadsAt, Widths
  <2>6. Widest'
    BY <1>3, <1>5, <2>1 DEF Widest
  <2>7. Inside'
    BY <1>2 DEF Inside
  <2> QED
    BY <2>3, <2>4, <2>5, <2>6, <2>7 DEF IInv
<1>8. CASE simd >= 8 /\ ~Fits(simd)
  <2>1. /\ stage' = "width" /\ reason' = "none" /\ simd' = simd \div 2 /\ threads' = 0
        /\ simd \in {8, 16, 32} /\ simd' \in {4, 8, 16} /\ simd' <= kernel.largest
    BY <1>1, <1>2, <1>4, <1>8 DEF TryWidth
  <2>2. TypeOK'
    BY <1>1, <1>2, <1>3, <2>1 DEF TypeOK, Widths
  <2>3. NotYet' /\ Sized' /\ Chosen' /\ Checked' /\ Counted' /\ Laid' /\ Inside' /\ Rounded'
    BY <1>1, <1>2, <1>3, <2>1
       DEF NotYet, Sized, Chosen, Checked, Counted, Laid, Inside, Rounded, Ahead, Placing, Widths
  <2>4. Widest'
    <3>1. ItemsUnwrapped => simd \notin Usable
      BY <1>1, <1>2, <1>5, <1>8, UsableFits
    <3>2. ItemsUnwrapped => \A s \in Usable : s <= simd'
      BY <1>5, <2>1, <3>1
    <3> QED
      BY <1>3, <2>1, <3>2 DEF Widest
  <2> QED
    BY <2>2, <2>3, <2>4 DEF IInv
<1> QED
  BY <1>2, <1>6, <1>7, <1>8

(* The checks before and after the ids.                                    *)
LEMMA CheckStep ==
  ASSUME IInv, CheckThreads \/ CheckGlobal \/ CheckPayload \/ IdsDone \/ CheckUrb
  PROVE  IInv'
<1>1. /\ TypeOK /\ Checked /\ Rounded /\ UNCHANGED <<input, simd, threads, ids>> /\ slm' = slm
  BY DEF IInv, CheckThreads, CheckGlobal, CheckPayload, IdsDone, CheckUrb
<1>2. /\ kernel' = kernel /\ local' = local /\ global' = global
      /\ lane' = lane /\ threads' = threads /\ simd' = simd
  BY <1>1, SameCall, SameIds
<1>3. \/ /\ stage' = "rejected" /\ reason' \in {"threads", "global", "payload", "urb"}
         /\ stage \in {"threads", "global", "payload", "ids", "urb"}
      \/ /\ reason' = reason
         /\ <<stage, stage'>> \in {<<"threads", "global">>, <<"global", "payload">>,
                                   <<"payload", "ids">>, <<"ids", "length">>,
                                   <<"urb", "dispatched">>}
  BY DEF CheckThreads, CheckGlobal, CheckPayload, IdsDone, CheckUrb, Go, Throw
<1>4. reason \in Reasons /\ (stage = "rejected" <=> reason # "none") /\ slm' \in Nat
  BY <1>1 DEF TypeOK
<1>5. /\ stage' \in Stages \ {"group", "width"}
      /\ stage' \in Ahead => stage \in Ahead \cup {"width"}
      /\ stage' \in Placing => stage \in Placing \cup {"payload"}
      /\ stage # "width"
      /\ reason' \in Reasons \ {"width"} \/ reason' = reason
      /\ stage' = "rejected" <=> reason' # "none"
  BY <1>3, <1>4 DEF Stages, Ahead, Placing, Reasons
<1>6. TypeOK' /\ NotYet' /\ Sized' /\ Chosen' /\ Widest' /\ Counted' /\ Laid' /\ Inside'
  BY <1>1, <1>4, <1>5, Kept
<1>7. Rounded'
  BY <1>1, <1>2, <1>3 DEF Rounded
<1>8. Checked'
  <2>1. CASE stage' \in {"rejected", "global"}
    BY <2>1 DEF Checked, Placing
  <2>2. CASE <<stage, stage'>> = <<"global", "payload">>
    BY <1>2, <2>2
       DEF Checked, Placing, CheckThreads, CheckGlobal, CheckPayload, IdsDone, CheckUrb, Go, Throw
  <2>3. CASE <<stage, stage'>> = <<"payload", "ids">>
    BY <1>1, <1>2, <2>3
       DEF Checked, Placing, CheckThreads, CheckGlobal, CheckPayload, IdsDone, CheckUrb, Go, Throw
  <2>4. CASE <<stage, stage'>> = <<"ids", "length">>
    BY <1>1, <1>2, <2>4
       DEF Checked, Placing, CheckThreads, CheckGlobal, CheckPayload, IdsDone, CheckUrb, Go, Throw
  <2>5. CASE <<stage, stage'>> = <<"urb", "dispatched">>
    BY <1>1, <1>2, <2>5 DEF Checked, Placing
  <2> QED
    BY <1>3, <2>1, <2>2, <2>3, <2>4, <2>5
<1> QED
  BY <1>6, <1>7, <1>8 DEF IInv

(* The length of the indirect data and the shared local memory.            *)
LEMMA SlmStep == ASSUME IInv, CheckLength \/ RoundSlm PROVE IInv'
<1>1. /\ TypeOK /\ Checked /\ Rounded /\ UNCHANGED <<input, simd, threads, ids>>
  BY DEF IInv, CheckLength, RoundSlm
<1>2. /\ kernel' = kernel /\ local' = local /\ global' = global
      /\ lane' = lane /\ threads' = threads /\ simd' = simd
  BY <1>1, SameCall, SameIds
<1>3. /\ kernel.slm \in Nat /\ reason \in Reasons /\ (stage = "rejected" <=> reason # "none")
      /\ slm \in {0, 1024, 2048, 4096, 8192, 16384, 32768, 65536}
  BY <1>1, Typed DEF TypeOK, KernelType, Rounded, Powers
<1>4. \/ /\ stage \in {"length", "slm"} /\ stage' = "rejected" /\ reason' \in {"length", "slm"}
         /\ slm' = slm
      \/ /\ stage = "length" /\ stage' = "slm" /\ reason' = reason
         /\ slm' = IF kernel.slm > 0 THEN 1024 ELSE 0
      \/ /\ stage = "slm" /\ stage' = "slm" /\ reason' = reason
         /\ slm < kernel.slm /\ slm < 65536 /\ slm' = 2 * slm
      \/ /\ stage = "slm" /\ stage' = "urb" /\ reason' = reason
         /\ slm >= kernel.slm /\ slm' = slm
  <2>1. CASE CheckLength
    BY <2>1 DEF CheckLength, Go, Throw
  <2>2. CASE RoundSlm /\ slm < kernel.slm
    BY <1>3, <2>2 DEF RoundSlm, Throw, MaxSlm
  <2>3. CASE RoundSlm /\ ~(slm < kernel.slm)
    BY <1>3, <2>3 DEF RoundSlm, Go
  <2> QED
    BY <2>1, <2>2, <2>3
<1>5. /\ stage' \in Stages \ {"group", "width"}
      /\ stage' \in Ahead => stage \in Ahead \cup {"width"}
      /\ stage' \in Placing => stage \in Placing \cup {"payload"}
      /\ stage # "width"
      /\ reason' \in Reasons \ {"width"} \/ reason' = reason
      /\ stage' = "rejected" <=> reason' # "none"
      /\ slm' \in Nat
  BY <1>3, <1>4 DEF Stages, Ahead, Placing, Reasons
<1>6. TypeOK' /\ NotYet' /\ Sized' /\ Chosen' /\ Widest' /\ Counted' /\ Laid' /\ Inside'
  BY <1>1, <1>5, Kept
<1>7. Rounded'
  BY <1>1, <1>2, <1>3, <1>4 DEF Rounded, Powers
<1>8. Checked'
  BY <1>1, <1>2, <1>4 DEF Checked, Placing
<1> QED
  BY <1>6, <1>7, <1>8 DEF IInv

-----------------------------------------------------------------------------
(* The carry: the running id goes on by one, dimension by dimension.       *)
LEMMA Carry ==
  ASSUME WriteId, local.x \in Nat, local.y \in Nat,
         x \in 0..local.x - 1, y \in 0..local.y - 1, z \in Nat
  PROVE  /\ x' \in 0..local.x - 1 /\ y' \in 0..local.y - 1 /\ z' \in Nat
         /\ x' + local.x * (y' + local.y * z') = x + local.x * (y + local.y * z) + 1
<1> DEFINE X == local.x
           Y == local.y
           n == X * (y + Y * z)
           carried == y + ((x + 1) \div X)
<1>1. /\ X \in Nat \ {0} /\ Y \in Nat \ {0} /\ Y * z \in Nat /\ n \in Nat
      /\ x \in 0..X - 1 /\ y \in 0..Y - 1
  OBVIOUS
<1>2. \A w \in Nat \ {0} : w % w = 0 /\ w \div w = 1
  OBVIOUS
<1>3. /\ x' = (x + 1) % X /\ y' = carried % Y /\ z' = z + (carried \div Y)
      /\ carried = y + ((x + 1) \div X) /\ n = X * (y + Y * z)
  BY DEF WriteId
<1> HIDE DEF X, Y, n, carried
<1> SUFFICES x' \in 0..X - 1 /\ y' \in 0..Y - 1 /\ z' \in Nat /\ x' + X * (y' + Y * z') = x + n + 1
  BY DEF X, Y, n
<1>4. CASE x + 1 < X
  <2>1. x' = x + 1 /\ (x + 1) \div X = 0
    <3>1. x + 1 \in Nat /\ x + 1 < X
      BY <1>1, <1>4
    <3>2. (x + 1) % X = x + 1 /\ (x + 1) \div X = 0
      BY <1>1, <3>1, Small
    <3> QED
      BY <1>3, <3>2
  <2>2. carried = y
    BY <1>1, <1>3, <2>1
  <2>3. y' = y /\ z' = z
    BY <1>1, <2>2, <1>3, Small
  <2>4. (x + 1) + X * (y + Y * z) = x + n + 1
    BY <1>1, <1>3
  <2>5. x + 1 \in 0..X - 1
    BY <1>1, <1>4
  <2> QED
    BY <1>1, <2>1, <2>3, <2>4, <2>5, Zenon
<1>5. CASE x + 1 = X /\ y + 1 < Y
  <2>1. x' = 0 /\ (x + 1) \div X = 1
    BY <1>1, <1>2, <1>3, <1>5
  <2>2. carried = y + 1
    BY <1>1, <1>3, <2>1
  <2>3. y' = y + 1 /\ z' = z
    BY <1>1, <1>5, <2>2, <1>3, Small
  <2>4. X * ((y + 1) + Y * z) = n + X
    BY <1>1, <1>3
  <2>5. 0 + X * ((y + 1) + Y * z) = x + n + 1
    BY <1>1, <1>5, <2>4
  <2>6. 0 \in 0..X - 1 /\ y + 1 \in 0..Y - 1
    BY <1>1, <1>5
  <2> QED
    BY <2>1, <2>3, <2>5, <2>6, Zenon
<1>6. CASE x + 1 = X /\ y + 1 = Y
  <2>1. x' = 0 /\ (x + 1) \div X = 1
    BY <1>1, <1>2, <1>3, <1>6
  <2>2. carried = Y
    BY <1>6, <1>3, <2>1
  <2>3. y' = 0 /\ z' = z + 1
    BY <1>1, <1>2, <1>3, <2>2
  <2>4. 0 + Y * (z + 1) = (y + Y * z) + 1
    BY <1>1, <1>6
  <2>5. y + Y * z \in Nat
    BY <1>1
  <2>6. X * (0 + Y * (z + 1)) = n + X
    BY <1>1, <1>3, <2>4, <2>5
  <2>7. 0 + X * (0 + Y * (z + 1)) = x + n + 1
    BY <1>1, <1>6, <2>6
  <2>8. 0 \in 0..X - 1 /\ 0 \in 0..Y - 1 /\ z + 1 \in Nat
    BY <1>1
  <2> QED
    BY <2>1, <2>3, <2>7, <2>8, Zenon
<1> QED
  BY <1>1, <1>4, <1>5, <1>6

(* The ids of the next lane: they go to places of their own, and the       *)
(* running id goes on to the number of the lane after it.                  *)
LEMMA WriteIdStep == ASSUME IInv, WriteId PROVE IInv'
<1>1. /\ TypeOK /\ Chosen /\ Widest /\ Sized /\ Checked /\ Counted /\ Laid /\ Inside /\ Rounded
      /\ stage = "ids" /\ stage' = "ids" /\ stage \in Placing /\ stage' \in Placing
      /\ kernel.ids = 3 /\ lane < threads * simd /\ lane' = lane + 1
      /\ payload' = Written
      /\ UNCHANGED <<input, simd>> /\ threads' = threads /\ slm' = slm /\ reason' = reason
  BY DEF IInv, WriteId, Placing
<1>2. /\ kernel' = kernel /\ local' = local /\ global' = global
      /\ Usable' = Usable /\ (ItemsUnwrapped' <=> ItemsUnwrapped)
      /\ \A s : ThreadsAt(s)' = ThreadsAt(s) /\ (Fits(s)' <=> Fits(s))
      /\ PerThreadBytes' = PerThreadBytes
      /\ \A l, c : Slot(l, c)' = Slot(l, c)
      /\ \A a, b, c : Number(a, b, c)' = Number(a, b, c)
      /\ simd' = simd
  BY <1>1, SameCall, SameLayout
<1>3. /\ simd \in Widths /\ simd \in Nat /\ kernel \in KernelType /\ threads \in Nat
      /\ threads * simd \in Nat /\ lane \in Nat
      /\ local.x \in Nat /\ local.y \in Nat /\ local.z \in Nat
  <2>1. simd \in Widths
    BY <1>1 DEF Chosen
  <2>2. threads \in Nat /\ simd \in Nat /\ threads * simd \in Nat
    BY <1>1, <2>1, Typed DEF TypeOK, Widths
  <2>3. lane \in Nat
    BY <1>1, <2>2 DEF TypeOK
  <2> QED
    BY <1>1, <2>1, <2>2, <2>3, Typed
<1>4. x \in 0..local.x - 1 /\ y \in 0..local.y - 1 /\ z \in Nat /\ lane = Number(x, y, z)
  BY <1>1 DEF Counted, TypeOK
<1>5. /\ x' \in 0..local.x - 1 /\ y' \in 0..local.y - 1 /\ z' \in Nat
      /\ x' + local.x * (y' + local.y * z') = lane + 1
  <2>1. lane = x + local.x * (y + local.y * z)
    BY <1>4 DEF Number
  <2>2. /\ x' \in 0..local.x - 1 /\ y' \in 0..local.y - 1 /\ z' \in Nat
        /\ x' + local.x * (y' + local.y * z') = x + local.x * (y + local.y * z) + 1
    BY <1>3, <1>4, Carry
  <2> QED
    BY <2>1, <2>2
<1>6. \A c \in 0..2 : WriteAt(c) = Slot(lane, c)
  BY DEF WriteAt, Slot
<1>7. /\ DOMAIN payload' = DOMAIN payload \cup {Slot(lane, 0), Slot(lane, 1), Slot(lane, 2)}
      /\ \A o \in DOMAIN payload' :
           payload'[o] = IF o = Slot(lane, 2) THEN z
                         ELSE IF o = Slot(lane, 1) THEN y
                         ELSE IF o = Slot(lane, 0) THEN x
                         ELSE payload[o]
  BY <1>1, <1>6 DEF Written
<1>8. /\ \A l \in Nat, c \in 0..2 : Slot(l, c) \in Nat
      /\ \A l \in Nat, c \in 0..2 : l < threads * simd =>
           2 * Slot(l, c) + 2 <= PerThreadBytes * threads
      /\ \A l, m \in Nat, c, d \in 0..2 : Slot(l, c) = Slot(m, d) => l = m /\ c = d
  BY <1>1, <1>3, Slots
<1>9. 0 \in 0..2 /\ 1 \in 0..2 /\ 2 \in 0..2 /\ 0 # 1 /\ 0 # 2 /\ 1 # 2
  OBVIOUS
<1>10. TypeOK'
  <2>1. lane' \in 0..(threads' * simd')
    BY <1>1, <1>2, <1>3
  <2> QED
    BY <1>1, <1>2, <1>3, <1>5, <2>1 DEF TypeOK
<1>11. NotYet' /\ Sized' /\ Chosen' /\ Widest' /\ Checked' /\ Rounded'
  <2>1. NotYet' /\ Sized' /\ Checked' /\ Rounded'
    BY <1>1, <1>2 DEF NotYet, Sized, Checked, Rounded, Ahead, Placing
  <2>2. Chosen'
    BY <1>1, <1>2 DEF Chosen
  <2>3. Widest'
    BY <1>1, <1>2 DEF Widest
  <2> QED
    BY <2>1, <2>2, <2>3
<1>12. Counted'
  BY <1>1, <1>2, <1>5 DEF Counted, Number
<1>13. Inside'
  <2>1. ASSUME NEW o \in DOMAIN payload'
        PROVE  o \in Nat /\ 2 * o + 2 <= PerThreadBytes * threads
    <3>1. CASE o \in DOMAIN payload
      BY <1>1, <3>1 DEF Inside
    <3>2. CASE o \in {Slot(lane, 0), Slot(lane, 1), Slot(lane, 2)}
      <4>1. \A c \in 0..2 : Slot(lane, c) \in Nat
                /\ 2 * Slot(lane, c) + 2 <= PerThreadBytes * threads
        BY <1>1, <1>3, <1>8, Zenon
      <4> QED
        BY <1>9, <3>2, <4>1, Zenon
    <3> QED
      BY <1>7, <2>1, <3>1, <3>2
  <2> QED
    BY <1>1, <1>2, <2>1 DEF Inside
<1>14. Laid'
  <2>1. ASSUME NEW l \in 0..lane
        PROVE  /\ \A c \in 0..2 : Slot(l, c) \in DOMAIN payload'
               /\ payload'[Slot(l, 0)] \in 0..local.x - 1
               /\ payload'[Slot(l, 1)] \in 0..local.y - 1
               /\ payload'[Slot(l, 2)] \in Nat
               /\ payload'[Slot(l, 0)]
                    + local.x * (payload'[Slot(l, 1)] + local.y * payload'[Slot(l, 2)]) = l
    <3>1. CASE l = lane
      <4>1. \A c \in 0..2 : Slot(l, c) \in DOMAIN payload'
        BY <1>7, <3>1
      <4>2. /\ Slot(l, 0) # Slot(lane, 2) /\ Slot(l, 0) # Slot(lane, 1)
            /\ Slot(l, 1) # Slot(lane, 2)
        BY <1>3, <1>8, <1>9, <3>1, Zenon
      <4>3. payload'[Slot(l, 0)] = x /\ payload'[Slot(l, 1)] = y /\ payload'[Slot(l, 2)] = z
        BY <1>7, <3>1, <4>1, <4>2
      <4> QED
        BY <1>4, <3>1, <4>1, <4>3 DEF Number
    <3>2. CASE l \in 0..lane - 1
      <4>1. /\ \A c \in 0..2 : Slot(l, c) \in DOMAIN payload
            /\ payload[Slot(l, 0)] \in 0..local.x - 1
            /\ payload[Slot(l, 1)] \in 0..local.y - 1
            /\ payload[Slot(l, 2)] \in Nat
            /\ Number(payload[Slot(l, 0)], payload[Slot(l, 1)], payload[Slot(l, 2)]) = l
        BY <1>1, <3>2 DEF Laid
      <4>2. \A c, d \in 0..2 : Slot(l, c) # Slot(lane, d)
        <5>1. l \in Nat /\ l # lane
          BY <1>3, <3>2
        <5> QED
          BY <1>3, <1>8, <5>1, Zenon
      <4>3. \A c \in 0..2 : payload'[Slot(l, c)] = payload[Slot(l, c)]
        BY <1>7, <4>1, <4>2
      <4> QED
        BY <1>7, <4>1, <4>3 DEF Number
    <3> QED
      BY <1>3, <2>1, <3>1, <3>2
  <2>2. 0..lane' - 1 = 0..lane
    BY <1>1, <1>3
  <2> QED
    BY <1>2, <2>1, <2>2 DEF Laid, Number
<1> QED
  BY <1>10, <1>11, <1>12, <1>13, <1>14 DEF IInv

-----------------------------------------------------------------------------
LEMMA NextIInv == IInv /\ [Next]_vars => IInv'
<1> SUFFICES ASSUME IInv, [Next]_vars PROVE IInv'
  OBVIOUS
<1>1. CASE CheckGroup
  BY <1>1, CheckGroupStep
<1>2. CASE TryWidth
  BY <1>2, TryWidthStep
<1>3. CASE CheckThreads \/ CheckGlobal \/ CheckPayload \/ IdsDone \/ CheckUrb
  BY <1>3, CheckStep
<1>4. CASE WriteId
  BY <1>4, WriteIdStep
<1>5. CASE CheckLength \/ RoundSlm
  BY <1>5, SlmStep
<1>6. CASE UNCHANGED vars
  <2>1. /\ UNCHANGED <<input, simd, threads, ids>> /\ stage' = stage /\ slm' = slm
        /\ reason' = reason /\ simd' = simd /\ threads' = threads
    BY <1>6 DEF vars
  <2>2. /\ kernel' = kernel /\ local' = local /\ global' = global
        /\ Usable' = Usable /\ (ItemsUnwrapped' <=> ItemsUnwrapped)
        /\ \A s : ThreadsAt(s)' = ThreadsAt(s) /\ (Fits(s)' <=> Fits(s))
    BY <2>1, SameCall
  <2>3. /\ lane' = lane /\ x' = x /\ y' = y /\ z' = z /\ payload' = payload
        /\ PerThreadBytes' = PerThreadBytes
        /\ \A l, c : Slot(l, c)' = Slot(l, c)
        /\ \A a, b, c : Number(a, b, c)' = Number(a, b, c)
    BY <2>1, SameIds
  <2>4. /\ TypeOK /\ NotYet /\ Sized /\ Chosen /\ Widest /\ Checked
        /\ Counted /\ Laid /\ Inside /\ Rounded
    BY DEF IInv
  <2>5. TypeOK' /\ NotYet' /\ Sized' /\ Checked' /\ Inside' /\ Rounded'
    BY <2>1, <2>2, <2>3, <2>4 DEF TypeOK, NotYet, Sized, Checked, Inside, Rounded
  <2>6. Chosen' /\ Widest'
    BY <2>1, <2>2, <2>4 DEF Chosen, Widest
  <2>7. Counted' /\ Laid'
    BY <2>1, <2>2, <2>3, <2>4 DEF Counted, Laid, Number
  <2> QED
    BY <2>5, <2>6, <2>7 DEF IInv
<1> QED
  BY <1>1, <1>2, <1>3, <1>4, <1>5, <1>6 DEF Next

LEMMA Invariance == Spec => []IInv
<1>1. Init => IInv
  BY InitIInv
<1> QED
  BY <1>1, NextIInv, PTL DEF Spec

(* Every step keeps the variables in their types: no lane is written past  *)
(* the last one, and no more threads are started than the device runs.     *)
THEOREM TypeCorrect == Spec => []TypeOK
<1>1. IInv => TypeOK
  BY DEF IInv
<1> QED
  BY <1>1, Invariance, PTL

-----------------------------------------------------------------------------
(* The loop over the widths (i915_runtime.cc:634) takes the widest usable  *)
(* one and gives up only when there is none, if the number of items of the *)
(* group is less than 2^32: the width a smaller one is tried after is not  *)
(* usable.                                                                 *)
THEOREM WidestIsChosen == Spec => [](ItemsUnwrapped => WidestChosen)
<1>1. IInv => (ItemsUnwrapped => WidestChosen)
  <2> SUFFICES ASSUME IInv, ItemsUnwrapped PROVE WidestChosen
    OBVIOUS
  <2>1. TypeOK /\ Chosen /\ Widest
    BY DEF IInv
  <2>2. ASSUME threads > 0
        PROVE  simd \in Usable
    <3>1. /\ simd \in Widths /\ simd <= kernel.largest /\ Fits(simd) /\ threads = ThreadsAt(simd)
      BY <2>1, <2>2 DEF Chosen
    <3>2. simd \in {8, 16, 32} /\ local.x \in Nat /\ local.y \in Nat /\ local.z \in Nat
      BY <2>1, <3>1, Typed DEF Widths
    <3>3. threads = (local.x \div simd) * local.y * local.z
      BY <2>1, <3>1, ThreadsTimesWidth DEF Fits
    <3>4. local.x >= 1
      <4>1. CASE local.x = 0
        <5>1. local.x \div simd = 0
          BY <3>2, <4>1
        <5>2. threads = 0
          BY <3>2, <3>3, <5>1
        <5> QED
          BY <2>2, <5>2
      <4> QED
        BY <3>2, <4>1
    <3> QED
      BY <2>1, <3>1, <3>4, UsableFits DEF Fits
  <2> QED
    BY <2>1, <2>2 DEF Widest, WidestChosen
<1> QED
  BY <1>1, Invariance, PTL

LEMMA RoundUp ==
  ASSUME NEW a \in Nat, NEW b \in Nat \ {0}
  PROVE  DivRoundUp(a, b) * b >= a
<1> DEFINE q == (a + b - 1) \div b
           r == (a + b - 1) % b
<1>1. q \in Nat /\ r \in 0..b - 1 /\ a + b - 1 = b * q + r
  OBVIOUS
<1> HIDE DEF q, r
<1>2. q * b = b * q /\ b * q \in Nat
  BY <1>1
<1>3. q * b >= a
  BY <1>1, <1>2
<1> QED
  BY <1>3 DEF DivRoundUp, q

(* The bytes of a thread: nothing is lost in counting them in registers.   *)
LEMMA Registers ==
  ASSUME simd \in Widths, kernel \in KernelType, kernel.ids \in {0, 3}
  PROVE  /\ PerThreadBytes \in Nat /\ ConstantUrbReadLength \in Nat
         /\ PerThreadBytes = 32 * ConstantUrbReadLength
         /\ LocalIdBytes = 2 * (IF simd = 32 THEN 32 ELSE 16)
<1> DEFINE L == LocalIdBytes
           P == PerThreadBytes
           R == ConstantUrbReadLength
<1>1. L \in {32, 64} /\ L = 2 * (IF simd = 32 THEN 32 ELSE 16)
  BY DEF LocalIdBytes, Grf, Widths
<1>2. P = 0 * L \/ P = 0 * L + 32 \/ P = 3 * L \/ P = 3 * L + 32
  <2>1. kernel.unused \in BOOLEAN
    BY DEF KernelType
  <2>2. P = kernel.ids * L + (IF kernel.unused THEN 32 ELSE 0)
    BY DEF PerThreadBytes, Grf
  <2> HIDE DEF L, P
  <2> QED
    BY <1>1, <2>1, <2>2
<1>3. R = (P + 31) \div 32
  BY <1>1, <1>2 DEF ConstantUrbReadLength, DivRoundUp
<1> HIDE DEF L, P, R
<1>4. P \in {0, 32, 96, 128, 192, 224}
  BY <1>1, <1>2
<1>5. P \in Nat /\ R \in Nat /\ P = 32 * R
  BY <1>3, <1>4
<1> QED
  BY <1>1, <1>5 DEF L, P, R

(* No id is written outside of the buffer sized for it                     *)
(* (i915_runtime.cc:750), whatever wraps; and the indirect object holds    *)
(* all that is copied to it (841) and all that the hardware reads from it, *)
(* if its length is less than 2^32.                                        *)
NoIdOutside == \A o \in DOMAIN payload : 2 * o + 2 <= PerThreadBytes * threads
THEOREM PayloadIsInside == Spec => [](NoIdOutside /\ (LengthUnwrapped => PayloadFits))
<1>1. IInv => NoIdOutside /\ (LengthUnwrapped => PayloadFits)
  <2> SUFFICES ASSUME IInv PROVE NoIdOutside /\ (LengthUnwrapped => PayloadFits)
    OBVIOUS
  <2>1. TypeOK /\ Chosen /\ Checked /\ Inside
    BY DEF IInv
  <2>2. NoIdOutside
    BY <2>1 DEF Inside, NoIdOutside
  <2>3. ASSUME LengthUnwrapped, stage \in {"slm", "urb", "dispatched"}
        PROVE  /\ CrossThreadBytes + PerThreadBytes * threads <= IndirectObjectSize
               /\ CrossThreadBytes + ConstantUrbReadLength * 32 * threads <= IndirectObjectSize
    <3> DEFINE P == PerThreadBytes
               R == ConstantUrbReadLength
               C == CrossThreadBytes
    <3>1. simd \in Widths /\ kernel.ids \in {0, 3}
      BY <2>1, <2>3 DEF Chosen, Checked, Placing
    <3>2. kernel \in KernelType /\ threads \in Nat /\ Word \in Nat \ {0} /\ PageSize \in Nat \ {0}
      BY <2>1, Typed DEF TypeOK
    <3>3. P \in Nat /\ R \in Nat /\ P = 32 * R
      BY <3>1, <3>2, Registers
    <3>4. C \in Nat /\ kernel.cross * 32 = C
      BY <3>2 DEF CrossThreadBytes, KernelType
    <3>5. IndirectLength = (R * 32 * threads + kernel.cross * 32) % Word
      BY DEF IndirectLength
    <3>6. P * threads + C < Word
      BY <2>3 DEF LengthUnwrapped
    <3> HIDE DEF P, R, C
    <3>7. R * 32 * threads = P * threads /\ P * threads \in Nat
      BY <3>2, <3>3
    <3>8. IndirectLength = (P * threads + C) % Word
      BY <3>4, <3>5, <3>7
    <3>9. IndirectLength = P * threads + C /\ IndirectLength \in Nat
      BY <3>2, <3>4, <3>6, <3>7, <3>8, Small
    <3>10. IndirectObjectSize >= P * threads + C
      BY <3>2, <3>9, RoundUp DEF IndirectObjectSize
    <3>11. IndirectObjectSize \in Int
      <4>1. DivRoundUp(IndirectLength, PageSize) \in Int
        BY <3>2, <3>9 DEF DivRoundUp
      <4> QED
        BY <3>2, <4>1 DEF IndirectObjectSize
    <3>12. /\ C + P * threads <= IndirectObjectSize
           /\ C + R * 32 * threads <= IndirectObjectSize
      BY <3>4, <3>7, <3>10, <3>11
    <3> QED
      BY <3>12 DEF P, R, C
  <2> QED
    BY <2>2, <2>3 DEF PayloadFits, NoIdOutside
<1> QED
  BY <1>1, Invariance, PTL

(* slm_size_to_idesc is the inverse of how the hardware reads its result.  *)
LEMMA DescriptorExact ==
  ASSUME NEW v \in {0} \cup Powers
  PROVE  SlmFromIdesc(SlmToIdesc(v)) = v
<1> DEFINE p == [e \in 0..6 |-> 1024 * 2^e]
           Least(e) == p[e] >= v /\ \A f \in 0..(e - 1) : p[f] < v
<1>1. /\ 2^0 = 1 /\ 2^1 = 2 /\ 2^2 = 4 /\ 2^3 = 8 /\ 2^4 = 16 /\ 2^5 = 32 /\ 2^6 = 64
  OBVIOUS
<1>2. /\ p[0] = 1024 /\ p[1] = 2048 /\ p[2] = 4096 /\ p[3] = 8192
      /\ p[4] = 16384 /\ p[5] = 32768 /\ p[6] = 65536
  BY <1>1
<1> DEFINE size(e) == 1024 * 2^e
<1>3. \A e \in 0..6 : size(e) = p[e]
  OBVIOUS
<1>4. CASE v = 0
  BY <1>4 DEF SlmFromIdesc, SlmToIdesc
<1>5. CASE v # 0
  <2> DEFINE Enough(e) == 1024 * 2^e >= v /\ \A f \in 0..(e - 1) : 1024 * 2^f < v
  <2>1. SlmToIdesc(v) = 1 + (CHOOSE e \in 0..6 : Enough(e))
    BY <1>5 DEF SlmToIdesc
  <2>2. ASSUME NEW e \in 0..6
        PROVE  Enough(e) <=> Least(e)
    <3>1. \A f \in 0..(e - 1) : 1024 * 2^f = p[f]
      BY <1>3
    <3>2. 1024 * 2^e = p[e]
      BY <1>3
    <3> HIDE DEF p
    <3> QED
      BY <3>1, <3>2
  <2> HIDE DEF p, Enough
  <2>3. \A e \in 0..6 : e = 0 \/ e = 1 \/ e = 2 \/ e = 3 \/ e = 4 \/ e = 5 \/ e = 6
    OBVIOUS
  <2>4. PICK k \in 0..6 : v = p[k]
    BY <1>2, <1>5 DEF Powers
  <2>5. \A e \in 0..6 : p[e] \in Nat /\ \A f \in 0..6 : e < f => p[e] < p[f]
    BY <1>2, <2>3
  <2>6. Least(k)
    BY <2>4, <2>5
  <2>7. \A e \in 0..6 : Least(e) => e = k
    BY <2>4, <2>5
  <2> HIDE DEF Least
  <2>8. (CHOOSE e \in 0..6 : Enough(e)) = k
    BY <2>2, <2>6, <2>7
  <2>9. SlmToIdesc(v) = 1 + k
    BY <2>1, <2>8, Zenon
  <2>10. 1 + k # 0 /\ (1 + k) - 1 = k
    OBVIOUS
  <2>11. SlmFromIdesc(1 + k) = 1024 * 2^k
    BY DEF SlmFromIdesc
  <2>12. size(k) = v
    <3> HIDE DEF size
    <3> QED
      BY <1>3, <2>4
  <2>13. SlmFromIdesc(SlmToIdesc(v)) = SlmFromIdesc(1 + k)
    BY <2>9, Zenon
  <2> QED
    BY <2>11, <2>12, <2>13
<1> QED
  BY <1>4, <1>5

(* The shared local memory is large enough and less than twice as large as *)
(* asked for, and the descriptor says so (i915_runtime.cc:846-869).        *)
THEOREM SlmIsCovered == Spec => []SlmCovers
<1>1. IInv => SlmCovers
  <2> SUFFICES ASSUME IInv, stage \in {"urb", "dispatched"}
               PROVE  /\ slm >= kernel.slm /\ slm <= MaxSlm
                      /\ slm > 1024 => slm < 2 * kernel.slm
                      /\ SlmFromIdesc(SlmToIdesc(slm)) = slm
    BY DEF SlmCovers
  <2>1. Rounded
    BY DEF IInv
  <2>2. SlmFromIdesc(SlmToIdesc(slm)) = slm
    BY <2>1, DescriptorExact DEF Rounded
  <2> QED
    BY <2>1, <2>2 DEF Rounded, Powers, MaxSlm
<1> QED
  BY <1>1, Invariance, PTL

-----------------------------------------------------------------------------
(* Every item of the group has a number of its own, below that of the      *)
(* items.                                                                  *)
LEMMA NumberBound ==
  ASSUME TypeOK,
         NEW a \in 0..local.x - 1, NEW b \in 0..local.y - 1, NEW c \in 0..local.z - 1
  PROVE  Number(a, b, c) \in 0..Items - 1
<1> DEFINE X == local.x
           Y == local.y
           Z == local.z
<1>1. /\ X \in Nat /\ Y \in Nat /\ Z \in Nat
      /\ a \in 0..X - 1 /\ b \in 0..Y - 1 /\ c \in 0..Z - 1
  BY Typed
<1>2. Number(a, b, c) = a + X * (b + Y * c) /\ Items = X * Y * Z
  BY DEF Number, Items
<1> HIDE DEF X, Y, Z
<1>3. b + Y * c \in 0..Y * Z - 1
  <2>1. Y * (c + 1) <= Y * Z
    BY <1>1
  <2>2. Y * (c + 1) = Y * c + Y /\ Y * c \in Nat /\ Y * Z \in Nat
    BY <1>1
  <2> QED
    BY <1>1, <2>1, <2>2
<1> DEFINE w == b + Y * c
           N == Y * Z
<1>4. w \in 0..N - 1 /\ N \in Nat /\ X * Y * Z = X * N
  BY <1>1, <1>3
<1>5. Number(a, b, c) = a + X * w
  BY <1>2
<1> HIDE DEF w, N
<1>6. a + X * w \in 0..X * N - 1
  <2>1. X * (w + 1) <= X * N
    BY <1>1, <1>4
  <2>2. X * (w + 1) = X * w + X /\ X * w \in Nat /\ X * N \in Nat
    BY <1>1, <1>4
  <2> QED
    BY <1>1, <2>1, <2>2
<1> QED
  BY <1>2, <1>4, <1>5, <1>6

LEMMA NumberUnique ==
  ASSUME TypeOK,
         NEW a \in 0..local.x - 1, NEW b \in 0..local.y - 1, NEW c \in Nat,
         NEW p \in 0..local.x - 1, NEW q \in 0..local.y - 1, NEW r \in Nat,
         Number(p, q, r) = Number(a, b, c)
  PROVE  p = a /\ q = b /\ r = c
<1> DEFINE X == local.x
           Y == local.y
           m == q + Y * r
           n == b + Y * c
<1>1. /\ X \in Nat /\ Y \in Nat
      /\ a \in 0..X - 1 /\ b \in 0..Y - 1 /\ p \in 0..X - 1 /\ q \in 0..Y - 1
  BY Typed
<1>2. p + X * m = a + X * n
  BY DEF Number
<1>3. m = q + Y * r /\ n = b + Y * c
  OBVIOUS
<1> HIDE DEF X, Y
<1>4. m \in Nat /\ n \in Nat
  BY <1>1
<1> HIDE DEF m, n
<1>5. p = a /\ m = n
  BY <1>1, <1>2, <1>4, Digits
<1>6. q + Y * r = b + Y * c
  BY <1>3, <1>5, Zenon
<1>7. q = b /\ r = c
  BY <1>1, <1>6, Digits
<1> QED
  BY <1>5, <1>7

(* The hardware reads an id where it was written.                          *)
LEMMA ReadsSlot ==
  ASSUME simd \in Widths, kernel \in KernelType, kernel.ids = 3, NEW l \in Nat, NEW c \in 0..2
  PROVE  HardwareReads(l \div simd, c, l % simd) = Slot(l, c)
<1> DEFINE i == l \div simd
           j == l % simd
           R == ConstantUrbReadLength
           H == IF simd = 32 THEN 32 ELSE 16
<1>1. R \in Nat /\ PerThreadBytes = 32 * R /\ LocalIdBytes = 2 * H
  BY Registers
<1>2. simd \in {8, 16, 32}
  BY DEF Widths
<1>3. i \in Nat /\ j \in Nat /\ H \in Nat /\ c \in Nat
  BY <1>2
<1>4. HardwareReads(i, c, j) = i * R * 16 + c * H + j
  BY DEF HardwareReads
<1>5. Slot(l, c) = (i * (32 * R) + c * (2 * H)) \div 2 + j
  BY <1>1 DEF Slot
<1> HIDE DEF i, j, R, H
<1>6. /\ i * R \in Nat /\ c * H \in Nat
      /\ i * (32 * R) = 32 * (i * R) /\ c * (2 * H) = 2 * (c * H)
      /\ i * R * 16 = 16 * (i * R)
  BY <1>1, <1>3
<1>7. (i * (32 * R) + c * (2 * H)) \div 2 = i * R * 16 + c * H
  BY <1>6
<1>8. HardwareReads(i, c, j) = Slot(l, c)
  BY <1>3, <1>4, <1>5, <1>6, <1>7
<1> QED
  BY <1>8 DEF i, j

(* A group that is dispatched has its items run: as many lanes as items,   *)
(* with groups that add up to the global range, and for each item a lane   *)
(* of a thread whose three ids, read by the hardware where it expects      *)
(* them, are those of the item (i915_runtime.cc:734-784 against 936-953).  *)
(* If its number of items wraps this is false.                             *)
THEOREM ItemsAreCovered == Spec => [](ItemsUnwrapped => ItemsCovered)
<1>1. IInv => (ItemsUnwrapped => ItemsCovered)
  <2> SUFFICES ASSUME IInv, ItemsUnwrapped, stage = "dispatched"
               PROVE  /\ threads * simd = Items
                      /\ \A d \in {"x", "y", "z"} : ThreadGroups[d] * local[d] = global[d]
                      /\ kernel.ids = 3 =>
                           \A a \in 0..(local.x - 1), b \in 0..(local.y - 1), c \in 0..(local.z - 1) :
                             \E i \in 0..(threads - 1), j \in 0..(simd - 1) :
                               IdOf(i, j) = [d \in 0..2 |-> <<a, b, c>>[d + 1]]
    BY DEF ItemsCovered
  <2>1. /\ TypeOK /\ Sized /\ Chosen /\ Checked /\ Laid
        /\ stage \in Placing
    BY DEF IInv, Placing
  <2>2. /\ simd \in Widths /\ Fits(simd) /\ threads = ThreadsAt(simd)
        /\ local.x >= 1 /\ local.y >= 1 /\ local.z >= 1
    BY <2>1 DEF Chosen, Sized
  <2>3. /\ local.x \in Nat /\ local.y \in Nat /\ local.z \in Nat
        /\ global.x \in Nat /\ global.y \in Nat /\ global.z \in Nat
        /\ kernel \in KernelType /\ threads \in Nat /\ simd \in {8, 16, 32}
    BY <2>1, <2>2, Typed DEF TypeOK, Widths
  <2>4. threads * simd = Items
    BY <2>1, <2>2, ThreadsTimesWidth DEF Fits
  <2>5. ASSUME NEW d \in {"x", "y", "z"}
        PROVE  ThreadGroups[d] * local[d] = global[d]
    <3>1. \A m \in Nat, n \in Nat \ {0} : m % n = 0 => (m \div n) * n = m
      OBVIOUS
    <3>2. global[d] % local[d] = 0
      BY <2>1 DEF Checked, Placing
    <3>3. global[d] \in Nat /\ local[d] \in Nat \ {0}
      BY <2>2, <2>3
    <3>4. ThreadGroups[d] = global[d] \div local[d]
      BY DEF ThreadGroups
    <3> QED
      BY <3>1, <3>2, <3>3, <3>4
  <2>6. ASSUME kernel.ids = 3,
               NEW a \in 0..(local.x - 1), NEW b \in 0..(local.y - 1), NEW c \in 0..(local.z - 1)
        PROVE  \E i \in 0..(threads - 1), j \in 0..(simd - 1) :
                 IdOf(i, j) = [d \in 0..2 |-> <<a, b, c>>[d + 1]]
    <3> DEFINE l == Number(a, b, c)
               p == payload[Slot(l, 0)]
               q == payload[Slot(l, 1)]
               r == payload[Slot(l, 2)]
               i == l \div simd
               j == l % simd
    <3>1. l \in 0..Items - 1
      BY <2>1, NumberBound
    <3>2. lane = threads * simd
      BY <2>1, <2>6 DEF Checked, Placing
    <3>3. /\ p \in 0..local.x - 1 /\ q \in 0..local.y - 1 /\ r \in Nat
          /\ Number(p, q, r) = l
      BY <2>1, <2>4, <3>1, <3>2 DEF Laid
    <3>4. i \in 0..(threads - 1) /\ j \in 0..(simd - 1) /\ l \in Nat
      <4> HIDE DEF l
      <4>1. l \in 0..threads * simd - 1
        BY <2>4, <3>1
      <4> QED
        BY <2>3, <4>1
    <3>5. p = a /\ q = b /\ r = c
      <4>1. c \in Nat
        BY <2>3
      <4> HIDE DEF p, q, r
      <4> QED
        BY <2>1, <3>3, <4>1, NumberUnique
    <3>6. \A d \in 0..2 : HardwareReads(i, d, j) = Slot(l, d)
      BY <2>2, <2>3, <2>6, <3>4, ReadsSlot
    <3> HIDE DEF l, i, j
    <3>7. IdOf(i, j) = [d \in 0..2 |-> payload[Slot(l, d)]]
      BY <3>6 DEF IdOf
    <3>8. \A d \in 0..2 : payload[Slot(l, d)] = <<a, b, c>>[d + 1]
      BY <3>5
    <3>9. IdOf(i, j) = [d \in 0..2 |-> <<a, b, c>>[d + 1]]
      BY <3>7, <3>8
    <3> QED
      BY <3>4, <3>9
  <2> QED
    BY <2>4, <2>5, <2>6
<1> QED
  BY <1>1, Invariance, PTL

-----------------------------------------------------------------------------
(* The safety half of Ends: each step goes on to a later stage, or is one  *)
(* of finitely many turns of a loop.                                       *)
Nth == [group |-> 0, width |-> 1, threads |-> 2, global |-> 3, payload |-> 4, ids |-> 5,
        length |-> 6, slm |-> 7, urb |-> 8, dispatched |-> 9, rejected |-> 9]
Turns ==
  CASE stage = "width" -> simd
    [] stage = "ids" -> threads * simd - lane
    [] stage = "slm" -> MaxSlm - slm
    [] OTHER -> 0
Forward == Nth[stage] < Nth[stage'] \/ (stage' = stage /\ Turns' < Turns)

(* The stages whose steps have conditions that could all fail.             *)
GoesOn ==
  stage = "ids" =>
    kernel.ids = 0 \/ lane = threads * simd \/ (kernel.ids = 3 /\ lane < threads * simd)

LEMMA TurnsCounted == ASSUME IInv PROVE Turns \in Nat
<1>1. TypeOK /\ Rounded
  BY DEF IInv
<1>2. CASE stage = "width"
  <2>1. simd \in {0, 4, 8, 16, 32}
    BY <1>1 DEF TypeOK, Widths
  <2>2. Turns = simd
    BY <1>2 DEF Turns
  <2> QED
    BY <2>1, <2>2
<1>3. CASE stage = "ids"
  <2> DEFINE t == threads * simd
  <2>1. t \in Nat /\ lane \in 0..t
    <3>1. simd \in {0, 4, 8, 16, 32} /\ threads \in Nat /\ lane \in 0..(threads * simd)
      BY <1>1, DispatchAssumption DEF TypeOK, Widths
    <3> QED
      BY <3>1
  <2>2. Turns = t - lane
    BY <1>3 DEF Turns
  <2> HIDE DEF t
  <2> QED
    BY <2>1, <2>2
<1>4. CASE stage = "slm"
  <2>1. slm \in {0, 1024, 2048, 4096, 8192, 16384, 32768, 65536}
    BY <1>1 DEF Rounded, Powers
  <2>2. Turns = 65536 - slm
    BY <1>4 DEF Turns, MaxSlm
  <2> QED
    BY <2>1, <2>2
<1>5. CASE stage \notin {"width", "ids", "slm"}
  BY <1>5 DEF Turns
<1> QED
  BY <1>2, <1>3, <1>4, <1>5

LEMMA StepForward == ASSUME IInv, Next PROVE Forward
<1>1. TypeOK /\ Rounded /\ NotYet
  BY DEF IInv
<1>2. CASE CheckGroup
  <2>1. stage = "group" /\ stage' \in {"rejected", "width"}
    BY <1>2 DEF CheckGroup, Go, Throw
  <2> QED
    BY <2>1 DEF Forward, Nth
<1>3. CASE TryWidth
  <2>1. CASE stage' \in {"rejected", "threads"}
    BY <1>3, <2>1 DEF TryWidth, Forward, Nth
  <2>2. CASE stage' \notin {"rejected", "threads"}
    <3>1. stage = "width" /\ stage' = stage /\ simd' = simd \div 2 /\ simd \in {4} \cup Widths
      BY <1>1, <1>3, <2>2 DEF TryWidth, Go, Throw, NotYet
    <3>2. simd' < simd
      <4>1. simd \in {4, 8, 16, 32}
        BY <3>1 DEF Widths
      <4> QED
        BY <3>1, <4>1
    <3> QED
      BY <3>1, <3>2 DEF Forward, Turns
  <2> QED
    BY <2>1, <2>2
<1>4. CASE CheckThreads \/ CheckGlobal \/ CheckPayload
  <2>1. \/ stage = "threads" /\ stage' \in {"rejected", "global"}
        \/ stage = "global" /\ stage' \in {"rejected", "payload"}
        \/ stage = "payload" /\ stage' \in {"rejected", "ids"}
    BY <1>4 DEF CheckThreads, CheckGlobal, CheckPayload, Go, Throw
  <2> QED
    BY <2>1 DEF Forward, Nth
<1>5. CASE WriteId
  <2>1. /\ stage = "ids" /\ stage' = stage /\ lane' = lane + 1
        /\ threads' = threads /\ simd' = simd
    BY <1>5 DEF WriteId
  <2> DEFINE t == threads * simd
  <2>2. t \in Nat /\ lane \in Nat
    <3>1. simd \in {0, 4, 8, 16, 32} /\ threads \in Nat /\ lane \in 0..(threads * simd)
      BY <1>1, DispatchAssumption DEF TypeOK, Widths
    <3> QED
      BY <3>1
  <2>3. Turns = t - lane /\ Turns' = t - (lane + 1)
    BY <2>1 DEF Turns
  <2> HIDE DEF t
  <2>4. Turns' < Turns
    BY <2>2, <2>3
  <2> QED
    BY <2>1, <2>4 DEF Forward
<1>6. CASE IdsDone \/ CheckLength \/ CheckUrb
  <2>1. \/ stage = "ids" /\ stage' \in {"rejected", "length"}
        \/ stage = "length" /\ stage' \in {"rejected", "slm"}
        \/ stage = "urb" /\ stage' \in {"rejected", "dispatched"}
    BY <1>6 DEF IdsDone, CheckLength, CheckUrb, Go, Throw
  <2> QED
    BY <2>1 DEF Forward, Nth
<1>7. CASE RoundSlm
  <2>1. CASE stage' \in {"rejected", "urb"}
    BY <1>7, <2>1 DEF RoundSlm, Forward, Nth
  <2>2. CASE stage' \notin {"rejected", "urb"}
    <3>1. stage = "slm" /\ stage' = stage /\ slm < kernel.slm /\ slm' = 2 * slm
      BY <1>7, <2>2 DEF RoundSlm, Go, Throw
    <3>2. slm \in Powers
      BY <1>1, <3>1 DEF Rounded
    <3>3. 65536 - slm' < 65536 - slm
      BY <3>1, <3>2 DEF Powers
    <3> QED
      BY <3>1, <3>3 DEF Forward, Turns, MaxSlm
  <2> QED
    BY <2>1, <2>2
<1> QED
  BY <1>2, <1>3, <1>4, <1>5, <1>6, <1>7 DEF Next

(* The loops of the sizing (over the widths, the lanes and the sizes of    *)
(* shared memory, i915_runtime.cc:634, 758 and 859) end: stages only       *)
(* advance, and what is left of the loop at hand is a number that becomes  *)
(* smaller at each turn.                                                   *)
THEOREM LoopsEnd == Spec => [](Turns \in Nat /\ GoesOn) /\ [][Forward]_vars
<1>1. IInv => Turns \in Nat /\ GoesOn
  <2> SUFFICES ASSUME IInv PROVE Turns \in Nat /\ GoesOn
    OBVIOUS
  <2>1. GoesOn
    <3> SUFFICES ASSUME stage = "ids", kernel.ids # 0
        PROVE  lane = threads * simd \/ (kernel.ids = 3 /\ lane < threads * simd)
      BY DEF GoesOn
    <3>1. kernel.ids = 3
      BY DEF IInv, Checked, Placing
    <3>2. simd \in {0, 4, 8, 16, 32} /\ threads \in Nat /\ lane \in 0..(threads * simd)
      BY DispatchAssumption DEF IInv, TypeOK, Widths
    <3> QED
      BY <3>1, <3>2
  <2> QED
    BY <2>1, TurnsCounted
<1>2. IInv /\ [Next]_vars => [Forward]_vars
  BY StepForward
<1> QED
  BY <1>1, <1>2, Invariance, PTL DEF Spec
=============================================================================
