------------------------------ MODULE Dispatch -------------------------------
(***************************************************************************)
(* How one call of I915PreparedKernelImpl::execute turns an NDRange into a *)
(* dispatch: the choice of the SIMD width, the number of hardware threads, *)
(* the local ids written lane by lane into the per-thread payload, the     *)
(* length of the indirect data, the size of the shared local memory and    *)
(* the check against the URB.                                              *)
(*                                                                         *)
(* Integers of 32 bits wrap at Word.  Local ids are 16 bits wide in the    *)
(* code; a group that is written has at most 1024 lanes, so that they      *)
(* never wrap.  The payload buffer is addressed in units of 16 bits.       *)
(***************************************************************************)
EXTENDS Integers, FiniteSets

CONSTANTS
  Kernels,       \* kernels the compiler may have produced, see KernelType
  Ranges,        \* pairs [global, local] of NDRange values
  MaxCsThreads,  \* rte.dev_info.max_cs_threads
  Word,          \* 2^32
  PageSize       \* the system's page size

Widths == {8, 16, 32}
Grf == 32              \* GRF_SIZE, bytes of a register
MaxGroup == 1024
MaxIndirect == 63488
MaxSlm == 65536
UrbLines == 2048       \* l3_urb * 1024 / 32
UrbReserved == 1922    \* urb_allocation_size

NDRange == [x : Nat, y : Nat, z : Nat]
KernelType ==
  [largest : Nat,            \* largest_compiled_simd_size
   compiled : SUBSET Widths, \* compiled_simd8, 16 and 32
   ids : 0..3,               \* local_id_{x,y,z}_present
   unused : BOOLEAN,         \* unused_per_thread_constant_present
   cross : Nat,              \* cross_thread_constant_data_read_length
   slm : Nat,                \* total_inline_local_memory_size
   flaw : {"none", "early", "late", "local"}]  \* an unsupported field: of the payload, by where
                              \* it is checked, or allocate_local_surface.offset

ASSUME DispatchAssumption ==
  /\ Kernels \subseteq KernelType
  /\ Ranges \subseteq [global : NDRange, local : NDRange]
  /\ MaxCsThreads \in Nat
  /\ Word \in Nat \ {0}
  /\ PageSize \in Nat \ {0}

VARIABLES
  stage,    \* the next check or loop of execute
  kernel, global, local,
  simd,     \* simd_size
  threads,  \* cnt_threads
  lane,     \* lanes whose ids are written: thread i, lane j at i * simd + j
  x, y, z,  \* the running local id
  payload,  \* per-thread data: offset in 16-bit units -> id
  slm,      \* slm_req, then slm_size
  reason    \* which check threw

input == <<kernel, global, local>>
ids == <<lane, x, y, z, payload>>
vars == <<stage, input, simd, threads, ids, slm, reason>>

Stages == {"group", "width", "threads", "global", "payload", "ids", "length",
           "slm", "urb", "dispatched", "rejected"}
Reasons == {"none", "largest", "empty", "group", "width", "threads", "global",
            "payload", "length", "slm", "urb"}

TypeOK ==
  /\ stage \in Stages
  /\ kernel \in Kernels /\ [global |-> global, local |-> local] \in Ranges
  /\ simd \in {0, 4} \cup Widths
  /\ threads \in 0..MaxCsThreads
  /\ lane \in 0..(threads * simd)
  /\ x \in Nat /\ y \in Nat /\ z \in Nat
  /\ slm \in Nat
  /\ reason \in Reasons
  /\ stage = "rejected" <=> reason # "none"

Init ==
  /\ stage = "group"
  /\ kernel \in Kernels
  /\ \E r \in Ranges : global = r.global /\ local = r.local
  /\ simd = 0 /\ threads = 0
  /\ lane = 0 /\ x = 0 /\ y = 0 /\ z = 0
  /\ payload = <<>>
  /\ slm = 0
  /\ reason = "none"

Go(s) == stage' = s /\ UNCHANGED reason
Throw(r) == stage' = "rejected" /\ reason' = r

-----------------------------------------------------------------------------
(* The size of a work group *)

(* A 32-bit value stored in an int.                                        *)
AsInt(v) == IF 2 * v >= Word THEN v - Word ELSE v

Items == local.x * local.y * local.z
CntOclThreads == AsInt(Items % Word)

CheckGroup ==
  /\ stage = "group"
  /\ IF kernel.largest \notin Widths THEN Throw("largest") /\ UNCHANGED simd
     ELSE IF local.x < 1 \/ local.y < 1 \/ local.z < 1 THEN Throw("empty") /\ UNCHANGED simd
     ELSE IF CntOclThreads > MaxGroup THEN Throw("group") /\ UNCHANGED simd
     ELSE Go("width") /\ simd' = kernel.largest
  /\ UNCHANGED <<input, threads, ids, slm>>

ThreadsAt(s) == ((local.x \div s) * local.y * local.z) % Word
Fits(s) ==
  /\ s \in kernel.compiled
  /\ local.x % s = 0
  /\ ThreadsAt(s) <= MaxCsThreads

(* Variant: the loop has no end.                                           *)
TryWidthForEver ==
  /\ stage = "width"
  /\ IF Fits(simd)
     THEN Go("threads") /\ threads' = ThreadsAt(simd) /\ UNCHANGED simd
     ELSE UNCHANGED <<stage, reason, threads>> /\ simd' = simd \div 2
  /\ UNCHANGED <<input, ids, slm>>

(* Variant: the width is halved before it is looked at.                    *)
HalveFirst ==
  /\ stage = "width"
  /\ IF simd \div 2 < 8 THEN Throw("width") /\ UNCHANGED <<simd, threads>>
     ELSE /\ simd' = simd \div 2
          /\ IF Fits(simd \div 2)
             THEN Go("threads") /\ threads' = ThreadsAt(simd \div 2)
             ELSE UNCHANGED <<stage, reason, threads>>
  /\ UNCHANGED <<input, ids, slm>>

(* Variant: a width that does not divide the group is tried again.         *)
TryWidthAgain ==
  /\ stage = "width"
  /\ Fits(simd)
  /\ Go("threads") /\ threads' = ThreadsAt(simd)
  /\ UNCHANGED <<input, simd, ids, slm>>

(* One turn of the loop over the widths.                                   *)
TryWidth ==
  /\ stage = "width"
  /\ IF simd < 8 THEN Throw("width") /\ UNCHANGED <<simd, threads>>
     ELSE IF Fits(simd)
     THEN Go("threads") /\ threads' = ThreadsAt(simd) /\ UNCHANGED simd
     ELSE UNCHANGED <<stage, reason, threads>> /\ simd' = simd \div 2
  /\ UNCHANGED <<input, ids, slm>>

CheckThreads ==
  /\ stage = "threads"
  /\ IF threads > (IF simd = 32 THEN 32 ELSE 64) THEN Throw("threads") ELSE Go("global")
  /\ UNCHANGED <<input, simd, threads, ids, slm>>

CheckGlobal ==
  /\ stage = "global"
  /\ IF \E d \in {"x", "y", "z"} : global[d] % local[d] # 0
     THEN Throw("global") ELSE Go("payload")
  /\ UNCHANGED <<input, simd, threads, ids, slm>>

ThreadGroups == [d \in {"x", "y", "z"} |-> global[d] \div local[d]]

-----------------------------------------------------------------------------
(* The per-thread payload *)

(* Variant: one register holds the ids of 32 lanes.                        *)
OneRegister == Grf

LocalIdBytes == Grf * (IF simd = 32 THEN 2 ELSE 1)
PerThreadBytes == kernel.ids * LocalIdBytes + (IF kernel.unused THEN Grf ELSE 0)
CrossThreadBytes == kernel.cross * 32

(* The checks on the payload format, those of build_cross_thread_data      *)
(* included.                                                               *)
CheckPayload ==
  /\ stage = "payload"
  /\ IF kernel.flaw = "early" \/ kernel.ids \notin {0, 3} THEN Throw("payload") ELSE Go("ids")
  /\ UNCHANGED <<input, simd, threads, ids, slm>>

(* Where the code writes the id of dimension c of the next lane.           *)
WriteAt(c) ==
  LET i == lane \div simd
      j == lane % simd
  IN (i * PerThreadBytes + c * LocalIdBytes) \div 2 + j

Written ==
  [o \in DOMAIN payload \cup {WriteAt(0), WriteAt(1), WriteAt(2)} |->
     IF o = WriteAt(2) THEN z
     ELSE IF o = WriteAt(1) THEN y
     ELSE IF o = WriteAt(0) THEN x
     ELSE payload[o]]

(* Variant: each counter is reduced before its carry is taken.             *)
WriteIdCarryLost ==
  /\ stage = "ids" /\ kernel.ids = 3 /\ lane < threads * simd
  /\ payload' = Written
  /\ x' = (x + 1) % local.x
  /\ y' = (y + x' \div local.x) % local.y
  /\ z' = z + (y + x' \div local.x) \div local.y
  /\ lane' = lane + 1
  /\ UNCHANGED <<stage, input, simd, threads, slm, reason>>

WriteId ==
  /\ stage = "ids" /\ kernel.ids = 3 /\ lane < threads * simd
  /\ payload' = Written
  /\ x' = (x + 1) % local.x
  /\ LET carried == y + (x + 1) \div local.x
     IN /\ y' = carried % local.y
        /\ z' = z + carried \div local.y
  /\ lane' = lane + 1
  /\ UNCHANGED <<stage, input, simd, threads, slm, reason>>

IdsDone ==
  /\ stage = "ids"
  /\ kernel.ids = 0 \/ lane = threads * simd
  /\ IF kernel.flaw = "late" THEN Throw("payload") ELSE Go("length")
  /\ UNCHANGED <<input, simd, threads, ids, slm>>

-----------------------------------------------------------------------------
(* Indirect data, shared local memory and the URB *)

DivRoundUp(a, b) == (a + b - 1) \div b
ConstantUrbReadLength == DivRoundUp(PerThreadBytes, 32)
IndirectLength == (ConstantUrbReadLength * 32 * threads + kernel.cross * 32) % Word
IndirectObjectSize == DivRoundUp(IndirectLength, PageSize) * PageSize

(* The indirect data is small enough; then the size of the shared memory   *)
(* starts at 1024, the first power of two that is tried, if any is asked   *)
(* for.                                                                    *)
CheckLength ==
  /\ stage = "length"
  /\ IF IndirectLength >= MaxIndirect THEN Throw("length") /\ UNCHANGED slm
     ELSE IF kernel.flaw = "local" THEN Throw("slm") /\ UNCHANGED slm
     ELSE /\ Go("slm")
          /\ slm' = IF kernel.slm > 0 THEN 1024 ELSE 0
  /\ UNCHANGED <<input, simd, threads, ids>>

(* Variant: a request that is a power of two is doubled, too.              *)
RoundSlmTooFar ==
  /\ stage = "slm"
  /\ IF slm > 0 /\ slm <= kernel.slm
     THEN IF slm >= MaxSlm THEN Throw("slm") /\ UNCHANGED slm
          ELSE UNCHANGED <<stage, reason>> /\ slm' = 2 * slm
     ELSE Go("urb") /\ UNCHANGED slm
  /\ UNCHANGED <<input, simd, threads, ids>>

RoundSlm ==
  /\ stage = "slm"
  /\ IF slm < kernel.slm
     THEN IF slm >= MaxSlm THEN Throw("slm") /\ UNCHANGED slm
          ELSE UNCHANGED <<stage, reason>> /\ slm' = 2 * slm
     ELSE Go("urb") /\ UNCHANGED slm
  /\ UNCHANGED <<input, simd, threads, ids>>

(* slm_size_to_idesc                                                       *)
SlmToIdesc(v) ==
  IF v = 0 THEN 0
  ELSE 1 + (CHOOSE e \in 0..6 : 1024 * 2^e >= v /\ \A f \in 0..(e - 1) : 1024 * 2^f < v)

(* slm_size_from_idesc: how the hardware reads the field.                  *)
SlmFromIdesc(s) == IF s = 0 THEN 0 ELSE 1024 * 2^(s - 1)

UrbNeed == UrbReserved + CrossThreadBytes + PerThreadBytes * threads + 64

CheckUrb ==
  /\ stage = "urb"
  /\ IF UrbNeed < UrbLines THEN Throw("urb") ELSE Go("dispatched")
  /\ UNCHANGED <<input, simd, threads, ids, slm>>

-----------------------------------------------------------------------------
Next ==
  \/ CheckGroup \/ TryWidth \/ CheckThreads \/ CheckGlobal
  \/ CheckPayload \/ WriteId \/ IdsDone
  \/ CheckLength \/ RoundSlm \/ CheckUrb

Spec == Init /\ [][Next]_vars

(* One thread runs the call to its end.                                    *)
FairSpec == Spec /\ WF_vars(Next)

-----------------------------------------------------------------------------
(* What the hardware finds: thread i of a group reads its part of the      *)
(* payload in units of the constant URB read length, one register of ids   *)
(* per dimension, two for 32 lanes.                                        *)
HardwareReads(i, c, j) ==
  i * ConstantUrbReadLength * 16 + c * (IF simd = 32 THEN 32 ELSE 16) + j

IdOf(i, j) == [c \in 0..2 |-> payload[HardwareReads(i, c, j)]]

(* Every work item of the group is run by exactly one lane of one thread,  *)
(* and the groups together cover the global range.  (The local-id loop and *)
(* the layout it writes, i915_runtime.cc:734-784, against the walker,      *)
(* 936-953.)                                                               *)
ItemsCovered ==
  stage = "dispatched" =>
    /\ threads * simd = Items
    /\ \A d \in {"x", "y", "z"} : ThreadGroups[d] * local[d] = global[d]
    /\ kernel.ids = 3 =>
         \A a \in 0..(local.x - 1), b \in 0..(local.y - 1), c \in 0..(local.z - 1) :
           \E i \in 0..(threads - 1), j \in 0..(simd - 1) :
             IdOf(i, j) = [d \in 0..2 |-> <<a, b, c>>[d + 1]]

(* No id is written outside of the buffer sized for it, and the copy into  *)
(* the indirect object and what the hardware reads from it stay inside the *)
(* object (ensure_size i915_runtime.cc:750, memcpy 841).                   *)
PayloadFits ==
  /\ \A o \in DOMAIN payload : 2 * o + 2 <= PerThreadBytes * threads
  /\ stage \in {"slm", "urb", "dispatched"} =>
       /\ CrossThreadBytes + PerThreadBytes * threads <= IndirectObjectSize
       /\ CrossThreadBytes + ConstantUrbReadLength * 32 * threads <= IndirectObjectSize

(* The width is the widest of the compiled ones, up to the largest the     *)
(* kernel names, that divides the group and leaves few enough threads; a   *)
(* group is turned away for its width only when there is none              *)
(* (i915_runtime.cc:634).                                                  *)
Usable ==
  {s \in kernel.compiled :
     /\ s <= kernel.largest
     /\ \E k \in 1..local.x : k * s = local.x /\ k * local.y * local.z <= MaxCsThreads}

WidestChosen ==
  /\ reason = "width" => Usable = {}
  /\ threads > 0 => simd \in Usable /\ \A s \in Usable : s <= simd

(* The shared local memory is large enough, not twice as large as needed,  *)
(* and the interface descriptor tells the hardware that size               *)
(* (i915_runtime.cc:846-869 with slm_size_to_idesc).                       *)
SlmCovers ==
  stage \in {"urb", "dispatched"} =>
    /\ slm >= kernel.slm /\ slm <= MaxSlm
    /\ slm > 1024 => slm < 2 * kernel.slm
    /\ SlmFromIdesc(SlmToIdesc(slm)) = slm

(* The loops end: the call comes to a dispatch or to an exception.         *)
Ends == <>(stage \in {"dispatched", "rejected"})

(* "At most 1024 threads per work group are supported"                     *)
(* (i915_runtime.cc:629): a group that is dispatched has no more work      *)
(* items than that.                                                        *)
GroupLimit == stage = "dispatched" => Items <= MaxGroup

(* "Not enough L3 memory for URB" (i915_runtime.cc:896): a call turned     *)
(* away with that message needs more than the URB has.                     *)
UrbRejectsOnlyLarge == reason = "urb" => UrbNeed >= UrbLines
=============================================================================
