------------------------------ MODULE ProgBinary ------------------------------
(***************************************************************************)
(* I915KernelImpl::read_kernel: the search for a kernel in a program       *)
(* binary of the Intel Graphics Compiler.  The reader has a position, bin, *)
(* and the number of bytes left, size, which it keeps up to date           *)
(* separately; sizes of all parts come from the file.                      *)
(*                                                                         *)
(* A file is a sequence of bytes in which a 32-bit word is its value and   *)
(* three fillers, so that positions and sizes are those of the code.       *)
(* Parameters are kept as the fields and strings of a patch item, in order.*)
(***************************************************************************)
EXTENDS Integers, Sequences

CONSTANTS
  Inputs,   \* what read_kernel is called with, see below
  Hash(_),  \* gen_hash, of a sequence of bytes
  Word      \* 2^32

Magic == 1      \* iOpenCL::MAGIC_CL
Version == 2    \* iOpenCL::CURRENT_ICBE_VERSION
Gen9 == 3       \* IGFX_GEN9_CORE

(* Patch items without strings, with the number of their 32-bit fields.    *)
(* The numbers of the tokens stand for those of the format.                *)
FieldCount == <<
  1,    \* MEDIA_INTERFACE_DESCRIPTOR_LOAD
  4,    \* INTERFACE_DESCRIPTOR_DATA
  3,    \* BINDING_TABLE_STATE
  8,    \* DATA_PARAMETER_BUFFER
  7,    \* STATELESS_GLOBAL_MEMORY_OBJECT_KERNEL_ARGUMENT
  1,    \* DATA_PARAMETER_STREAM
  20,   \* THREAD_PAYLOAD
  33,   \* EXECUTION_ENVIRONMENT, one field has 64 bits
  2 >>  \* ALLOCATE_LOCAL_SURFACE
AttributesInfo == 10
ArgumentInfo == 11

(* Items a kernel has at most once.                                        *)
Once == {1, 2, 3, 7, 8, 9, AttributesInfo}

(* The parts of a kernel; of what is read, they are known.                 *)
Items == [token : 1..ArgumentInfo, fields : Seq(Nat), strings : Seq(Seq(Nat))]
Heaps == [kernel : Seq(Nat), unpadded : Nat, dynamic : Seq(Nat), surface : Seq(Nat)]
Kernels == [name : Seq(Nat), params : Seq(Items), heaps : Heaps]

Total(sizes) ==
  LET part(j) == IF j <= Len(sizes) THEN sizes[j] ELSE 0
  IN part(1) + part(2) + part(3) + part(4) + part(5)

-----------------------------------------------------------------------------
(* A file as the compiler writes it, from where it has each kernel, and in *)
(* a kernel each item; after the last of them, where they end.             *)
Has(f, o, word) == o + 4 <= Len(f) /\ f[o + 1] = word
HasBytes(f, o, s) == o + Len(s) <= Len(f) /\ \A j \in 1..Len(s) : f[o + j] = s[j]
HasText(f, o, n, s) ==
  /\ n \in Nat /\ Len(s) <= n /\ o + n <= Len(f)
  /\ \A j \in 1..Len(s) : f[o + j] = s[j] /\ s[j] # 0
  /\ Len(s) < n => f[o + Len(s) + 1] = 0

WrittenItem(f, p, o, end) ==
  LET n == Len(p.fields)
      m == Len(p.strings)
      sizes == [j \in 1..m |-> f[o + 8 + 4 * (n + j - 1) + 1]]
      texts == o + 8 + 4 * (n + m)
  IN /\ CASE p.token = AttributesInfo -> n = 0 /\ m = 1
          [] p.token = ArgumentInfo -> n = 1 /\ m = 5
          [] OTHER -> n = FieldCount[p.token] /\ m = 0
     /\ Has(f, o, p.token) /\ Has(f, o + 4, end - o)
     /\ \A j \in 1..n : Has(f, o + 8 + 4 * (j - 1), p.fields[j])
     /\ \A j \in 1..m : HasText(f, texts + Total(SubSeq(sizes, 1, j - 1)), sizes[j], p.strings[j])
     /\ texts <= end /\ end = texts + Total(sizes) /\ Total(sizes) < Word

WrittenKernel(f, k, o, items, end) ==
  LET data == o + 40
      heaps == data + f[o + 13]
      sizes == <<Len(k.heaps.kernel), Len(k.heaps.dynamic), Len(k.heaps.surface)>>
  IN /\ Has(f, o, Hash([j \in 1..end - data |-> f[data + j]])) /\ (end - data) % 4 = 0
     /\ f[o + 13] # 0 /\ HasText(f, data, f[o + 13], k.name)
     /\ Has(f, o + 16, end - items[1])
     /\ Has(f, o + 20, sizes[1]) /\ Has(f, o + 24, 0) /\ Has(f, o + 28, sizes[2])
     /\ Has(f, o + 32, sizes[3]) /\ Has(f, o + 36, k.heaps.unpadded)
     /\ k.heaps.unpadded <= sizes[1] /\ Total(sizes) < Word
     /\ HasBytes(f, heaps, k.heaps.kernel)
     /\ HasBytes(f, heaps + sizes[1], k.heaps.dynamic)
     /\ HasBytes(f, heaps + sizes[1] + sizes[2], k.heaps.surface)
     /\ items[1] = heaps + Total(sizes)
     /\ Len(items) = Len(k.params) + 1 /\ items[Len(items)] = end /\ end <= Len(f)
     /\ \A j \in 1..Len(items) : items[j] <= end
     /\ \A j \in 1..Len(k.params) : WrittenItem(f, k.params[j], items[j], items[j + 1])
     /\ \A j, l \in 1..Len(k.params) :
          k.params[j].token = k.params[l].token /\ k.params[j].token \in Once => j = l

Written(f, program, kernels, items) ==
  /\ Has(f, 0, Magic) /\ Has(f, 4, Version) /\ Has(f, 8, Gen9)
  /\ Has(f, 16, Len(program)) /\ Has(f, 24, 0)
  /\ Len(kernels) = Len(program) + 1 /\ kernels[1] = 28 /\ kernels[Len(kernels)] = Len(f)
  /\ \A j \in 1..Len(program) :
       WrittenKernel(f, program[j], kernels[j], items[j], kernels[j + 1])

(* What a caller passes, and what the file was made from: the kernels of a *)
(* program with their places, and whether it is as the compiler wrote it.  *)
InputFields == {"file", "name", "program", "kernels", "items", "state"}
States == {"intact", "cut", "extended", "damaged", "unsupported"}

ASSUME BinaryAssumption ==
  /\ Word \in Nat \ {0}
  /\ \A in \in Inputs :
       DOMAIN in = InputFields /\ in.state \in States /\ in.file \in Seq(Nat)

ASSUME WriterAssumption ==
  \A in \in Inputs :
    in.state = "intact" =>
      /\ in.program \in Seq(Kernels) /\ in.kernels \in Seq(Nat) /\ in.items \in Seq(Seq(Nat))
      /\ Len(in.items) = Len(in.program)
      /\ Written(in.file, in.program, in.kernels, in.items)

VARIABLES
  input,
  pc,
  bin, size,      \* the position in the file and the bytes left after it
  hdr,            \* program header: device and number of kernels
  i,              \* kernels read
  khdr, start,    \* kernel header, and the position behind it
  name, heaps, params,  \* the parts of the kernel at hand
  left,           \* patch_list_size
  kernel,         \* the kernel that was found: one or none
  outcome

parts == <<khdr, start, name, heaps, params, left>>
vars == <<input, pc, bin, size, hdr, i, parts, kernel, outcome>>

file == input.file

TypeOK ==
  /\ pc \in {"program", "kernel", "name", "heaps", "list", "patch", "check", "end"}
  /\ bin \in Nat /\ size \in 0..Len(file)
  /\ i \in 0..hdr.kernels
  /\ left \in 0..(IF pc = "patch" THEN size ELSE 0)
  /\ outcome \in {"none", "ok", "invalid", "memory"}
  /\ name \in Seq(Nat)
  /\ params \in Seq(Items)
  /\ pc \in {"list", "patch", "check"} => heaps \in Heaps

Init ==
  /\ input \in Inputs
  /\ pc = "program"
  /\ bin = 0 /\ size = Len(file)
  /\ hdr = [device |-> 0, kernels |-> 0]
  /\ i = 0
  /\ khdr = <<>> /\ start = 0
  /\ name = <<>> /\ heaps = <<>> /\ params = <<>> /\ left = 0
  /\ kernel = <<>>
  /\ outcome = "none"

(* The word and the bytes at a position; what is behind the file is not    *)
(* known.                                                                  *)
WordAt(o) == IF o + 4 <= Len(file) THEN file[o + 1] ELSE -2
Bytes(o, n) == [j \in 1..n |-> IF o + j <= Len(file) THEN file[o + j] ELSE -2]
Words(o, n) == [j \in 1..n |-> WordAt(o + 4 * (j - 1))]

(* string(bin, strnlen(bin, n)): up to the first zero.                     *)
StringAt(o, n) ==
  LET b == Bytes(o, n)
      ends == {j \in 1..n : b[j] = 0}
  IN IF ends = {} THEN b ELSE SubSeq(b, 1, (CHOOSE j \in ends : \A k \in ends : j <= k) - 1)

At(l) == pc = l /\ outcome = "none"
Throw(l) ==
  /\ At(l)
  /\ outcome' = "invalid"
  /\ UNCHANGED <<input, pc, bin, size, hdr, i, parts, kernel>>

(* What is read at the position, of n bytes, is accounted for at once.     *)
Consume(n) == bin' = bin + n /\ size' = size - n

-----------------------------------------------------------------------------
(* read_program_binary_header, and the test of the program's patch list    *)

ProgramHeaderOk ==
  /\ size >= 28
  /\ WordAt(bin) = Magic /\ WordAt(bin + 4) = Version
  /\ WordAt(bin + 24) = 0

ReadProgramHeader ==
  /\ At("program") /\ ProgramHeaderOk
  /\ hdr' = [device |-> WordAt(bin + 8), kernels |-> WordAt(bin + 16)]
  /\ Consume(28)
  /\ pc' = "kernel"
  /\ UNCHANGED <<input, i, parts, kernel, outcome>>

ProgramHeaderFails == Throw("program") /\ ~ProgramHeaderOk

-----------------------------------------------------------------------------
(* read_kernel_binary_header_gen9 and read_kernel_name                     *)

KernelHeaderOk == hdr.device = Gen9 /\ size >= 40 /\ WordAt(bin + 12) # 0

ReadKernelHeader ==
  /\ At("kernel") /\ i < hdr.kernels
  /\ KernelHeaderOk
  /\ khdr' = [checksum |-> WordAt(bin), nameSize |-> WordAt(bin + 12),
              listSize |-> WordAt(bin + 16), kernel |-> WordAt(bin + 20),
              general |-> WordAt(bin + 24), dynamic |-> WordAt(bin + 28),
              surface |-> WordAt(bin + 32), unpadded |-> WordAt(bin + 36)]
  /\ Consume(40)
  /\ start' = bin + 40
  /\ pc' = "name"
  /\ UNCHANGED <<input, hdr, i, name, heaps, params, left, kernel, outcome>>

KernelHeaderFails == Throw("kernel") /\ i < hdr.kernels /\ ~KernelHeaderOk

ReadName ==
  /\ At("name") /\ size >= khdr.nameSize
  /\ name' = StringAt(bin, khdr.nameSize)
  /\ Consume(khdr.nameSize)
  /\ pc' = "heaps"
  /\ UNCHANGED <<input, hdr, i, khdr, start, heaps, params, left, kernel, outcome>>

NameFails == Throw("name") /\ size < khdr.nameSize

-----------------------------------------------------------------------------
(* The three heaps, one behind the other                                   *)

HeapsSize == (khdr.kernel + khdr.general + khdr.dynamic + khdr.surface) % Word
HeapsOk == khdr.general = 0 /\ size >= HeapsSize /\ khdr.unpadded <= khdr.kernel

ReadHeaps ==
  /\ At("heaps") /\ HeapsOk
  /\ heaps' = [kernel |-> Bytes(bin, khdr.kernel), unpadded |-> khdr.unpadded,
               dynamic |-> Bytes(bin + khdr.kernel, khdr.dynamic),
               surface |-> Bytes(bin + khdr.kernel + khdr.dynamic, khdr.surface)]
  /\ bin' = bin + khdr.kernel + khdr.dynamic + khdr.surface
  /\ size' = size - HeapsSize
  /\ pc' = "list"
  /\ UNCHANGED <<input, hdr, i, khdr, start, name, params, left, kernel, outcome>>

HeapsFail == Throw("heaps") /\ ~HeapsOk

(* Heap::Heap finds no memory.                                             *)
HeapsNoMemory ==
  /\ At("heaps") /\ HeapsOk
  /\ khdr.kernel + khdr.dynamic + khdr.surface > 0
  /\ outcome' = "memory"
  /\ UNCHANGED <<input, pc, bin, size, hdr, i, parts, kernel>>

-----------------------------------------------------------------------------
(* read_kernel_patchlist                                                   *)

(* Variant: a list may be longer than the file.                            *)
StartPatchListUnchecked ==
  /\ At("list")
  /\ left' = khdr.listSize
  /\ params' = <<>>
  /\ pc' = "patch"
  /\ UNCHANGED <<input, bin, size, hdr, i, khdr, start, name, heaps, kernel, outcome>>

StartPatchList ==
  /\ At("list") /\ size >= khdr.listSize
  /\ left' = khdr.listSize
  /\ params' = <<>>
  /\ pc' = "patch"
  /\ UNCHANGED <<input, bin, size, hdr, i, khdr, start, name, heaps, kernel, outcome>>

PatchListFails == Throw("list") /\ size < khdr.listSize

Token == WordAt(bin)
ItemSize == WordAt(bin + 4)
Present(t) == \E j \in 1..Len(params) : params[j].token = t

(* Sizes of the strings of the item at the position, which follow its      *)
(* fields, and where each of them begins.                                  *)
StringSizes ==
  CASE Token = AttributesInfo -> <<WordAt(bin + 8)>>
    [] Token = ArgumentInfo -> Words(bin + 12, 5)
    [] OTHER -> <<>>
FixedSize ==
  CASE Token = AttributesInfo -> 8 + 4
    [] Token = ArgumentInfo -> 8 + 6 * 4
    [] OTHER -> 8 + 4 * FieldCount[Token]

(* Each kind of item compares its size with that of its structure; strings *)
(* have to fill the rest.  Their total is computed in 32 bits.             *)
ItemOk ==
  /\ left >= 8 /\ left >= ItemSize
  /\ Token \in 1..ArgumentInfo
  /\ ItemSize >= FixedSize
  /\ Total(StringSizes) % Word = ItemSize - FixedSize
  /\ Token \in Once => ~Present(Token)

Item ==
  LET textAt(j) == bin + FixedSize + Total(SubSeq(StringSizes, 1, j - 1))
  IN [token |-> Token,
      fields |-> CASE Token = AttributesInfo -> <<>>
                   [] Token = ArgumentInfo -> Words(bin + 8, 1)
                   [] OTHER -> Words(bin + 8, FieldCount[Token]),
      strings |-> [j \in 1..Len(StringSizes) |-> StringAt(textAt(j), StringSizes[j])]]

(* Variant: the strings are not skipped.                                   *)
ReadItemFixedPart ==
  /\ At("patch") /\ left > 0 /\ ItemOk
  /\ params' = Append(params, Item)
  /\ bin' = bin + FixedSize
  /\ left' = left - ItemSize
  /\ UNCHANGED <<input, pc, size, hdr, i, khdr, start, name, heaps, kernel, outcome>>

ReadItem ==
  /\ At("patch") /\ left > 0 /\ ItemOk
  /\ params' = Append(params, Item)
  /\ bin' = bin + FixedSize + Total(StringSizes)
  /\ left' = left - ItemSize
  /\ UNCHANGED <<input, pc, size, hdr, i, khdr, start, name, heaps, kernel, outcome>>

ItemFails == Throw("patch") /\ left > 0 /\ ~ItemOk

(* Variant: the list is not taken off the bytes that are left.             *)
EndPatchListUncounted ==
  /\ At("patch") /\ left = 0
  /\ pc' = "check"
  /\ UNCHANGED <<input, bin, size, hdr, i, parts, kernel, outcome>>

EndPatchList ==
  /\ At("patch") /\ left = 0
  /\ size' = size - khdr.listSize
  /\ pc' = "check"
  /\ UNCHANGED <<input, bin, hdr, i, parts, kernel, outcome>>

-----------------------------------------------------------------------------
(* The checksum, and whether this is the kernel asked for                  *)

KernelData == Bytes(start, bin - start)
ChecksumOk == (bin - start) % 4 = 0 /\ Hash(KernelData) = khdr.checksum

(* Variant: the first kernel of that name is taken.                        *)
FirstWins ==
  /\ At("check") /\ ChecksumOk
  /\ kernel' = IF name = input.name /\ kernel = <<>>
               THEN <<[name |-> name, params |-> params, heaps |-> heaps]>> ELSE kernel
  /\ i' = i + 1
  /\ pc' = "kernel"
  /\ UNCHANGED <<input, bin, size, hdr, parts, outcome>>

CheckKernel ==
  /\ At("check") /\ ChecksumOk
  /\ IF name = input.name
     THEN /\ kernel = <<>>
          /\ kernel' = <<[name |-> name, params |-> params, heaps |-> heaps]>>
     ELSE UNCHANGED kernel
  /\ i' = i + 1
  /\ pc' = "kernel"
  /\ UNCHANGED <<input, bin, size, hdr, parts, outcome>>

(* A wrong checksum, or a second kernel of that name.                      *)
CheckFails ==
  /\ Throw("check")
  /\ ~ChecksumOk \/ (name = input.name /\ kernel # <<>>)

(* Every kernel was read: nothing may be left, and one was found.          *)
Finish ==
  /\ At("kernel") /\ i = hdr.kernels
  /\ outcome' = IF size = 0 /\ kernel # <<>> THEN "ok" ELSE "invalid"
  /\ pc' = "end"
  /\ UNCHANGED <<input, bin, size, hdr, i, parts, kernel>>

-----------------------------------------------------------------------------
Next ==
  \/ ReadProgramHeader \/ ProgramHeaderFails
  \/ ReadKernelHeader \/ KernelHeaderFails
  \/ ReadName \/ NameFails
  \/ ReadHeaps \/ HeapsFail \/ HeapsNoMemory
  \/ StartPatchList \/ PatchListFails
  \/ ReadItem \/ ItemFails \/ EndPatchList
  \/ CheckKernel \/ CheckFails
  \/ Finish

Spec == Init /\ [][Next]_vars

-----------------------------------------------------------------------------
(* The position and the number of bytes left, which are kept separately,   *)
(* agree between the parts of the file, and inside of a patch list with    *)
(* the bytes left of the list; so no part is read from behind the end of   *)
(* the file.  (Each size check of igc_progbin.cc and read_kernel.)         *)
PositionAgrees ==
  bin + size = Len(file) + (IF pc = "patch" THEN khdr.listSize - left ELSE 0)

(* What the user gets is the one kernel of that name, with the parameters, *)
(* the heaps and the name it was written with, and only from a file that   *)
(* is as the compiler wrote it.                                            *)
Named == {j \in 1..Len(input.program) : input.program[j].name = input.name}
FoundIsWritten ==
  outcome = "ok" =>
    /\ input.state = "intact"
    /\ \E j \in Named : Named = {j} /\ kernel = <<input.program[j]>>

(* A file as the compiler writes it is turned away only when it has no     *)
(* kernel of that name, or more than one.                                  *)
IntactIsRead ==
  (outcome = "invalid" /\ input.state = "intact") => \A j \in Named : Named # {j}
=============================================================================
