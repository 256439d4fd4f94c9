--------------------------- MODULE OfflineCompiler ---------------------------
(***************************************************************************)
(* One run of llt_gpgpu_rt_i915_c: its arguments are parsed, a kernel's    *)
(* source is compiled for every product family with IGCInterface, equal    *)
(* binaries are merged, and a C++ class that holds them is written.        *)
(* IGC is external; what it makes of the source for each family, with the  *)
(* core and the timer it is told, is decided at the start.                 *)
(*                                                                         *)
(* An argument is a sequence of characters, where "a" stands for all       *)
(* letters, "1" for all digits and "+" for what cannot be in a symbol.     *)
(* The output is written in seven parts, and kept as their number.         *)
(***************************************************************************)
EXTENDS DeviceTables, Integers, FiniteSets, FiniteSetsExt, SequencesExt

CONSTANTS
  Cases,     \* records [argv, outcome]: an argument vector without the
             \* program's name, and what IGC returns for each family
  Families   \* the order of PRODUCT_FAMILY, from a header of IGC

O == <<"-", "o">>
Std == <<"-", "c", "l">>      \* -cl-std=CL1.2
Help == <<"-", "-", "h">>

Argvs == {c.argv : c \in Cases}
Arguments == UNION {Range(v) : v \in Argvs}
Products == {t.product : t \in get_product_family_map}
Empty == [code |-> <<>>, size |-> 0]
Parts == 7
Characters == {"-", "o", "c", "l", "h", "a", "b", "1", "_", ".", "/", "+"}

(* A result: the stage that reports errors, if one does, and the bytes.    *)
IsResult(r) ==
  /\ r.fails \in {"none", "front", "back"}
  /\ r.bin.size \in Nat /\ r.bin = [code |-> r.bin.code, size |-> r.bin.size]
  /\ r.bin.size = 0 => r.bin = Empty /\ r.fails # "none"

ASSUME CompilerAssumption ==
  /\ Arguments \subseteq Seq(Characters)
  /\ \A v \in Argvs : v \in Seq(Arguments)
  /\ \A c \in Cases : DOMAIN c.outcome = Products /\ \A f \in Products : IsResult(c.outcome[f])
  /\ Families \in Seq(Products)
  /\ Range(Families) = Products /\ Len(Families) = Cardinality(Products)

VARIABLES
  pc,
  argv, next,     \* the argument to be looked at
  given,          \* have_output_filename, have_cl_standard, have_input_filename
  input, output,  \* the two file names
  disk,           \* what a file holds, and how many parts of an output
  src,            \* what was read from the input
  class,          \* program_name
  taken,          \* characters of the input's name that are in it or dropped
  n,              \* families that are done
  bin,            \* kernel_bin
  binaries,       \* platform -> binary
  index,          \* bin_index_map, for the platforms that are done
  written,        \* bins_to_write and sizes
  result,         \* how main returns
  outcome,        \* what IGC will return
  lost            \* history: fclose could not write what was buffered

args == <<argv, next, given, input, output>>
compiled == <<src, class, taken, n, bin, binaries, outcome>>
merged == <<index, written>>
vars == <<pc, args, disk, compiled, merged, result, lost>>

Stages == {"parse", "open", "create", "read", "preamble", "name", "letter", "class", "device",
           "ir", "binary", "keep", "alias", "declare", "accessor", "bins", "sizes", "tail"}
Opened == Stages \ {"parse", "open", "create"}

Contents == [holds : {"source", "output"}, parts : 0..Parts]

TypeOK ==
  /\ pc \in Stages \cup {"close", "end"}
  /\ argv \in Argvs /\ DOMAIN outcome = Products
  /\ next \in 1..Len(argv) + 1
  /\ given \subseteq {"o", "std", "input"}
  /\ disk \in [Arguments -> Contents]
  /\ src \in {"none", "source", "output"}
  /\ taken \in Nat
  /\ n \in 0..Len(Families)
  /\ bin \in {Empty} \cup {outcome[f].bin : f \in Products}
  /\ DOMAIN binaries \subseteq Range(intel_platform)
  /\ \A p \in DOMAIN index : p \in DOMAIN binaries /\ index[p] \in 0..Len(written) - 1
  /\ result \in {"none", "success", "failure"}
  /\ lost \in BOOLEAN

Init ==
  /\ pc = "parse"
  /\ \E c \in Cases : argv = c.argv /\ outcome = c.outcome
  /\ next = 1
  /\ given = {} /\ input = <<>> /\ output = <<>>
  /\ disk = [f \in Arguments |-> [holds |-> "source", parts |-> 0]]
  /\ src = "none" /\ class = <<>> /\ taken = 0 /\ n = 0 /\ bin = Empty
  /\ binaries = <<>> /\ index = <<>> /\ written = <<>>
  /\ result = "none" /\ lost = FALSE

Go(l, m) == pc = l /\ pc' = m
(* A file that was opened for writing is closed on every way out.          *)
Leave(r) ==
  /\ result' = r
  /\ pc' = IF pc \in Opened THEN "close" ELSE "end"

(* An exception: a file cannot be opened, read or written, a library or    *)
(* one of its interfaces is missing, there is no memory, and so on.        *)
Throws ==
  /\ pc \in Stages
  /\ Leave("failure")
  /\ UNCHANGED <<args, disk, compiled, merged, lost>>

-----------------------------------------------------------------------------
(* Args::parse                                                             *)

IsOption(a) == Len(a) > 1 /\ a[1] = "-"
Here == argv[next]
Parsing == pc = "parse" /\ next <= Len(argv)

(* Variant: the name is not skipped.                                       *)
TakeOutputOnly ==
  /\ Parsing /\ Here = O
  /\ "o" \notin given /\ next < Len(argv)
  /\ output' = argv[next + 1]
  /\ given' = given \cup {"o"}
  /\ next' = next + 1
  /\ UNCHANGED <<pc, argv, input, disk, compiled, merged, result, lost>>

TakeOutput ==
  /\ Parsing /\ Here = O
  /\ "o" \notin given /\ next < Len(argv)
  /\ output' = argv[next + 1]
  /\ given' = given \cup {"o"}
  /\ next' = next + 2
  /\ UNCHANGED <<pc, argv, input, disk, compiled, merged, result, lost>>

TakeStandard ==
  /\ Parsing /\ Here = Std
  /\ "std" \notin given
  /\ given' = given \cup {"std"}
  /\ next' = next + 1
  /\ UNCHANGED <<pc, argv, input, output, disk, compiled, merged, result, lost>>

TakeInput ==
  /\ Parsing /\ ~IsOption(Here)
  /\ "input" \notin given
  /\ input' = Here
  /\ given' = given \cup {"input"}
  /\ next' = next + 1
  /\ UNCHANGED <<pc, argv, output, disk, compiled, merged, result, lost>>

(* Something twice, -o at the end, --help, or an option that is not known. *)
Unusable ==
  \/ Here = O /\ ("o" \in given \/ next = Len(argv))
  \/ Here = Std /\ "std" \in given
  \/ IsOption(Here) /\ Here \notin {O, Std}
  \/ ~IsOption(Here) /\ "input" \in given

Refuse ==
  /\ Parsing /\ Unusable
  /\ Leave("failure")
  /\ UNCHANGED <<args, disk, compiled, merged, lost>>

EndOfArguments ==
  /\ pc = "parse" /\ next > Len(argv)
  /\ IF given = {"o", "std", "input"}
     THEN pc' = "open" /\ UNCHANGED result
     ELSE Leave("failure")
  /\ UNCHANGED <<args, disk, compiled, merged, lost>>

-----------------------------------------------------------------------------
(* main_exc, up to the name of the class                                   *)

OpenInput ==
  /\ Go("open", "create") /\ input # <<>>
  /\ UNCHANGED <<args, disk, compiled, merged, result, lost>>

(* fopen with "w" empties the file, which may be the input as well.        *)
CreateOutput ==
  /\ Go("create", "read") /\ output # <<>>
  /\ disk' = [disk EXCEPT ![output] = [holds |-> "output", parts |-> 0]]
  /\ UNCHANGED <<args, compiled, merged, result, lost>>

ReadInput ==
  /\ Go("read", "preamble")
  /\ src' = disk[input].holds
  /\ UNCHANGED <<args, disk, class, taken, n, bin, binaries, outcome, merged, result, lost>>

Write(l, m) == Go(l, m) /\ disk' = [disk EXCEPT ![output].parts = @ + 1]

WritePreamble ==
  /\ Write("preamble", "name")
  /\ UNCHANGED <<args, compiled, merged, result, lost>>

LastAt(c, s) == LET at == {j \in 1..Len(s) : s[j] = c} IN IF at = {} THEN 0 ELSE Max(at)
Basename(s) == SubSeq(s, LastAt("/", s) + 1, Len(s))
Stem(s) == IF LastAt(".", s) = 0 THEN s ELSE SubSeq(s, 1, LastAt(".", s) - 1)

ForProgramName == Stem(Basename(input))

BeginName ==
  /\ Go("name", "letter") /\ ForProgramName # <<>>
  /\ UNCHANGED <<args, disk, compiled, merged, result, lost>>

(* Variant: it is the first character of the file's name that is looked at. *)
WithFirst(name, c) ==
  CASE c \in {"-", "."} -> Append(name, "_")
    [] c = "1" -> Append(IF taken = 0 THEN <<"_">> ELSE name, "1")
    [] c \in {"+", "/"} -> name
    [] OTHER -> Append(name, c)

(* Characters that cannot be in a symbol are dropped; a symbol does not    *)
(* start with a digit.                                                     *)
With(name, c) ==
  CASE c \in {"-", "."} -> Append(name, "_")
    [] c = "1" -> Append(IF name = <<>> THEN <<"_">> ELSE name, "1")
    [] c \in {"+", "/"} -> name
    [] OTHER -> Append(name, c)

TakeCharacter ==
  /\ pc = "letter" /\ taken < Len(ForProgramName)
  /\ class' = With(class, ForProgramName[taken + 1])
  /\ taken' = taken + 1
  /\ UNCHANGED <<pc, args, disk, src, n, bin, binaries, outcome, merged, result, lost>>

EndOfName ==
  /\ Go("letter", "class") /\ taken = Len(ForProgramName)
  /\ UNCHANGED <<args, disk, compiled, merged, result, lost>>

NameRefused ==
  /\ pc = "name" /\ ForProgramName = <<>>
  /\ Leave("failure")
  /\ UNCHANGED <<args, disk, compiled, merged, lost>>

WriteClass ==
  /\ Write("class", "device")
  /\ UNCHANGED <<args, compiled, merged, result, lost>>

-----------------------------------------------------------------------------
(* The loop over product families, with IGCInterface and its two stages    *)

Family == Families[n + 1]
Result == outcome[Family]

CreateInterface ==
  /\ Go("device", "ir") /\ n < Len(Families)
  /\ UNCHANGED <<args, disk, compiled, merged, result, lost>>

BuildIr ==
  /\ Go("ir", "binary") /\ Result.fails # "front"
  /\ UNCHANGED <<args, disk, compiled, merged, result, lost>>

(* The front end reports errors in the source: build returns nothing.      *)
BuildIrFails ==
  /\ pc = "ir" /\ Result.fails = "front"
  /\ Leave("failure")
  /\ UNCHANGED <<args, disk, compiled, merged, lost>>

(* The back end may report an error, which is not asked for: what it       *)
(* returned becomes the binary, and if it is nothing, one of no bytes.     *)
BuildBinary ==
  /\ Go("binary", "keep")
  /\ bin' = Result.bin
  /\ UNCHANGED <<args, disk, src, class, taken, n, binaries, outcome, merged, result, lost>>

(* A map with one more key.                                                *)
Inserted(f, p, e) == [q \in DOMAIN f \cup {p} |-> IF q = p THEN e ELSE f[q]]

KeepBinary ==
  LET p == get_intel_platform[Family]
  IN /\ pc = "keep"
     /\ IF p \in DOMAIN binaries
        THEN Leave("failure") /\ UNCHANGED <<n, binaries>>
        ELSE /\ pc' = "device"
             /\ binaries' = Inserted(binaries, p, bin)
             /\ n' = n + 1
             /\ UNCHANGED result
     /\ UNCHANGED <<args, disk, src, class, taken, bin, outcome, merged, lost>>

EndOfFamilies ==
  /\ Go("device", "alias") /\ n = Len(Families)
  /\ UNCHANGED <<args, disk, compiled, merged, result, lost>>

-----------------------------------------------------------------------------
(* Binaries that are the same bytes are written once.                      *)

(* Variant: the bytes are not compared.                                    *)
SameSize(a, b) == a.size = b.size

Same(a, b) == a.size = b.size /\ a.code = b.code
(* Variant: binaries are counted from one.                                 *)
AliasFromOne ==
  /\ pc = "alias" /\ DOMAIN index # DOMAIN binaries
  /\ LET p == Foremost(DOMAIN binaries \ DOMAIN index)
         at == {k \in 1..Len(written) : Same(written[k], binaries[p])}
     IN IF at # {}
        THEN index' = Inserted(index, p, Min(at)) /\ UNCHANGED written
        ELSE index' = Inserted(index, p, Len(written)) /\ written' = Append(written, binaries[p])
  /\ UNCHANGED <<pc, args, disk, compiled, result, lost>>

Alias ==
  /\ pc = "alias" /\ DOMAIN index # DOMAIN binaries
  /\ LET p == Foremost(DOMAIN binaries \ DOMAIN index)
         at == {k \in 1..Len(written) : Same(written[k], binaries[p])}
     IN IF at # {}
        THEN index' = Inserted(index, p, Min(at) - 1) /\ UNCHANGED written
        ELSE index' = Inserted(index, p, Len(written)) /\ written' = Append(written, binaries[p])
  /\ UNCHANGED <<pc, args, disk, compiled, result, lost>>

EndOfPlatforms ==
  /\ Go("alias", "declare") /\ DOMAIN index = DOMAIN binaries
  /\ UNCHANGED <<args, disk, compiled, merged, result, lost>>

-----------------------------------------------------------------------------
(* The rest of the file                                                    *)

(* Variant: the sizes and the end are written at once.                     *)
WriteRestAtOnce ==
  /\ \/ Write("declare", "accessor")
     \/ Write("accessor", "bins")
     \/ Write("bins", "sizes")
     \/ Go("sizes", "tail") /\ disk' = [disk EXCEPT ![output].parts = Parts]
  /\ UNCHANGED <<args, compiled, merged, result, lost>>

WriteRest ==
  /\ \/ Write("declare", "accessor")
     \/ Write("accessor", "bins")
     \/ Write("bins", "sizes")
     \/ Write("sizes", "tail")
  /\ UNCHANGED <<args, compiled, merged, result, lost>>

WriteTail ==
  /\ pc = "tail"
  /\ disk' = [disk EXCEPT ![output].parts = @ + 1]
  /\ Leave("success")
  /\ UNCHANGED <<args, compiled, merged, lost>>

(* File::~File.  What is still buffered is written now.                    *)
Close ==
  /\ Go("close", "end")
  /\ UNCHANGED <<args, disk, compiled, merged, result, lost>>

(* It cannot be written, which fclose says and nobody asks.                *)
CloseFails ==
  /\ Go("close", "end")
  /\ \E k \in 0..disk[output].parts - 1 : disk' = [disk EXCEPT ![output].parts = k]
  /\ lost' = TRUE
  /\ UNCHANGED <<args, compiled, merged, result>>

-----------------------------------------------------------------------------
Next ==
  \/ TakeOutput \/ TakeStandard \/ TakeInput \/ Refuse \/ EndOfArguments
  \/ OpenInput \/ CreateOutput \/ ReadInput
  \/ WritePreamble \/ BeginName \/ TakeCharacter \/ EndOfName \/ NameRefused \/ WriteClass
  \/ CreateInterface \/ BuildIr \/ BuildIrFails \/ BuildBinary
  \/ KeepBinary \/ EndOfFamilies
  \/ Alias \/ EndOfPlatforms
  \/ WriteRest \/ WriteTail \/ Close \/ CloseFails
  \/ Throws

Spec == Init /\ [][Next]_vars

-----------------------------------------------------------------------------
(* The arguments that are accepted are, in any order, -o with a name that  *)
(* may be anything, the standard, and a name that is no option; and they   *)
(* are taken for what they are.  (Args::parse; the reference looks at the  *)
(* whole vector at once.)                                                  *)
Means(v, i, o) ==
  \E k \in 1..3 :
    /\ v[k] = O /\ v[k + 1] = o
    /\ LET rest == SubSeq(v, 1, k - 1) \o SubSeq(v, k + 2, 4)
       IN rest \in {<<Std, i>>, <<i, Std>>} /\ ~IsOption(i)
Acceptable(v) == Len(v) = 4 /\ \E i, o \in Range(v) : Means(v, i, o)
ArgumentsUnderstood ==
  /\ pc = "open" => Len(argv) = 4 /\ Means(argv, input, output)
  /\ (pc = "parse" /\ Acceptable(argv)) =>
       IF next > Len(argv) THEN given = {"o", "std", "input"} ELSE ~Unusable

(* What get_bin of the written class gives for a device type.  A binary of *)
(* no bytes gets no element of the array, and the class does not compile   *)
(* if another one follows.                                                 *)
Compiles == \A k \in 1..Len(written) - 1 : written[k].size > 0
GetBin(type) ==
  {written[index[p] + 1] :
     p \in {q \in DOMAIN index : /\ intel_platform_to_device_type[q] = type
                                /\ Compiles /\ written[index[q] + 1].size > 0}}

(* Online, a kernel is compiled for what the device is; offline, for what  *)
(* the table of families says.                                             *)
FindsIts(d) ==
  \E t \in get_product_family_map :
    /\ SameTarget(t, d)
    /\ GetBin(intel_platform_to_device_type[d.platform]) = {outcome[t.product].bin}

(* When the program ends with success, the file is complete, and every     *)
(* device that has a family in the table, those that the runtime supports  *)
(* among them, finds the binary that was built from the source for what    *)
(* the online compiler would take the device for; unless the back end was  *)
(* not successful or buffered text was lost, which the program does not    *)
(* notice, or the output replaced the source.  (main_exc, from the loop    *)
(* over the families to the end; read_compiled_kernel; the tables.)        *)
DevicesFindTheirs ==
  (pc = "end" /\ result = "success" /\ (\A f \in Products : outcome[f].fails = "none") /\ ~lost) =>
    /\ disk[output].holds = "output" /\ disk[output].parts = Parts
    /\ \A d \in intel_device_info :
         Supported(d) \/ get_product_family(d) # "UNKNOWN" => FindsIts(d)
    /\ input # output => src = "source"

(* The class has a name a C++ compiler takes, made of nothing but letters, *)
(* digits and underscores and not starting with a digit, for every name of *)
(* an input that has some character to make it from.  (The conversion in   *)
(* main_exc.)                                                              *)
InSymbols == Characters \ {"-", ".", "+", "/"}
NameIsSymbol ==
  (result = "success" /\ \E j \in 1..Len(ForProgramName) : ForProgramName[j] \notin {"+", "/"}) =>
    class # <<>> /\ class[1] # "1" /\ class \in Seq(InSymbols)

(* A run that fails leaves no output behind that looks complete.           *)
FailureIsVisible ==
  (pc = "end" /\ result = "failure" /\ output \in Arguments) =>
    disk[output].parts < Parts

(* "Failed to compile kernel": a translation that is not successful ends   *)
(* in failure.  It does not when it is the second one.                     *)
FailedBuildIsReported ==
  result = "success" => \A f \in Products : outcome[f].fails = "none"
=============================================================================
