----------------------- MODULE OfflineCompilerProofs ------------------------
(***************************************************************************)
(* Proofs about OfflineCompiler, for every argument vector, every outcome  *)
(* of the translations and every order of the families: the arguments are  *)
(* understood, a failure is seen in the output, the binary written for a   *)
(* family is the one that was made for it, and a device finds it.          *)
(***************************************************************************)
EXTENDS OfflineCompiler, FiniteSetTheorems, SequenceTheorems, TLAPS

-----------------------------------------------------------------------------
(* Parts of the output, by the stage.                                      *)
PartsAt ==
  [read |-> 0, preamble |-> 0, name |-> 1, letter |-> 1, class |-> 1, device |-> 2, ir |-> 2,
   binary |-> 2, keep |-> 2, alias |-> 2, declare |-> 2, accessor |-> 3, bins |-> 4,
   sizes |-> 5, tail |-> 6]

(* Both names are arguments once they are known, and an output that was    *)
(* not finished has not all of its parts.                                  *)
Filled ==
  /\ input \in {<<>>} \cup Arguments /\ output \in {<<>>} \cup Arguments
  /\ pc \in {"create"} \cup Opened => input \in Arguments
  /\ pc \in {"parse", "open", "create"} => \A f \in Arguments : disk[f].parts = 0
  /\ pc \in Opened \cup {"close"} => output \in Arguments
  /\ pc \in Opened => disk[output].parts = PartsAt[pc]
  /\ result = "failure" /\ output \in Arguments => disk[output].parts < Parts
  /\ result = "none" <=> pc \in Stages

(* The families so far, and the one at hand.                               *)
Platform(k) == get_intel_platform[Families[k]]
Late == {"alias", "declare", "accessor", "bins", "sizes", "tail"}
Kept ==
  /\ pc \in {"ir", "binary", "keep"} => n < Len(Families)
  /\ pc \in Late \/ result = "success" => n = Len(Families)
  /\ pc = "keep" => bin = Result.bin
  /\ DOMAIN binaries = {Platform(k) : k \in 1..n}
  /\ \A k \in 1..n : binaries[Platform(k)] = outcome[Families[k]].bin

(* A platform's number is that of the same bytes.                          *)
Merged ==
  /\ written \in Seq({outcome[f].bin : f \in Products})
  /\ \A p \in DOMAIN index :
       /\ p \in DOMAIN binaries /\ index[p] \in 0..Len(written) - 1
       /\ Same(written[index[p] + 1], binaries[p])
  /\ pc \in Late \ {"alias"} \/ result = "success" => DOMAIN index = DOMAIN binaries

(* The arguments that were looked at, with where each of them was.         *)
Shape(k, s, j) ==
  /\ "o" \in given => k \in 1..next - 2 /\ argv[k] = O /\ argv[k + 1] = output
  /\ "std" \in given => s \in 1..next - 1 /\ argv[s] = Std
  /\ "input" \in given => j \in 1..next - 1 /\ argv[j] = input /\ ~IsOption(input)
  /\ {"o", "std"} \subseteq given => s # k /\ s # k + 1
  /\ {"o", "input"} \subseteq given => j # k /\ j # k + 1
  /\ {"std", "input"} \subseteq given => j # s
  /\ next = 1 + (IF "o" \in given THEN 2 ELSE 0) + (IF "std" \in given THEN 1 ELSE 0)
              + (IF "input" \in given THEN 1 ELSE 0)
Behind ==
  /\ pc \in {"parse", "open"} => \E k, s, j \in Nat : Shape(k, s, j)
  /\ pc = "open" => given = {"o", "std", "input"} /\ next = Len(argv) + 1

(* An acceptable vector is taken argument by argument.                     *)
Places(v, k, s, j) ==
  /\ Len(v) = 4 /\ {k, k + 1, s, j} = 1..4
  /\ v[k] = O /\ v[s] = Std /\ ~IsOption(v[j])
Ahead ==
  pc = "parse" =>
    \A k \in 1..3, s, j \in 1..4 :
      Places(argv, k, s, j) =>
        /\ next \in {k, s, j, 5}
        /\ "o" \in given <=> k < next
        /\ "std" \in given <=> s < next
        /\ "input" \in given <=> j < next

IInv == TypeOK /\ Filled /\ Kept /\ Merged /\ Behind /\ Ahead

(* The name is made of what is allowed, from the characters so far.        *)
BeforeName == {"parse", "open", "create", "read", "preamble", "name"}
Dropped == {"+", "/"}
GoodName(name) == name \in Seq(InSymbols) /\ (name # <<>> => name[1] # "1")
Named ==
  /\ GoodName(class)
  /\ pc \in BeforeName => taken = 0
  /\ (\E j \in 1..taken : ForProgramName[j] \notin Dropped) => class # <<>>
  /\ pc \in Stages \ (BeforeName \cup {"letter"}) \/ result = "success" =>
       taken = Len(ForProgramName)

(* What the files hold, and what was read.                                 *)
Sourced ==
  /\ outcome \in {c.outcome : c \in Cases}
  /\ pc \in {"parse", "open", "create"} => \A f \in Arguments : disk[f].holds = "source"
  /\ pc \in Opened \cup {"close"} \/ result = "success" =>
       output \in Arguments /\ disk[output].holds = "output"
  /\ pc = "read" /\ input # output => disk[input].holds = "source"
  /\ (pc \in Opened \ {"read"} \/ result = "success") /\ input # output => src = "source"
  /\ result = "success" /\ ~lost => disk[output].parts = Parts

(* Each family's platform has the number of the family's binary.           *)
BinariesKept ==
  result = "success" =>
    \A f \in Products :
      /\ get_intel_platform[f] \in DOMAIN index
      /\ Same(written[index[get_intel_platform[f]] + 1], outcome[f].bin)

-----------------------------------------------------------------------------
LEMMA Vectors ==
  ASSUME argv \in Argvs
  PROVE  /\ argv \in Seq(Arguments) /\ Len(argv) \in Nat
         /\ \A k \in 1..Len(argv) : argv[k] \in Arguments
<1>1. argv \in Seq(Arguments)
  BY CompilerAssumption
<1> QED
  BY <1>1

LEMMA FamilyFacts ==
  /\ Families \in Seq(Products) /\ Len(Families) \in Nat
  /\ \A k \in 1..Len(Families) : Families[k] \in Products
  /\ \A f \in Products : \E k \in 1..Len(Families) : Families[k] = f
<1>1. Families \in Seq(Products) /\ Range(Families) = Products
  BY CompilerAssumption
<1>2. Range(Families) = {Families[k] : k \in 1..Len(Families)}
  BY <1>1 DEF Range
<1> QED
  BY <1>1, <1>2

LEMMA InitIInv == ASSUME Init PROVE IInv
<1>1. PICK c \in Cases : argv = c.argv /\ outcome = c.outcome
  BY DEF Init
<1>2. argv \in Argvs /\ DOMAIN outcome = Products
  BY <1>1, CompilerAssumption DEF Argvs
<1>3. Len(argv) \in Nat /\ Len(Families) \in Nat
  BY <1>2, Vectors, FamilyFacts
<1>4. TypeOK
  <2>1. DOMAIN binaries = {} /\ DOMAIN index = {}
    BY DEF Init
  <2>2. disk \in [Arguments -> Contents]
    BY DEF Init, Contents, Parts
  <2>3. /\ bin \in {Empty} \cup {outcome[f].bin : f \in Products}
        /\ DOMAIN binaries \subseteq Range(intel_platform)
        /\ \A p \in DOMAIN index : p \in DOMAIN binaries /\ index[p] \in 0..Len(written) - 1
    BY <2>1, Zenon DEF Init
  <2>4. /\ pc \in Stages \cup {"close", "end"} /\ next \in 1..Len(argv) + 1
        /\ given \subseteq {"o", "std", "input"} /\ src \in {"none", "source", "output"}
        /\ taken \in Nat /\ n \in 0..Len(Families)
        /\ result \in {"none", "success", "failure"} /\ lost \in BOOLEAN
    <3>1. /\ pc = "parse" /\ next = 1 /\ given = {} /\ src = "none" /\ taken = 0 /\ n = 0
          /\ result = "none" /\ lost = FALSE
      BY DEF Init
    <3>2. 1 \in 1..Len(argv) + 1 /\ 0 \in 0..Len(Families)
      BY <1>3
    <3>3. pc \in Stages
      BY <3>1 DEF Stages
    <3> QED
      BY <3>1, <3>2, <3>3
  <2> QED
    BY <1>2, <2>2, <2>3, <2>4, Zenon DEF TypeOK
<1>5. Filled
  BY DEF Init, Filled, Stages, Opened
<1>6. Kept /\ Merged
  BY DEF Init, Kept, Merged, Late
<1>7. Behind
  <2>1. Shape(0, 0, 0)
    BY DEF Init, Shape
  <2> QED
    BY <2>1 DEF Init, Behind
<1>8. Ahead
  <2>1. ASSUME NEW k \in 1..3, NEW s \in 1..4, NEW j \in 1..4, Places(argv, k, s, j)
        PROVE  1 \in {k, s, j, 5}
    <3>1. 1 \in {k, k + 1, s, j}
      BY <2>1 DEF Places
    <3> QED
      BY <3>1
  <2> QED
    BY <2>1 DEF Init, Ahead
<1> QED
  BY <1>4, <1>5, <1>6, <1>7, <1>8 DEF IInv

-----------------------------------------------------------------------------
(* An output at work has not all of its parts.                             *)
LEMMA FewParts ==
  ASSUME Filled, pc \in Stages, output \in Arguments
  PROVE  disk[output].parts \in 0..6
<1>1. CASE pc \in {"parse", "open", "create"}
  BY <1>1 DEF Filled
<1>2. CASE pc \in Opened
  <2>1. disk[output].parts = PartsAt[pc]
    BY <1>2 DEF Filled
  <2>2. PartsAt[pc] \in 0..6
    BY <1>2 DEF PartsAt, Opened, Stages
  <2> QED
    BY <2>1, <2>2
<1> QED
  BY <1>1, <1>2 DEF Opened

(* A run that gives up leaves everything else as it is.                    *)
GiveUp ==
  /\ pc \in Stages /\ Leave("failure")
  /\ UNCHANGED <<args, disk, compiled, merged, lost>>

LEMMA GiveUpStep == ASSUME IInv, GiveUp PROVE IInv'
<1>1. /\ TypeOK /\ Filled /\ Kept /\ Merged /\ pc \in Stages
      /\ result' = "failure" /\ pc' \in {"close", "end"} /\ (pc' = "close" <=> pc \in Opened)
      /\ argv' = argv /\ next' = next /\ given' = given /\ input' = input /\ output' = output
      /\ disk' = disk /\ src' = src /\ taken' = taken /\ n' = n /\ bin' = bin /\ binaries' = binaries
      /\ outcome' = outcome /\ index' = index /\ written' = written /\ lost' = lost
  BY DEF IInv, GiveUp, Leave, args, compiled, merged
<1>2. TypeOK'
  BY <1>1 DEF TypeOK
<1>3. Filled'
  <2>1. output \in Arguments => disk[output].parts < 7
    BY <1>1, FewParts
  <2>2. pc' \notin Stages
    BY <1>1 DEF Stages
  <2> QED
    BY <1>1, <2>1, <2>2 DEF Filled, Opened, Parts
<1>4. Kept'
  BY <1>1 DEF Kept, Late, Platform
<1>5. Merged'
  BY <1>1 DEF Merged, Late
<1>6. Behind' /\ Ahead'
  BY <1>1 DEF Behind, Ahead
<1> QED
  BY <1>2, <1>3, <1>4, <1>5, <1>6 DEF IInv

(* A step that moves on and does nothing else.                             *)
LEMMA MoveStep ==
  ASSUME IInv,
         \/ EndOfArguments /\ given = {"o", "std", "input"}
         \/ OpenInput \/ CreateInterface \/ BuildIr \/ EndOfFamilies \/ EndOfPlatforms
  PROVE  IInv'
<1>1. /\ TypeOK /\ Filled /\ Kept /\ Merged /\ Behind
      /\ argv' = argv /\ next' = next /\ given' = given /\ input' = input /\ output' = output
      /\ disk' = disk /\ src' = src /\ taken' = taken /\ n' = n /\ bin' = bin /\ binaries' = binaries
      /\ outcome' = outcome /\ index' = index /\ written' = written /\ lost' = lost
      /\ result' = result
  BY DEF IInv, EndOfArguments, OpenInput, CreateInterface, BuildIr, EndOfFamilies,
         EndOfPlatforms, args, compiled, merged
<1>2. \/ pc = "parse" /\ pc' = "open" /\ next > Len(argv) /\ given = {"o", "std", "input"}
      \/ pc = "open" /\ pc' = "create" /\ input # <<>>
      \/ pc = "device" /\ pc' = "ir" /\ n < Len(Families)
      \/ pc = "ir" /\ pc' = "binary"
      \/ pc = "device" /\ pc' = "alias" /\ n = Len(Families)
      \/ pc = "alias" /\ pc' = "declare" /\ DOMAIN index = DOMAIN binaries
  BY DEF EndOfArguments, OpenInput, CreateInterface, BuildIr, EndOfFamilies, EndOfPlatforms, Go
<1>3. TypeOK'
  BY <1>1, <1>2 DEF TypeOK, Stages
<1>4. Filled'
  BY <1>1, <1>2 DEF Filled, Opened, Stages, PartsAt
<1>5. Kept'
  BY <1>1, <1>2 DEF Kept, Late, Platform, Filled, Stages
<1>6. Merged'
  BY <1>1, <1>2 DEF Merged, Late, Filled, Stages
<1>7. Behind'
  <2>1. CASE pc = "parse"
    <3>1. next = Len(argv) + 1
      BY <1>1, <1>2, <2>1, Vectors DEF TypeOK
    <3>2. PICK k, s, j \in Nat : Shape(k, s, j)
      BY <1>1, <2>1 DEF Behind
    <3>3. Shape(k, s, j)'
      BY <1>1, <3>2 DEF Shape
    <3> QED
      BY <1>1, <1>2, <2>1, <3>1, <3>3 DEF Behind
  <2>2. CASE pc # "parse"
    BY <1>2, <2>2 DEF Behind
  <2> QED
    BY <2>1, <2>2
<1>8. Ahead'
  BY <1>2 DEF Ahead
<1> QED
  BY <1>3, <1>4, <1>5, <1>6, <1>7, <1>8 DEF IInv

(* A step that reads the source, makes the name or writes a part.          *)
LEMMA FileStep ==
  ASSUME IInv,
         \/ CreateOutput \/ ReadInput \/ WritePreamble \/ BeginName \/ TakeCharacter
         \/ EndOfName \/ WriteClass
         \/ WriteRest \/ WriteTail \/ Close \/ CloseFails
  PROVE  IInv'
<1>1. /\ TypeOK /\ Filled /\ Kept /\ Merged
      /\ argv' = argv /\ next' = next /\ given' = given /\ input' = input /\ output' = output
      /\ n' = n /\ bin' = bin /\ binaries' = binaries
      /\ outcome' = outcome /\ index' = index /\ written' = written
  BY DEF IInv, CreateOutput, ReadInput, WritePreamble, BeginName, TakeCharacter, EndOfName, WriteClass, WriteRest,
         WriteTail, Close, CloseFails, args, compiled, merged
<1>2. /\ src' \in {"none", "source", "output"} /\ lost' \in BOOLEAN /\ taken' \in Nat
      /\ pc = "create" => output # <<>>
  <2>1. CASE ReadInput
    <3>1. disk[input] \in Contents
      BY <1>1, <2>1 DEF TypeOK, Filled, ReadInput, Go, Opened, Stages
    <3> QED
      BY <1>1, <2>1, <3>1 DEF ReadInput, Go, Contents, TypeOK
  <2>2. CASE TakeCharacter
    BY <1>1, <2>2 DEF TypeOK, TakeCharacter
  <2>3. CASE ~ReadInput /\ ~TakeCharacter
    BY <1>1, <2>3 DEF TypeOK, CreateOutput, WritePreamble, BeginName, EndOfName, WriteClass,
         WriteRest, WriteTail, Close, CloseFails, Write, Go, compiled
  <2> QED
    BY <2>1, <2>2, <2>3
<1>3. output \in Arguments
  BY <1>1, <1>2 DEF Filled, Opened, Stages, CreateOutput, ReadInput, WritePreamble, BeginName, TakeCharacter, EndOfName, WriteClass,
         WriteRest, WriteTail, Close, CloseFails, Write, Go
<1>4. disk[output] \in Contents /\ disk \in [Arguments -> Contents]
  BY <1>1, <1>3 DEF TypeOK
<1>5. \/ /\ <<pc, pc'>> \in {<<"read", "preamble">>, <<"name", "letter">>, <<"letter", "letter">>,
                             <<"letter", "class">>, <<"close", "end">>}
         /\ disk' = disk /\ result' = result
      \/ /\ pc = "create" /\ pc' = "read" /\ result' = result
         /\ disk' = [disk EXCEPT ![output] = [holds |-> "output", parts |-> 0]]
      \/ /\ <<pc, pc'>> \in {<<"preamble", "name">>, <<"class", "device">>,
                             <<"declare", "accessor">>, <<"accessor", "bins">>,
                             <<"bins", "sizes">>, <<"sizes", "tail">>}
         /\ disk' = [disk EXCEPT ![output].parts = @ + 1] /\ result' = result
      \/ /\ pc = "tail" /\ pc' = "close" /\ result' = "success"
         /\ disk' = [disk EXCEPT ![output].parts = @ + 1]
      \/ /\ pc = "close" /\ pc' = "end" /\ result' = result
         /\ \E k \in 0..disk[output].parts - 1 : disk' = [disk EXCEPT ![output].parts = k]
  BY DEF CreateOutput, ReadInput, WritePreamble, BeginName, TakeCharacter, EndOfName, WriteClass, WriteRest,
         WriteTail, Close, CloseFails, Write, Go, Leave, Opened, Stages
<1>6. /\ pc' \in Stages \cup {"close", "end"}
      /\ pc' \in Opened \cup {"close", "end"}
      /\ result' = "none" <=> pc' \in Stages
      /\ pc' \in {"create"} \cup Opened => input \in Arguments
      /\ result' \in {"none", "success", "failure"}
  BY <1>1, <1>5 DEF Filled, TypeOK, Stages, Opened
<1>7. /\ disk' \in [Arguments -> Contents]
      /\ pc' \in Opened => disk'[output].parts = PartsAt[pc']
      /\ result' = "failure" => disk'[output].parts < 7
  <2>1. CASE /\ <<pc, pc'>> \in {<<"read", "preamble">>, <<"name", "letter">>, <<"letter", "letter">>,
                             <<"letter", "class">>, <<"close", "end">>}
             /\ disk' = disk /\ result' = result
    BY <1>1, <1>3, <1>4, <2>1 DEF Filled, Opened, Stages, PartsAt, Parts
  <2>2. CASE /\ pc = "create" /\ pc' = "read" /\ result' = result
             /\ disk' = [disk EXCEPT ![output] = [holds |-> "output", parts |-> 0]]
    BY <1>1, <1>3, <1>4, <2>2 DEF Contents, PartsAt, Parts
  <2>3. CASE /\ <<pc, pc'>> \in {<<"preamble", "name">>, <<"class", "device">>,
                                 <<"declare", "accessor">>, <<"accessor", "bins">>,
                                 <<"bins", "sizes">>, <<"sizes", "tail">>}
             /\ disk' = [disk EXCEPT ![output].parts = @ + 1] /\ result' = result
    <3>1. disk[output].parts = PartsAt[pc] /\ PartsAt[pc] \in 0..5 /\ PartsAt[pc'] = PartsAt[pc] + 1
      BY <1>1, <2>3 DEF Filled, Opened, Stages, PartsAt
    <3>2. disk'[output].parts = PartsAt[pc'] /\ PartsAt[pc'] \in 0..6
      BY <1>3, <1>4, <2>3, <3>1 DEF Contents
    <3>3. disk' \in [Arguments -> Contents]
      BY <1>3, <1>4, <2>3, <3>1 DEF Contents, Parts
    <3> QED
      BY <3>2, <3>3
  <2>4. CASE /\ pc = "tail" /\ pc' = "close" /\ result' = "success"
             /\ disk' = [disk EXCEPT ![output].parts = @ + 1]
    <3>1. disk[output].parts = 6
      BY <1>1, <2>4 DEF Filled, Opened, Stages, PartsAt
    <3> QED
      BY <1>3, <1>4, <2>4, <3>1 DEF Contents, Parts, Opened, Stages
  <2>5. CASE /\ pc = "close" /\ pc' = "end" /\ result' = result
             /\ \E k \in 0..disk[output].parts - 1 : disk' = [disk EXCEPT ![output].parts = k]
    <3>1. PICK k \in 0..disk[output].parts - 1 : disk' = [disk EXCEPT ![output].parts = k]
      BY <2>5
    <3>2. disk[output].parts \in 0..7 /\ k \in 0..6
      BY <1>4, <3>1 DEF Contents, Parts
    <3>3. disk'[output].parts = k /\ disk' \in [Arguments -> Contents]
      BY <1>3, <1>4, <3>1, <3>2 DEF Contents, Parts
    <3> QED
      BY <2>5, <3>2, <3>3 DEF Opened, Stages
  <2> QED
    BY <1>5, <2>1, <2>2, <2>3, <2>4, <2>5
<1>8. TypeOK'
  BY <1>1, <1>2, <1>6, <1>7 DEF TypeOK
<1>9. Filled'
  BY <1>1, <1>3, <1>6, <1>7 DEF Filled, Parts, Opened, Stages
<1>10. Kept'
  BY <1>1, <1>5 DEF Kept, Late, Platform, Filled, Stages
<1>11. Merged'
  BY <1>1, <1>5 DEF Merged, Late, Filled, Stages
<1>12. Behind' /\ Ahead'
  BY <1>5 DEF Behind, Ahead
<1> QED
  BY <1>8, <1>9, <1>10, <1>11, <1>12 DEF IInv

-----------------------------------------------------------------------------
(* The translation for a family, and its binary in the map.                *)
LEMMA BuildBinaryStep == ASSUME IInv, BuildBinary PROVE IInv'
<1>1. /\ TypeOK /\ Filled /\ Kept /\ Merged /\ pc = "binary" /\ pc' = "keep"
      /\ argv' = argv /\ next' = next /\ given' = given /\ input' = input /\ output' = output
      /\ disk' = disk /\ src' = src /\ taken' = taken /\ n' = n /\ bin' = Result.bin /\ binaries' = binaries
      /\ outcome' = outcome /\ index' = index /\ written' = written /\ lost' = lost
      /\ result' = result
  BY DEF IInv, BuildBinary, Go, args, merged
<1>2. Family \in Products
  <2>1. n + 1 \in 1..Len(Families)
    BY <1>1, FamilyFacts DEF Kept, TypeOK
  <2> QED
    BY <2>1, FamilyFacts DEF Family
<1>3. bin' \in {outcome[f].bin : f \in Products}
  BY <1>1, <1>2 DEF Result
<1>4. TypeOK'
  BY <1>1, <1>3 DEF TypeOK, Stages
<1>5. Filled'
  BY <1>1 DEF Filled, Opened, Stages, PartsAt
<1>6. Kept'
  BY <1>1 DEF Kept, Late, Platform, Result, Family, Filled, Stages
<1>7. Merged' /\ Behind' /\ Ahead'
  BY <1>1 DEF Merged, Behind, Ahead, Late
<1> QED
  BY <1>4, <1>5, <1>6, <1>7 DEF IInv

LEMMA KeepBinaryStep ==
  ASSUME IInv, KeepBinary, get_intel_platform[Family] \notin DOMAIN binaries
  PROVE  IInv'
<1> DEFINE p == get_intel_platform[Family]
<1>1. /\ TypeOK /\ Filled /\ Kept /\ Merged /\ pc = "keep" /\ pc' = "device"
      /\ argv' = argv /\ next' = next /\ given' = given /\ input' = input /\ output' = output
      /\ disk' = disk /\ src' = src /\ taken' = taken /\ n' = n + 1 /\ bin' = bin
      /\ binaries' = Inserted(binaries, p, bin)
      /\ outcome' = outcome /\ index' = index /\ written' = written /\ lost' = lost
      /\ result' = result
  BY DEF IInv, KeepBinary, Leave, args, merged
<1>2. n \in Nat /\ Len(Families) \in Nat /\ n + 1 \in 1..Len(Families) /\ p = Platform(n + 1)
  BY <1>1, FamilyFacts DEF Kept, TypeOK, Platform, Family
<1>3. Family \in Products
  BY <1>2, FamilyFacts DEF Family
<1>4. p \in Range(intel_platform)
  <2>1. p \in {"BDW", "CHV", "SKL", "BXT", "KBL", "GLK", "CFL", "EHL", "TGL", "RKL", "DG1"}
    BY <1>3 DEF Products, get_product_family_map, Offline, get_intel_platform
  <2>2. \A k \in 1..22 : intel_platform[k] \in Range(intel_platform)
    BY DEF Range, intel_platform
  <2> QED
    BY <2>1, <2>2 DEF intel_platform
<1> HIDE DEF p
<1>5. /\ DOMAIN binaries' = DOMAIN binaries \cup {p} /\ binaries'[p] = bin
      /\ \A q \in DOMAIN binaries : binaries'[q] = binaries[q]
  BY <1>1 DEF Inserted, p
<1>6. TypeOK'
  BY <1>1, <1>2, <1>4, <1>5 DEF TypeOK, Stages
<1>7. Filled'
  BY <1>1 DEF Filled, Opened, Stages, PartsAt
<1>8. Kept'
  <2>1. DOMAIN binaries' = {Platform(k) : k \in 1..n + 1}
    <3>1. 1..n + 1 = 1..n \cup {n + 1}
      BY <1>2
    <3> QED
      BY <1>1, <1>2, <1>5, <3>1 DEF Kept
  <2>2. ASSUME NEW k \in 1..n + 1
        PROVE  binaries'[Platform(k)] = outcome[Families[k]].bin
    <3>1. CASE k = n + 1
      BY <1>1, <1>2, <1>5, <3>1 DEF Kept, Result, Family
    <3>2. CASE k \in 1..n
      BY <1>1, <1>5, <3>2 DEF Kept
    <3> QED
      BY <1>2, <2>2, <3>1, <3>2
  <2>3. pc' \notin Late /\ result' # "success"
    BY <1>1 DEF Late, Filled, Stages
  <2> QED
    BY <1>1, <2>1, <2>2, <2>3 DEF Kept, Platform
<1>9. Merged'
  BY <1>1, <1>5 DEF Merged, Late, Filled, Stages
<1>10. Behind' /\ Ahead'
  BY <1>1 DEF Behind, Ahead
<1> QED
  BY <1>6, <1>7, <1>8, <1>9, <1>10 DEF IInv

-----------------------------------------------------------------------------
(* Among natural numbers there is a first.                                 *)
LEMMA First ==
  ASSUME NEW T, T \subseteq Nat, T # {}
  PROVE  \E k \in T : \A m \in T : k <= m
<1>1. PICK k \in T : \A m \in T : <<m, k>> \notin OpToRel(<, Nat)
  BY NatLessThanWellFounded, WFMin, Zenon
<1>2. ASSUME NEW m \in T PROVE k <= m
  <2>1. k \in Nat /\ m \in Nat
    OBVIOUS
  <2>2. m < k => <<m, k>> \in OpToRel(<, Nat)
    BY <2>1, Zenon DEF OpToRel
  <2>3. ~(m < k)
    BY <1>1, <2>2, Zenon
  <2> QED
    BY <2>1, <2>3
<1> QED
  BY <1>2

LEMMA MinFacts ==
  ASSUME NEW T, T \subseteq Nat, T # {}
  PROVE  Min(T) \in T
<1>1. \E k \in T : \A m \in T : k <= m
  BY First
<1> QED
  BY <1>1, Zenon DEF Min

(* A map's first platform is one of its platforms.                         *)
LEMMA ForemostFacts ==
  ASSUME NEW D, D \subseteq Range(intel_platform), D # {}
  PROVE  Foremost(D) \in D
<1> DEFINE isIn(k) == intel_platform[k] \in D
           L == Len(intel_platform)
           T == {k \in 1..L : isIn(k)}
           Least(k) == isIn(k) /\ \A j \in 1..k - 1 : ~isIn(j)
<1>1. Range(intel_platform) = {intel_platform[k] : k \in 1..L} /\ L \in Nat
  <2>1. DOMAIN intel_platform = 1..L /\ L = 22
    BY DEF intel_platform
  <2> QED
    BY <2>1 DEF Range
<1>2. Foremost(D) = intel_platform[CHOOSE k \in 1..L : Least(k)]
  BY DEF Foremost
<1> HIDE DEF L
<1>3. T # {} /\ T \subseteq Nat
  BY <1>1
<1>4. PICK k \in T : \A m \in T : k <= m
  BY <1>3, First
<1>5. k \in 1..L /\ Least(k)
  BY <1>1, <1>4
<1> HIDE DEF Least
<1>6. Least(CHOOSE q \in 1..L : Least(q))
  BY <1>5, Zenon
<1>7. isIn(CHOOSE q \in 1..L : Least(q))
  BY <1>6, Zenon DEF Least
<1> QED
  BY <1>2, <1>7, Zenon

(* A platform is numbered: with the binary of the same bytes that is       *)
(* written already, or as the next one.                                    *)
LEMMA AliasStep == ASSUME IInv, Alias PROVE IInv'
<1> DEFINE p == Foremost(DOMAIN binaries \ DOMAIN index)
           at == {k \in 1..Len(written) : Same(written[k], binaries[p])}
<1>1. /\ TypeOK /\ Filled /\ Kept /\ Merged /\ pc = "alias" /\ pc' = "alias"
      /\ DOMAIN index # DOMAIN binaries
      /\ argv' = argv /\ next' = next /\ given' = given /\ input' = input /\ output' = output
      /\ disk' = disk /\ src' = src /\ taken' = taken /\ n' = n /\ bin' = bin /\ binaries' = binaries
      /\ outcome' = outcome /\ lost' = lost /\ result' = result
      /\ \/ at # {} /\ index' = Inserted(index, p, Min(at) - 1) /\ written' = written
         \/ index' = Inserted(index, p, Len(written)) /\ written' = Append(written, binaries[p])
  BY DEF IInv, Alias, args, compiled
<1>2. p \in DOMAIN binaries /\ p \notin DOMAIN index
  <2>1. DOMAIN binaries \ DOMAIN index # {}
    BY <1>1 DEF TypeOK
  <2>2. DOMAIN binaries \ DOMAIN index \subseteq Range(intel_platform)
    BY <1>1 DEF TypeOK
  <2> QED
    BY <2>1, <2>2, ForemostFacts
<1> HIDE DEF p
<1>3. binaries[p] \in {outcome[f].bin : f \in Products}
  <2>1. PICK k \in 1..n : p = Platform(k)
    BY <1>1, <1>2 DEF Kept
  <2>2. k \in 1..Len(Families)
    BY <1>1, <2>1, FamilyFacts DEF TypeOK
  <2>3. binaries[p] = outcome[Families[k]].bin /\ Families[k] \in Products
    BY <1>1, <2>1, <2>2, FamilyFacts DEF Kept
  <2> QED
    BY <2>3
<1>4. written \in Seq({outcome[f].bin : f \in Products}) /\ Len(written) \in Nat
  BY <1>1 DEF Merged
<1>5. PICK m \in Nat :
        /\ index' = Inserted(index, p, m)
        /\ written' \in Seq({outcome[f].bin : f \in Products}) /\ Len(written') >= Len(written)
        /\ \A k \in 1..Len(written) : written'[k] = written[k]
        /\ m < Len(written') /\ Same(written'[m + 1], binaries[p])
  <2>1. CASE at # {} /\ index' = Inserted(index, p, Min(at) - 1) /\ written' = written
    <3>1. at \subseteq Nat
      BY <1>4
    <3>2. Min(at) \in at
      BY <2>1, <3>1, MinFacts, Zenon
    <3>3. Min(at) \in 1..Len(written) /\ Same(written[Min(at)], binaries[p])
      BY <3>2
    <3> DEFINE m == Min(at) - 1
    <3>4. m \in Nat /\ m < Len(written) /\ m + 1 = Min(at)
      BY <1>4, <3>3
    <3>5. Same(written[m + 1], binaries[p]) /\ index' = Inserted(index, p, m)
      BY <2>1, <3>3, <3>4, Zenon
    <3>6. /\ written' \in Seq({outcome[f].bin : f \in Products})
          /\ Len(written') >= Len(written) /\ m < Len(written')
          /\ \A k \in 1..Len(written) : written'[k] = written[k]
          /\ Same(written'[m + 1], binaries[p])
      <4> HIDE DEF m
      <4> QED
        BY <1>4, <2>1, <3>4, <3>5
    <3> HIDE DEF at, m
    <3> QED
      BY <3>4, <3>5, <3>6, Zenon
  <2>2. CASE index' = Inserted(index, p, Len(written)) /\ written' = Append(written, binaries[p])
    <3>1. /\ Len(written') = Len(written) + 1 /\ written'[Len(written) + 1] = binaries[p]
          /\ \A k \in 1..Len(written) : written'[k] = written[k]
          /\ written' \in Seq({outcome[f].bin : f \in Products})
      BY <1>3, <1>4, <2>2, AppendProperties
    <3>2. Same(written'[Len(written) + 1], binaries[p])
      BY <3>1 DEF Same
    <3> DEFINE m == Len(written)
    <3>3. m \in Nat /\ m < Len(written') /\ Len(written') >= Len(written)
      BY <1>4, <3>1
    <3>4. index' = Inserted(index, p, m) /\ Same(written'[m + 1], binaries[p])
      BY <2>2, <3>2
    <3> HIDE DEF m
    <3> QED
      BY <3>1, <3>3, <3>4
  <2> QED
    BY <1>1, <2>1, <2>2
<1>6. /\ DOMAIN index' = DOMAIN index \cup {p} /\ index'[p] = m
      /\ \A q \in DOMAIN index : index'[q] = index[q]
  BY <1>2, <1>5 DEF Inserted
<1>7. Len(written') \in Nat
  BY <1>5
<1>8. \A q \in DOMAIN index' :
        /\ q \in DOMAIN binaries' /\ index'[q] \in 0..Len(written') - 1
        /\ Same(written'[index'[q] + 1], binaries'[q])
  <2>1. ASSUME NEW q \in DOMAIN index
        PROVE  /\ q \in DOMAIN binaries' /\ index'[q] \in 0..Len(written') - 1
               /\ Same(written'[index'[q] + 1], binaries'[q])
    <3>1. /\ q \in DOMAIN binaries /\ index[q] \in 0..Len(written) - 1
          /\ Same(written[index[q] + 1], binaries[q])
      BY <1>1 DEF Merged
    <3>2. index'[q] = index[q] /\ index[q] + 1 \in 1..Len(written)
      BY <1>4, <1>6, <3>1
    <3>3. written'[index[q] + 1] = written[index[q] + 1]
      BY <1>5, <3>2
    <3> QED
      BY <1>1, <1>4, <1>5, <1>7, <3>1, <3>2, <3>3
  <2>2. /\ p \in DOMAIN binaries' /\ index'[p] \in 0..Len(written') - 1
        /\ Same(written'[index'[p] + 1], binaries'[p])
    BY <1>1, <1>2, <1>5, <1>6, <1>7
  <2> QED
    BY <1>6, <2>1, <2>2
<1>9. TypeOK'
  BY <1>1, <1>8 DEF TypeOK
<1>10. Filled' /\ Kept'
  BY <1>1 DEF Filled, Kept, Platform, Late
<1>11. Merged'
  BY <1>1, <1>5, <1>8 DEF Merged, Late, Filled, Stages
<1>12. Behind' /\ Ahead'
  BY <1>1 DEF Behind, Ahead
<1> QED
  BY <1>9, <1>10, <1>11, <1>12 DEF IInv

-----------------------------------------------------------------------------
(* The arguments: those that were looked at lie before the next, each in a *)
(* place of its own.                                                       *)
LEMMA Tokens == IsOption(O) /\ IsOption(Std) /\ O # Std
BY DEF IsOption, O, Std

LEMMA TakeStep == ASSUME IInv, TakeOutput \/ TakeStandard \/ TakeInput PROVE IInv'
<1>1. /\ TypeOK /\ Filled /\ Kept /\ Merged /\ Behind /\ Ahead
      /\ pc = "parse" /\ pc' = "parse" /\ argv' = argv
      /\ disk' = disk /\ src' = src /\ taken' = taken /\ n' = n /\ bin' = bin /\ binaries' = binaries
      /\ outcome' = outcome /\ index' = index /\ written' = written /\ lost' = lost
      /\ result' = result /\ next <= Len(argv)
  BY DEF IInv, TakeOutput, TakeStandard, TakeInput, Parsing, compiled, merged
<1>2. /\ Len(argv) \in Nat /\ next \in 1..Len(argv)
      /\ \A k \in 1..Len(argv) : argv[k] \in Arguments
  BY <1>1, Vectors DEF TypeOK
<1>3. \/ /\ argv[next] = O /\ "o" \notin given /\ next < Len(argv)
         /\ output' = argv[next + 1] /\ given' = given \cup {"o"} /\ next' = next + 2
         /\ input' = input
      \/ /\ argv[next] = Std /\ "std" \notin given
         /\ given' = given \cup {"std"} /\ next' = next + 1
         /\ input' = input /\ output' = output
      \/ /\ ~IsOption(argv[next]) /\ "input" \notin given
         /\ input' = argv[next] /\ given' = given \cup {"input"} /\ next' = next + 1
         /\ output' = output
  BY DEF TakeOutput, TakeStandard, TakeInput, Here
<1>4. next' \in 1..Len(argv) + 1 /\ given' \subseteq {"o", "std", "input"}
  <2>1. next' \in {next + 1, next + 2} /\ (next' = next + 2 => next < Len(argv))
    BY <1>2, <1>3
  <2>2. next' \in 1..Len(argv) + 1
    BY <1>2, <2>1
  <2>3. given \subseteq {"o", "std", "input"}
    BY <1>1 DEF TypeOK
  <2>4. given' \subseteq {"o", "std", "input"}
    BY <1>3, <2>3
  <2> QED
    BY <2>2, <2>4
<1>5. input' \in {<<>>} \cup Arguments /\ output' \in {<<>>} \cup Arguments
  BY <1>1, <1>2, <1>3 DEF Filled
<1>6. TypeOK'
  BY <1>1, <1>4 DEF TypeOK
<1>7. Filled'
  <2>1. result = "none"
    BY <1>1 DEF Filled, Stages
  <2> QED
    BY <1>1, <1>5, <2>1 DEF Filled, Opened, Stages
<1>8. Kept' /\ Merged'
  BY <1>1 DEF Kept, Merged, Platform, Late
<1>9. Behind'
  <2>1. PICK k, s, j \in Nat : Shape(k, s, j)
    BY <1>1 DEF Behind
  <2>2. PICK m \in Nat : m = next
    BY <1>2
  <2>3. CASE /\ argv[next] = O /\ "o" \notin given /\ next < Len(argv)
             /\ output' = argv[next + 1] /\ given' = given \cup {"o"} /\ next' = next + 2
             /\ input' = input
    <3>1. Shape(m, s, j)'
      BY <1>1, <1>2, <2>1, <2>2, <2>3 DEF Shape
    <3> QED
      BY <1>1, <2>2, <3>1, Zenon DEF Behind
  <2>4. CASE /\ argv[next] = Std /\ "std" \notin given
             /\ given' = given \cup {"std"} /\ next' = next + 1
             /\ input' = input /\ output' = output
    <3>1. Shape(k, m, j)'
      BY <1>1, <1>2, <2>1, <2>2, <2>4 DEF Shape
    <3> QED
      BY <1>1, <2>2, <3>1, Zenon DEF Behind
  <2>5. CASE /\ ~IsOption(argv[next]) /\ "input" \notin given
             /\ input' = argv[next] /\ given' = given \cup {"input"} /\ next' = next + 1
             /\ output' = output
    <3>1. Shape(k, s, m)'
      BY <1>1, <1>2, <2>1, <2>2, <2>5 DEF Shape
    <3> QED
      BY <1>1, <2>2, <3>1, Zenon DEF Behind
  <2> QED
    BY <1>3, <2>3, <2>4, <2>5
<1>10. Ahead'
  <2>1. SUFFICES ASSUME NEW k \in 1..3, NEW s \in 1..4, NEW j \in 1..4, Places(argv, k, s, j)
                 PROVE  /\ next' \in {k, s, j, 5}
                        /\ "o" \in given' <=> k < next'
                        /\ "std" \in given' <=> s < next'
                        /\ "input" \in given' <=> j < next'
    BY <1>1 DEF Ahead
  <2>2. /\ next \in {k, s, j, 5}
        /\ "o" \in given <=> k < next
        /\ "std" \in given <=> s < next
        /\ "input" \in given <=> j < next
    BY <1>1, <2>1 DEF Ahead
  <2>3. Len(argv) = 4 /\ argv[k] = O /\ argv[s] = Std /\ ~IsOption(argv[j])
    BY <2>1 DEF Places
  <2>4. /\ 1 \in {k, k + 1, s, j} /\ 2 \in {k, k + 1, s, j}
        /\ 3 \in {k, k + 1, s, j} /\ 4 \in {k, k + 1, s, j}
    BY <2>1 DEF Places
  <2>5. k # s /\ k # j /\ s # j /\ s # k + 1 /\ j # k + 1
    BY <2>4
  <2>6. next \in {k, s, j}
    BY <1>2, <2>2, <2>3
  <2>7. CASE next = k
    BY <1>3, <2>2, <2>3, <2>4, <2>5, <2>7, Tokens
  <2>8. CASE next = s
    BY <1>3, <2>2, <2>3, <2>4, <2>5, <2>8, Tokens
  <2>9. CASE next = j
    BY <1>3, <2>2, <2>3, <2>4, <2>5, <2>9, Tokens
  <2> QED
    BY <2>6, <2>7, <2>8, <2>9
<1> QED
  BY <1>6, <1>7, <1>8, <1>9, <1>10 DEF IInv

-----------------------------------------------------------------------------
LEMMA NextIInv == ASSUME IInv, [Next]_vars PROVE IInv'
<1>1. CASE TakeOutput \/ TakeStandard \/ TakeInput
  BY <1>1, TakeStep
<1>2. CASE \/ EndOfArguments /\ given = {"o", "std", "input"}
           \/ OpenInput \/ CreateInterface \/ BuildIr \/ EndOfFamilies \/ EndOfPlatforms
  BY <1>2, MoveStep
<1>3. CASE \/ CreateOutput \/ ReadInput \/ WritePreamble \/ BeginName \/ TakeCharacter
         \/ EndOfName \/ WriteClass
           \/ WriteRest \/ WriteTail \/ Close \/ CloseFails
  BY <1>3, FileStep
<1>4. CASE \/ Refuse
           \/ EndOfArguments /\ given # {"o", "std", "input"}
           \/ NameRefused \/ BuildIrFails \/ Throws
  <2>1. GiveUp
    BY <1>4 DEF Refuse, EndOfArguments, NameRefused, BuildIrFails, Throws, Parsing, GiveUp, Stages
  <2> QED
    BY <2>1, GiveUpStep
<1>5. CASE BuildBinary
  BY <1>5, BuildBinaryStep
<1>6. CASE KeepBinary
  <2>1. CASE get_intel_platform[Family] \in DOMAIN binaries
    <3>1. GiveUp
      BY <1>6, <2>1 DEF KeepBinary, GiveUp, Stages, compiled, merged
    <3> QED
      BY <3>1, GiveUpStep
  <2>2. CASE get_intel_platform[Family] \notin DOMAIN binaries
    BY <1>6, <2>2, KeepBinaryStep
  <2> QED
    BY <2>1, <2>2
<1>7. CASE Alias
  BY <1>7, AliasStep
<1>8. CASE UNCHANGED vars
  <2>1. /\ TypeOK /\ Filled /\ Kept /\ Merged /\ Behind /\ Ahead
        /\ pc' = pc /\ result' = result
        /\ argv' = argv /\ next' = next /\ given' = given /\ input' = input /\ output' = output
        /\ disk' = disk /\ src' = src /\ taken' = taken /\ n' = n /\ bin' = bin /\ binaries' = binaries
        /\ outcome' = outcome /\ index' = index /\ written' = written /\ lost' = lost
    BY <1>8 DEF IInv, vars, args, compiled, merged
  <2>2. TypeOK' /\ Filled' /\ Kept' /\ Merged'
    BY <2>1 DEF TypeOK, Filled, Kept, Platform, Result, Family, Merged
  <2>3. Behind'
    BY <2>1 DEF Behind, Shape
  <2>4. Ahead'
    BY <2>1 DEF Ahead
  <2> QED
    BY <2>2, <2>3, <2>4 DEF IInv
<1> QED
  BY <1>1, <1>2, <1>3, <1>4, <1>5, <1>6, <1>7, <1>8, Zenon DEF Next

LEMMA Invariance == Spec => []IInv
BY InitIInv, NextIInv, PTL DEF Spec

(* The types hold for every vector of arguments, every outcome of the      *)
(* translations and every order of the families.  (main_exc, Args.)        *)
THEOREM TypeCorrect == Spec => []TypeOK
<1>1. IInv => TypeOK
  BY DEF IInv
<1> QED
  BY Invariance, <1>1, PTL

(* A run that fails, in whatever stage, leaves an output that has not all  *)
(* of its parts.  (main, main_exc, File::~File.)                           *)
THEOREM FailureIsSeen == Spec => []FailureIsVisible
<1>1. IInv => FailureIsVisible
  BY DEF IInv, Filled, FailureIsVisible
<1> QED
  BY Invariance, <1>1, PTL

LEMMA KeptFacts == ASSUME IInv PROVE BinariesKept
<1>1. SUFFICES ASSUME result = "success", NEW f \in Products
               PROVE  /\ get_intel_platform[f] \in DOMAIN index
                      /\ Same(written[index[get_intel_platform[f]] + 1], outcome[f].bin)
  BY DEF BinariesKept
<1>2. PICK k \in 1..Len(Families) : Families[k] = f
  BY FamilyFacts
<1>3. k \in 1..n /\ Platform(k) = get_intel_platform[f]
  BY <1>1, <1>2 DEF IInv, Kept, Platform
<1>4. binaries[Platform(k)] = outcome[f].bin /\ Platform(k) \in DOMAIN binaries
  BY <1>2, <1>3 DEF IInv, Kept
<1> QED
  BY <1>1, <1>3, <1>4 DEF IInv, Merged

(* When the program is successful, the platform of every family has the    *)
(* number of a binary with the bytes that were built for this family: to   *)
(* merge equal binaries gives nobody the binary of another.  (The loops of *)
(* main_exc over the families and over the platforms.)                     *)
THEOREM BinariesAreKept == Spec => []BinariesKept
<1>1. IInv => BinariesKept
  BY KeptFacts
<1> QED
  BY Invariance, <1>1, PTL

-----------------------------------------------------------------------------
(* The two arguments that are left without -o and the name after it.       *)
LEMMA Rest ==
  ASSUME NEW v \in Seq(Arguments), Len(v) = 4, NEW k \in 1..3
  PROVE  SubSeq(v, 1, k - 1) \o SubSeq(v, k + 2, 4) =
           <<v[IF k = 1 THEN 3 ELSE 1], v[IF k = 3 THEN 2 ELSE 4]>>
<1> DEFINE p == SubSeq(v, 1, k - 1)
           q == SubSeq(v, k + 2, 4)
           r == <<v[IF k = 1 THEN 3 ELSE 1], v[IF k = 3 THEN 2 ELSE 4]>>
<1>1. /\ \A m \in 1..k - 1 : v[m] \in Arguments
      /\ \A m \in k + 2..4 : v[m] \in Arguments
      /\ r \in Seq(Arguments) /\ Len(r) = 2
  <2>1. \A m \in 1..4 : v[m] \in Arguments
    OBVIOUS
  <2>2. v[IF k = 1 THEN 3 ELSE 1] \in Arguments /\ v[IF k = 3 THEN 2 ELSE 4] \in Arguments
    BY <2>1
  <2>3. r \in Seq(Arguments) /\ Len(r) = 2
    BY <2>2
  <2>4. /\ \A m \in 1..k - 1 : v[m] \in Arguments
        /\ \A m \in k + 2..4 : v[m] \in Arguments
    BY <2>1
  <2> QED
    BY <2>3, <2>4
<1>2. /\ p \in Seq(Arguments) /\ Len(p) = k - 1
      /\ \A m \in 1..k - 1 : p[m] = v[m]
  BY <1>1, SubSeqProperties
<1>3. /\ q \in Seq(Arguments) /\ Len(q) = 3 - k
      /\ \A m \in 1..3 - k : q[m] = v[k + 1 + m]
  BY <1>1, SubSeqProperties
<1> HIDE DEF p, q
<1>4. /\ p \o q \in Seq(Arguments) /\ Len(p \o q) = 2
      /\ \A m \in 1..2 : (p \o q)[m] = IF m <= k - 1 THEN p[m] ELSE q[m - (k - 1)]
  BY <1>2, <1>3, ConcatProperties
<1>5. ASSUME NEW m \in 1..2 PROVE (p \o q)[m] = r[m]
  <2>1. CASE m <= k - 1
    <3>1. (p \o q)[m] = v[m]
      BY <1>2, <1>4, <2>1
    <3>2. (m = 1 /\ k # 1) \/ (m = 2 /\ k = 3)
      BY <2>1
    <3> QED
      BY <3>1, <3>2
  <2>2. CASE m > k - 1
    <3>1. m - (k - 1) \in 1..3 - k /\ k + 1 + (m - (k - 1)) = m + 2
      BY <2>2
    <3>2. (p \o q)[m] = v[m + 2]
      BY <1>3, <1>4, <2>2, <3>1
    <3>3. (m = 1 /\ k = 1) \/ (m = 2 /\ k # 3)
      BY <2>2
    <3> QED
      BY <3>2, <3>3
  <2>3. m <= k - 1 \/ m > k - 1
    OBVIOUS
  <2> QED
    BY <2>1, <2>2, <2>3, Zenon
<1> HIDE DEF r
<1>6. p \o q = r
  BY <1>1, <1>4, <1>5, SeqEqual
<1> QED
  BY <1>6 DEF p, q, r

(* A vector that has a meaning has a place for each of its parts.          *)
LEMMA Meaning ==
  ASSUME NEW v \in Seq(Arguments), Len(v) = 4, NEW i, NEW o, Means(v, i, o)
  PROVE  \E k \in 1..3, s, j \in 1..4 : Places(v, k, s, j)
<1>1. PICK k \in 1..3 :
        /\ v[k] = O /\ v[k + 1] = o /\ ~IsOption(i)
        /\ SubSeq(v, 1, k - 1) \o SubSeq(v, k + 2, 4) \in {<<Std, i>>, <<i, Std>>}
  BY DEF Means
<1> DEFINE a == IF k = 1 THEN 3 ELSE 1
           b == IF k = 3 THEN 2 ELSE 4
<1>2. a \in 1..4 /\ b \in 1..4 /\ {k, k + 1, a, b} = 1..4
  <2>1. k = 1 \/ k = 2 \/ k = 3
    OBVIOUS
  <2> QED
    BY <2>1
<1>3. <<v[a], v[b]>> \in {<<Std, i>>, <<i, Std>>}
  BY <1>1, Rest, Zenon
<1>4. (v[a] = Std /\ v[b] = i) \/ (v[a] = i /\ v[b] = Std)
  BY <1>3
<1>5. CASE v[a] = Std /\ v[b] = i
  BY <1>1, <1>2, <1>5 DEF Places
<1>6. CASE v[a] = i /\ v[b] = Std
  <2>1. {k, k + 1, b, a} = 1..4
    BY <1>2
  <2> QED
    BY <1>1, <1>2, <1>6, <2>1 DEF Places
<1> QED
  BY <1>4, <1>5, <1>6

(* An argument vector gets through Args::parse only if it is -o with a     *)
(* name, the standard and another name, in any order, and these are what   *)
(* is taken from it; and no such vector is refused.  (Args::parse.)        *)
THEOREM ArgumentsAreUnderstood == Spec => []ArgumentsUnderstood
<1>1. ASSUME IInv, pc = "open" PROVE Len(argv) = 4 /\ Means(argv, input, output)
  <2>1. given = {"o", "std", "input"} /\ next = Len(argv) + 1 /\ Len(argv) \in Nat
    BY <1>1, Vectors DEF IInv, Behind, TypeOK
  <2>2. PICK k, s, j \in Nat : Shape(k, s, j)
    BY <1>1 DEF IInv, Behind
  <2>3. /\ next = 5 /\ k \in 1..3 /\ s \in 1..4 /\ j \in 1..4
        /\ argv[k] = O /\ argv[k + 1] = output /\ argv[s] = Std /\ argv[j] = input
        /\ ~IsOption(input)
        /\ s # k /\ s # k + 1 /\ j # k /\ j # k + 1 /\ j # s
    BY <2>1, <2>2 DEF Shape
  <2>4. Len(argv) = 4
    <3>1. PICK m \in Nat : m = Len(argv)
      BY <2>1
    <3>2. m = 4
      BY <2>1, <2>3, <3>1
    <3> QED
      BY <3>1, <3>2
  <2> DEFINE a == IF k = 1 THEN 3 ELSE 1
             b == IF k = 3 THEN 2 ELSE 4
  <2>5. (a = s /\ b = j) \/ (a = j /\ b = s)
    BY <2>3
  <2>6. <<argv[a], argv[b]>> \in {<<Std, input>>, <<input, Std>>}
    BY <2>3, <2>5, Zenon
  <2>7. SubSeq(argv, 1, k - 1) \o SubSeq(argv, k + 2, 4) = <<argv[a], argv[b]>>
    BY <1>1, <2>3, <2>4, Rest, Vectors, Zenon DEF IInv, TypeOK
  <2> QED
    BY <2>3, <2>4, <2>6, <2>7, Zenon DEF Means
<1>2. ASSUME IInv, pc = "parse", Acceptable(argv)
      PROVE  IF next > Len(argv) THEN given = {"o", "std", "input"} ELSE ~Unusable
  <2>1. Len(argv) = 4 /\ argv \in Seq(Arguments)
    BY <1>2, Vectors DEF Acceptable, IInv, TypeOK
  <2>2. PICK k \in 1..3, s \in 1..4, j \in 1..4 : Places(argv, k, s, j)
    BY <1>2, <2>1, Meaning DEF Acceptable
  <2>3. /\ next \in {k, s, j, 5}
        /\ "o" \in given <=> k < next
        /\ "std" \in given <=> s < next
        /\ "input" \in given <=> j < next
    BY <1>2, <2>2 DEF IInv, Ahead
  <2>4. argv[k] = O /\ argv[s] = Std /\ ~IsOption(argv[j])
    BY <2>2 DEF Places
  <2>5. given \subseteq {"o", "std", "input"}
    BY <1>2 DEF IInv, TypeOK
  <2>6. CASE next = 5
    <3>1. "o" \in given /\ "std" \in given /\ "input" \in given
      BY <2>3, <2>6
    <3>2. given = {"o", "std", "input"}
      BY <2>5, <3>1
    <3>3. next > Len(argv)
      BY <2>1, <2>6
    <3> QED
      BY <3>2, <3>3, Zenon
  <2>7. CASE next # 5
    <3>1. next <= Len(argv) /\ next \in {k, s, j}
      BY <2>1, <2>3, <2>7
    <3>2. ~Unusable
      BY <2>1, <2>3, <2>4, <3>1, Tokens DEF Unusable, Here
    <3> QED
      BY <2>1, <2>3, <2>7, <3>1, <3>2
  <2> QED
    BY <2>6, <2>7
<1>3. IInv => ArgumentsUnderstood
  BY <1>1, <1>2 DEF ArgumentsUnderstood
<1> QED
  BY Invariance, <1>3, PTL

-----------------------------------------------------------------------------
(* The files, and what every device finds in the output.                   *)
LEMMA InitSourced == ASSUME Init PROVE Sourced
BY DEF Init, Sourced, Opened, Stages

LEMMA QuietSourced ==
  ASSUME Sourced,
         disk' = disk, src' = src, outcome' = outcome, lost' = lost,
         input' = input, output' = output,
         pc' \in {"parse", "open", "create"} => pc \in {"parse", "open", "create"},
         pc' \in Opened \cup {"close"} => pc \in Opened \cup {"close"},
         pc' = "read" => pc = "read",
         pc' \in Opened \ {"read"} => pc \in Opened \ {"read"},
         result' = "success" => result = "success"
  PROVE  Sourced'
<1>1. outcome' \in {c.outcome : c \in Cases}
  BY DEF Sourced
<1>2. pc' \in {"parse", "open", "create"} => \A f \in Arguments : disk'[f].holds = "source"
  BY DEF Sourced
<1>3. pc' \in Opened \cup {"close"} \/ result' = "success" =>
        output' \in Arguments /\ disk'[output'].holds = "output"
  BY DEF Sourced
<1>4. pc' = "read" /\ input' # output' => disk'[input'].holds = "source"
  BY DEF Sourced
<1>5. (pc' \in Opened \ {"read"} \/ result' = "success") /\ input' # output' => src' = "source"
  BY DEF Sourced
<1>6. result' = "success" /\ ~lost' => disk'[output'].parts = Parts
  BY DEF Sourced
<1> QED
  BY <1>1, <1>2, <1>3, <1>4, <1>5, <1>6, Zenon DEF Sourced, Opened, Stages

LEMMA NextSourced == ASSUME IInv, Sourced, [Next]_vars PROVE Sourced'
<1>1. /\ outcome' = outcome /\ TypeOK /\ Filled
      /\ outcome' \in {c.outcome : c \in Cases}
  <2>1. outcome' = outcome
    BY DEF Next, vars, compiled, TakeOutput, TakeStandard, TakeInput, Refuse, EndOfArguments,
           OpenInput, CreateOutput, ReadInput, WritePreamble, BeginName, TakeCharacter, EndOfName, NameRefused,
           WriteClass, CreateInterface, BuildIr, BuildIrFails, BuildBinary, KeepBinary,
           EndOfFamilies, Alias, EndOfPlatforms, WriteRest, WriteTail, Close, CloseFails, Throws
  <2> QED
    BY <2>1 DEF IInv, Sourced
<1>2. CASE UNCHANGED vars
  BY <1>2, QuietSourced DEF vars, args, compiled
<1>3. CASE TakeOutput \/ TakeStandard \/ TakeInput
  <2>1. pc = "parse" /\ pc' = "parse" /\ disk' = disk /\ result' = result
    BY <1>3 DEF TakeOutput, TakeStandard, TakeInput, Parsing
  <2>2. result # "success"
    BY <1>1, <2>1 DEF Filled, Stages
  <2> QED
    BY <1>1, <2>1, <2>2 DEF Sourced, Opened, Stages
<1>4. CASE \/ Refuse \/ EndOfArguments \/ OpenInput \/ NameRefused \/ CreateInterface
           \/ BuildIr \/ BuildIrFails \/ KeepBinary \/ EndOfFamilies \/ Alias
           \/ EndOfPlatforms \/ Close \/ Throws \/ BeginName \/ TakeCharacter
           \/ EndOfName \/ BuildBinary
  <2>1. /\ disk' = disk /\ src' = src /\ lost' = lost /\ input' = input /\ output' = output
    BY <1>4 DEF args, compiled, Refuse, EndOfArguments,
           OpenInput, BeginName, TakeCharacter, EndOfName, NameRefused,
           CreateInterface, BuildIr, BuildIrFails, BuildBinary, KeepBinary,
           EndOfFamilies, Alias, EndOfPlatforms, Close, Throws
  <2>2. \/ /\ pc' = IF pc \in Opened THEN "close" ELSE "end"
           /\ result' = "failure"
        \/ /\ <<pc, pc'>> \in {<<"parse", "open">>, <<"open", "create">>, <<"name", "letter">>,
                               <<"letter", "letter">>, <<"letter", "class">>,
                               <<"device", "ir">>, <<"ir", "binary">>, <<"binary", "keep">>,
                               <<"keep", "device">>, <<"device", "alias">>, <<"alias", "alias">>,
                               <<"alias", "declare">>, <<"close", "end">>}
           /\ result' = result
    BY <1>4 DEF Go, Leave, Parsing, Refuse, EndOfArguments,
           OpenInput, BeginName, TakeCharacter, EndOfName, NameRefused,
           CreateInterface, BuildIr, BuildIrFails, BuildBinary, KeepBinary,
           EndOfFamilies, Alias, EndOfPlatforms, Close, Throws
  <2>3. /\ pc' \in {"parse", "open", "create"} => pc \in {"parse", "open", "create"}
        /\ pc' \in Opened \cup {"close"} => pc \in Opened \cup {"close"}
        /\ pc' = "read" => pc = "read"
        /\ pc' \in Opened \ {"read"} => pc \in Opened \ {"read"}
        /\ result' = "success" => result = "success"
    BY <2>2 DEF Opened, Stages
  <2> QED
    BY <1>1, <2>1, <2>3, QuietSourced
<1>5. CASE CreateOutput
  <2>1. /\ pc = "create" /\ pc' = "read" /\ output' = output /\ input' = input
        /\ result' = result /\ output # <<>>
        /\ disk' = [disk EXCEPT ![output] = [holds |-> "output", parts |-> 0]]
    BY <1>5 DEF CreateOutput, Go, args
  <2>2. output \in Arguments /\ input \in Arguments /\ result = "none"
    BY <1>1, <2>1 DEF Filled, Stages
  <2>3. /\ disk'[output].holds = "output"
        /\ input # output => disk'[input].holds = "source"
    BY <1>1, <2>1, <2>2 DEF TypeOK, Sourced
  <2> QED
    BY <1>1, <2>1, <2>2, <2>3 DEF Sourced, Opened, Stages
<1>6. CASE ReadInput
  <2>1. /\ pc = "read" /\ pc' = "preamble" /\ output' = output /\ input' = input
        /\ result' = result /\ disk' = disk /\ src' = disk[input].holds
    BY <1>6 DEF ReadInput, Go, args
  <2>2. result = "none"
    BY <1>1, <2>1 DEF Filled, Stages
  <2> QED
    BY <1>1, <2>1, <2>2 DEF Sourced, Opened, Stages
<1>7. CASE WritePreamble \/ WriteClass \/ WriteRest \/ WriteTail
  <2>1. /\ output' = output /\ input' = input /\ src' = src
        /\ disk' = [disk EXCEPT ![output].parts = @ + 1]
        /\ pc \in Opened \ {"read"} /\ pc' \notin {"read", "parse", "open", "create"}
        /\ result' = result \/ pc = "tail"
    BY <1>7 DEF WritePreamble, WriteClass, WriteRest, WriteTail, Write, Go, Leave, args,
           compiled, Opened, Stages
  <2>2. result = "none" /\ output \in Arguments
    BY <1>1, <2>1 DEF Filled, Opened
  <2>3. disk[output] \in Contents /\ disk \in [Arguments -> Contents]
    BY <1>1, <2>2 DEF TypeOK
  <2>4. disk'[output].holds = "output" /\ disk'[output].parts = disk[output].parts + 1
    <3>1. disk[output].holds = "output"
      BY <2>1, <2>2 DEF Sourced
    <3> QED
      BY <2>1, <2>2, <2>3, <3>1 DEF Contents
  <2>5. pc = "tail" => disk'[output].parts = Parts
    <3>1. pc = "tail" => disk[output].parts = 6
      BY <1>1, <2>1 DEF Filled, PartsAt
    <3> QED
      BY <2>4, <3>1 DEF Parts
  <2>6. input # output => src = "source"
    BY <2>1 DEF Sourced
  <2> QED
    BY <1>1, <2>1, <2>2, <2>4, <2>5, <2>6 DEF Sourced
<1>8. CASE CloseFails
  <2>1. /\ output' = output /\ input' = input /\ src' = src /\ result' = result
        /\ pc = "close" /\ pc' = "end" /\ lost' = TRUE
        /\ \E k \in 0..disk[output].parts - 1 : disk' = [disk EXCEPT ![output].parts = k]
    BY <1>8 DEF CloseFails, Go, args, compiled
  <2>2. PICK k \in 0..disk[output].parts - 1 : disk' = [disk EXCEPT ![output].parts = k]
    BY <2>1
  <2>3. output \in Arguments /\ disk \in [Arguments -> Contents]
    BY <1>1, <2>1 DEF Sourced, TypeOK
  <2>4. disk'[output].holds = "output"
    BY <2>1, <2>2, <2>3 DEF Sourced, Contents
  <2> QED
    BY <1>1, <2>1, <2>3, <2>4 DEF Sourced, Opened, Stages
<1> QED
  BY <1>2, <1>3, <1>4, <1>5, <1>6, <1>7, <1>8 DEF Next

LEMMA SourcedAlways == Spec => [](IInv /\ Sourced)
<1>1. Init => IInv /\ Sourced
  BY InitIInv, InitSourced
<1>2. IInv /\ Sourced /\ [Next]_vars => (IInv /\ Sourced)'
  BY NextIInv, NextSourced
<1> QED
  BY <1>1, <1>2, PTL DEF Spec

-----------------------------------------------------------------------------
(* The name of the class.                                                  *)
LEMMA MaxFacts ==
  ASSUME NEW L \in Nat, NEW T, T \subseteq 1..L, T # {}
  PROVE  Max(T) \in T
<1> DEFINE U == {L - k : k \in T}
<1>1. U \subseteq Nat /\ U # {}
  <2>1. \A k \in T : k \in Int /\ L - k \in Nat
    OBVIOUS
  <2> QED
    BY <2>1
<1>2. PICK u \in U : \A m \in U : u <= m
  BY <1>1, First
<1>3. PICK k \in T : u = L - k
  BY <1>2
<1>4. ASSUME NEW m \in T PROVE m <= k
  <2>1. k \in Int /\ m \in Int /\ L - m \in U
    OBVIOUS
  <2>2. u <= L - m
    BY <1>2, <2>1
  <2> HIDE DEF U
  <2> QED
    BY <1>3, <2>1, <2>2
<1> HIDE DEF U
<1> QED
  BY <1>3, <1>4, Zenon DEF Max

LEMMA LastAtFacts ==
  ASSUME NEW c, NEW s \in Seq(Characters)
  PROVE  LastAt(c, s) \in 0..Len(s)
<1> DEFINE at == {j \in 1..Len(s) : s[j] = c}
<1>1. Len(s) \in Nat /\ at \subseteq 1..Len(s)
  OBVIOUS
<1>2. LastAt(c, s) = IF at = {} THEN 0 ELSE Max(at)
  BY DEF LastAt
<1>3. CASE at = {}
  BY <1>1, <1>2, <1>3
<1>4. CASE at # {}
  <2>1. Max(at) \in at
    BY <1>1, <1>4, MaxFacts
  <2>2. Max(at) \in 1..Len(s)
    BY <1>1, <2>1
  <2> HIDE DEF at
  <2>3. LastAt(c, s) = Max(at)
    BY <1>2, <1>4
  <2> QED
    BY <1>1, <2>2, <2>3
<1> QED
  BY <1>3, <1>4

LEMMA InputNamed ==
  ASSUME IInv, pc \in Opened
  PROVE  ForProgramName \in Seq(Characters)
<1>1. input \in Seq(Characters)
  BY CompilerAssumption DEF IInv, Filled, Opened
<1> DEFINE B == Basename(input)
<1>2. B \in Seq(Characters)
  <2>1. LastAt("/", input) \in 0..Len(input) /\ Len(input) \in Nat
    BY <1>1, LastAtFacts
  <2>2. LastAt("/", input) + 1 \in 1..Len(input) + 1
    BY <2>1
  <2> QED
    BY <1>1, <2>1, <2>2, SubSeqProperties DEF Basename
<1> HIDE DEF B
<1>3. Stem(B) \in Seq(Characters)
  <2>1. LastAt(".", B) \in 0..Len(B) /\ Len(B) \in Nat
    BY <1>2, LastAtFacts
  <2>2. CASE LastAt(".", B) = 0
    BY <1>2, <2>2 DEF Stem
  <2>3. CASE LastAt(".", B) # 0
    <3>1. LastAt(".", B) - 1 \in 0..Len(B)
      BY <2>1, <2>3
    <3>2. SubSeq(B, 1, LastAt(".", B) - 1) \in Seq(Characters)
      BY <1>2, <2>1, <3>1, SubSeqProperties
    <3> QED
      BY <2>3, <3>2 DEF Stem
  <2> QED
    BY <2>2, <2>3
<1> QED
  BY <1>3 DEF ForProgramName, B

LEMMA Single == ASSUME NEW S, NEW e \in S PROVE <<e>> \in Seq(S)
OBVIOUS

(* One more character.                                                     *)
LEMMA WithFacts ==
  ASSUME NEW name, GoodName(name), NEW c \in Characters
  PROVE  /\ GoodName(With(name, c))
         /\ name # <<>> \/ c \notin Dropped => With(name, c) # <<>>
<1>1. ASSUME NEW p \in Seq(InSymbols), NEW d \in InSymbols,
             p # <<>> => p[1] # "1", p = <<>> => d # "1"
      PROVE  GoodName(Append(p, d)) /\ Append(p, d) # <<>>
  <2>1. /\ Append(p, d) \in Seq(InSymbols) /\ Append(p, d) # <<>>
        /\ Len(Append(p, d)) = Len(p) + 1 /\ Len(p) \in Nat
        /\ \A k \in 1..Len(p) : Append(p, d)[k] = p[k]
        /\ Append(p, d)[Len(p) + 1] = d
    BY AppendProperties
  <2>2. CASE p = <<>>
    <3>1. Append(p, d)[1] = d
      BY <2>1, <2>2
    <3> QED
      BY <1>1, <2>1, <2>2, <3>1 DEF GoodName
  <2>3. CASE p # <<>>
    <3>1. Append(p, d)[1] = p[1]
      BY <2>1, <2>3
    <3> QED
      BY <1>1, <2>1, <2>3, <3>1 DEF GoodName
  <2> QED
    BY <2>2, <2>3
<1>2. name \in Seq(InSymbols) /\ (name # <<>> => name[1] # "1")
  BY DEF GoodName
<1>3. "_" \in InSymbols /\ "1" \in InSymbols /\ "_" # "1"
  BY DEF InSymbols, Characters
<1>4. CASE c \in {"-", "."}
  <2>1. With(name, c) = Append(name, "_")
    BY <1>4 DEF With
  <2> QED
    BY <1>1, <1>2, <1>3, <2>1
<1>5. CASE c = "1"
  <2> DEFINE p == IF name = <<>> THEN <<"_">> ELSE name
  <2>1. With(name, c) = Append(p, "1")
    BY <1>5 DEF With
  <2>2. p \in Seq(InSymbols) /\ p # <<>> /\ p[1] # "1"
    <3>1. CASE name = <<>>
      <4>1. p = <<"_">>
        BY <3>1
      <4>2. <<"_">> \in Seq(InSymbols)
        BY <1>3, Single
      <4>3. <<"_">> # <<>> /\ <<"_">>[1] = "_"
        OBVIOUS
      <4> HIDE DEF p
      <4> QED
        BY <1>3, <4>1, <4>2, <4>3, Zenon
    <3>2. CASE name # <<>>
      <4>1. p = name
        BY <3>2
      <4> HIDE DEF p
      <4> QED
        BY <1>2, <3>2, <4>1
    <3> QED
      BY <3>1, <3>2
  <2> HIDE DEF p
  <2> QED
    BY <1>1, <1>3, <2>1, <2>2
<1>6. CASE c \in Dropped
  <2>1. With(name, c) = name
    BY <1>6 DEF With, Dropped
  <2> QED
    BY <1>6, <2>1
<1>7. CASE c \notin {"-", ".", "1"} \cup Dropped
  <2>1. With(name, c) = Append(name, c)
    BY <1>7 DEF With, Dropped
  <2>2. c \in InSymbols /\ c # "1"
    BY <1>7 DEF InSymbols, Dropped
  <2> QED
    BY <1>1, <1>2, <2>1, <2>2
<1> QED
  BY <1>4, <1>5, <1>6, <1>7

LEMMA InitNamed == ASSUME Init PROVE Named
<1>1. /\ pc = "parse" /\ class = <<>> /\ taken = 0 /\ result = "none"
  BY DEF Init
<1>2. GoodName(class)
  BY <1>1 DEF GoodName
<1> QED
  BY <1>1, <1>2 DEF Named, BeforeName

(* A step before the name or behind it, or one that gives up.              *)
LEMMA QuietNamed ==
  ASSUME Named,
         class' = class, taken' = taken,
         input' = input \/ (pc \in BeforeName /\ pc' \in BeforeName /\ result' # "success"),
         pc' \in BeforeName => pc \in BeforeName,
         pc' \in Stages \ (BeforeName \cup {"letter"}) => pc \in Stages \ (BeforeName \cup {"letter"}),
         result' = "success" => result = "success" \/ pc \in Stages \ (BeforeName \cup {"letter"})
  PROVE  Named'
<1>1. GoodName(class)' /\ (pc' \in BeforeName => taken' = 0)
  BY DEF Named
<1>2. CASE input' = input
  <2>1. ForProgramName' = ForProgramName
    BY <1>2 DEF ForProgramName
  <2> QED
    BY <1>1, <2>1 DEF Named
<1>3. CASE pc \in BeforeName /\ pc' \in BeforeName /\ result' # "success"
  <2>1. taken' = 0
    BY <1>3 DEF Named
  <2> QED
    BY <1>1, <1>3, <2>1 DEF Named
<1> QED
  BY <1>2, <1>3

LEMMA NextNamed == ASSUME IInv, Named, [Next]_vars PROVE Named'
<1>1. CASE UNCHANGED vars
  BY <1>1, QuietNamed DEF vars, args, compiled
<1>2. CASE TakeOutput \/ TakeStandard \/ TakeInput
  <2>1. /\ pc = "parse" /\ pc' = "parse" /\ class' = class /\ taken' = taken /\ result' = result
    BY <1>2 DEF TakeOutput, TakeStandard, TakeInput, Parsing, compiled
  <2>2. result # "success"
    BY <2>1 DEF IInv, Filled, Stages
  <2> QED
    BY <2>1, <2>2, QuietNamed DEF BeforeName
<1>3. CASE \/ Refuse \/ EndOfArguments \/ OpenInput \/ CreateOutput \/ ReadInput
           \/ WritePreamble \/ BeginName \/ NameRefused \/ WriteClass \/ CreateInterface
           \/ BuildIr \/ BuildIrFails \/ BuildBinary \/ KeepBinary \/ EndOfFamilies
           \/ Alias \/ EndOfPlatforms \/ WriteRest \/ WriteTail \/ Close \/ CloseFails
           \/ Throws
  <2>1. class' = class /\ taken' = taken /\ input' = input
    BY <1>3 DEF Refuse, EndOfArguments, OpenInput, CreateOutput, ReadInput, WritePreamble,
           BeginName, NameRefused, WriteClass, CreateInterface, BuildIr, BuildIrFails,
           BuildBinary, KeepBinary, EndOfFamilies, Alias, EndOfPlatforms, WriteRest, WriteTail,
           Close, CloseFails, Throws, args, compiled
  <2>2. \/ pc' \in {"close", "end"} /\ (result' = "success" => pc = "tail" \/ result = "success")
        \/ pc \in BeforeName /\ pc' \in BeforeName \cup {"letter"} /\ result' = result
        \/ /\ pc \in Stages \ (BeforeName \cup {"letter"})
           /\ pc' \in Stages \ (BeforeName \cup {"letter"}) /\ result' = result
    <3>1. CASE \/ Refuse \/ EndOfArguments \/ OpenInput \/ CreateOutput \/ ReadInput
               \/ WritePreamble \/ BeginName \/ NameRefused
      BY <3>1 DEF Refuse, EndOfArguments, OpenInput, CreateOutput, ReadInput, WritePreamble,
             BeginName, NameRefused, Leave, Go, Write, Parsing, BeforeName
    <3>2. CASE \/ WriteClass \/ CreateInterface \/ BuildIr \/ BuildIrFails \/ BuildBinary
               \/ KeepBinary \/ EndOfFamilies \/ Alias \/ EndOfPlatforms \/ WriteRest
      BY <3>2 DEF WriteClass, CreateInterface, BuildIr, BuildIrFails,
             BuildBinary, KeepBinary, EndOfFamilies, Alias, EndOfPlatforms, WriteRest,
             Leave, Go, Write, BeforeName, Stages
    <3>3. CASE WriteTail \/ Close \/ CloseFails \/ Throws
      BY <3>3 DEF WriteTail, Close, CloseFails, Throws, Leave, Go
    <3> QED
      BY <1>3, <3>1, <3>2, <3>3
  <2>3. /\ pc' \in BeforeName => pc \in BeforeName
        /\ pc' \in Stages \ (BeforeName \cup {"letter"}) =>
             pc \in Stages \ (BeforeName \cup {"letter"})
        /\ result' = "success" =>
             result = "success" \/ pc \in Stages \ (BeforeName \cup {"letter"})
    BY <2>2 DEF BeforeName, Stages
  <2> QED
    BY <2>1, <2>3, QuietNamed
<1>4. CASE TakeCharacter
  <2>1. /\ pc = "letter" /\ pc' = "letter" /\ input' = input /\ result' = result
        /\ taken \in Nat /\ taken < Len(ForProgramName) /\ taken' = taken + 1
        /\ class' = With(class, ForProgramName[taken + 1])
    BY <1>4 DEF TakeCharacter, IInv, TypeOK, args
  <2>2. ForProgramName \in Seq(Characters) /\ ForProgramName' = ForProgramName
    BY <2>1, InputNamed DEF Opened, Stages, ForProgramName
  <2> DEFINE c == ForProgramName[taken + 1]
  <2>3. c \in Characters
    BY <2>1, <2>2
  <2>4. /\ GoodName(class)'
        /\ class # <<>> \/ c \notin Dropped => class' # <<>>
    BY <2>1, <2>3, WithFacts DEF Named
  <2>5. ASSUME NEW j \in 1..taken', ForProgramName'[j] \notin Dropped
        PROVE  class' # <<>>
    <3>1. CASE j = taken + 1
      BY <2>2, <2>4, <2>5, <3>1
    <3>2. CASE j # taken + 1
      <4>1. j \in 1..taken
        BY <2>1, <3>2
      <4>2. class # <<>>
        BY <2>2, <2>5, <4>1 DEF Named
      <4> HIDE DEF c
      <4> QED
        BY <2>4, <4>2
    <3> QED
      BY <3>1, <3>2
  <2>6. result # "success"
    BY <2>1 DEF IInv, Filled, Stages
  <2>7. /\ pc' \notin BeforeName
        /\ ~(pc' \in Stages \ (BeforeName \cup {"letter"}) \/ result' = "success")
    BY <2>1, <2>6 DEF BeforeName
  <2> HIDE DEF c
  <2> QED
    BY <2>4, <2>5, <2>7, Zenon DEF Named
<1>5. CASE EndOfName
  <2>1. /\ pc = "letter" /\ pc' = "class" /\ taken = Len(ForProgramName)
        /\ input' = input /\ class' = class /\ taken' = taken
    BY <1>5 DEF EndOfName, Go, args, compiled
  <2>2. ForProgramName' = ForProgramName
    BY <2>1 DEF ForProgramName
  <2> QED
    BY <2>1, <2>2 DEF Named, BeforeName
<1> QED
  BY <1>1, <1>2, <1>3, <1>4, <1>5 DEF Next

(* After a run that ends with success, the class has a name that a C++     *)
(* compiler takes, whatever the input is called, if there is a character   *)
(* to make it from.  (The conversion in main_exc.)                         *)
THEOREM NamesAreSymbols == Spec => []NameIsSymbol
<1>1. Init => IInv /\ Named
  BY InitIInv, InitNamed
<1>2. IInv /\ Named /\ [Next]_vars => (IInv /\ Named)'
  BY NextIInv, NextNamed
<1>3. Named => NameIsSymbol
  BY DEF Named, NameIsSymbol, GoodName, Dropped
<1> QED
  BY <1>1, <1>2, <1>3, PTL DEF Spec

-----------------------------------------------------------------------------
(* The tables.                                                             *)
Platforms == {"BDW", "CHV", "SKL", "BXT", "KBL", "GLK", "CFL", "EHL", "TGL", "RKL", "DG1"}
DeviceType(q) == intel_platform_to_device_type[q]

LEMMA FamilyPlatforms ==
  ASSUME NEW f \in Products PROVE get_intel_platform[f] \in Platforms
BY DEF Products, get_product_family_map, Offline, get_intel_platform, Platforms

(* No two platforms have one device type.                                  *)
LEMMA TypesDiffer ==
  ASSUME NEW p \in Platforms, NEW q \in Platforms, DeviceType(p) = DeviceType(q)
  PROVE  p = q
BY DEF Platforms, DeviceType, intel_platform_to_device_type

(* The two tables of names are inverse to each other.                      *)
LEMMA Names ==
  /\ FamilyOf["EHL"] = "ELKHARTLAKE" /\ get_intel_platform["ELKHARTLAKE"] = "EHL"
  /\ DOMAIN FamilyOf = Platforms
  /\ \A p \in Platforms : get_intel_platform[FamilyOf[p]] = p
  /\ \A p \in {"BDW", "CHV"} : FamilyOf[p] \in {"BROADWELL", "CHERRYVIEW"}
  /\ \A p \in {"SKL", "KBL", "CFL"} : FamilyOf[p] \in {"SKYLAKE", "KABYLAKE", "COFFEELAKE"}
  /\ \A p \in {"BXT", "GLK"} : FamilyOf[p] \in {"BROXTON", "GEMINILAKE"}
  /\ \A p \in {"TGL", "RKL", "DG1"} : FamilyOf[p] \in {"TIGERLAKE_LP", "ROCKETLAKE", "DG1"}
<1>1. /\ FamilyOf["BDW"] = "BROADWELL" /\ FamilyOf["CHV"] = "CHERRYVIEW"
      /\ FamilyOf["SKL"] = "SKYLAKE" /\ FamilyOf["BXT"] = "BROXTON"
      /\ FamilyOf["KBL"] = "KABYLAKE" /\ FamilyOf["GLK"] = "GEMINILAKE"
      /\ FamilyOf["CFL"] = "COFFEELAKE" /\ FamilyOf["EHL"] = "ELKHARTLAKE"
      /\ FamilyOf["TGL"] = "TIGERLAKE_LP" /\ FamilyOf["RKL"] = "ROCKETLAKE"
      /\ FamilyOf["DG1"] = "DG1" /\ DOMAIN FamilyOf = Platforms
  BY DEF FamilyOf, Platforms
<1>2. /\ get_intel_platform["BROADWELL"] = "BDW" /\ get_intel_platform["CHERRYVIEW"] = "CHV"
      /\ get_intel_platform["SKYLAKE"] = "SKL" /\ get_intel_platform["BROXTON"] = "BXT"
      /\ get_intel_platform["KABYLAKE"] = "KBL" /\ get_intel_platform["GEMINILAKE"] = "GLK"
      /\ get_intel_platform["COFFEELAKE"] = "CFL" /\ get_intel_platform["ELKHARTLAKE"] = "EHL"
      /\ get_intel_platform["TIGERLAKE_LP"] = "TGL" /\ get_intel_platform["ROCKETLAKE"] = "RKL"
      /\ get_intel_platform["DG1"] = "DG1"
  BY DEF get_intel_platform
<1>3. \A p \in Platforms : get_intel_platform[FamilyOf[p]] = p
  BY <1>1, <1>2 DEF Platforms
<1>4. /\ \A p \in {"BDW", "CHV"} : FamilyOf[p] \in {"BROADWELL", "CHERRYVIEW"}
      /\ \A p \in {"SKL", "KBL", "CFL"} : FamilyOf[p] \in {"SKYLAKE", "KABYLAKE", "COFFEELAKE"}
      /\ \A p \in {"BXT", "GLK"} : FamilyOf[p] \in {"BROXTON", "GEMINILAKE"}
      /\ \A p \in {"TGL", "RKL", "DG1"} : FamilyOf[p] \in {"TIGERLAKE_LP", "ROCKETLAKE", "DG1"}
  BY <1>1
<1> QED
  BY <1>1, <1>2, <1>3, <1>4

Row(f, core, frequency) == [product |-> f, core |-> core, frequency |-> frequency]

LEMMA Rows ==
  /\ \A f \in {"BROADWELL", "CHERRYVIEW"} : Row(f, "GEN8", MHz12_5) \in get_product_family_map
  /\ \A f \in {"SKYLAKE", "KABYLAKE", "COFFEELAKE"} :
       Row(f, "GEN9", MHz12_0) \in get_product_family_map
  /\ \A f \in {"BROXTON", "GEMINILAKE"} : Row(f, "GEN9", MHz19_2) \in get_product_family_map
  /\ Row("ELKHARTLAKE", "GEN11LP", MHz12_0) \in get_product_family_map
  /\ \A f \in {"TIGERLAKE_LP", "ROCKETLAKE", "DG1"} :
       Row(f, "GEN12", MHz12_0) \in get_product_family_map
BY Zenon DEF get_product_family_map, Offline, Row

LEMMA Cores ==
  /\ CoreOf(80) = "GEN8" /\ CoreOf(90) = "GEN9" /\ CoreOf(110) = "GEN11"
  /\ CoreOf(120) = "GEN12"
BY DEF CoreOf

Device(p, ver, lp, frequency) ==
  [platform |-> p, ver |-> ver, verx10 |-> 10 * ver, lp |-> lp,
   timestamp_frequency |-> frequency]

LEMMA Devices ==
  ASSUME NEW d \in intel_device_info
  PROVE  \/ \E p \in {"BDW", "CHV"} : d = Device(p, 8, FALSE, MHz12_5)
         \/ \E p \in {"SKL", "KBL", "CFL"} : d = Device(p, 9, FALSE, MHz12_0)
         \/ \E p \in {"BXT", "GLK"} : d = Device(p, 9, TRUE, MHz19_2)
         \/ \E p \in {"ICL"} : d = Device(p, 11, FALSE, MHz12_5)
         \/ \E p \in {"EHL"} : d = Device(p, 11, TRUE, MHz12_5)
         \/ \E p \in {"TGL", "RKL", "DG1", "ADL", "RPL"} : d = Device(p, 12, FALSE, MHz12_5)
BY Zenon DEF intel_device_info, Info, Device

(* The families' table agrees with what the runtime tells the compiler.    *)
LEMMA Targets ==
  ASSUME NEW d \in intel_device_info, Supported(d) \/ get_product_family(d) # "UNKNOWN"
  PROVE  \E t \in get_product_family_map :
           SameTarget(t, d) /\ get_intel_platform[t.product] = d.platform
<1>1. ASSUME NEW p, NEW f, NEW ver, NEW lp, NEW freq, NEW core, NEW timer,
             d = Device(p, ver, lp, freq), Row(f, core, timer) \in get_product_family_map,
             get_product_family(d) = f, get_render_core_family(d) = core,
             ver < 10 => timer = freq, get_intel_platform[f] = p
      PROVE  \E t \in get_product_family_map :
               SameTarget(t, d) /\ get_intel_platform[t.product] = d.platform
  <2> DEFINE t == Row(f, core, timer)
  <2>1. t.product = f /\ t.core = core /\ t.frequency = timer
    BY DEF Row
  <2>2. d.platform = p /\ d.ver = ver /\ d.timestamp_frequency = freq
    BY <1>1 DEF Device
  <2>3. SameTarget(t, d) /\ get_intel_platform[t.product] = d.platform
    BY <1>1, <2>1, <2>2 DEF SameTarget, Online
  <2> QED
    BY <1>1, <2>3
<1>2. CASE \E p \in {"BDW", "CHV"} : d = Device(p, 8, FALSE, MHz12_5)
  <2>1. PICK p \in {"BDW", "CHV"} : d = Device(p, 8, FALSE, MHz12_5)
    BY <1>2
  <2>2. d.platform = p /\ d.verx10 = 80 /\ d.lp = FALSE
    BY <2>1 DEF Device
  <2>3. get_render_core_family(d) = "GEN8"
    BY <2>2, Cores DEF get_render_core_family
  <2>4. /\ get_product_family(d) = FamilyOf[p] /\ get_intel_platform[FamilyOf[p]] = p
        /\ FamilyOf[p] \in {"BROADWELL", "CHERRYVIEW"}
    BY <2>1, <2>2, Names DEF get_product_family, Platforms
  <2>5. Row(FamilyOf[p], "GEN8", MHz12_5) \in get_product_family_map
    BY <2>4, Rows
  <2> QED
    BY <1>1, <2>1, <2>3, <2>4, <2>5, Zenon
<1>3. CASE \E p \in {"SKL", "KBL", "CFL"} : d = Device(p, 9, FALSE, MHz12_0)
  <2>1. PICK p \in {"SKL", "KBL", "CFL"} : d = Device(p, 9, FALSE, MHz12_0)
    BY <1>3
  <2>2. d.platform = p /\ d.verx10 = 90 /\ d.lp = FALSE
    BY <2>1 DEF Device
  <2>3. get_render_core_family(d) = "GEN9"
    BY <2>2, Cores DEF get_render_core_family
  <2>4. /\ get_product_family(d) = FamilyOf[p] /\ get_intel_platform[FamilyOf[p]] = p
        /\ FamilyOf[p] \in {"SKYLAKE", "KABYLAKE", "COFFEELAKE"}
    BY <2>1, <2>2, Names DEF get_product_family, Platforms
  <2>5. Row(FamilyOf[p], "GEN9", MHz12_0) \in get_product_family_map
    BY <2>4, Rows
  <2> QED
    BY <1>1, <2>1, <2>3, <2>4, <2>5, Zenon
<1>4. CASE \E p \in {"BXT", "GLK"} : d = Device(p, 9, TRUE, MHz19_2)
  <2>1. PICK p \in {"BXT", "GLK"} : d = Device(p, 9, TRUE, MHz19_2)
    BY <1>4
  <2>2. d.platform = p /\ d.verx10 = 90
    BY <2>1 DEF Device
  <2>3. get_render_core_family(d) = "GEN9"
    BY <2>2, Cores DEF get_render_core_family, LowPower
  <2>4. /\ get_product_family(d) = FamilyOf[p] /\ get_intel_platform[FamilyOf[p]] = p
        /\ FamilyOf[p] \in {"BROXTON", "GEMINILAKE"}
    BY <2>1, <2>2, Names DEF get_product_family, Platforms
  <2>5. Row(FamilyOf[p], "GEN9", MHz19_2) \in get_product_family_map
    BY <2>4, Rows
  <2> QED
    BY <1>1, <2>1, <2>3, <2>4, <2>5, Zenon
<1>5. CASE \E p \in {"EHL"} : d = Device(p, 11, TRUE, MHz12_5)
  <2>1. d = Device("EHL", 11, TRUE, MHz12_5)
    BY <1>5
  <2>2. d.platform = "EHL" /\ d.verx10 = 110 /\ d.lp = TRUE
    BY <2>1 DEF Device
  <2>3. get_render_core_family(d) = "GEN11LP"
    BY <2>2, Cores DEF get_render_core_family, LowPower
  <2>4. get_product_family(d) = "ELKHARTLAKE" /\ get_intel_platform["ELKHARTLAKE"] = "EHL"
    <3>1. d.platform \in DOMAIN FamilyOf
      BY <2>2, Names DEF Platforms
    <3> QED
      BY <2>2, <3>1, Names, Zenon DEF get_product_family
  <2>5. ~(11 < 10)
    OBVIOUS
  <2> QED
    BY <1>1, <2>1, <2>3, <2>4, <2>5, Rows, Zenon
<1>6. CASE \E p \in {"TGL", "RKL", "DG1", "ADL", "RPL"} : d = Device(p, 12, FALSE, MHz12_5)
  <2>1. PICK p \in {"TGL", "RKL", "DG1", "ADL", "RPL"} : d = Device(p, 12, FALSE, MHz12_5)
    BY <1>6
  <2>2. d.platform = p /\ d.verx10 = 120 /\ d.lp = FALSE /\ d.ver = 12
    BY <2>1 DEF Device
  <2>3. get_render_core_family(d) = "GEN12"
    BY <2>2, Cores DEF get_render_core_family
  <2>4. p \in {"TGL", "RKL", "DG1"}
    <3>1. get_product_family(d) # "UNKNOWN"
      BY <2>2 DEF Supported
    <3>2. p \in DOMAIN FamilyOf
      BY <2>2, <3>1, Zenon DEF get_product_family
    <3> QED
      BY <2>1, <3>2, Names DEF Platforms
  <2>5. /\ get_product_family(d) = FamilyOf[p] /\ get_intel_platform[FamilyOf[p]] = p
        /\ FamilyOf[p] \in {"TIGERLAKE_LP", "ROCKETLAKE", "DG1"}
    BY <2>2, <2>4, Names DEF get_product_family, Platforms
  <2>6. Row(FamilyOf[p], "GEN12", MHz12_0) \in get_product_family_map
    BY <2>5, Rows
  <2>7. ~(12 < 10)
    OBVIOUS
  <2> QED
    BY <1>1, <2>1, <2>3, <2>5, <2>6, <2>7, Zenon
<1>7. CASE \E p \in {"ICL"} : d = Device(p, 11, FALSE, MHz12_5)
  <2>1. d.platform = "ICL" /\ d.ver = 11
    BY <1>7 DEF Device
  <2> QED
    BY <2>1, Names DEF Supported, get_product_family, Platforms
<1> QED
  BY <1>2, <1>3, <1>4, <1>5, <1>6, <1>7, Devices

(* After a run that ends with success, and translations that were          *)
(* successful, the output is complete and made from the source, and every  *)
(* device that has a family in the table finds by its type the binary that *)
(* was built for what the online compiler takes it for.  (main_exc;        *)
(* read_compiled_kernel; the tables.)                                      *)
THEOREM DevicesAreServed == Spec => []DevicesFindTheirs
<1>1. ASSUME IInv, Sourced, result = "success", \A f \in Products : outcome[f].fails = "none",
             NEW d \in intel_device_info, Supported(d) \/ get_product_family(d) # "UNKNOWN"
      PROVE  FindsIts(d)
  <2> DEFINE P == d.platform
  <2>1. PICK t \in get_product_family_map :
          SameTarget(t, d) /\ get_intel_platform[t.product] = P
    BY <1>1, Targets
  <2> DEFINE f == t.product
             b == outcome[f].bin
  <2>2. f \in Products
    BY DEF Products
  <2>3. PICK L \in Nat : L = Len(written)
    BY <1>1 DEF IInv, Merged
  <2>4. /\ P \in DOMAIN index /\ index[P] \in 0..L - 1
        /\ Same(written[index[P] + 1], b)
    <3>1. P \in DOMAIN index /\ Same(written[index[P] + 1], b)
      BY <1>1, <2>1, <2>2, KeptFacts DEF BinariesKept
    <3> QED
      BY <1>1, <2>3, <3>1 DEF IInv, Merged
  <2>5. \A g \in Products : IsResult(outcome[g])
    BY <1>1, CompilerAssumption DEF Sourced
  <2>6. \A k \in 1..L : written[k].size > 0
    <3>1. ASSUME NEW g \in Products PROVE outcome[g].bin.size > 0
      <4>1. IsResult(outcome[g]) /\ outcome[g].fails = "none"
        BY <1>1, <2>5
      <4>2. outcome[g].bin.size \in Nat /\ outcome[g].bin.size # 0
        BY <4>1, Zenon DEF IsResult
      <4> QED
        BY <4>2
    <3>2. \A k \in 1..L : written[k] \in {outcome[g].bin : g \in Products}
      BY <1>1, <2>3 DEF IInv, Merged
    <3> QED
      BY <3>1, <3>2
  <2>7. Compiles
    BY <2>3, <2>6 DEF Compiles
  <2> DEFINE w == written[index[P] + 1]
             Asked == {q \in DOMAIN index : /\ intel_platform_to_device_type[q] = DeviceType(P)
                                           /\ Compiles /\ written[index[q] + 1].size > 0}
  <2>8. index[P] + 1 \in 1..L /\ w.size > 0
    <3>1. index[P] + 1 \in 1..L
      BY <2>4
    <3> QED
      BY <2>6, <3>1
  <2>9. Asked = {P}
    <3>1. ASSUME NEW q \in DOMAIN index PROVE q \in Platforms
      <4>1. q \in DOMAIN binaries
        BY <1>1 DEF IInv, Merged
      <4>2. PICK k \in 1..n : q = Platform(k)
        BY <1>1, <4>1 DEF IInv, Kept
      <4>3. k \in 1..Len(Families)
        BY <1>1, <4>2, FamilyFacts DEF IInv, TypeOK
      <4> QED
        BY <4>2, <4>3, FamilyFacts, FamilyPlatforms DEF Platform
    <3>2. P \in Asked
      BY <2>4, <2>7, <2>8 DEF DeviceType
    <3>3. ASSUME NEW q \in Asked PROVE q = P
      <4>1. q \in DOMAIN index /\ DeviceType(q) = DeviceType(P)
        BY DEF DeviceType
      <4> HIDE DEF P
      <4> QED
        BY <2>4, <3>1, <4>1, TypesDiffer
    <3> HIDE DEF Asked
    <3> QED
      BY <3>2, <3>3
  <2>10. w = b
    <3>1. PICK g \in Products : w = outcome[g].bin
      BY <1>1, <2>3, <2>8 DEF IInv, Merged
    <3>2. /\ b = [code |-> b.code, size |-> b.size] /\ w = [code |-> w.code, size |-> w.size]
          /\ w.code = b.code /\ w.size = b.size
      BY <2>2, <2>4, <2>5, <3>1 DEF IsResult, Same
    <3> HIDE DEF b, w
    <3> QED
      BY <3>2
  <2>11. GetBin(DeviceType(P)) = {b}
    <3> DEFINE G(p) == written[index[p] + 1]
    <3>1. GetBin(DeviceType(P)) = {G(p) : p \in Asked}
      BY Zenon DEF GetBin
    <3>2. G(P) = b
      BY <2>10
    <3> HIDE DEF Asked, G
    <3> QED
      BY <2>9, <3>1, <3>2
  <2> QED
    BY <2>1, <2>11 DEF FindsIts, DeviceType
<1>2. IInv /\ Sourced => DevicesFindTheirs
  BY <1>1 DEF DevicesFindTheirs, Sourced
<1> QED
  BY SourcedAlways, <1>2, PTL
=============================================================================
