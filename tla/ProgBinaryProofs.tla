--------------------------- MODULE ProgBinaryProofs ---------------------------
(***************************************************************************)
(* Proofs about ProgBinary, for every file, every hash and every size of a *)
(* word: as long as no sum of sizes wraps, the reader's position and the   *)
(* bytes it counts agree, and nothing is read from behind the file; and    *)
(* from a file as the compiler writes it, it reads what was written.       *)
(***************************************************************************)
EXTENDS ProgBinary, SequenceTheorems, WellFoundedInduction, TLAPS

(* The sums of sizes that pass the checks fit in 32 bits.                  *)
SumsFit ==
  /\ At("heaps") /\ HeapsOk => khdr.kernel + khdr.general + khdr.dynamic + khdr.surface < Word
  /\ At("patch") /\ left > 0 /\ ItemOk => Total(StringSizes) < Word

-----------------------------------------------------------------------------
(* The header of the kernel at hand was in the file, and its patch list    *)
(* fits in what is left of the file.                                       *)
Inside == {"name", "heaps", "list", "patch", "check"}
Header ==
  /\ hdr.kernels \in Nat /\ (pc = "program" => i = 0)
  /\ pc \in Inside =>
       khdr \in [checksum : Nat, nameSize : Nat, listSize : Nat, kernel : Nat,
                 general : Nat, dynamic : Nat, surface : Nat, unpadded : Nat]
  /\ pc \in Inside => i < hdr.kernels
  /\ pc = "patch" => khdr.listSize <= size /\ left <= khdr.listSize

(* Of most kinds of items a kernel has one.                                *)
NoneTwice ==
  \A j, k \in 1..Len(params) :
    params[j].token = params[k].token /\ params[j].token \in Once => j = k

(* At most one kernel is kept, which is the one that was asked for.        *)
Kept ==
  /\ kernel = <<>> \/ \E k : kernel = <<k>> /\ k.name = input.name
  /\ outcome = "ok" => size = 0 /\ pc = "end" /\ i = hdr.kernels /\ kernel # <<>>

IInv == input \in Inputs /\ TypeOK /\ PositionAgrees /\ Header /\ NoneTwice /\ Kept

(* An accepted file was read to its last byte and its last kernel, and has *)
(* one kernel of the name.                                                 *)
AcceptedIsWhole ==
  outcome = "ok" =>
    /\ bin = Len(file) /\ i = hdr.kernels
    /\ \E k : kernel = <<k>> /\ k.name = input.name

-----------------------------------------------------------------------------
(* What is read inside of the file is known.                               *)
LEMMA InFile ==
  ASSUME input \in Inputs
  PROVE  file \in Seq(Nat) /\ Len(file) \in Nat /\ \A j \in 1..Len(file) : file[j] \in Nat
<1>1. file \in Seq(Nat)
  BY BinaryAssumption DEF file
<1> QED
  BY <1>1

LEMMA WordKnown ==
  ASSUME input \in Inputs, NEW o \in Nat, o + 4 <= Len(file)
  PROVE  WordAt(o) \in Nat
BY InFile DEF WordAt

LEMMA BytesKnown ==
  ASSUME input \in Inputs, NEW o \in Nat, NEW n \in Nat, o + n <= Len(file)
  PROVE  Bytes(o, n) \in [1..n -> Nat] /\ Bytes(o, n) \in Seq(Nat) /\ Len(Bytes(o, n)) = n
<1>1. ASSUME NEW j \in 1..n
      PROVE  (IF o + j <= Len(file) THEN file[o + j] ELSE -2) \in Nat
  <2>1. o + j \in 1..Len(file) /\ o + j <= Len(file)
    BY InFile
  <2> QED
    BY <2>1, InFile
<1>2. Bytes(o, n) \in [1..n -> Nat]
  BY <1>1 DEF Bytes
<1>3. [1..n -> Nat] \subseteq Seq(Nat)
  BY SeqDef
<1> QED
  BY <1>2, <1>3, LenProperties

LEMMA WordsKnown ==
  ASSUME input \in Inputs, NEW o \in Nat, NEW n \in Nat, o + 4 * n <= Len(file)
  PROVE  Words(o, n) \in Seq(Nat) /\ Len(Words(o, n)) = n
<1>1. ASSUME NEW j \in 1..n PROVE WordAt(o + 4 * (j - 1)) \in Nat
  <2>1. o + 4 * (j - 1) \in Nat /\ o + 4 * (j - 1) + 4 <= Len(file)
    BY InFile
  <2> QED
    BY <2>1, WordKnown
<1>2. Words(o, n) \in [1..n -> Nat]
  BY <1>1 DEF Words
<1>3. [1..n -> Nat] \subseteq Seq(Nat)
  BY SeqDef
<1> QED
  BY <1>2, <1>3, LenProperties

LEMMA StringKnown ==
  ASSUME input \in Inputs, NEW o \in Nat, NEW n \in Nat, o + n <= Len(file)
  PROVE  StringAt(o, n) \in Seq(Nat)
<1> DEFINE b == Bytes(o, n)
           ends == {j \in 1..n : b[j] = 0}
           e == CHOOSE j \in ends : \A k \in ends : j <= k
<1>1. b \in [1..n -> Nat] /\ b \in Seq(Nat)
  BY BytesKnown
<1>2. CASE ends = {}
  BY <1>1, <1>2 DEF StringAt
<1>3. CASE ends # {}
  <2>1. \E j \in ends : \A k \in ends : j <= k
    <3>1. ends \subseteq Nat
      OBVIOUS
    <3> HIDE DEF ends
    <3>2. PICK j \in ends : \A k \in ends : <<k, j>> \notin OpToRel(<, Nat)
      BY <1>3, <3>1, NatLessThanWellFounded, WFMin, Zenon
    <3>3. ASSUME NEW k \in ends PROVE j <= k
      <4>1. k < j => <<k, j>> \in OpToRel(<, Nat)
        BY <3>1, Zenon DEF OpToRel
      <4>2. ~(k < j)
        BY <3>2, <4>1, Zenon
      <4> QED
        BY <3>1, <4>2
    <3> QED
      BY <3>3
  <2>2. e \in ends
    BY <2>1, Zenon
  <2>3. e \in 1..n
    BY <2>2
  <2>4. StringAt(o, n) = SubSeq(b, 1, e - 1)
    BY <1>3, Zenon DEF StringAt
  <2> HIDE DEF e
  <2>5. \A j \in 1..e - 1 : b[j] \in Nat
    BY <1>1, <2>3
  <2> HIDE DEF b
  <2>6. SubSeq(b, 1, e - 1) \in Seq(Nat)
    BY <2>3, <2>5, SubSeqProperties
  <2> QED
    BY <2>4, <2>6
<1> QED
  BY <1>2, <1>3

-----------------------------------------------------------------------------
(* The strings of an item end where the next begins.                       *)
LEMMA Totals ==
  ASSUME NEW s \in Seq(Nat), Len(s) <= 5
  PROVE  /\ Total(s) \in Nat
         /\ \A j \in 1..Len(s) :
              /\ Total(SubSeq(s, 1, j - 1)) \in Nat
              /\ Total(SubSeq(s, 1, j - 1)) + s[j] <= Total(s)
<1> DEFINE part(j) == IF j <= Len(s) THEN s[j] ELSE 0
<1>1. part(1) \in Nat /\ part(2) \in Nat /\ part(3) \in Nat /\ part(4) \in Nat /\ part(5) \in Nat
  BY SMTT(30)
<1>2. Total(s) = part(1) + part(2) + part(3) + part(4) + part(5)
  BY DEF Total
<1>3. ASSUME NEW j \in 1..Len(s)
      PROVE  /\ Total(SubSeq(s, 1, j - 1)) \in Nat
             /\ Total(SubSeq(s, 1, j - 1)) + s[j] <= Total(s)
  <2> DEFINE t == SubSeq(s, 1, j - 1)
  <2>1. \A m \in 1..j - 1 : s[m] \in Nat
    OBVIOUS
  <2>2. t \in Seq(Nat) /\ Len(t) = j - 1 /\ \A m \in 1..j - 1 : t[m] = s[m]
    BY <2>1, SubSeqProperties
  <2> HIDE DEF t
  <2>3. \A m \in 1..5 : (IF m <= Len(t) THEN t[m] ELSE 0) = IF m <= j - 1 THEN part(m) ELSE 0
    BY <2>2
  <2>4. Total(t) = (IF 1 <= j - 1 THEN part(1) ELSE 0) + (IF 2 <= j - 1 THEN part(2) ELSE 0)
                   + (IF 3 <= j - 1 THEN part(3) ELSE 0) + (IF 4 <= j - 1 THEN part(4) ELSE 0)
                   + (IF 5 <= j - 1 THEN part(5) ELSE 0)
    BY <2>3 DEF Total
  <2>5. s[j] = part(j) /\ j \in 1..5
    OBVIOUS
  <2>6. Total(t) \in Nat /\ Total(t) + part(j) <= Total(s)
    <3> DEFINE a == part(1)
               b == part(2)
               c == part(3)
               d == part(4)
               e == part(5)
               T == Total(t)
               S == Total(s)
    <3>0. a \in Nat /\ b \in Nat /\ c \in Nat /\ d \in Nat /\ e \in Nat /\ S = a + b + c + d + e
      BY <1>1, <1>2
    <3>1. /\ j = 1 => T = 0 + 0 + 0 + 0 + 0
          /\ j = 2 => T = a + 0 + 0 + 0 + 0
          /\ j = 3 => T = a + b + 0 + 0 + 0
          /\ j = 4 => T = a + b + c + 0 + 0
          /\ j = 5 => T = a + b + c + d + 0
      <4> HIDE DEF part, T
      <4> QED
        BY <2>4 DEF T
    <3>2. /\ j = 1 => part(j) = a
          /\ j = 2 => part(j) = b
          /\ j = 3 => part(j) = c
          /\ j = 4 => part(j) = d
          /\ j = 5 => part(j) = e
      <4> HIDE DEF part
      <4> QED
        OBVIOUS
    <3> DEFINE x == part(j)
    <3>3. /\ j = 1 => x = a
          /\ j = 2 => x = b
          /\ j = 3 => x = c
          /\ j = 4 => x = d
          /\ j = 5 => x = e
      BY <3>2
    <3> HIDE DEF a, b, c, d, e, x, T, S
    <3>4. T \in Nat /\ T + x <= S
      BY <2>5, <3>0, <3>1, <3>3, SMTT(30)
    <3> QED
      BY <3>4 DEF T, S, x
  <2> QED
    BY <2>5, <2>6 DEF t
<1>4. Total(s) \in Nat
  <2> HIDE DEF part
  <2> QED
    BY <1>1, <1>2
<1> QED
  BY <1>3, <1>4

-----------------------------------------------------------------------------
(* What an item that passes the checks has for sizes, by its kind, inside  *)
(* of the list, which is inside of the file.                               *)
Kinds ==
  \/ Token = AttributesInfo /\ FixedSize = 12 /\ StringSizes = <<WordAt(bin + 8)>>
  \/ Token = ArgumentInfo /\ FixedSize = 32 /\ StringSizes = Words(bin + 12, 5)
  \/ /\ Token \in 1..9 /\ FixedSize = 8 + 4 * FieldCount[Token] /\ FieldCount[Token] \in 1..33
     /\ StringSizes = <<>>

ItemShape ==
  /\ input \in Inputs /\ bin \in Nat /\ left \in Nat /\ Word \in Nat \ {0}
  /\ bin + left <= Len(file) /\ Len(file) \in Nat
  /\ left >= ItemSize /\ Token \in 1..ArgumentInfo /\ ItemSize >= FixedSize
  /\ Total(StringSizes) % Word = ItemSize - FixedSize /\ Total(StringSizes) < Word
  /\ ItemSize \in Nat /\ Kinds
  /\ FixedSize \in Nat /\ FixedSize >= 8 /\ bin + FixedSize <= Len(file)
  /\ StringSizes \in Seq(Nat) /\ Len(StringSizes) <= 5

LEMMA ItemShapes ==
  ASSUME IInv, SumsFit, At("patch"), left > 0, ItemOk
  PROVE  ItemShape
<1>1. /\ input \in Inputs /\ pc = "patch" /\ bin \in Nat /\ size \in Nat /\ left \in Nat
      /\ left <= size /\ bin + size = Len(file) + (khdr.listSize - left)
      /\ khdr.listSize <= size /\ khdr.listSize \in Nat /\ left <= khdr.listSize
      /\ left >= 8 /\ left >= ItemSize /\ Token \in 1..ArgumentInfo /\ ItemSize >= FixedSize
      /\ Total(StringSizes) % Word = ItemSize - FixedSize /\ Total(StringSizes) < Word
      /\ Word \in Nat \ {0}
  BY InFile, BinaryAssumption DEF IInv, SumsFit, At, ItemOk, TypeOK, PositionAgrees, Header, Inside
<1>2. bin + left <= Len(file) /\ Len(file) \in Nat
  BY <1>1, InFile
<1>3. bin + 4 \in Nat /\ bin + 4 + 4 <= Len(file)
  BY <1>1, <1>2
<1>4. ItemSize \in Nat
  BY <1>1, <1>3, WordKnown DEF ItemSize
<1>5. Kinds
  <2>1. CASE Token = AttributesInfo
    BY <2>1 DEF Kinds, FixedSize, StringSizes, AttributesInfo, ArgumentInfo
  <2>2. CASE Token = ArgumentInfo
    BY <2>2 DEF Kinds, FixedSize, StringSizes, AttributesInfo, ArgumentInfo
  <2>3. CASE Token \in 1..9
    <3>1. Token # AttributesInfo /\ Token # ArgumentInfo
      BY <2>3 DEF AttributesInfo, ArgumentInfo
    <3>2. FixedSize = 8 + 4 * FieldCount[Token] /\ StringSizes = <<>>
      BY <3>1 DEF FixedSize, StringSizes
    <3>3. \A t \in 1..9 : FieldCount[t] \in 1..33
      BY DEF FieldCount
    <3> QED
      BY <2>3, <3>2, <3>3 DEF Kinds
  <2> QED
    BY <1>1, <2>1, <2>2, <2>3 DEF AttributesInfo, ArgumentInfo
<1>6. FixedSize \in Nat /\ FixedSize >= 8 /\ bin + FixedSize <= Len(file)
  <2>1. FixedSize \in Nat /\ FixedSize >= 8
    <3> DEFINE c == FieldCount[Token]
    <3> HIDE DEF c
    <3>1. FixedSize = 12 \/ FixedSize = 32 \/ (FixedSize = 8 + 4 * c /\ c \in 1..33)
      BY <1>5 DEF c, Kinds
    <3> QED
      BY <3>1
  <2> QED
    BY <1>1, <1>2, <1>4, <2>1
<1>7. StringSizes \in Seq(Nat) /\ Len(StringSizes) <= 5
  <2>1. CASE FixedSize = 12 /\ StringSizes = <<WordAt(bin + 8)>>
    <3>1. WordAt(bin + 8) \in Nat
      BY <1>1, <1>6, <2>1, WordKnown
    <3>2. StringSizes \in Seq(Nat) /\ Len(StringSizes) = 1
      BY <2>1, <3>1
    <3> QED
      BY <3>2
  <2>2. CASE FixedSize = 32 /\ StringSizes = Words(bin + 12, 5)
    <3>1. bin + 12 \in Nat /\ bin + 12 + 4 * 5 <= Len(file)
      BY <1>1, <1>6, <2>2
    <3>2. Words(bin + 12, 5) \in Seq(Nat) /\ Len(Words(bin + 12, 5)) = 5
      BY <1>1, <3>1, WordsKnown
    <3>3. StringSizes \in Seq(Nat) /\ Len(StringSizes) = 5
      BY <2>2, <3>2, Zenon
    <3> QED
      BY <3>3
  <2>3. CASE StringSizes = <<>>
    BY <2>3
  <2> QED
    BY <1>5, <2>1, <2>2, <2>3 DEF Kinds
<1> QED
  BY <1>1, <1>2, <1>4, <1>5, <1>6, <1>7, Zenon DEF ItemShape

(* And it is an item, whose sizes agree.                                   *)
LEMMA ItemFacts ==
  ASSUME IInv, SumsFit, At("patch"), left > 0, ItemOk
  PROVE  /\ ItemSize \in 1..left /\ FixedSize + Total(StringSizes) = ItemSize
         /\ FixedSize \in Nat /\ Total(StringSizes) \in Nat
         /\ Item \in Items /\ Item.token = Token
<1>1. /\ input \in Inputs /\ bin \in Nat /\ left \in Nat /\ Word \in Nat \ {0}
      /\ bin + left <= Len(file) /\ Len(file) \in Nat
      /\ left >= ItemSize /\ Token \in 1..ArgumentInfo /\ ItemSize >= FixedSize
      /\ Total(StringSizes) % Word = ItemSize - FixedSize /\ Total(StringSizes) < Word
  BY ItemShapes, Zenon DEF ItemShape
<1>2. bin + left <= Len(file) /\ Len(file) \in Nat
  BY <1>1
<1>4. ItemSize \in Nat
  BY ItemShapes, Zenon DEF ItemShape
<1>5. \/ Token = AttributesInfo /\ FixedSize = 12 /\ StringSizes = <<WordAt(bin + 8)>>
      \/ Token = ArgumentInfo /\ FixedSize = 32 /\ StringSizes = Words(bin + 12, 5)
      \/ /\ Token \in 1..9 /\ FixedSize = 8 + 4 * FieldCount[Token] /\ FieldCount[Token] \in 1..33
         /\ StringSizes = <<>>
  BY ItemShapes, Zenon DEF ItemShape, Kinds
<1>6. FixedSize \in Nat /\ FixedSize >= 8 /\ bin + FixedSize <= Len(file)
  BY ItemShapes, Zenon DEF ItemShape
<1>7. StringSizes \in Seq(Nat) /\ Len(StringSizes) <= 5
  BY ItemShapes, Zenon DEF ItemShape
<1>8. Total(StringSizes) \in Nat
  BY <1>7, Totals
<1>9. FixedSize + Total(StringSizes) = ItemSize
  <2> DEFINE a == Total(StringSizes)
  <2> HIDE DEF a
  <2>1. a \in Nat /\ a < Word /\ a % Word = ItemSize - FixedSize
    BY <1>1, <1>8 DEF a
  <2>2. a % Word = a
    BY <1>1, <2>1, SMTT(30)
  <2>3. a = ItemSize - FixedSize
    BY <2>1, <2>2
  <2>4. FixedSize + a = ItemSize
    BY <1>4, <1>6, <2>1, <2>3
  <2> QED
    BY <2>4 DEF a
<1>10. ASSUME NEW j \in 1..Len(StringSizes)
       PROVE  StringAt(bin + FixedSize + Total(SubSeq(StringSizes, 1, j - 1)), StringSizes[j]) \in Seq(Nat)
  <2> DEFINE a == Total(SubSeq(StringSizes, 1, j - 1))
             l == StringSizes[j]
  <2>1. a \in Nat /\ l \in Nat /\ a + l <= Total(StringSizes)
    BY <1>7, Totals
  <2> HIDE DEF a, l
  <2>2. bin + FixedSize + a \in Nat /\ bin + FixedSize + a + l <= Len(file)
    BY <1>1, <1>2, <1>4, <1>6, <1>8, <1>9, <2>1, SMTT(30)
  <2>3. StringAt(bin + FixedSize + a, l) \in Seq(Nat)
    BY <1>1, <2>1, <2>2, StringKnown
  <2> QED
    BY <2>3 DEF a, l
<1>11. Item.strings \in Seq(Seq(Nat))
  <2> DEFINE L == Len(StringSizes)
  <2>1. L \in Nat
    BY <1>7
  <2>2. Item.strings = [j \in 1..L |->
          StringAt(bin + FixedSize + Total(SubSeq(StringSizes, 1, j - 1)), StringSizes[j])]
    BY DEF Item
  <2>3. Item.strings \in [1..L -> Seq(Nat)]
    BY <1>10, <2>2
  <2> HIDE DEF L
  <2>4. [1..L -> Seq(Nat)] \subseteq Seq(Seq(Nat))
    BY <2>1, SeqDef
  <2> QED
    BY <2>3, <2>4
<1>12. Item.fields \in Seq(Nat)
  <2>1. CASE Token = AttributesInfo
    <3>1. Item.fields = <<>>
      BY <2>1 DEF Item, AttributesInfo, ArgumentInfo
    <3> QED
      BY <3>1
  <2>2. CASE Token = ArgumentInfo /\ FixedSize = 32
    <3>1. bin + 8 \in Nat /\ bin + 8 + 4 * 1 <= Len(file)
      BY <1>1, <1>6, <2>2
    <3>2. Item.fields = Words(bin + 8, 1)
      BY <2>2 DEF Item, AttributesInfo, ArgumentInfo
    <3> QED
      BY <1>1, <3>1, <3>2, WordsKnown
  <2>3. CASE Token \in 1..9 /\ FixedSize = 8 + 4 * FieldCount[Token] /\ FieldCount[Token] \in 1..33
    <3> DEFINE c == FieldCount[Token]
    <3> HIDE DEF c
    <3>1. bin + 8 \in Nat /\ bin + 8 + 4 * c <= Len(file) /\ c \in Nat
      <4>1. FixedSize = 8 + 4 * c /\ c \in 1..33
        BY <2>3 DEF c
      <4> QED
        BY <1>1, <1>2, <1>6, <4>1
    <3>2. Item.fields = Words(bin + 8, c)
      <4>1. Token # AttributesInfo /\ Token # ArgumentInfo
        BY <2>3 DEF AttributesInfo, ArgumentInfo
      <4> QED
        BY <4>1 DEF Item, c
    <3> QED
      BY <1>1, <3>1, <3>2, WordsKnown
  <2> QED
    BY <1>5, <2>1, <2>2, <2>3
<1>13. Item.token = Token
  BY DEF Item
<1>14. Item \in Items
  <2>1. Item = [token |-> Item.token, fields |-> Item.fields, strings |-> Item.strings]
    BY DEF Item
  <2> QED
    BY <1>1, <1>11, <1>12, <1>13, <2>1 DEF Items
<1> QED
  BY <1>1, <1>4, <1>6, <1>8, <1>9, <1>13, <1>14

-----------------------------------------------------------------------------
LEMMA InitIInv == ASSUME Init PROVE IInv
<1>1. input \in Inputs /\ bin = 0 /\ size = Len(file) /\ Len(file) \in Nat
  BY InFile DEF Init
<1>2. TypeOK
  BY <1>1 DEF Init, TypeOK
<1>3. PositionAgrees /\ Header /\ NoneTwice /\ Kept
  BY <1>1 DEF Init, PositionAgrees, Header, NoneTwice, Kept, Inside
<1> QED
  BY <1>1, <1>2, <1>3 DEF IInv

(* A step that gives the file up.                                          *)
LEMMA StopStep ==
  ASSUME IInv, outcome' \in {"invalid", "memory"},
         UNCHANGED <<input, pc, bin, size, hdr, i, parts, kernel>>
  PROVE  IInv'
<1>1. /\ input' = input /\ pc' = pc /\ bin' = bin /\ size' = size /\ hdr' = hdr /\ i' = i
      /\ khdr' = khdr /\ name' = name /\ heaps' = heaps /\ params' = params /\ left' = left
      /\ kernel' = kernel
  BY DEF parts
<1>2. TypeOK' /\ PositionAgrees'
  BY <1>1 DEF IInv, TypeOK, PositionAgrees, file
<1>3. Header' /\ NoneTwice' /\ Kept'
  BY <1>1 DEF IInv, Header, NoneTwice, Kept
<1> QED
  BY <1>1, <1>2, <1>3 DEF IInv

LEMMA ProgramHeaderStep == ASSUME IInv, ReadProgramHeader PROVE IInv'
<1>1. /\ input' = input /\ pc = "program" /\ pc' = "kernel" /\ outcome = "none" /\ outcome' = outcome
      /\ bin' = bin + 28 /\ size' = size - 28 /\ size >= 28
      /\ hdr' = [device |-> WordAt(bin + 8), kernels |-> WordAt(bin + 16)]
      /\ i' = i /\ name' = name /\ params' = params /\ left' = left
      /\ kernel' = kernel
  BY DEF ReadProgramHeader, ProgramHeaderOk, At, Consume, parts
<1>2. /\ input \in Inputs /\ bin \in Nat /\ size \in 0..Len(file) /\ Len(file) \in Nat
      /\ bin + size = Len(file) /\ left = 0 /\ i = 0
  BY <1>1, InFile DEF IInv, TypeOK, PositionAgrees, Header
<1>3. bin + 16 \in Nat /\ bin + 16 + 4 <= Len(file)
  BY <1>1, <1>2
<1>4. hdr'.kernels \in Nat
  BY <1>1, <1>2, <1>3, WordKnown
<1>5. TypeOK'
  BY <1>1, <1>2, <1>4 DEF IInv, TypeOK, file
<1>6. PositionAgrees' /\ Header' /\ NoneTwice' /\ Kept'
  BY <1>1, <1>2, <1>4 DEF IInv, PositionAgrees, Header, Inside, NoneTwice, Kept, file
<1> QED
  BY <1>1, <1>2, <1>5, <1>6 DEF IInv

LEMMA KernelHeaderStep == ASSUME IInv, ReadKernelHeader PROVE IInv'
<1>1. /\ input' = input /\ pc = "kernel" /\ pc' = "name" /\ outcome = "none" /\ outcome' = outcome
      /\ i < hdr.kernels
      /\ bin' = bin + 40 /\ size' = size - 40 /\ size >= 40
      /\ khdr' = [checksum |-> WordAt(bin), nameSize |-> WordAt(bin + 12),
                  listSize |-> WordAt(bin + 16), kernel |-> WordAt(bin + 20),
                  general |-> WordAt(bin + 24), dynamic |-> WordAt(bin + 28),
                  surface |-> WordAt(bin + 32), unpadded |-> WordAt(bin + 36)]
      /\ hdr' = hdr /\ i' = i /\ name' = name /\ params' = params /\ left' = left
      /\ kernel' = kernel
  BY DEF ReadKernelHeader, KernelHeaderOk, At, Consume
<1>2. /\ input \in Inputs /\ bin \in Nat /\ size \in 0..Len(file) /\ Len(file) \in Nat
      /\ bin + size = Len(file) /\ left = 0
  BY <1>1, InFile DEF IInv, TypeOK, PositionAgrees
<1>3. ASSUME NEW d \in {0, 12, 16, 20, 24, 28, 32, 36} PROVE WordAt(bin + d) \in Nat
  <2>1. bin + d \in Nat /\ bin + d + 4 <= Len(file)
    BY <1>1, <1>2
  <2> QED
    BY <1>2, <2>1, WordKnown
<1>4. /\ WordAt(bin) \in Nat /\ WordAt(bin + 12) \in Nat /\ WordAt(bin + 16) \in Nat
      /\ WordAt(bin + 20) \in Nat /\ WordAt(bin + 24) \in Nat /\ WordAt(bin + 28) \in Nat
      /\ WordAt(bin + 32) \in Nat /\ WordAt(bin + 36) \in Nat
  <2>1. bin + 4 <= Len(file)
    BY <1>1, <1>2
  <2> QED
    BY <1>2, <1>3, <2>1, WordKnown
<1>5. khdr' \in [checksum : Nat, nameSize : Nat, listSize : Nat, kernel : Nat,
                 general : Nat, dynamic : Nat, surface : Nat, unpadded : Nat]
  BY <1>1, <1>4
<1>6. bin' \in Nat /\ size' \in 0..Len(file) /\ bin' + size' = Len(file) /\ file' = file
  <2> DEFINE L == Len(file)
  <2>1. /\ bin' = bin + 40 /\ size' = size - 40 /\ size >= 40
        /\ bin \in Nat /\ size \in 0..L /\ L \in Nat /\ bin + size = L
    BY <1>1, <1>2
  <2> HIDE DEF L
  <2>2. bin' \in Nat /\ size' \in 0..L /\ bin' + size' = L
    BY <2>1
  <2> QED
    BY <1>1, <2>2 DEF L, file
<1>7. TypeOK' /\ PositionAgrees'
  <2>1. TypeOK'
    BY <1>1, <1>2, <1>6 DEF IInv, TypeOK
  <2>2. PositionAgrees'
    BY <1>1, <1>6 DEF PositionAgrees
  <2> QED
    BY <2>1, <2>2
<1>8. Header'
  <2>1. hdr.kernels \in Nat
    BY DEF IInv, Header
  <2> QED
    BY <1>1, <1>5, <2>1 DEF Header, Inside
<1>9. NoneTwice' /\ Kept'
  BY <1>1 DEF IInv, NoneTwice, Kept
<1> QED
  BY <1>1, <1>2, <1>7, <1>8, <1>9 DEF IInv

LEMMA NameStep == ASSUME IInv, ReadName PROVE IInv'
<1>1. /\ input' = input /\ pc = "name" /\ pc' = "heaps" /\ outcome = "none" /\ outcome' = outcome
      /\ bin' = bin + khdr.nameSize /\ size' = size - khdr.nameSize /\ size >= khdr.nameSize
      /\ name' = StringAt(bin, khdr.nameSize)
      /\ khdr' = khdr /\ hdr' = hdr /\ i' = i /\ params' = params /\ left' = left
      /\ kernel' = kernel
  BY DEF ReadName, At, Consume
<1>2. /\ input \in Inputs /\ bin \in Nat /\ size \in 0..Len(file) /\ Len(file) \in Nat
      /\ bin + size = Len(file) /\ left = 0 /\ khdr.nameSize \in Nat
  BY <1>1, InFile DEF IInv, TypeOK, PositionAgrees, Header, Inside
<1>3. name' \in Seq(Nat)
  BY <1>1, <1>2, StringKnown
<1>4. bin' \in Nat /\ size' \in 0..Len(file) /\ bin' + size' = Len(file) /\ file' = file
  <2> DEFINE L == Len(file)
             m == khdr.nameSize
  <2>1. /\ bin' = bin + m /\ size' = size - m /\ size >= m /\ m \in Nat
        /\ bin \in Nat /\ size \in 0..L /\ L \in Nat /\ bin + size = L
    BY <1>1, <1>2
  <2> HIDE DEF L, m
  <2>2. bin' \in Nat /\ size' \in 0..L /\ bin' + size' = L
    BY <2>1
  <2> QED
    BY <1>1, <2>2 DEF L, file
<1>5. TypeOK' /\ PositionAgrees'
  <2>1. TypeOK'
    BY <1>1, <1>2, <1>3, <1>4 DEF IInv, TypeOK
  <2>2. PositionAgrees'
    BY <1>1, <1>4 DEF PositionAgrees
  <2> QED
    BY <2>1, <2>2
<1>6. Header'
  BY <1>1, <1>2 DEF IInv, Header, Inside
<1>7. NoneTwice' /\ Kept'
  BY <1>1 DEF IInv, NoneTwice, Kept
<1> QED
  BY <1>1, <1>2, <1>5, <1>6, <1>7 DEF IInv

LEMMA HeapsStep == ASSUME IInv, SumsFit, ReadHeaps PROVE IInv'
<1>1. /\ input' = input /\ pc = "heaps" /\ pc' = "list" /\ outcome = "none" /\ outcome' = outcome
      /\ bin' = bin + khdr.kernel + khdr.dynamic + khdr.surface
      /\ size' = size - HeapsSize /\ size >= HeapsSize /\ khdr.general = 0
      /\ heaps' = [kernel |-> Bytes(bin, khdr.kernel), unpadded |-> khdr.unpadded,
                   dynamic |-> Bytes(bin + khdr.kernel, khdr.dynamic),
                   surface |-> Bytes(bin + khdr.kernel + khdr.dynamic, khdr.surface)]
      /\ khdr' = khdr /\ hdr' = hdr /\ i' = i /\ name' = name /\ params' = params /\ left' = left
      /\ kernel' = kernel /\ khdr.kernel + khdr.general + khdr.dynamic + khdr.surface < Word
  BY DEF ReadHeaps, HeapsOk, At, SumsFit
<1>2. /\ input \in Inputs /\ bin \in Nat /\ size \in 0..Len(file) /\ Len(file) \in Nat
      /\ bin + size = Len(file) /\ left = 0
      /\ khdr.kernel \in Nat /\ khdr.dynamic \in Nat /\ khdr.surface \in Nat /\ khdr.unpadded \in Nat
  BY <1>1, InFile DEF IInv, TypeOK, PositionAgrees, Header, Inside
<1>3. HeapsSize = khdr.kernel + khdr.dynamic + khdr.surface
  <2> DEFINE a == khdr.kernel + khdr.general + khdr.dynamic + khdr.surface
  <2>1. a = khdr.kernel + khdr.dynamic + khdr.surface /\ a \in Nat /\ a < Word
    <3> DEFINE k == khdr.kernel
               g == khdr.general
               d == khdr.dynamic
               f == khdr.surface
    <3>1. k \in Nat /\ g = 0 /\ d \in Nat /\ f \in Nat /\ k + g + d + f < Word
      BY <1>1, <1>2
    <3> HIDE DEF k, g, d, f
    <3>2. k + g + d + f = k + d + f /\ k + d + f \in Nat
      BY <3>1
    <3> QED
      BY <3>1, <3>2 DEF k, g, d, f
  <2>2. HeapsSize = a % Word
    BY DEF HeapsSize
  <2> HIDE DEF a
  <2>3. a % Word = a
    BY <2>1, BinaryAssumption, SMTT(60)
  <2> QED
    BY <2>1, <2>2, <2>3
<1>4. /\ bin + khdr.kernel <= Len(file) /\ bin + khdr.kernel + khdr.dynamic <= Len(file)
      /\ bin + khdr.kernel + khdr.dynamic + khdr.surface <= Len(file)
      /\ size' \in 0..Len(file) /\ bin' + size' = Len(file) /\ bin' \in Nat
  <2> DEFINE L == Len(file)
             a == khdr.kernel
             b == khdr.dynamic
             c == khdr.surface
  <2>1. /\ size' = size - (a + b + c) /\ size >= a + b + c /\ bin' = bin + a + b + c
        /\ bin \in Nat /\ size \in 0..L /\ L \in Nat /\ bin + size = L
        /\ a \in Nat /\ b \in Nat /\ c \in Nat
    BY <1>1, <1>2, <1>3
  <2> HIDE DEF L, a, b, c
  <2>2. bin + a <= L /\ bin + a + b <= L /\ bin + a + b + c <= L /\ size' \in 0..L /\ bin' + size' = L /\ bin' \in Nat
    BY <2>1
  <2> QED
    BY <2>2 DEF L, a, b, c
<1>5. heaps' \in Heaps
  <2>1. Bytes(bin, khdr.kernel) \in Seq(Nat)
    BY <1>2, <1>4, BytesKnown
  <2>2. Bytes(bin + khdr.kernel, khdr.dynamic) \in Seq(Nat)
    <3>1. bin + khdr.kernel \in Nat
      BY <1>2
    <3> QED
      BY <1>2, <1>4, <3>1, BytesKnown
  <2>3. Bytes(bin + khdr.kernel + khdr.dynamic, khdr.surface) \in Seq(Nat)
    <3>1. bin + khdr.kernel + khdr.dynamic \in Nat
      BY <1>2
    <3> QED
      BY <1>2, <1>4, <3>1, BytesKnown
  <2> QED
    BY <1>1, <1>2, <2>1, <2>2, <2>3 DEF Heaps
<1>6. TypeOK'
  BY <1>1, <1>2, <1>4, <1>5 DEF IInv, TypeOK, file
<1>7. PositionAgrees'
  BY <1>1, <1>4 DEF PositionAgrees, file
<1>8. Header'
  BY <1>1 DEF IInv, Header, Inside
<1>9. NoneTwice' /\ Kept'
  BY <1>1 DEF IInv, NoneTwice, Kept
<1> QED
  BY <1>1, <1>2, <1>6, <1>7, <1>8, <1>9 DEF IInv

-----------------------------------------------------------------------------
LEMMA PatchListStep == ASSUME IInv, StartPatchList \/ EndPatchList PROVE IInv'
<1>1. /\ input' = input /\ outcome = "none" /\ outcome' = outcome /\ bin' = bin
      /\ khdr' = khdr /\ hdr' = hdr /\ i' = i /\ name' = name /\ heaps' = heaps
      /\ kernel' = kernel
  BY DEF StartPatchList, EndPatchList, At, parts
<1>2. \/ /\ pc = "list" /\ pc' = "patch" /\ size >= khdr.listSize /\ size' = size
         /\ left' = khdr.listSize /\ params' = <<>>
      \/ /\ pc = "patch" /\ pc' = "check" /\ left = 0 /\ left' = left
         /\ size' = size - khdr.listSize /\ params' = params
  BY DEF StartPatchList, EndPatchList, At, parts
<1>3. /\ input \in Inputs /\ bin \in Nat /\ size \in 0..Len(file) /\ Len(file) \in Nat
      /\ khdr.listSize \in Nat /\ params \in Seq(Items) /\ heaps \in Heaps
      /\ pc = "patch" => khdr.listSize <= size
      /\ bin + size = Len(file) + (IF pc = "patch" THEN khdr.listSize - left ELSE 0)
  BY <1>2, InFile DEF IInv, TypeOK, PositionAgrees, Header, Inside
<1>4. params' \in Seq(Items)
  <2>1. CASE params' = params
    BY <1>3, <2>1
  <2>2. CASE params' = <<>>
    BY <2>2
  <2> QED
    BY <1>2, <2>1, <2>2
<1>5. TypeOK'
  <2> DEFINE l == khdr.listSize
  <2>1. /\ l \in Nat /\ bin' = bin /\ bin \in Nat /\ size \in 0..Len(file) /\ file' = file
        /\ \/ pc = "list" /\ pc' = "patch" /\ left' = l /\ size' = size /\ l <= size
           \/ pc = "patch" /\ pc' = "check" /\ left = 0 /\ left' = left /\ size' = size - l /\ l <= size
    BY <1>1, <1>2, <1>3 DEF file
  <2> HIDE DEF l
  <2>2. size' \in 0..Len(file) /\ left' \in 0..(IF pc' = "patch" THEN size' ELSE 0)
    BY <1>3, <2>1
  <2> QED
    BY <1>1, <1>2, <1>3, <1>4, <2>1, <2>2 DEF IInv, TypeOK
<1>6. NoneTwice'
  BY <1>2 DEF IInv, NoneTwice
<1>7. PositionAgrees'
  <2> DEFINE L == Len(file)
             l == khdr.listSize
  <2>1. /\ L \in Nat /\ l \in Nat /\ bin \in Nat /\ size \in Nat 
        /\ bin + size = L + (IF pc = "patch" THEN l - left ELSE 0)
        /\ \/ pc = "list" /\ pc' = "patch" /\ left' = l /\ size' = size
           \/ pc = "patch" /\ pc' = "check" /\ left = 0 /\ size' = size - l
    BY <1>2, <1>3
  <2> HIDE DEF L, l
  <2>2. bin' + size' = L + (IF pc' = "patch" THEN l - left' ELSE 0)
    BY <1>1, <2>1
  <2> QED
    BY <1>1, <2>2 DEF PositionAgrees, file, L, l
<1>8. Header'
  BY <1>1, <1>2, <1>3 DEF IInv, Header, Inside
<1>9. Kept'
  BY <1>1, <1>2 DEF IInv, Kept
<1> QED
  BY <1>1, <1>3, <1>5, <1>6, <1>7, <1>8, <1>9 DEF IInv

LEMMA ItemStep == ASSUME IInv, SumsFit, ReadItem PROVE IInv'
<1>1. /\ input' = input /\ outcome = "none" /\ outcome' = outcome /\ pc = "patch" /\ pc' = pc
      /\ khdr' = khdr /\ hdr' = hdr /\ i' = i /\ name' = name /\ heaps' = heaps
      /\ kernel' = kernel /\ size' = size /\ left' = left - ItemSize
      /\ bin' = bin + FixedSize + Total(StringSizes) /\ params' = Append(params, Item)
      /\ Token \in Once => ~Present(Token)
  BY DEF ReadItem, ItemOk, At
<1>2. /\ ItemSize \in 1..left /\ FixedSize + Total(StringSizes) = ItemSize
      /\ FixedSize \in Nat /\ Total(StringSizes) \in Nat
      /\ Item \in Items /\ Item.token = Token
  BY ItemFacts DEF ReadItem
<1>3. /\ input \in Inputs /\ bin \in Nat /\ size \in 0..Len(file) /\ Len(file) \in Nat
      /\ khdr.listSize \in Nat /\ params \in Seq(Items) /\ left \in 0..size
      /\ khdr.listSize <= size /\ left <= khdr.listSize
      /\ bin + size = Len(file) + (khdr.listSize - left)
  BY <1>1, InFile DEF IInv, TypeOK, PositionAgrees, Header, Inside
<1>4. bin' = bin + ItemSize
  BY <1>1, <1>2, <1>3, SMTT(30)
<1>5. params' \in Seq(Items)
  BY <1>1, <1>2, <1>3
<1>6. TypeOK'
  <2> DEFINE z == ItemSize
  <2>1. z \in Nat /\ left - z \in 0..size
    <3>1. z \in 1..left /\ left \in 0..size /\ size \in Nat
      BY <1>2, <1>3
    <3> HIDE DEF z
    <3> QED
      BY <3>1
  <2>2. bin' \in Nat /\ left' \in 0..size /\ file' = file /\ pc' = "patch"
    <3>1. bin' = bin + z /\ left' = left - z /\ bin \in Nat
      BY <1>1, <1>3, <1>4
    <3> HIDE DEF z
    <3> QED
      BY <1>1, <2>1, <3>1 DEF file
  <2> QED
    BY <1>1, <1>5, <2>2 DEF IInv, TypeOK
<1>7. NoneTwice'
  <2> DEFINE L == Len(params)
  <2>1. /\ L \in Nat /\ Len(params') = L + 1 /\ params'[L + 1] = Item
        /\ \A j \in 1..L : params'[j] = params[j]
    <3> DEFINE e == Item
    <3> HIDE DEF e
    <3>1. params \in Seq(Items) /\ e \in Items /\ params' = Append(params, e)
      BY <1>1, <1>2, <1>3 DEF e
    <3>2. /\ Len(params') = Len(params) + 1 /\ params'[Len(params) + 1] = e
          /\ \A j \in 1..Len(params) : params'[j] = params[j]
      BY <3>1, AppendProperties
    <3> QED
      BY <3>1, <3>2 DEF e
  <2>2. \A j \in 1..L : params[j].token = Token => Token \notin Once
    BY <1>1 DEF Present
  <2>3. \A j, k \in 1..L :
          params[j].token = params[k].token /\ params[j].token \in Once => j = k
    BY DEF IInv, NoneTwice
  <2> HIDE DEF L
  <2>4. \A j, k \in 1..L + 1 :
          params'[j].token = params'[k].token /\ params'[j].token \in Once => j = k
    BY <1>2, <2>1, <2>2, <2>3
  <2> QED
    BY <2>1, <2>4 DEF NoneTwice
<1>8. PositionAgrees' /\ left' <= khdr.listSize
  <2> DEFINE L == Len(file)
             l == khdr.listSize
             e == ItemSize
  <2>1. /\ L \in Nat /\ l \in Nat /\ bin \in Nat /\ size \in Nat /\ left \in 0..size /\ left <= l
        /\ bin + size = L + (l - left)
    BY <1>3
  <2>2. e \in 1..left /\ bin' = bin + e /\ size' = size /\ left' = left - e
    BY <1>1, <1>2, <1>4
  <2> HIDE DEF L, l, e
  <2>3. bin' + size' = L + (l - left') /\ left' <= l
    BY <2>1, <2>2
  <2> QED
    BY <1>1, <2>3 DEF PositionAgrees, file, L, l
<1>9. Header'
  BY <1>1, <1>3, <1>8 DEF IInv, Header, Inside
<1>10. Kept'
  BY <1>1 DEF IInv, Kept
<1> QED
  BY <1>1, <1>3, <1>6, <1>7, <1>8, <1>9, <1>10 DEF IInv

-----------------------------------------------------------------------------
LEMMA CheckStep == ASSUME IInv, CheckKernel PROVE IInv'
<1>1. /\ input' = input /\ pc = "check" /\ pc' = "kernel" /\ outcome = "none" /\ outcome' = outcome
      /\ bin' = bin /\ size' = size /\ hdr' = hdr /\ i' = i + 1
      /\ khdr' = khdr /\ name' = name /\ params' = params /\ left' = left
      /\ \/ kernel' = kernel
         \/ name = input.name /\ kernel' = <<[name |-> name, params |-> params, heaps |-> heaps]>>
  BY DEF CheckKernel, At, parts
<1>2. i \in Nat /\ hdr.kernels \in Nat /\ i < hdr.kernels
  BY <1>1 DEF IInv, TypeOK, Header, Inside
<1>3. TypeOK' /\ PositionAgrees'
  BY <1>1, <1>2 DEF IInv, TypeOK, PositionAgrees, file
<1>4. Header' /\ NoneTwice'
  BY <1>1 DEF IInv, Header, Inside, NoneTwice
<1>5. Kept'
  BY <1>1 DEF IInv, Kept
<1> QED
  BY <1>1, <1>3, <1>4, <1>5 DEF IInv

LEMMA FinishStep == ASSUME IInv, Finish PROVE IInv'
<1>1. /\ input' = input /\ pc = "kernel" /\ pc' = "end" /\ i = hdr.kernels
      /\ outcome' = IF size = 0 /\ kernel # <<>> THEN "ok" ELSE "invalid"
      /\ bin' = bin /\ size' = size /\ hdr' = hdr /\ i' = i
      /\ khdr' = khdr /\ name' = name /\ params' = params /\ left' = left
      /\ kernel' = kernel
  BY DEF Finish, At, parts
<1>2. TypeOK' /\ PositionAgrees'
  BY <1>1 DEF IInv, TypeOK, PositionAgrees, file
<1>3. Header' /\ NoneTwice' /\ Kept'
  BY <1>1 DEF IInv, Header, Inside, NoneTwice, Kept
<1> QED
  BY <1>1, <1>2, <1>3 DEF IInv

LEMMA NextIInv == ASSUME IInv, SumsFit, [Next]_vars PROVE IInv'
<1>1. CASE \/ ProgramHeaderFails \/ KernelHeaderFails \/ NameFails \/ HeapsFail \/ HeapsNoMemory
           \/ PatchListFails \/ ItemFails \/ CheckFails
  BY <1>1, StopStep DEF ProgramHeaderFails, KernelHeaderFails, NameFails, HeapsFail,
     HeapsNoMemory, PatchListFails, ItemFails, CheckFails, Throw
<1>2. CASE ReadProgramHeader \/ ReadKernelHeader \/ ReadName \/ ReadHeaps
  BY <1>2, ProgramHeaderStep, KernelHeaderStep, NameStep, HeapsStep
<1>3. CASE StartPatchList \/ EndPatchList \/ ReadItem
  BY <1>3, PatchListStep, ItemStep
<1>4. CASE CheckKernel \/ Finish
  BY <1>4, CheckStep, FinishStep
<1>5. CASE UNCHANGED vars
  BY <1>5 DEF IInv, TypeOK, PositionAgrees, Header, NoneTwice, Kept, file, vars, parts
<1> QED
  BY <1>1, <1>2, <1>3, <1>4, <1>5 DEF Next

LEMMA Invariance == Spec /\ []SumsFit => []IInv
BY InitIInv, NextIInv, PTL DEF Spec

(* Every name, field, string and heap the reader keeps is made of bytes of *)
(* the file, for every file in which no sum of sizes wraps.  (The checks   *)
(* of igc_progbin.cc and read_kernel.)                                     *)
THEOREM TypeCorrect == Spec /\ []SumsFit => []TypeOK
<1>1. IInv => TypeOK
  BY DEF IInv
<1> QED
  BY Invariance, <1>1, PTL

(* The position and the bytes left agree, and inside of a patch list with  *)
(* the countdown of the list.  (read_kernel and read_kernel_patchlist.)    *)
THEOREM PositionIsKept == Spec /\ []SumsFit => []PositionAgrees
<1>1. IInv => PositionAgrees
  BY DEF IInv
<1> QED
  BY Invariance, <1>1, PTL

(* A file is accepted only when it was read to its end and had exactly one *)
(* kernel of the name.  (read_kernel, from the loop to its return.)        *)
THEOREM AcceptedAreWhole == Spec /\ []SumsFit => []AcceptedIsWhole
<1>1. ASSUME IInv PROVE AcceptedIsWhole
  BY <1>1, InFile DEF IInv, Kept, PositionAgrees, AcceptedIsWhole, TypeOK
<1> QED
  BY Invariance, <1>1, PTL

-----------------------------------------------------------------------------
(* A file as the compiler writes it.  What is read is what was written.    *)
LEMMA WordIs ==
  ASSUME NEW o, NEW w, Has(file, o, w)
  PROVE  WordAt(o) = w /\ o + 4 <= Len(file)
BY Zenon DEF Has, WordAt

LEMMA BytesAre ==
  ASSUME input \in Inputs, NEW o \in Nat, NEW s \in Seq(Nat), HasBytes(file, o, s)
  PROVE  Bytes(o, Len(s)) = s /\ o + Len(s) <= Len(file)
<1>1. o + Len(s) <= Len(file) /\ Len(file) \in Nat /\ \A j \in 1..Len(s) : file[o + j] = s[j]
  BY InFile DEF HasBytes
<1>2. PICK n \in Nat : n = Len(s)
  OBVIOUS
<1>3. /\ Bytes(o, n) \in Seq(Nat) /\ Len(Bytes(o, n)) = n
  BY <1>1, <1>2, BytesKnown
<1>4. ASSUME NEW j \in 1..n PROVE Bytes(o, n)[j] = s[j]
  <2>1. o + j <= Len(file)
    BY <1>1, <1>2
  <2> QED
    BY <1>1, <1>2, <2>1 DEF Bytes
<1>5. Bytes(o, n) = s
  BY <1>2, <1>3, <1>4, SeqEqual
<1> QED
  BY <1>1, <1>2, <1>5

LEMMA WordsAre ==
  ASSUME input \in Inputs, NEW o \in Nat, NEW s \in Seq(Nat), o + 4 * Len(s) <= Len(file),
         \A j \in 1..Len(s) : Has(file, o + 4 * (j - 1), s[j])
  PROVE  Words(o, Len(s)) = s
<1>1. PICK n \in Nat : n = Len(s)
  OBVIOUS
<1>2. Words(o, n) \in Seq(Nat) /\ Len(Words(o, n)) = n
  BY <1>1, WordsKnown
<1>3. ASSUME NEW j \in 1..n PROVE Words(o, n)[j] = s[j]
  <2>1. WordAt(o + 4 * (j - 1)) = s[j]
    BY <1>1, WordIs
  <2> QED
    BY <2>1 DEF Words
<1> QED
  BY <1>1, <1>2, <1>3, SeqEqual

LEMMA TextIs ==
  ASSUME input \in Inputs, NEW o \in Nat, NEW n, NEW s \in Seq(Nat), HasText(file, o, n, s)
  PROVE  StringAt(o, n) = s /\ o + n <= Len(file) /\ n \in Nat
<1> DEFINE b == Bytes(o, n)
           ends == {j \in 1..n : b[j] = 0}
           e == CHOOSE j \in ends : \A k \in ends : j <= k
<1>1. /\ n \in Nat /\ o + n <= Len(file) /\ Len(file) \in Nat
      /\ \A j \in 1..Len(s) : file[o + j] = s[j] /\ s[j] # 0
      /\ Len(s) <= n /\ (Len(s) < n => file[o + Len(s) + 1] = 0)
  BY InFile DEF HasText
<1>2. PICK l \in Nat : l = Len(s)
  OBVIOUS
<1>3. l <= n /\ \A j \in 1..l : file[o + j] = s[j] /\ s[j] # 0
  BY <1>1, <1>2
<1>4. b \in Seq(Nat) /\ Len(b) = n
  BY <1>1, BytesKnown
<1>5. \A j \in 1..n : b[j] = file[o + j]
  <2>1. ASSUME NEW j \in 1..n PROVE b[j] = file[o + j]
    <3>1. o + j <= Len(file)
      BY <1>1
    <3> QED
      BY <3>1 DEF Bytes
  <2> QED
    BY <2>1
<1> HIDE DEF b
<1>6. CASE l = n
  <2>1. ends = {}
    BY <1>3, <1>5, <1>6
  <2>2. StringAt(o, n) = b
    BY <2>1, Zenon DEF StringAt, b
  <2>3. \A j \in 1..n : b[j] = s[j]
    BY <1>3, <1>5, <1>6
  <2>4. b = s
    BY <1>2, <1>4, <1>6, <2>3, SeqEqual
  <2> QED
    BY <1>1, <2>2, <2>4
<1>7. CASE l < n
  <2>1. l + 1 \in ends
    <3>1. file[o + (l + 1)] = 0
      BY <1>1, <1>2, <1>7
    <3> QED
      BY <1>1, <1>5, <1>7, <3>1
  <2>2. ASSUME NEW k \in ends PROVE l + 1 <= k
    <3>1. k \in 1..n /\ file[o + k] = 0
      BY <1>5
    <3>2. ~(k \in 1..l)
      BY <1>3, <3>1
    <3> QED
      BY <1>1, <3>1, <3>2
  <2>3. ends \subseteq Nat
    OBVIOUS
  <2> DEFINE Least(j) == \A k \in ends : j <= k
  <2>4. e = CHOOSE j \in ends : Least(j)
    OBVIOUS
  <2>5. ASSUME NEW j \in ends, Least(j) PROVE j = l + 1
    BY <2>1, <2>2, <2>3, <2>5
  <2>6. Least(l + 1)
    BY <2>2
  <2>7. e = l + 1
    <3> HIDE DEF ends, Least, e
    <3> QED
      BY <2>1, <2>4, <2>5, <2>6, Zenon
  <2>8. StringAt(o, n) = SubSeq(b, 1, e - 1)
    <3>1. ends # {}
      BY <2>1
    <3> QED
      BY <3>1, Zenon DEF StringAt, b
  <2>9. e - 1 = l
    <3> HIDE DEF e
    <3> QED
      BY <2>7
  <2>10. ASSUME NEW j \in 1..l PROVE b[j] = s[j] /\ b[j] \in Nat
    <3>1. s[j] \in Nat
      BY <1>2
    <3>2. j \in 1..n
      BY <1>1, <1>3
    <3> QED
      BY <1>3, <1>5, <3>1, <3>2
  <2>11. /\ SubSeq(b, 1, l) \in Seq(Nat) /\ Len(SubSeq(b, 1, l)) = l
         /\ \A j \in 1..l : SubSeq(b, 1, l)[j] = b[j]
    BY <2>10, SubSeqProperties
  <2>12. SubSeq(b, 1, l) = s
    BY <1>2, <2>10, <2>11, SeqEqual
  <2> QED
    BY <1>1, <2>8, <2>9, <2>12
<1> QED
  BY <1>1, <1>3, <1>6, <1>7

-----------------------------------------------------------------------------
(* The kernel at hand, as it was written.                                  *)
Here == input.program[i + 1]
Begin == input.kernels[i + 1]
End == input.kernels[i + 2]
Place == input.items[i + 1]
Heap1 == Len(Here.heaps.kernel)
Heap2 == Len(Here.heaps.dynamic)
Heap3 == Len(Here.heaps.surface)
NameSize == file[Begin + 13]
HashHere == Hash([j \in 1..End - (Begin + 40) |-> file[Begin + 40 + j]])

LEMMA IntactFacts ==
  ASSUME input \in Inputs, input.state = "intact"
  PROVE  /\ input.program \in Seq(Kernels) /\ Len(input.program) \in Nat
         /\ input.kernels \in Seq(Nat) /\ input.items \in Seq(Seq(Nat))
         /\ Len(input.items) = Len(input.program)
         /\ Len(input.kernels) = Len(input.program) + 1
         /\ input.kernels[1] = 28 /\ input.kernels[Len(input.program) + 1] = Len(file)
         /\ WordAt(0) = Magic /\ WordAt(4) = Version /\ WordAt(8) = Gen9
         /\ WordAt(16) = Len(input.program) /\ WordAt(24) = 0 /\ 28 <= Len(file)
         /\ \A j \in 1..Len(input.program) :
              WrittenKernel(file, input.program[j], input.kernels[j], input.items[j],
                            input.kernels[j + 1])
<1>1. /\ input.program \in Seq(Kernels) /\ input.kernels \in Seq(Nat)
      /\ input.items \in Seq(Seq(Nat)) /\ Len(input.items) = Len(input.program)
      /\ Written(file, input.program, input.kernels, input.items)
  BY WriterAssumption DEF file
<1>2. /\ Has(file, 0, Magic) /\ Has(file, 4, Version) /\ Has(file, 8, Gen9)
      /\ Has(file, 16, Len(input.program)) /\ Has(file, 24, 0)
      /\ Len(input.kernels) = Len(input.program) + 1 /\ input.kernels[1] = 28
      /\ input.kernels[Len(input.kernels)] = Len(file)
      /\ \A j \in 1..Len(input.program) :
           WrittenKernel(file, input.program[j], input.kernels[j], input.items[j],
                         input.kernels[j + 1])
  BY <1>1, Zenon DEF Written
<1>3. Len(input.program) \in Nat
  BY <1>1
<1>4. 28 <= Len(file)
  BY <1>2, WordIs
<1> QED
  BY <1>1, <1>2, <1>3, <1>4, WordIs, Zenon

LEMMA HereFacts ==
  ASSUME input \in Inputs, input.state = "intact", i \in Nat, i < Len(input.program)
  PROVE  /\ Here \in Kernels /\ Begin \in Nat /\ End \in Nat /\ Place \in Seq(Nat)
         /\ WrittenKernel(file, Here, Begin, Place, End)
<1>1. /\ i + 1 \in 1..Len(input.program) /\ i + 1 \in 1..Len(input.kernels)
      /\ i + 2 \in 1..Len(input.kernels) /\ (i + 1) + 1 = i + 2
      /\ i + 1 \in 1..Len(input.items)
  <2>1. /\ Len(input.items) = Len(input.program)
        /\ Len(input.kernels) = Len(input.program) + 1 /\ Len(input.program) \in Nat
    BY IntactFacts, Zenon
  <2>2. PICK n \in Nat : n = Len(input.program)
    BY <2>1, Zenon
  <2>3. i < n /\ Len(input.items) = n /\ Len(input.kernels) = n + 1
    BY <2>1, <2>2, Zenon
  <2>4. /\ i + 1 \in 1..n /\ i + 1 \in 1..n + 1 /\ i + 2 \in 1..n + 1 /\ (i + 1) + 1 = i + 2
    BY <2>2, <2>3
  <2> QED
    BY <2>2, <2>3, <2>4, Zenon
<1>2. Here \in Kernels /\ Begin \in Nat /\ End \in Nat /\ Place \in Seq(Nat)
  <2>1. /\ input.program \in Seq(Kernels) /\ input.kernels \in Seq(Nat)
        /\ input.items \in Seq(Seq(Nat))
    BY IntactFacts
  <2>2. Here \in Kernels
    BY <1>1, <2>1, ElementOfSeq, Zenon DEF Here
  <2>3. Begin \in Nat /\ End \in Nat
    BY <1>1, <2>1, ElementOfSeq DEF Begin, End
  <2>4. Place \in Seq(Nat)
    BY <1>1, <2>1, ElementOfSeq, Zenon DEF Place
  <2> QED
    BY <2>2, <2>3, <2>4
<1>3. WrittenKernel(file, input.program[i + 1], input.kernels[i + 1], input.items[i + 1],
                    input.kernels[(i + 1) + 1])
  BY <1>1, IntactFacts, Zenon
<1> QED
  BY <1>1, <1>2, <1>3 DEF Here, Begin, End, Place

LEMMA HeapTotal ==
  ASSUME NEW a \in Nat, NEW b \in Nat, NEW c \in Nat
  PROVE  Total(<<a, b, c>>) = a + b + c
<1> DEFINE s == <<a, b, c>>
           part(j) == IF j <= Len(s) THEN s[j] ELSE 0
<1>1. part(1) = a /\ part(2) = b /\ part(3) = c /\ part(4) = 0 /\ part(5) = 0
  OBVIOUS
<1>2. Total(s) = part(1) + part(2) + part(3) + part(4) + part(5)
  BY DEF Total
<1> HIDE DEF part
<1> QED
  BY <1>1, <1>2

(* What the reader finds at the beginning of the kernel.                   *)
LEMMA HeaderRead ==
  ASSUME input \in Inputs, input.state = "intact", i \in Nat, i < Len(input.program)
  PROVE  /\ WordAt(Begin) = HashHere /\ WordAt(Begin + 12) = NameSize
         /\ WordAt(Begin + 16) = End - Place[1] /\ WordAt(Begin + 20) = Heap1
         /\ WordAt(Begin + 24) = 0 /\ WordAt(Begin + 28) = Heap2
         /\ WordAt(Begin + 32) = Heap3 /\ WordAt(Begin + 36) = Here.heaps.unpadded
         /\ NameSize # 0 /\ NameSize \in Nat /\ Begin + 40 <= Len(file)
         /\ Here.heaps.unpadded <= Heap1 /\ (End - (Begin + 40)) % 4 = 0
         /\ End <= Len(file)
<1>1. /\ Has(file, Begin, HashHere) /\ (End - (Begin + 40)) % 4 = 0
      /\ NameSize # 0 /\ HasText(file, Begin + 40, NameSize, Here.name)
      /\ Has(file, Begin + 16, End - Place[1])
      /\ Has(file, Begin + 20, Heap1) /\ Has(file, Begin + 24, 0)
      /\ Has(file, Begin + 36, Here.heaps.unpadded) /\ End <= Len(file)
  BY HereFacts, Zenon DEF WrittenKernel, HashHere, Heap1, NameSize
<1>2. /\ Has(file, Begin + 28, Heap2) /\ Has(file, Begin + 32, Heap3)
      /\ Here.heaps.unpadded <= Heap1
  BY HereFacts DEF WrittenKernel, Heap1, Heap2, Heap3
<1>3. /\ Begin \in Nat /\ Begin + 40 <= Len(file) /\ Len(file) \in Nat
  <2>1. Begin \in Nat /\ Len(file) \in Nat
    BY HereFacts, InFile
  <2>2. Begin + 36 + 4 <= Len(file)
    BY <1>1, WordIs
  <2> QED
    BY <2>1, <2>2
<1>4. WordAt(Begin + 12) = NameSize
  BY <1>3 DEF WordAt, NameSize
<1>5. NameSize \in Nat
  BY <1>1, Zenon DEF HasText
<1> QED
  BY <1>1, <1>2, <1>3, <1>4, <1>5, WordIs, Zenon

(* The name and the heaps.                                                 *)
LEMMA BodyRead ==
  ASSUME input \in Inputs, input.state = "intact", i \in Nat, i < Len(input.program)
  PROVE  /\ StringAt(Begin + 40, NameSize) = Here.name
         /\ Begin + 40 + NameSize <= Len(file)
         /\ Heap1 \in Nat /\ Heap2 \in Nat /\ Heap3 \in Nat /\ Heap1 + Heap2 + Heap3 < Word
         /\ Bytes(Begin + 40 + NameSize, Heap1) = Here.heaps.kernel
         /\ Bytes(Begin + 40 + NameSize + Heap1, Heap2) = Here.heaps.dynamic
         /\ Bytes(Begin + 40 + NameSize + Heap1 + Heap2, Heap3) = Here.heaps.surface
         /\ Begin + 40 + NameSize + Heap1 + Heap2 + Heap3 <= Len(file)
         /\ Place[1] = Begin + 40 + NameSize + Heap1 + Heap2 + Heap3
<1>1. /\ Here \in Kernels /\ Begin \in Nat /\ NameSize \in Nat
  BY HereFacts, HeaderRead
<1>2. /\ Here.name \in Seq(Nat) /\ Here.heaps.kernel \in Seq(Nat)
      /\ Here.heaps.dynamic \in Seq(Nat) /\ Here.heaps.surface \in Seq(Nat)
  BY <1>1 DEF Kernels, Heaps
<1>3. Heap1 \in Nat /\ Heap2 \in Nat /\ Heap3 \in Nat
  BY <1>2 DEF Heap1, Heap2, Heap3
<1> DEFINE t == <<Heap1, Heap2, Heap3>>
           h == Begin + 40 + NameSize
<1>4. /\ HasText(file, Begin + 40, NameSize, Here.name) /\ Total(t) < Word
      /\ HasBytes(file, h, Here.heaps.kernel)
      /\ HasBytes(file, h + t[1], Here.heaps.dynamic)
      /\ HasBytes(file, h + t[1] + t[2], Here.heaps.surface)
      /\ Place[1] = h + Total(t)
  BY HereFacts, Zenon DEF WrittenKernel, NameSize, Heap1, Heap2, Heap3
<1>5. t[1] = Heap1 /\ t[2] = Heap2 /\ Total(t) = Heap1 + Heap2 + Heap3
  BY <1>3, HeapTotal
<1>6. h \in Nat /\ h + Heap1 \in Nat /\ h + Heap1 + Heap2 \in Nat /\ Begin + 40 \in Nat
  BY <1>1, <1>3
<1>7. StringAt(Begin + 40, NameSize) = Here.name /\ Begin + 40 + NameSize <= Len(file)
  BY <1>2, <1>4, <1>6, TextIs
<1>8. Bytes(h, Heap1) = Here.heaps.kernel
  BY <1>2, <1>4, <1>6, BytesAre DEF Heap1
<1>9. Bytes(h + Heap1, Heap2) = Here.heaps.dynamic
  BY <1>2, <1>4, <1>5, <1>6, BytesAre, Zenon DEF Heap2
<1>10. Bytes(h + Heap1 + Heap2, Heap3) = Here.heaps.surface /\ h + Heap1 + Heap2 + Heap3 <= Len(file)
  BY <1>2, <1>4, <1>5, <1>6, BytesAre, Zenon DEF Heap3
<1>11. Place[1] = h + Heap1 + Heap2 + Heap3 /\ Heap1 + Heap2 + Heap3 < Word
  <2> DEFINE T == Total(t)
  <2>1. Place[1] = h + T /\ T = Heap1 + Heap2 + Heap3 /\ T < Word
    BY <1>4, <1>5
  <2> HIDE DEF T, h
  <2> QED
    BY <1>3, <1>6, <2>1
<1> QED
  BY <1>3, <1>7, <1>8, <1>9, <1>10, <1>11, Zenon

-----------------------------------------------------------------------------
(* The item at the position, as it was written.                            *)
Entry == Here.params[Len(params) + 1]
EntryEnd == Place[Len(params) + 2]
Fields == Len(Entry.fields)
Strings == Len(Entry.strings)
EntrySizes == [j \in 1..Strings |-> file[bin + 8 + 4 * (Fields + j - 1) + 1]]
Texts == bin + 8 + 4 * (Fields + Strings)

AtEntry ==
  /\ input \in Inputs /\ input.state = "intact"
  /\ i \in Nat /\ i < Len(input.program)
  /\ params \in Seq(Items) /\ Len(params) < Len(Here.params)
  /\ bin = Place[Len(params) + 1]

LEMMA EntryWritten ==
  ASSUME AtEntry
  PROVE  /\ bin \in Nat /\ EntryEnd \in Nat /\ End \in Nat /\ EntryEnd <= End /\ End <= Len(file)
         /\ Entry \in Items /\ Fields \in Nat /\ Strings \in Nat
         /\ \/ Entry.token = AttributesInfo /\ Fields = 0 /\ Strings = 1
            \/ Entry.token = ArgumentInfo /\ Fields = 1 /\ Strings = 5
            \/ Entry.token \in 1..9 /\ Fields = FieldCount[Entry.token] /\ Strings = 0
         /\ Token = Entry.token /\ ItemSize = EntryEnd - bin
         /\ \A j \in 1..Fields : Has(file, bin + 8 + 4 * (j - 1), Entry.fields[j])
         /\ \A j \in 1..Strings :
              HasText(file, Texts + Total(SubSeq(EntrySizes, 1, j - 1)), EntrySizes[j],
                      Entry.strings[j])
         /\ Texts <= EntryEnd /\ EntryEnd = Texts + Total(EntrySizes) /\ Total(EntrySizes) < Word
<1>1. /\ input \in Inputs /\ input.state = "intact" /\ i \in Nat /\ i < Len(input.program)
      /\ params \in Seq(Items) /\ Len(params) < Len(Here.params)
      /\ bin = Place[Len(params) + 1]
  BY DEF AtEntry
<1>2. /\ Here \in Kernels /\ Place \in Seq(Nat) /\ End \in Nat /\ End <= Len(file)
      /\ WrittenKernel(file, Here, Begin, Place, End)
  BY <1>1, HereFacts, HeaderRead
<1>3. /\ Len(Place) = Len(Here.params) + 1 /\ \A j \in 1..Len(Place) : Place[j] <= End
      /\ \A j \in 1..Len(Here.params) : WrittenItem(file, Here.params[j], Place[j], Place[j + 1])
  BY <1>2, Zenon DEF WrittenKernel
<1>4. Here.params \in Seq(Items)
  BY <1>2 DEF Kernels
<1>5. PICK m \in Nat : m = Len(params)
  BY <1>1
<1>6. PICK l \in Nat : l = Len(Here.params)
  BY <1>4
<1>7. m + 1 \in 1..l /\ m + 1 \in 1..l + 1 /\ m + 2 \in 1..l + 1 /\ (m + 1) + 1 = m + 2
  BY <1>1, <1>5, <1>6
<1>8. bin \in Nat /\ EntryEnd \in Nat /\ EntryEnd <= End
  BY <1>1, <1>2, <1>3, <1>5, <1>6, <1>7, ElementOfSeq DEF EntryEnd
<1>9. Entry \in Items
  BY <1>4, <1>5, <1>6, <1>7, ElementOfSeq, Zenon DEF Entry
<1>10. WrittenItem(file, Entry, bin, EntryEnd)
  BY <1>1, <1>3, <1>5, <1>6, <1>7, Zenon DEF Entry, EntryEnd
<1>11. /\ CASE Entry.token = AttributesInfo -> Fields = 0 /\ Strings = 1
             [] Entry.token = ArgumentInfo -> Fields = 1 /\ Strings = 5
             [] OTHER -> Fields = FieldCount[Entry.token] /\ Strings = 0
       /\ Has(file, bin, Entry.token) /\ Has(file, bin + 4, EntryEnd - bin)
       /\ \A j \in 1..Fields : Has(file, bin + 8 + 4 * (j - 1), Entry.fields[j])
       /\ \A j \in 1..Strings :
            HasText(file, Texts + Total(SubSeq(EntrySizes, 1, j - 1)), EntrySizes[j],
                    Entry.strings[j])
       /\ Texts <= EntryEnd /\ EntryEnd = Texts + Total(EntrySizes) /\ Total(EntrySizes) < Word
  BY <1>10, Zenon DEF WrittenItem, Fields, Strings, EntrySizes, Texts
<1>12. /\ Entry.token \in 1..ArgumentInfo /\ Entry.fields \in Seq(Nat)
       /\ Entry.strings \in Seq(Seq(Nat))
  BY <1>9, Zenon DEF Items
<1>13. Fields \in Nat /\ Strings \in Nat
  BY <1>12 DEF Fields, Strings
<1>14. \/ Entry.token = AttributesInfo /\ Fields = 0 /\ Strings = 1
       \/ Entry.token = ArgumentInfo /\ Fields = 1 /\ Strings = 5
       \/ Entry.token \in 1..9 /\ Fields = FieldCount[Entry.token] /\ Strings = 0
  <2>1. Entry.token = AttributesInfo \/ Entry.token = ArgumentInfo \/ Entry.token \in 1..9
    BY <1>12 DEF AttributesInfo, ArgumentInfo
  <2>2. AttributesInfo # ArgumentInfo
    BY DEF AttributesInfo, ArgumentInfo
  <2> QED
    BY <1>11, <2>1, <2>2
<1>15. Token = Entry.token /\ ItemSize = EntryEnd - bin
  BY <1>11, WordIs DEF Token, ItemSize
<1> QED
  BY <1>2, <1>8, <1>9, <1>11, <1>13, <1>14, <1>15, Zenon

(* The reader finds its sizes ...                                          *)
LEMMA SizesRead ==
  ASSUME AtEntry
  PROVE  /\ StringSizes = EntrySizes /\ EntrySizes \in Seq(Nat) /\ Len(EntrySizes) = Strings
         /\ FixedSize = 8 + 4 * (Fields + Strings)
<1>1. /\ bin \in Nat /\ EntryEnd \in Nat /\ EntryEnd <= Len(file) /\ Len(file) \in Nat
      /\ Fields \in Nat /\ Strings \in Nat /\ Strings <= 5
      /\ Texts <= EntryEnd /\ Token = Entry.token
      /\ \/ Entry.token = AttributesInfo /\ Fields = 0 /\ Strings = 1
         \/ Entry.token = ArgumentInfo /\ Fields = 1 /\ Strings = 5
         \/ Entry.token \in 1..9 /\ Fields = FieldCount[Entry.token] /\ Strings = 0
      /\ \A j \in 1..Strings :
           HasText(file, Texts + Total(SubSeq(EntrySizes, 1, j - 1)), EntrySizes[j],
                   Entry.strings[j])
  <2>1. Len(file) \in Nat
    BY InFile DEF AtEntry
  <2>2. /\ bin \in Nat /\ EntryEnd \in Nat /\ End \in Nat /\ EntryEnd <= End /\ End <= Len(file)
        /\ Fields \in Nat /\ Strings \in Nat
        /\ Texts <= EntryEnd /\ Token = Entry.token
        /\ \/ Entry.token = AttributesInfo /\ Fields = 0 /\ Strings = 1
           \/ Entry.token = ArgumentInfo /\ Fields = 1 /\ Strings = 5
           \/ Entry.token \in 1..9 /\ Fields = FieldCount[Entry.token] /\ Strings = 0
        /\ \A j \in 1..Strings :
             HasText(file, Texts + Total(SubSeq(EntrySizes, 1, j - 1)), EntrySizes[j],
                     Entry.strings[j])
    BY EntryWritten, Zenon
  <2>3. EntryEnd <= Len(file) /\ Strings <= 5
    BY <2>1, <2>2
  <2> QED
    BY <2>1, <2>2, <2>3, Zenon
<1>2. \A j \in 1..Strings : EntrySizes[j] \in Nat
  BY <1>1, Zenon DEF HasText
<1>3. EntrySizes \in Seq(Nat) /\ Len(EntrySizes) = Strings
  <2>1. EntrySizes \in [1..Strings -> Nat]
    BY <1>2 DEF EntrySizes
  <2>2. [1..Strings -> Nat] \subseteq Seq(Nat)
    BY <1>1, SeqDef
  <2> QED
    BY <1>1, <2>1, <2>2, LenProperties
<1>4. ASSUME NEW j \in 1..Strings
      PROVE  EntrySizes[j] = WordAt(bin + 8 + 4 * (Fields + j - 1))
  <2> DEFINE o == bin + 8 + 4 * (Fields + j - 1)
  <2>1. o + 4 <= Len(file)
    <3>1. bin + 8 + 4 * (Fields + Strings) <= Len(file)
      BY <1>1 DEF Texts
    <3> QED
      BY <1>1, <3>1
  <2>2. EntrySizes[j] = file[o + 1]
    BY DEF EntrySizes
  <2> HIDE DEF o
  <2>3. EntrySizes[j] = WordAt(o)
    BY <2>1, <2>2, Zenon DEF WordAt
  <2> QED
    BY <2>3 DEF o
<1>5. CASE Entry.token = AttributesInfo /\ Fields = 0 /\ Strings = 1
  <2>1. StringSizes = <<WordAt(bin + 8)>> /\ FixedSize = 12
    BY <1>1, <1>5 DEF StringSizes, FixedSize, AttributesInfo, ArgumentInfo
  <2>2. EntrySizes[1] = WordAt(bin + 8) /\ Len(EntrySizes) = 1
    <3>1. bin + 8 + 4 * (Fields + 1 - 1) = bin + 8 /\ 1 \in 1..Strings
      BY <1>1, <1>5
    <3> QED
      BY <1>3, <1>4, <1>5, <3>1
  <2>3. EntrySizes = <<WordAt(bin + 8)>>
    <3>1. WordAt(bin + 8) \in Nat
      BY <1>2, <1>5, <2>2
    <3> DEFINE t == <<WordAt(bin + 8)>>
    <3>2. t \in Seq(Nat) /\ Len(t) = 1 /\ t[1] = WordAt(bin + 8)
      BY <3>1
    <3> HIDE DEF t
    <3>3. EntrySizes = t
      BY <1>3, <2>2, <3>2, SeqEqual
    <3> QED
      BY <3>3 DEF t
  <2>4. 8 + 4 * (Fields + Strings) = 12
    BY <1>5
  <2> QED
    BY <1>3, <2>1, <2>3, <2>4, Zenon
<1>6. CASE Entry.token = ArgumentInfo /\ Fields = 1 /\ Strings = 5
  <2>1. StringSizes = Words(bin + 12, 5) /\ FixedSize = 32
    BY <1>1, <1>6 DEF StringSizes, FixedSize, AttributesInfo, ArgumentInfo
  <2>2. bin + 12 + 4 * 5 <= Len(file) /\ bin + 12 \in Nat
    BY <1>1, <1>6 DEF Texts
  <2>3. Words(bin + 12, 5) \in Seq(Nat) /\ Len(Words(bin + 12, 5)) = 5
    BY <2>2, WordsKnown DEF AtEntry
  <2>4. ASSUME NEW j \in 1..5 PROVE Words(bin + 12, 5)[j] = EntrySizes[j]
    <3>1. bin + 12 + 4 * (j - 1) = bin + 8 + 4 * (Fields + j - 1) /\ j \in 1..Strings
      BY <1>1, <1>6
    <3>2. Words(bin + 12, 5)[j] = WordAt(bin + 12 + 4 * (j - 1))
      BY DEF Words
    <3> QED
      BY <1>4, <3>1, <3>2
  <2>5. Words(bin + 12, 5) = EntrySizes
    BY <1>3, <1>6, <2>3, <2>4, SeqEqual
  <2>6. 8 + 4 * (Fields + Strings) = 32
    BY <1>6
  <2> QED
    BY <1>3, <2>1, <2>5, <2>6, Zenon
<1>7. CASE Entry.token \in 1..9 /\ Fields = FieldCount[Entry.token] /\ Strings = 0
  <2>1. Token # AttributesInfo /\ Token # ArgumentInfo
    BY <1>1, <1>7 DEF AttributesInfo, ArgumentInfo
  <2>2. StringSizes = <<>> /\ FixedSize = 8 + 4 * Fields
    BY <1>1, <1>7, <2>1 DEF StringSizes, FixedSize
  <2>3. EntrySizes = <<>>
    BY <1>3, <1>7
  <2>4. Fields + Strings = Fields
    BY <1>1, <1>7
  <2> QED
    BY <1>3, <2>2, <2>3, <2>4, Zenon
<1> QED
  BY <1>1, <1>5, <1>6, <1>7, Zenon

(* ... and the item itself.                                                *)
LEMMA ItemRead ==
  ASSUME AtEntry
  PROVE  /\ Item = Entry /\ Token = Entry.token /\ ItemSize = EntryEnd - bin
         /\ FixedSize \in Nat /\ FixedSize >= 8 /\ Total(StringSizes) \in Nat
         /\ FixedSize + Total(StringSizes) = ItemSize /\ Total(StringSizes) < Word
         /\ bin + FixedSize + Total(StringSizes) = EntryEnd
<1>1. /\ input \in Inputs /\ bin \in Nat /\ EntryEnd \in Nat /\ EntryEnd <= Len(file)
      /\ Len(file) \in Nat /\ Fields \in Nat /\ Strings \in Nat /\ Strings <= 5
      /\ Texts <= EntryEnd /\ EntryEnd = Texts + Total(EntrySizes) /\ Total(EntrySizes) < Word
      /\ Entry \in Items /\ Token = Entry.token /\ ItemSize = EntryEnd - bin
  <2>1. Len(file) \in Nat /\ input \in Inputs
    BY InFile DEF AtEntry
  <2>2. /\ bin \in Nat /\ EntryEnd \in Nat /\ End \in Nat /\ EntryEnd <= End /\ End <= Len(file)
        /\ Fields \in Nat /\ Strings \in Nat
        /\ Texts <= EntryEnd /\ EntryEnd = Texts + Total(EntrySizes) /\ Total(EntrySizes) < Word
        /\ Entry \in Items /\ Token = Entry.token /\ ItemSize = EntryEnd - bin
        /\ Strings = 1 \/ Strings = 5 \/ Strings = 0
    BY EntryWritten, Zenon
  <2>3. EntryEnd <= Len(file) /\ Strings <= 5
    BY <2>1, <2>2
  <2> QED
    BY <2>1, <2>2, <2>3, Zenon
<1>2. /\ StringSizes = EntrySizes /\ EntrySizes \in Seq(Nat) /\ Len(EntrySizes) = Strings
      /\ FixedSize = 8 + 4 * (Fields + Strings) /\ bin + FixedSize = Texts
  <2>1. /\ StringSizes = EntrySizes /\ EntrySizes \in Seq(Nat) /\ Len(EntrySizes) = Strings
        /\ FixedSize = 8 + 4 * (Fields + Strings)
    BY SizesRead
  <2>2. bin + FixedSize = Texts
    BY <1>1, <2>1 DEF Texts
  <2> QED
    BY <2>1, <2>2
<1>3. /\ Total(EntrySizes) \in Nat
      /\ \A j \in 1..Strings :
           /\ Total(SubSeq(EntrySizes, 1, j - 1)) \in Nat
           /\ Total(SubSeq(EntrySizes, 1, j - 1)) + EntrySizes[j] <= Total(EntrySizes)
  BY <1>1, <1>2, Totals
<1>4. /\ Entry.token \in 1..ArgumentInfo /\ Entry.fields \in Seq(Nat)
      /\ Entry.strings \in Seq(Seq(Nat))
      /\ Entry = [token |-> Entry.token, fields |-> Entry.fields, strings |-> Entry.strings]
  BY <1>1, Zenon DEF Items
<1>5. Texts \in Nat /\ FixedSize \in Nat /\ FixedSize >= 8
  BY <1>1, <1>2 DEF Texts
<1>6. Item.strings = Entry.strings
  <2> DEFINE o(j) == Texts + Total(SubSeq(EntrySizes, 1, j - 1))
  <2>1. Item.strings = [j \in 1..Strings |-> StringAt(o(j), EntrySizes[j])]
    <3>1. Item.strings =
            [j \in 1..Len(StringSizes) |->
               StringAt(bin + FixedSize + Total(SubSeq(StringSizes, 1, j - 1)), StringSizes[j])]
      BY Zenon DEF Item
    <3> QED
      BY <1>2, <3>1, Zenon
  <2>2. ASSUME NEW j \in 1..Strings PROVE StringAt(o(j), EntrySizes[j]) = Entry.strings[j]
    <3>1. o(j) \in Nat
      BY <1>3, <1>5
    <3>2. HasText(file, o(j), EntrySizes[j], Entry.strings[j])
      BY EntryWritten, Zenon
    <3>3. Entry.strings[j] \in Seq(Nat)
      BY <1>4, ElementOfSeq DEF Strings
    <3> HIDE DEF o
    <3> QED
      BY <1>1, <3>1, <3>2, <3>3, TextIs, Zenon
  <2> HIDE DEF o
  <2>3. Item.strings = [j \in 1..Strings |-> Entry.strings[j]]
    BY <2>1, <2>2
  <2>4. Entry.strings = [j \in 1..Strings |-> Entry.strings[j]]
    BY <1>4 DEF Strings
  <2> QED
    BY <2>3, <2>4, Zenon
<1>7. Item.fields = Entry.fields
  <2>1. /\ \A j \in 1..Fields : Has(file, bin + 8 + 4 * (j - 1), Entry.fields[j])
        /\ \/ Entry.token = AttributesInfo /\ Fields = 0 /\ Strings = 1
           \/ Entry.token = ArgumentInfo /\ Fields = 1 /\ Strings = 5
           \/ Entry.token \in 1..9 /\ Fields = FieldCount[Entry.token] /\ Strings = 0
    BY EntryWritten, Zenon
  <2>2. Words(bin + 8, Fields) = Entry.fields
    <3>1. bin + 8 \in Nat /\ bin + 8 + 4 * Fields <= Len(file)
      BY <1>1 DEF Texts
    <3> QED
      BY <1>1, <1>4, <2>1, <3>1, WordsAre DEF Fields
  <2>3. CASE Entry.token = AttributesInfo /\ Fields = 0
    <3>1. Item.fields = <<>>
      BY <1>1, <2>3 DEF Item, AttributesInfo, ArgumentInfo
    <3>2. Entry.fields = <<>>
      BY <1>4, <2>3 DEF Fields
    <3> QED
      BY <3>1, <3>2
  <2>4. CASE Entry.token = ArgumentInfo /\ Fields = 1
    <3>1. Item.fields = Words(bin + 8, 1)
      BY <1>1, <2>4 DEF Item, AttributesInfo, ArgumentInfo
    <3> QED
      BY <2>2, <2>4, <3>1
  <2>5. CASE Entry.token \in 1..9 /\ Fields = FieldCount[Entry.token]
    <3>1. Token # AttributesInfo /\ Token # ArgumentInfo
      <4>1. Token \in 1..9
        BY <1>1, <2>5, Zenon
      <4> QED
        BY <4>1 DEF AttributesInfo, ArgumentInfo
    <3>2. Item.fields = Words(bin + 8, FieldCount[Token])
      BY <3>1 DEF Item
    <3> QED
      BY <1>1, <2>2, <2>5, <3>2
  <2> QED
    BY <2>1, <2>3, <2>4, <2>5, Zenon
<1>8. Item = Entry
  <2>1. Item = [token |-> Item.token, fields |-> Item.fields, strings |-> Item.strings]
    BY DEF Item
  <2>2. Item.token = Entry.token
    BY <1>1 DEF Item
  <2> QED
    BY <1>4, <1>6, <1>7, <2>1, <2>2, Zenon
<1>9. FixedSize + Total(StringSizes) = ItemSize /\ bin + FixedSize + Total(StringSizes) = EntryEnd
  <2> DEFINE T == Total(StringSizes)
  <2>1. T \in Nat /\ EntryEnd = Texts + T /\ bin + FixedSize = Texts
    BY <1>1, <1>2, <1>3
  <2> HIDE DEF T
  <2>2. FixedSize + T = EntryEnd - bin /\ bin + FixedSize + T = EntryEnd
    BY <1>1, <1>5, <2>1
  <2> QED
    BY <1>1, <2>2 DEF T
<1> QED
  BY <1>1, <1>2, <1>3, <1>5, <1>8, <1>9, Zenon

-----------------------------------------------------------------------------
(* In such a file the reader is where the writer was, with the parts that  *)
(* were written there; and of the kernels so far it has the one of the     *)
(* name.                                                                   *)
HeaderHere ==
  [checksum |-> HashHere, nameSize |-> NameSize, listSize |-> End - Place[1],
   kernel |-> Heap1, general |-> 0, dynamic |-> Heap2, surface |-> Heap3,
   unpadded |-> Here.heaps.unpadded]

Follows ==
  /\ IF pc = "program" THEN bin = 0 ELSE hdr = [device |-> Gen9, kernels |-> Len(input.program)]
  /\ pc = "kernel" => bin = Begin
  /\ pc \in Inside => khdr = HeaderHere /\ start = Begin + 40
  /\ pc = "name" => bin = start
  /\ pc \in Inside \ {"name"} => name = Here.name
  /\ pc = "heaps" => bin = start + NameSize
  /\ pc \in {"list", "patch", "check"} => heaps = Here.heaps
  /\ pc = "list" => bin = Place[1]
  /\ pc = "patch" =>
       /\ Len(params) <= Len(Here.params)
       /\ \A j \in 1..Len(params) : params[j] = Here.params[j]
       /\ bin = Place[Len(params) + 1] /\ left = End - bin
  /\ pc = "check" => bin = End /\ params = Here.params

IsAsked(j) == input.program[j].name = input.name
Search ==
  /\ \/ kernel = <<>> /\ \A j \in 1..i : ~IsAsked(j)
     \/ \E j \in 1..i :
          /\ kernel = <<input.program[j]>> /\ IsAsked(j)
          /\ \A k \in 1..i : IsAsked(k) => k = j
  /\ outcome = "invalid" => \A j \in Named : Named # {j}
  /\ outcome = "ok" => \E j \in Named : Named = {j} /\ kernel = <<input.program[j]>>

Reading == input.state = "intact" /\ IInv /\ Follows /\ Search

LEMMA ReadingFacts ==
  ASSUME Reading
  PROVE  /\ input \in Inputs /\ input.state = "intact" /\ bin \in Nat /\ size \in Nat
         /\ Len(file) \in Nat /\ i \in Nat /\ Len(input.program) \in Nat
         /\ pc # "program" =>
              hdr.device = Gen9 /\ hdr.kernels = Len(input.program) /\ i <= Len(input.program)
         /\ pc # "patch" => bin + size = Len(file)
         /\ pc \in Inside => i < Len(input.program)
<1>1. /\ input \in Inputs /\ input.state = "intact" /\ IInv /\ Follows
  BY DEF Reading, IInv
<1>2. Len(file) \in Nat /\ Len(input.program) \in Nat
  BY <1>1, InFile, IntactFacts
<1>3. pc # "program" => hdr.device = Gen9 /\ hdr.kernels = Len(input.program)
  BY <1>1 DEF Follows
<1>4. bin \in Nat /\ size \in 0..Len(file) /\ i \in 0..hdr.kernels /\ hdr.kernels \in Nat
  BY <1>1 DEF IInv, TypeOK, Header
<1>5. pc # "patch" => bin + size = Len(file)
  BY <1>1, <1>2, <1>4 DEF IInv, PositionAgrees
<1>6. pc \in Inside => i < hdr.kernels /\ pc # "program"
  BY <1>1 DEF IInv, Header, Inside
<1> QED
  BY <1>1, <1>2, <1>3, <1>4, <1>5, <1>6

LEMMA PatchEntry ==
  ASSUME Reading, pc = "patch"
  PROVE  /\ Here.params \in Seq(Items) /\ params \in Seq(Items)
         /\ left > 0 => AtEntry
         /\ left = 0 => params = Here.params /\ bin = End
<1>1. /\ input \in Inputs /\ input.state = "intact" /\ i \in Nat /\ i < Len(input.program)
      /\ bin \in Nat
  BY ReadingFacts DEF Inside
<1>2. /\ Here \in Kernels /\ Place \in Seq(Nat) /\ End \in Nat
      /\ WrittenKernel(file, Here, Begin, Place, End)
  BY <1>1, HereFacts
<1>3. Len(Place) = Len(Here.params) + 1 /\ Place[Len(Place)] = End
  BY <1>2, Zenon DEF WrittenKernel
<1>4. Here.params \in Seq(Items)
  BY <1>2 DEF Kernels
<1>5. /\ params \in Seq(Items) /\ Len(params) <= Len(Here.params)
      /\ \A j \in 1..Len(params) : params[j] = Here.params[j]
      /\ bin = Place[Len(params) + 1] /\ left = End - bin
  BY DEF Reading, Follows, IInv, TypeOK
<1>6. PICK m \in Nat : m = Len(params)
  BY <1>5
<1>7. PICK l \in Nat : l = Len(Here.params)
  BY <1>4
<1>8. m <= l
  BY <1>5, <1>6, <1>7
<1>9. CASE m < l
  <2>1. AtEntry
    BY <1>1, <1>5, <1>6, <1>7, <1>9 DEF AtEntry
  <2>2. EntryEnd \in Nat /\ EntryEnd <= End /\ Texts <= EntryEnd /\ Texts >= bin + 8
    <3>1. /\ EntryEnd \in Nat /\ EntryEnd <= End /\ Texts <= EntryEnd
          /\ Fields \in Nat /\ Strings \in Nat
      BY <2>1, EntryWritten, Zenon
    <3> QED
      BY <1>1, <3>1 DEF Texts
  <2>3. left # 0
    <3> DEFINE t == Texts
    <3>1. t <= EntryEnd /\ t >= bin + 8 /\ EntryEnd <= End /\ t \in Int
      <4>1. Fields \in Nat /\ Strings \in Nat
        BY <2>1, EntryWritten, Zenon
      <4> QED
        BY <1>1, <2>2, <4>1 DEF Texts
    <3> HIDE DEF t
    <3> QED
      BY <1>1, <1>2, <1>5, <2>2, <3>1
  <2> QED
    BY <1>4, <1>5, <2>1, <2>3
<1>10. CASE m = l
  <2>1. bin = End /\ left = 0
    BY <1>1, <1>2, <1>3, <1>5, <1>6, <1>7, <1>10
  <2>2. params = Here.params
    BY <1>4, <1>5, <1>6, <1>7, <1>10, SeqEqual
  <2> QED
    BY <1>4, <1>5, <2>1, <2>2
<1> QED
  BY <1>8, <1>9, <1>10

LEMMA ReadingFits == ASSUME Reading PROVE SumsFit
<1>1. ASSUME At("heaps")
      PROVE  khdr.kernel + khdr.general + khdr.dynamic + khdr.surface < Word
  <2>1. pc = "heaps" /\ khdr = HeaderHere
    BY <1>1 DEF At, Reading, Follows, Inside
  <2>2. Heap1 \in Nat /\ Heap2 \in Nat /\ Heap3 \in Nat /\ Heap1 + Heap2 + Heap3 < Word
    BY <2>1, ReadingFacts, BodyRead DEF Inside
  <2>3. khdr.kernel = Heap1 /\ khdr.general = 0 /\ khdr.dynamic = Heap2 /\ khdr.surface = Heap3
    BY <2>1 DEF HeaderHere
  <2>4. Heap1 + 0 + Heap2 + Heap3 < Word
    BY <2>2, BinaryAssumption
  <2> QED
    BY <2>3, <2>4
<1>2. ASSUME At("patch"), left > 0 PROVE Total(StringSizes) < Word
  BY <1>2, PatchEntry, ItemRead DEF At
<1> QED
  BY <1>1, <1>2 DEF SumsFit

(* What belongs to the kernel at hand stays while it is read.              *)
LEMMA SameKernel ==
  ASSUME input' = input, i' = i
  PROVE  /\ Here' = Here /\ Begin' = Begin /\ End' = End /\ Place' = Place
         /\ NameSize' = NameSize /\ HeaderHere' = HeaderHere
BY DEF Here, Begin, End, Place, NameSize, HeaderHere, HashHere, Heap1, Heap2, Heap3, file

LEMMA SameSearch ==
  ASSUME Search, outcome = "none", input' = input, i' = i, kernel' = kernel,
         outcome' \in {"none", "memory"}
  PROVE  Search'
BY DEF Search, Named, IsAsked

-----------------------------------------------------------------------------
(* Each step of the reader is the one the writer prepared.                 *)
LEMMA ProgramHeaderFollows ==
  ASSUME Reading, ReadProgramHeader
  PROVE  Follows' /\ Search'
<1>1. /\ input' = input /\ pc = "program" /\ pc' = "kernel" /\ outcome = "none"
      /\ outcome' = outcome /\ bin' = bin + 28 /\ i' = i /\ kernel' = kernel
      /\ hdr' = [device |-> WordAt(bin + 8), kernels |-> WordAt(bin + 16)]
  BY DEF ReadProgramHeader, At, Consume
<1>2. bin = 0 /\ i = 0 /\ input \in Inputs /\ input.state = "intact"
  BY <1>1 DEF Reading, Follows, IInv, Header
<1>3. WordAt(8) = Gen9 /\ WordAt(16) = Len(input.program) /\ input.kernels[1] = 28
  BY <1>2, IntactFacts
<1>4. hdr' = [device |-> Gen9, kernels |-> Len(input.program)] /\ bin' = 28
  BY <1>1, <1>2, <1>3
<1>5. Begin' = 28
  BY <1>1, <1>2, <1>3 DEF Begin
<1>6. Follows'
  BY <1>1, <1>4, <1>5 DEF Follows, Inside
<1>7. Search'
  BY <1>1, SameSearch DEF Reading
<1> QED
  BY <1>6, <1>7

LEMMA KernelHeaderFollows ==
  ASSUME Reading, ReadKernelHeader
  PROVE  Follows' /\ Search'
<1>1. /\ input' = input /\ pc = "kernel" /\ pc' = "name" /\ outcome = "none" /\ i < hdr.kernels
      /\ outcome' = outcome /\ bin' = bin + 40 /\ start' = bin + 40 /\ i' = i /\ kernel' = kernel
      /\ hdr' = hdr
      /\ khdr' = [checksum |-> WordAt(bin), nameSize |-> WordAt(bin + 12),
                  listSize |-> WordAt(bin + 16), kernel |-> WordAt(bin + 20),
                  general |-> WordAt(bin + 24), dynamic |-> WordAt(bin + 28),
                  surface |-> WordAt(bin + 32), unpadded |-> WordAt(bin + 36)]
  BY DEF ReadKernelHeader, At, Consume
<1>2. /\ input \in Inputs /\ input.state = "intact" /\ i \in Nat /\ i < Len(input.program)
      /\ bin = Begin /\ hdr = [device |-> Gen9, kernels |-> Len(input.program)]
  BY <1>1, ReadingFacts DEF Reading, Follows
<1>3. /\ WordAt(Begin) = HashHere /\ WordAt(Begin + 12) = NameSize
      /\ WordAt(Begin + 16) = End - Place[1] /\ WordAt(Begin + 20) = Heap1
      /\ WordAt(Begin + 24) = 0 /\ WordAt(Begin + 28) = Heap2
      /\ WordAt(Begin + 32) = Heap3 /\ WordAt(Begin + 36) = Here.heaps.unpadded
  BY <1>2, HeaderRead, Zenon
<1>4. khdr' = HeaderHere
  BY <1>1, <1>2, <1>3, Zenon DEF HeaderHere
<1>5. khdr' = HeaderHere' /\ Begin' = Begin
  BY <1>1, <1>4, SameKernel
<1>6. Follows'
  BY <1>1, <1>2, <1>5 DEF Follows, Inside
<1>7. Search'
  BY <1>1, SameSearch DEF Reading
<1> QED
  BY <1>6, <1>7

LEMMA NameFollows ==
  ASSUME Reading, ReadName
  PROVE  Follows' /\ Search'
<1>1. /\ input' = input /\ pc = "name" /\ pc' = "heaps" /\ outcome = "none" /\ outcome' = outcome
      /\ bin' = bin + khdr.nameSize /\ name' = StringAt(bin, khdr.nameSize)
      /\ khdr' = khdr /\ start' = start /\ hdr' = hdr /\ i' = i /\ kernel' = kernel
  BY DEF ReadName, At, Consume
<1>2. /\ input \in Inputs /\ input.state = "intact" /\ i \in Nat /\ i < Len(input.program)
  BY <1>1, ReadingFacts DEF Inside
<1>3. /\ khdr = HeaderHere /\ start = Begin + 40 /\ bin = start
      /\ hdr = [device |-> Gen9, kernels |-> Len(input.program)]
  BY <1>1 DEF Reading, Follows, Inside
<1>4. khdr.nameSize = NameSize
  BY <1>3 DEF HeaderHere
<1>5. name' = Here.name /\ bin' = start + NameSize
  BY <1>1, <1>2, <1>3, <1>4, BodyRead
<1>6. /\ Here' = Here /\ Begin' = Begin /\ NameSize' = NameSize /\ HeaderHere' = HeaderHere
  BY <1>1, SameKernel
<1>7. Follows'
  BY <1>1, <1>3, <1>5, <1>6 DEF Follows, Inside
<1>8. Search'
  BY <1>1, SameSearch DEF Reading
<1> QED
  BY <1>7, <1>8

LEMMA HeapsFollow ==
  ASSUME Reading, ReadHeaps
  PROVE  Follows' /\ Search'
<1>1. /\ input' = input /\ pc = "heaps" /\ pc' = "list" /\ outcome = "none" /\ outcome' = outcome
      /\ heaps' = [kernel |-> Bytes(bin, khdr.kernel), unpadded |-> khdr.unpadded,
                   dynamic |-> Bytes(bin + khdr.kernel, khdr.dynamic),
                   surface |-> Bytes(bin + khdr.kernel + khdr.dynamic, khdr.surface)]
      /\ bin' = bin + khdr.kernel + khdr.dynamic + khdr.surface /\ name' = name
      /\ khdr' = khdr /\ start' = start /\ hdr' = hdr /\ i' = i /\ kernel' = kernel
  BY DEF ReadHeaps, At
<1>2. /\ input \in Inputs /\ input.state = "intact" /\ i \in Nat /\ i < Len(input.program)
  BY <1>1, ReadingFacts DEF Inside
<1>3. /\ khdr = HeaderHere /\ start = Begin + 40 /\ bin = start + NameSize /\ name = Here.name
      /\ hdr = [device |-> Gen9, kernels |-> Len(input.program)]
  BY <1>1 DEF Reading, Follows, Inside
<1>4. /\ khdr.kernel = Heap1 /\ khdr.dynamic = Heap2 /\ khdr.surface = Heap3
      /\ khdr.unpadded = Here.heaps.unpadded
  BY <1>3 DEF HeaderHere
<1>5. bin = Begin + 40 + NameSize
  BY <1>3
<1>6. /\ Bytes(bin, Heap1) = Here.heaps.kernel
      /\ Bytes(bin + Heap1, Heap2) = Here.heaps.dynamic
      /\ Bytes(bin + Heap1 + Heap2, Heap3) = Here.heaps.surface
      /\ Place[1] = bin + Heap1 + Heap2 + Heap3
  BY <1>2, <1>5, BodyRead, Zenon
<1>7. bin' = Place[1]
  BY <1>1, <1>4, <1>6
<1>8. Here.heaps \in Heaps
  BY <1>2, HereFacts DEF Kernels
<1>9. Here.heaps = [kernel |-> Here.heaps.kernel, unpadded |-> Here.heaps.unpadded,
                    dynamic |-> Here.heaps.dynamic, surface |-> Here.heaps.surface]
  BY <1>8 DEF Heaps
<1>10. heaps' = Here.heaps
  BY <1>1, <1>4, <1>6, <1>9, Zenon
<1>11. /\ Here' = Here /\ Begin' = Begin /\ Place' = Place /\ HeaderHere' = HeaderHere
  BY <1>1, SameKernel
<1>12. Follows'
  BY <1>1, <1>3, <1>7, <1>10, <1>11 DEF Follows, Inside
<1>13. Search'
  BY <1>1, SameSearch DEF Reading
<1> QED
  BY <1>12, <1>13

LEMMA NoMemoryFollows ==
  ASSUME Reading, HeapsNoMemory
  PROVE  Follows' /\ Search'
<1>1. /\ outcome = "none" /\ outcome' = "memory" /\ input' = input /\ pc' = pc /\ bin' = bin
      /\ hdr' = hdr /\ i' = i /\ kernel' = kernel /\ khdr' = khdr /\ start' = start
      /\ name' = name /\ heaps' = heaps /\ params' = params /\ left' = left
  BY DEF HeapsNoMemory, At, parts
<1>2. Search'
  BY <1>1, SameSearch DEF Reading
<1>3. /\ Here' = Here /\ Begin' = Begin /\ End' = End /\ Place' = Place
      /\ NameSize' = NameSize /\ HeaderHere' = HeaderHere
  BY <1>1, SameKernel
<1>4. Follows'
  BY <1>1, <1>3 DEF Reading, Follows
<1> QED
  BY <1>2, <1>4

LEMMA StartListFollows ==
  ASSUME Reading, StartPatchList
  PROVE  Follows' /\ Search'
<1>1. /\ input' = input /\ pc = "list" /\ pc' = "patch" /\ outcome = "none" /\ outcome' = outcome
      /\ left' = khdr.listSize /\ params' = <<>> /\ bin' = bin
      /\ khdr' = khdr /\ start' = start /\ name' = name /\ heaps' = heaps
      /\ hdr' = hdr /\ i' = i /\ kernel' = kernel
  BY DEF StartPatchList, At
<1>2. /\ khdr = HeaderHere /\ start = Begin + 40 /\ name = Here.name /\ heaps = Here.heaps
      /\ bin = Place[1] /\ hdr = [device |-> Gen9, kernels |-> Len(input.program)]
  BY <1>1 DEF Reading, Follows, Inside
<1>3. /\ Here' = Here /\ Begin' = Begin /\ End' = End /\ Place' = Place /\ HeaderHere' = HeaderHere
  BY <1>1, SameKernel
<1>4. khdr.listSize = End - Place[1]
  BY <1>2 DEF HeaderHere
<1>5. left' = End' - bin'
  BY <1>1, <1>2, <1>3, <1>4
<1>6. Len(params') = 0 /\ Len(params') <= Len(Here.params)
  <2>1. Here.params \in Seq(Items)
    <3>1. /\ input \in Inputs /\ input.state = "intact" /\ i \in Nat /\ i < Len(input.program)
      BY <1>1, ReadingFacts DEF Inside
    <3> QED
      BY <3>1, HereFacts DEF Kernels
  <2>2. PICK l \in Nat : l = Len(Here.params)
    BY <2>1
  <2> QED
    BY <1>1, <2>2
<1>7. bin' = Place'[Len(params') + 1]
  BY <1>1, <1>2, <1>3, <1>6
<1>8. \A j \in 1..Len(params') : params'[j] = (Here')["params"][j]
  BY <1>6
<1>9. Follows'
  BY <1>1, <1>2, <1>3, <1>5, <1>6, <1>7, <1>8 DEF Follows, Inside
<1>10. Search'
  BY <1>1, SameSearch DEF Reading
<1> QED
  BY <1>9, <1>10

LEMMA ItemFollows ==
  ASSUME Reading, ReadItem
  PROVE  Follows' /\ Search'
<1>1. /\ input' = input /\ pc = "patch" /\ pc' = pc /\ outcome = "none" /\ outcome' = outcome
      /\ left > 0 /\ left' = left - ItemSize /\ params' = Append(params, Item)
      /\ bin' = bin + FixedSize + Total(StringSizes)
      /\ khdr' = khdr /\ start' = start /\ name' = name /\ heaps' = heaps
      /\ hdr' = hdr /\ i' = i /\ kernel' = kernel
  BY DEF ReadItem, At
<1>2. /\ khdr = HeaderHere /\ start = Begin + 40 /\ name = Here.name /\ heaps = Here.heaps
      /\ hdr = [device |-> Gen9, kernels |-> Len(input.program)]
      /\ \A j \in 1..Len(params) : params[j] = Here.params[j]
      /\ left = End - bin
  BY <1>1 DEF Reading, Follows, Inside
<1>3. /\ Here' = Here /\ Begin' = Begin /\ End' = End /\ Place' = Place /\ HeaderHere' = HeaderHere
  BY <1>1, SameKernel
<1>4. AtEntry /\ Here.params \in Seq(Items) /\ params \in Seq(Items)
  BY <1>1, PatchEntry
<1>5. /\ Item = Entry /\ ItemSize = EntryEnd - bin
      /\ bin + FixedSize + Total(StringSizes) = EntryEnd
  BY <1>4, ItemRead
<1>6. /\ bin \in Nat /\ EntryEnd \in Nat /\ End \in Nat /\ Entry \in Items
  BY <1>4, EntryWritten, Zenon
<1>7. bin' = EntryEnd /\ left' = End - EntryEnd
  BY <1>1, <1>2, <1>5, <1>6
<1>8. PICK m \in Nat : m = Len(params)
  BY <1>4
<1>9. PICK l \in Nat : l = Len(Here.params)
  BY <1>4
<1>10. m < l
  BY <1>4, <1>8, <1>9 DEF AtEntry
<1>11. /\ Len(params') = m + 1 /\ params'[m + 1] = Entry
       /\ \A j \in 1..m : params'[j] = params[j]
  <2> DEFINE e == Entry
  <2>1. params' = Append(params, e) /\ e \in Items
    BY <1>1, <1>5, <1>6
  <2> HIDE DEF e
  <2>2. /\ Len(params') = m + 1 /\ params'[m + 1] = e
        /\ \A j \in 1..m : params'[j] = params[j]
    BY <1>4, <1>8, <2>1, AppendProperties
  <2> QED
    BY <2>2 DEF e
<1>12. Entry = Here.params[m + 1] /\ EntryEnd = Place[(m + 1) + 1]
  <2>1. (m + 1) + 1 = m + 2
    OBVIOUS
  <2> QED
    BY <1>8, <2>1, Zenon DEF Entry, EntryEnd
<1>13. \A j \in 1..Len(params') : params'[j] = Here.params[j]
  <2>1. ASSUME NEW j \in 1..m + 1 PROVE params'[j] = Here.params[j]
    <3>1. CASE j \in 1..m
      BY <1>2, <1>8, <1>11, <3>1
    <3>2. CASE j = m + 1
      BY <1>11, <1>12, <3>2
    <3> QED
      BY <3>1, <3>2
  <2> QED
    BY <1>11, <2>1
<1>14. Len(params') <= Len(Here.params) /\ bin' = Place[Len(params') + 1] /\ left' = End - bin'
  BY <1>7, <1>9, <1>10, <1>11, <1>12
<1>15. Follows'
  BY <1>1, <1>2, <1>3, <1>13, <1>14 DEF Follows, Inside
<1>16. Search'
  BY <1>1, SameSearch DEF Reading
<1> QED
  BY <1>15, <1>16

LEMMA EndListFollows ==
  ASSUME Reading, EndPatchList
  PROVE  Follows' /\ Search'
<1>1. /\ input' = input /\ pc = "patch" /\ pc' = "check" /\ outcome = "none" /\ outcome' = outcome
      /\ left = 0 /\ params' = params /\ bin' = bin
      /\ khdr' = khdr /\ start' = start /\ name' = name /\ heaps' = heaps
      /\ hdr' = hdr /\ i' = i /\ kernel' = kernel
  BY DEF EndPatchList, At, parts
<1>2. /\ khdr = HeaderHere /\ start = Begin + 40 /\ name = Here.name /\ heaps = Here.heaps
      /\ hdr = [device |-> Gen9, kernels |-> Len(input.program)]
  BY <1>1 DEF Reading, Follows, Inside
<1>3. /\ Here' = Here /\ Begin' = Begin /\ End' = End /\ HeaderHere' = HeaderHere
  BY <1>1, SameKernel
<1>4. params = Here.params /\ bin = End
  BY <1>1, PatchEntry
<1>5. Follows'
  BY <1>1, <1>2, <1>3, <1>4 DEF Follows, Inside
<1>6. Search'
  BY <1>1, SameSearch DEF Reading
<1> QED
  BY <1>5, <1>6

-----------------------------------------------------------------------------
(* The checksum is that of what was read, and the search goes on.          *)
LEMMA ChecksumFits ==
  ASSUME Reading, pc = "check"
  PROVE  /\ ChecksumOk /\ Here = [name |-> name, params |-> params, heaps |-> heaps]
         /\ input.program \in Seq(Kernels) /\ i \in Nat /\ i < Len(input.program)
         /\ Len(input.program) \in Nat /\ bin = End
<1>1. /\ input \in Inputs /\ input.state = "intact" /\ i \in Nat /\ i < Len(input.program)
      /\ Len(file) \in Nat /\ Len(input.program) \in Nat
  BY ReadingFacts DEF Inside
<1>2. /\ khdr = HeaderHere /\ start = Begin + 40 /\ bin = End
      /\ name = Here.name /\ heaps = Here.heaps /\ params = Here.params
  BY DEF Reading, Follows, Inside
<1>3. /\ Here \in Kernels /\ Begin \in Nat /\ End \in Nat /\ End <= Len(file)
      /\ (End - (Begin + 40)) % 4 = 0 /\ input.program \in Seq(Kernels)
  BY <1>1, HereFacts, HeaderRead, IntactFacts
<1>4. KernelData = [j \in 1..End - (Begin + 40) |-> file[Begin + 40 + j]]
  <2> DEFINE s == Begin + 40
             n == End - s
  <2>1. s \in Nat /\ n \in Int /\ s + n = End
    BY <1>3
  <2>2. KernelData = [j \in 1..n |-> IF s + j <= Len(file) THEN file[s + j] ELSE -2]
    BY <1>2 DEF KernelData, Bytes
  <2> HIDE DEF s, n
  <2>3. ASSUME NEW j \in 1..n PROVE s + j <= Len(file)
    BY <1>1, <1>3, <2>1
  <2>4. KernelData = [j \in 1..n |-> file[s + j]]
    BY <2>2, <2>3
  <2> QED
    BY <2>4 DEF s, n
<1>5. khdr.checksum = HashHere
  BY <1>2 DEF HeaderHere
<1>6. Hash(KernelData) = khdr.checksum
  BY <1>4, <1>5, Zenon DEF HashHere
<1>7. ChecksumOk
  BY <1>2, <1>3, <1>6 DEF ChecksumOk
<1>8. Here = [name |-> Here.name, params |-> Here.params, heaps |-> Here.heaps]
  BY <1>3 DEF Kernels
<1> QED
  BY <1>1, <1>2, <1>3, <1>7, <1>8

LEMMA CheckFollows ==
  ASSUME Reading, CheckKernel
  PROVE  Follows' /\ Search'
<1>1. /\ input' = input /\ pc = "check" /\ pc' = "kernel" /\ outcome = "none" /\ outcome' = outcome
      /\ bin' = bin /\ hdr' = hdr /\ i' = i + 1
      /\ \/ /\ name = input.name /\ kernel = <<>>
            /\ kernel' = <<[name |-> name, params |-> params, heaps |-> heaps]>>
         \/ name # input.name /\ kernel' = kernel
  BY DEF CheckKernel, At
<1>2. /\ Here = [name |-> name, params |-> params, heaps |-> heaps]
      /\ i \in Nat /\ i < Len(input.program) /\ bin = End
  BY <1>1, ChecksumFits
<1>3. hdr = [device |-> Gen9, kernels |-> Len(input.program)]
  BY <1>1 DEF Reading, Follows
<1>4. Begin' = End
  <2>1. (i + 1) + 1 = i + 2
    BY <1>2
  <2> QED
    BY <1>1, <2>1 DEF Begin, End
<1>5. Follows'
  BY <1>1, <1>2, <1>3, <1>4 DEF Follows, Inside
<1>6. IsAsked(i + 1) <=> name = input.name
  <2>1. Here.name = name
    BY <1>2
  <2> QED
    BY <2>1 DEF IsAsked, Here
<1>7. \A j : IsAsked(j)' <=> IsAsked(j)
  BY <1>1 DEF IsAsked
<1>8. \/ kernel = <<>> /\ \A j \in 1..i : ~IsAsked(j)
      \/ \E j \in 1..i :
           /\ kernel = <<input.program[j]>> /\ IsAsked(j)
           /\ \A k \in 1..i : IsAsked(k) => k = j
  BY DEF Reading, Search
<1>9. 1..i' = (1..i) \cup {i + 1}
  BY <1>1, <1>2
<1>10. \/ kernel' = <<>> /\ \A j \in 1..i' : ~IsAsked(j)'
       \/ \E j \in 1..i' :
            /\ kernel' = <<input'.program[j]>> /\ IsAsked(j)'
            /\ \A k \in 1..i' : IsAsked(k)' => k = j
  <2>1. CASE name = input.name
    <3>1. kernel = <<>> /\ kernel' = <<input.program[i + 1]>>
      BY <1>1, <1>2, <2>1 DEF Here
    <3>2. \A j \in 1..i : ~IsAsked(j)
      BY <1>8, <3>1
    <3> QED
      BY <1>1, <1>6, <1>7, <1>9, <2>1, <3>1, <3>2, Zenon
  <2>2. CASE name # input.name
    <3>1. kernel' = kernel /\ ~IsAsked(i + 1)
      BY <1>1, <1>6, <2>2
    <3>2. CASE kernel = <<>> /\ \A j \in 1..i : ~IsAsked(j)
      BY <1>7, <1>9, <3>1, <3>2, Zenon
    <3>3. ASSUME NEW j \in 1..i, kernel = <<input.program[j]>>, IsAsked(j),
                 \A k \in 1..i : IsAsked(k) => k = j
          PROVE  \E l \in 1..i' :
                   /\ kernel' = <<input'.program[l]>> /\ IsAsked(l)'
                   /\ \A k \in 1..i' : IsAsked(k)' => k = l
      <4>1. j \in 1..i'
        BY <1>9
      <4>2. \A k \in 1..i' : IsAsked(k)' => k = j
        BY <1>7, <1>9, <3>1, <3>3, Zenon
      <4>3. kernel' = <<input'.program[j]>> /\ IsAsked(j)'
        BY <1>1, <1>7, <3>1, <3>3, Zenon
      <4> QED
        BY <4>1, <4>2, <4>3, Zenon
    <3> QED
      BY <1>8, <3>2, <3>3, Zenon
  <2> QED
    BY <2>1, <2>2
<1>11. outcome' = "none"
  BY <1>1
<1>12. Search'
  <2>1. outcome' # "invalid" /\ outcome' # "ok"
    BY <1>11
  <2> QED
    BY <1>10, <2>1, Zenon DEF Search
<1> QED
  BY <1>5, <1>12

LEMMA FinishFollows ==
  ASSUME Reading, Finish
  PROVE  Follows' /\ Search'
<1>1. /\ input' = input /\ pc = "kernel" /\ pc' = "end" /\ outcome = "none" /\ i = hdr.kernels
      /\ outcome' = IF size = 0 /\ kernel # <<>> THEN "ok" ELSE "invalid"
      /\ hdr' = hdr /\ i' = i /\ kernel' = kernel
  BY DEF Finish, At
<1>2. /\ input \in Inputs /\ input.state = "intact" /\ bin \in Nat /\ size \in Nat
      /\ Len(file) \in Nat /\ bin + size = Len(file) /\ i = Len(input.program)
  BY <1>1, ReadingFacts
<1>3. bin = Begin /\ hdr = [device |-> Gen9, kernels |-> Len(input.program)]
  BY <1>1 DEF Reading, Follows
<1>4. Begin = Len(file)
  BY <1>2, IntactFacts DEF Begin
<1>5. size = 0
  BY <1>2, <1>3, <1>4
<1>6. Follows'
  BY <1>1, <1>3 DEF Follows, Inside
<1>7. \A j : j \in Named <=> j \in 1..i /\ IsAsked(j)
  BY <1>2 DEF Named, IsAsked
<1>8. CASE kernel = <<>> /\ \A j \in 1..i : ~IsAsked(j)
  <2>1. outcome' = "invalid"
    BY <1>1, <1>8
  <2>2. Named' = Named /\ \A j \in Named : Named # {j}
    <3>1. Named = {}
      BY <1>7, <1>8
    <3>2. Named' = Named
      BY <1>1 DEF Named
    <3> QED
      BY <3>1, <3>2
  <2>3. kernel' = <<>> /\ \A j \in 1..i' : ~IsAsked(j)'
    BY <1>1, <1>8 DEF IsAsked
  <2>4. outcome' # "ok"
    BY <2>1
  <2> QED
    BY <1>6, <2>2, <2>3, <2>4, Zenon DEF Search
<1>9. ASSUME NEW j \in 1..i, kernel = <<input.program[j]>>, IsAsked(j),
             \A k \in 1..i : IsAsked(k) => k = j
      PROVE  Follows' /\ Search'
  <2>1. outcome' = "ok"
    BY <1>1, <1>5, <1>9
  <2>2. Named' = Named /\ j \in Named /\ Named = {j}
    <3>1. Named' = Named
      BY <1>1 DEF Named
    <3>2. \A k : k \in Named <=> k = j
      BY <1>7, <1>9
    <3> QED
      BY <3>1, <3>2
  <2>3. kernel' = <<input'.program[j]>>
    BY <1>1, <1>9
  <2>4. \E l \in 1..i' :
          /\ kernel' = <<input'.program[l]>> /\ IsAsked(l)'
          /\ \A k \in 1..i' : IsAsked(k)' => k = l
    BY <1>1, <1>9 DEF IsAsked
  <2>5. outcome' # "invalid"
    BY <2>1
  <2>6. \E l \in Named' : Named' = {l} /\ kernel' = <<input'.program[l]>>
    BY <2>2, <2>3, Zenon
  <2> QED
    BY <1>6, <2>4, <2>5, <2>6, Zenon DEF Search
<1> QED
  BY <1>8, <1>9 DEF Reading, Search

(* Two kernels of the name are what an intact file is turned away for.     *)
LEMMA CheckFailsFollows ==
  ASSUME Reading, CheckFails
  PROVE  Follows' /\ Search'
<1>1. /\ outcome = "none" /\ outcome' = "invalid" /\ input' = input /\ pc = "check" /\ pc' = pc
      /\ bin' = bin /\ hdr' = hdr /\ i' = i /\ kernel' = kernel /\ khdr' = khdr /\ start' = start
      /\ name' = name /\ heaps' = heaps /\ params' = params /\ left' = left
      /\ ~ChecksumOk \/ (name = input.name /\ kernel # <<>>)
  BY DEF CheckFails, Throw, At, parts
<1>2. /\ Here = [name |-> name, params |-> params, heaps |-> heaps]
      /\ i \in Nat /\ i < Len(input.program) /\ Len(input.program) \in Nat
      /\ name = input.name /\ kernel # <<>>
  BY <1>1, ChecksumFits
<1>3. /\ Here' = Here /\ Begin' = Begin /\ End' = End /\ Place' = Place
      /\ NameSize' = NameSize /\ HeaderHere' = HeaderHere
  BY <1>1, SameKernel
<1>4. Follows'
  BY <1>1, <1>3 DEF Reading, Follows
<1>5. PICK j \in 1..i :
        /\ kernel = <<input.program[j]>> /\ IsAsked(j)
        /\ \A k \in 1..i : IsAsked(k) => k = j
  BY <1>2 DEF Reading, Search
<1>6. IsAsked(i + 1)
  <2>1. Here.name = name
    BY <1>2
  <2> QED
    BY <1>2, <2>1 DEF IsAsked, Here
<1>7. j \in Named /\ i + 1 \in Named /\ i + 1 # j
  BY <1>2, <1>5, <1>6 DEF Named, IsAsked
<1>8. \A l \in Named : Named # {l}
  BY <1>7
<1>9. Search'
  <2>1. Named' = Named /\ outcome' # "ok"
    BY <1>1 DEF Named
  <2>2. \E l \in 1..i' :
          /\ kernel' = <<input'.program[l]>> /\ IsAsked(l)'
          /\ \A k \in 1..i' : IsAsked(k)' => k = l
    BY <1>1, <1>5 DEF IsAsked
  <2> QED
    BY <1>8, <2>1, <2>2, Zenon DEF Search
<1> QED
  BY <1>4, <1>9

-----------------------------------------------------------------------------
(* No other check turns an intact file away.                               *)
LEMMA HeadersFit ==
  ASSUME Reading
  PROVE  ~ProgramHeaderFails /\ ~KernelHeaderFails /\ ~NameFails
<1>1. ASSUME pc = "program" PROVE ProgramHeaderOk
  <2>1. /\ input \in Inputs /\ input.state = "intact" /\ size \in Nat /\ Len(file) \in Nat
        /\ bin = 0 /\ bin + size = Len(file)
    BY <1>1, ReadingFacts DEF Reading, Follows
  <2>2. /\ WordAt(0) = Magic /\ WordAt(4) = Version /\ WordAt(24) = 0 /\ 28 <= Len(file)
    BY <2>1, IntactFacts
  <2>3. size >= 28
    BY <2>1, <2>2
  <2> QED
    BY <2>1, <2>2, <2>3 DEF ProgramHeaderOk
<1>2. ASSUME pc = "kernel", i < hdr.kernels PROVE KernelHeaderOk
  <2>1. /\ input \in Inputs /\ input.state = "intact" /\ size \in Nat /\ Len(file) \in Nat
        /\ hdr.device = Gen9 /\ i \in Nat /\ i < Len(input.program)
        /\ bin = Begin /\ bin + size = Len(file) /\ bin \in Nat
    BY <1>2, ReadingFacts DEF Reading, Follows
  <2>2. WordAt(Begin + 12) = NameSize /\ NameSize # 0 /\ Begin + 40 <= Len(file)
    BY <2>1, HeaderRead
  <2>3. size >= 40
    BY <2>1, <2>2
  <2> QED
    BY <2>1, <2>2, <2>3 DEF KernelHeaderOk
<1>3. ASSUME pc = "name" PROVE ~(size < khdr.nameSize)
  <2>1. /\ input \in Inputs /\ input.state = "intact" /\ size \in Nat /\ Len(file) \in Nat
        /\ i \in Nat /\ i < Len(input.program) /\ bin + size = Len(file) /\ bin \in Nat
    BY <1>3, ReadingFacts DEF Inside
  <2>2. bin = Begin + 40 /\ khdr.nameSize = NameSize
    BY <1>3 DEF Reading, Follows, Inside, HeaderHere
  <2>3. NameSize \in Nat /\ Begin + 40 + NameSize <= Len(file) /\ Begin \in Nat
    BY <2>1, HereFacts, HeaderRead, BodyRead
  <2> QED
    BY <2>1, <2>2, <2>3
<1> QED
  BY <1>1, <1>2, <1>3
     DEF ProgramHeaderFails, KernelHeaderFails, NameFails, Throw, At

LEMMA BodyFits ==
  ASSUME Reading
  PROVE  ~HeapsFail /\ ~PatchListFails
<1>1. ASSUME pc \in {"heaps", "list"}
      PROVE  /\ input \in Inputs /\ input.state = "intact" /\ size \in Nat /\ Len(file) \in Nat
             /\ i \in Nat /\ i < Len(input.program) /\ bin + size = Len(file) /\ bin \in Nat
             /\ khdr = HeaderHere
  BY <1>1, ReadingFacts DEF Reading, Follows, Inside
<1>2. ASSUME pc = "heaps" PROVE HeapsOk
  <2>1. bin = Begin + 40 + NameSize
    BY <1>2 DEF Reading, Follows, Inside
  <2>2. /\ khdr.kernel = Heap1 /\ khdr.general = 0 /\ khdr.dynamic = Heap2 /\ khdr.surface = Heap3
        /\ khdr.unpadded = Here.heaps.unpadded
    BY <1>1, <1>2 DEF HeaderHere
  <2>3. /\ Heap1 \in Nat /\ Heap2 \in Nat /\ Heap3 \in Nat /\ Heap1 + Heap2 + Heap3 < Word
        /\ Begin + 40 + NameSize + Heap1 + Heap2 + Heap3 <= Len(file)
        /\ Here.heaps.unpadded <= Heap1
    BY <1>1, <1>2, BodyRead, HeaderRead
  <2> DEFINE a == Heap1
             b == Heap2
             c == Heap3
             s == Heap1 + 0 + Heap2 + Heap3
  <2>4. HeapsSize = s % Word
    BY <2>2 DEF HeapsSize
  <2>5. s = a + b + c /\ s \in Nat /\ s < Word
    BY <2>3
  <2> HIDE DEF s
  <2>6. s % Word = s
    BY <2>5, BinaryAssumption, SMTT(60)
  <2>7. HeapsSize = a + b + c
    BY <2>4, <2>5, <2>6
  <2>8. bin + a + b + c <= Len(file)
    BY <2>1, <2>3
  <2> HIDE DEF a, b, c
  <2>9. a \in Nat /\ b \in Nat /\ c \in Nat
    BY <2>3 DEF a, b, c
  <2>10. size >= HeapsSize
    BY <1>1, <1>2, <2>7, <2>8, <2>9
  <2> QED
    BY <2>2, <2>3, <2>10 DEF HeapsOk
<1>3. ASSUME pc = "list" PROVE ~(size < khdr.listSize)
  <2>1. bin = Place[1]
    BY <1>3 DEF Reading, Follows
  <2>2. khdr.listSize = End - Place[1]
    BY <1>1, <1>3 DEF HeaderHere
  <2>3. End <= Len(file) /\ End \in Nat
    BY <1>1, <1>3, HereFacts, HeaderRead
  <2>4. Place[1] \in Nat
    BY <1>1, <1>3, <2>1
  <2> QED
    BY <1>1, <1>3, <2>1, <2>2, <2>3, <2>4
<1> QED
  BY <1>2, <1>3 DEF HeapsFail, PatchListFails, Throw, At

LEMMA ItemFits ==
  ASSUME Reading
  PROVE  ~ItemFails
<1> SUFFICES ASSUME pc = "patch", left > 0 PROVE ItemOk
  BY DEF ItemFails, Throw, At
<1>1. AtEntry /\ Here.params \in Seq(Items) /\ params \in Seq(Items)
  BY PatchEntry
<1>2. /\ Item = Entry /\ Token = Entry.token /\ ItemSize = EntryEnd - bin
      /\ FixedSize \in Nat /\ FixedSize >= 8 /\ Total(StringSizes) \in Nat
      /\ FixedSize + Total(StringSizes) = ItemSize /\ Total(StringSizes) < Word
  BY <1>1, ItemRead
<1>3. /\ bin \in Nat /\ EntryEnd \in Nat /\ End \in Nat /\ EntryEnd <= End /\ Entry \in Items
  BY <1>1, EntryWritten, Zenon
<1>4. left = End - bin /\ \A j \in 1..Len(params) : params[j] = Here.params[j]
  BY DEF Reading, Follows
<1>5. /\ left >= 8 /\ left >= ItemSize /\ ItemSize >= FixedSize
      /\ Total(StringSizes) = ItemSize - FixedSize
  <2> DEFINE f == FixedSize
             t == Total(StringSizes)
             z == ItemSize
  <2>1. f \in Nat /\ f >= 8 /\ t \in Nat /\ f + t = z /\ z = EntryEnd - bin
    BY <1>2
  <2> HIDE DEF f, t, z
  <2>2. left >= 8 /\ left >= z /\ z >= f /\ t = z - f
    BY <1>3, <1>4, <2>1
  <2> QED
    BY <2>2 DEF f, t, z
<1>6. Total(StringSizes) % Word = ItemSize - FixedSize
  <2> DEFINE t == Total(StringSizes)
  <2> HIDE DEF t
  <2>1. t \in Nat /\ t < Word
    BY <1>2 DEF t
  <2>2. t % Word = t
    BY <2>1, BinaryAssumption, SMTT(60)
  <2> QED
    BY <1>5, <2>2 DEF t
<1>7. Token \in 1..ArgumentInfo
  BY <1>2, <1>3 DEF Items
<1>8. Token \in Once => ~Present(Token)
  <2> SUFFICES ASSUME Token \in Once, NEW j \in 1..Len(params), params[j].token = Token
               PROVE  FALSE
    BY DEF Present
  <2>1. \A k, l \in 1..Len(Here.params) :
          Here.params[k].token = Here.params[l].token /\ Here.params[k].token \in Once => k = l
    <3>1. /\ input \in Inputs /\ input.state = "intact" /\ i \in Nat /\ i < Len(input.program)
      BY <1>1 DEF AtEntry
    <3> QED
      BY <3>1, HereFacts, Zenon DEF WrittenKernel
  <2>2. PICK m \in Nat : m = Len(params)
    BY <1>1
  <2>3. PICK l \in Nat : l = Len(Here.params)
    BY <1>1
  <2>4. m < l
    BY <1>1, <2>2, <2>3 DEF AtEntry
  <2>5. j \in 1..l /\ m + 1 \in 1..l /\ j # m + 1
    BY <2>2, <2>4
  <2>6. Here.params[j].token = Token
    BY <1>4
  <2>7. Here.params[m + 1].token = Token
    BY <1>2, <2>2 DEF Entry
  <2> QED
    BY <2>1, <2>3, <2>5, <2>6, <2>7
<1> QED
  BY <1>5, <1>6, <1>7, <1>8 DEF ItemOk

-----------------------------------------------------------------------------
LEMMA InitReading == ASSUME Init, input.state = "intact" PROVE Reading
<1>1. /\ input \in Inputs /\ pc = "program" /\ bin = 0 /\ i = 0 /\ kernel = <<>>
      /\ outcome = "none"
  BY DEF Init
<1>2. Follows
  BY <1>1 DEF Follows, Inside
<1>3. Search
  BY <1>1 DEF Search
<1> QED
  BY <1>2, <1>3, InitIInv DEF Reading

LEMMA NextReading == ASSUME Reading, [Next]_vars PROVE Reading'
<1>1. IInv'
  BY ReadingFits, NextIInv DEF Reading
<1>2. input' = input
  BY DEF Next, vars, ReadProgramHeader, ProgramHeaderFails, ReadKernelHeader, KernelHeaderFails,
         ReadName, NameFails, ReadHeaps, HeapsFail, HeapsNoMemory, StartPatchList, PatchListFails,
         ReadItem, ItemFails, EndPatchList, CheckKernel, CheckFails, Finish, Throw
<1>3. Follows' /\ Search'
  <2>1. CASE ReadProgramHeader \/ ReadKernelHeader \/ ReadName \/ ReadHeaps \/ HeapsNoMemory
    BY <2>1, ProgramHeaderFollows, KernelHeaderFollows, NameFollows, HeapsFollow, NoMemoryFollows
  <2>2. CASE StartPatchList \/ ReadItem \/ EndPatchList
    BY <2>2, StartListFollows, ItemFollows, EndListFollows
  <2>3. CASE CheckKernel \/ CheckFails \/ Finish
    BY <2>3, CheckFollows, CheckFailsFollows, FinishFollows
  <2>4. CASE \/ ProgramHeaderFails \/ KernelHeaderFails \/ NameFails \/ HeapsFail
             \/ PatchListFails \/ ItemFails
    BY <2>4, HeadersFit, BodyFits, ItemFits
  <2>5. CASE UNCHANGED vars
    <3>1. /\ input' = input /\ pc' = pc /\ bin' = bin /\ hdr' = hdr /\ i' = i /\ kernel' = kernel
          /\ khdr' = khdr /\ start' = start /\ name' = name /\ heaps' = heaps
          /\ params' = params /\ left' = left /\ outcome' = outcome
      BY <2>5 DEF vars, parts
    <3>2. /\ Here' = Here /\ Begin' = Begin /\ End' = End /\ Place' = Place
          /\ NameSize' = NameSize /\ HeaderHere' = HeaderHere
      BY <3>1, SameKernel
    <3>3. Follows'
      BY <3>1, <3>2 DEF Reading, Follows
    <3>4. Search'
      BY <3>1 DEF Reading, Search, Named, IsAsked
    <3> QED
      BY <3>3, <3>4
  <2> QED
    BY <2>1, <2>2, <2>3, <2>4, <2>5 DEF Next
<1> QED
  BY <1>1, <1>2, <1>3 DEF Reading

(* Of an input that is not intact nothing is claimed here.                 *)
Intact == input.state = "intact"
ReadingIntact == Intact => Reading

LEMMA IntactInvariance == Spec => []ReadingIntact
<1>1. Init => ReadingIntact
  BY InitReading DEF ReadingIntact, Intact
<1>2. ReadingIntact /\ [Next]_vars => ReadingIntact'
  <2> SUFFICES ASSUME ReadingIntact, [Next]_vars, Intact' PROVE Reading'
    BY DEF ReadingIntact
  <2>1. input' = input
    BY DEF Next, vars, ReadProgramHeader, ProgramHeaderFails, ReadKernelHeader, KernelHeaderFails,
           ReadName, NameFails, ReadHeaps, HeapsFail, HeapsNoMemory, StartPatchList, PatchListFails,
           ReadItem, ItemFails, EndPatchList, CheckKernel, CheckFails, Finish, Throw
  <2> QED
    BY <2>1, NextReading DEF ReadingIntact, Intact
<1> QED
  BY <1>1, <1>2, PTL DEF Spec

(* A file as the compiler writes it is turned away only when it has no     *)
(* kernel of the name, or more than one: no check of igc_progbin.cc and    *)
(* read_kernel refuses what the compiler wrote, whatever its kernels,      *)
(* items, strings and heaps, and whatever the checksum function.           *)
THEOREM IntactAreRead == Spec => []IntactIsRead
<1>1. ReadingIntact => IntactIsRead
  BY DEF ReadingIntact, Intact, Reading, Search, IntactIsRead
<1> QED
  BY IntactInvariance, <1>1, PTL

(* What read_kernel returns from such a file is the one kernel of the name *)
(* with the name, the parameters and the heaps it was written with.        *)
IntactIsFound ==
  (outcome = "ok" /\ input.state = "intact") =>
    \E j \in Named : Named = {j} /\ kernel = <<input.program[j]>>

THEOREM IntactAreFound == Spec => []IntactIsFound
<1>1. ReadingIntact => IntactIsFound
  BY DEF ReadingIntact, Intact, Reading, Search, IntactIsFound
<1> QED
  BY IntactInvariance, <1>1, PTL

-----------------------------------------------------------------------------
(* The other way round: what was read is written in the file.              *)
LEMMA HasIs ==
  ASSUME NEW o \in Nat, o + 4 <= Len(file)
  PROVE  Has(file, o, WordAt(o))
BY DEF Has, WordAt

LEMMA HasBytesIs ==
  ASSUME input \in Inputs, NEW o \in Nat, NEW n \in Nat, o + n <= Len(file)
  PROVE  HasBytes(file, o, Bytes(o, n))
<1>1. Len(Bytes(o, n)) = n /\ Len(file) \in Nat
  BY BytesKnown, InFile
<1>2. ASSUME NEW j \in 1..n PROVE file[o + j] = Bytes(o, n)[j]
  <2>1. o + j <= Len(file)
    BY <1>1
  <2> QED
    BY <2>1 DEF Bytes
<1> QED
  BY <1>1, <1>2, Zenon DEF HasBytes

LEMMA HasTextIs ==
  ASSUME input \in Inputs, NEW o \in Nat, NEW n \in Nat, o + n <= Len(file)
  PROVE  HasText(file, o, n, StringAt(o, n))
<1> DEFINE b == Bytes(o, n)
           ends == {j \in 1..n : b[j] = 0}
           first(j) == \A k \in ends : j <= k
           e == CHOOSE j \in ends : first(j)
           s == StringAt(o, n)
<1>1. b \in Seq(Nat) /\ Len(b) = n /\ Len(file) \in Nat
  BY BytesKnown, InFile
<1>2. ASSUME NEW j \in 1..n PROVE b[j] = file[o + j] /\ b[j] \in Nat
  <2>1. o + j <= Len(file)
    BY <1>1
  <2> QED
    BY <1>1, <2>1 DEF Bytes
<1>3. ends \subseteq 1..n /\ \A j \in 1..n : j \in ends <=> b[j] = 0
  OBVIOUS
<1>4. CASE ends = {}
  <2>1. s = b
    BY <1>4, Zenon DEF StringAt
  <2>2. \A j \in 1..n : file[o + j] = s[j] /\ s[j] # 0
    BY <1>2, <1>3, <1>4, <2>1, Zenon
  <2>3. Len(s) = n
    BY <1>1, <2>1
  <2> HIDE DEF s, ends, b
  <2> QED
    BY <2>2, <2>3 DEF HasText, s
<1>5. CASE ends # {}
  <2>1. PICK k \in ends : \A j \in ends : k <= j
    <3>1. ends \subseteq Nat
      BY <1>3
    <3> HIDE DEF ends
    <3>2. PICK k \in ends : \A j \in ends : <<j, k>> \notin OpToRel(<, Nat)
      BY <1>5, <3>1, NatLessThanWellFounded, WFMin, Zenon
    <3>3. ASSUME NEW j \in ends PROVE k <= j
      <4>1. j < k => <<j, k>> \in OpToRel(<, Nat)
        BY <3>1, Zenon DEF OpToRel
      <4>2. ~(j < k)
        BY <3>2, <4>1, Zenon
      <4> QED
        BY <3>1, <4>2
    <3> QED
      BY <3>3
  <2>2. e \in ends /\ first(e)
    BY <2>1, Zenon
  <2>3. s = SubSeq(b, 1, e - 1)
    BY <1>5, Zenon DEF StringAt
  <2> HIDE DEF e
  <2>4. e \in 1..n /\ b[e] = 0 /\ \A j \in ends : e <= j
    BY <2>2
  <2> HIDE DEF ends, b, s
  <2>5. ASSUME NEW j \in 1..e - 1 PROVE b[j] = file[o + j] /\ b[j] # 0 /\ b[j] \in Nat
    <3>1. j \in 1..n /\ ~(e <= j)
      BY <2>4
    <3> QED
      BY <1>2, <1>3, <2>4, <3>1
  <2>6. Len(s) = e - 1 /\ \A j \in 1..e - 1 : s[j] = b[j]
    BY <2>3, <2>4, <2>5, SubSeqProperties
  <2>7. file[o + Len(s) + 1] = 0
    <3>1. o + Len(s) + 1 = o + e
      BY <2>4, <2>6
    <3> QED
      BY <1>2, <2>4, <3>1
  <2>8. Len(s) <= n /\ \A j \in 1..Len(s) : file[o + j] = s[j] /\ s[j] # 0
    <3>1. Len(s) <= n
      BY <2>4, <2>6
    <3> QED
      BY <2>5, <2>6, <3>1
  <2> QED
    BY <2>7, <2>8 DEF HasText, s
<1> QED
  BY <1>4, <1>5

(* An item is written where it was read.                                   *)
LEMMA ItemIsWritten ==
  ASSUME IInv, SumsFit, At("patch"), left > 0, ItemOk
  PROVE  WrittenItem(file, Item, bin, bin + ItemSize)
<1> DEFINE n == Len(Item.fields)
           m == Len(Item.strings)
           sizes == [j \in 1..m |-> file[bin + 8 + 4 * (n + j - 1) + 1]]
           texts == bin + 8 + 4 * (n + m)
           end == bin + ItemSize
<1>1. /\ input \in Inputs /\ bin \in Nat /\ left \in Nat
      /\ bin + left <= Len(file) /\ Len(file) \in Nat
      /\ left >= ItemSize /\ Token \in 1..ArgumentInfo /\ ItemSize >= FixedSize
      /\ ItemSize \in Nat /\ Total(StringSizes) < Word
      /\ FixedSize \in Nat /\ FixedSize >= 8 /\ bin + FixedSize <= Len(file)
      /\ StringSizes \in Seq(Nat) /\ Len(StringSizes) <= 5 /\ Kinds
  BY ItemShapes, Zenon DEF ItemShape
<1>2. /\ FixedSize + Total(StringSizes) = ItemSize /\ Total(StringSizes) \in Nat
      /\ Item \in Items /\ Item.token = Token
  BY ItemFacts, Zenon
<1>3. m = Len(StringSizes) /\ m \in Nat
  <2>1. PICK l \in Nat : l = Len(StringSizes)
    BY <1>1
  <2>2. Item.strings = [j \in 1..l |->
          StringAt(bin + FixedSize + Total(SubSeq(StringSizes, 1, j - 1)), StringSizes[j])]
    BY <2>1 DEF Item
  <2>3. Len(Item.strings) = l
    BY <2>2, LenProperties
  <2> QED
    BY <2>1, <2>3
<1>4. /\ n \in Nat /\ FixedSize = 8 + 4 * (n + m)
      /\ Item.fields = Words(bin + 8, n)
      /\ \A j \in 1..m : StringSizes[j] = WordAt(bin + 8 + 4 * (n + j - 1))
      /\ \/ Token = AttributesInfo /\ n = 0 /\ m = 1
         \/ Token = ArgumentInfo /\ n = 1 /\ m = 5
         \/ Token \in 1..9 /\ n = FieldCount[Token] /\ m = 0
  <2>1. CASE Token = AttributesInfo /\ FixedSize = 12 /\ StringSizes = <<WordAt(bin + 8)>>
    <3>1. Item.fields = <<>>
      BY <2>1 DEF Item, AttributesInfo, ArgumentInfo
    <3>2. n = 0 /\ m = 1
      BY <1>3, <2>1, <3>1
    <3>3. Item.fields = Words(bin + 8, 0)
      BY <3>1 DEF Words
    <3>4. \A j \in 1..1 : StringSizes[j] = WordAt(bin + 8 + 4 * (0 + j - 1))
      <4>1. StringSizes[1] = WordAt(bin + 8)
        BY <2>1
      <4>2. bin + 8 + 4 * (0 + 1 - 1) = bin + 8 /\ \A j \in 1..1 : j = 1
        BY <1>1
      <4> QED
        BY <4>1, <4>2, Zenon
    <3> HIDE DEF n, m
    <3> QED
      BY <2>1, <3>2, <3>3, <3>4
  <2>2. CASE Token = ArgumentInfo /\ FixedSize = 32 /\ StringSizes = Words(bin + 12, 5)
    <3>1. Item.fields = Words(bin + 8, 1)
      BY <2>2 DEF Item, AttributesInfo, ArgumentInfo
    <3>2. bin + 12 \in Nat /\ bin + 12 + 4 * 5 <= Len(file) /\ bin + 8 \in Nat /\ bin + 8 + 4 * 1 <= Len(file)
      BY <1>1, <2>2
    <3>3. n = 1 /\ m = 5
      <4>1. Len(Words(bin + 8, 1)) = 1
        BY <1>1, <3>2, WordsKnown
      <4>2. Len(Words(bin + 12, 5)) = 5
        BY <1>1, <3>2, WordsKnown
      <4> QED
        BY <1>3, <2>2, <3>1, <4>1, <4>2, Zenon
    <3>4. \A j \in 1..5 : StringSizes[j] = WordAt(bin + 8 + 4 * (1 + j - 1))
      <4>1. ASSUME NEW j \in 1..5 PROVE StringSizes[j] = WordAt(bin + 8 + 4 * (1 + j - 1))
        <5>1. StringSizes[j] = WordAt(bin + 12 + 4 * (j - 1))
          BY <2>2 DEF Words
        <5>2. bin + 12 + 4 * (j - 1) = bin + 8 + 4 * (1 + j - 1)
          BY <1>1
        <5> QED
          BY <5>1, <5>2, Zenon
      <4> QED
        BY <4>1
    <3> HIDE DEF n, m
    <3> QED
      BY <2>2, <3>1, <3>3, <3>4
  <2>3. CASE /\ Token \in 1..9 /\ FixedSize = 8 + 4 * FieldCount[Token]
             /\ FieldCount[Token] \in 1..33 /\ StringSizes = <<>>
    <3> DEFINE c == FieldCount[Token]
    <3>1. Token # AttributesInfo /\ Token # ArgumentInfo
      BY <2>3 DEF AttributesInfo, ArgumentInfo
    <3>2. Item.fields = Words(bin + 8, c) /\ m = 0
      BY <1>3, <2>3, <3>1 DEF Item
    <3>3. c \in 1..33 /\ FixedSize = 8 + 4 * c
      BY <2>3, Zenon
    <3> HIDE DEF c
    <3>4. n = c
      <4>1. bin + 8 \in Nat /\ bin + 8 + 4 * c <= Len(file)
        BY <1>1, <3>3
      <4>2. c \in Nat
        BY <3>3
      <4> QED
        BY <1>1, <3>2, <4>1, <4>2, WordsKnown
    <3>5. Token \in 1..9 /\ n = FieldCount[Token]
      BY <2>3, <3>4 DEF c
    <3> HIDE DEF n, m
    <3> QED
      BY <3>2, <3>3, <3>4, <3>5
  <2> QED
    BY <1>1, <2>1, <2>2, <2>3 DEF Kinds
<1> HIDE DEF n, m
<1>5. end \in Nat /\ end <= Len(file) /\ texts = bin + FixedSize /\ texts <= end
      /\ texts \in Nat /\ end = texts + Total(StringSizes) /\ end - bin = ItemSize
  <2> DEFINE T == Total(StringSizes)
             F == FixedSize
             z == ItemSize
             L == Len(file)
  <2>1. /\ T \in Nat /\ F + T = z /\ F \in Nat /\ z \in Nat /\ bin \in Nat /\ left \in Nat
        /\ bin + left <= L /\ L \in Nat /\ left >= z /\ texts = bin + F
    BY <1>1, <1>2, <1>3, <1>4
  <2> HIDE DEF T, F, z, L, texts
  <2>2. /\ bin + z \in Nat /\ bin + z <= L /\ texts <= bin + z
        /\ texts \in Nat /\ bin + z = texts + T /\ (bin + z) - bin = z
    BY <2>1
  <2> QED
    BY <2>1, <2>2, Zenon DEF T, F, z, L
<1>6. sizes = StringSizes
  <2>1. ASSUME NEW j \in 1..m PROVE sizes[j] = StringSizes[j] /\ sizes[j] \in Nat
    <3> DEFINE o == bin + 8 + 4 * (n + j - 1)
    <3>1. o + 4 <= Len(file) /\ o \in Nat
      BY <1>1, <1>3, <1>4
    <3>2. sizes[j] = file[o + 1]
      OBVIOUS
    <3>3. StringSizes[j] = WordAt(o)
      BY <1>4
    <3> HIDE DEF o
    <3>4. WordAt(o) = file[o + 1]
      BY <3>1, Zenon DEF WordAt
    <3> HIDE DEF sizes
    <3>5. StringSizes[j] \in Nat
      BY <1>1, <1>3
    <3> QED
      BY <3>2, <3>3, <3>4, <3>5
  <2>2. sizes \in Seq(Nat) /\ Len(sizes) = m
    <3>1. sizes \in [1..m -> Nat]
      BY <2>1
    <3>2. [1..m -> Nat] \subseteq Seq(Nat)
      BY <1>3, SeqDef
    <3> HIDE DEF sizes
    <3> QED
      BY <1>3, <3>1, <3>2, LenProperties
  <2> HIDE DEF sizes
  <2> QED
    BY <1>1, <1>3, <2>1, <2>2, SeqEqual
<1>7. Has(file, bin, Item.token) /\ Has(file, bin + 4, end - bin)
  <2>1. bin + 4 <= Len(file) /\ bin + 4 + 4 <= Len(file) /\ bin + 4 \in Nat
    BY <1>1
  <2>2. Has(file, bin, Token) /\ Has(file, bin + 4, ItemSize)
    BY <1>1, <2>1, HasIs DEF Token, ItemSize
  <2> QED
    BY <1>2, <1>5, <2>2, Zenon
<1>8. ASSUME NEW j \in 1..n PROVE Has(file, bin + 8 + 4 * (j - 1), Item.fields[j])
  <2> DEFINE o == bin + 8 + 4 * (j - 1)
  <2>1. o \in Nat /\ o + 4 <= Len(file)
    BY <1>1, <1>3, <1>4
  <2>2. Item.fields[j] = WordAt(o)
    BY <1>4 DEF Words
  <2> HIDE DEF o
  <2>3. Has(file, o, Item.fields[j])
    BY <2>1, <2>2, HasIs
  <2> QED
    BY <2>3 DEF o
<1>9. ASSUME NEW j \in 1..m
      PROVE  HasText(file, texts + Total(SubSeq(sizes, 1, j - 1)), sizes[j], Item.strings[j])
  <2> DEFINE T == Total(SubSeq(StringSizes, 1, j - 1))
             l == StringSizes[j]
             o == bin + FixedSize + T
  <2>1. Item.strings[j] = StringAt(o, l)
    BY <1>3 DEF Item
  <2>2. T \in Nat /\ l \in Nat /\ T + l <= Total(StringSizes)
    <3>1. \A k \in 1..Len(StringSizes) :
            /\ Total(SubSeq(StringSizes, 1, k - 1)) \in Nat
            /\ Total(SubSeq(StringSizes, 1, k - 1)) + StringSizes[k] <= Total(StringSizes)
      BY <1>1, Totals
    <3>2. j \in 1..Len(StringSizes)
      BY <1>3
    <3>3. l \in Nat
      BY <1>1, <3>2
    <3> QED
      BY <3>1, <3>2, <3>3, Zenon
  <2>3. o \in Nat /\ o + l <= Len(file)
    <3> DEFINE S == Total(StringSizes)
    <3>1. S \in Nat /\ FixedSize + S = ItemSize /\ T + l <= S
      BY <1>2, <2>2
    <3>2. bin + ItemSize <= Len(file)
      BY <1>5
    <3> HIDE DEF T, l, S
    <3> QED
      BY <1>1, <2>2, <3>1, <3>2
  <2> HIDE DEF T, l
  <2>4. HasText(file, o, l, StringAt(o, l))
    BY <1>1, <2>2, <2>3, HasTextIs
  <2>5. o = texts + T
    BY <1>5
  <2> HIDE DEF o, texts
  <2> QED
    BY <1>6, <2>1, <2>4, <2>5, Zenon DEF T, l
<1>10. /\ CASE Item.token = AttributesInfo -> n = 0 /\ m = 1
            [] Item.token = ArgumentInfo -> n = 1 /\ m = 5
            [] OTHER -> n = FieldCount[Item.token] /\ m = 0
  BY <1>2, <1>4 DEF AttributesInfo, ArgumentInfo
<1>11. texts <= end /\ end = texts + Total(sizes) /\ Total(sizes) < Word
  BY <1>1, <1>5, <1>6, Zenon
<1> QED
  BY <1>7, <1>8, <1>9, <1>10, <1>11, Zenon DEF WrittenItem, n, m

-----------------------------------------------------------------------------
(* What was read so far is written in the file: the program's header, the  *)
(* parts of the kernel at hand, and the kernels before it.                 *)
HeaderIsRead ==
  /\ pc = "program" => bin = 0 /\ i = 0 /\ kernel = <<>>
  /\ pc # "program" =>
       /\ Has(file, 0, Magic) /\ Has(file, 4, Version) /\ Has(file, 8, hdr.device)
       /\ Has(file, 16, hdr.kernels) /\ Has(file, 24, 0)
  /\ i > 0 \/ pc \in Inside => hdr.device = Gen9

Origin == start - 40
KernelHeaderIsRead ==
  pc \in Inside =>
    /\ start \in Nat /\ Origin \in Nat /\ khdr.nameSize # 0
    /\ Has(file, Origin, khdr.checksum) /\ Has(file, Origin + 12, khdr.nameSize)
    /\ Has(file, Origin + 16, khdr.listSize) /\ Has(file, Origin + 20, khdr.kernel)
    /\ Has(file, Origin + 24, khdr.general) /\ Has(file, Origin + 28, khdr.dynamic)
    /\ Has(file, Origin + 32, khdr.surface) /\ Has(file, Origin + 36, khdr.unpadded)

NameIsRead ==
  /\ pc = "name" => bin = start
  /\ pc = "heaps" => bin = start + khdr.nameSize
  /\ pc \in Inside \ {"name"} => HasText(file, start, khdr.nameSize, name)

Behind == {"list", "patch", "check"}
HeapStart == start + khdr.nameSize
ListStart == HeapStart + khdr.kernel + khdr.dynamic + khdr.surface
HeapsAreRead ==
  /\ pc = "list" => bin = ListStart
  /\ pc \in Behind =>
       /\ khdr.general = 0 /\ khdr.kernel + khdr.dynamic + khdr.surface < Word
       /\ heaps.unpadded = khdr.unpadded /\ khdr.unpadded <= khdr.kernel
       /\ Len(heaps.kernel) = khdr.kernel /\ HasBytes(file, HeapStart, heaps.kernel)
       /\ Len(heaps.dynamic) = khdr.dynamic
       /\ HasBytes(file, HeapStart + khdr.kernel, heaps.dynamic)
       /\ Len(heaps.surface) = khdr.surface
       /\ HasBytes(file, HeapStart + khdr.kernel + khdr.dynamic, heaps.surface)

ItemsRead(its) ==
  /\ Len(its) = Len(params) + 1 /\ its[1] = ListStart /\ its[Len(params) + 1] = bin
  /\ \A j \in 1..Len(params) + 1 : its[j] <= bin
  /\ \A j \in 1..Len(params) : WrittenItem(file, params[j], its[j], its[j + 1])
ListIsRead ==
  /\ pc = "patch" => bin + left = ListStart + khdr.listSize
  /\ pc = "check" => bin = ListStart + khdr.listSize
  /\ pc \in {"patch", "check"} => \E its \in Seq(Nat) : ItemsRead(its)

(* Where the kernels end that were read, and those that have the name.     *)
Reached == IF pc \in Inside THEN Origin ELSE bin
KeptOf(p) ==
  /\ \A j, l \in 1..i : p[j].name = input.name /\ p[l].name = input.name => j = l
  /\ \A j \in 1..i : p[j].name = input.name => kernel = <<p[j]>>
  /\ kernel # <<>> => \E j \in 1..i : p[j].name = input.name
KernelsRead(p, ks, its) ==
  /\ Len(p) = i /\ Len(ks) = i + 1 /\ Len(its) = i
  /\ ks[1] = 28 /\ ks[i + 1] = Reached
  /\ \A j \in 1..i : WrittenKernel(file, p[j], ks[j], its[j], ks[j + 1])
  /\ KeptOf(p)
KernelsAreRead ==
  pc # "program" =>
    \E p \in Seq(Kernels), ks \in Seq(Nat), its \in Seq(Seq(Nat)) : KernelsRead(p, ks, its)

PartsAreRead == KernelHeaderIsRead /\ NameIsRead /\ HeapsAreRead /\ ListIsRead
AsRead == HeaderIsRead /\ PartsAreRead /\ KernelsAreRead

-----------------------------------------------------------------------------
LEMMA InitAsRead == ASSUME Init PROVE AsRead
<1>1. pc = "program" /\ bin = 0 /\ i = 0 /\ kernel = <<>>
  BY DEF Init
<1>2. PartsAreRead
  BY <1>1 DEF PartsAreRead, KernelHeaderIsRead, NameIsRead, HeapsAreRead, ListIsRead, Inside, Behind
<1> QED
  BY <1>1, <1>2 DEF AsRead, HeaderIsRead, KernelsAreRead, Inside

(* A step within a kernel, and one that reads nothing.                     *)
LEMMA SameKernels ==
  ASSUME KernelsAreRead, input' = input, i' = i, kernel' = kernel, pc # "program",
         Reached' = Reached
  PROVE  KernelsAreRead'
<1>1. PICK p \in Seq(Kernels), ks \in Seq(Nat), its \in Seq(Seq(Nat)) : KernelsRead(p, ks, its)
  BY DEF KernelsAreRead
<1>2. KernelsRead(p, ks, its)'
  BY <1>1 DEF KernelsRead, KeptOf, file
<1> QED
  BY <1>2, Zenon DEF KernelsAreRead

LEMMA SameParts ==
  ASSUME PartsAreRead, input' = input, pc' = pc, bin' = bin, parts' = parts
  PROVE  PartsAreRead'
<1>1. /\ file' = file /\ khdr' = khdr /\ start' = start /\ name' = name /\ heaps' = heaps
      /\ params' = params /\ left' = left
  BY DEF file, parts
<1>2. KernelHeaderIsRead' /\ NameIsRead'
  BY <1>1 DEF PartsAreRead, KernelHeaderIsRead, NameIsRead, Origin
<1>3. HeapsAreRead'
  BY <1>1 DEF PartsAreRead, HeapsAreRead, HeapStart, ListStart
<1>4. ListIsRead'
  <2>1. \A its : ItemsRead(its) => ItemsRead(its)'
    BY <1>1 DEF ItemsRead, ListStart, HeapStart
  <2>2. ListStart' = ListStart
    BY <1>1 DEF ListStart, HeapStart
  <2> QED
    BY <1>1, <2>1, <2>2 DEF PartsAreRead, ListIsRead
<1> QED
  BY <1>2, <1>3, <1>4 DEF PartsAreRead

LEMMA QuietAsRead ==
  ASSUME AsRead, input' = input, pc' = pc, bin' = bin, hdr' = hdr, i' = i, kernel' = kernel,
         parts' = parts
  PROVE  AsRead'
<1>1. HeaderIsRead'
  BY DEF AsRead, HeaderIsRead, file
<1>2. PartsAreRead'
  BY SameParts DEF AsRead
<1>3. KernelsAreRead'
  <2>1. CASE pc = "program"
    BY <2>1 DEF KernelsAreRead
  <2>2. CASE pc # "program"
    <3>1. Reached' = Reached
      BY DEF Reached, Origin, parts
    <3> QED
      BY <2>2, <3>1, SameKernels DEF AsRead
  <2> QED
    BY <2>1, <2>2
<1> QED
  BY <1>1, <1>2, <1>3 DEF AsRead

LEMMA ProgramHeaderAsRead == ASSUME IInv, AsRead, ReadProgramHeader PROVE AsRead'
<1>1. /\ input' = input /\ pc = "program" /\ pc' = "kernel"
      /\ bin' = bin + 28 /\ size >= 28 /\ bin = 0 /\ i = 0 /\ kernel = <<>>
      /\ WordAt(bin) = Magic /\ WordAt(bin + 4) = Version /\ WordAt(bin + 24) = 0
      /\ hdr' = [device |-> WordAt(bin + 8), kernels |-> WordAt(bin + 16)]
      /\ i' = i /\ kernel' = kernel /\ file' = file
  BY DEF AsRead, HeaderIsRead, ReadProgramHeader, ProgramHeaderOk, At, Consume, file
<1>2. Len(file) \in Nat /\ 28 <= Len(file)
  BY <1>1, InFile DEF IInv, TypeOK, PositionAgrees
<1>3. /\ Has(file, 0, WordAt(0)) /\ Has(file, 4, WordAt(4)) /\ Has(file, 8, WordAt(8))
      /\ Has(file, 16, WordAt(16)) /\ Has(file, 24, WordAt(24))
  BY <1>2, HasIs
<1>4. HeaderIsRead'
  <2>1. /\ WordAt(0) = Magic /\ WordAt(4) = Version /\ WordAt(24) = 0
        /\ hdr'.device = WordAt(8) /\ hdr'.kernels = WordAt(16)
    BY <1>1
  <2> QED
    BY <1>1, <1>3, <2>1 DEF HeaderIsRead, Inside
<1>5. PartsAreRead'
  BY <1>1 DEF PartsAreRead, KernelHeaderIsRead, NameIsRead, HeapsAreRead, ListIsRead, Inside,
              Behind
<1>6. KernelsAreRead'
  <2> DEFINE ks == <<28>>
  <2>1. ks \in Seq(Nat) /\ Len(ks) = 1 /\ ks[1] = 28
    OBVIOUS
  <2>2. Reached' = 28
    BY <1>1 DEF Reached, Inside
  <2>3. <<>> \in Seq(Kernels) /\ <<>> \in Seq(Seq(Nat)) /\ Len(<<>>) = 0
    OBVIOUS
  <2> HIDE DEF ks
  <2>4. KernelsRead(<<>>, ks, <<>>)'
    BY <1>1, <2>1, <2>2, <2>3 DEF KernelsRead, KeptOf
  <2> QED
    BY <2>1, <2>3, <2>4, Zenon DEF KernelsAreRead
<1> QED
  BY <1>4, <1>5, <1>6 DEF AsRead

LEMMA KernelHeaderAsRead == ASSUME IInv, AsRead, ReadKernelHeader PROVE AsRead'
<1>1. /\ input' = input /\ file' = file /\ pc = "kernel" /\ pc' = "name"
      /\ bin' = bin + 40 /\ start' = bin + 40 /\ size >= 40
      /\ hdr.device = Gen9 /\ WordAt(bin + 12) # 0
      /\ khdr' = [checksum |-> WordAt(bin), nameSize |-> WordAt(bin + 12),
                  listSize |-> WordAt(bin + 16), kernel |-> WordAt(bin + 20),
                  general |-> WordAt(bin + 24), dynamic |-> WordAt(bin + 28),
                  surface |-> WordAt(bin + 32), unpadded |-> WordAt(bin + 36)]
      /\ hdr' = hdr /\ i' = i /\ kernel' = kernel
  BY DEF ReadKernelHeader, KernelHeaderOk, At, Consume, file
<1>2. bin \in Nat /\ bin + 40 <= Len(file)
  BY <1>1, InFile DEF IInv, TypeOK, PositionAgrees
<1>3. HeaderIsRead'
  BY <1>1 DEF AsRead, HeaderIsRead
<1>4. Origin' = bin
  BY <1>1, <1>2 DEF Origin
<1>5. KernelHeaderIsRead'
  <2>1. \A d \in {12, 16, 20, 24, 28, 32, 36} : Has(file, bin + d, WordAt(bin + d))
    <3>1. ASSUME NEW d \in {12, 16, 20, 24, 28, 32, 36} PROVE Has(file, bin + d, WordAt(bin + d))
      <4>1. bin + d \in Nat /\ bin + d + 4 <= Len(file)
        BY <1>2, InFile DEF IInv
      <4> QED
        BY <4>1, HasIs
    <3> QED
      BY <3>1
  <2>2. Has(file, bin, WordAt(bin))
    <3>1. bin + 4 <= Len(file)
      BY <1>2, InFile DEF IInv
    <3> QED
      BY <1>2, <3>1, HasIs
  <2>3. start' \in Nat /\ Origin' \in Nat /\ khdr'.nameSize # 0
    BY <1>1, <1>2, <1>4
  <2> QED
    BY <1>1, <1>4, <2>1, <2>2, <2>3 DEF KernelHeaderIsRead
<1>6. NameIsRead' /\ HeapsAreRead' /\ ListIsRead'
  BY <1>1 DEF NameIsRead, HeapsAreRead, ListIsRead, Inside, Behind
<1>7. KernelsAreRead'
  <2>1. Reached' = Reached
    BY <1>1, <1>4 DEF Reached, Inside
  <2> QED
    BY <1>1, <2>1, SameKernels DEF AsRead
<1> QED
  BY <1>3, <1>5, <1>6, <1>7 DEF AsRead, PartsAreRead

(* Steps within a kernel leave its header and the kernels before it.       *)
LEMMA WithinKernel ==
  ASSUME AsRead, input' = input, khdr' = khdr, start' = start, hdr' = hdr, i' = i,
         kernel' = kernel, pc \in Inside, pc' \in Inside
  PROVE  HeaderIsRead' /\ KernelHeaderIsRead' /\ KernelsAreRead'
<1>1. file' = file /\ Origin' = Origin /\ Reached' = Reached /\ pc # "program" /\ pc' # "program"
  BY DEF file, Origin, Reached, Inside
<1>2. HeaderIsRead'
  BY <1>1 DEF AsRead, HeaderIsRead
<1>3. KernelHeaderIsRead'
  BY <1>1 DEF AsRead, PartsAreRead, KernelHeaderIsRead
<1>4. KernelsAreRead'
  BY <1>1, SameKernels DEF AsRead
<1> QED
  BY <1>2, <1>3, <1>4

LEMMA KernelHeaderTypes ==
  ASSUME IInv, AsRead, pc \in Inside
  PROVE  /\ khdr.nameSize \in Nat /\ khdr.listSize \in Nat /\ khdr.kernel \in Nat
         /\ khdr.dynamic \in Nat /\ khdr.surface \in Nat /\ khdr.unpadded \in Nat
         /\ start \in Nat /\ bin \in Nat /\ Len(file) \in Nat
BY InFile DEF IInv, Header, TypeOK, AsRead, PartsAreRead, KernelHeaderIsRead

LEMMA NameAsRead == ASSUME IInv, AsRead, ReadName PROVE AsRead'
<1>1. /\ input' = input /\ file' = file /\ pc = "name" /\ pc' = "heaps"
      /\ bin' = bin + khdr.nameSize /\ size >= khdr.nameSize
      /\ name' = StringAt(bin, khdr.nameSize)
      /\ khdr' = khdr /\ start' = start /\ hdr' = hdr /\ i' = i /\ kernel' = kernel
  BY DEF ReadName, At, Consume, file
<1>2. pc \in Inside /\ pc' \in Inside
  BY <1>1 DEF Inside
<1>3. /\ input \in Inputs /\ bin \in Nat /\ khdr.nameSize \in Nat
      /\ bin + khdr.nameSize <= Len(file) /\ bin = start
  <2>1. /\ khdr.nameSize \in Nat /\ bin \in Nat /\ Len(file) \in Nat
    BY <1>2, KernelHeaderTypes
  <2>2. bin + size = Len(file) /\ size \in Nat /\ input \in Inputs /\ bin = start
    BY <1>1, <2>1 DEF IInv, PositionAgrees, TypeOK, AsRead, PartsAreRead, NameIsRead
  <2> QED
    BY <1>1, <2>1, <2>2
<1>4. NameIsRead'
  <2>1. HasText(file, start, khdr.nameSize, StringAt(start, khdr.nameSize))
    BY <1>3, HasTextIs
  <2> QED
    BY <1>1, <1>3, <2>1 DEF NameIsRead
<1>5. HeapsAreRead' /\ ListIsRead'
  BY <1>1 DEF HeapsAreRead, ListIsRead, Behind
<1> QED
  BY <1>1, <1>2, <1>4, <1>5, WithinKernel DEF AsRead, PartsAreRead

LEMMA HeapsAsRead == ASSUME IInv, SumsFit, AsRead, ReadHeaps PROVE AsRead'
<1>1. /\ input' = input /\ file' = file /\ pc = "heaps" /\ pc' = "list"
      /\ bin' = bin + khdr.kernel + khdr.dynamic + khdr.surface
      /\ khdr.general = 0 /\ khdr.unpadded <= khdr.kernel
      /\ heaps' = [kernel |-> Bytes(bin, khdr.kernel), unpadded |-> khdr.unpadded,
                   dynamic |-> Bytes(bin + khdr.kernel, khdr.dynamic),
                   surface |-> Bytes(bin + khdr.kernel + khdr.dynamic, khdr.surface)]
      /\ khdr' = khdr /\ start' = start /\ name' = name /\ hdr' = hdr /\ i' = i
      /\ kernel' = kernel
      /\ khdr.kernel + khdr.general + khdr.dynamic + khdr.surface < Word
  BY DEF ReadHeaps, HeapsOk, At, SumsFit, file
<1>2. pc \in Inside /\ pc' \in Inside
  BY <1>1 DEF Inside
<1>3. /\ bin \in Nat /\ Len(file) \in Nat /\ input \in Inputs
      /\ khdr.kernel \in Nat /\ khdr.dynamic \in Nat /\ khdr.surface \in Nat
      /\ bin = HeapStart
  BY <1>1, <1>2, KernelHeaderTypes DEF IInv, AsRead, PartsAreRead, NameIsRead, HeapStart
<1>4. bin' + size' = Len(file) /\ size' \in Nat
  <2>1. IInv'
    BY HeapsStep
  <2> QED
    BY <1>1, <2>1 DEF IInv, PositionAgrees, TypeOK
<1> DEFINE a == khdr.kernel
           b == khdr.dynamic
           c == khdr.surface
<1>5. /\ bin + a <= Len(file) /\ bin + a + b <= Len(file) /\ bin + a + b + c <= Len(file)
      /\ bin + a \in Nat /\ bin + a + b \in Nat /\ a + b + c < Word
  <2> DEFINE L == Len(file)
             g == khdr.general
  <2>1. /\ bin' = bin + a + b + c /\ bin' + size' = L /\ size' \in Nat /\ L \in Nat
        /\ bin \in Nat /\ a \in Nat /\ b \in Nat /\ c \in Nat
        /\ a + g + b + c < Word /\ g = 0 /\ Word \in Nat
    BY <1>1, <1>3, <1>4, BinaryAssumption
  <2> HIDE DEF a, b, c, g, L
  <2>2. a + b + c < Word
    BY <2>1
  <2>3. bin + a + b + c <= L
    <3>1. bin + a + b + c \in Nat
      BY <2>1
    <3>2. (bin + a + b + c) + size' = L
      BY <2>1, Zenon
    <3>3. PICK t \in Nat : t = bin + a + b + c
      BY <3>1, Zenon
    <3>4. PICK r \in Nat : r = size'
      BY <2>1, Zenon
    <3>5. PICK l \in Nat : l = L
      BY <2>1, Zenon
    <3>6. t + r = l
      BY <3>2, <3>3, <3>4, <3>5, Zenon
    <3>7. t <= l
      BY <3>6
    <3> QED
      BY <3>3, <3>5, <3>7, Zenon
  <2>4. bin + a <= L /\ bin + a + b <= L /\ bin + a \in Nat /\ bin + a + b \in Nat
    BY <2>1, <2>3
  <2> QED
    BY <2>2, <2>3, <2>4 DEF L
<1>6. /\ HasBytes(file, bin, Bytes(bin, a)) /\ Len(Bytes(bin, a)) = a
      /\ HasBytes(file, bin + a, Bytes(bin + a, b)) /\ Len(Bytes(bin + a, b)) = b
      /\ HasBytes(file, bin + a + b, Bytes(bin + a + b, c)) /\ Len(Bytes(bin + a + b, c)) = c
  <2>1. a \in Nat /\ b \in Nat /\ c \in Nat
    BY <1>3
  <2> HIDE DEF a, b, c
  <2> QED
    BY <1>3, <1>5, <2>1, HasBytesIs, BytesKnown
<1>7. /\ heaps'.kernel = Bytes(bin, a) /\ heaps'.dynamic = Bytes(bin + a, b)
      /\ heaps'.surface = Bytes(bin + a + b, c) /\ heaps'.unpadded = khdr.unpadded
  BY <1>1
<1>8. HeapsAreRead'
  <2>1. /\ HeapStart' = bin /\ ListStart' = bin' /\ khdr'.kernel = a /\ khdr'.dynamic = b
        /\ khdr'.surface = c
    BY <1>1, <1>3 DEF ListStart, HeapStart
  <2> HIDE DEF a, b, c
  <2>2. khdr'.general = 0 /\ khdr'.unpadded <= a /\ heaps'.unpadded = khdr'.unpadded
    BY <1>1, <1>7 DEF a
  <2> QED
    BY <1>1, <1>5, <1>6, <1>7, <2>1, <2>2, Zenon DEF HeapsAreRead
<1>9. NameIsRead' /\ ListIsRead'
  BY <1>1, <1>2 DEF AsRead, PartsAreRead, NameIsRead, ListIsRead, Inside
<1> QED
  BY <1>1, <1>2, <1>8, <1>9, WithinKernel DEF AsRead, PartsAreRead

LEMMA StartListAsRead == ASSUME IInv, AsRead, StartPatchList PROVE AsRead'
<1>1. /\ input' = input /\ file' = file /\ pc = "list" /\ pc' = "patch" /\ bin' = bin
      /\ left' = khdr.listSize /\ params' = <<>>
      /\ khdr' = khdr /\ start' = start /\ name' = name /\ heaps' = heaps /\ hdr' = hdr
      /\ i' = i /\ kernel' = kernel
  BY DEF StartPatchList, At, file
<1>2. pc \in Inside /\ pc' \in Inside
  BY <1>1 DEF Inside
<1>3. bin \in Nat /\ bin = ListStart /\ ListStart' = ListStart
  BY <1>1, <1>2, KernelHeaderTypes DEF AsRead, PartsAreRead, HeapsAreRead, ListStart, HeapStart
<1>4. NameIsRead'
  BY <1>1, <1>2 DEF AsRead, PartsAreRead, NameIsRead, Inside
<1>5. HeapsAreRead'
  BY <1>1 DEF AsRead, PartsAreRead, HeapsAreRead, HeapStart, Behind
<1>6. ListIsRead'
  <2>1. PICK its \in Seq(Nat) : Len(its) = 1 /\ its[1] = bin
    <3>1. <<bin>> \in Seq(Nat) /\ Len(<<bin>>) = 1 /\ <<bin>>[1] = bin
      BY <1>3
    <3> QED
      BY <3>1, Zenon
  <2>2. ItemsRead(its)'
    <3>1. Len(params') = 0 /\ 0 + 1 = 1
      BY <1>1
    <3>2. \A j \in 1..1 : its[j] <= bin
      BY <1>3, <2>1
    <3>3. \A j \in 1..0 : WrittenItem(file', params'[j], its[j], its[j + 1])
      OBVIOUS
    <3>4. its[1] = ListStart
      BY <1>3, <2>1
    <3> QED
      BY <1>1, <1>3, <2>1, <3>1, <3>2, <3>3, <3>4, Zenon DEF ItemsRead
  <2>3. bin' + left' = ListStart' + khdr'.listSize
    BY <1>1, <1>3
  <2> QED
    BY <1>1, <2>1, <2>2, <2>3 DEF ListIsRead
<1> QED
  BY <1>1, <1>2, <1>4, <1>5, <1>6, WithinKernel DEF AsRead, PartsAreRead

LEMMA ItemAsRead == ASSUME IInv, SumsFit, AsRead, ReadItem PROVE AsRead'
<1> DEFINE e == Item
           z == ItemSize
<1>1. /\ input' = input /\ file' = file /\ pc = "patch" /\ pc' = "patch"
      /\ bin' = bin + FixedSize + Total(StringSizes) /\ params' = Append(params, e)
      /\ left' = left - z /\ At("patch") /\ left > 0 /\ ItemOk
      /\ khdr' = khdr /\ start' = start /\ name' = name /\ heaps' = heaps /\ hdr' = hdr
      /\ i' = i /\ kernel' = kernel
  BY DEF ReadItem, At, file
<1>2. pc \in Inside /\ pc' \in Inside
  BY <1>1 DEF Inside
<1>3. /\ z \in 1..left /\ FixedSize + Total(StringSizes) = z /\ FixedSize \in Nat
      /\ Total(StringSizes) \in Nat /\ e \in Items
  BY <1>1, ItemFacts
<1>4. WrittenItem(file, e, bin, bin + z)
  BY <1>1, ItemIsWritten
<1>5. bin \in Nat /\ params \in Seq(Items) /\ left \in Nat
  BY <1>1, InFile DEF IInv, TypeOK
<1>6. bin' = bin + z
  <2> DEFINE F == FixedSize
             T == Total(StringSizes)
  <2>1. bin' = bin + F + T /\ F + T = z /\ F \in Nat /\ T \in Nat
    BY <1>1, <1>3
  <2> HIDE DEF F, T, z
  <2> QED
    BY <1>5, <2>1
<1> HIDE DEF e, z
<1>7. NameIsRead'
  BY <1>1, <1>2 DEF AsRead, PartsAreRead, NameIsRead, Inside
<1>8. HeapsAreRead'
  BY <1>1 DEF AsRead, PartsAreRead, HeapsAreRead, HeapStart, Behind
<1>9. ListStart' = ListStart
  BY <1>1 DEF ListStart, HeapStart
<1>10. bin' + left' = ListStart' + khdr'.listSize
  <2>1. bin + left = ListStart + khdr.listSize
    BY <1>1 DEF AsRead, PartsAreRead, ListIsRead
  <2>2. bin' + left' = bin + left
    <3>1. z \in Nat /\ left' = left - z
      BY <1>1, <1>3, <1>5
    <3> QED
      BY <1>5, <1>6, <3>1
  <2> QED
    BY <1>1, <1>9, <2>1, <2>2
<1>11. \E its \in Seq(Nat) : ItemsRead(its)'
  <2>1. PICK its \in Seq(Nat) : ItemsRead(its)
    BY <1>1 DEF AsRead, PartsAreRead, ListIsRead
  <2>2. PICK m \in Nat : m = Len(params)
    BY <1>5
  <2>3. /\ Len(its) = m + 1 /\ its[1] = ListStart /\ its[m + 1] = bin
        /\ \A j \in 1..m + 1 : its[j] <= bin
        /\ \A j \in 1..m : WrittenItem(file, params[j], its[j], its[j + 1])
    BY <2>1, <2>2 DEF ItemsRead
  <2>4. /\ Len(params') = m + 1 /\ params'[m + 1] = e
        /\ \A j \in 1..m : params'[j] = params[j]
    BY <1>1, <1>3, <1>5, <2>2, AppendProperties
  <2>5. z \in Nat /\ bin' \in Nat
    BY <1>3, <1>5, <1>6
  <2>10. PICK new \in Seq(Nat) : new = Append(its, bin')
    BY <2>5, AppendProperties
  <2>6. /\ new \in Seq(Nat) /\ Len(new) = m + 2 /\ new[m + 2] = bin'
        /\ \A j \in 1..m + 1 : new[j] = its[j] /\ its[j] \in Nat
    <3>1. (m + 1) + 1 = m + 2
      BY <2>2
    <3>2. \A j \in 1..m + 1 : its[j] \in Nat
      BY <2>1, <2>3, ElementOfSeq
    <3> QED
      BY <2>3, <2>5, <2>10, <3>1, <3>2, AppendProperties
  <2>7. \A j \in 1..m + 2 : new[j] <= bin'
    <3>1. ASSUME NEW j \in 1..m + 2 PROVE new[j] <= bin'
      <4>1. CASE j = m + 2
        BY <2>5, <2>6, <4>1
      <4>2. CASE j \in 1..m + 1
        <5>1. new[j] = its[j] /\ its[j] \in Nat /\ its[j] <= bin
          BY <2>3, <2>6, <4>2
        <5> QED
          BY <1>5, <1>6, <2>5, <5>1
      <4> QED
        BY <2>2, <4>1, <4>2
    <3> QED
      BY <3>1
  <2>8. \A j \in 1..m + 1 : WrittenItem(file, params'[j], new[j], new[j + 1])
    <3>1. ASSUME NEW j \in 1..m + 1 PROVE WrittenItem(file, params'[j], new[j], new[j + 1])
      <4>1. CASE j = m + 1
        <5>1. new[j] = bin /\ new[j + 1] = bin + z /\ params'[j] = e
          <6>1. j \in 1..m + 1 /\ j + 1 = m + 2
            BY <2>2, <4>1
          <6> QED
            BY <1>6, <2>3, <2>4, <2>6, <4>1, <6>1
        <5> QED
          BY <1>4, <5>1
      <4>2. CASE j \in 1..m
        <5>1. j \in 1..m + 1 /\ j + 1 \in 1..m + 1
          BY <2>2, <4>2
        <5>2. new[j] = its[j] /\ new[j + 1] = its[j + 1] /\ params'[j] = params[j]
          BY <2>4, <2>6, <4>2, <5>1
        <5> QED
          BY <2>3, <4>2, <5>2
      <4> QED
        BY <2>2, <4>1, <4>2
    <3> QED
      BY <3>1
  <2>9. ItemsRead(new)'
    <3>1. new[1] = ListStart
      <4>1. 1 \in 1..m + 1
        BY <2>2
      <4> QED
        BY <2>3, <2>6, <4>1
    <3>2. Len(params') + 1 = m + 2 /\ Len(params') = m + 1
      BY <2>2, <2>4
    <3>3. file' = file
      BY <1>1
    <3> QED
      BY <1>9, <2>6, <2>7, <2>8, <3>1, <3>2, <3>3, Zenon DEF ItemsRead
  <2> QED
    BY <2>6, <2>9
<1>12. ListIsRead'
  BY <1>1, <1>10, <1>11 DEF ListIsRead
<1> QED
  BY <1>1, <1>2, <1>7, <1>8, <1>12, WithinKernel DEF AsRead, PartsAreRead

LEMMA EndListAsRead == ASSUME IInv, AsRead, EndPatchList PROVE AsRead'
<1>1. /\ input' = input /\ file' = file /\ pc = "patch" /\ pc' = "check" /\ bin' = bin
      /\ left = 0 /\ left' = left /\ params' = params
      /\ khdr' = khdr /\ start' = start /\ name' = name /\ heaps' = heaps /\ hdr' = hdr
      /\ i' = i /\ kernel' = kernel
  BY DEF EndPatchList, At, parts, file
<1>2. pc \in Inside /\ pc' \in Inside
  BY <1>1 DEF Inside
<1>3. NameIsRead'
  BY <1>1, <1>2 DEF AsRead, PartsAreRead, NameIsRead, Inside
<1>4. HeapsAreRead'
  BY <1>1 DEF AsRead, PartsAreRead, HeapsAreRead, HeapStart, Behind
<1>5. ListIsRead'
  <2>1. ListStart' = ListStart
    BY <1>1 DEF ListStart, HeapStart
  <2>2. PICK its \in Seq(Nat) : ItemsRead(its)
    BY <1>1 DEF AsRead, PartsAreRead, ListIsRead
  <2>3. ItemsRead(its)'
    BY <1>1, <2>1, <2>2 DEF ItemsRead
  <2>4. bin' = ListStart' + khdr'.listSize
    <3>1. bin + left = ListStart + khdr.listSize /\ bin \in Nat
      BY <1>1 DEF AsRead, PartsAreRead, ListIsRead, IInv, TypeOK
    <3> QED
      BY <1>1, <2>1, <3>1
  <2> QED
    BY <1>1, <2>3, <2>4 DEF ListIsRead
<1> QED
  BY <1>1, <1>2, <1>3, <1>4, <1>5, WithinKernel DEF AsRead, PartsAreRead

-----------------------------------------------------------------------------
(* A kernel whose checksum is right is written where it was read.          *)
AtHand == [name |-> name, params |-> params, heaps |-> heaps]

LEMMA KernelIsWritten ==
  ASSUME IInv, AsRead, pc = "check", ChecksumOk
  PROVE  /\ AtHand \in Kernels
         /\ \E its \in Seq(Nat) : WrittenKernel(file, AtHand, Origin, its, bin)
<1>1. pc \in Inside /\ pc \in Behind /\ pc # "name"
  BY DEF Inside, Behind
<1>2. /\ khdr.nameSize \in Nat /\ khdr.listSize \in Nat /\ khdr.kernel \in Nat
      /\ khdr.dynamic \in Nat /\ khdr.surface \in Nat /\ khdr.unpadded \in Nat
      /\ start \in Nat /\ bin \in Nat /\ Len(file) \in Nat /\ input \in Inputs
  BY <1>1, KernelHeaderTypes DEF IInv
<1>3. /\ Origin \in Nat /\ khdr.nameSize # 0
      /\ Has(file, Origin, khdr.checksum) /\ Has(file, Origin + 12, khdr.nameSize)
      /\ Has(file, Origin + 16, khdr.listSize) /\ Has(file, Origin + 20, khdr.kernel)
      /\ Has(file, Origin + 24, khdr.general) /\ Has(file, Origin + 28, khdr.dynamic)
      /\ Has(file, Origin + 32, khdr.surface) /\ Has(file, Origin + 36, khdr.unpadded)
  BY <1>1, Zenon DEF AsRead, PartsAreRead, KernelHeaderIsRead
<1>4. /\ khdr.general = 0 /\ khdr.kernel + khdr.dynamic + khdr.surface < Word
      /\ heaps.unpadded = khdr.unpadded /\ khdr.unpadded <= khdr.kernel
      /\ Len(heaps.kernel) = khdr.kernel /\ HasBytes(file, HeapStart, heaps.kernel)
      /\ Len(heaps.dynamic) = khdr.dynamic
      /\ HasBytes(file, HeapStart + khdr.kernel, heaps.dynamic)
      /\ Len(heaps.surface) = khdr.surface
      /\ HasBytes(file, HeapStart + khdr.kernel + khdr.dynamic, heaps.surface)
      /\ HasText(file, start, khdr.nameSize, name)
  BY <1>1, Zenon DEF AsRead, PartsAreRead, HeapsAreRead, NameIsRead
<1>5. PICK its \in Seq(Nat) : ItemsRead(its)
  BY DEF AsRead, PartsAreRead, ListIsRead
<1>6. AtHand \in Kernels
  <2>1. name \in Seq(Nat) /\ params \in Seq(Items) /\ heaps \in Heaps
    BY DEF IInv, TypeOK
  <2> QED
    BY <2>1 DEF AtHand, Kernels
<1>7. AtHand.name = name /\ AtHand.params = params /\ AtHand.heaps = heaps
  BY DEF AtHand
<1> DEFINE data == Origin + 40
           heapsAt == data + file[Origin + 13]
           sizes == <<Len(heaps.kernel), Len(heaps.dynamic), Len(heaps.surface)>>
<1>8. data = start /\ file[Origin + 13] = khdr.nameSize /\ heapsAt = HeapStart
  <2>1. data = start
    BY <1>2, <1>3 DEF Origin
  <2>2. Origin + 12 + 1 = Origin + 13
    BY <1>3
  <2>3. file[Origin + 13] = khdr.nameSize
    BY <1>3, <2>2, Zenon DEF Has
  <2> QED
    BY <2>1, <2>3, Zenon DEF HeapStart
<1>9. /\ sizes[1] = khdr.kernel /\ sizes[2] = khdr.dynamic /\ sizes[3] = khdr.surface
      /\ Total(sizes) = khdr.kernel + khdr.dynamic + khdr.surface
  <2> DEFINE a == Len(heaps.kernel)
             b == Len(heaps.dynamic)
             c == Len(heaps.surface)
  <2>1. a \in Nat /\ b \in Nat /\ c \in Nat
    BY <1>2, <1>4
  <2>2. a = khdr.kernel /\ b = khdr.dynamic /\ c = khdr.surface
    BY <1>4
  <2> HIDE DEF a, b, c
  <2>3. Total(<<a, b, c>>) = a + b + c
    BY <2>1, HeapTotal
  <2>4. <<a, b, c>>[1] = a /\ <<a, b, c>>[2] = b /\ <<a, b, c>>[3] = c
    OBVIOUS
  <2>5. sizes = <<a, b, c>>
    BY DEF a, b, c
  <2> HIDE DEF sizes
  <2> QED
    BY <2>2, <2>3, <2>4, <2>5, Zenon
<1>10. PICK m \in Nat : m = Len(params)
  BY DEF IInv, TypeOK
<1>11. /\ Len(its) = m + 1 /\ its[1] = ListStart /\ its[m + 1] = bin
       /\ \A j \in 1..m + 1 : its[j] <= bin
       /\ \A j \in 1..m : WrittenItem(file, params[j], its[j], its[j + 1])
  BY <1>5, <1>10 DEF ItemsRead
<1>12. /\ bin - its[1] = khdr.listSize /\ bin <= Len(file) /\ ListStart \in Nat
       /\ its[1] = heapsAt + Total(sizes) /\ bin - data \in Nat
  <2>1. bin = ListStart + khdr.listSize
    BY DEF AsRead, PartsAreRead, ListIsRead
  <2>2. bin + size = Len(file) /\ size \in Nat
    BY <1>2 DEF IInv, PositionAgrees, TypeOK
  <2> DEFINE a == khdr.kernel
             b == khdr.dynamic
             c == khdr.surface
             d == khdr.nameSize
             l == khdr.listSize
             T == Total(sizes)
             S == ListStart
             H == HeapStart
  <2>3. /\ S = H + a + b + c /\ H = start + d /\ bin = S + l /\ T = a + b + c
        /\ a \in Nat /\ b \in Nat /\ c \in Nat /\ d \in Nat /\ l \in Nat /\ start \in Nat
        /\ bin + size = Len(file) /\ size \in Nat
    BY <1>2, <1>9, <2>1, <2>2 DEF ListStart, HeapStart
  <2> HIDE DEF a, b, c, d, l, T, S, H
  <2>4. bin - S = l /\ bin <= Len(file) /\ S \in Nat /\ S = H + T /\ bin - start \in Nat
    BY <1>2, <2>3
  <2> QED
    BY <1>8, <1>11, <2>4, Zenon DEF l, T, S, H
<1>13. /\ khdr.checksum = Hash([j \in 1..bin - data |-> file[data + j]])
       /\ (bin - data) % 4 = 0
  <2>1. Hash(KernelData) = khdr.checksum /\ (bin - start) % 4 = 0
    BY DEF ChecksumOk
  <2>2. KernelData = [j \in 1..bin - start |-> file[start + j]]
    <3>1. ASSUME NEW j \in 1..bin - start PROVE start + j <= Len(file)
      <4>1. bin - start \in Nat
        BY <1>8, <1>12
      <4> QED
        BY <1>2, <1>12, <4>1
    <3> QED
      BY <3>1 DEF KernelData, Bytes
  <2> HIDE DEF data
  <2> QED
    BY <1>8, <2>1, <2>2
<1> HIDE DEF data, heapsAt, sizes
<1>14. WrittenKernel(file, AtHand, Origin, its, bin)
  <2>1. /\ Has(file, Origin, Hash([j \in 1..bin - data |-> file[data + j]]))
        /\ (bin - data) % 4 = 0
        /\ file[Origin + 13] # 0 /\ HasText(file, data, file[Origin + 13], AtHand.name)
        /\ Has(file, Origin + 16, bin - its[1])
        /\ Has(file, Origin + 24, 0)
        /\ Has(file, Origin + 36, AtHand.heaps.unpadded)
    BY <1>3, <1>4, <1>7, <1>8, <1>12, <1>13, Zenon
  <2>2. /\ Has(file, Origin + 20, sizes[1]) /\ Has(file, Origin + 28, sizes[2])
        /\ Has(file, Origin + 32, sizes[3])
        /\ AtHand.heaps.unpadded <= sizes[1] /\ Total(sizes) < Word
        /\ HasBytes(file, heapsAt, AtHand.heaps.kernel)
        /\ HasBytes(file, heapsAt + sizes[1], AtHand.heaps.dynamic)
        /\ HasBytes(file, heapsAt + sizes[1] + sizes[2], AtHand.heaps.surface)
    BY <1>3, <1>4, <1>7, <1>8, <1>9, Zenon
  <2>3. /\ its[1] = heapsAt + Total(sizes)
        /\ Len(its) = Len(AtHand.params) + 1 /\ its[Len(its)] = bin /\ bin <= Len(file)
        /\ \A j \in 1..Len(its) : its[j] <= bin
        /\ \A j \in 1..Len(AtHand.params) : WrittenItem(file, AtHand.params[j], its[j], its[j + 1])
    BY <1>7, <1>10, <1>11, <1>12, Zenon
  <2>4. \A j, l \in 1..Len(AtHand.params) :
          AtHand.params[j].token = AtHand.params[l].token /\ AtHand.params[j].token \in Once => j = l
    BY <1>7 DEF IInv, NoneTwice
  <2>5. sizes = <<Len(AtHand.heaps.kernel), Len(AtHand.heaps.dynamic), Len(AtHand.heaps.surface)>>
    BY <1>7 DEF sizes
  <2> QED
    BY <2>1, <2>2, <2>3, <2>4, <2>5, Zenon DEF WrittenKernel, data, heapsAt
<1> QED
  BY <1>6, <1>14

LEMMA CheckAsRead == ASSUME IInv, AsRead, CheckKernel PROVE AsRead'
<1>1. /\ input' = input /\ file' = file /\ pc = "check" /\ pc' = "kernel" /\ bin' = bin
      /\ hdr' = hdr /\ i' = i + 1 /\ ChecksumOk /\ i \in Nat /\ bin \in Nat
  BY DEF CheckKernel, At, file, IInv, TypeOK, Header
<1>2. PICK a \in Kernels : a = AtHand
  BY <1>1, KernelIsWritten, Zenon
<1>3. PICK places \in Seq(Nat) : WrittenKernel(file, a, Origin, places, bin)
  BY <1>1, <1>2, KernelIsWritten, Zenon
<1>4. PICK n \in Nat : n = i
  BY <1>1
<1>5. PICK p \in Seq(Kernels), ks \in Seq(Nat), its \in Seq(Seq(Nat)) : KernelsRead(p, ks, its)
  BY <1>1 DEF AsRead, KernelsAreRead
<1>6. /\ Len(p) = n /\ Len(ks) = n + 1 /\ Len(its) = n
      /\ ks[1] = 28 /\ ks[n + 1] = Origin
      /\ \A j \in 1..n : WrittenKernel(file, p[j], ks[j], its[j], ks[j + 1])
      /\ KeptOf(p)
  BY <1>1, <1>4, <1>5 DEF KernelsRead, Reached, Inside
<1>7. PICK q \in Seq(Kernels) : q = Append(p, a)
  BY AppendProperties
<1>8. PICK qs \in Seq(Nat) : qs = Append(ks, bin)
  BY <1>1, AppendProperties
<1>9. PICK qi \in Seq(Seq(Nat)) : qi = Append(its, places)
  BY AppendProperties
<1>10. /\ Len(q) = n + 1 /\ q[n + 1] = a /\ \A j \in 1..n : q[j] = p[j]
  BY <1>6, <1>7, AppendProperties
<1>11. /\ Len(qs) = n + 2 /\ qs[n + 2] = bin /\ \A j \in 1..n + 1 : qs[j] = ks[j]
  <2>1. (n + 1) + 1 = n + 2
    OBVIOUS
  <2> QED
    BY <1>1, <1>6, <1>8, <2>1, AppendProperties
<1>12. /\ Len(qi) = n + 1 /\ qi[n + 1] = places /\ \A j \in 1..n : qi[j] = its[j]
  BY <1>6, <1>9, AppendProperties
<1>13. ASSUME NEW j \in 1..n + 1
       PROVE  WrittenKernel(file, q[j], qs[j], qi[j], qs[j + 1])
  <2>1. CASE j = n + 1
    <3>1. n + 1 \in 1..n + 1 /\ (n + 1) + 1 = n + 2
      OBVIOUS
    <3>2. qs[j] = Origin /\ qs[j + 1] = bin /\ q[j] = a /\ qi[j] = places
      BY <1>6, <1>10, <1>11, <1>12, <2>1, <3>1
    <3> QED
      BY <1>3, <3>2
  <2>2. CASE j \in 1..n
    <3>1. j \in 1..n + 1 /\ j + 1 \in 1..n + 1
      BY <2>2
    <3>2. qs[j] = ks[j] /\ qs[j + 1] = ks[j + 1] /\ q[j] = p[j] /\ qi[j] = its[j]
      BY <1>10, <1>11, <1>12, <2>2, <3>1
    <3> QED
      BY <1>6, <2>2, <3>2
  <2> QED
    BY <2>1, <2>2
<1>14. KeptOf(q)'
  <2>1. a.name = name
    BY <1>2 DEF AtHand
  <2>2. \A j \in 1..n : q[j] = p[j]
    BY <1>10
  <2>3. CASE name = input.name
    <3>1. kernel = <<>> /\ kernel' = <<a>>
      BY <1>2, <2>3 DEF CheckKernel, AtHand
    <3>2. \A j \in 1..n : ~(q[j].name = input.name)
      <4>1. ASSUME NEW j \in 1..n, q[j].name = input.name PROVE FALSE
        <5>1. kernel = <<p[j]>>
          BY <1>4, <1>6, <2>2, <4>1 DEF KeptOf
        <5> QED
          BY <3>1, <5>1
      <4> QED
        BY <4>1
    <3>3. \A j \in 1..n + 1 : q[j].name = input.name => j = n + 1
      <4>1. \A j \in 1..n + 1 : j \in 1..n \/ j = n + 1
        OBVIOUS
      <4> QED
        BY <3>2, <4>1, Zenon
    <3>4. n + 1 \in 1..n + 1 /\ q[n + 1].name = input.name
      BY <1>10, <2>1, <2>3
    <3>5. \A j, l \in 1..n + 1 : q[j].name = input.name /\ q[l].name = input.name => j = l
      BY <3>3, Zenon
    <3>6. \A j \in 1..n + 1 : q[j].name = input.name => kernel' = <<q[j]>>
      BY <1>10, <3>1, <3>3, Zenon
    <3>7. i' = n + 1 /\ input' = input
      BY <1>1, <1>4
    <3> QED
      BY <3>4, <3>5, <3>6, <3>7, Zenon DEF KeptOf
  <2>4. CASE name # input.name
    <3>1. kernel' = kernel
      BY <2>4 DEF CheckKernel
    <3>2. \A j \in 1..n + 1 : q[j].name = input.name => j \in 1..n
      <4>1. \A j \in 1..n + 1 : j \in 1..n \/ j = n + 1
        OBVIOUS
      <4> QED
        BY <1>10, <2>1, <2>4, <4>1, Zenon
    <3>3. /\ \A j, l \in 1..n : p[j].name = input.name /\ p[l].name = input.name => j = l
          /\ \A j \in 1..n : p[j].name = input.name => kernel = <<p[j]>>
          /\ kernel # <<>> => \E j \in 1..n : p[j].name = input.name
      BY <1>4, <1>6, Zenon DEF KeptOf
    <3>4. \A j \in 1..n : j \in 1..n + 1
      OBVIOUS
    <3>5. \A j, l \in 1..n + 1 : q[j].name = input.name /\ q[l].name = input.name => j = l
      BY <2>2, <3>2, <3>3, Zenon
    <3>6. \A j \in 1..n + 1 : q[j].name = input.name => kernel' = <<q[j]>>
      BY <2>2, <3>1, <3>2, <3>3, Zenon
    <3>7. kernel' # <<>> => \E j \in 1..n + 1 : q[j].name = input.name
      BY <2>2, <3>1, <3>3, <3>4, Zenon
    <3>8. i' = n + 1 /\ input' = input
      BY <1>1, <1>4
    <3> QED
      BY <3>5, <3>6, <3>7, <3>8, Zenon DEF KeptOf
  <2> QED
    BY <2>3, <2>4
<1>15. KernelsRead(q, qs, qi)'
  <2>1. i' = n + 1 /\ Reached' = bin /\ file' = file /\ (n + 1) + 1 = n + 2
    BY <1>1, <1>4 DEF Reached, Inside
  <2>2. qs[1] = 28
    <3>1. 1 \in 1..n + 1
      OBVIOUS
    <3> QED
      BY <1>6, <1>11, <3>1
  <2> QED
    BY <1>10, <1>11, <1>12, <1>13, <1>14, <2>1, <2>2, Zenon DEF KernelsRead
<1>16. KernelsAreRead'
  BY <1>15, Zenon DEF KernelsAreRead
<1>17. HeaderIsRead'
  BY <1>1 DEF AsRead, HeaderIsRead, Inside
<1>18. PartsAreRead'
  BY <1>1 DEF PartsAreRead, KernelHeaderIsRead, NameIsRead, HeapsAreRead, ListIsRead, Inside,
              Behind
<1> QED
  BY <1>16, <1>17, <1>18 DEF AsRead

LEMMA FinishAsRead == ASSUME IInv, AsRead, Finish PROVE AsRead'
<1>1. /\ input' = input /\ file' = file /\ pc = "kernel" /\ pc' = "end" /\ bin' = bin
      /\ hdr' = hdr /\ i' = i /\ kernel' = kernel
  BY DEF Finish, At, file
<1>2. HeaderIsRead'
  BY <1>1 DEF AsRead, HeaderIsRead, Inside
<1>3. PartsAreRead'
  BY <1>1 DEF PartsAreRead, KernelHeaderIsRead, NameIsRead, HeapsAreRead, ListIsRead, Inside,
              Behind
<1>4. Reached' = Reached
  BY <1>1 DEF Reached, Inside
<1>5. KernelsAreRead'
  BY <1>1, <1>4, SameKernels DEF AsRead
<1> QED
  BY <1>2, <1>3, <1>5 DEF AsRead

LEMMA NextAsRead == ASSUME IInv, SumsFit, AsRead, [Next]_vars PROVE AsRead'
<1>1. CASE \E l \in {"program", "kernel", "name", "heaps", "list", "patch", "check"} : Throw(l)
  BY <1>1, QuietAsRead DEF Throw
<1>2. CASE HeapsNoMemory \/ UNCHANGED vars
  BY <1>2, QuietAsRead DEF HeapsNoMemory, vars
<1>3. CASE ReadProgramHeader
  BY <1>3, ProgramHeaderAsRead
<1>4. CASE ReadKernelHeader
  BY <1>4, KernelHeaderAsRead
<1>5. CASE ReadName
  BY <1>5, NameAsRead
<1>6. CASE ReadHeaps
  BY <1>6, HeapsAsRead
<1>7. CASE StartPatchList
  BY <1>7, StartListAsRead
<1>8. CASE ReadItem
  BY <1>8, ItemAsRead
<1>9. CASE EndPatchList
  BY <1>9, EndListAsRead
<1>10. CASE CheckKernel
  BY <1>10, CheckAsRead
<1>11. CASE Finish
  BY <1>11, FinishAsRead
<1>12. ASSUME ProgramHeaderFails \/ KernelHeaderFails \/ NameFails \/ HeapsFail
              \/ PatchListFails \/ ItemFails \/ CheckFails
       PROVE  \E l \in {"program", "kernel", "name", "heaps", "list", "patch", "check"} : Throw(l)
  BY <1>12 DEF ProgramHeaderFails, KernelHeaderFails, NameFails, HeapsFail, PatchListFails,
               ItemFails, CheckFails
<1> QED
  BY <1>1, <1>2, <1>3, <1>4, <1>5, <1>6, <1>7, <1>8, <1>9, <1>10, <1>11, <1>12 DEF Next

LEMMA ReadInvariance == Spec /\ []SumsFit => [](IInv /\ AsRead)
<1>1. Init => IInv /\ AsRead
  BY InitIInv, InitAsRead
<1>2. (IInv /\ AsRead) /\ SumsFit /\ [Next]_vars => (IInv /\ AsRead)'
  BY NextIInv, NextAsRead
<1> QED
  BY <1>1, <1>2, PTL DEF Spec

(* What is accepted is a file as the compiler writes it, of some program,  *)
(* and what is returned is the one kernel of the name in that program.     *)
(* (read_kernel: its checks leave nothing of the file unread or            *)
(* unaccounted for.)                                                       *)
AcceptedIsWritten ==
  outcome = "ok" =>
    \E p \in Seq(Kernels), ks \in Seq(Nat), its \in Seq(Seq(Nat)) :
      /\ Len(its) = Len(p) /\ Written(file, p, ks, its)
      /\ \E j \in 1..Len(p) :
           {l \in 1..Len(p) : p[l].name = input.name} = {j} /\ kernel = <<p[j]>>

LEMMA AcceptedFits == ASSUME IInv, AsRead PROVE AcceptedIsWritten
<1> SUFFICES ASSUME outcome = "ok"
    PROVE  \E p \in Seq(Kernels), ks \in Seq(Nat), its \in Seq(Seq(Nat)) :
             /\ Len(its) = Len(p) /\ Written(file, p, ks, its)
             /\ \E j \in 1..Len(p) :
                  {l \in 1..Len(p) : p[l].name = input.name} = {j} /\ kernel = <<p[j]>>
  BY DEF AcceptedIsWritten
<1>1. /\ pc = "end" /\ size = 0 /\ kernel # <<>> /\ hdr.kernels = i /\ i \in Nat
      /\ bin \in Nat /\ Len(file) \in Nat
  BY InFile DEF IInv, Kept, Header, TypeOK
<1>2. bin = Len(file)
  BY <1>1 DEF IInv, PositionAgrees
<1>3. PICK p \in Seq(Kernels), ks \in Seq(Nat), its \in Seq(Seq(Nat)) : KernelsRead(p, ks, its)
  BY <1>1 DEF AsRead, KernelsAreRead
<1>4. PICK n \in Nat : n = i
  BY <1>1
<1>5. /\ Len(p) = n /\ Len(ks) = n + 1 /\ Len(its) = n
      /\ ks[1] = 28 /\ ks[n + 1] = Len(file)
      /\ \A j \in 1..n : WrittenKernel(file, p[j], ks[j], its[j], ks[j + 1])
      /\ \A j, l \in 1..n : p[j].name = input.name /\ p[l].name = input.name => j = l
      /\ \A j \in 1..n : p[j].name = input.name => kernel = <<p[j]>>
      /\ \E j \in 1..n : p[j].name = input.name
  BY <1>1, <1>2, <1>3, <1>4 DEF KernelsRead, KeptOf, Reached, Inside
<1>6. n > 0
  BY <1>5
<1>7. /\ Has(file, 0, Magic) /\ Has(file, 4, Version) /\ Has(file, 8, Gen9)
      /\ Has(file, 16, n) /\ Has(file, 24, 0)
  BY <1>1, <1>4, <1>6 DEF AsRead, HeaderIsRead
<1>8. Written(file, p, ks, its)
  BY <1>5, <1>7, Zenon DEF Written
<1>9. PICK j \in 1..n : p[j].name = input.name
  BY <1>5
<1>10. {l \in 1..Len(p) : p[l].name = input.name} = {j} /\ kernel = <<p[j]>>
  BY <1>5, <1>9, Zenon
<1> QED
  BY <1>5, <1>8, <1>9, <1>10, Zenon

(* See AcceptedIsWritten: nothing else is accepted, and from what is       *)
(* accepted nothing else is returned.                                      *)
THEOREM AcceptedAreWritten == Spec /\ []SumsFit => []AcceptedIsWritten
<1>1. IInv /\ AsRead => AcceptedIsWritten
  BY AcceptedFits
<1> QED
  BY ReadInvariance, <1>1, PTL

(* An input that is not as the compiler writes it: no program has it for   *)
(* its file.                                                               *)
NothingElseWritten ==
  \A in \in Inputs :
    in.state # "intact" =>
      \A p \in Seq(Kernels), ks \in Seq(Nat), its \in Seq(Seq(Nat)) :
        Len(its) = Len(p) => ~Written(in.file, p, ks, its)

(* What read_kernel returns is the one kernel of the name, as it was       *)
(* written, and only from a file that is as the compiler wrote it.         *)
THEOREM FoundAreWritten ==
  ASSUME NothingElseWritten
  PROVE  Spec /\ []SumsFit => []FoundIsWritten
<1>1. ASSUME IInv, AsRead, IntactIsFound PROVE FoundIsWritten
  <2>1. CASE outcome = "ok"
    <3>1. AcceptedIsWritten /\ input \in Inputs
      BY <1>1, AcceptedFits DEF IInv
    <3>2. input.state = "intact"
      BY <2>1, <3>1, Zenon DEF AcceptedIsWritten, NothingElseWritten, file
    <3> QED
      BY <1>1, <2>1, <3>2, Zenon DEF IntactIsFound, FoundIsWritten
  <2> QED
    BY <2>1 DEF FoundIsWritten
<1> QED
  BY ReadInvariance, IntactAreFound, <1>1, PTL

-----------------------------------------------------------------------------
(* Whatever is in the file, the search ends: a step reads on, or leaves    *)
(* fewer steps to the next one that does.                                  *)
Rest == Len(file) - bin
Nth ==
  IF outcome # "none" THEN 6
  ELSE [program |-> 0, name |-> 0, heaps |-> 1, list |-> 2, patch |-> 3, check |-> 4,
        kernel |-> 5, end |-> 6][pc]
Forward == Rest' < Rest \/ (Rest' = Rest /\ Nth < Nth')

LEMMA RestCounted == ASSUME IInv PROVE Rest \in Nat /\ bin \in Nat /\ Len(file) \in Nat
<1>1. /\ bin \in Nat /\ size \in Nat /\ Len(file) \in Nat
      /\ bin + size = Len(file) + (IF pc = "patch" THEN khdr.listSize - left ELSE 0)
  BY InFile DEF IInv, TypeOK, PositionAgrees
<1>2. CASE pc = "patch"
  <2>1. /\ khdr.listSize \in Nat /\ khdr.listSize <= size /\ left \in Nat
    BY <1>2 DEF IInv, Header, Inside, TypeOK
  <2> DEFINE L == Len(file)
             l == khdr.listSize
  <2>2. /\ bin + size = L + (l - left) /\ l \in Nat /\ l <= size /\ left \in Nat
        /\ L \in Nat /\ bin \in Nat /\ size \in Nat
    BY <1>1, <1>2, <2>1
  <2> HIDE DEF L, l
  <2>3. L - bin \in Nat
    BY <2>2
  <2> QED
    BY <1>1, <2>3 DEF Rest, L
<1>3. CASE pc # "patch"
  BY <1>1, <1>3 DEF Rest
<1> QED
  BY <1>2, <1>3

LEMMA ReadsOn ==
  ASSUME IInv, input' = input, NEW n \in Nat, n > 0, bin' = bin + n
  PROVE  Forward
<1>1. bin \in Nat /\ Len(file) \in Nat /\ file' = file
  BY RestCounted DEF file
<1> DEFINE L == Len(file)
<1>2. Rest = L - bin /\ Rest' = L - (bin + n) /\ L \in Nat
  BY <1>1 DEF Rest
<1> HIDE DEF L
<1>3. Rest' < Rest
  BY <1>1, <1>2
<1> QED
  BY <1>3 DEF Forward

LEMMA StaysThere ==
  ASSUME IInv, input' = input, bin' = bin, Nth < Nth'
  PROVE  Forward
BY DEF Forward, Rest, file

LEMMA HeapsForward == ASSUME IInv, ReadHeaps PROVE Forward
<1>1. /\ input' = input /\ pc = "heaps" /\ pc' = "list" /\ outcome = "none" /\ outcome' = "none"
      /\ bin' = bin + khdr.kernel + khdr.dynamic + khdr.surface
  BY DEF ReadHeaps, At
<1>2. khdr.kernel \in Nat /\ khdr.dynamic \in Nat /\ khdr.surface \in Nat /\ bin \in Nat
  BY <1>1 DEF IInv, Header, Inside, TypeOK
<1>3. PICK n \in Nat : n = khdr.kernel + khdr.dynamic + khdr.surface
  BY <1>2
<1>4. bin' = bin + n
  BY <1>1, <1>2, <1>3
<1>5. CASE n = 0
  <2>1. bin' = bin
    BY <1>2, <1>4, <1>5
  <2>2. Nth < Nth'
    BY <1>1 DEF Nth
  <2> QED
    BY <1>1, <2>1, <2>2, StaysThere
<1>6. CASE n > 0
  BY <1>1, <1>4, <1>6, ReadsOn
<1> QED
  BY <1>5, <1>6

LEMMA StepReads == ASSUME IInv, SumsFit, AsRead, Next PROVE Forward
<1>1. CASE ReadProgramHeader
  BY <1>1, ReadsOn DEF ReadProgramHeader, Consume
<1>2. CASE ReadKernelHeader
  BY <1>2, ReadsOn DEF ReadKernelHeader, Consume
<1>3. CASE ReadName
  <2>1. khdr.nameSize \in Nat /\ khdr.nameSize # 0
    BY <1>3 DEF ReadName, At, IInv, Header, Inside, AsRead, PartsAreRead, KernelHeaderIsRead
  <2>2. khdr.nameSize > 0
    BY <2>1
  <2> QED
    BY <1>3, <2>1, <2>2, ReadsOn DEF ReadName, Consume
<1>4. CASE ReadHeaps
  BY <1>4, HeapsForward
<1>5. CASE StartPatchList \/ EndPatchList \/ CheckKernel \/ Finish
  <2>1. /\ input' = input /\ bin' = bin /\ outcome = "none"
        /\ \/ pc = "list" /\ pc' = "patch" /\ outcome' = "none"
           \/ pc = "patch" /\ pc' = "check" /\ outcome' = "none"
           \/ pc = "check" /\ pc' = "kernel" /\ outcome' = "none"
           \/ pc = "kernel" /\ outcome' \in {"ok", "invalid"}
    BY <1>5 DEF StartPatchList, EndPatchList, CheckKernel, Finish, At
  <2>2. Nth < Nth'
    BY <2>1 DEF Nth
  <2> QED
    BY <2>1, <2>2, StaysThere
<1>6. CASE ReadItem
  <2>1. ItemSize \in 1..left /\ FixedSize + Total(StringSizes) = ItemSize
        /\ FixedSize \in Nat /\ Total(StringSizes) \in Nat
    BY <1>6, ItemFacts DEF ReadItem
  <2>2. left \in Nat /\ bin \in Nat
    BY <1>6, RestCounted DEF ReadItem, At, IInv, TypeOK
  <2> DEFINE F == FixedSize
             T == Total(StringSizes)
             z == ItemSize
  <2>3. bin' = bin + F + T /\ F + T = z /\ F \in Nat /\ T \in Nat /\ z \in 1..left /\ input' = input
    BY <1>6, <2>1 DEF ReadItem
  <2> HIDE DEF F, T, z
  <2>4. bin' = bin + z /\ z \in Nat /\ z > 0
    BY <2>2, <2>3
  <2>5. PICK n \in Nat : n = z
    BY <2>4
  <2> QED
    BY <2>3, <2>4, <2>5, ReadsOn
<1>7. ASSUME NEW l \in {"program", "kernel", "name", "heaps", "list", "patch", "check"}, Throw(l)
      PROVE  Forward
  <2>1. input' = input /\ bin' = bin /\ pc = l /\ outcome = "none" /\ outcome' = "invalid"
    BY <1>7 DEF Throw, At
  <2>2. Nth < Nth'
    BY <2>1 DEF Nth
  <2> QED
    BY <2>1, <2>2, StaysThere
<1>8. CASE HeapsNoMemory
  <2>1. input' = input /\ bin' = bin /\ pc = "heaps" /\ outcome = "none" /\ outcome' = "memory"
    BY <1>8 DEF HeapsNoMemory, At
  <2>2. Nth < Nth'
    BY <2>1 DEF Nth
  <2> QED
    BY <2>1, <2>2, StaysThere
<1>9. ASSUME ProgramHeaderFails \/ KernelHeaderFails \/ NameFails \/ HeapsFail
             \/ PatchListFails \/ ItemFails \/ CheckFails
      PROVE  Forward
  BY <1>7, <1>9 DEF ProgramHeaderFails, KernelHeaderFails, NameFails, HeapsFail, PatchListFails,
                    ItemFails, CheckFails
<1> QED
  BY <1>1, <1>2, <1>3, <1>4, <1>5, <1>6, <1>8, <1>9 DEF Next

(* The search ends on every file, after at most seven steps for each of    *)
(* its bytes and seven more, however many kernels its header announces:    *)
(* what is left of the file only becomes less, and between two steps that  *)
(* read from it there are few.  (The loops of read_kernel,                 *)
(* i915_runtime.cc:1251, and read_kernel_patchlist, igc_progbin.cc:229.)   *)
THEOREM ReadingEnds == Spec /\ []SumsFit => [](Rest \in Nat) /\ [][Forward]_vars
<1>1. IInv => Rest \in Nat
  BY RestCounted
<1>2. (IInv /\ AsRead) /\ SumsFit /\ [Next]_vars => [Forward]_vars
  BY StepReads
<1> QED
  BY <1>1, <1>2, ReadInvariance, PTL DEF Spec
=============================================================================
