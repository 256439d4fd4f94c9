---------------------------- MODULE MCProgBinary -----------------------------
(***************************************************************************)
(* Program binaries with up to three kernels, as the compiler writes them  *)
(* and with one change.                                                    *)
(***************************************************************************)
EXTENDS ProgBinary, SequencesExt

(* A 32-bit word, a NUL-terminated text and their sequences.               *)
Filler == 255
W(v) == <<v, Filler, Filler, Filler>>
AllWords(vs) ==
  [j \in 1..4 * Len(vs) |-> IF j % 4 = 1 THEN vs[j \div 4 + 1] ELSE Filler]

(* Concatenation; appending the empty sequence makes TLC evaluate the      *)
(* elements once.                                                          *)
Joined(seqs) == FlattenSeq(seqs \o <<>>)

Text(s, n) == s \o [j \in 1..n - Len(s) |-> 0]

(* A sum weighted by position stands for the hash.                         *)
RECURSIVE Weigh(_, _, _)
Weigh(bytes, l, h) ==
  IF l > h THEN 0
  ELSE IF l = h THEN l * (bytes[l] + 2)
  ELSE LET m == (l + h) \div 2 IN Weigh(bytes, l, m) + Weigh(bytes, m + 1, h)
MCHash(bytes) == Weigh(bytes, 1, Len(bytes))

-----------------------------------------------------------------------------
(* The writer, from the layout that the reader's source gives              *)

TextSize == 4
ItemImage(p) ==
  LET texts == Joined([j \in 1..Len(p.strings) |-> Text(p.strings[j], TextSize)])
      sizes == [j \in 1..Len(p.strings) |-> TextSize]
      words == AllWords(p.fields \o sizes) \o texts
  IN W(p.token) \o W(8 + Len(words)) \o words

ListImage(k) == Joined([j \in 1..Len(k.params) |-> ItemImage(k.params[j])])

KernelImage(k) ==
  LET list == ListImage(k)
      data == Text(k.name, TextSize)
                \o k.heaps.kernel \o k.heaps.dynamic \o k.heaps.surface \o list
  IN AllWords(<<MCHash(data), 5, 5, TextSize, Len(list), Len(k.heaps.kernel), 0,
                Len(k.heaps.dynamic), Len(k.heaps.surface), k.heaps.unpadded>>) \o data

ProgramHeader(device, n, list) == AllWords(<<Magic, Version, device, 8, n, 4, list>>)

Image(program) ==
  ProgramHeader(Gen9, Len(program), 0)
    \o Joined([j \in 1..Len(program) |-> KernelImage(program[j])])

-----------------------------------------------------------------------------
(* Kernels: all kinds of items occur; names, strings and heaps differ in   *)
(* their lengths.                                                          *)

Plain(t) == [token |-> t, fields |-> [j \in 1..FieldCount[t] |-> 10 * t + j] \o <<>>, strings |-> <<>>]
Attributes == [token |-> AttributesInfo, fields |-> <<>>, strings |-> << <<21, 22>> >>]
Argument(n) ==
  [token |-> ArgumentInfo, fields |-> <<n>>,
   strings |-> << <<31>>, <<>>, <<32, 50 + n, 33, 34>>, <<35, 36>>, <<37>> >>]

K1 == [name |-> <<41, 42>>,
       params |-> <<Plain(4), Argument(0), Plain(5), Attributes, Argument(1)>>
                    \o [t \in 1..3 |-> Plain(t)],
       heaps |-> [kernel |-> <<1, 2, 3, 4, 0, 0>>, unpadded |-> 4,
                  dynamic |-> <<5, 6, 7, 8>>, surface |-> <<9, 11>>]]

K2 == [name |-> <<41, 42, 43, 44>>,
       params |-> <<Plain(8), Plain(6), Plain(6), Plain(7), Plain(9)>>,
       heaps |-> [kernel |-> <<12, 13, 14, 15>>, unpadded |-> 4,
                  dynamic |-> <<>>, surface |-> <<>>]]

Programs == {<<>>, <<K1>>, <<K1, K2>>, <<K2, K1, K2>>}
Names == {K1.name, K2.name, <<41>>}

Pair == <<K1, K2>>
PairFile == Image(Pair)

(* Where the kernels of a program are written, and the items of a kernel.  *)
Ends(from, sizes) ==
  [j \in 1..Len(sizes) + 1 |-> from + FoldLeft(LAMBDA a, b : a + b, 0, SubSeq(sizes, 1, j - 1))] \o <<>>
KernelPlaces(p) == Ends(28, [j \in 1..Len(p) |-> Len(KernelImage(p[j]))])
ItemPlaces(p) ==
  [j \in 1..Len(p) |->
     Ends(KernelPlaces(p)[j + 1] - Len(ListImage(p[j])),
          [l \in 1..Len(p[j].params) |-> Len(ItemImage(p[j].params[l]))])] \o <<>>

Input(f, n, p, s) ==
  [file |-> f \o <<>>, name |-> n, program |-> p, state |-> s,
   kernels |-> IF s = "intact" THEN KernelPlaces(p) ELSE <<>>,
   items |-> IF s = "intact" THEN ItemPlaces(p) ELSE <<>>]

Intact == {Input(Image(p), n, p, "intact") : p \in Programs, n \in Names}

Cut ==
  LET whole == PairFile
  IN {Input(SubSeq(whole, 1, l), n, Pair, "cut") :
        l \in 0..Len(whole) - 1, n \in {K1.name, K2.name}}

Extended == {Input(PairFile \o t, n, Pair, "extended") :
               t \in {<<0>>, W(0), KernelImage(K1)}, n \in Names}

(* One byte is changed: in the file's header where the reader looks at it, *)
(* or in what a checksum is computed of, and the checksum itself.          *)
Damaged ==
  LET whole == PairFile
      second == 28 + Len(KernelImage(K1))
      covered == {29, second + 1} \cup 69..second \cup second + 41..Len(whole)
      changeable == {j \in {1, 5, 9, 17, 25} \cup covered : whole[j] # Filler}
  IN {Input([whole EXCEPT ![j] = @ + 1], n, Pair, "damaged") :
        j \in changeable, n \in {K1.name, K2.name}}

(* As written by a compiler whose output the reader does not know.         *)
With(item) == <<[K1 EXCEPT !.params = Append(@, item)]>>
OtherToken == [token |-> ArgumentInfo + 1, fields |-> <<1>>, strings |-> <<>>]
Unsupported ==
  {Input(Image(With(item)), K1.name, With(item), "unsupported") :
     item \in {OtherToken, Attributes, Plain(1), [Plain(4) EXCEPT !.fields = <<1>>]}}
    \cup {Input(ProgramHeader(d, 1, 0) \o KernelImage(K1), K1.name, <<K1>>, "unsupported") :
            d \in {Gen9 + 1}}
    \cup {Input(ProgramHeader(Gen9, 1, 12) \o ItemImage(Plain(6)) \o KernelImage(K1),
                K1.name, <<K1>>, "unsupported")}

AllInputs == UNION {Intact, Cut, Extended, Damaged, Unsupported}
=============================================================================
