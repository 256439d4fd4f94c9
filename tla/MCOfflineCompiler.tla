------------------------- MODULE MCOfflineCompiler --------------------------
(***************************************************************************)
(* Every short argument vector with a binary of its own for each family;   *)
(* and one vector with all patterns of three results among the families,   *)
(* of which some are equal, some only of the same size, and some failures. *)
(***************************************************************************)
EXTENDS OfflineCompiler

A == <<"a", ".", "c">>
B == <<"b", ".", "h">>

(* Every sequence of up to five arguments.                                 *)
AllArgvs == UNION {[1..k -> {O, Std, Help, A}] : k \in 0..5}

(* Names that are hard to make a symbol of; an empty one; the same name    *)
(* for both files.                                                         *)
HardNames == {<<"1", "a", ".", "c">>, <<"+", "1", ".", "c">>, <<"a", "/", "-", "1">>,
              <<"a", ".", "a", ".", "c">>, <<".", "c">>, <<"+", ".", "c">>, <<"-">>, <<>>}
NamedArgvs == {<<O, B, Std, f>> : f \in HardNames} \cup {<<O, A, Std, A>>, <<O, <<>>, Std, A>>}

Plain == <<Std, A, O, B>>

MCFamilies ==
  <<"BROADWELL", "CHERRYVIEW", "SKYLAKE", "KABYLAKE", "COFFEELAKE", "BROXTON",
    "GEMINILAKE", "ELKHARTLAKE", "TIGERLAKE_LP", "ROCKETLAKE", "DG1">>

Binary(c) == [code |-> c, size |-> Len(c)]
Results ==
  {[fails |-> "none", bin |-> Binary(c)] : c \in {<<1>>, <<2>>, <<1, 2>>}}
  \cup {[fails |-> "back", bin |-> b] : b \in {Binary(<<1>>), Empty}}
  \cup {[fails |-> "front", bin |-> Empty]}

(* Families with a core and a timer in common have results of their own.   *)
Position(f) == CHOOSE k \in 1..Len(MCFamilies) : MCFamilies[k] = f
Pattern(r) == [f \in Products |-> r[Position(f) % 3]]
Patterns == {Pattern(r) : r \in [0..2 -> Results]}
Each == [f \in Products |-> [fails |-> "none", bin |-> Binary(<<Position(f)>>)]]

MCCases ==
  {[argv |-> v, outcome |-> Each] : v \in AllArgvs \cup NamedArgvs}
  \cup {[argv |-> Plain, outcome |-> o] : o \in Patterns}
=============================================================================
