----------------------------- MODULE CrossThread -----------------------------
(***************************************************************************)
(* build_cross_thread_data: the values a kernel gets once for all of its   *)
(* threads, each at the offset and in as many bytes as the patch list says.*)
(*                                                                         *)
(* The value of a parameter is a pair that tells what it is; its bytes are *)
(* triples, byte 8 standing for one that is filled with the sign.  Offsets *)
(* are those of the compiler and nowhere near 2^32.                        *)
(***************************************************************************)
EXTENDS Integers, FiniteSets, Sequences

CONSTANTS
  Slots,  \* surface states in a surface state heap
  Null    \* the address 0, and "no object" for a handle

IntTypes == {"uint;4", "int;4", "ulong;8", "long;8"}
SizeOf(type) == IF type \in {"uint;4", "int;4"} THEN 4 ELSE 8
Signed(type) == type \in {"int;4", "long;8"}

Kinds == {"offset", "local", "enqueued", "argument", "stateful", "unknown"}

(* An entry of data_parameter_buffers; dim is the dimension source_offset  *)
(* stands for, 0 for none.                                                 *)
DataParameter == [kind : Kinds, dim : 0..3, arg : Nat, at : Nat, width : Nat]

(* An entry of stateless_global_memory_object_kernel_arguments.            *)
MemoryObject == [arg : Nat, slot : Slots \cup {Null}, at : Nat, width : Nat]

Zero == <<"zero", 0>>
Byte(v, k) == <<v[1], v[2], k>>

(* A value converted to 64 bits.                                           *)
Extended(v, bytes, signed) ==
  [k \in 0..7 |-> IF k < bytes THEN Byte(v, k)
                  ELSE IF signed THEN Byte(v, 8) ELSE Byte(Zero, 0)]
Word64(v) == IF v = Zero THEN [k \in 0..7 |-> Byte(Zero, 0)] ELSE Extended(v, 8, FALSE)

IsBuffer(a) == a.type \in {"ptr", "gem"}

-----------------------------------------------------------------------------
(* Variant: all arguments ahead are counted, not only the buffers.         *)
EntryCountsAll(args, i) == i - 1

(* bt_entry: the buffers ahead of an argument.                             *)
EntryOf(args, i) == Cardinality({j \in 1..i - 1 : IsBuffer(args[j])})

(* A turn of the first loop: what it throws for, except in set_param, and  *)
(* the value it comes to.  The global offset is always zero.               *)
ParameterOk(q, args) ==
  CASE q.kind \in {"offset", "local", "enqueued"} -> q.dim # 0
    [] q.kind = "argument" -> /\ q.arg \in 1..Len(args) /\ ~IsBuffer(args[q.arg])
                              /\ q.width >= SizeOf(args[q.arg].type)
    [] q.kind = "stateful" -> q.arg \in 1..Len(args)
    [] q.kind = "unknown" -> FALSE

ParameterValue(q, args) ==
  CASE q.kind = "offset" -> Word64(Zero)
    [] q.kind \in {"local", "enqueued"} -> Extended(<<"local", q.dim>>, 4, FALSE)
    [] q.kind = "argument" -> LET type == args[q.arg].type
                              IN Extended(<<"arg", q.arg>>, SizeOf(type), Signed(type))
    [] q.kind = "stateful" -> Extended(<<"entry", EntryOf(args, q.arg)>>, 4, FALSE)

(* A turn of the second loop.  An object given by name is to be put in     *)
(* place by the driver, any other argument has the address that is in the  *)
(* surface state.                                                          *)
ObjectOk(s, args) == s.arg \in 1..Len(args) /\ s.slot # Null /\ s.width = 8
ByName(s, args) == args[s.arg].type = "gem"
ObjectValue(s, args, surface) ==
  IF ByName(s, args) \/ surface[s.slot] = Null THEN Word64(Zero)
  ELSE Word64(<<"buffer", surface[s.slot]>>)

(* memcpy of the low bytes of a value.                                     *)
Copied(data, at, width, value) ==
  [o \in DOMAIN data \cup at..at + width - 1 |->
     IF o \in at..at + width - 1 THEN value[o - at] ELSE data[o]]
=============================================================================
