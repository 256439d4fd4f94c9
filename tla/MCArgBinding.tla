---------------------------- MODULE MCArgBinding -----------------------------
(***************************************************************************)
(* Kernels with up to three parameters, of which one is a scalar, so that  *)
(* the position of a buffer among the arguments and among the buffers      *)
(* differ.                                                                 *)
(***************************************************************************)
EXTENDS ArgBinding

P(kind, n, at, width) ==
  [kind |-> kind, dim |-> IF kind \in {"argument", "stateful", "unknown"} THEN 0 ELSE n,
   arg |-> IF kind \in {"argument", "stateful"} THEN n ELSE 0, at |-> at, width |-> width]

(* Surface states in another order than the table, one buffer accessed     *)
(* both ways, a scalar in a place that is wider; the data is filled.       *)
Usual ==
  [infos |-> <<"int;4", Pointer, Pointer>>, table |-> <<2, 1>>,
   params |-> <<P("local", 1, 0, 4), P("offset", 2, 4, 4), P("argument", 1, 8, 8),
                P("stateful", 3, 20, 4), P("stateful", 2, 16, 4)>>,
   stateless |-> <<[arg |-> 3, slot |-> 1, at |-> 24, width |-> 8]>>,
   capacity |-> 32]

(* A table that does not fit the signature.                                *)
Short == [Usual EXCEPT !.infos = <<Pointer, "long;8">>,
                       !.params = <<P("stateful", 1, 0, 4)>>, !.stateless = <<>>]

(* No table at all, the buffer is accessed by address only.                *)
Tableless == [infos |-> <<Pointer>>, table |-> <<>>, params |-> <<>>,
              stateless |-> <<[arg |-> 1, slot |-> 1, at |-> 0, width |-> 8]>>,
              capacity |-> 32]

(* Layouts that must be turned away, and one that is just right.           *)
Scalar(type, q) == [infos |-> <<type>>, table |-> <<>>, params |-> <<q>>,
                    stateless |-> <<>>, capacity |-> 32]
Layouts == {Scalar("uint;4", P("argument", 1, 28, 4)),
            Scalar("uint;4", P("argument", 1, 30, 4)),
            Scalar("ulong;8", P("argument", 1, 8, 4)),
            Scalar("ulong;8", P("argument", 2, 8, 8)),
            Scalar("uint;4", P("enqueued", 0, 8, 4)),
            Scalar("uint;4", P("unknown", 0, 8, 4)),
            [Tableless EXCEPT !.stateless = <<[arg |-> 1, slot |-> Null, at |-> 0, width |-> 8]>>]}

AllKernels == {Usual, Short, Tableless} \cup Layouts
=============================================================================
