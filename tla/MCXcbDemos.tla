----------------------------- MODULE MCXcbDemos ------------------------------
(***************************************************************************)
(* Small windows and tiles.                                                *)
(***************************************************************************)
EXTENDS XcbDemos

MCSizes == {<<3, 2>>, <<1, 1>>, <<2, 8>>, <<4, 2>>}
MCStartSize == [p \in {"display", "gradients"} |-> IF p = "display" THEN <<3, 2>> ELSE <<1, 1>>]
=============================================================================
