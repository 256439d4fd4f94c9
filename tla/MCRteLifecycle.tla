--------------------------- MODULE MCRteLifecycle ----------------------------
(***************************************************************************)
(* Two runtime environments, three descriptors (one always left for the    *)
(* rest of the program) and two identifiers per file.  Threads, descriptors*)
(* and identifiers are interchangeable.                                    *)
(***************************************************************************)
EXTENDS RteLifecycle, TLC

Symmetry == Permutations(Rtes) \cup Permutations(Fds) \cup Permutations(Ids)
=============================================================================
