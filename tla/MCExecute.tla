------------------------------ MODULE MCExecute ------------------------------
(***************************************************************************)
(* Instances of Execute for TLC.  Blocks and handles are numbers, so that  *)
(* an allocation policy can be "the lowest free one" (what the kernel does *)
(* for handles) or "any free one".                                         *)
(***************************************************************************)
EXTENDS Execute

AnyOf(S) == S
LowestOf(S) == {x \in S : \A y \in S : x <= y}

(* The buffer objects of a call that decide what happens to another one:   *)
(* the synchronisation word, a user's buffer and the batch.                *)
ShortOrder == <<"gp", "arg", "bb">>
ShortArgs == {"arg"}
ShortChecked == {"gp", "arg", "bb"}
ShortUserBuf == [b \in ShortArgs |-> 100]

(* The ten or more of execute, for a kernel with two pointer arguments.    *)
FullOrder == <<"general", "dynamic", "instruction", "bindless", "gp", "surface",
               "arg1", "arg2", "indirect", "bb2", "bb">>
FullArgs == {"arg1", "arg2"}
FullChecked == {"general", "arg1", "arg2", "indirect", "bb2"}
FullUserBuf == [b \in FullArgs |-> IF b = "arg1" THEN 100 ELSE 101]
=============================================================================
