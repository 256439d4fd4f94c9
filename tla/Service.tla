------------------------------- MODULE Service -------------------------------
(***************************************************************************)
(* What PreparedKernel::execute promises to its callers: a computation     *)
(* that runs at most once per call, that has run when the call returns,    *)
(* and that does not run afterwards.  A call that throws promises nothing  *)
(* of that kind: its computation may have run, or may still run later.     *)
(*                                                                         *)
(* The promise is void after the GPU has been late once and was reset once *)
(* (excused).                                                              *)
(***************************************************************************)
CONSTANT Callers

VARIABLES
  status,  \* is the caller in the call?
  result,  \* how its last call ended
  ran,     \* callers whose current or last computation has run
  excused

vars == <<status, result, ran, excused>>

Init ==
  /\ status = [t \in Callers |-> "idle"]
  /\ result = [t \in Callers |-> "none"]
  /\ ran = {}
  /\ excused = FALSE

Begin(t) ==
  /\ status[t] = "idle"
  /\ status' = [status EXCEPT ![t] = "busy"]
  /\ result' = [result EXCEPT ![t] = "none"]
  /\ ran' = ran \ {t}
  /\ UNCHANGED excused

Run(t) ==
  /\ t \notin ran
  /\ result[t] # "ok"
  /\ ran' = ran \cup {t}
  /\ UNCHANGED <<status, result, excused>>

Return(t) ==
  /\ status[t] = "busy"
  /\ t \in ran \/ excused
  /\ status' = [status EXCEPT ![t] = "idle"]
  /\ result' = [result EXCEPT ![t] = "ok"]
  /\ UNCHANGED <<ran, excused>>

Throw(t) ==
  /\ status[t] = "busy"
  /\ status' = [status EXCEPT ![t] = "idle"]
  /\ result' = [result EXCEPT ![t] = "throw"]
  /\ UNCHANGED <<ran, excused>>

Excuse ==
  /\ ~excused
  /\ excused' = TRUE
  /\ UNCHANGED <<status, result, ran>>

Next == (\E t \in Callers : Begin(t) \/ Run(t) \/ Return(t) \/ Throw(t)) \/ Excuse

Spec == Init /\ [][Next]_vars
=============================================================================
