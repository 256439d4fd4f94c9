---------------------------- MODULE ServiceProofs -----------------------------
(***************************************************************************)
(* Execute implements Service, for every number of callers, blocks,        *)
(* handles and calls.  The invariant of ExecuteProofs is joined by CallInv,*)
(* which also speaks of batches whose call has ended.                      *)
(***************************************************************************)
EXTENDS ExecuteProofs

LEMMA CallInvInit == Init => CallInv
BY DEF Init, CallInv

(* A step of one caller that keeps its batch and does not end normally.    *)
LEMMA CallFrame ==
  ASSUME IInv, CallInv, NEW t \in Callers, NEW l \in Locations,
         pc' = [pc EXCEPT ![t] = l],
         l \in {"build", "register", "ready", "submit"} =>
           pc[t] \in {"build", "register", "ready", "submit"},
         UNCHANGED <<myjob, jobs, gpu>>,
         \/ UNCHANGED outcome /\ (l = "unwind" => pc[t] = "unwind")
         \/ outcome' = [outcome EXCEPT ![t] = "throw"]
  PROVE  CallInv'
<1>1. pc \in [Callers -> Locations] /\ outcome \in [Callers -> {"none", "ok", "throw"}]
  BY DEF IInv, MemInv, TypeOK
<1>2. pc'[t] = l /\ \A u \in Callers : u # t => pc'[u] = pc[u] /\ outcome'[u] = outcome[u]
  BY <1>1
<1>3. outcome'[t] = "throw" \/ (outcome'[t] = outcome[t] /\ (l = "unwind" => pc[t] = "unwind"))
  BY <1>1
<1>4. ASSUME NEW u \in Callers
      PROVE  /\ pc'[u] \in {"build", "register", "ready", "submit"} => myjob'[u] = 0
             /\ myjob'[u] <= Len(jobs')
             /\ outcome'[u] = "ok" => myjob'[u] \in 1..gpu'
             /\ pc'[u] = "unwind" => outcome'[u] # "none"
  BY <1>2, <1>3 DEF CallInv
<1> QED
  BY <1>4 DEF CallInv

LEMMA CallInvStep == IInv /\ CallInv /\ [Next]_vars => CallInv'
<1> SUFFICES ASSUME IInv, CallInv, [Next]_vars PROVE CallInv'
  OBVIOUS
<1>t. /\ pc \in [Callers -> Locations] /\ myjob \in [Callers -> Nat]
      /\ outcome \in [Callers -> {"none", "ok", "throw"}]
      /\ jobs \in Seq([gp : Blocks \cup {None}, pins : SUBSET (Blocks \cup {None})])
      /\ gpu \in 0..Len(jobs) /\ Len(jobs) \in Nat
  BY DEF IInv, MemInv, TypeOK
<1>1. ASSUME NEW t \in Callers, Enter(t) PROVE CallInv'
  <2>1. /\ pc'[t] = "build" /\ myjob'[t] = 0 /\ outcome'[t] = "none"
        /\ UNCHANGED <<jobs, gpu>>
        /\ \A u \in Callers : u # t =>
             pc'[u] = pc[u] /\ myjob'[u] = myjob[u] /\ outcome'[u] = outcome[u]
    BY <1>1, <1>t DEF Enter, queue
  <2> QED
    BY <1>t, <2>1 DEF CallInv
<1>2. ASSUME NEW t \in Callers, NEW l \in Locations, Throw(t, l), UNCHANGED queue
      PROVE  CallInv'
  BY <1>2, CallFrame DEF Throw, queue, Locations
<1>3. ASSUME NEW t \in Callers,
             \/ Reject(t) \/ AllocMemFails(t) \/ RegisterFails(t)
             \/ RejectRelocation(t) \/ SubmitFails(t) \/ WaitTimesOut(t)
      PROVE  CallInv'
  BY <1>2, <1>3 DEF Reject, AllocMemFails, RegisterFails, RejectRelocation, SubmitFails,
    WaitTimesOut, Locations
<1>4. ASSUME NEW t \in Callers, AllocMem(t) \/ UseUserMem(t) PROVE CallInv'
  BY <1>4, CallFrame DEF AllocMem, UseUserMem, queue, Locations
<1>5. ASSUME NEW t \in Callers, Register(t) PROVE CallInv'
  <2>1. PICK l \in {"ready", "build"} : pc' = [pc EXCEPT ![t] = l]
    BY <1>5 DEF Register
  <2> QED
    BY <1>5, <2>1, CallFrame DEF Register, queue, Locations
<1>6. ASSUME NEW t \in Callers, ResetFlag(t) PROVE CallInv'
  BY <1>6, CallFrame DEF ResetFlag, queue, Locations
<1>7. ASSUME NEW t \in Callers, Submit(t) PROVE CallInv'
  <2>1. Len(jobs') = Len(jobs) + 1
    BY <1>7, <1>t DEF Submit
  <2>2. /\ pc'[t] = "wait" /\ myjob'[t] = Len(jobs) + 1 /\ UNCHANGED <<outcome, gpu>>
        /\ \A u \in Callers : u # t => pc'[u] = pc[u] /\ myjob'[u] = myjob[u]
    BY <1>7, <1>t DEF Submit
  <2>3. outcome[t] # "ok"
    BY <1>7 DEF Submit, IInv, JobInv, NotYetOver, Holding
  <2>4. ASSUME NEW u \in Callers
        PROVE  /\ pc'[u] \in {"build", "register", "ready", "submit"} => myjob'[u] = 0
               /\ myjob'[u] <= Len(jobs')
               /\ outcome'[u] = "ok" => myjob'[u] \in 1..gpu'
               /\ pc'[u] = "unwind" => outcome'[u] # "none"
    <3>1. CASE u = t
      BY <1>t, <2>1, <2>2, <2>3, <3>1
    <3>2. CASE u # t
      BY <1>t, <2>1, <2>2, <3>2 DEF CallInv
    <3> QED
      BY <3>1, <3>2
  <2>5. ASSUME NEW u \in Callers, NEW v \in Callers, u # v, myjob'[u] = myjob'[v]
        PROVE  myjob'[u] = 0
    <3>1. \A w \in Callers : myjob[w] <= Len(jobs) /\ myjob[w] \in Nat
      BY <1>t DEF CallInv
    <3>2. u # t /\ v # t
      BY <1>t, <2>2, <2>5, <3>1
    <3> QED
      BY <2>2, <2>5, <3>2 DEF CallInv
  <2> QED
    BY <2>4, <2>5 DEF CallInv
<1>8. ASSUME NEW t \in Callers, WaitDone(t) PROVE CallInv'
  BY <1>8, CallFrame DEF WaitDone, queue, Locations
<1>9. ASSUME NEW t \in Callers, Poll(t) PROVE CallInv'
  <2>1. /\ pc[t] = "poll" /\ pc'[t] = "unwind" /\ outcome'[t] = "ok"
        /\ UNCHANGED <<myjob, jobs, gpu>>
        /\ \A u \in Callers : u # t => pc'[u] = pc[u] /\ outcome'[u] = outcome[u]
    BY <1>9, <1>t DEF Poll, queue
  <2>2. myjob[t] \in 1..gpu
    BY <1>t, <2>1 DEF IInv, JobInv, JobOf
  <2> QED
    BY <1>t, <2>1, <2>2 DEF CallInv
<1>10. ASSUME NEW t \in Callers, CloseHandle(t) PROVE CallInv'
  <2>1. PICK l \in {"unwind", "terminated"} : pc' = [pc EXCEPT ![t] = l]
    BY <1>10, <1>t DEF CloseHandle
  <2> QED
    BY <1>10, <2>1, CallFrame DEF CloseHandle, queue, Locations
<1>11. ASSUME NEW t \in Callers, FreeMem(t) PROVE CallInv'
  BY <1>11 DEF FreeMem, queue, CallInv
<1>12. ASSUME NEW t \in Callers, Leave(t) PROVE CallInv'
  BY <1>12, CallFrame DEF Leave, queue, Locations
<1>13. ASSUME GpuWrite PROVE CallInv'
  BY <1>13 DEF GpuWrite, local, CallInv
<1>14. ASSUME GpuRetire \/ GpuHang PROVE CallInv'
  BY <1>14, <1>t DEF GpuRetire, GpuHang, local, CallInv
<1>15. CASE UNCHANGED vars
  BY <1>15 DEF vars, local, queue, CallInv
<1> QED
  BY <1>1, <1>3, <1>4, <1>5, <1>6, <1>7, <1>8, <1>9, <1>10, <1>11, <1>12, <1>13, <1>14,
     <1>15 DEF Next, CallStep, GpuStep

(* A step that no caller of Service would notice.                          *)
LEMMA Unnoticed ==
  ASSUME \A t \in Callers : pc'[t] = "idle" <=> pc[t] = "idle",
         \A t \in Callers : pc[t] = "idle" => outcome'[t] = outcome[t],
         \A t \in Callers : myjob'[t] \in written' <=> myjob[t] \in written
  PROVE  /\ [t \in Callers |-> IF pc'[t] = "idle" THEN "idle" ELSE "busy"]
              = [t \in Callers |-> IF pc[t] = "idle" THEN "idle" ELSE "busy"]
         /\ [t \in Callers |-> IF pc'[t] = "idle" THEN outcome'[t] ELSE "none"]
              = [t \in Callers |-> IF pc[t] = "idle" THEN outcome[t] ELSE "none"]
         /\ {t \in Callers : myjob'[t] \in written'}
              = {t \in Callers : myjob[t] \in written}
<1>1. /\ [t \in Callers |-> IF pc'[t] = "idle" THEN "idle" ELSE "busy"]
           = [t \in Callers |-> IF pc[t] = "idle" THEN "idle" ELSE "busy"]
      /\ [t \in Callers |-> IF pc'[t] = "idle" THEN outcome'[t] ELSE "none"]
           = [t \in Callers |-> IF pc[t] = "idle" THEN outcome[t] ELSE "none"]
  OBVIOUS
<1>2. {t \in Callers : myjob'[t] \in written'} = {t \in Callers : myjob[t] \in written}
  OBVIOUS
<1> QED
  BY <1>1, <1>2

(* The same, seen through the refinement mapping.                          *)
LEMMA Stutter ==
  ASSUME \A t \in Callers : pc'[t] = "idle" <=> pc[t] = "idle",
         \A t \in Callers : pc[t] = "idle" => outcome'[t] = outcome[t],
         \A t \in Callers : myjob'[t] \in written' <=> myjob[t] \in written,
         UNCHANGED faults
  PROVE  UNCHANGED Promise!vars
BY Unnoticed DEF Promise!vars

(* Every step of Execute is a step of Service or goes unnoticed.           *)
LEMMA ServiceStep ==
  IInv /\ IInv' /\ CallInv /\ CallInv' /\ [Next]_vars => [Promise!Next]_(Promise!vars)
<1> SUFFICES ASSUME IInv, IInv', CallInv, CallInv', [Next]_vars
             PROVE  [Promise!Next]_(Promise!vars)
  OBVIOUS
<1>t. /\ pc \in [Callers -> Locations] /\ myjob \in [Callers -> Nat]
      /\ outcome \in [Callers -> {"none", "ok", "throw"}]
      /\ faults \subseteq {"timeout", "hang"} /\ written \subseteq 1..Len(jobs)
      /\ gpu \in 0..Len(jobs) /\ Len(jobs) \in Nat
  BY DEF IInv, MemInv, TypeOK
<1>1. ASSUME NEW t \in Callers, Enter(t) PROVE Promise!Begin(t)
  <2>1. /\ pc[t] = "idle" /\ pc'[t] = "build" /\ myjob'[t] = 0
        /\ UNCHANGED <<written, faults>>
        /\ \A u \in Callers : u # t =>
             pc'[u] = pc[u] /\ myjob'[u] = myjob[u] /\ outcome'[u] = outcome[u]
    BY <1>1, <1>t DEF Enter, queue
  <2>2. myjob'[t] \notin written'
    BY <1>t, <2>1
  <2>3. {u \in Callers : myjob'[u] \in written'}
          = {u \in Callers : myjob[u] \in written} \ {t}
    BY <2>1, <2>2
  <2> QED
    BY <2>1, <2>3 DEF Promise!Begin
<1>2. ASSUME NEW t \in Callers, Leave(t) PROVE Promise!Return(t) \/ Promise!Throw(t)
  <2>1. /\ pc[t] = "unwind" /\ pc'[t] = "idle"
        /\ UNCHANGED <<outcome, myjob, written, faults>>
        /\ \A u \in Callers : u # t => pc'[u] = pc[u]
    BY <1>2, <1>t DEF Leave, queue
  <2>2. outcome[t] \in {"ok", "throw"}
    BY <1>t, <2>1 DEF CallInv
  <2>3. outcome[t] = "ok" => myjob[t] \in written \/ faults = {"timeout", "hang"}
    BY DEF IInv, JobInv, ReturnMeansFinished
  <2>4. CASE outcome[t] = "ok"
    BY <2>1, <2>3, <2>4 DEF Promise!Return
  <2>5. CASE outcome[t] = "throw"
    BY <2>1, <2>5 DEF Promise!Throw
  <2> QED
    BY <2>2, <2>4, <2>5
<1>3. ASSUME GpuWrite PROVE (\E t \in Callers : Promise!Run(t)) \/ UNCHANGED Promise!vars
  <2>1. /\ gpu + 1 \notin written /\ written' = written \cup {gpu + 1}
        /\ UNCHANGED <<pc, outcome, myjob, faults>>
    BY <1>3 DEF GpuWrite, local
  <2>2. CASE \E t \in Callers : myjob[t] = gpu + 1
    <3>1. PICK t \in Callers : myjob[t] = gpu + 1
      BY <2>2
    <3>2. outcome[t] # "ok"
      BY <1>t, <3>1 DEF CallInv
    <3>3. \A u \in Callers : u # t => myjob[u] # gpu + 1
      BY <1>t, <3>1 DEF CallInv
    <3>4. {u \in Callers : myjob'[u] \in written'}
            = {u \in Callers : myjob[u] \in written} \cup {t}
      BY <2>1, <3>1, <3>3
    <3>5. Promise!Run(t)
      BY <2>1, <3>1, <3>2, <3>4 DEF Promise!Run
    <3> QED
      BY <3>5
  <2>3. CASE \A t \in Callers : myjob[t] # gpu + 1
    BY <2>1, <2>3, Stutter
  <2> QED
    BY <2>2, <2>3
<1>4. ASSUME UNCHANGED <<myjob, written>>, faults' \in {{}, {"timeout"}, {"hang"}, {"timeout", "hang"}},
             faults \subseteq faults',
             \A t \in Callers : pc'[t] = "idle" <=> pc[t] = "idle",
             \A t \in Callers : pc[t] = "idle" => outcome'[t] = outcome[t]
      PROVE  Promise!Excuse \/ UNCHANGED Promise!vars
  <2>1. CASE (faults' = {"timeout", "hang"}) = (faults = {"timeout", "hang"})
    BY <1>4, <2>1, Unnoticed DEF Promise!vars
  <2>2. CASE (faults' = {"timeout", "hang"}) # (faults = {"timeout", "hang"})
    <3>1. faults # {"timeout", "hang"} /\ faults' = {"timeout", "hang"}
      BY <1>4, <2>2
    <3> QED
      BY <1>4, <3>1, Unnoticed DEF Promise!Excuse
  <2> QED
    BY <2>1, <2>2
<1>5. ASSUME NEW t \in Callers, WaitTimesOut(t) PROVE Promise!Excuse \/ UNCHANGED Promise!vars
  <2>1. /\ pc[t] = "wait" /\ pc'[t] = "unwind" /\ faults' = faults \cup {"timeout"}
        /\ UNCHANGED <<myjob, written>>
        /\ \A u \in Callers : u # t => pc'[u] = pc[u] /\ outcome'[u] = outcome[u]
    BY <1>5, <1>t DEF WaitTimesOut, Throw, queue
  <2> QED
    BY <1>t, <1>4, <2>1
<1>6. ASSUME GpuHang PROVE Promise!Excuse \/ UNCHANGED Promise!vars
  <2>1. faults' = faults \cup {"hang"} /\ UNCHANGED <<pc, outcome, myjob, written>>
    BY <1>6 DEF GpuHang, local
  <2> QED
    BY <1>t, <1>4, <2>1
<1>7. ASSUME GpuRetire PROVE UNCHANGED Promise!vars
  BY <1>7, Stutter DEF GpuRetire, local
<1>8. ASSUME NEW t \in Callers, NEW l \in Locations \ {"idle"}, pc[t] # "idle",
             pc' = [pc EXCEPT ![t] = l],
             \A u \in Callers : u # t => outcome'[u] = outcome[u],
             UNCHANGED <<myjob, written, faults>>
      PROVE  UNCHANGED Promise!vars
  <2>1. pc'[t] = l /\ \A u \in Callers : u # t => pc'[u] = pc[u]
    BY <1>8, <1>t
  <2> QED
    BY <1>8, <2>1, Stutter
<1>9. ASSUME NEW t \in Callers,
             \/ Reject(t) \/ AllocMemFails(t) \/ RegisterFails(t)
             \/ RejectRelocation(t) \/ SubmitFails(t)
      PROVE  UNCHANGED Promise!vars
  <2>1. /\ pc[t] # "idle" /\ pc' = [pc EXCEPT ![t] = "unwind"]
        /\ outcome' = [outcome EXCEPT ![t] = "throw"]
        /\ UNCHANGED <<myjob, written, faults>>
    BY <1>9 DEF Reject, AllocMemFails, RegisterFails, RejectRelocation, SubmitFails,
      Throw, queue
  <2>2. \A u \in Callers : u # t => outcome'[u] = outcome[u]
    BY <1>t, <2>1
  <2> QED
    BY <1>8, <2>1, <2>2 DEF Locations
<1>10. ASSUME NEW t \in Callers,
              \/ AllocMem(t) \/ UseUserMem(t) \/ Register(t) \/ ResetFlag(t)
              \/ WaitDone(t) \/ Poll(t) \/ CloseHandle(t) \/ FreeMem(t)
       PROVE  UNCHANGED Promise!vars
  <2>1. PICK l \in Locations \ {"idle"} : pc' = [pc EXCEPT ![t] = l]
    BY <1>10, <1>t DEF AllocMem, UseUserMem, Register, ResetFlag, WaitDone, Poll,
      CloseHandle, FreeMem, Locations
  <2>2. pc[t] # "idle" /\ UNCHANGED <<myjob, written, faults>>
    BY <1>10 DEF AllocMem, UseUserMem, Register, ResetFlag, WaitDone, Poll,
      CloseHandle, FreeMem, queue
  <2>3. \A u \in Callers : u # t => outcome'[u] = outcome[u]
    BY <1>10, <1>t DEF AllocMem, UseUserMem, Register, ResetFlag, WaitDone, Poll,
      CloseHandle, FreeMem
  <2> QED
    BY <1>8, <2>1, <2>2, <2>3
<1>11. ASSUME NEW t \in Callers, Submit(t) PROVE UNCHANGED Promise!vars
  <2>1. /\ pc[t] = "submit" /\ pc'[t] = "wait" /\ myjob'[t] = Len(jobs) + 1
        /\ UNCHANGED <<outcome, written, faults>>
        /\ \A u \in Callers : u # t => pc'[u] = pc[u] /\ myjob'[u] = myjob[u]
    BY <1>11, <1>t DEF Submit
  <2>2. myjob[t] \notin written /\ myjob'[t] \notin written'
    BY <1>t, <2>1 DEF CallInv
  <2> QED
    BY <2>1, <2>2, Stutter
<1>12. CASE UNCHANGED vars
  BY <1>12, Stutter DEF vars, local, queue
<1> QED
  BY <1>1, <1>2, <1>3, <1>5, <1>6, <1>7, <1>9, <1>10, <1>11, <1>12
     DEF Next, CallStep, GpuStep, Promise!Next

LEMMA ServiceInit == Init => Promise!Init
<1> SUFFICES ASSUME Init PROVE Promise!Init
  OBVIOUS
<1>1. \A t \in Callers : pc[t] = "idle" /\ outcome[t] = "none" /\ myjob[t] \notin written
  BY DEF Init
<1>2. {t \in Callers : myjob[t] \in written} = {}
  BY <1>1
<1>3. (faults = {"timeout", "hang"}) = FALSE
  BY DEF Init
<1> QED
  BY <1>1, <1>2, <1>3 DEF Promise!Init

(* A call that returns has had its own computation run exactly once and    *)
(* never afterwards, and a batch left behind by an earlier call counts for *)
(* no later one: Execute implements Service.                               *)
THEOREM Refinement == Spec => ImplementsService
<1>1. Spec => []IInv
  BY Invariant, PTL DEF IInv, MemInv
<1>2. Spec => []CallInv
  BY <1>1, CallInvInit, CallInvStep, PTL DEF Spec
<1> QED
  BY <1>1, <1>2, ServiceInit, ServiceStep, PTL DEF Spec, ImplementsService, Promise!Spec
=============================================================================
