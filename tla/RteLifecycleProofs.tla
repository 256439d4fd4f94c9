-------------------------- MODULE RteLifecycleProofs --------------------------
(***************************************************************************)
(* Proofs about RteLifecycle: for any number of runtime environments,      *)
(* descriptors and identifiers, what a constructor acquires is given back  *)
(* exactly once, and a finished object is whole and left alone.            *)
(***************************************************************************)
EXTENDS RteLifecycle, TLAPS

(* The invariant holds before anything is opened.                          *)
LEMMA IInvInit == Init => IInv
<1> SUFFICES ASSUME Init PROVE IInv
  OBVIOUS
<1>1. TypeOK
  BY DEF Init, TypeOK, Locations, Live
<1>2. OneOwner
  BY DEF Init, OneOwner, Live
<1>3. \A r \in Rtes : Contents(r)
  BY DEF Init, Contents
<1>4. ClosedIsEmpty
  BY DEF Init, ClosedIsEmpty
<1>5. DestructorNeverThrows
  BY DEF Init, DestructorNeverThrows
<1> QED
  BY <1>1, <1>2, <1>3, <1>4, <1>5 DEF IInv

(* A step of one object that keeps its device and touches its own file     *)
(* only keeps the invariant if it keeps the types and leaves in the file   *)
(* what the new location asks for.                                         *)
LEMMA OwnFile ==
  ASSUME IInv, NEW r \in Rtes, NEW l \in Live \ {"terminated"},
         pc[r] \in Live, pc' = [pc EXCEPT ![r] = l],
         UNCHANGED <<fd, opened, other>>,
         \A s \in Rtes \ {r} :
           vm'[s] = vm[s] /\ ctx'[s] = ctx[s] /\ probe'[s] = probe[s],
         \A f \in Fds \ {fd[r]} :
           /\ vms'[f] = vms[f] /\ ctxs'[f] = ctxs[f]
           /\ bos'[f] = bos[f] /\ vmOf'[f] = vmOf[f],
         TypeOK', Contents(r)'
  PROVE  IInv'
<1>1. pc \in [Rtes -> Locations] /\ fd[r] \in Fds /\ l \in Locations
  BY DEF IInv, TypeOK, Live
<1>2. \A s \in Rtes : s # r => pc'[s] = pc[s]
  BY <1>1
<1>3. pc'[r] = l
  BY <1>1
<1>4. OneOwner'
  BY <1>1, <1>2, <1>3 DEF IInv, OneOwner
<1>5. ASSUME NEW s \in Rtes PROVE Contents(s)'
  <2>1. CASE s = r
    BY <2>1
  <2>2. CASE s # r /\ pc[s] \in Live
    <3>1. fd[s] # fd[r] /\ fd[s] \in Fds
      BY <2>2 DEF IInv, OneOwner, TypeOK
    <3>2. /\ vms'[fd[s]] = vms[fd[s]] /\ ctxs'[fd[s]] = ctxs[fd[s]]
          /\ bos'[fd[s]] = bos[fd[s]] /\ vmOf'[fd[s]] = vmOf[fd[s]]
      BY <3>1
    <3>3. Contents(s) /\ pc'[s] = pc[s] /\ fd' = fd
          /\ vm'[s] = vm[s] /\ ctx'[s] = ctx[s] /\ probe'[s] = probe[s]
      BY <1>2, <2>2 DEF IInv
    <3> QED
      BY <3>2, <3>3 DEF Contents, Holds
  <2>3. CASE s # r /\ pc[s] \notin Live
    BY <1>2, <2>3 DEF Contents, Live, Locations
  <2> QED
    BY <2>1, <2>2, <2>3
<1>6. ClosedIsEmpty'
  <2>1. fd[r] \in opened
    BY DEF IInv, OneOwner
  <2> QED
    BY <2>1 DEF IInv, ClosedIsEmpty
<1>7. DestructorNeverThrows'
  BY <1>2, <1>3 DEF IInv, DestructorNeverThrows
<1> QED
  BY <1>4, <1>5, <1>6, <1>7 DEF IInv

(* A step of one object that changes nothing but where it is keeps the     *)
(* invariant if what it has is what the new location asks for.             *)
LEMMA OnlyMoves ==
  ASSUME IInv, NEW r \in Rtes, NEW l \in Live \ {"terminated"},
         pc[r] \in Live, pc' = [pc EXCEPT ![r] = l],
         UNCHANGED <<fd, vm, ctx, probe, opened, other, objects>>,
         Contents(r)'
  PROVE  IInv'
<1>1. TypeOK'
  BY DEF IInv, TypeOK, objects, Live
<1> QED
  BY <1>1, OwnFile DEF objects

(* Taking a new descriptor, for an object that had none.                   *)
LEMMA OpenStep ==
  ASSUME IInv, NEW r \in Rtes, Open(r)
  PROVE  IInv'
<1>1. PICK f \in Fds \ opened : fd' = [fd EXCEPT ![r] = f] /\ opened' = opened \cup {f}
  BY DEF Open
<1>2. /\ pc[r] = "none" /\ pc' = [pc EXCEPT ![r] = "query"]
      /\ UNCHANGED <<vm, ctx, probe, other, vms, ctxs, bos, vmOf>>
  BY DEF Open, Go, objects
<1>3. pc[r] \notin Live /\ "query" \in Live /\ "query" \in Locations
  BY <1>2 DEF Live, Locations
<1>4. TypeOK'
  BY <1>1, <1>2, <1>3 DEF IInv, TypeOK
<1>5. /\ pc'[r] = "query" /\ fd'[r] = f
      /\ \A s \in Rtes : s # r => pc'[s] = pc[s] /\ fd'[s] = fd[s]
  BY <1>1, <1>2 DEF IInv, TypeOK
<1>6. \A s \in Rtes : pc[s] \in Live => fd[s] # f
  BY <1>1 DEF IInv, OneOwner
<1>7. OneOwner'
  <2>1. \A s, u \in Rtes :
          (pc'[s] \in Live /\ pc'[u] \in Live /\ fd'[s] = fd'[u]) => s = u
    BY <1>5, <1>6 DEF IInv, OneOwner
  <2>2. f \notin other
    BY <1>1 DEF IInv, OneOwner
  <2>3. \A s \in Rtes : pc'[s] \in Live => fd'[s] \in opened' \ other'
    BY <1>1, <1>2, <1>5, <2>2 DEF IInv, OneOwner
  <2>4. \A g \in opened' \ other' : \E s \in Rtes : pc'[s] \in Live /\ fd'[s] = g
    BY <1>1, <1>2, <1>3, <1>5 DEF IInv, OneOwner
  <2> QED
    BY <1>1, <1>2, <2>1, <2>3, <2>4 DEF IInv, OneOwner
<1>8. ASSUME NEW s \in Rtes PROVE Contents(s)'
  <2>1. CASE s = r
    <3>1. vms[f] = {} /\ ctxs[f] = {} /\ bos[f] = {}
      BY <1>1 DEF IInv, ClosedIsEmpty
    <3> QED
      BY <1>2, <1>5, <2>1, <3>1 DEF Contents, Holds
  <2>2. CASE s # r
    BY <1>2, <1>5, <2>2 DEF IInv, Contents, Holds
  <2> QED
    BY <2>1, <2>2
<1>9. ClosedIsEmpty'
  BY <1>1, <1>2 DEF IInv, ClosedIsEmpty
<1>10. DestructorNeverThrows'
  BY <1>5 DEF IInv, DestructorNeverThrows
<1> QED
  BY <1>4, <1>7, <1>8, <1>9, <1>10 DEF IInv

(* An object closes its device as its last step.                           *)
LEMMA CloseOwn ==
  ASSUME IInv, NEW r \in Rtes, NEW l \in {"failed", "gone"},
         pc[r] \in Live, pc' = [pc EXCEPT ![r] = l], CloseFile(fd[r]),
         UNCHANGED <<fd, vm, ctx, probe>>
  PROVE  IInv'
<1>1. l \in Locations /\ l \notin Live /\ l # "terminated"
  BY DEF Locations, Live
<1>2. fd[r] \in Fds /\ fd[r] \in opened \ other
  BY DEF IInv, TypeOK, OneOwner
<1>3. pc'[r] = l /\ \A s \in Rtes : s # r => pc'[s] = pc[s]
  BY DEF IInv, TypeOK
<1>4. other' = other /\ opened' = opened \ {fd[r]}
  BY <1>2 DEF CloseFile
<1>5. /\ \A f \in Fds : f # fd[r] =>
           /\ vms'[f] = vms[f] /\ ctxs'[f] = ctxs[f]
           /\ bos'[f] = bos[f] /\ vmOf'[f] = vmOf[f]
      /\ vms'[fd[r]] = {} /\ ctxs'[fd[r]] = {} /\ bos'[fd[r]] = {}
  BY <1>2 DEF IInv, TypeOK, CloseFile
<1>6. TypeOK'
  <2>1. /\ vms' \in [Fds -> SUBSET Ids] /\ ctxs' \in [Fds -> SUBSET Ids]
        /\ bos' \in [Fds -> SUBSET Ids]
        /\ vmOf' \in [Fds -> [Ids -> Ids \cup {None}]]
    BY DEF IInv, TypeOK, CloseFile
  <2> QED
    BY <1>1, <1>3, <1>4, <2>1 DEF IInv, TypeOK
<1>7. OneOwner'
  <2>1. \A s \in Rtes : pc'[s] \in Live => s # r /\ pc[s] \in Live /\ fd[s] # fd[r]
    BY <1>1, <1>3 DEF IInv, OneOwner
  <2>2. \A f \in opened' \ other' : \E s \in Rtes : pc'[s] \in Live /\ fd'[s] = f
    BY <1>3, <1>4 DEF IInv, OneOwner
  <2> QED
    BY <1>2, <1>4, <2>1, <2>2 DEF IInv, OneOwner
<1>8. ASSUME NEW s \in Rtes PROVE Contents(s)'
  <2>1. CASE s = r \/ pc[s] \notin Live
    BY <1>3, <2>1 DEF Contents, Live, Locations
  <2>2. CASE s # r /\ pc[s] \in Live
    <3>1. fd[s] # fd[r] /\ fd[s] \in Fds
      BY <2>2 DEF IInv, OneOwner, TypeOK
    <3>2. Contents(s)
      BY DEF IInv
    <3> QED
      BY <1>3, <1>5, <2>2, <3>1, <3>2 DEF Contents, Holds
  <2> QED
    BY <2>1, <2>2
<1>9. ClosedIsEmpty'
  BY <1>4, <1>5 DEF IInv, ClosedIsEmpty
<1>10. DestructorNeverThrows'
  BY <1>1, <1>3 DEF IInv, DestructorNeverThrows
<1> QED
  BY <1>6, <1>7, <1>8, <1>9, <1>10 DEF IInv

(* The rest of the program opens a file.                                   *)
LEMMA OtherOpensStep ==
  ASSUME IInv, OtherOpens
  PROVE  IInv'
<1>1. PICK f \in Fds \ opened : opened' = opened \cup {f} /\ other' = other \cup {f}
  BY DEF OtherOpens
<1>2. UNCHANGED <<pc, fd, vm, ctx, probe, vms, ctxs, bos, vmOf>>
  BY DEF OtherOpens, objects
<1>3. TypeOK'
  BY <1>1, <1>2 DEF IInv, TypeOK
<1>4. OneOwner'
  BY <1>1, <1>2 DEF IInv, OneOwner
<1>5. \A r \in Rtes : Contents(r)'
  BY <1>2 DEF IInv, Contents, Holds
<1>6. ClosedIsEmpty' /\ DestructorNeverThrows'
  BY <1>1, <1>2 DEF IInv, ClosedIsEmpty, DestructorNeverThrows
<1> QED
  BY <1>3, <1>4, <1>5, <1>6 DEF IInv

(* The rest of the program closes a file of its own.                       *)
LEMMA OtherClosesStep ==
  ASSUME IInv, OtherCloses
  PROVE  IInv'
<1>1. PICK f \in other : CloseFile(f)
  BY DEF OtherCloses
<1>2. UNCHANGED <<pc, fd, vm, ctx, probe>> /\ f \in Fds
  BY DEF OtherCloses, IInv, TypeOK
<1>3. /\ \A g \in Fds : g # f =>
           /\ vms'[g] = vms[g] /\ ctxs'[g] = ctxs[g]
           /\ bos'[g] = bos[g] /\ vmOf'[g] = vmOf[g]
      /\ vms'[f] = {} /\ ctxs'[f] = {} /\ bos'[f] = {}
  BY <1>1, <1>2 DEF IInv, TypeOK, CloseFile
<1>4. opened' = opened \ {f} /\ other' = other \ {f}
  BY <1>1 DEF CloseFile
<1>5. TypeOK'
  <2>1. /\ vms' \in [Fds -> SUBSET Ids] /\ ctxs' \in [Fds -> SUBSET Ids]
        /\ bos' \in [Fds -> SUBSET Ids]
        /\ vmOf' \in [Fds -> [Ids -> Ids \cup {None}]]
    BY <1>1 DEF IInv, TypeOK, CloseFile
  <2> QED
    BY <1>2, <1>4, <2>1 DEF IInv, TypeOK
<1>6. OneOwner'
  BY <1>2, <1>4 DEF IInv, OneOwner
<1>7. ASSUME NEW r \in Rtes PROVE Contents(r)'
  <2>1. CASE pc[r] \in Live
    <3>1. fd[r] # f /\ fd[r] \in Fds
      BY <2>1 DEF IInv, OneOwner, TypeOK
    <3>2. Contents(r)
      BY DEF IInv
    <3> QED
      BY <1>2, <1>3, <3>1, <3>2 DEF Contents, Holds
  <2>2. CASE pc[r] \notin Live
    BY <1>2, <2>2 DEF Contents, Live, Locations
  <2> QED
    BY <2>1, <2>2
<1>8. ClosedIsEmpty' /\ DestructorNeverThrows'
  BY <1>2, <1>3, <1>4 DEF IInv, ClosedIsEmpty, DestructorNeverThrows
<1> QED
  BY <1>5, <1>6, <1>7, <1>8 DEF IInv

(* A step of an object without device changes nothing that is asked of     *)
(* anyone.                                                                 *)
LEMMA WithoutDevice ==
  ASSUME IInv, NEW r \in Rtes, OpenFails(r) \/ Again(r)
  PROVE  IInv'
<1>1. PICK l \in {"failed", "none"} : pc' = [pc EXCEPT ![r] = l]
  BY DEF OpenFails, Again, Go
<1>2. pc[r] \notin Live /\ l \notin Live /\ l \in Locations
  BY DEF OpenFails, Again, Go, Live, Locations
<1>3. UNCHANGED <<opened, other, vms, ctxs, bos, vmOf>>
  BY DEF OpenFails, Again, objects
<1>4. /\ pc'[r] = l
      /\ \A s \in Rtes : s # r =>
           /\ pc'[s] = pc[s] /\ fd'[s] = fd[s] /\ vm'[s] = vm[s]
           /\ ctx'[s] = ctx[s] /\ probe'[s] = probe[s]
  BY <1>1 DEF IInv, TypeOK, OpenFails, Again
<1>5. TypeOK'
  <2>1. /\ fd' \in [Rtes -> Fds \cup {None}] /\ vm' \in [Rtes -> Ids \cup {None}]
        /\ ctx' \in [Rtes -> Ids \cup {None}] /\ probe' \in [Rtes -> Ids \cup {None}]
    BY DEF IInv, TypeOK, OpenFails, Again
  <2> QED
    BY <1>1, <1>2, <1>3, <1>4, <2>1 DEF IInv, TypeOK
<1>6. OneOwner'
  BY <1>2, <1>3, <1>4 DEF IInv, OneOwner
<1>7. ASSUME NEW s \in Rtes PROVE Contents(s)'
  <2>1. CASE s = r
    BY <1>2, <1>4, <2>1 DEF Contents, Live, Locations
  <2>2. CASE s # r
    <3>1. Contents(s)
      BY DEF IInv
    <3> QED
      BY <1>3, <1>4, <2>2, <3>1 DEF Contents, Holds
  <2> QED
    BY <2>1, <2>2
<1>8. ClosedIsEmpty' /\ DestructorNeverThrows'
  BY <1>1, <1>3, <1>4 DEF IInv, ClosedIsEmpty, DestructorNeverThrows
<1> QED
  BY <1>5, <1>6, <1>7, <1>8 DEF IInv

(* Every step keeps the invariant: one case for each action.               *)
LEMMA IInvStep == IInv /\ [Next]_vars => IInv'
<1> SUFFICES ASSUME IInv, [Next]_vars PROVE IInv'
  OBVIOUS
<1> DEFINE Moves(r, l) ==
      /\ pc[r] \in Live /\ pc' = [pc EXCEPT ![r] = l]
      /\ UNCHANGED <<fd, vm, ctx, probe, opened, other, objects>>
<1>a. ASSUME NEW r \in Rtes, NEW l \in {"probe", "close", "vm", "undo_vm", "undo_ctx"},
             Moves(r, l),
             l = "probe" => pc[r] = "query",
             l = "vm" => pc[r] = "params",
             l = "undo_vm" => pc[r] = "ctx",
             l = "undo_ctx" => pc[r] = "setvm",
             l = "close" => pc[r] \in {"query", "probe", "params", "vm"}
      PROVE  IInv'
  <2>1. pc'[r] = l /\ l \in Live \ {"terminated"}
    BY <1>a DEF IInv, TypeOK, Live, Locations
  <2>2. Contents(r)'
    BY <1>a, <2>1 DEF IInv, Contents, Holds, objects
  <2> QED
    BY <1>a, <2>1, <2>2, OnlyMoves
<1>1. ASSUME NEW r \in Rtes, Open(r) PROVE IInv'
  BY <1>1, OpenStep
<1>2. ASSUME NEW r \in Rtes, OpenFails(r) PROVE IInv'
  BY <1>2, WithoutDevice
<1>3. ASSUME NEW r \in Rtes, Query(r) PROVE IInv'
  BY <1>3, <1>a DEF Query, Go, Live, Locations
<1>4. ASSUME NEW r \in Rtes, ProbeCreate(r) PROVE IInv'
  <2>1. PICK i \in Ids \ bos[fd[r]] :
          /\ bos' = [bos EXCEPT ![fd[r]] = @ \cup {i}]
          /\ probe' = [probe EXCEPT ![r] = i]
    BY <1>4 DEF ProbeCreate
  <2>2. /\ pc[r] = "probe" /\ pc' = [pc EXCEPT ![r] = "mmap"]
        /\ UNCHANGED <<fd, vm, ctx, opened, other, vms, ctxs, vmOf>>
    BY <1>4 DEF ProbeCreate, Go
  <2>3. pc[r] \in Live /\ "mmap" \in Live \ {"terminated"} /\ fd[r] \in Fds
    BY <2>2 DEF IInv, TypeOK, Live, Locations
  <2>4. TypeOK'
    BY <2>1, <2>2, <2>3 DEF IInv, TypeOK, Live
  <2>5. pc'[r] = "mmap" /\ probe'[r] = i /\ bos'[fd[r]] = bos[fd[r]] \cup {i}
    BY <2>1, <2>2, <2>3 DEF IInv, TypeOK
  <2>6. Contents(r)'
    BY <2>2, <2>5 DEF IInv, Contents, Holds
  <2> QED
    BY <2>1, <2>2, <2>3, <2>4, <2>6, OwnFile DEF IInv, TypeOK
<1>5. ASSUME NEW r \in Rtes, ProbeFails(r) PROVE IInv'
  BY <1>5, <1>a DEF ProbeFails, Go, Live, Locations
<1>6. ASSUME NEW r \in Rtes, ProbeMmap(r) PROVE IInv'
  <2>1. PICK l \in {"params", "close"} : pc' = [pc EXCEPT ![r] = l]
    BY <1>6 DEF ProbeMmap, Go
  <2>2. /\ pc[r] = "mmap" /\ bos' = [bos EXCEPT ![fd[r]] = @ \ {probe[r]}]
        /\ UNCHANGED <<fd, vm, ctx, probe, opened, other, vms, ctxs, vmOf>>
    BY <1>6 DEF ProbeMmap, Go
  <2>3. pc[r] \in Live /\ l \in Live \ {"terminated"} /\ fd[r] \in Fds
    BY <2>2 DEF IInv, TypeOK, Live, Locations
  <2>4. TypeOK'
    BY <2>1, <2>2, <2>3 DEF IInv, TypeOK, Live
  <2>5. pc'[r] = l /\ bos'[fd[r]] = bos[fd[r]] \ {probe[r]}
    BY <2>1, <2>2, <2>3 DEF IInv, TypeOK
  <2>6. Contents(r)'
    BY <2>2, <2>5 DEF IInv, Contents, Holds
  <2> QED
    BY <2>1, <2>2, <2>3, <2>4, <2>6, OwnFile DEF IInv, TypeOK
<1>7. ASSUME NEW r \in Rtes, CheckParams(r) PROVE IInv'
  BY <1>7, <1>a DEF CheckParams, Go, Live, Locations
<1>8. ASSUME NEW r \in Rtes, CreateVm(r) PROVE IInv'
  <2>1. PICK i \in Ids \ vms[fd[r]] :
          /\ vms' = [vms EXCEPT ![fd[r]] = @ \cup {i}]
          /\ vm' = [vm EXCEPT ![r] = i]
    BY <1>8 DEF CreateVm
  <2>2. /\ pc[r] = "vm" /\ pc' = [pc EXCEPT ![r] = "ctx"]
        /\ UNCHANGED <<fd, ctx, probe, opened, other, ctxs, bos, vmOf>>
    BY <1>8 DEF CreateVm, Go
  <2>3. pc[r] \in Live /\ "ctx" \in Live \ {"terminated"} /\ fd[r] \in Fds
    BY <2>2 DEF IInv, TypeOK, Live, Locations
  <2>4. TypeOK'
    BY <2>1, <2>2, <2>3 DEF IInv, TypeOK, Live
  <2>5. pc'[r] = "ctx" /\ vm'[r] = i /\ vms'[fd[r]] = vms[fd[r]] \cup {i}
    BY <2>1, <2>2, <2>3 DEF IInv, TypeOK
  <2>6. Contents(r)'
    BY <2>2, <2>5 DEF IInv, Contents, Holds
  <2> QED
    BY <2>1, <2>2, <2>3, <2>4, <2>6, OwnFile DEF IInv, TypeOK
<1>9. ASSUME NEW r \in Rtes, CreateVmFails(r) PROVE IInv'
  BY <1>9, <1>a DEF CreateVmFails, Go, Live, Locations
<1>10. ASSUME NEW r \in Rtes, CreateContext(r) PROVE IInv'
  <2>1. PICK i \in Ids \ ctxs[fd[r]] :
          /\ ctxs' = [ctxs EXCEPT ![fd[r]] = @ \cup {i}]
          /\ ctx' = [ctx EXCEPT ![r] = i]
    BY <1>10 DEF CreateContext
  <2>2. /\ pc[r] = "ctx" /\ pc' = [pc EXCEPT ![r] = "setvm"]
        /\ UNCHANGED <<fd, vm, probe, opened, other, vms, bos, vmOf>>
    BY <1>10 DEF CreateContext, Go
  <2>3. pc[r] \in Live /\ "setvm" \in Live \ {"terminated"} /\ fd[r] \in Fds
    BY <2>2 DEF IInv, TypeOK, Live, Locations
  <2>4. TypeOK'
    BY <2>1, <2>2, <2>3 DEF IInv, TypeOK, Live
  <2>5. pc'[r] = "setvm" /\ ctx'[r] = i /\ ctxs'[fd[r]] = ctxs[fd[r]] \cup {i}
    BY <2>1, <2>2, <2>3 DEF IInv, TypeOK
  <2>6. Contents(r)'
    BY <2>2, <2>5 DEF IInv, Contents, Holds
  <2> QED
    BY <2>1, <2>2, <2>3, <2>4, <2>6, OwnFile DEF IInv, TypeOK
<1>11. ASSUME NEW r \in Rtes, CreateContextFails(r) PROVE IInv'
  BY <1>11, <1>a DEF CreateContextFails, Go, Live, Locations
<1>12. ASSUME NEW r \in Rtes, SetVm(r) PROVE IInv'
  <2>1. /\ pc[r] = "setvm" /\ pc' = [pc EXCEPT ![r] = "ready"]
        /\ ctx[r] \in ctxs[fd[r]] /\ vm[r] \in vms[fd[r]]
        /\ vmOf' = [vmOf EXCEPT ![fd[r]][ctx[r]] = vm[r]]
        /\ UNCHANGED <<fd, vm, ctx, probe, opened, other, vms, ctxs, bos>>
    BY <1>12 DEF SetVm, Go
  <2>2. pc[r] \in Live /\ "ready" \in Live \ {"terminated"} /\ fd[r] \in Fds
    BY <2>1 DEF IInv, TypeOK, Live, Locations
  <2>3. ctx[r] \in Ids /\ vm[r] \in Ids
    BY <2>1, <2>2 DEF IInv, TypeOK
  <2>4. vmOf' \in [Fds -> [Ids -> Ids \cup {None}]]
    BY <2>1, <2>3 DEF IInv, TypeOK
  <2>5. TypeOK'
    BY <2>1, <2>2, <2>4 DEF IInv, TypeOK, Live
  <2>6. pc'[r] = "ready" /\ vmOf'[fd[r]][ctx[r]] = vm[r]
    BY <2>1, <2>2, <2>3 DEF IInv, TypeOK
  <2>7. Contents(r)'
    BY <2>1, <2>6 DEF IInv, Contents, Holds
  <2> QED
    BY <2>1, <2>2, <2>5, <2>7, OwnFile DEF IInv, TypeOK
<1>13. ASSUME NEW r \in Rtes, SetVmFails(r) PROVE IInv'
  BY <1>13, <1>a DEF SetVmFails, Go, Live, Locations
<1>14. ASSUME NEW r \in Rtes, UndoContext(r) PROVE IInv'
  <2>1. /\ pc[r] = "undo_ctx" /\ ctxs' = [ctxs EXCEPT ![fd[r]] = @ \ {ctx[r]}]
        /\ UNCHANGED <<fd, vm, ctx, probe, opened, other, vms, bos, vmOf>>
    BY <1>14 DEF UndoContext, Go
  <2>2. pc[r] \in Live /\ "undo_vm" \in Live \ {"terminated"} /\ fd[r] \in Fds
    BY <2>1 DEF IInv, TypeOK, Live, Locations
  <2>3. pc' = [pc EXCEPT ![r] = "undo_vm"]
    BY <1>14, <2>1 DEF UndoContext, Go
  <2>4. TypeOK'
    BY <2>1, <2>2, <2>3 DEF IInv, TypeOK, Live
  <2>5. pc'[r] = "undo_vm" /\ ctxs'[fd[r]] = ctxs[fd[r]] \ {ctx[r]}
    BY <2>1, <2>2, <2>3 DEF IInv, TypeOK
  <2>6. Contents(r)'
    BY <2>1, <2>5 DEF IInv, Contents, Holds
  <2> QED
    BY <2>1, <2>2, <2>3, <2>4, <2>6, OwnFile DEF IInv, TypeOK
<1>15. ASSUME NEW r \in Rtes, UndoVm(r) PROVE IInv'
  <2>1. /\ pc[r] = "undo_vm" /\ vms' = [vms EXCEPT ![fd[r]] = @ \ {vm[r]}]
        /\ UNCHANGED <<fd, vm, ctx, probe, opened, other, ctxs, bos, vmOf>>
    BY <1>15 DEF UndoVm, Go
  <2>2. pc[r] \in Live /\ "close" \in Live \ {"terminated"} /\ fd[r] \in Fds
    BY <2>1 DEF IInv, TypeOK, Live, Locations
  <2>3. pc' = [pc EXCEPT ![r] = "close"]
    BY <1>15, <2>1 DEF UndoVm, Go
  <2>4. TypeOK'
    BY <2>1, <2>2, <2>3 DEF IInv, TypeOK, Live
  <2>5. pc'[r] = "close" /\ vms'[fd[r]] = vms[fd[r]] \ {vm[r]}
    BY <2>1, <2>2, <2>3 DEF IInv, TypeOK
  <2>6. Contents(r)'
    BY <2>1, <2>5 DEF IInv, Contents, Holds
  <2> QED
    BY <2>1, <2>2, <2>3, <2>4, <2>6, OwnFile DEF IInv, TypeOK
<1>16. ASSUME NEW r \in Rtes, UndoOpen(r) PROVE IInv'
  BY <1>16, CloseOwn DEF UndoOpen, Go, Live, Locations
<1>17. ASSUME NEW r \in Rtes, DestroyContext(r) PROVE IInv'
  <2>1. /\ pc[r] = "ready" /\ ctxs' = [ctxs EXCEPT ![fd[r]] = @ \ {ctx[r]}]
        /\ UNCHANGED <<fd, vm, ctx, probe, opened, other, vms, bos, vmOf>>
    BY <1>17 DEF DestroyContext, Go
  <2>2. pc[r] \in Live /\ "destroy_vm" \in Live \ {"terminated"} /\ fd[r] \in Fds
    BY <2>1 DEF IInv, TypeOK, Live, Locations
  <2>3. pc' = [pc EXCEPT ![r] = "destroy_vm"]
    BY <1>17, <2>1 DEF DestroyContext, Go, IInv, Contents, Holds
  <2>4. TypeOK'
    BY <2>1, <2>2, <2>3 DEF IInv, TypeOK, Live
  <2>5. pc'[r] = "destroy_vm" /\ ctxs'[fd[r]] = ctxs[fd[r]] \ {ctx[r]}
    BY <2>1, <2>2, <2>3 DEF IInv, TypeOK
  <2>6. Contents(r)'
    BY <2>1, <2>5 DEF IInv, Contents, Holds
  <2> QED
    BY <2>1, <2>2, <2>3, <2>4, <2>6, OwnFile DEF IInv, TypeOK
<1>18. ASSUME NEW r \in Rtes, DestroyVm(r) PROVE IInv'
  <2>1. /\ pc[r] = "destroy_vm" /\ vms' = [vms EXCEPT ![fd[r]] = @ \ {vm[r]}]
        /\ UNCHANGED <<fd, vm, ctx, probe, opened, other, ctxs, bos, vmOf>>
    BY <1>18 DEF DestroyVm, Go
  <2>2. pc[r] \in Live /\ "destroy_fd" \in Live \ {"terminated"} /\ fd[r] \in Fds
    BY <2>1 DEF IInv, TypeOK, Live, Locations
  <2>3. pc' = [pc EXCEPT ![r] = "destroy_fd"]
    BY <1>18, <2>1 DEF DestroyVm, Go, IInv, Contents, Holds
  <2>4. TypeOK'
    BY <2>1, <2>2, <2>3 DEF IInv, TypeOK, Live
  <2>5. pc'[r] = "destroy_fd" /\ vms'[fd[r]] = vms[fd[r]] \ {vm[r]}
    BY <2>1, <2>2, <2>3 DEF IInv, TypeOK
  <2>6. Contents(r)'
    BY <2>1, <2>5 DEF IInv, Contents, Holds
  <2> QED
    BY <2>1, <2>2, <2>3, <2>4, <2>6, OwnFile DEF IInv, TypeOK
<1>19. ASSUME NEW r \in Rtes, DestroyFd(r) PROVE IInv'
  BY <1>19, CloseOwn DEF DestroyFd, Go, Live, Locations
<1>20. ASSUME NEW r \in Rtes, Again(r) PROVE IInv'
  BY <1>20, WithoutDevice
<1>21. CASE UNCHANGED vars
  BY <1>21 DEF IInv, vars, objects, TypeOK, OneOwner, Contents, Holds, ClosedIsEmpty,
    DestructorNeverThrows
<1> QED
  BY <1>1, <1>2, <1>3, <1>4, <1>5, <1>6, <1>7, <1>8, <1>9, <1>10, <1>11, <1>12, <1>13, <1>14, <1>15, <1>16, <1>17, <1>18, <1>19, <1>20, <1>21, OtherOpensStep, OtherClosesStep
     DEF Next, Construct, Destroy

LEMMA Invariant == Spec => []IInv
BY IInvInit, IInvStep, PTL DEF Spec

(* The variables keep their types, and an object that is alive always has  *)
(* a device.                                                               *)
THEOREM TypeCorrect == Spec => []TypeOK
BY Invariant, PTL DEF IInv

LEMMA OwnersAreUnique == IInv => FdOwned
<1> SUFFICES ASSUME IInv PROVE FdOwned
  OBVIOUS
<1>1. ASSUME NEW f \in opened, f \in other PROVE Holders(f) = {}
  BY <1>1 DEF IInv, OneOwner, Holders
<1>2. ASSUME NEW f \in opened, f \notin other PROVE \E r \in Rtes : Holders(f) = {r}
  <2>1. PICK r \in Rtes : pc[r] \in Live /\ fd[r] = f
    BY <1>2 DEF IInv, OneOwner
  <2>2. Holders(f) = {r}
    BY <2>1 DEF IInv, OneOwner, Holders
  <2> QED
    BY <2>2
<1> QED
  BY <1>1, <1>2 DEF IInv, OneOwner, FdOwned

(* Every open descriptor has exactly one owner: however a constructor      *)
(* fails and whoever opens and closes files meanwhile, nothing is leaked   *)
(* and nothing is closed twice.                                            *)
THEOREM DescriptorsAreOwned == Spec => []FdOwned
BY Invariant, OwnersAreUnique, PTL

(* The object the user gets has its context bound to its address space,    *)
(* and nothing is left of the mapping test.                                *)
THEOREM ReadyObjectsAreWhole == Spec => []ReadyIsWhole
<1>1. IInv => ReadyIsWhole
  <2> SUFFICES ASSUME IInv, NEW r \in Rtes
               PROVE  /\ pc[r] = "ready" =>
                           /\ vms[fd[r]] = {vm[r]} /\ ctxs[fd[r]] = {ctx[r]}
                           /\ vmOf[fd[r]][ctx[r]] = vm[r]
                      /\ pc[r] \in Live \ {"mmap"} => bos[fd[r]] = {}
                      /\ pc[r] \in {"close", "destroy_fd"} =>
                           vms[fd[r]] = {} /\ ctxs[fd[r]] = {}
    BY DEF ReadyIsWhole
  <2>1. Contents(r) /\ pc[r] # "terminated"
    BY DEF IInv, DestructorNeverThrows
  <2> QED
    BY <2>1 DEF Contents, Holds, Live, Locations
<1> QED
  BY <1>1, Invariant, PTL

(* The destructor always finds its context and its address space.          *)
THEOREM DestructorIsSafe == Spec => []DestructorNeverThrows
BY Invariant, PTL DEF IInv

(* What an object in use needs is out of reach of every other actor: files *)
(* are told apart by their descriptors, and each has one owner.            *)
LEMMA OthersKeepOut ==
  ASSUME IInv, [Next]_vars, NEW r \in Rtes, pc[r] = "ready", pc'[r] = "ready"
  PROVE  InUse(r)' = InUse(r)
<1> DEFINE Same == /\ fd'[r] = fd[r] /\ vm'[r] = vm[r] /\ ctx'[r] = ctx[r]
                   /\ vms'[fd[r]] = vms[fd[r]] /\ ctxs'[fd[r]] = ctxs[fd[r]]
                   /\ vmOf'[fd[r]] = vmOf[fd[r]]
<1>1. fd[r] \in Fds /\ fd[r] \in opened /\ fd[r] \notin other
  BY DEF IInv, TypeOK, OneOwner, Live, Locations
<1>2. ASSUME NEW f, CloseFile(f), f # fd[r], UNCHANGED <<fd, vm, ctx>> PROVE Same
  BY <1>1, <1>2 DEF CloseFile, IInv, TypeOK
<1>3. ASSUME NEW s \in Rtes, Construct(s) \/ Destroy(s) \/ Again(s) PROVE Same
  <2>1. s # r
    <3>1. pc'[s] # pc[s] \/ SetVm(s)
      BY <1>3 DEF IInv, TypeOK, Construct, Destroy, Go, Open, OpenFails, Query, ProbeCreate, ProbeFails, ProbeMmap, CheckParams, CreateVm, CreateVmFails, CreateContext, CreateContextFails, SetVmFails, UndoContext, UndoVm, UndoOpen, DestroyContext, DestroyVm, DestroyFd, Again
    <3> QED
      BY <3>1 DEF SetVm, Go
  <2>2. pc[s] \in Live => fd[s] # fd[r]
    BY <2>1 DEF IInv, OneOwner, Live, Locations
  <2>3. CASE UndoOpen(s) \/ DestroyFd(s)
    <3>1. pc[s] \in Live /\ CloseFile(fd[s]) /\ UNCHANGED <<fd, vm, ctx>>
      BY <2>3 DEF UndoOpen, DestroyFd, Go, Live, Locations
    <3> QED
      BY <1>2, <2>2, <3>1
  <2>4. CASE Open(s) \/ OpenFails(s) \/ Again(s)
    BY <2>1, <2>4 DEF Open, OpenFails, Again, objects, IInv, TypeOK
  <2>5. CASE CreateVm(s) \/ CreateContext(s) \/ SetVm(s)
    <3>1. pc[s] \in Live /\ fd[s] # fd[r]
      BY <2>2, <2>5 DEF CreateVm, CreateContext, SetVm, Go, Live, Locations
    <3> QED
      BY <1>1, <2>1, <2>5, <3>1 DEF CreateVm, CreateContext, SetVm, IInv, TypeOK
  <2>6. CASE \/ UndoContext(s) \/ UndoVm(s) \/ DestroyContext(s) \/ DestroyVm(s)
             \/ ProbeCreate(s) \/ ProbeMmap(s)
    <3>1. pc[s] \in Live /\ fd[s] # fd[r]
      BY <2>2, <2>6 DEF UndoContext, UndoVm, DestroyContext, DestroyVm, ProbeCreate, ProbeMmap,
        Go, Live, Locations
    <3> QED
      BY <1>1, <2>1, <2>6, <3>1 DEF UndoContext, UndoVm, DestroyContext, DestroyVm,
        ProbeCreate, ProbeMmap, IInv, TypeOK
  <2>7. CASE \/ Query(s) \/ ProbeFails(s) \/ CheckParams(s) \/ CreateVmFails(s)
             \/ CreateContextFails(s) \/ SetVmFails(s)
    BY <2>7 DEF Query, ProbeFails, CheckParams, CreateVmFails, CreateContextFails,
      SetVmFails, objects
  <2> QED
    BY <1>3, <2>3, <2>4, <2>5, <2>6, <2>7 DEF Construct, Destroy
<1>4. ASSUME OtherOpens PROVE Same
  BY <1>4 DEF OtherOpens, objects
<1>5. ASSUME OtherCloses PROVE Same
  <2>1. PICK f \in other : CloseFile(f)
    BY <1>5 DEF OtherCloses
  <2> QED
    BY <1>1, <1>2, <1>5, <2>1 DEF OtherCloses
<1>6. ASSUME UNCHANGED vars PROVE Same
  BY <1>6 DEF vars, objects
<1>7. Same
  BY <1>3, <1>4, <1>5, <1>6 DEF Next
<1> QED
  BY <1>7 DEF InUse

(* No step of another thread takes away what an object in use needs.       *)
THEOREM UseIsUndisturbed == Spec => ReadyUndisturbed
<1>1. IInv /\ [Next]_vars =>
        [\A r \in Rtes : pc[r] = "ready" /\ pc'[r] = "ready" => InUse(r)' = InUse(r)]_vars
  BY OthersKeepOut
<1> QED
  BY <1>1, Invariant, PTL DEF Spec, ReadyUndisturbed
=============================================================================
