---------------------------- MODULE ExecuteProofs ----------------------------
(***************************************************************************)
(* Proofs about Execute, for every number of callers, blocks, handles and  *)
(* calls, every construction order and every allocation policy.            *)
(***************************************************************************)
EXTENDS Execute, WellFoundedInduction, TLAPS

(* What the allocator and the kernel hand out is free.                     *)
LEMMA PageIsFree ==
  ASSUME NEW S, S \subseteq Pages, NEW p \in PagesFrom(S)
  PROVE  p \in S
BY PolicyAssumption

LEMMA HandleIsFree ==
  ASSUME NEW S, S \subseteq Handles, NEW h \in HandlesFrom(S)
  PROVE  h \in S
BY PolicyAssumption

(* Updating one entry of a two-level function.                             *)
LEMMA NestedUpdate ==
  ASSUME NEW A, NEW B, NEW C, NEW f \in [A -> [B -> C]],
         NEW a \in A, NEW b, NEW v \in C
  PROVE  [f EXCEPT ![a][b] = v] \in [A -> [B -> C]]
OBVIOUS

(* There is a buffer object to construct.                                  *)
LEMMA FirstBo == Len(Order) \in Nat \ {0}
BY OrderAssumption DEF Bos

(* The variables keep their types, whatever execute does.                  *)
THEOREM TypeCorrect == Spec => []TypeOK
<1>1. Init => TypeOK
  <2> SUFFICES ASSUME Init PROVE TypeOK
    OBVIOUS
  <2>1. word \in [Blocks -> {0, 1}]
    BY BoundAssumption DEF Init
  <2> QED
    BY <2>1, FirstBo DEF Init, TypeOK, Locations
<1>2. TypeOK /\ [Next]_vars => TypeOK'
  <2> SUFFICES ASSUME TypeOK, [Next]_vars PROVE TypeOK'
    OBVIOUS
  <2> USE DEF TypeOK, Locations, queue
  <2>1. ASSUME NEW t \in Callers, Enter(t) PROVE TypeOK'
    BY <2>1, FirstBo DEF Enter
  <2>2. ASSUME NEW t \in Callers, Reject(t) PROVE TypeOK'
    BY <2>2 DEF Reject, Throw
  <2>3. ASSUME NEW t \in Callers, AllocMem(t) PROVE TypeOK'
    <3>1. PICK p \in PagesFrom(Pages \ heap) :
            heap' = heap \cup {p} /\ mem' = [mem EXCEPT ![t][Bo(t)] = p]
      BY <2>3 DEF AllocMem
    <3>2. p \in Pages \ heap
      BY PageIsFree
    <3> QED
      BY <2>3, <3>1, <3>2 DEF AllocMem, Blocks
  <2>4. ASSUME NEW t \in Callers, AllocMemFails(t) PROVE TypeOK'
    BY <2>4 DEF AllocMemFails, Throw
  <2>5. ASSUME NEW t \in Callers, UseUserMem(t) PROVE TypeOK'
    BY <2>5 DEF UseUserMem, Blocks
  <2>6. ASSUME NEW t \in Callers, Register(t) PROVE TypeOK'
    <3>1. PICK h \in HandlesFrom({k \in Handles : gem[k] = None}) :
            /\ gem' = [gem EXCEPT ![h] = mem[t][Bo(t)]]
            /\ hdl' = [hdl EXCEPT ![t][Bo(t)] = h]
      BY <2>6 DEF Register
    <3>2. h \in {k \in Handles : gem[k] = None}
      BY HandleIsFree
    <3>3. Bo(t) \in Bos
      BY DEF Bo, Bos
    <3>4. /\ gem' \in [Handles -> Blocks \cup {None}]
          /\ hdl' \in [Callers -> [Bos -> Handles \cup {None}]]
      BY <3>1, <3>2, <3>3
    <3>5. /\ pc' \in [Callers -> Locations]
          /\ at' \in [Callers -> 1..Len(Order)]
      <4>1. CASE at[t] = Len(Order)
        BY <2>6, <4>1 DEF Register
      <4>2. CASE at[t] # Len(Order)
        <5>1. at[t] \in 1..Len(Order) /\ at[t] + 1 \in 1..Len(Order)
          BY <4>2, FirstBo
        <5>2. /\ pc' = [pc EXCEPT ![t] = "build"]
              /\ at' = [at EXCEPT ![t] = at[t] + 1]
          BY <2>6, <4>2 DEF Register
        <5> QED
          BY <5>1, <5>2
      <4> QED
        BY <4>1, <4>2
    <3> QED
      BY <2>6, <3>4, <3>5 DEF Register
  <2>7. ASSUME NEW t \in Callers, RegisterFails(t) PROVE TypeOK'
    BY <2>7 DEF RegisterFails, Throw
  <2>8. ASSUME NEW t \in Callers, RejectRelocation(t) PROVE TypeOK'
    BY <2>8 DEF RejectRelocation, Throw
  <2>9. ASSUME NEW t \in Callers, ResetFlag(t) PROVE TypeOK'
    BY <2>9 DEF ResetFlag
  <2>10. ASSUME NEW t \in Callers, Submit(t) PROVE TypeOK'
    BY <2>10, OrderAssumption DEF Submit
  <2>11. ASSUME NEW t \in Callers, SubmitFails(t) PROVE TypeOK'
    BY <2>11 DEF SubmitFails, Throw
  <2>12. ASSUME NEW t \in Callers, WaitDone(t) PROVE TypeOK'
    BY <2>12 DEF WaitDone
  <2>13. ASSUME NEW t \in Callers, WaitTimesOut(t) PROVE TypeOK'
    BY <2>13 DEF WaitTimesOut, Throw
  <2>14. ASSUME NEW t \in Callers, Poll(t) PROVE TypeOK'
    BY <2>14 DEF Poll
  <2>15. ASSUME NEW t \in Callers, CloseHandle(t) PROVE TypeOK'
    <3>1. PICK b \in Live(t) :
            IF gem[hdl[t][b]] = None
            THEN UNCHANGED <<hdl, mem, gem>>
            ELSE /\ gem' = [gem EXCEPT ![hdl[t][b]] = None]
                 /\ hdl' = [hdl EXCEPT ![t][b] = None]
                 /\ mem' = IF b \in ArgBos THEN [mem EXCEPT ![t][b] = None] ELSE mem
      BY <2>15 DEF CloseHandle
    <3>2. pc' \in [Callers -> Locations]
      BY <2>15 DEF CloseHandle
    <3>3. mem' \in [Callers -> [Bos -> Blocks \cup {None}]]
      <4>1. [mem EXCEPT ![t][b] = None] \in [Callers -> [Bos -> Blocks \cup {None}]]
        BY NestedUpdate
      <4> QED
        BY <3>1, <4>1
    <3>4. hdl' \in [Callers -> [Bos -> Handles \cup {None}]]
      <4>1. [hdl EXCEPT ![t][b] = None] \in [Callers -> [Bos -> Handles \cup {None}]]
        BY NestedUpdate
      <4> QED
        BY <3>1, <4>1
    <3>5. gem' \in [Handles -> Blocks \cup {None}]
      BY <3>1
    <3> QED
      BY <2>15, <3>2, <3>3, <3>4, <3>5 DEF CloseHandle
  <2>16. ASSUME NEW t \in Callers, FreeMem(t) PROVE TypeOK'
    <3>1. PICK b \in Closed(t) :
            heap' = heap \ {mem[t][b]} /\ mem' = [mem EXCEPT ![t][b] = None]
      BY <2>16 DEF FreeMem
    <3> QED
      BY <2>16, <3>1 DEF FreeMem
  <2>17. ASSUME NEW t \in Callers, Leave(t) PROVE TypeOK'
    BY <2>17 DEF Leave
  <2>18. ASSUME GpuStep PROVE TypeOK'
    <3>1. CASE GpuWrite
      <4>1. written' \subseteq 1..Len(jobs')
        BY <3>1 DEF GpuWrite
      <4>2. word' \in [Blocks -> {0, 1}]
        BY <3>1 DEF GpuWrite
      <4> QED
        BY <3>1, <4>1, <4>2 DEF GpuWrite, local
    <3>2. CASE GpuRetire
      BY <3>2 DEF GpuRetire, local
    <3>3. CASE GpuHang
      BY <3>3 DEF GpuHang, local
    <3> QED
      BY <2>18, <3>1, <3>2, <3>3 DEF GpuStep
  <2>19. CASE UNCHANGED vars
    BY <2>19 DEF vars, local, queue
  <2> QED
    BY <2>1, <2>2, <2>3, <2>4, <2>5, <2>6, <2>7, <2>8, <2>9, <2>10, <2>11,
       <2>12, <2>13, <2>14, <2>15, <2>16, <2>17, <2>18, <2>19 DEF Next, CallStep
<1> QED
  BY <1>1, <1>2, PTL DEF Spec
-----------------------------------------------------------------------------
(* Shape: what a caller holds at each point of execute.                    *)

(* Only the caller's own variables matter.                                 *)
LEMMA ShapeFrame ==
  ASSUME NEW u \in Callers, Shape(u),
         pc'[u] = pc[u], at'[u] = at[u], hdl'[u] = hdl[u], mem'[u] = mem[u]
  PROVE  Shape(u)'
BY DEF Shape, BuiltUpTo, Bo, Live, Closed

(* The positions of the construction order name different buffer objects.  *)
LEMMA DistinctBos ==
  /\ \A i \in 1..Len(Order) : Order[i] \in Bos
  /\ \A i, j \in 1..Len(Order) : Order[i] = Order[j] => i = j
  /\ \A b \in Bos : \E i \in 1..Len(Order) : b = Order[i]
BY OrderAssumption DEF Bos

(* An exception leaves no memory behind without a handle.                  *)
LEMMA ThrowShape ==
  ASSUME TypeOK, NEW t \in Callers, NEW l \in Holding \cup {"build"},
         Shape(t), Throw(t, l), hdl' = hdl, mem' = mem
  PROVE  Shape(t)'
<1>1. pc[t] = l /\ pc'[t] = "unwind"
  BY DEF Throw, TypeOK
<1>2. Closed(t) = {}
  <2>1. CASE l \in Holding
    BY <1>1, <2>1 DEF Shape, Live, Closed, Holding
  <2>2. CASE l = "build"
    <3>1. BuiltUpTo(t, at[t]) /\ mem[t][Order[at[t]]] = None
      BY <1>1, <2>2 DEF Shape, Bo
    <3>2. at[t] \in 1..Len(Order)
      BY DEF TypeOK
    <3>3. ASSUME NEW j \in 1..Len(Order)
          PROVE  hdl[t][Order[j]] # None \/ mem[t][Order[j]] = None
      BY <3>1, <3>2, FirstBo DEF BuiltUpTo
    <3> QED
      BY <3>3, DistinctBos DEF Closed
  <2> QED
    BY <2>1, <2>2
<1>3. Closed(t)' = {}
  BY <1>2 DEF Closed
<1> QED
  BY <1>1, <1>3 DEF Shape, Holding

(* One step of caller t keeps the shape of every caller when it keeps that *)
(* of t and touches only the variables of t.                               *)
LEMMA ShapesFromOne ==
  ASSUME TypeOK, Shapes, NEW t \in Callers, Shape(t)',
         \A u \in Callers \ {t} :
           /\ pc'[u] = pc[u] /\ at'[u] = at[u]
           /\ hdl'[u] = hdl[u] /\ mem'[u] = mem[u]
  PROVE  Shapes'
BY ShapeFrame DEF Shapes

LEMMA ShapesStep == TypeOK /\ Shapes /\ [Next]_vars => Shapes'
<1> SUFFICES ASSUME TypeOK, Shapes, [Next]_vars PROVE Shapes'
  OBVIOUS
<1> USE DEF Holding
<1>1. ASSUME NEW t \in Callers, Enter(t) PROVE Shapes'
  <2>1. \A b \in Bos : hdl[t][b] = None /\ mem[t][b] = None
    BY <1>1 DEF Shapes, Shape, Live, Closed, Enter
  <2>2. /\ hdl' = hdl /\ mem' = mem
        /\ pc' = [pc EXCEPT ![t] = "build"]
        /\ at' = [at EXCEPT ![t] = 1]
    BY <1>1 DEF Enter
  <2>3. pc'[t] = "build" /\ at'[t] = 1
    BY <2>2 DEF TypeOK
  <2>4. Shape(t)'
    <3>1. BuiltUpTo(t, 1)' /\ mem'[t][Order[1]] = None
      BY <2>1, <2>2, DistinctBos, FirstBo DEF BuiltUpTo
    <3>2. \A b \in ArgBos : mem'[t][b] \in {None, UserBuf[b]}
      BY <2>2 DEF Shapes, Shape
    <3> QED
      BY <2>3, <3>1, <3>2 DEF Shape, Bo
  <2>5. \A u \in Callers \ {t} : pc'[u] = pc[u] /\ at'[u] = at[u]
    BY <2>2 DEF TypeOK
  <2> QED
    BY <2>2, <2>4, <2>5, ShapesFromOne
<1>2. ASSUME NEW t \in Callers, NEW l \in Holding \cup {"build"}, Throw(t, l),
             hdl' = hdl, mem' = mem
      PROVE  Shapes'
  <2>1. Shape(t)'
    BY <1>2, ThrowShape DEF Shapes
  <2>2. at' = at /\ \A u \in Callers \ {t} : pc'[u] = pc[u]
    BY <1>2 DEF Throw, TypeOK
  <2> QED
    BY <1>2, <2>1, <2>2, ShapesFromOne
<1>3. ASSUME NEW t \in Callers, NEW p \in Blocks,
             pc[t] = "build", pc' = [pc EXCEPT ![t] = "register"],
             Bo(t) \in ArgBos => p = UserBuf[Bo(t)],
             mem' = [mem EXCEPT ![t][Bo(t)] = p], hdl' = hdl, at' = at
      PROVE  Shapes'
  <2> DEFINE i == at[t]
  <2>1. i \in 1..Len(Order) /\ Bo(t) = Order[i] /\ Bo(t) \in Bos
    BY DistinctBos DEF TypeOK, Bo
  <2>2. pc'[t] = "register" /\ \A u \in Callers \ {t} : pc'[u] = pc[u] /\ mem'[u] = mem[u]
    BY <1>3 DEF TypeOK
  <2>3. /\ mem'[t][Bo(t)] = p
        /\ \A b \in Bos \ {Bo(t)} : mem'[t][b] = mem[t][b]
    BY <1>3, <2>1 DEF TypeOK
  <2>4. BuiltUpTo(t, i)
    BY <1>3 DEF Shapes, Shape
  <2>5. BuiltUpTo(t, i)'
    <3> SUFFICES ASSUME NEW j \in 1..Len(Order), j > i
                 PROVE  mem'[t][Order[j]] = mem[t][Order[j]]
      BY <1>3, <2>4 DEF BuiltUpTo
    <3>1. Order[j] # Order[i] /\ Order[j] \in Bos
      BY <2>1, DistinctBos, FirstBo
    <3> QED
      BY <2>1, <2>3, <3>1
  <2>6. \A b \in ArgBos : mem'[t][b] \in {None, UserBuf[b]}
    BY <1>3, <2>3, OrderAssumption DEF Shapes, Shape
  <2>7. Bo(t)' = Bo(t) /\ at'[t] = i /\ p # None
    BY <1>3, MemoryAssumption DEF Bo
  <2>8. Shape(t)'
    BY <2>2, <2>3, <2>5, <2>6, <2>7 DEF Shape
  <2> QED
    BY <1>3, <2>2, <2>8, ShapesFromOne
<1>4. ASSUME NEW t \in Callers, Register(t) PROVE Shapes'
  <2> DEFINE i == at[t]
  <2>1. i \in 1..Len(Order) /\ Bo(t) = Order[i] /\ Bo(t) \in Bos
    BY DistinctBos DEF TypeOK, Bo
  <2>2. PICK h \in HandlesFrom({k \in Handles : gem[k] = None}) :
          hdl' = [hdl EXCEPT ![t][Bo(t)] = h]
    BY <1>4 DEF Register
  <2>3. h \in Handles /\ h # None
    BY HandleIsFree, MemoryAssumption
  <2>4. /\ hdl'[t][Order[i]] = h
        /\ \A b \in Bos \ {Order[i]} : hdl'[t][b] = hdl[t][b]
        /\ \A u \in Callers \ {t} : hdl'[u] = hdl[u]
    BY <2>1, <2>2, <2>3 DEF TypeOK
  <2>5. BuiltUpTo(t, i) /\ pc[t] = "register" /\ mem' = mem
    BY <1>4 DEF Shapes, Shape, Register
  <2>6. \A j \in 1..Len(Order) :
          IF j < i + 1 THEN hdl'[t][Order[j]] # None
          ELSE hdl'[t][Order[j]] = None /\ mem'[t][Order[j]] = None
    <3> SUFFICES ASSUME NEW j \in 1..Len(Order)
                 PROVE  IF j < i + 1 THEN hdl'[t][Order[j]] # None
                        ELSE hdl'[t][Order[j]] = None /\ mem'[t][Order[j]] = None
      OBVIOUS
    <3>1. CASE j = i
      BY <2>1, <2>3, <2>4, <3>1, FirstBo
    <3>2. CASE j # i
      <4>1. hdl'[t][Order[j]] = hdl[t][Order[j]]
        BY <2>1, <2>4, <3>2, DistinctBos
      <4>2. IF j < i THEN hdl[t][Order[j]] # None
            ELSE hdl[t][Order[j]] = None /\ mem[t][Order[j]] = None
        BY <2>1, <2>5, <3>2, FirstBo DEF BuiltUpTo
      <4> QED
        BY <2>1, <2>5, <3>2, <4>1, <4>2, FirstBo
    <3> QED
      BY <3>1, <3>2
  <2>7. \A b \in ArgBos : mem'[t][b] \in {None, UserBuf[b]}
    BY <2>5 DEF Shapes, Shape
  <2>8. CASE i = Len(Order)
    <3>1. /\ pc' = [pc EXCEPT ![t] = "ready"]
          /\ at' = at
      BY <1>4, <2>8 DEF Register
    <3>2. pc'[t] = "ready" /\ \A u \in Callers \ {t} : pc'[u] = pc[u]
      BY <3>1 DEF TypeOK
    <3>3. \A j \in 1..Len(Order) : hdl'[t][Order[j]] # None
      BY <2>6, <2>8, FirstBo
    <3>4. Live(t)' = Bos
      BY <3>3, DistinctBos DEF Live
    <3>5. Shape(t)'
      BY <2>7, <3>2, <3>4 DEF Shape
    <3> QED
      BY <2>4, <2>5, <3>1, <3>2, <3>5, ShapesFromOne
  <2>9. CASE i # Len(Order)
    <3>1. /\ pc' = [pc EXCEPT ![t] = "build"]
          /\ at' = [at EXCEPT ![t] = i + 1]
      BY <1>4, <2>9 DEF Register
    <3>2. /\ pc'[t] = "build" /\ at'[t] = i + 1
          /\ \A u \in Callers \ {t} : pc'[u] = pc[u] /\ at'[u] = at[u]
      BY <3>1 DEF TypeOK
    <3>3. i + 1 \in 1..Len(Order)
      BY <2>1, <2>9, FirstBo
    <3>4. BuiltUpTo(t, at[t])' /\ mem'[t][Order[i + 1]] = None
      BY <2>6, <3>2, <3>3, FirstBo DEF BuiltUpTo
    <3>5. Shape(t)'
      BY <2>7, <3>2, <3>4 DEF Shape, Bo
    <3> QED
      BY <2>4, <2>5, <3>2, <3>5, ShapesFromOne
  <2> QED
    BY <2>8, <2>9
<1>5. ASSUME NEW t \in Callers, RegisterFails(t) PROVE Shapes'
  <2> DEFINE i == at[t]
  <2>1. i \in 1..Len(Order) /\ Bo(t) = Order[i] /\ Bo(t) \in Bos
    BY DistinctBos DEF TypeOK, Bo
  <2>2. /\ mem' = [mem EXCEPT ![t][Bo(t)] = None]
        /\ hdl' = hdl /\ at' = at
        /\ pc[t] = "register"
        /\ pc' = [pc EXCEPT ![t] = "unwind"]
    BY <1>5 DEF RegisterFails, Throw
  <2>3. /\ pc'[t] = "unwind"
        /\ \A u \in Callers \ {t} : pc'[u] = pc[u] /\ mem'[u] = mem[u]
    BY <2>2 DEF TypeOK
  <2>4. /\ mem'[t][Order[i]] = None
        /\ \A b \in Bos \ {Order[i]} : mem'[t][b] = mem[t][b]
    BY <2>1, <2>2 DEF TypeOK
  <2>5. BuiltUpTo(t, i)
    BY <2>2 DEF Shapes, Shape
  <2>6. \A j \in 1..Len(Order) : hdl'[t][Order[j]] # None \/ mem'[t][Order[j]] = None
    <3> SUFFICES ASSUME NEW j \in 1..Len(Order)
                 PROVE  hdl'[t][Order[j]] # None \/ mem'[t][Order[j]] = None
      OBVIOUS
    <3>1. CASE j = i
      BY <2>4, <3>1
    <3>2. CASE j # i
      BY <2>1, <2>2, <2>4, <2>5, <3>2, DistinctBos, FirstBo DEF BuiltUpTo
    <3> QED
      BY <3>1, <3>2
  <2>7. Closed(t)' = {}
    BY <2>6, DistinctBos DEF Closed
  <2>8. \A b \in ArgBos : mem'[t][b] \in {None, UserBuf[b]}
    BY <2>1, <2>4, OrderAssumption DEF Shapes, Shape
  <2>9. Shape(t)'
    BY <2>3, <2>7, <2>8 DEF Shape
  <2> QED
    BY <2>2, <2>3, <2>9, ShapesFromOne
<1>6. ASSUME NEW t \in Callers, NEW l \in Holding, NEW m \in Holding \cup {"unwind"},
             pc[t] = l, pc' = [pc EXCEPT ![t] = m], at' = at, hdl' = hdl, mem' = mem
      PROVE  Shapes'
  <2>1. pc'[t] = m /\ \A u \in Callers \ {t} : pc'[u] = pc[u]
    BY <1>6 DEF TypeOK
  <2>2. Live(t)' = Bos
    BY <1>6 DEF Shapes, Shape, Live
  <2>3. Closed(t)' = {}
    BY <1>6, <2>2 DEF Live, Closed
  <2>4. \A b \in ArgBos : mem'[t][b] \in {None, UserBuf[b]}
    BY <1>6 DEF Shapes, Shape
  <2>5. Shape(t)'
    BY <2>1, <2>2, <2>3, <2>4 DEF Shape
  <2> QED
    BY <1>6, <2>1, <2>5, ShapesFromOne
<1>7. ASSUME NEW t \in Callers, CloseHandle(t) PROVE Shapes'
  <2>1. /\ pc[t] = "unwind" /\ Closed(t) = {} /\ at' = at
        /\ \A b \in ArgBos : mem[t][b] \in {None, UserBuf[b]}
    BY <1>7 DEF CloseHandle, Shapes, Shape
  <2>2. PICK b \in Live(t) :
          IF gem[hdl[t][b]] = None
          THEN /\ pc' = [pc EXCEPT ![t] = "terminated"]
               /\ UNCHANGED <<hdl, mem>>
          ELSE /\ hdl' = [hdl EXCEPT ![t][b] = None]
               /\ mem' = IF b \in ArgBos THEN [mem EXCEPT ![t][b] = None] ELSE mem
               /\ UNCHANGED pc
    BY <1>7 DEF CloseHandle
  <2>3. b \in Bos
    BY DEF Live
  <2>4. CASE gem[hdl[t][b]] = None
    <3>1. /\ pc'[t] = "terminated" /\ \A u \in Callers \ {t} : pc'[u] = pc[u]
          /\ hdl' = hdl /\ mem' = mem
      BY <2>2, <2>4 DEF TypeOK
    <3>2. Shape(t)'
      BY <2>1, <3>1 DEF Shape
    <3> QED
      BY <2>1, <3>1, <3>2, ShapesFromOne
  <2>5. CASE gem[hdl[t][b]] # None
    <3>1. /\ pc' = pc
          /\ \A c \in Bos \ {b} : hdl'[t][c] = hdl[t][c] /\ mem'[t][c] = mem[t][c]
          /\ \A u \in Callers \ {t} : hdl'[u] = hdl[u] /\ mem'[u] = mem[u]
      BY <2>2, <2>3, <2>5 DEF TypeOK
    <3>2. mem'[t][b] = IF b \in ArgBos THEN None ELSE mem[t][b]
      BY <2>2, <2>3, <2>5 DEF TypeOK
    <3>3. Closed(t)' \cap ArgBos = {}
      BY <2>1, <3>1, <3>2 DEF Closed
    <3>4. \A c \in ArgBos : mem'[t][c] \in {None, UserBuf[c]}
      BY <2>1, <3>1, <3>2, OrderAssumption
    <3>5. Shape(t)'
      BY <2>1, <3>1, <3>3, <3>4 DEF Shape
    <3> QED
      BY <2>1, <3>1, <3>5, ShapesFromOne
  <2> QED
    BY <2>4, <2>5
<1>8. ASSUME NEW t \in Callers, FreeMem(t) PROVE Shapes'
  <2>1. /\ pc[t] = "unwind" /\ Closed(t) \cap ArgBos = {}
        /\ \A b \in ArgBos : mem[t][b] \in {None, UserBuf[b]}
        /\ pc' = pc /\ at' = at /\ hdl' = hdl
    BY <1>8 DEF FreeMem, Shapes, Shape
  <2>2. PICK b \in Closed(t) : mem' = [mem EXCEPT ![t][b] = None]
    BY <1>8 DEF FreeMem
  <2>3. b \in Bos
    BY DEF Closed
  <2>4. /\ \A c \in Bos \ {b} : mem'[t][c] = mem[t][c]
        /\ mem'[t][b] = None
        /\ \A u \in Callers \ {t} : mem'[u] = mem[u]
    BY <2>2, <2>3 DEF TypeOK
  <2>5. Closed(t)' \cap ArgBos = {}
    BY <2>1, <2>4 DEF Closed
  <2>6. \A c \in ArgBos : mem'[t][c] \in {None, UserBuf[c]}
    BY <2>1, <2>3, <2>4, OrderAssumption
  <2>7. Shape(t)'
    BY <2>1, <2>5, <2>6 DEF Shape
  <2> QED
    BY <2>1, <2>4, <2>7, ShapesFromOne
<1>9. ASSUME NEW t \in Callers, Leave(t) PROVE Shapes'
  <2>1. /\ pc' = [pc EXCEPT ![t] = "idle"] /\ at' = at /\ hdl' = hdl /\ mem' = mem
        /\ Live(t) = {} /\ Closed(t) = {}
    BY <1>9 DEF Leave
  <2>2. pc'[t] = "idle" /\ \A u \in Callers \ {t} : pc'[u] = pc[u]
    BY <2>1 DEF TypeOK
  <2>3. Live(t)' = {} /\ Closed(t)' = {}
    BY <2>1 DEF Live, Closed
  <2>4. Shape(t)'
    BY <2>1, <2>2, <2>3 DEF Shape, Shapes
  <2> QED
    BY <2>1, <2>2, <2>4, ShapesFromOne
<1>10. ASSUME UNCHANGED <<pc, at, hdl, mem>> PROVE Shapes'
  BY <1>10, ShapeFrame DEF Shapes
<1>11. ASSUME NEW t \in Callers, CallStep(t) PROVE Shapes'
  <2>1. CASE Reject(t) \/ AllocMemFails(t) \/ RejectRelocation(t) \/ SubmitFails(t)
               \/ WaitTimesOut(t)
    BY <2>1, <1>2 DEF Reject, AllocMemFails, RejectRelocation, SubmitFails, WaitTimesOut
  <2>2. CASE AllocMem(t)
    <3>1. PICK p \in PagesFrom(Pages \ heap) : mem' = [mem EXCEPT ![t][Bo(t)] = p]
      BY <2>2 DEF AllocMem
    <3>2. p \in Blocks
      BY PageIsFree DEF Blocks
    <3> QED
      BY <1>3, <2>2, <3>1, <3>2 DEF AllocMem
  <2>3. CASE UseUserMem(t)
    BY <1>3, <2>3 DEF UseUserMem, Blocks
  <2>4. CASE ResetFlag(t) \/ Submit(t) \/ WaitDone(t) \/ Poll(t)
    BY <1>6, <2>4 DEF ResetFlag, Submit, WaitDone, Poll
  <2> QED
    BY <1>4, <1>5, <1>7, <1>8, <1>9, <1>11, <2>1, <2>2, <2>3, <2>4 DEF CallStep
<1>12. CASE GpuStep
  BY <1>10, <1>12 DEF GpuStep, GpuWrite, GpuRetire, GpuHang, local
<1>13. CASE UNCHANGED vars
  BY <1>10, <1>13 DEF vars, local
<1> QED
  BY <1>1, <1>11, <1>12, <1>13 DEF Next

-----------------------------------------------------------------------------
(* Ownership of handles and blocks.                                        *)

LEMMA OwnershipFrame ==
  ASSUME Ownership, UNCHANGED <<hdl, mem, heap, gem>>
  PROVE  Ownership'
BY DEF Ownership, HandleOwned, MemoryOwned

(* A buffer object without a handle gets memory nobody else has: a free    *)
(* block, or a buffer of the user.                                         *)
LEMMA TakeMemory ==
  ASSUME TypeOK, Ownership, NEW t \in Callers, NEW b \in Bos, NEW p \in Blocks,
         mem[t][b] = None, hdl[t][b] = None,
         mem' = [mem EXCEPT ![t][b] = p],
         IF b \in ArgBos THEN heap' = heap
         ELSE p \notin heap /\ heap' = heap \cup {p},
         UNCHANGED <<hdl, gem>>
  PROVE  Ownership'
<1>1. /\ mem'[t][b] = p /\ p # None
      /\ \A u \in Callers, c \in Bos : (u # t \/ c # b) => mem'[u][c] = mem[u][c]
  BY MemoryAssumption DEF TypeOK
<1>2. HandleOwned'
  BY <1>1 DEF Ownership, HandleOwned
<1>3. \A q \in heap' : \E u \in Callers, c \in Bos : mem'[u][c] = q
  <2> SUFFICES ASSUME NEW q \in heap'
               PROVE  \E u \in Callers, c \in Bos : mem'[u][c] = q
    OBVIOUS
  <2>1. CASE q \in heap
    <3>1. PICK u \in Callers, c \in Bos : mem[u][c] = q
      BY <2>1 DEF Ownership, MemoryOwned
    <3>2. q # None
      BY <2>1, MemoryAssumption DEF TypeOK, Blocks
    <3> QED
      BY <1>1, <3>1, <3>2
  <2>2. CASE q \notin heap
    BY <1>1, <2>2
  <2> QED
    BY <2>1, <2>2
<1>4. ASSUME NEW u \in Callers, NEW c \in Bos \ ArgBos, mem'[u][c] # None
      PROVE  mem'[u][c] \in heap'
  BY <1>1, <1>4 DEF Ownership, MemoryOwned
<1>5. ASSUME NEW u \in Callers, NEW v \in Callers,
             NEW c \in Bos \ ArgBos, NEW d \in Bos \ ArgBos,
             mem'[u][c] # None, mem'[u][c] = mem'[v][d]
      PROVE  u = v /\ c = d
  BY <1>1, <1>5 DEF Ownership, MemoryOwned
<1> QED
  BY <1>2, <1>3, <1>4, <1>5 DEF Ownership, MemoryOwned

(* A buffer object without a handle gives its memory up; a block goes back *)
(* to the allocator.                                                       *)
LEMMA DropMemory ==
  ASSUME TypeOK, Ownership, Shapes, NEW t \in Callers, NEW b \in Bos,
         mem[t][b] # None, hdl[t][b] = None,
         mem' = [mem EXCEPT ![t][b] = None],
         heap' = heap \ {mem[t][b]},
         UNCHANGED <<hdl, gem>>
  PROVE  Ownership'
<1>1. /\ mem'[t][b] = None
      /\ \A u \in Callers, c \in Bos : (u # t \/ c # b) => mem'[u][c] = mem[u][c]
  BY DEF TypeOK
<1>2. HandleOwned'
  BY <1>1 DEF Ownership, HandleOwned
<1>3. ASSUME NEW q \in heap' PROVE \E u \in Callers, c \in Bos : mem'[u][c] = q
  <2>1. PICK u \in Callers, c \in Bos : mem[u][c] = q
    BY DEF Ownership, MemoryOwned
  <2>2. u # t \/ c # b
    BY <2>1
  <2> QED
    BY <1>1, <2>1, <2>2
<1>4. ASSUME NEW u \in Callers, NEW c \in Bos \ ArgBos, mem'[u][c] # None
      PROVE  mem'[u][c] \in heap'
  <2>1. mem'[u][c] = mem[u][c] /\ (u # t \/ c # b) /\ mem[u][c] \in heap
    BY <1>1, <1>4 DEF Ownership, MemoryOwned
  <2>2. mem[u][c] # mem[t][b]
    <3>1. CASE b \in ArgBos
      <4>1. mem[t][b] = UserBuf[b] /\ UserBuf[b] \notin Pages
        BY <3>1, MemoryAssumption DEF Shapes, Shape
      <4> QED
        BY <2>1, <4>1 DEF TypeOK
    <3>2. CASE b \notin ArgBos
      BY <2>1, <3>2 DEF Ownership, MemoryOwned
    <3> QED
      BY <3>1, <3>2
  <2> QED
    BY <2>1, <2>2
<1>5. ASSUME NEW u \in Callers, NEW v \in Callers,
             NEW c \in Bos \ ArgBos, NEW d \in Bos \ ArgBos,
             mem'[u][c] # None, mem'[u][c] = mem'[v][d]
      PROVE  u = v /\ c = d
  BY <1>1, <1>5 DEF Ownership, MemoryOwned
<1> QED
  BY <1>2, <1>3, <1>4, <1>5 DEF Ownership, MemoryOwned

LEMMA OwnershipStep == TypeOK /\ Shapes /\ Ownership /\ [Next]_vars => Ownership'
<1> SUFFICES ASSUME TypeOK, Shapes, Ownership, [Next]_vars PROVE Ownership'
  OBVIOUS
<1>1. ASSUME NEW t \in Callers, AllocMem(t) PROVE Ownership'
  <2>1. Bo(t) \in Bos \ ArgBos /\ at[t] \in 1..Len(Order) /\ Bo(t) = Order[at[t]]
    BY <1>1, DistinctBos DEF AllocMem, TypeOK, Bo
  <2>2. mem[t][Bo(t)] = None /\ hdl[t][Bo(t)] = None
    BY <1>1, <2>1, FirstBo DEF AllocMem, Shapes, Shape, BuiltUpTo
  <2>3. PICK p \in PagesFrom(Pages \ heap) :
          heap' = heap \cup {p} /\ mem' = [mem EXCEPT ![t][Bo(t)] = p]
    BY <1>1 DEF AllocMem
  <2>4. p \in Pages \ heap /\ p \in Blocks
    BY PageIsFree DEF Blocks
  <2> QED
    BY <1>1, <2>1, <2>2, <2>3, <2>4, TakeMemory DEF AllocMem
<1>2. ASSUME NEW t \in Callers, UseUserMem(t) PROVE Ownership'
  <2>1. Bo(t) \in Bos /\ Bo(t) \in ArgBos /\ at[t] \in 1..Len(Order) /\ Bo(t) = Order[at[t]]
    BY <1>2, DistinctBos DEF UseUserMem, TypeOK, Bo
  <2>2. mem[t][Bo(t)] = None /\ hdl[t][Bo(t)] = None
    BY <1>2, <2>1, FirstBo DEF UseUserMem, Shapes, Shape, BuiltUpTo
  <2>3. UserBuf[Bo(t)] \in Blocks
    BY <2>1 DEF Blocks
  <2> QED
    BY <1>2, <2>1, <2>2, <2>3, TakeMemory DEF UseUserMem
<1>3. ASSUME NEW t \in Callers, Register(t) PROVE Ownership'
  <2>1. Bo(t) \in Bos /\ at[t] \in 1..Len(Order) /\ Bo(t) = Order[at[t]]
    BY DistinctBos DEF TypeOK, Bo
  <2>2. mem[t][Bo(t)] # None /\ hdl[t][Bo(t)] = None
    BY <1>3, <2>1, FirstBo DEF Register, Shapes, Shape, BuiltUpTo
  <2>3. PICK h \in HandlesFrom({k \in Handles : gem[k] = None}) :
          /\ gem' = [gem EXCEPT ![h] = mem[t][Bo(t)]]
          /\ hdl' = [hdl EXCEPT ![t][Bo(t)] = h]
    BY <1>3 DEF Register
  <2>4. h \in Handles /\ gem[h] = None /\ h # None
    BY HandleIsFree, MemoryAssumption
  <2>5. /\ hdl'[t][Bo(t)] = h
        /\ \A u \in Callers, c \in Bos : (u # t \/ c # Bo(t)) => hdl'[u][c] = hdl[u][c]
        /\ gem'[h] = mem[t][Bo(t)]
        /\ \A k \in Handles \ {h} : gem'[k] = gem[k]
    BY <2>1, <2>3, <2>4 DEF TypeOK
  <2>6. \A u \in Callers, c \in Bos : hdl[u][c] # h
    BY <2>4 DEF Ownership, HandleOwned
  <2>7. mem' = mem /\ heap' = heap
    BY <1>3 DEF Register
  <2>8. ASSUME NEW k \in Handles, gem'[k] # None
        PROVE  \E u \in Callers, c \in Bos : hdl'[u][c] = k
    <3>1. CASE k = h
      BY <2>1, <2>5, <3>1
    <3>2. CASE k # h
      <4>1. PICK u \in Callers, c \in Bos : hdl[u][c] = k
        BY <2>5, <2>8, <3>2 DEF Ownership, HandleOwned
      <4>2. u # t \/ c # Bo(t)
        BY <2>2, <4>1, MemoryAssumption
      <4> QED
        BY <2>5, <4>1, <4>2
    <3> QED
      BY <3>1, <3>2
  <2>9. ASSUME NEW u \in Callers, NEW v \in Callers, NEW c \in Bos, NEW d \in Bos,
               hdl'[u][c] # None, hdl'[u][c] = hdl'[v][d]
        PROVE  u = v /\ c = d
    BY <2>5, <2>6, <2>9 DEF Ownership, HandleOwned
  <2>10. ASSUME NEW u \in Callers, NEW c \in Bos, hdl'[u][c] # None
         PROVE  gem'[hdl'[u][c]] = mem'[u][c] /\ mem'[u][c] # None
    <3>1. CASE u = t /\ c = Bo(t)
      BY <2>2, <2>5, <2>7, <3>1
    <3>2. CASE ~(u = t /\ c = Bo(t))
      <4>1. hdl'[u][c] = hdl[u][c] /\ hdl[u][c] \in Handles \ {h}
        BY <2>5, <2>6, <2>10, <3>2 DEF TypeOK
      <4> QED
        BY <2>5, <2>7, <2>10, <4>1 DEF Ownership, HandleOwned
    <3> QED
      BY <3>1, <3>2
  <2>11. HandleOwned'
    BY <2>8, <2>9, <2>10 DEF HandleOwned
  <2>12. MemoryOwned'
    BY <2>7 DEF Ownership, MemoryOwned
  <2> QED
    BY <2>11, <2>12 DEF Ownership
<1>4. ASSUME NEW t \in Callers, RegisterFails(t) PROVE Ownership'
  <2>1. Bo(t) \in Bos /\ at[t] \in 1..Len(Order) /\ Bo(t) = Order[at[t]]
    BY DistinctBos DEF TypeOK, Bo
  <2>2. mem[t][Bo(t)] # None /\ hdl[t][Bo(t)] = None
    BY <1>4, <2>1, FirstBo DEF RegisterFails, Throw, Shapes, Shape, BuiltUpTo
  <2> QED
    BY <1>4, <2>1, <2>2, DropMemory DEF RegisterFails
<1>5. ASSUME NEW t \in Callers, CloseHandle(t) PROVE Ownership'
  <2>1. PICK b \in Live(t) :
          IF gem[hdl[t][b]] = None
          THEN UNCHANGED <<hdl, mem, gem>>
          ELSE /\ gem' = [gem EXCEPT ![hdl[t][b]] = None]
               /\ hdl' = [hdl EXCEPT ![t][b] = None]
               /\ mem' = IF b \in ArgBos THEN [mem EXCEPT ![t][b] = None] ELSE mem
    BY <1>5 DEF CloseHandle
  <2> DEFINE h == hdl[t][b]
  <2>2. b \in Bos /\ h \in Handles /\ heap' = heap /\ h # None
    BY <1>5 DEF CloseHandle, Live, TypeOK
  <2>3. gem[h] = mem[t][b] /\ mem[t][b] # None
    BY <2>2 DEF Ownership, HandleOwned
  <2>4. /\ hdl'[t][b] = None
        /\ \A u \in Callers, c \in Bos : (u # t \/ c # b) => hdl'[u][c] = hdl[u][c]
        /\ gem'[h] = None
        /\ \A k \in Handles \ {h} : gem'[k] = gem[k]
    BY <2>1, <2>2, <2>3 DEF TypeOK
  <2>5. /\ mem'[t][b] = IF b \in ArgBos THEN None ELSE mem[t][b]
        /\ \A u \in Callers, c \in Bos : (u # t \/ c # b) => mem'[u][c] = mem[u][c]
    BY <2>1, <2>2, <2>3 DEF TypeOK
  <2>6. \A u \in Callers, c \in Bos : (u # t \/ c # b) => hdl[u][c] # h
    BY <2>2 DEF Ownership, HandleOwned
  <2>7. ASSUME NEW k \in Handles, gem'[k] # None
        PROVE  \E u \in Callers, c \in Bos : hdl'[u][c] = k
    <3>1. k # h /\ gem[k] # None
      BY <2>4, <2>7
    <3>2. PICK u \in Callers, c \in Bos : hdl[u][c] = k
      BY <3>1 DEF Ownership, HandleOwned
    <3>3. u # t \/ c # b
      BY <3>1, <3>2
    <3> QED
      BY <2>4, <3>2, <3>3
  <2>8. ASSUME NEW u \in Callers, NEW v \in Callers, NEW c \in Bos, NEW d \in Bos,
               hdl'[u][c] # None, hdl'[u][c] = hdl'[v][d]
        PROVE  u = v /\ c = d
    BY <2>4, <2>8 DEF Ownership, HandleOwned
  <2>9. ASSUME NEW u \in Callers, NEW c \in Bos, hdl'[u][c] # None
        PROVE  gem'[hdl'[u][c]] = mem'[u][c] /\ mem'[u][c] # None
    <3>1. (u # t \/ c # b) /\ hdl'[u][c] = hdl[u][c] /\ mem'[u][c] = mem[u][c]
      BY <2>4, <2>5, <2>9
    <3>2. hdl[u][c] \in Handles \ {h}
      BY <2>6, <2>9, <3>1 DEF TypeOK
    <3> QED
      BY <2>4, <2>9, <3>1, <3>2 DEF Ownership, HandleOwned
  <2>10. HandleOwned'
    BY <2>7, <2>8, <2>9 DEF HandleOwned
  <2>11. MemoryOwned'
    <3>1. ASSUME NEW q \in heap' PROVE \E u \in Callers, c \in Bos : mem'[u][c] = q
      <4>1. PICK u \in Callers, c \in Bos : mem[u][c] = q
        BY <2>2 DEF Ownership, MemoryOwned
      <4>2. q \in Pages
        BY <2>2 DEF TypeOK
      <4>3. ~(u = t /\ c = b /\ b \in ArgBos)
        BY <2>3, <4>1, <4>2, MemoryAssumption DEF Shapes, Shape
      <4> QED
        BY <2>5, <4>1, <4>3
    <3>2. \A u \in Callers, c \in Bos \ ArgBos : mem'[u][c] = mem[u][c]
      BY <2>5
    <3> QED
      BY <2>2, <3>1, <3>2 DEF Ownership, MemoryOwned
  <2> QED
    BY <2>10, <2>11 DEF Ownership
<1>6. ASSUME NEW t \in Callers, FreeMem(t) PROVE Ownership'
  <2>1. PICK b \in Closed(t) :
          heap' = heap \ {mem[t][b]} /\ mem' = [mem EXCEPT ![t][b] = None]
    BY <1>6 DEF FreeMem
  <2>2. b \in Bos /\ mem[t][b] # None /\ hdl[t][b] = None
    BY DEF Closed
  <2> QED
    BY <1>6, <2>1, <2>2, DropMemory DEF FreeMem
<1>7. ASSUME NEW t \in Callers,
             Enter(t) \/ Reject(t) \/ AllocMemFails(t) \/ RejectRelocation(t)
             \/ ResetFlag(t) \/ Submit(t) \/ SubmitFails(t) \/ WaitDone(t)
             \/ WaitTimesOut(t) \/ Poll(t) \/ Leave(t)
      PROVE  Ownership'
  BY <1>7, OwnershipFrame DEF Enter, Reject, AllocMemFails, RejectRelocation, ResetFlag,
     Submit, SubmitFails, WaitDone, WaitTimesOut, Poll, Leave
<1>8. CASE GpuStep \/ UNCHANGED vars
  BY <1>8, OwnershipFrame DEF GpuStep, GpuWrite, GpuRetire, GpuHang, vars, local
<1> QED
  BY <1>1, <1>2, <1>3, <1>4, <1>5, <1>6, <1>7, <1>8 DEF Next, CallStep

(* No path through execute leaks or mistakes a handle or a block.          *)
THEOREM OwnershipCorrect == Spec => []Ownership
<1>1. Init => Shapes /\ Ownership
  <2> SUFFICES ASSUME Init PROVE Shapes /\ Ownership
    OBVIOUS
  <2>1. Shapes
    BY OrderAssumption DEF Init, Shapes, Shape, Live, Closed, Holding
  <2>2. Ownership
    BY DEF Init, Ownership, HandleOwned, MemoryOwned
  <2> QED
    BY <2>1, <2>2
<1>2. TypeOK /\ Shapes /\ Ownership /\ [Next]_vars => (Shapes /\ Ownership)'
  BY ShapesStep, OwnershipStep
<1> QED
  BY <1>1, <1>2, TypeCorrect, PTL DEF Spec

-----------------------------------------------------------------------------
(* Batches: who waits for them, and whose synchronisation word they set.   *)

(* Two calls under way never share a synchronisation word.                 *)
LEMMA OwnFlag ==
  ASSUME TypeOK, Shapes, Ownership, NEW t \in Callers, pc[t] \in Holding
  PROVE  /\ mem[t]["gp"] \in Blocks
         /\ \A u \in Callers : pc[u] \in Holding /\ u # t => mem[u]["gp"] # mem[t]["gp"]
<1>1. "gp" \in Bos \ ArgBos
  BY OrderAssumption
<1>2. \A u \in Callers : pc[u] \in Holding => hdl[u]["gp"] # None /\ mem[u]["gp"] # None
  BY <1>1 DEF Shapes, Shape, Live, Ownership, HandleOwned
<1> QED
  BY <1>1, <1>2 DEF TypeOK, Ownership, MemoryOwned

(* A step of a caller that neither waits nor submits.                      *)
LEMMA JobFrame ==
  ASSUME TypeOK, JobInv, NEW t \in Callers,
         UNCHANGED <<word, queue, faults>>,
         pc[t] # "wait", pc'[t] \notin {"submit", "wait", "poll"},
         pc'[t] \in Holding \cup {"build", "register"} => outcome'[t] = "none",
         outcome'[t] # "ok" \/ (outcome'[t] = outcome[t] /\ myjob'[t] = myjob[t]),
         \A u \in Callers \ {t} :
           /\ pc'[u] = pc[u] /\ mem'[u] = mem[u]
           /\ outcome'[u] = outcome[u] /\ myjob'[u] = myjob[u]
  PROVE  JobInv'
<1> USE DEF queue
<1>1. \A u \in Callers : JobOf(u)'
  BY DEF JobInv, JobOf
<1>6. NotYetOver'
  BY DEF JobInv, NotYetOver
<1>2. Awaited'
  BY DEF JobInv, Awaited, InFlight
<1>3. FinishedOrHung'
  BY DEF JobInv, FinishedOrHung
<1>4. FlagIsOwn'
  BY DEF JobInv, FlagIsOwn
<1>5. ReturnMeansFinished'
  BY DEF JobInv, ReturnMeansFinished
<1> QED
  BY <1>1, <1>2, <1>3, <1>4, <1>5, <1>6 DEF JobInv

LEMMA JobStep ==
  TypeOK /\ Shapes /\ Ownership /\ JobInv /\ [Next]_vars => JobInv'
<1> SUFFICES ASSUME TypeOK, Shapes, Ownership, JobInv, [Next]_vars PROVE JobInv'
  OBVIOUS
<1>1. ASSUME NEW t \in Callers, Enter(t) PROVE JobInv'
  BY <1>1, JobFrame DEF Enter, TypeOK, Holding
<1>2. ASSUME NEW t \in Callers, NEW l \in Locations \ {"wait"}, Throw(t, l),
             \A u \in Callers \ {t} : mem'[u] = mem[u],
             UNCHANGED <<word, queue, faults>>
      PROVE  JobInv'
  BY <1>2, JobFrame DEF Throw, TypeOK, Holding
<1>3. ASSUME NEW t \in Callers, AllocMem(t) \/ UseUserMem(t) PROVE JobInv'
  <2>1. \A u \in Callers \ {t} : mem'[u] = mem[u]
    BY <1>3 DEF AllocMem, UseUserMem, TypeOK
  <2>2. pc' = [pc EXCEPT ![t] = "register"] /\ pc[t] = "build"
        /\ UNCHANGED <<outcome, myjob, word, queue, faults>>
    BY <1>3 DEF AllocMem, UseUserMem
  <2>3. outcome[t] = "none"
    BY <2>2 DEF JobInv, NotYetOver
  <2> QED
    BY <2>1, <2>2, <2>3, JobFrame DEF TypeOK
<1>4. ASSUME NEW t \in Callers, Register(t) PROVE JobInv'
  <2>1. /\ pc[t] = "register"
        /\ pc' = [pc EXCEPT ![t] = "ready"] \/ pc' = [pc EXCEPT ![t] = "build"]
        /\ UNCHANGED <<mem, outcome, myjob, word, queue, faults>>
    BY <1>4 DEF Register
  <2>2. pc'[t] \in {"ready", "build"} /\ \A u \in Callers \ {t} : pc'[u] = pc[u]
    BY <2>1 DEF TypeOK
  <2>3. outcome[t] = "none"
    BY <2>1 DEF JobInv, NotYetOver
  <2> QED
    BY <2>1, <2>2, <2>3, JobFrame
<1>5. ASSUME NEW t \in Callers, CloseHandle(t) \/ FreeMem(t) \/ Leave(t) PROVE JobInv'
  <2>1. /\ pc[t] = "unwind"
        /\ \/ pc' = pc
           \/ pc' = [pc EXCEPT ![t] = "idle"]
           \/ pc' = [pc EXCEPT ![t] = "terminated"]
        /\ UNCHANGED <<outcome, myjob, word, queue, faults>>
    BY <1>5 DEF CloseHandle, FreeMem, Leave
  <2>2. \A u \in Callers \ {t} : mem'[u] = mem[u]
    BY <1>5 DEF CloseHandle, FreeMem, Leave, TypeOK
  <2>3. /\ pc'[t] \in {"unwind", "idle", "terminated"}
        /\ \A u \in Callers \ {t} : pc'[u] = pc[u]
    BY <2>1 DEF TypeOK
  <2> QED
    BY <2>1, <2>2, <2>3, JobFrame DEF Holding
<1>6. ASSUME NEW t \in Callers, ResetFlag(t) PROVE JobInv'
  <2>1. /\ pc[t] = "ready" /\ pc' = [pc EXCEPT ![t] = "submit"]
        /\ word' = [word EXCEPT ![mem[t]["gp"]] = 0]
        /\ UNCHANGED <<mem, outcome, myjob, queue, faults>>
    BY <1>6 DEF ResetFlag
  <2>2. pc'[t] = "submit" /\ \A u \in Callers \ {t} : pc'[u] = pc[u]
    BY <2>1 DEF TypeOK
  <2>3. \A u \in Callers : JobOf(u)'
    BY <2>1, <2>2 DEF JobInv, JobOf, queue
  <2>4. Awaited'
    BY <2>1, <2>2 DEF JobInv, Awaited, InFlight, queue
  <2>5. FlagIsOwn'
    <3> SUFFICES ASSUME "timeout" \notin faults, NEW u \in Callers
                 PROVE  /\ pc'[u] = "submit" => word'[mem[u]["gp"]] = 0
                        /\ (pc'[u] \in {"wait", "poll"} /\ word'[mem[u]["gp"]] = 1)
                             => myjob[u] \in written
      BY <2>1 DEF FlagIsOwn, queue
    <3>1. mem[t]["gp"] \in Blocks
      BY <2>1, OwnFlag DEF Holding
    <3>2. word'[mem[t]["gp"]] = 0
      BY <2>1, <3>1 DEF TypeOK
    <3>3. CASE u = t
      BY <2>2, <3>2, <3>3
    <3>4. CASE u # t /\ pc[u] \in Holding
      <4>1. mem[u]["gp"] \in Blocks /\ mem[u]["gp"] # mem[t]["gp"]
        BY <2>1, <3>4, OwnFlag DEF Holding
      <4>2. word'[mem[u]["gp"]] = word[mem[u]["gp"]]
        BY <2>1, <4>1 DEF TypeOK
      <4> QED
        BY <2>2, <3>4, <4>2 DEF JobInv, FlagIsOwn
    <3>5. CASE u # t /\ pc[u] \notin Holding
      BY <2>2, <3>5 DEF Holding
    <3> QED
      BY <3>3, <3>4, <3>5
  <2>6. FinishedOrHung' /\ ReturnMeansFinished'
    BY <2>1 DEF JobInv, FinishedOrHung, ReturnMeansFinished, queue
  <2>7. NotYetOver'
    BY <2>1, <2>2 DEF JobInv, NotYetOver, Holding
  <2> QED
    BY <2>3, <2>4, <2>5, <2>6, <2>7 DEF JobInv
<1>7. ASSUME NEW t \in Callers, Submit(t) PROVE JobInv'
  <2> DEFINE j == [gp |-> mem[t]["gp"], pins |-> {mem[t][b] : b \in Bos}]
             n == Len(jobs) + 1
  <2>1. /\ pc[t] = "submit" /\ pc' = [pc EXCEPT ![t] = "wait"]
        /\ jobs' = Append(jobs, j)
        /\ myjob' = [myjob EXCEPT ![t] = n]
        /\ UNCHANGED <<mem, outcome, word, written, gpu, faults>>
    BY <1>7 DEF Submit
  <2>2. /\ pc'[t] = "wait" /\ myjob'[t] = n
        /\ \A u \in Callers \ {t} : pc'[u] = pc[u] /\ myjob'[u] = myjob[u]
    BY <2>1 DEF TypeOK
  <2>3. /\ Len(jobs') = n /\ jobs'[n] = j
        /\ \A i \in 1..Len(jobs) : jobs'[i] = jobs[i]
        /\ n \notin 1..Len(jobs) /\ n \notin written /\ 1..Len(jobs) \subseteq 1..n
        /\ n \in 1..n /\ gpu \in 0..Len(jobs)
    BY <2>1 DEF TypeOK
  <2>4. \A u \in Callers : JobOf(u)'
    <3> SUFFICES ASSUME NEW u \in Callers PROVE JobOf(u)'
      OBVIOUS
    <3>1. CASE u = t
      BY <2>1, <2>2, <2>3, <3>1 DEF JobOf
    <3>2. CASE u # t
      BY <2>1, <2>2, <2>3, <3>2 DEF JobInv, JobOf
    <3> QED
      BY <3>1, <3>2
  <2>5. Awaited'
    <3> SUFFICES ASSUME "timeout" \notin faults, NEW i \in (gpu + 1)..n
                 PROVE  \E u \in Callers : pc'[u] = "wait" /\ myjob'[u] = i
      BY <2>1, <2>3 DEF Awaited, InFlight
    <3>1. CASE i = n
      BY <2>2, <3>1
    <3>2. CASE i # n
      <4>1. i \in InFlight
        BY <2>3, <3>2 DEF InFlight, TypeOK
      <4>2. PICK u \in Callers : pc[u] = "wait" /\ myjob[u] = i
        BY <4>1 DEF JobInv, Awaited
      <4> QED
        BY <2>1, <2>2, <4>2
    <3> QED
      BY <3>1, <3>2
  <2>6. FlagIsOwn'
    <3> SUFFICES ASSUME "timeout" \notin faults, NEW u \in Callers
                 PROVE  /\ pc'[u] = "submit" => word[mem[u]["gp"]] = 0
                        /\ (pc'[u] \in {"wait", "poll"} /\ word[mem[u]["gp"]] = 1)
                             => myjob'[u] \in written
      BY <2>1 DEF FlagIsOwn
    <3>1. CASE u = t
      BY <2>1, <2>2, <3>1 DEF JobInv, FlagIsOwn
    <3>2. CASE u # t
      BY <2>2, <3>2 DEF JobInv, FlagIsOwn
    <3> QED
      BY <3>1, <3>2
  <2>7. FinishedOrHung'
    BY <2>1 DEF JobInv, FinishedOrHung
  <2>8. ReturnMeansFinished'
    <3> SUFFICES ASSUME NEW u \in Callers, outcome[u] = "ok", faults # {"timeout", "hang"}
                 PROVE  myjob'[u] \in 1..gpu /\ myjob'[u] \in written
      BY <2>1 DEF ReturnMeansFinished
    <3>1. CASE u = t
      <4>1. outcome[t] = "none"
        BY <2>1 DEF JobInv, NotYetOver, Holding
      <4> QED
        BY <3>1, <4>1
    <3>2. CASE u # t
      BY <2>2, <3>2 DEF JobInv, ReturnMeansFinished
    <3> QED
      BY <3>1, <3>2
  <2>9. NotYetOver'
    BY <2>1, <2>2 DEF JobInv, NotYetOver, Holding
  <2> QED
    BY <2>4, <2>5, <2>6, <2>7, <2>8, <2>9 DEF JobInv
<1>8. ASSUME NEW t \in Callers, WaitDone(t) PROVE JobInv'
  <2>1. /\ pc[t] = "wait" /\ myjob[t] <= gpu /\ pc' = [pc EXCEPT ![t] = "poll"]
        /\ UNCHANGED <<mem, outcome, myjob, word, queue, faults>>
    BY <1>8 DEF WaitDone
  <2>2. pc'[t] = "poll" /\ \A u \in Callers \ {t} : pc'[u] = pc[u]
    BY <2>1 DEF TypeOK
  <2>3. \A u \in Callers : JobOf(u)'
    BY <2>1, <2>2 DEF JobInv, JobOf, queue
  <2>4. Awaited'
    <3> SUFFICES ASSUME "timeout" \notin faults, NEW i \in InFlight
                 PROVE  \E u \in Callers : pc'[u] = "wait" /\ myjob[u] = i
      BY <2>1 DEF Awaited, InFlight, queue
    <3>1. PICK u \in Callers : pc[u] = "wait" /\ myjob[u] = i
      BY DEF JobInv, Awaited
    <3>2. u # t
      BY <2>1, <3>1 DEF InFlight, TypeOK
    <3> QED
      BY <2>2, <3>1, <3>2
  <2>5. FlagIsOwn'
    BY <2>1, <2>2 DEF JobInv, FlagIsOwn, queue
  <2>6. FinishedOrHung' /\ ReturnMeansFinished'
    BY <2>1 DEF JobInv, FinishedOrHung, ReturnMeansFinished, queue
  <2>7. NotYetOver'
    BY <2>1, <2>2 DEF JobInv, NotYetOver, Holding
  <2> QED
    BY <2>3, <2>4, <2>5, <2>6, <2>7 DEF JobInv
<1>9. ASSUME NEW t \in Callers, WaitTimesOut(t) PROVE JobInv'
  <2>1. /\ pc' = [pc EXCEPT ![t] = "unwind"]
        /\ outcome' = [outcome EXCEPT ![t] = "throw"]
        /\ faults' = faults \cup {"timeout"}
        /\ UNCHANGED <<mem, myjob, word, queue>>
    BY <1>9 DEF WaitTimesOut, Throw
  <2>2. /\ pc'[t] = "unwind" /\ outcome'[t] = "throw"
        /\ \A u \in Callers \ {t} : pc'[u] = pc[u] /\ outcome'[u] = outcome[u]
    BY <2>1 DEF TypeOK
  <2>3. \A u \in Callers : JobOf(u)'
    BY <2>1, <2>2 DEF JobInv, JobOf, queue
  <2>4. Awaited' /\ FlagIsOwn'
    BY <2>1 DEF Awaited, FlagIsOwn
  <2>5. FinishedOrHung'
    BY <2>1 DEF JobInv, FinishedOrHung, queue
  <2>6. ReturnMeansFinished'
    <3> SUFFICES ASSUME NEW u \in Callers, outcome'[u] = "ok", faults' # {"timeout", "hang"}
                 PROVE  myjob[u] \in 1..gpu /\ myjob[u] \in written
      BY <2>1 DEF ReturnMeansFinished, queue
    <3>1. u # t /\ outcome[u] = "ok"
      BY <2>2
    <3>2. "hang" \notin faults
      BY <2>1 DEF TypeOK
    <3>3. faults # {"timeout", "hang"}
      BY <3>2
    <3> QED
      BY <3>1, <3>3 DEF JobInv, ReturnMeansFinished
  <2>7. NotYetOver'
    BY <2>2 DEF JobInv, NotYetOver, Holding
  <2> QED
    BY <2>3, <2>4, <2>5, <2>6, <2>7 DEF JobInv
<1>10. ASSUME NEW t \in Callers, Poll(t) PROVE JobInv'
  <2>1. /\ pc[t] = "poll" /\ word[mem[t]["gp"]] = 1
        /\ pc' = [pc EXCEPT ![t] = "unwind"]
        /\ outcome' = [outcome EXCEPT ![t] = "ok"]
        /\ UNCHANGED <<mem, myjob, word, queue, faults>>
    BY <1>10 DEF Poll
  <2>2. /\ pc'[t] = "unwind"
        /\ \A u \in Callers \ {t} : pc'[u] = pc[u] /\ outcome'[u] = outcome[u]
    BY <2>1 DEF TypeOK
  <2>3. \A u \in Callers : JobOf(u)'
    BY <2>1, <2>2 DEF JobInv, JobOf, queue
  <2>4. Awaited'
    BY <2>1, <2>2 DEF JobInv, Awaited, InFlight, queue
  <2>5. FlagIsOwn' /\ FinishedOrHung'
    BY <2>1, <2>2 DEF JobInv, FlagIsOwn, FinishedOrHung, queue
  <2>6. ReturnMeansFinished'
    <3> SUFFICES ASSUME NEW u \in Callers, outcome'[u] = "ok", faults # {"timeout", "hang"}
                 PROVE  myjob[u] \in 1..gpu /\ myjob[u] \in written
      BY <2>1 DEF ReturnMeansFinished, queue
    <3>1. CASE u # t
      BY <2>2, <3>1 DEF JobInv, ReturnMeansFinished
    <3>2. CASE u = t
      <4>1. myjob[t] \in 1..Len(jobs) /\ myjob[t] <= gpu
        BY <2>1 DEF JobInv, JobOf
      <4>2. myjob[t] \in 1..gpu
        BY <4>1 DEF TypeOK
      <4>3. "timeout" \notin faults \/ "hang" \notin faults
        BY DEF TypeOK
      <4>4. myjob[t] \in written
        BY <2>1, <4>2, <4>3 DEF JobInv, FlagIsOwn, FinishedOrHung
      <4> QED
        BY <3>2, <4>2, <4>4
    <3> QED
      BY <3>1, <3>2
  <2>7. NotYetOver'
    BY <2>2 DEF JobInv, NotYetOver, Holding
  <2> QED
    BY <2>3, <2>4, <2>5, <2>6, <2>7 DEF JobInv
<1>11. ASSUME GpuWrite PROVE JobInv'
  <2> DEFINE n == gpu + 1
  <2>1. /\ gpu < Len(jobs)
        /\ word' = [word EXCEPT ![jobs[n].gp] = 1]
        /\ written' = written \cup {n}
        /\ UNCHANGED <<pc, mem, outcome, myjob, jobs, gpu, faults>>
    BY <1>11 DEF GpuWrite, local
  <2>2. \A u \in Callers : JobOf(u)'
    BY <2>1 DEF JobInv, JobOf
  <2>3. Awaited' /\ FinishedOrHung' /\ ReturnMeansFinished' /\ NotYetOver'
    BY <2>1 DEF JobInv, Awaited, InFlight, FinishedOrHung, ReturnMeansFinished, NotYetOver
  <2>4. FlagIsOwn'
    <3> SUFFICES ASSUME "timeout" \notin faults, NEW u \in Callers
                 PROVE  /\ pc[u] = "submit" => word'[mem[u]["gp"]] = 0
                        /\ (pc[u] \in {"wait", "poll"} /\ word'[mem[u]["gp"]] = 1)
                             => myjob[u] \in written'
      BY <2>1 DEF FlagIsOwn
    <3>1. n \in InFlight
      BY <2>1 DEF InFlight, TypeOK
    <3>2. PICK t \in Callers : pc[t] = "wait" /\ myjob[t] = n
      BY <3>1 DEF JobInv, Awaited
    <3>3. jobs[n].gp = mem[t]["gp"]
      BY <3>2 DEF JobInv, JobOf
    <3>4. CASE u = t
      BY <2>1, <3>2, <3>4
    <3>5. CASE u # t /\ pc[u] \in Holding
      <4>1. mem[u]["gp"] \in Blocks /\ mem[u]["gp"] # mem[t]["gp"]
        BY <3>2, <3>5, OwnFlag DEF Holding
      <4>2. word'[mem[u]["gp"]] = word[mem[u]["gp"]]
        BY <2>1, <3>3, <4>1 DEF TypeOK
      <4> QED
        BY <2>1, <4>2 DEF JobInv, FlagIsOwn
    <3>6. CASE pc[u] \notin Holding
      BY <3>6 DEF Holding
    <3> QED
      BY <3>4, <3>5, <3>6
  <2> QED
    BY <2>2, <2>3, <2>4 DEF JobInv
<1>12. ASSUME GpuRetire \/ GpuHang PROVE JobInv'
  <2>1. /\ gpu < Len(jobs) /\ gpu' = gpu + 1
        /\ UNCHANGED <<pc, mem, outcome, myjob, jobs, word, written>>
        /\ \/ gpu + 1 \in written /\ faults' = faults
           \/ faults' = faults \cup {"hang"}
    BY <1>12 DEF GpuRetire, GpuHang, local
  <2>2. \A u \in Callers : JobOf(u)'
    BY <2>1 DEF JobInv, JobOf, TypeOK
  <2>3. Awaited'
    BY <2>1 DEF JobInv, Awaited, InFlight, TypeOK
  <2>4. FinishedOrHung'
    <3> SUFFICES ASSUME "hang" \notin faults', NEW i \in 1..(gpu + 1)
                 PROVE  i \in written
      BY <2>1 DEF FinishedOrHung
    <3>1. "hang" \notin faults /\ gpu + 1 \in written
      BY <2>1
    <3>2. CASE i = gpu + 1
      BY <3>1, <3>2
    <3>3. CASE i # gpu + 1
      BY <3>1, <3>3 DEF JobInv, FinishedOrHung, TypeOK
    <3> QED
      BY <3>2, <3>3
  <2>5. FlagIsOwn' /\ NotYetOver'
    BY <2>1 DEF JobInv, FlagIsOwn, NotYetOver
  <2>6. ReturnMeansFinished'
    <3> SUFFICES ASSUME NEW u \in Callers, outcome[u] = "ok", faults' # {"timeout", "hang"}
                 PROVE  myjob[u] \in 1..(gpu + 1) /\ myjob[u] \in written
      BY <2>1 DEF ReturnMeansFinished
    <3>1. faults # {"timeout", "hang"}
      BY <2>1 DEF TypeOK
    <3>2. myjob[u] \in 1..gpu /\ myjob[u] \in written
      BY <3>1 DEF JobInv, ReturnMeansFinished
    <3> QED
      BY <3>2 DEF TypeOK
  <2> QED
    BY <2>2, <2>3, <2>4, <2>5, <2>6 DEF JobInv
<1>13. CASE UNCHANGED vars
  BY <1>13 DEF vars, local, queue, JobInv, JobOf, NotYetOver, Awaited, InFlight,
     FinishedOrHung, FlagIsOwn, ReturnMeansFinished
<1>14. ASSUME NEW t \in Callers,
              Reject(t) \/ AllocMemFails(t) \/ RegisterFails(t)
              \/ RejectRelocation(t) \/ SubmitFails(t)
       PROVE  JobInv'
  <2>1. PICK l \in Locations \ {"wait"} : Throw(t, l)
    BY <1>14 DEF Reject, AllocMemFails, RegisterFails, RejectRelocation, SubmitFails, Locations
  <2>2. UNCHANGED <<word, queue, faults>> /\ \A u \in Callers \ {t} : mem'[u] = mem[u]
    BY <1>14 DEF Reject, AllocMemFails, RegisterFails, RejectRelocation, SubmitFails, TypeOK
  <2> QED
    BY <1>2, <2>1, <2>2
<1> QED
  BY <1>1, <1>3, <1>4, <1>5, <1>6, <1>7, <1>8, <1>9, <1>10, <1>11, <1>12, <1>13,
     <1>14 DEF Next, CallStep, GpuStep

LEMMA JobInvInit == Init => JobInv
<1> SUFFICES ASSUME Init PROVE JobInv
  OBVIOUS
<1>1. InFlight = {} /\ 1..gpu = {}
  BY DEF Init, InFlight
<1> QED
  BY <1>1 DEF Init, JobInv, JobOf, NotYetOver, Awaited, FinishedOrHung, FlagIsOwn,
     ReturnMeansFinished, Holding

(* The inductive invariant of Execute.                                     *)
LEMMA Invariant == Spec => [](TypeOK /\ Ownership /\ Shapes /\ JobInv)
<1>1. Init => Shapes
  BY OrderAssumption DEF Init, Shapes, Shape, Live, Closed, Holding
<1>2. Init => JobInv
  BY JobInvInit
<1>3. Shapes /\ JobInv /\ TypeOK /\ Ownership /\ [Next]_vars => (Shapes /\ JobInv)'
  BY ShapesStep, JobStep
<1> QED
  BY <1>1, <1>2, <1>3, TypeCorrect, OwnershipCorrect, PTL DEF Spec

(* A call that returns normally has had its own batch finished, unless a   *)
(* wait has timed out and the GPU has hung.                                *)
THEOREM ReturnsAreTrue == Spec => []ReturnMeansFinished
<1>1. JobInv => ReturnMeansFinished
  BY DEF JobInv
<1> QED
  BY <1>1, Invariant, PTL

(* Until a wait times out, no memory the GPU may use is released.          *)
THEOREM MemoryIsHeld == Spec => []MemoryHeldByGpu
<1>1. TypeOK /\ Ownership /\ Shapes /\ JobInv => MemoryHeldByGpu
  <2> SUFFICES ASSUME TypeOK, Ownership, Shapes, JobInv, "timeout" \notin faults,
                      NEW i \in InFlight, NEW p \in jobs[i].pins
               PROVE  p \in heap \cup {UserBuf[b] : b \in ArgBos}
    BY DEF MemoryHeldByGpu
  <2>1. PICK t \in Callers : pc[t] = "wait" /\ myjob[t] = i
    BY DEF JobInv, Awaited
  <2>2. PICK b \in Bos : p = mem[t][b]
    BY <2>1 DEF JobInv, JobOf
  <2>3. hdl[t][b] # None
    BY <2>1 DEF Shapes, Shape, Live, Holding
  <2>4. mem[t][b] # None
    BY <2>3 DEF Ownership, HandleOwned
  <2>5. CASE b \in ArgBos
    BY <2>2, <2>4, <2>5 DEF Shapes, Shape
  <2>6. CASE b \notin ArgBos
    BY <2>2, <2>4, <2>6 DEF Ownership, MemoryOwned
  <2> QED
    BY <2>5, <2>6
<1> QED
  BY <1>1, Invariant, PTL

(* Between calls nothing is left open or allocated.                        *)
THEOREM QuiescenceIsClean == Spec => []QuiescentIsClean
<1>1. TypeOK /\ Ownership /\ Shapes => QuiescentIsClean
  <2> SUFFICES ASSUME TypeOK, Ownership, Shapes, \A t \in Callers : pc[t] = "idle"
               PROVE  heap = {} /\ \A h \in Handles : gem[h] = None
    BY DEF QuiescentIsClean
  <2>1. \A t \in Callers, b \in Bos : hdl[t][b] = None /\ mem[t][b] = None
    BY DEF Shapes, Shape, Live, Closed
  <2>2. heap = {}
    BY <2>1, MemoryAssumption DEF Ownership, MemoryOwned, TypeOK, Blocks
  <2>3. \A h \in Handles : gem[h] = None
    BY <2>1, MemoryAssumption DEF Ownership, HandleOwned
  <2> QED
    BY <2>2, <2>3
<1> QED
  BY <1>1, Invariant, PTL

(* The synchronisation word of a submitted batch is not reset under it.    *)
THEOREM FlagIsKept == Spec => FlagNeverLost
<1> DEFINE A == \A t \in Callers :
       (pc[t] \in {"wait", "poll"} /\ pc'[t] \in {"wait", "poll"}) =>
         word'[mem[t]["gp"]] >= word[mem[t]["gp"]]
<1>1. TypeOK /\ Ownership /\ Shapes /\ [Next]_vars => A
  <2> SUFFICES ASSUME TypeOK, Ownership, Shapes, [Next]_vars,
                      NEW t \in Callers, pc[t] \in {"wait", "poll"}
               PROVE  word'[mem[t]["gp"]] >= word[mem[t]["gp"]]
    OBVIOUS
  <2>1. mem[t]["gp"] \in Blocks /\ word[mem[t]["gp"]] \in {0, 1}
    BY OwnFlag DEF Holding, TypeOK
  <2>2. CASE word' = word
    BY <2>1, <2>2
  <2>3. ASSUME NEW u \in Callers, ResetFlag(u)
        PROVE  word'[mem[t]["gp"]] = word[mem[t]["gp"]]
    <3>1. pc[u] = "ready" /\ word' = [word EXCEPT ![mem[u]["gp"]] = 0]
      BY <2>3 DEF ResetFlag
    <3>2. mem[u]["gp"] # mem[t]["gp"]
      BY <3>1, OwnFlag DEF Holding
    <3> QED
      BY <2>1, <3>1, <3>2 DEF TypeOK
  <2>4. CASE GpuWrite
    BY <2>1, <2>4 DEF GpuWrite, TypeOK
  <2>5. word' = word \/ GpuWrite \/ \E u \in Callers : ResetFlag(u)
    BY ZenonT(40) DEF Next, CallStep, GpuStep, Enter, Throw, Reject, AllocMem, AllocMemFails,
       UseUserMem, Register, RegisterFails, RejectRelocation, Submit, SubmitFails,
       WaitDone, WaitTimesOut, Poll, CloseHandle, FreeMem, Leave, GpuRetire, GpuHang, vars
  <2> QED
    BY <2>1, <2>2, <2>3, <2>4, <2>5
<1> QED
  BY <1>1, Invariant, PTL DEF FlagNeverLost, Spec

-----------------------------------------------------------------------------
(* The safety half of CallEnds.  A step of one caller leaves the others    *)
(* where they are.                                                         *)
LEMMA OthersStay ==
  ASSUME TypeOK, NEW t \in Callers, NEW u \in Callers \ {t}, Enter(u) \/ CallStep(u)
  PROVE  /\ pc'[t] = pc[t] /\ at'[t] = at[t] /\ hdl'[t] = hdl[t] /\ mem'[t] = mem[t]
         /\ myjob'[t] = myjob[t]
<1> USE DEF TypeOK
<1>1. CASE Enter(u)
  BY <1>1 DEF Enter
<1>2. CASE Reject(u) \/ AllocMemFails(u) \/ RegisterFails(u) \/ RejectRelocation(u)
           \/ SubmitFails(u) \/ WaitTimesOut(u)
  BY <1>2 DEF Reject, AllocMemFails, RegisterFails, RejectRelocation, SubmitFails, WaitTimesOut,
              Throw
<1>3. CASE AllocMem(u)
  BY <1>3 DEF AllocMem
<1>4. CASE UseUserMem(u)
  BY <1>4 DEF UseUserMem
<1>5. CASE Register(u)
  BY <1>5 DEF Register
<1>6. CASE ResetFlag(u) \/ Submit(u) \/ WaitDone(u) \/ Poll(u) \/ Leave(u)
  BY <1>6 DEF ResetFlag, Submit, WaitDone, Poll, Leave
<1>7. CASE CloseHandle(u)
  BY <1>7 DEF CloseHandle
<1>8. CASE FreeMem(u)
  BY <1>8 DEF FreeMem
<1> QED
  BY <1>1, <1>2, <1>3, <1>4, <1>5, <1>6, <1>7, <1>8 DEF CallStep

(* A batch that has run has set the word its caller looks at, and nobody   *)
(* has reset it since.                                                     *)
FlagSeen ==
  \A t \in Callers :
    pc[t] \in {"wait", "poll"} /\ myjob[t] \in written => word[mem[t]["gp"]] = 1

LEMMA FlagSeenStep ==
  ASSUME TypeOK, Ownership, Shapes, JobInv, FlagSeen, [Next]_vars
  PROVE  FlagSeen'
<1> SUFFICES ASSUME NEW t \in Callers, pc'[t] \in {"wait", "poll"}, myjob'[t] \in written'
             PROVE  word'[mem'[t]["gp"]] = 1
  BY DEF FlagSeen
<1>1. ASSUME ~Submit(t)
      PROVE  pc[t] \in {"wait", "poll"} /\ mem'[t] = mem[t] /\ myjob'[t] = myjob[t]
  <2>1. CASE \E u \in Callers \ {t} : Enter(u) \/ CallStep(u)
    BY <2>1, OthersStay
  <2>2. CASE Enter(t)
    BY <2>2 DEF Enter, TypeOK
  <2>3. CASE CallStep(t)
    <3>1. ~Throw(t, pc[t])
      BY DEF Throw, TypeOK
    <3>2. ~(Reject(t) \/ AllocMemFails(t) \/ RegisterFails(t) \/ RejectRelocation(t)
            \/ SubmitFails(t) \/ WaitTimesOut(t))
      BY <3>1 DEF Reject, AllocMemFails, RegisterFails, RejectRelocation, SubmitFails,
                  WaitTimesOut, Throw
    <3>3. ~(AllocMem(t) \/ UseUserMem(t) \/ Register(t) \/ ResetFlag(t) \/ Poll(t))
      BY DEF AllocMem, UseUserMem, Register, ResetFlag, Poll, TypeOK
    <3>4. ~(CloseHandle(t) \/ FreeMem(t) \/ Leave(t))
      BY DEF CloseHandle, FreeMem, Leave, TypeOK
    <3>5. WaitDone(t)
      BY <1>1, <2>3, <3>2, <3>3, <3>4 DEF CallStep
    <3> QED
      BY <3>5 DEF WaitDone
  <2>4. CASE GpuStep \/ UNCHANGED vars
    BY <2>4 DEF GpuStep, GpuWrite, GpuRetire, GpuHang, vars, local
  <2> QED
    BY <2>1, <2>2, <2>3, <2>4 DEF Next
<1>2. ~Submit(t)
  <2> SUFFICES ASSUME Submit(t) PROVE FALSE
    OBVIOUS
  <2>1. myjob'[t] = Len(jobs) + 1 /\ written' = written
    BY DEF Submit, TypeOK
  <2>2. written \subseteq 1..Len(jobs) /\ Len(jobs) \in Nat
    BY DEF TypeOK
  <2> QED
    BY <2>1, <2>2
<1>3. /\ pc[t] \in {"wait", "poll"} /\ mem'[t] = mem[t] /\ myjob'[t] = myjob[t]
      /\ pc[t] \in Holding /\ mem[t]["gp"] \in Blocks
  BY <1>1, <1>2, OwnFlag DEF Holding
<1>4. CASE UNCHANGED <<word, written>>
  BY <1>3, <1>4 DEF FlagSeen
<1>5. ASSUME NEW u \in Callers, ResetFlag(u)
      PROVE  word'[mem'[t]["gp"]] = 1
  <2>1. /\ pc[u] = "ready" /\ word' = [word EXCEPT ![mem[u]["gp"]] = 0] /\ written' = written
    BY <1>5 DEF ResetFlag, queue
  <2>2. mem[u]["gp"] # mem[t]["gp"]
    BY <1>3, <2>1, OwnFlag DEF Holding
  <2>3. word[mem[t]["gp"]] = 1
    BY <1>3, <2>1 DEF FlagSeen
  <2> QED
    BY <1>3, <2>1, <2>2, <2>3 DEF TypeOK
<1>6. CASE GpuWrite
  <2>1. /\ word' = [word EXCEPT ![jobs[gpu + 1].gp] = 1] /\ written' = written \cup {gpu + 1}
    BY <1>6 DEF GpuWrite
  <2>2. CASE myjob[t] \in written
    <3>1. word[mem[t]["gp"]] = 1
      BY <1>3, <2>2 DEF FlagSeen
    <3> QED
      BY <1>3, <2>1, <3>1 DEF TypeOK
  <2>3. CASE myjob[t] = gpu + 1
    <3>1. jobs[gpu + 1].gp = mem[t]["gp"]
      BY <1>3, <2>3 DEF JobInv, JobOf
    <3> QED
      BY <1>3, <2>1, <3>1 DEF TypeOK
  <2> QED
    BY <1>3, <2>1, <2>2, <2>3
<1>7. UNCHANGED <<word, written>> \/ GpuWrite \/ \E u \in Callers : ResetFlag(u)
  BY ZenonT(40) DEF Next, CallStep, GpuStep, Enter, Throw, Reject, AllocMem, AllocMemFails,
     UseUserMem, Register, RegisterFails, RejectRelocation, Submit, SubmitFails,
     WaitDone, WaitTimesOut, Poll, CloseHandle, FreeMem, Leave, GpuRetire, GpuHang, vars, queue
<1> QED
  BY <1>4, <1>5, <1>6, <1>7

(* gem_close is called for handles that are open, so that no destructor    *)
(* throws.                                                                 *)
NoneTerminated == \A t \in Callers : pc[t] # "terminated"

LEMMA NoneTerminatedStep ==
  ASSUME TypeOK, Ownership, NoneTerminated, [Next]_vars
  PROVE  NoneTerminated'
<1> SUFFICES ASSUME NEW t \in Callers PROVE pc'[t] # "terminated"
  BY DEF NoneTerminated
<1>1. CASE CloseHandle(t)
  <2>1. PICK b \in Live(t) :
          gem[hdl[t][b]] = None \/ UNCHANGED pc
    BY <1>1 DEF CloseHandle
  <2>2. hdl[t][b] # None /\ b \in Bos
    BY DEF Live
  <2>3. gem[hdl[t][b]] # None
    BY <2>2 DEF Ownership, HandleOwned
  <2> QED
    BY <2>1, <2>3 DEF NoneTerminated
<1>2. CASE \E u \in Callers \ {t} : Enter(u) \/ CallStep(u)
  BY <1>2, OthersStay DEF NoneTerminated
<1>3. CASE Enter(t)
  BY <1>3 DEF Enter, TypeOK
<1>4. CASE CallStep(t) /\ ~CloseHandle(t)
  BY <1>4 DEF CallStep, TypeOK, NoneTerminated, Throw, Reject, AllocMem, AllocMemFails,
     UseUserMem, Register, RegisterFails, RejectRelocation, ResetFlag, Submit, SubmitFails,
     WaitDone, WaitTimesOut, Poll, FreeMem, Leave
<1>5. CASE GpuStep \/ UNCHANGED vars
  BY <1>5 DEF GpuStep, GpuWrite, GpuRetire, GpuHang, vars, local, NoneTerminated
<1> QED
  BY <1>1, <1>2, <1>3, <1>4, <1>5 DEF Next

(* Of the buffer objects that are left there is one whose turn it is.      *)
LEMMA PositionIs ==
  ASSUME NEW k \in 1..Len(Order)
  PROVE  Position(Order[k]) = k
BY DistinctBos DEF Position

LEMMA OneDiesFirst ==
  ASSUME NEW S, S \subseteq Bos, S # {}
  PROVE  \E b \in S : \A c \in S \ {b} : DiesBefore(b, c)
<1> DEFINE P == {k \in 1..Len(Order) : Order[k] \in S}
           A == {k \in P : Order[k] \in ArgBos}
<1>1. Len(Order) \in Nat /\ P \subseteq 1..Len(Order) /\ P # {}
  BY FirstBo, DistinctBos
<1>2. \A c \in S : \E k \in P : c = Order[k]
  BY DistinctBos
<1>3. \A k \in P : k \in 1..Len(Order) /\ Order[k] \in S /\ Position(Order[k]) = k
  BY PositionIs
<1>4. A \subseteq P /\ \A k \in P : k \in A <=> Order[k] \in ArgBos
  OBVIOUS
<1> HIDE DEF P, A
<1>5. PICK m \in P : \A k \in P : k <= m
  <2> DEFINE Q == {n \in Nat : \E k \in P : n = Len(Order) - k}
  <2>1. Q \subseteq Nat /\ Q # {}
    <3>1. PICK k \in P : TRUE
      BY <1>1
    <3>2. Len(Order) - k \in Q
      BY <1>1
    <3> QED
      BY <3>2
  <2> HIDE DEF Q
  <2>2. PICK n \in Q : \A q \in Q : <<q, n>> \notin OpToRel(<, Nat)
    BY <2>1, NatLessThanWellFounded, WFMin, Zenon
  <2>3. PICK m \in P : n = Len(Order) - m
    BY DEF Q
  <2>4. ASSUME NEW k \in P PROVE k <= m
    <3>1. PICK q \in Nat : q = Len(Order) - k
      <4>1. k \in 1..Len(Order) /\ Len(Order) \in Nat
        BY <1>1
      <4>2. Len(Order) - k \in Nat
        BY <4>1
      <4> QED
        BY <4>2, Zenon
    <3>2. q \in Q
      BY <3>1 DEF Q
    <3>3. n \in Nat /\ ~(q < n)
      BY <2>1, <2>2, <3>1, <3>2 DEF OpToRel
    <3> QED
      BY <1>1, <2>3, <3>1, <3>3
  <2> QED
    BY <2>4
<1>6. CASE m \notin A
  <2>1. Order[m] \in S /\ Order[m] \notin ArgBos /\ Position(Order[m]) = m
    BY <1>3, <1>4, <1>6
  <2>2. ASSUME NEW c \in S \ {Order[m]} PROVE DiesBefore(Order[m], c)
    <3>1. PICK k \in P : c = Order[k]
      BY <1>2
    <3>2. k # m /\ k <= m /\ Position(c) = k /\ k \in Int /\ m \in Int
      BY <1>1, <1>3, <1>5, <3>1
    <3>3. Position(Order[m]) > Position(c)
      BY <2>1, <3>2
    <3> QED
      BY <2>1, <3>3, Zenon DEF DiesBefore
  <2> QED
    BY <2>1, <2>2
<1>7. CASE m \in A
  <2>1. PICK a \in A : \A k \in A : a <= k
    <3>1. A \subseteq Nat /\ A # {}
      BY <1>1, <1>4, <1>7
    <3>2. PICK a \in A : \A k \in A : <<k, a>> \notin OpToRel(<, Nat)
      BY <3>1, NatLessThanWellFounded, WFMin, Zenon
    <3>3. ASSUME NEW k \in A PROVE a <= k
      <4>1. ~(k < a) /\ k \in Nat /\ a \in Nat
        BY <3>1, <3>2 DEF OpToRel
      <4> QED
        BY <4>1
    <3> QED
      BY <3>3
  <2>2. a \in P /\ Order[a] \in S /\ Order[a] \in ArgBos /\ Position(Order[a]) = a
    BY <1>3, <1>4
  <2>3. ASSUME NEW c \in S \ {Order[a]} PROVE DiesBefore(Order[a], c)
    <3>1. PICK k \in P : c = Order[k]
      BY <1>2
    <3>2. /\ k # a /\ Position(c) = k /\ k \in 1..Len(Order) /\ a \in 1..Len(Order)
          /\ m \in 1..Len(Order) /\ k <= m
      BY <1>1, <1>5, <2>2, <1>3, <3>1
    <3>3. CASE c \in ArgBos
      <4>1. a <= k
        BY <1>4, <2>1, <3>1, <3>3
      <4>2. Position(Order[a]) < Position(c)
        BY <2>2, <3>2, <4>1
      <4> QED
        BY <2>2, <3>3, <4>2, Zenon DEF DiesBefore
    <3>4. CASE c \notin ArgBos
      <4>1. Order[m] \in ArgBos /\ k # m
        BY <1>4, <1>7, <3>1, <3>4
      <4>2. ~(a < k)
        <5>1. a < k => k < m
          BY <3>2, <4>1
        <5> QED
          BY <2>2, <3>1, <3>2, <3>4, <4>1, <5>1, ListAssumption
      <4>3. Position(Order[a]) > Position(c)
        BY <2>2, <3>2, <4>2
      <4> QED
        BY <2>2, <3>4, <4>3, Zenon DEF DiesBefore
    <3> QED
      BY <3>3, <3>4
  <2> QED
    BY <2>2, <2>3
<1> QED
  BY <1>6, <1>7

(* A caller within a call finds the word set when it polls, unless its own *)
(* batch was killed, has an object to destroy while there are any, and is  *)
(* not stopped by a destructor.  At all other locations there is a step    *)
(* for every outcome: a constructor can fail, and a wait is over or times  *)
(* out.                                                                    *)
GoesOn ==
  \A t \in Callers :
    /\ pc[t] = "poll" =>
         IF myjob[t] \in written THEN word[mem[t]["gp"]] = 1 ELSE "hang" \in faults
    /\ pc[t] = "unwind" /\ Live(t) # {} =>
         \/ Closed(t) # {}
         \/ \E b \in Live(t) : \A c \in Live(t) \ {b} : DiesBefore(b, c)
    /\ pc[t] # "terminated"

(* The loop over the synchronisation word (i915_runtime.cc:1225) is left   *)
(* at its first turn unless a hang of the GPU has killed the call's own    *)
(* batch, whatever the other callers do and whether waits timed out; unwinding never comes to a stop, and    *)
(* gem_close does not throw in it.                                         *)
THEOREM CallsGoOn == Spec => []GoesOn
<1> DEFINE I == TypeOK /\ Ownership /\ Shapes /\ JobInv
           J == FlagSeen /\ NoneTerminated
<1>1. Init => J
  BY DEF Init, FlagSeen, NoneTerminated
<1>2. I /\ J /\ [Next]_vars => J'
  BY FlagSeenStep, NoneTerminatedStep
<1>3. I /\ J => GoesOn
  <2> SUFFICES ASSUME I, J, NEW t \in Callers
      PROVE  /\ pc[t] = "poll" =>
                  IF myjob[t] \in written THEN word[mem[t]["gp"]] = 1 ELSE "hang" \in faults
             /\ pc[t] = "unwind" /\ Live(t) # {} =>
                  \/ Closed(t) # {}
                  \/ \E b \in Live(t) : \A c \in Live(t) \ {b} : DiesBefore(b, c)
             /\ pc[t] # "terminated"
    BY DEF GoesOn
  <2>1. ASSUME pc[t] = "poll", myjob[t] \notin written PROVE "hang" \in faults
    <3>1. myjob[t] \in 1..Len(jobs) /\ myjob[t] <= gpu
      BY <2>1 DEF JobInv, JobOf
    <3>2. gpu \in Nat
      BY DEF TypeOK
    <3>3. ~(1..gpu \subseteq written)
      BY <2>1, <3>1, <3>2
    <3> QED
      BY <3>3 DEF JobInv, FinishedOrHung
  <2>3. ASSUME pc[t] = "poll", myjob[t] \in written PROVE word[mem[t]["gp"]] = 1
    BY <2>3 DEF FlagSeen
  <2>2. ASSUME Live(t) # {}
        PROVE  \E b \in Live(t) : \A c \in Live(t) \ {b} : DiesBefore(b, c)
    <3>1. Live(t) \subseteq Bos
      BY DEF Live
    <3> QED
      BY <2>2, <3>1, OneDiesFirst
  <2> QED
    BY <2>1, <2>2, <2>3 DEF NoneTerminated
<1> QED
  BY <1>1, <1>2, <1>3, Invariant, PTL DEF Spec

(* A step of a call goes to a later location, on to the next buffer        *)
(* object, or leaves fewer handles to close or fewer blocks to free.       *)
Nth == [build |-> 0, register |-> 0, ready |-> 1, submit |-> 2, wait |-> 3, poll |-> 4,
        unwind |-> 5, terminated |-> 6, idle |-> 7]
Forward(t) ==
  \/ Nth[pc[t]] < Nth[pc'[t]]
  \/ pc[t] = "build" /\ pc'[t] = "register" /\ at'[t] = at[t]
  \/ pc[t] = "register" /\ pc'[t] = "build" /\ at'[t] = at[t] + 1
  \/ /\ pc[t] = "unwind" /\ pc'[t] = "unwind"
     /\ \/ Live(t)' \subseteq Live(t) /\ Live(t)' # Live(t)
        \/ Live(t)' = Live(t) /\ Closed(t)' \subseteq Closed(t) /\ Closed(t)' # Closed(t)
Untouched(t) == pc'[t] = pc[t] /\ at'[t] = at[t] /\ hdl'[t] = hdl[t] /\ mem'[t] = mem[t]
CallsAdvance ==
  \A t \in Callers :
    pc[t] # "idle" => Forward(t) \/ (~CallStep(t) /\ Untouched(t))

LEMMA ThrowForward ==
  ASSUME TypeOK, NEW t \in Callers, NEW l \in {"build", "register", "ready", "submit", "wait"},
         Throw(t, l)
  PROVE  Forward(t)
<1>1. pc[t] = l /\ pc'[t] = "unwind"
  BY DEF Throw, TypeOK
<1> QED
  BY <1>1 DEF Forward, Nth

LEMMA StepForward == ASSUME TypeOK, NEW t \in Callers, CallStep(t) PROVE Forward(t)
<1>1. CASE Reject(t) \/ AllocMemFails(t) \/ RegisterFails(t) \/ RejectRelocation(t)
           \/ SubmitFails(t) \/ WaitTimesOut(t)
  BY <1>1, ThrowForward DEF Reject, AllocMemFails, RegisterFails, RejectRelocation, SubmitFails,
     WaitTimesOut
<1>2. CASE AllocMem(t) \/ UseUserMem(t)
  <2>1. pc[t] = "build" /\ pc'[t] = "register" /\ at'[t] = at[t]
    BY <1>2 DEF AllocMem, UseUserMem, TypeOK
  <2> QED
    BY <2>1 DEF Forward
<1>3. CASE Register(t)
  <2>1. pc[t] = "register"
    BY <1>3 DEF Register
  <2>2. CASE at[t] = Len(Order)
    <3>1. pc'[t] = "ready"
      BY <1>3, <2>2 DEF Register, TypeOK
    <3> QED
      BY <2>1, <3>1 DEF Forward, Nth
  <2>3. CASE at[t] # Len(Order)
    <3>1. pc'[t] = "build" /\ at'[t] = at[t] + 1
      BY <1>3, <2>3 DEF Register, TypeOK
    <3> QED
      BY <2>1, <3>1 DEF Forward
  <2> QED
    BY <2>2, <2>3
<1>4. CASE ResetFlag(t) \/ Submit(t) \/ WaitDone(t) \/ Poll(t) \/ Leave(t)
  <2>1. \/ pc[t] = "ready" /\ pc'[t] = "submit"
        \/ pc[t] = "submit" /\ pc'[t] = "wait"
        \/ pc[t] = "wait" /\ pc'[t] = "poll"
        \/ pc[t] = "poll" /\ pc'[t] = "unwind"
        \/ pc[t] = "unwind" /\ pc'[t] = "idle"
    BY <1>4 DEF ResetFlag, Submit, WaitDone, Poll, Leave, TypeOK
  <2> QED
    BY <2>1 DEF Forward, Nth
<1>5. CASE CloseHandle(t)
  <2>1. PICK b \in Live(t) :
          IF gem[hdl[t][b]] = None
          THEN pc' = [pc EXCEPT ![t] = "terminated"]
          ELSE hdl' = [hdl EXCEPT ![t][b] = None] /\ UNCHANGED pc
    BY <1>5 DEF CloseHandle
  <2>2. pc[t] = "unwind"
    BY <1>5 DEF CloseHandle
  <2>3. CASE gem[hdl[t][b]] = None
    <3>1. pc'[t] = "terminated"
      BY <2>1, <2>3 DEF TypeOK
    <3> QED
      BY <2>2, <3>1 DEF Forward, Nth
  <2>4. CASE gem[hdl[t][b]] # None
    <3>1. b \in Bos /\ hdl[t][b] # None
      BY DEF Live
    <3>2. hdl'[t][b] = None /\ \A c \in Bos \ {b} : hdl'[t][c] = hdl[t][c]
      BY <2>1, <2>4, <3>1 DEF TypeOK
    <3>3. b \notin Live(t)' /\ Live(t)' \subseteq Live(t)
      BY <3>1, <3>2 DEF Live
    <3>4. pc'[t] = "unwind" /\ Live(t)' # Live(t)
      BY <2>1, <2>2, <2>4, <3>3
    <3> QED
      BY <2>2, <3>3, <3>4 DEF Forward
  <2> QED
    BY <2>3, <2>4
<1>6. CASE FreeMem(t)
  <2>1. PICK b \in Closed(t) : mem' = [mem EXCEPT ![t][b] = None]
    BY <1>6 DEF FreeMem
  <2>2. pc[t] = "unwind" /\ pc' = pc /\ hdl' = hdl
    BY <1>6 DEF FreeMem
  <2>3. b \in Bos
    BY DEF Closed
  <2>4. mem'[t][b] = None /\ \A c \in Bos \ {b} : mem'[t][c] = mem[t][c]
    BY <2>1, <2>3 DEF TypeOK
  <2>5. Live(t)' = Live(t) /\ b \notin Closed(t)' /\ Closed(t)' \subseteq Closed(t)
    BY <2>2, <2>4 DEF Live, Closed
  <2>6. Closed(t)' # Closed(t)
    BY <2>5
  <2> QED
    BY <2>2, <2>5, <2>6 DEF Forward
<1> QED
  BY <1>1, <1>2, <1>3, <1>4, <1>5, <1>6 DEF CallStep

(* A call makes only finitely many steps of its own: locations follow one  *)
(* another, the position in the construction order only grows, and the     *)
(* sets of what is left to destroy only shrink, with all of which the      *)
(* other callers and the GPU do not interfere.                             *)
THEOREM CallsMoveOn == Spec => [][CallsAdvance]_vars
<1>1. TypeOK /\ [Next]_vars => CallsAdvance
  <2> SUFFICES ASSUME TypeOK, [Next]_vars, NEW t \in Callers, pc[t] # "idle", ~CallStep(t)
      PROVE  Untouched(t)
    BY StepForward DEF CallsAdvance
  <2>1. CASE \E u \in Callers \ {t} : Enter(u) \/ CallStep(u)
    BY <2>1, OthersStay DEF Untouched
  <2>2. ~Enter(t)
    BY DEF Enter
  <2>3. CASE GpuStep \/ UNCHANGED vars
    BY <2>3 DEF GpuStep, GpuWrite, GpuRetire, GpuHang, vars, local, Untouched
  <2> QED
    BY <2>1, <2>2, <2>3 DEF Next
<1> QED
  BY <1>1, TypeCorrect, PTL DEF Spec
=============================================================================
