-------------------------- MODULE ArgBindingProofs --------------------------
(***************************************************************************)
(* Proofs about ArgBinding, for every set of prepared kernels, kernels,    *)
(* buffers, names and handles: who owns a handle, where relocations lead,  *)
(* that arguments have the types the kernel declares, and that they reach  *)
(* its parameters.                                                         *)
(***************************************************************************)
EXTENDS ArgBinding, SequenceTheorems, FiniteSetTheorems, TLAPS

Arg == IntArg \cup PtrArg \cup GemArg
Locations == {"idle", "bind", "cross", "list", "submit", "destroy", "destroyed", "terminated"}
Calling == {"bind", "cross", "list", "submit"}

(* The types that matter for handles.                                      *)
Typed ==
  /\ pc \in [Prepared -> Locations]
  /\ kernel \in [Prepared -> Kernels]
  /\ args \in [Prepared -> Seq(Arg)]
  /\ gem \in [Handles -> Names \cup {Null}]
  /\ bound \in [Prepared -> Nat]
  /\ moved \in [Prepared -> SUBSET [handle : Handles, slot : Slots]]
  /\ DOMAIN patches = Prepared

IsNamed(p, i) == p \in Prepared /\ i \in 1..Len(args[p]) /\ args[p][i].type = "gem"

(* An argument given by name has a handle of its own for that name, and    *)
(* every open handle is the one of some argument.                          *)
Refers == \A p, i : IsNamed(p, i) => gem[args[p][i].handle] = args[p][i].name
Single ==
  \A p, i, q, j :
    IsNamed(p, i) /\ IsNamed(q, j) /\ args[p][i].handle = args[q][j].handle => p = q /\ i = j
Owned == \A h \in Handles : gem[h] # Null => \E p, i : IsNamed(p, i) /\ args[p][i].handle = h
HandleInv == Refers /\ Single /\ Owned

(* What is to be relocated are arguments of the call.                      *)
MovedAreArgs ==
  \A p \in Prepared : pc[p] \in Calling =>
    \A m \in moved[p] : \E i : IsNamed(p, i) /\ args[p][i].handle = m.handle
PatchesListed ==
  \A p \in Prepared : pc[p] = "submit" => \A r \in patches[p] : r.handle \in ListedHandles(p)

(* Arguments were accepted for the parameters at their place.              *)
Accepts(type) == IF type = Pointer THEN {"ptr", "gem"} ELSE {type}
Matching(p) ==
  \A i \in 1..Len(args[p]) :
    i \in 1..Len(kernel[p].infos) /\ args[p][i].type \in Accepts(kernel[p].infos[i])
SignatureInv ==
  \A p \in Prepared :
    /\ pc[p] \in Calling \cup {"idle"} => Matching(p)
    /\ pc[p] \in Calling => Len(args[p]) = Len(kernel[p].infos)
    /\ pc[p] = "destroyed" => args[p] = <<>>

IInv == Typed /\ HandleInv /\ MovedAreArgs /\ PatchesListed /\ SignatureInv

-----------------------------------------------------------------------------
LEMMA InitInv == Init => IInv
<1> SUFFICES ASSUME Init PROVE IInv
  OBVIOUS
<1>1. \A p \in Prepared : args[p] = <<>> /\ Len(args[p]) = 0 /\ pc[p] = "idle"
  BY DEF Init
<1>2. Typed
  BY DEF Init, Typed, Locations
<1>3. \A p, i : ~IsNamed(p, i)
  BY <1>1 DEF IsNamed
<1>4. HandleInv
  BY <1>3 DEF Init, HandleInv, Refers, Single, Owned
<1>5. MovedAreArgs /\ PatchesListed
  BY <1>1 DEF MovedAreArgs, PatchesListed, Calling
<1>6. SignatureInv
  BY <1>1 DEF SignatureInv, Matching, Calling
<1> QED
  BY <1>2, <1>4, <1>5, <1>6 DEF IInv

-----------------------------------------------------------------------------
(* The three steps that bind an argument, by what they bind.               *)
Binds(p, a) ==
  /\ pc[p] = "idle"
  /\ Len(args[p]) + 1 \in 1..Len(kernel[p].infos)
  /\ a.type \in Accepts(kernel[p].infos[Len(args[p]) + 1])
  /\ args' = [args EXCEPT ![p] = Append(@, a)]
  /\ UNCHANGED <<pc, kernel, call>>

(* Every step but those and the destruction of an argument leaves          *)
(* arguments and handles alone.                                            *)
Rests(p) ==
  /\ UNCHANGED <<args, gem, kernel>>
  /\ \E l \in Locations : pc' = [pc EXCEPT ![p] = l]

LEMMA StepKinds ==
  ASSUME IInv, NEW p \in Prepared, Step(p)
  PROVE  \/ \E a \in IntArg \cup PtrArg : Binds(p, a) /\ UNCHANGED gem
         \/ \E n \in Names, h \in Handles :
              /\ gem[h] = Null /\ gem' = [gem EXCEPT ![h] = n]
              /\ Binds(p, [type |-> "gem", handle |-> h, name |-> n])
         \/ DestroyArg(p)
         \/ Rests(p)
<1>0. /\ pc \in [Prepared -> Locations] /\ args[p] \in Seq(Arg) /\ Len(args[p]) \in Nat
      /\ kernel[p] \in KernelType /\ Len(kernel[p].infos) \in Nat
  BY KernelAssumption DEF IInv, Typed, KernelType
<1>1. pc' = pc => pc' = [pc EXCEPT ![p] = pc[p]]
  BY <1>0
<1>2. ASSUME NEW type, Expects(p, type)
      PROVE  /\ Len(args[p]) + 1 \in 1..Len(kernel[p].infos)
             /\ kernel[p].infos[Len(args[p]) + 1] = type
  BY <1>0, <1>2 DEF Expects
<1>3. CASE AddInt(p)
  <2>1. PICK type \in IntTypes :
          IF Expects(p, type) THEN Bind(p, [type |-> type]) /\ UNCHANGED gem ELSE RefuseAdd(p)
    BY <1>3 DEF AddInt
  <2>2. CASE Expects(p, type)
    <3>1. [type |-> type] \in IntArg /\ [type |-> type].type \in Accepts(type)
      BY Zenon DEF IntArg, Accepts, IntTypes, Pointer
    <3>2. Binds(p, [type |-> type])
      BY <1>2, <2>1, <2>2, <3>1 DEF Binds, Bind, Return
    <3> QED
      BY <2>1, <2>2, <3>1, <3>2
  <2>3. CASE ~Expects(p, type)
    BY <1>0, <1>1, <2>1, <2>3 DEF RefuseAdd, Return, Rests
  <2> QED
    BY <2>2, <2>3
<1>4. CASE AddPointer(p)
  <2>1. PICK b \in Buffers :
          IF Expects(p, Pointer) /\ b \notin Misaligned
          THEN Bind(p, [type |-> "ptr", buf |-> b]) /\ UNCHANGED gem ELSE RefuseAdd(p)
    BY <1>4 DEF AddPointer
  <2>2. CASE Expects(p, Pointer) /\ b \notin Misaligned
    <3>1. [type |-> "ptr", buf |-> b] \in PtrArg /\ [type |-> "ptr", buf |-> b].type \in Accepts(Pointer)
      BY DEF PtrArg, Accepts
    <3>2. Binds(p, [type |-> "ptr", buf |-> b])
      BY <1>2, <2>1, <2>2, <3>1 DEF Binds, Bind, Return
    <3> QED
      BY <2>1, <2>2, <3>1, <3>2
  <2>3. CASE ~(Expects(p, Pointer) /\ b \notin Misaligned)
    BY <1>0, <1>1, <2>1, <2>3 DEF RefuseAdd, Return, Rests
  <2> QED
    BY <2>2, <2>3
<1>5. CASE AddGemName(p)
  <2>1. PICK n \in Names, h \in {k \in Handles : gem[k] = Null} :
          /\ gem' = [gem EXCEPT ![h] = n]
          /\ Bind(p, [type |-> "gem", handle |-> h, name |-> n])
    BY <1>5 DEF AddGemName
  <2>2. [type |-> "gem", handle |-> h, name |-> n].type \in Accepts(Pointer)
    BY DEF Accepts
  <2>3. Binds(p, [type |-> "gem", handle |-> h, name |-> n])
    BY <1>2, <1>5, <2>1, <2>2, Zenon DEF AddGemName, Binds, Bind, Return
  <2> QED
    BY <2>1, <2>3
<1>6. CASE AddGemNameFails(p) \/ StartRefused(p)
  BY <1>0, <1>1, <1>6 DEF AddGemNameFails, StartRefused, RefuseAdd, Return, Rests
<1>7. CASE \/ Start(p) \/ BindEntry(p) \/ BindFails(p) \/ Bound(p)
           \/ AddParameter(p) \/ AddObject(p) \/ CrossThreadDataBuilt(p) \/ Reject(p)
           \/ BuildList(p) \/ BuildListFails(p) \/ Finish(p)
           \/ Destroy(p) \/ Destroyed(p)
  <2>1. ASSUME NEW from, NEW to \in Locations, Go(p, from, to) PROVE Rests(p)
    BY <2>1 DEF Go, Rests
  <2> QED
    BY <1>7, <2>1, Zenon
    DEF Start, BindEntry, BindFails, Bound, AddParameter, AddObject, SetParam,
        CrossThreadDataBuilt, Reject, BuildList, BuildListFails, Finish, Destroy, Destroyed,
        Throw, Locations
<1>8. CASE Prepare(p)
  BY <1>8 DEF Prepare, Rests, Locations
<1> QED
  BY <1>3, <1>4, <1>5, <1>6, <1>7, <1>8 DEF Step

(* What a step does to the arguments of the prepared kernels.              *)
LEMMA ArgsChange ==
  ASSUME IInv, NEW p \in Prepared, Step(p)
  PROVE  \A q \in Prepared \ {p} : args'[q] = args[q] /\ pc'[q] = pc[q] /\ kernel'[q] = kernel[q]
<1>0. args \in [Prepared -> Seq(Arg)] /\ pc \in [Prepared -> Locations]
  BY DEF IInv, Typed
<1>1. ASSUME NEW a, Binds(p, a)
      PROVE  \A q \in Prepared \ {p} : args'[q] = args[q] /\ pc'[q] = pc[q] /\ kernel'[q] = kernel[q]
  BY <1>0, <1>1 DEF Binds
<1>2. CASE DestroyArg(p)
  BY <1>0, <1>2 DEF DestroyArg
<1>3. CASE Rests(p)
  BY <1>0, <1>3 DEF Rests
<1> QED
  BY <1>1, <1>2, <1>3, StepKinds

-----------------------------------------------------------------------------
(* Positions in an ordered set of numbers: an iterator that was advanced   *)
(* less often than the set has members stands on one of them.              *)
Ahead(B, i) == {j \in B : j < i}

(* Among natural numbers there is a first.                                 *)
LEMMA First ==
  ASSUME NEW T, T \subseteq Nat, T # {}
  PROVE  \E n \in T : \A m \in T : n <= m
<1>1. PICK x \in T : \A y \in T : <<y, x>> \notin OpToRel(<, Nat)
  BY NatLessThanWellFounded, WFMin, Zenon
<1>2. ASSUME NEW y \in T PROVE x <= y
  <2>1. x \in Nat /\ y \in Nat
    OBVIOUS
  <2>2. y < x => <<y, x>> \in OpToRel(<, Nat)
    BY <2>1, Zenon DEF OpToRel
  <2>3. ~(y < x)
    BY <1>1, <2>2, Zenon
  <2> QED
    BY <2>1, <2>3
<1> QED
  BY <1>2

(* Of a set of positions with more than b members, one has b ahead of it.  *)
LEMMA RankExists ==
  ASSUME NEW N \in Nat, NEW B, B \subseteq 1..N, NEW b \in Nat, b < Cardinality(B)
  PROVE  \E i \in B : Cardinality(Ahead(B, i)) = b
<1> DEFINE Before(n) == {j \in B : j < n}
           T == {n \in 1..N + 1 : Cardinality(Before(n)) > b}
<1>0. \A j \in B : j \in 1..N
  OBVIOUS
<1>1. IsFiniteSet(B)
  <2>1. IsFiniteSet(1..N) /\ B \in SUBSET (1..N)
    BY FS_Interval
  <2> QED
    BY <2>1, FS_Subset
<1>2. \A n \in Nat : IsFiniteSet(Before(n)) /\ Cardinality(Before(n)) \in Nat
  <2> SUFFICES ASSUME NEW n \in Nat PROVE IsFiniteSet(Before(n)) /\ Cardinality(Before(n)) \in Nat
    OBVIOUS
  <2>1. Before(n) \in SUBSET B
    OBVIOUS
  <2> QED
    BY <1>1, <2>1, FS_Subset, FS_CardinalityType
<1>3. N + 1 \in T
  <2>1. \A j \in B : j < N + 1
    BY <1>0
  <2>2. Before(N + 1) = B
    BY <2>1, Zenon
  <2>3. N + 1 \in 1..N + 1
    OBVIOUS
  <2> QED
    BY <2>2, <2>3
<1>4. PICK n \in T : \A m \in T : n <= m
  <2>1. T \subseteq Nat
    OBVIOUS
  <2>2. T # {}
    BY <1>3
  <2> HIDE DEF T
  <2> QED
    BY <2>1, <2>2, First
<1>5. n \in 1..N + 1 /\ Cardinality(Before(n)) > b
  OBVIOUS
<1>6. n # 1
  <2>1. \A j \in B : ~(j < 1)
    BY <1>0
  <2>2. Before(1) = {}
    BY <2>1, Zenon
  <2> QED
    BY <1>5, <2>2, FS_EmptySet
<1>7. n - 1 \in 1..N /\ n - 1 \notin T
  BY <1>4, <1>5, <1>6
<1>8. Cardinality(Before(n - 1)) \in Nat /\ Cardinality(Before(n - 1)) <= b
  <2>1. n - 1 \in Nat /\ n - 1 \in 1..N + 1
    BY <1>7
  <2>2. Cardinality(Before(n - 1)) \in Nat
    BY <1>2, <2>1
  <2>3. ~(Cardinality(Before(n - 1)) > b)
    BY <1>7, <2>1
  <2> QED
    BY <2>2, <2>3
<1>9. n - 1 \in B
  <2> SUFFICES ASSUME n - 1 \notin B PROVE FALSE
    OBVIOUS
  <2>1. \A j \in B : j # n - 1
    OBVIOUS
  <2>2. \A j \in B : j < n <=> j < n - 1
    BY <1>0, <1>5, <2>1
  <2>3. Before(n) = Before(n - 1)
    BY <2>2, Zenon
  <2> QED
    BY <1>5, <1>8, <2>3
<1>10. Before(n) = Before(n - 1) \cup {n - 1} /\ n - 1 \notin Before(n - 1)
  <2>1. \A j \in B : j < n <=> (j < n - 1 \/ j = n - 1)
    BY <1>0, <1>5
  <2>2. ~(n - 1 < n - 1)
    BY <1>5
  <2> QED
    BY <1>9, <2>1, <2>2, Zenon
<1>11. Cardinality(Before(n)) = Cardinality(Before(n - 1)) + 1
  BY <1>2, <1>7, <1>10, FS_AddElement
<1>12. Cardinality(Before(n - 1)) = b
  BY <1>5, <1>8, <1>11
<1> QED
  BY <1>9, <1>12 DEF Ahead

(* The loop over the binding table finds a buffer for the next entry.      *)
LEMMA NextIsBuffer ==
  ASSUME IInv, NEW p \in Prepared, CountMatches(p), bound[p] < Len(kernel[p].table)
  PROVE  /\ NextBuffer(p) \in BufferArgs(p)
         /\ Cardinality(Ahead(BufferArgs(p), NextBuffer(p))) = bound[p]
<1>1. args[p] \in Seq(Arg) /\ Len(args[p]) \in Nat /\ bound[p] \in Nat
  BY DEF IInv, Typed
<1>2. kernel[p].table # <<>>
  <2>1. kernel[p].table \in Seq(Slots)
    BY KernelAssumption DEF IInv, Typed, KernelType
  <2>2. CASE kernel[p].table = <<>>
    BY <1>1, <2>2
  <2> QED
    BY <2>2
<1>3. bound[p] < Cardinality(BufferArgs(p)) /\ BufferArgs(p) \subseteq 1..Len(args[p])
  BY <1>2 DEF CountMatches, BufferArgs
<1>4. \E i \in BufferArgs(p) : Cardinality({j \in BufferArgs(p) : j < i}) = bound[p]
  <2> DEFINE N == Len(args[p])
             B == BufferArgs(p)
             b == bound[p]
  <2>1. N \in Nat /\ B \subseteq 1..N /\ b \in Nat /\ b < Cardinality(B)
    BY <1>1, <1>3
  <2> HIDE DEF N, B, b
  <2>2. PICK i \in B : Cardinality(Ahead(B, i)) = b
    BY <2>1, RankExists
  <2>3. Ahead(B, i) = {j \in B : j < i}
    BY DEF Ahead
  <2>4. i \in B /\ Cardinality({j \in B : j < i}) = b
    BY <2>2, <2>3
  <2> QED
    BY <2>4 DEF B, b
<1> QED
  BY <1>4 DEF NextBuffer, Ahead

(* The relocations of a call are of its own arguments.                     *)
CallInv ==
  /\ bound \in [Prepared -> Nat]
  /\ moved \in [Prepared -> SUBSET [handle : Handles, slot : Slots]]
  /\ DOMAIN patches = Prepared
  /\ MovedAreArgs /\ PatchesListed

LEMMA CallFrame ==
  ASSUME IInv, NEW p \in Prepared, Step(p),
         bound' \in [Prepared -> Nat],
         moved' \in [Prepared -> SUBSET [handle : Handles, slot : Slots]],
         DOMAIN patches' = Prepared,
         \A q \in Prepared \ {p} : moved'[q] = moved[q] /\ patches'[q] = patches[q],
         pc'[p] \in Calling =>
           \A m \in moved'[p] : \E i : IsNamed(p, i)' /\ args'[p][i].handle = m.handle,
         pc'[p] = "submit" => \A r \in patches'[p] : r.handle \in ListedHandles(p)'
  PROVE  CallInv'
<1>1. \A q \in Prepared \ {p} : args'[q] = args[q] /\ pc'[q] = pc[q]
  BY ArgsChange
<1>2. ASSUME NEW q \in Prepared, pc'[q] \in Calling, NEW m \in moved'[q]
      PROVE  \E i : IsNamed(q, i)' /\ args'[q][i].handle = m.handle
  <2>1. CASE q = p
    BY <1>2, <2>1
  <2>2. CASE q # p
    <3>1. PICK i : IsNamed(q, i) /\ args[q][i].handle = m.handle
      BY <1>1, <1>2, <2>2 DEF IInv, MovedAreArgs
    <3>2. args'[q] = args[q]
      BY <1>1, <2>2
    <3>3. IsNamed(q, i)'
      BY <3>1, <3>2 DEF IsNamed
    <3> QED
      BY <3>1, <3>2, <3>3
  <2> QED
    BY <2>1, <2>2
<1>3. ASSUME NEW q \in Prepared, pc'[q] = "submit", NEW r \in patches'[q]
      PROVE  r.handle \in ListedHandles(q)'
  <2>1. CASE q = p
    BY <1>3, <2>1
  <2>2. CASE q # p
    BY <1>1, <1>3, <2>2 DEF IInv, PatchesListed, ListedHandles
  <2> QED
    BY <2>1, <2>2
<1> QED
  BY <1>2, <1>3 DEF CallInv, MovedAreArgs, PatchesListed

LEMMA CallStep ==
  ASSUME IInv, NEW p \in Prepared, Step(p)
  PROVE  CallInv'
<1>0. /\ pc \in [Prepared -> Locations] /\ bound \in [Prepared -> Nat]
      /\ moved \in [Prepared -> SUBSET [handle : Handles, slot : Slots]]
      /\ DOMAIN patches = Prepared /\ MovedAreArgs /\ PatchesListed
  BY DEF IInv, Typed
<1>1. CASE Fresh(p)
  <2>1. /\ bound' \in [Prepared -> Nat] /\ DOMAIN patches' = Prepared
        /\ moved' \in [Prepared -> SUBSET [handle : Handles, slot : Slots]]
        /\ moved'[p] = {} /\ patches'[p] = {}
        /\ \A q \in Prepared \ {p} : moved'[q] = moved[q] /\ patches'[q] = patches[q]
    BY <1>0, <1>1 DEF Fresh
  <2> QED
    BY <2>1, CallFrame
<1>2. CASE UNCHANGED call /\ pc'[p] \notin Calling
  BY <1>0, <1>2, CallFrame DEF call, Calling
<1>3. ASSUME UNCHANGED <<args, bound, moved>>, pc[p] \in Calling,
             DOMAIN patches' = Prepared, \A q \in Prepared \ {p} : patches'[q] = patches[q],
             pc'[p] = "submit" => \A r \in patches'[p] : r.handle \in ListedHandles(p)
      PROVE  CallInv'
  <2>1. ASSUME NEW m \in moved'[p] PROVE \E i : IsNamed(p, i)' /\ args'[p][i].handle = m.handle
    <3>1. PICK i : IsNamed(p, i) /\ args[p][i].handle = m.handle
      BY <1>0, <1>3 DEF MovedAreArgs
    <3> QED
      BY <1>3, <3>1 DEF IsNamed
  <2>2. ListedHandles(p)' = ListedHandles(p)
    BY <1>3 DEF ListedHandles
  <2> QED
    BY <1>0, <1>3, <2>1, <2>2, CallFrame
<1>4. CASE BindEntry(p)
  <2> DEFINE a == args[p][NextBuffer(p)]
             s == kernel[p].table[bound[p] + 1]
  <2>1. pc[p] = "bind" /\ pc'[p] = "bind" /\ UNCHANGED <<args, patches>>
    BY <1>0, <1>4 DEF BindEntry, Go
  <2>2. NextBuffer(p) \in BufferArgs(p)
    BY <1>4, NextIsBuffer DEF BindEntry
  <2>3. a \in Arg /\ NextBuffer(p) \in 1..Len(args[p]) /\ IsBuffer(a)
    BY <2>2 DEF BufferArgs, IInv, Typed
  <2>4. s \in Slots
    <3>1. kernel[p].table \in Seq(Slots) /\ bound[p] \in Nat /\ bound[p] < Len(kernel[p].table)
      BY <1>0, <1>4, KernelAssumption DEF BindEntry, IInv, Typed, KernelType
    <3>2. bound[p] + 1 \in 1..Len(kernel[p].table)
      BY <3>1
    <3> QED
      BY <3>1, <3>2
  <2>5. bound' = [bound EXCEPT ![p] = @ + 1]
    BY <1>4 DEF BindEntry
  <2>6. CASE a.type = "ptr"
    <3>1. moved' = moved
      BY <1>4, <2>6 DEF BindEntry
    <3>2. \A m \in moved'[p] : \E i : IsNamed(p, i)' /\ args'[p][i].handle = m.handle
      BY <1>0, <2>1, <3>1 DEF MovedAreArgs, IsNamed, Calling
    <3> QED
      BY <1>0, <2>1, <2>5, <3>1, <3>2, CallFrame
  <2>7. CASE a.type # "ptr"
    <3>1. a.type = "gem" /\ a \in GemArg
      BY <2>3, <2>7, Zenon DEF IsBuffer, Arg, IntArg, PtrArg, GemArg, IntTypes
    <3>2. moved' = [moved EXCEPT ![p] = @ \cup {[handle |-> a.handle, slot |-> s]}]
      BY <1>4, <2>7 DEF BindEntry
    <3>3. moved' \in [Prepared -> SUBSET [handle : Handles, slot : Slots]]
      BY <1>0, <2>4, <3>1, <3>2 DEF GemArg
    <3>4. IsNamed(p, NextBuffer(p)) /\ args[p][NextBuffer(p)].handle = a.handle
      BY <2>3, <3>1 DEF IsNamed
    <3>5. ASSUME NEW m \in moved'[p] PROVE \E i : IsNamed(p, i)' /\ args'[p][i].handle = m.handle
      <4>1. \E i : IsNamed(p, i) /\ args[p][i].handle = m.handle
        <5>1. CASE m \in moved[p]
          BY <1>0, <2>1, <5>1 DEF MovedAreArgs, Calling
        <5>2. CASE m = [handle |-> a.handle, slot |-> s]
          BY <3>4, <5>2
        <5> QED
          BY <1>0, <3>2, <5>1, <5>2
      <4> QED
        BY <2>1, <4>1 DEF IsNamed
    <3>6. bound' \in [Prepared -> Nat] /\ \A q \in Prepared \ {p} : moved'[q] = moved[q]
      BY <1>0, <2>5, <3>2
    <3> QED
      BY <1>0, <2>1, <3>3, <3>5, <3>6, CallFrame
  <2> QED
    BY <2>6, <2>7
<1>5. CASE Bound(p) \/ BuildList(p)
  BY <1>0, <1>3, <1>5 DEF Bound, BuildList, Go, call, Calling
<1>6. CASE AddParameter(p) \/ AddObject(p) \/ CrossThreadDataBuilt(p)
  <2>1. pc'[p] \in {"cross", "list"} /\ pc[p] = "cross" /\ UNCHANGED <<args, bound, moved>>
    BY <1>0, <1>6, Zenon DEF AddParameter, AddObject, SetParam, CrossThreadDataBuilt, Go, call
  <2>2. DOMAIN patches' = Prepared /\ \A q \in Prepared \ {p} : patches'[q] = patches[q]
    BY <1>0, <1>6, Zenon DEF AddParameter, AddObject, CrossThreadDataBuilt, call
  <2> QED
    BY <1>3, <2>1, <2>2 DEF Calling
<1>7. CASE Start(p) \/ BindFails(p) \/ Reject(p) \/ BuildListFails(p) \/ Finish(p)
  BY <1>1, <1>7 DEF Start, BindFails, Reject, BuildListFails, Finish, Throw
<1>8. CASE \/ AddInt(p) \/ AddPointer(p) \/ AddGemName(p) \/ AddGemNameFails(p)
           \/ StartRefused(p) \/ Destroy(p) \/ DestroyArg(p) \/ Destroyed(p) \/ Prepare(p)
  <2>1. UNCHANGED call
    BY <1>8
    DEF AddInt, AddPointer, AddGemName, AddGemNameFails, RefuseAdd, Bind, Return, StartRefused,
        Destroy, DestroyArg, Destroyed, Prepare
  <2>2. pc'[p] \in {"idle", "destroy", "destroyed", "terminated"}
    BY <1>0, <1>8
    DEF AddInt, AddPointer, AddGemName, AddGemNameFails, RefuseAdd, Bind, Return, StartRefused,
        Destroy, DestroyArg, Destroyed, Prepare, Go
  <2> QED
    BY <1>2, <2>1, <2>2 DEF Calling
<1> QED
  BY <1>4, <1>5, <1>6, <1>7, <1>8 DEF Step

-----------------------------------------------------------------------------
(* The places of named arguments, by the step.                             *)

LEMMA TypedStep ==
  ASSUME IInv, NEW p \in Prepared, Step(p)
  PROVE  Typed'
<1>0. /\ pc \in [Prepared -> Locations] /\ kernel \in [Prepared -> Kernels]
      /\ args \in [Prepared -> Seq(Arg)] /\ gem \in [Handles -> Names \cup {Null}]
  BY DEF IInv, Typed
<1>1. /\ bound' \in [Prepared -> Nat] /\ DOMAIN patches' = Prepared
      /\ moved' \in [Prepared -> SUBSET [handle : Handles, slot : Slots]]
  BY CallStep DEF CallInv
<1>2. ASSUME NEW a \in Arg, Binds(p, a)
      PROVE  /\ pc' \in [Prepared -> Locations] /\ kernel' \in [Prepared -> Kernels]
             /\ args' \in [Prepared -> Seq(Arg)]
  <2>1. Append(args[p], a) \in Seq(Arg)
    BY <1>0
  <2> QED
    BY <1>0, <1>2, <2>1 DEF Binds
<1>3. ASSUME NEW a \in IntArg \cup PtrArg, Binds(p, a), UNCHANGED gem PROVE Typed'
  BY <1>0, <1>1, <1>2, <1>3 DEF Typed, Arg
<1>4. ASSUME NEW n \in Names, NEW h \in Handles, gem' = [gem EXCEPT ![h] = n],
             Binds(p, [type |-> "gem", handle |-> h, name |-> n])
      PROVE  Typed'
  <2>1. [type |-> "gem", handle |-> h, name |-> n] \in Arg
    BY DEF Arg, GemArg
  <2>2. gem' \in [Handles -> Names \cup {Null}]
    BY <1>0, <1>4
  <2> QED
    BY <1>1, <1>2, <1>4, <2>1, <2>2 DEF Typed
<1>5. CASE DestroyArg(p)
  <2>1. pc' \in [Prepared -> Locations] /\ kernel' = kernel
    BY <1>0, <1>5 DEF DestroyArg, Locations
  <2>2. gem' \in [Handles -> Names \cup {Null}]
    BY <1>0, <1>5 DEF DestroyArg
  <2>3. args' \in [Prepared -> Seq(Arg)]
    <3>1. args[p] \in Seq(Arg) /\ args[p] # <<>> /\ args' = [args EXCEPT ![p] = Tail(args[p])]
      BY <1>0, <1>5 DEF DestroyArg
    <3>2. Tail(args[p]) \in Seq(Arg)
      BY <3>1
    <3> QED
      BY <1>0, <3>1, <3>2
  <2> QED
    BY <1>0, <1>1, <2>1, <2>2, <2>3 DEF Typed
<1>6. CASE Rests(p)
  <2>1. PICK l \in Locations : pc' = [pc EXCEPT ![p] = l]
    BY <1>6 DEF Rests
  <2> QED
    BY <1>0, <1>1, <1>6, <2>1 DEF Rests, Typed
<1> QED
  BY <1>3, <1>4, <1>5, <1>6, StepKinds

(* Binding an argument leaves those before it where they are.              *)
LEMMA BoundPlaces ==
  ASSUME IInv, NEW p \in Prepared, NEW a, Binds(p, a)
  PROVE  /\ \A q, i : IsNamed(q, i) => IsNamed(q, i)' /\ args'[q][i] = args[q][i]
         /\ \A q, i : IsNamed(q, i)' =>
              \/ IsNamed(q, i) /\ args'[q][i] = args[q][i]
              \/ q = p /\ i = Len(args[p]) + 1 /\ args'[q][i] = a /\ a.type = "gem"
         /\ \A i : i = Len(args[p]) + 1 /\ a.type = "gem" => IsNamed(p, i)' /\ args'[p][i] = a
<1> DEFINE s == args[p]
<1>1. args \in [Prepared -> Seq(Arg)] /\ s \in Seq(Arg) /\ Len(s) \in Nat
  BY DEF IInv, Typed
<1>2. args'[p] = Append(s, a) /\ \A q \in Prepared \ {p} : args'[q] = args[q]
  BY <1>1 DEF Binds
<1>3. /\ Len(args'[p]) = Len(s) + 1
      /\ \A i \in 1..Len(s) : args'[p][i] = s[i]
      /\ args'[p][Len(s) + 1] = a
  BY <1>1, <1>2, AppendProperties DEF Arg
<1>4. \A i : i \in 1..Len(s) + 1 <=> i \in 1..Len(s) \/ i = Len(s) + 1
  BY <1>1
<1> HIDE DEF s
<1>5. \A i : IsNamed(p, i) <=> i \in 1..Len(s) /\ s[i].type = "gem"
  BY DEF IsNamed, s
<1>6. \A i : IsNamed(p, i)' <=> i \in 1..Len(s) + 1 /\ args'[p][i].type = "gem"
  BY <1>3 DEF IsNamed
<1>7. \A q, i : q # p => (IsNamed(q, i)' <=> IsNamed(q, i))
  BY <1>2 DEF IsNamed
<1>8. \A q, i : IsNamed(q, i) => q \in Prepared
  BY DEF IsNamed
<1>9. ASSUME NEW q, NEW i, IsNamed(q, i) PROVE IsNamed(q, i)' /\ args'[q][i] = args[q][i]
  <2>1. CASE q = p
    BY <1>3, <1>4, <1>5, <1>6, <1>9, <2>1 DEF s
  <2>2. CASE q # p
    BY <1>2, <1>7, <1>8, <1>9, <2>2
  <2> QED
    BY <2>1, <2>2
<1>10. ASSUME NEW q, NEW i, IsNamed(q, i)'
       PROVE  \/ IsNamed(q, i) /\ args'[q][i] = args[q][i]
              \/ q = p /\ i = Len(s) + 1 /\ args'[q][i] = a /\ a.type = "gem"
  <2>1. CASE q = p
    BY <1>3, <1>4, <1>5, <1>6, <1>10, <2>1 DEF s
  <2>2. CASE q # p
    BY <1>2, <1>7, <1>8, <1>10, <2>2
  <2> QED
    BY <2>1, <2>2
<1>11. ASSUME NEW i, i = Len(s) + 1, a.type = "gem" PROVE IsNamed(p, i)' /\ args'[p][i] = a
  BY <1>3, <1>4, <1>6, <1>11
<1>12. \A i : i = Len(args[p]) + 1 /\ a.type = "gem" => IsNamed(p, i)' /\ args'[p][i] = a
  BY <1>11 DEF s
<1>13. \A q, i : IsNamed(q, i) => IsNamed(q, i)' /\ args'[q][i] = args[q][i]
  BY <1>9
<1>14. \A q, i : IsNamed(q, i)' =>
         \/ IsNamed(q, i) /\ args'[q][i] = args[q][i]
         \/ q = p /\ i = Len(args[p]) + 1 /\ args'[q][i] = a /\ a.type = "gem"
  BY <1>10 DEF s
<1> QED
  BY <1>12, <1>13, <1>14

(* Destroying one moves those after it forward.                            *)
LEMMA DestroyedPlaces ==
  ASSUME IInv, NEW p \in Prepared, DestroyArg(p)
  PROVE  /\ \A q, i : q # p => (IsNamed(q, i)' <=> IsNamed(q, i))
         /\ \A q \in Prepared \ {p} : args'[q] = args[q]
         /\ \A i : IsNamed(p, i)' => /\ i \in Nat /\ IsNamed(p, i + 1) /\ i + 1 # 1
                                     /\ args'[p][i] = args[p][i + 1]
         /\ \A i : IsNamed(p, i) /\ i # 1 =>
              /\ i \in Nat /\ IsNamed(p, i - 1)' /\ args'[p][i - 1] = args[p][i]
<1> DEFINE s == args[p]
           t == args'[p]
<1>1. args \in [Prepared -> Seq(Arg)] /\ s \in Seq(Arg) /\ s # <<>>
  BY DEF IInv, Typed, DestroyArg
<1>2. t = Tail(s) /\ \A q \in Prepared \ {p} : args'[q] = args[q]
  BY <1>1 DEF DestroyArg
<1>3. /\ Len(s) \in Nat /\ Len(t) = Len(s) - 1
      /\ \A i \in 1..Len(t) : t[i] = s[i + 1]
  BY <1>1, <1>2, HeadTailProperties
<1>4. /\ \A i \in 1..Len(t) : i \in Nat /\ i + 1 \in 1..Len(s) /\ i + 1 # 1
      /\ \A i \in 1..Len(s) \ {1} : i \in Nat /\ i - 1 \in 1..Len(t) /\ (i - 1) + 1 = i
  BY <1>3
<1>5. \A i : IsNamed(p, i) <=> i \in 1..Len(s) /\ s[i].type = "gem"
  BY DEF IsNamed
<1>6. \A i : IsNamed(p, i)' <=> i \in 1..Len(t) /\ t[i].type = "gem"
  BY DEF IsNamed
<1>7. \A q, i : q # p => (IsNamed(q, i)' <=> IsNamed(q, i))
  BY <1>2 DEF IsNamed
<1> HIDE DEF s, t
<1>8. ASSUME NEW i, IsNamed(p, i)'
      PROVE  i \in Nat /\ IsNamed(p, i + 1) /\ i + 1 # 1 /\ t[i] = s[i + 1]
  BY <1>3, <1>4, <1>5, <1>6, <1>8
<1>9. ASSUME NEW i, IsNamed(p, i), i # 1
      PROVE  i \in Nat /\ IsNamed(p, i - 1)' /\ t[i - 1] = s[i]
  <2>1. i \in 1..Len(s) \ {1} /\ s[i].type = "gem"
    BY <1>5, <1>9
  <2>2. t[i - 1] = s[i]
    BY <1>3, <1>4, <2>1
  <2> QED
    BY <1>4, <1>6, <2>1, <2>2
<1> QED
  BY <1>2, <1>7, <1>8, <1>9 DEF s, t

-----------------------------------------------------------------------------
LEMMA OwnersStep ==
  ASSUME IInv, NEW p \in Prepared, Step(p)
  PROVE  HandleInv'
<1>0. /\ args \in [Prepared -> Seq(Arg)] /\ gem \in [Handles -> Names \cup {Null}]
      /\ Refers /\ Single /\ Owned
  BY DEF IInv, Typed, HandleInv
<1>1. \A q, i : IsNamed(q, i) => /\ args[q][i].handle \in Handles
                                 /\ args[q][i].name \in Names /\ args[q][i].name # Null
  <2> SUFFICES ASSUME NEW q, NEW i, IsNamed(q, i)
               PROVE  /\ args[q][i].handle \in Handles
                      /\ args[q][i].name \in Names /\ args[q][i].name # Null
    OBVIOUS
  <2>1. args[q] \in Seq(Arg) /\ i \in 1..Len(args[q]) /\ args[q][i].type = "gem"
    BY <1>0 DEF IsNamed
  <2>2. args[q][i] \in Arg
    BY <2>1
  <2>3. args[q][i] \in GemArg
    BY <2>1, <2>2, Zenon DEF Arg, IntArg, PtrArg, IntTypes
  <2> QED
    BY <2>3, BufferAssumption DEF GemArg
<1>2. ASSUME NEW a \in IntArg \cup PtrArg, Binds(p, a), UNCHANGED gem PROVE HandleInv'
  <2>1. a.type # "gem"
    BY Zenon DEF IntArg, PtrArg, IntTypes
  <2>2. /\ \A q, i : IsNamed(q, i) => IsNamed(q, i)' /\ args'[q][i] = args[q][i]
        /\ \A q, i : IsNamed(q, i)' => IsNamed(q, i) /\ args'[q][i] = args[q][i]
    BY <1>2, <2>1, BoundPlaces
  <2>3. Refers'
    BY <1>0, <1>2, <2>2 DEF Refers
  <2>4. Single'
    BY <1>0, <2>2 DEF Single
  <2>5. Owned'
    <3> SUFFICES ASSUME NEW h \in Handles, gem'[h] # Null
                 PROVE  \E q, i : IsNamed(q, i)' /\ args'[q][i].handle = h
      BY DEF Owned
    <3>1. PICK q, i : IsNamed(q, i) /\ args[q][i].handle = h
      BY <1>0, <1>2 DEF Owned
    <3> QED
      BY <2>2, <3>1
  <2> QED
    BY <2>3, <2>4, <2>5 DEF HandleInv
<1>3. ASSUME NEW n \in Names, NEW h \in Handles, gem[h] = Null, gem' = [gem EXCEPT ![h] = n],
             Binds(p, [type |-> "gem", handle |-> h, name |-> n])
      PROVE  HandleInv'
  <2> DEFINE a == [type |-> "gem", handle |-> h, name |-> n]
             new == Len(args[p]) + 1
  <2>1. a.type = "gem" /\ a.handle = h /\ a.name = n
    OBVIOUS
  <2>2. Binds(p, a)
    BY <1>3
  <2> HIDE DEF a, new
  <2>3. /\ \A q, i : IsNamed(q, i) => IsNamed(q, i)' /\ args'[q][i] = args[q][i]
        /\ \A q, i : IsNamed(q, i)' => \/ IsNamed(q, i) /\ args'[q][i] = args[q][i]
                                       \/ q = p /\ i = new /\ args'[q][i] = a
        /\ \A i : i = new => IsNamed(p, i)' /\ args'[p][i] = a
    BY <2>1, <2>2, BoundPlaces DEF new
  <2>4. \A q, i : IsNamed(q, i) => args[q][i].handle # h
    BY <1>0, <1>1, <1>3 DEF Refers
  <2>5. gem'[h] = n /\ \A k \in Handles \ {h} : gem'[k] = gem[k]
    BY <1>0, <1>3
  <2>6. Refers'
    BY <1>0, <1>1, <2>1, <2>3, <2>4, <2>5 DEF Refers
  <2>7. Single'
    BY <1>0, <2>1, <2>3, <2>4 DEF Single
  <2>8. Owned'
    <3> SUFFICES ASSUME NEW k \in Handles, gem'[k] # Null
                 PROVE  \E q, i : IsNamed(q, i)' /\ args'[q][i].handle = k
      BY DEF Owned
    <3>1. CASE k = h
      BY <2>1, <2>3, <3>1
    <3>2. CASE k # h
      <4>1. PICK q, i : IsNamed(q, i) /\ args[q][i].handle = k
        BY <1>0, <2>5, <3>2 DEF Owned
      <4> QED
        BY <2>3, <4>1
    <3> QED
      BY <3>1, <3>2
  <2> QED
    BY <2>6, <2>7, <2>8 DEF HandleInv
<1>4. CASE DestroyArg(p)
  <2> DEFINE a == args[p][1]
  <2>1. args[p] \in Seq(Arg) /\ args[p] # <<>> /\ Head(args[p]) = a
    BY <1>0, <1>4 DEF DestroyArg
  <2>2. a.type = "gem" <=> IsNamed(p, 1)
    BY <2>1 DEF IsNamed
  <2>3. IF a.type = "gem" THEN gem' = [gem EXCEPT ![a.handle] = Null] ELSE gem' = gem
    BY <1>4, <2>1 DEF DestroyArg
  <2> HIDE DEF a
  <2>4. /\ \A q, i : q # p => (IsNamed(q, i)' <=> IsNamed(q, i))
        /\ \A q \in Prepared \ {p} : args'[q] = args[q]
        /\ \A i : IsNamed(p, i)' => /\ i \in Nat /\ IsNamed(p, i + 1) /\ i + 1 # 1
                                    /\ args'[p][i] = args[p][i + 1]
        /\ \A i : IsNamed(p, i) /\ i # 1 =>
             /\ i \in Nat /\ IsNamed(p, i - 1)' /\ args'[p][i - 1] = args[p][i]
    BY <1>4, DestroyedPlaces
  <2>5. \A q, i : IsNamed(q, i) => q \in Prepared
    BY DEF IsNamed
  <2>6. ASSUME NEW q, NEW i, IsNamed(q, i)'
        PROVE  \E j : /\ IsNamed(q, j) /\ args'[q][i] = args[q][j] /\ ~(q = p /\ j = 1)
                      /\ IF q = p THEN i \in Nat /\ j = i + 1 ELSE j = i
    BY <2>4, <2>5, <2>6
  <2>7. ASSUME NEW q, NEW j, IsNamed(q, j), ~(q = p /\ j = 1)
        PROVE  \E i : IsNamed(q, i)' /\ args'[q][i] = args[q][j]
    BY <2>4, <2>5, <2>7
  <2>8. ASSUME NEW q, NEW j, IsNamed(q, j), ~(q = p /\ j = 1)
        PROVE  gem'[args[q][j].handle] = gem[args[q][j].handle]
    <3>1. CASE a.type = "gem"
      <4>1. args[q][j].handle # a.handle
        BY <1>0, <2>2, <2>8, <3>1 DEF Single, a
      <4> QED
        BY <1>0, <1>1, <2>3, <2>8, <3>1, <4>1
    <3> QED
      BY <2>3, <3>1
  <2>9. Refers'
    BY <1>0, <2>6, <2>8 DEF Refers
  <2>10. Single'
    <3> SUFFICES ASSUME NEW q, NEW i, NEW r, NEW j, IsNamed(q, i)', IsNamed(r, j)',
                        args'[q][i].handle = args'[r][j].handle
                 PROVE  q = r /\ i = j
      BY DEF Single
    <3>1. PICK x : /\ IsNamed(q, x) /\ args'[q][i] = args[q][x]
                   /\ IF q = p THEN i \in Nat /\ x = i + 1 ELSE x = i
      BY <2>6
    <3>2. PICK y : /\ IsNamed(r, y) /\ args'[r][j] = args[r][y]
                   /\ IF r = p THEN j \in Nat /\ y = j + 1 ELSE y = j
      BY <2>6
    <3>3. q = r /\ x = y
      BY <1>0, <3>1, <3>2 DEF Single
    <3> QED
      BY <3>1, <3>2, <3>3
  <2>11. Owned'
    <3> SUFFICES ASSUME NEW h \in Handles, gem'[h] # Null
                 PROVE  \E q, i : IsNamed(q, i)' /\ args'[q][i].handle = h
      BY DEF Owned
    <3>1. gem[h] # Null /\ (a.type = "gem" => h # a.handle)
      BY <1>0, <1>1, <2>2, <2>3 DEF a
    <3>2. PICK q, j : IsNamed(q, j) /\ args[q][j].handle = h
      BY <1>0, <3>1 DEF Owned
    <3>3. ~(q = p /\ j = 1)
      BY <2>2, <3>1, <3>2 DEF a
    <3> QED
      BY <2>7, <3>2, <3>3
  <2> QED
    BY <2>9, <2>10, <2>11 DEF HandleInv
<1>5. CASE Rests(p)
  BY <1>0, <1>5 DEF Rests, HandleInv, Refers, Single, Owned, IsNamed
<1> QED
  BY <1>2, <1>3, <1>4, <1>5, StepKinds

-----------------------------------------------------------------------------
(* How a prepared kernel comes to where the signature matters.             *)
LEMMA Arrivals ==
  ASSUME IInv, NEW p \in Prepared, Step(p)
  PROVE  /\ pc'[p] \in Calling =>
              \/ pc[p] \in Calling
              \/ pc[p] = "idle" /\ Len(args[p]) = Len(kernel[p].infos)
         /\ pc'[p] = "idle" => pc[p] \in Calling \cup {"idle", "destroyed"}
         /\ pc'[p] = "destroyed" => args[p] = <<>>
<1>0. pc \in [Prepared -> Locations]
  BY DEF IInv, Typed
<1>1. CASE \/ AddInt(p) \/ AddPointer(p) \/ AddGemName(p) \/ AddGemNameFails(p)
           \/ StartRefused(p)
  <2>1. pc[p] = "idle" /\ pc' = pc
    BY <1>1, Zenon DEF AddInt, AddPointer, AddGemName, AddGemNameFails, RefuseAdd, Bind, Return,
                StartRefused
  <2> QED
    BY <2>1 DEF Calling
<1>2. CASE Start(p)
  BY <1>0, <1>2 DEF Start, Go, Calling
<1>3. CASE \/ BindEntry(p) \/ BindFails(p) \/ Bound(p)
           \/ AddParameter(p) \/ AddObject(p) \/ CrossThreadDataBuilt(p)
           \/ Reject(p) \/ BuildList(p) \/ BuildListFails(p) \/ Finish(p)
  <2>1. pc[p] \in Calling /\ pc'[p] # "destroyed"
    BY <1>0, <1>3, Zenon DEF BindEntry, BindFails, Bound, AddParameter, AddObject, SetParam,
                      CrossThreadDataBuilt, Reject, BuildList, BuildListFails, Finish, Throw,
                      Go, Calling
  <2> QED
    BY <2>1
<1>4. CASE Destroy(p) \/ DestroyArg(p)
  BY <1>0, <1>4 DEF Destroy, DestroyArg, Go, Calling
<1>5. CASE Destroyed(p) \/ Prepare(p)
  BY <1>0, <1>5 DEF Destroyed, Prepare, Go, Calling
<1> QED
  BY <1>1, <1>2, <1>3, <1>4, <1>5 DEF Step

LEMMA SignatureStep ==
  ASSUME IInv, NEW p \in Prepared, Step(p)
  PROVE  SignatureInv'
<1>0. /\ args \in [Prepared -> Seq(Arg)] /\ pc \in [Prepared -> Locations]
      /\ args[p] \in Seq(Arg) /\ Len(args[p]) \in Nat /\ SignatureInv
  BY DEF IInv, Typed
<1> DEFINE Fits(q) == /\ pc[q] \in Calling \cup {"idle"} => Matching(q)
                      /\ pc[q] \in Calling => Len(args[q]) = Len(kernel[q].infos)
                      /\ pc[q] = "destroyed" => args[q] = <<>>
<1>1. \A q \in Prepared : Fits(q)
  BY <1>0 DEF SignatureInv
<1>2. ASSUME NEW q \in Prepared \ {p} PROVE Fits(q)'
  <2>1. args'[q] = args[q] /\ pc'[q] = pc[q] /\ kernel'[q] = kernel[q]
    BY ArgsChange
  <2> QED
    BY <1>1, <2>1 DEF Matching
<1>3. Fits(p)'
  <2>1. ASSUME NEW a, Binds(p, a) PROVE Fits(p)'
    <3>1. pc'[p] = "idle" /\ kernel' = kernel /\ Matching(p)
      BY <1>1, <2>1 DEF Binds
    <3>2. args'[p] = Append(args[p], a)
      BY <1>0, <2>1 DEF Binds
    <3>3. Len(args'[p]) = Len(args[p]) + 1 /\ args'[p][Len(args[p]) + 1] = a
      BY <1>0, <3>2
    <3>4. \A i \in 1..Len(args[p]) : args'[p][i] = args[p][i]
      BY <1>0, <3>2
    <3>5. ASSUME NEW i \in 1..Len(args'[p])
          PROVE  i \in 1..Len(kernel[p].infos) /\ args'[p][i].type \in Accepts(kernel[p].infos[i])
      <4>1. CASE i \in 1..Len(args[p])
        BY <3>1, <3>4, <4>1 DEF Matching
      <4>2. CASE i = Len(args[p]) + 1
        BY <2>1, <3>3, <4>2 DEF Binds
      <4> QED
        BY <1>0, <3>3, <4>1, <4>2
    <3>6. Matching(p)'
      BY <3>1, <3>5 DEF Matching
    <3> QED
      BY <3>1, <3>6 DEF Calling
  <2>2. CASE DestroyArg(p)
    <3>1. pc'[p] \in {"destroy", "terminated"}
      BY <1>0, <2>2 DEF DestroyArg
    <3> QED
      BY <3>1 DEF Calling
  <2>3. CASE Rests(p)
    <3>1. args' = args /\ kernel' = kernel
      BY <2>3 DEF Rests
    <3>2. args[p] = <<>> => Matching(p)
      BY DEF Matching
    <3>3. Matching(p)' <=> Matching(p)
      BY <3>1 DEF Matching
    <3>4. pc'[p] \in Calling \cup {"idle"} => Matching(p)
      BY <1>1, <3>2, Arrivals
    <3>5. pc'[p] \in Calling => Len(args[p]) = Len(kernel[p].infos)
      BY <1>1, Arrivals
    <3>6. pc'[p] = "destroyed" => args[p] = <<>>
      BY Arrivals
    <3> QED
      BY <3>1, <3>3, <3>4, <3>5, <3>6
  <2> QED
    BY <2>1, <2>2, <2>3, StepKinds
<1> QED
  BY <1>2, <1>3 DEF SignatureInv

LEMMA StepInv == IInv /\ [Next]_vars => IInv'
<1> SUFFICES ASSUME IInv, [Next]_vars PROVE IInv'
  OBVIOUS
<1>1. ASSUME NEW p \in Prepared, Step(p) PROVE IInv'
  BY <1>1, TypedStep, OwnersStep, CallStep, SignatureStep DEF IInv, CallInv
<1>2. CASE UNCHANGED vars
  <2>1. UNCHANGED <<pc, kernel, args, gem, bound, moved, patches>>
    BY <1>2 DEF vars, call
  <2>2. Typed' /\ HandleInv'
    BY <2>1 DEF IInv, Typed, HandleInv, Refers, Single, Owned, IsNamed
  <2>3. MovedAreArgs' /\ PatchesListed' /\ SignatureInv'
    BY <2>1 DEF IInv, IsNamed, MovedAreArgs, PatchesListed, ListedHandles, SignatureInv, Matching
  <2> QED
    BY <2>2, <2>3 DEF IInv
<1> QED
  BY <1>1, <1>2 DEF Next

LEMMA Invariance == Spec => []IInv
<1>1. Init => IInv
  BY InitInv
<1>2. IInv /\ [Next]_vars => IInv'
  BY StepInv
<1> QED
  BY <1>1, <1>2, PTL DEF Spec

-----------------------------------------------------------------------------
(* What execute connects: the table with the buffers, then entry by entry  *)
(* of the patch list the parameters with what they stand for.              *)

(* The entries in the order of the two loops, and what one turn writes.    *)
Turns(k) == Len(k.params) + Len(k.stateless)
Entry(k, n) == IF n <= Len(k.params) THEN k.params[n] ELSE k.stateless[n - Len(k.params)]
TurnOk(k, n, as) ==
  IF n <= Len(k.params) THEN ParameterOk(Entry(k, n), as) ELSE ObjectOk(Entry(k, n), as)
TurnValue(k, n, as, base) ==
  IF n <= Len(k.params) THEN ParameterValue(Entry(k, n), as) ELSE ObjectValue(Entry(k, n), as, base)

(* No two entries share a byte.                                            *)
Apart(k) ==
  \A n, m \in 1..Turns(k) :
    n # m => \/ Entry(k, n).at + Entry(k, n).width <= Entry(k, m).at
             \/ Entry(k, m).at + Entry(k, m).width <= Entry(k, n).at
Distinct(table) == \A i, j \in 1..Len(table) : table[i] = table[j] => i = j

CallTyped ==
  /\ outcome \in [Prepared -> {"none", "ok", "throw"}]
  /\ surface \in [Prepared -> [Slots -> Buffers \cup {Null}]]
  /\ pins \in [Prepared -> SUBSET Buffers]
  /\ patches \in [Prepared -> SUBSET [handle : Handles, at : Nat]]
  /\ turn \in [Prepared -> Nat]
  /\ DOMAIN data = Prepared

(* The indices stay in what they count.                                    *)
Counts(p) ==
  /\ Len(args[p]) <= Len(kernel[p].infos)
  /\ bound[p] <= Len(kernel[p].table)
  /\ turn[p] <= Turns(kernel[p])

(* Entries of the table that are bound lead to the buffer with as many     *)
(* buffers ahead of it as the entry has entries.                           *)
Tabled(p) ==
  pc[p] \in Calling =>
    /\ pc[p] # "bind" => bound[p] = Len(kernel[p].table) /\ CountMatches(p)
    /\ \A m \in moved[p] : \E n \in 1..bound[p] : m.slot = kernel[p].table[n]
    /\ Distinct(kernel[p].table) =>
         \A n \in 1..bound[p], i \in BufferArgs(p) :
           Cardinality(Ahead(BufferArgs(p), i)) = n - 1 =>
             Reaches(p, kernel[p].table[n], args[p][i])

(* Every turn so far passed its checks, and its bytes are still there.     *)
Holds(f, at, width, value) == \A o \in 0..width - 1 : at + o \in DOMAIN f /\ f[at + o] = value[o]
Written(p) ==
  pc[p] \in Calling =>
    /\ pc[p] = "bind" => turn[p] = 0
    /\ pc[p] \in {"list", "submit"} => turn[p] = Turns(kernel[p])
    /\ DOMAIN data[p] \subseteq 0..kernel[p].capacity - 1
    /\ \A n \in 1..turn[p] :
         /\ TurnOk(kernel[p], n, args[p])
         /\ Apart(kernel[p]) =>
              Holds(data[p], Entry(kernel[p], n).at, Entry(kernel[p], n).width,
                    TurnValue(kernel[p], n, args[p], surface[p]))
         /\ n > Len(kernel[p].params) /\ ByName(Entry(kernel[p], n), args[p]) =>
              [handle |-> args[p][Entry(kernel[p], n).arg].handle, at |-> Entry(kernel[p], n).at]
                \in patches[p]

Connected == CallTyped /\ \A p \in Prepared : Counts(p) /\ Tabled(p) /\ Written(p)

-----------------------------------------------------------------------------
LEMMA OneMore ==
  ASSUME NEW S, IsFiniteSet(S), NEW T, T \subseteq S, NEW x \in S, x \notin T
  PROVE  IsFiniteSet(T) /\ Cardinality(T) \in Nat /\ Cardinality(S) \in Nat
         /\ Cardinality(T) < Cardinality(S)
<1>1. IsFiniteSet(T)
  BY FS_Subset
<1>2. Cardinality(T \cup {x}) = Cardinality(T) + 1 /\ IsFiniteSet(T \cup {x})
  BY <1>1, FS_AddElement
<1>3. T \cup {x} \subseteq S
  OBVIOUS
<1>4. Cardinality(T \cup {x}) <= Cardinality(S)
  BY <1>3, FS_Subset
<1>5. Cardinality(T) \in Nat /\ Cardinality(S) \in Nat
  BY <1>1, FS_CardinalityType
<1> QED
  BY <1>1, <1>2, <1>4, <1>5

(* A member of a set of positions is known by how many are ahead of it.    *)
LEMMA Ranks ==
  ASSUME NEW N \in Nat, NEW B, B \subseteq 1..N
  PROVE  /\ \A i \in B : /\ Cardinality(Ahead(B, i)) \in Nat
                         /\ Cardinality(Ahead(B, i)) < Cardinality(B)
         /\ \A i, j \in B : Cardinality(Ahead(B, i)) = Cardinality(Ahead(B, j)) => i = j
<1>1. IsFiniteSet(B) /\ \A i \in B : i \in Nat
  <2>1. IsFiniteSet(1..N) /\ B \in SUBSET (1..N)
    BY FS_Interval
  <2>2. \A i \in 1..N : i \in Nat
    OBVIOUS
  <2> QED
    BY <2>1, <2>2, FS_Subset
<1>2. ASSUME NEW i \in B
      PROVE  Cardinality(Ahead(B, i)) \in Nat /\ Cardinality(Ahead(B, i)) < Cardinality(B)
  <2>1. ~(i < i)
    BY <1>1
  <2>2. Ahead(B, i) \subseteq B /\ i \notin Ahead(B, i)
    BY <2>1 DEF Ahead
  <2> QED
    BY <1>1, <2>2, OneMore
<1>3. ASSUME NEW i \in B, NEW j \in B, i < j
      PROVE  Cardinality(Ahead(B, i)) # Cardinality(Ahead(B, j))
  <2>1. i \in Nat /\ j \in Nat /\ ~(i < i) /\ \A m \in B : m < i => m < j
    BY <1>1, <1>3
  <2>2. Ahead(B, i) \subseteq Ahead(B, j) /\ i \in Ahead(B, j) /\ i \notin Ahead(B, i)
    BY <1>3, <2>1 DEF Ahead
  <2>3. IsFiniteSet(Ahead(B, j))
    <3>1. Ahead(B, j) \subseteq B
      BY DEF Ahead
    <3> QED
      BY <1>1, <3>1, FS_Subset
  <2>4. Cardinality(Ahead(B, i)) < Cardinality(Ahead(B, j)) /\ Cardinality(Ahead(B, i)) \in Nat
    BY <2>2, <2>3, OneMore
  <2> HIDE DEF Ahead
  <2> QED
    BY <2>4
<1>4. ASSUME NEW i \in B, NEW j \in B, Cardinality(Ahead(B, i)) = Cardinality(Ahead(B, j))
      PROVE  i = j
  <2>1. ~(i < j) /\ ~(j < i)
    BY <1>3, <1>4
  <2>2. i \in Nat /\ j \in Nat
    BY <1>1
  <2> QED
    BY <2>1, <2>2
<1> QED
  BY <1>2, <1>4

(* What the patch list says of an entry.                                   *)
LEMMA KernelFacts ==
  ASSUME NEW k \in Kernels
  PROVE  /\ Len(k.infos) \in Nat /\ Len(k.table) \in Nat /\ Len(k.params) \in Nat
         /\ Len(k.stateless) \in Nat /\ Turns(k) \in Nat /\ k.capacity \in Nat
         /\ \A n \in 1..Len(k.table) : k.table[n] \in Slots
         /\ \A n \in 1..Len(k.params) : k.params[n] \in DataParameter
         /\ \A n \in 1..Len(k.stateless) : k.stateless[n] \in MemoryObject
         /\ \A n \in 1..Turns(k) : Entry(k, n).at \in Nat /\ Entry(k, n).width \in Nat
<1>1. k \in KernelType
  BY KernelAssumption
<1>2. /\ k.table \in Seq(Slots) /\ k.params \in Seq(DataParameter)
      /\ k.stateless \in Seq(MemoryObject) /\ k.capacity \in Nat /\ Len(k.infos) \in Nat
  BY <1>1 DEF KernelType
<1>3. /\ Len(k.table) \in Nat /\ Len(k.params) \in Nat /\ Len(k.stateless) \in Nat
      /\ \A n \in 1..Len(k.table) : k.table[n] \in Slots
      /\ \A n \in 1..Len(k.params) : k.params[n] \in DataParameter
      /\ \A n \in 1..Len(k.stateless) : k.stateless[n] \in MemoryObject
  BY <1>2
<1> DEFINE K == Len(k.params)
           S == Len(k.stateless)
<1>4. Turns(k) = K + S /\ K \in Nat /\ S \in Nat
  BY <1>3 DEF Turns
<1>5. ASSUME NEW n \in 1..Turns(k) PROVE Entry(k, n).at \in Nat /\ Entry(k, n).width \in Nat
  <2>1. Entry(k, n) = IF n <= K THEN k.params[n] ELSE k.stateless[n - K]
    BY DEF Entry
  <2>2. CASE n <= K
    <3>1. n \in 1..K
      <4> HIDE DEF K, S
      <4> QED
        BY <1>4, <1>5, <2>2
    <3>2. Entry(k, n) \in DataParameter
      BY <1>3, <2>1, <2>2, <3>1
    <3> QED
      BY <3>2 DEF DataParameter
  <2>3. CASE ~(n <= K)
    <3>1. n - K \in 1..S
      <4> HIDE DEF K, S
      <4> QED
        BY <1>4, <1>5, <2>3
    <3>2. Entry(k, n) \in MemoryObject
      BY <1>3, <2>1, <2>3, <3>1
    <3> QED
      BY <3>2 DEF MemoryObject
  <2> QED
    BY <2>2, <2>3
<1>6. Turns(k) \in Nat
  <2> HIDE DEF K, S
  <2> QED
    BY <1>4
<1> QED
  BY <1>2, <1>3, <1>5, <1>6

(* The two patch lists as one: what is consistent has its entries apart.   *)
LEMMA ConsistentIsApart ==
  ASSUME NEW k \in Kernels, Consistent(k)
  PROVE  Apart(k)
<1> DEFINE K == Len(k.params)
           S == Len(k.stateless)
           P == Places(k)
           a == [i \in 1..K |-> <<k.params[i].at, k.params[i].width>>]
           b == [i \in 1..S |-> <<k.stateless[i].at, k.stateless[i].width>>]
<1>1. K \in Nat /\ S \in Nat
  BY KernelFacts
<1>2. P = a \o b
  BY DEF Places
<1>3. a \in Seq(Nat \X Nat) /\ b \in Seq(Nat \X Nat) /\ Len(a) = K /\ Len(b) = S
  <2>1. \A i \in 1..K : <<k.params[i].at, k.params[i].width>> \in Nat \X Nat
    BY KernelFacts DEF DataParameter
  <2>2. \A i \in 1..S : <<k.stateless[i].at, k.stateless[i].width>> \in Nat \X Nat
    BY KernelFacts DEF MemoryObject
  <2>3. a \in [1..K -> Nat \X Nat] /\ b \in [1..S -> Nat \X Nat]
    BY <2>1, <2>2
  <2> HIDE DEF K, S, a, b
  <2> QED
    BY <1>1, <2>3
<1>4. /\ Len(P) = K + S
      /\ \A n \in 1..K + S : P[n] = IF n <= K THEN a[n] ELSE b[n - K]
  <2> HIDE DEF K, S, P, a, b
  <2> QED
    BY <1>2, <1>3, ConcatProperties
<1>5. ASSUME NEW n \in 1..Turns(k)
      PROVE  n \in 1..Len(P) /\ P[n][1] = Entry(k, n).at /\ P[n][2] = Entry(k, n).width
  <2>1. n \in 1..K + S /\ n \in 1..Len(P)
    BY <1>4, <1>5 DEF Turns
  <2>2. CASE n <= K
    <3>1. n \in 1..K
      <4> HIDE DEF K, S
      <4> QED
        BY <1>1, <2>1, <2>2
    <3>2. P[n] = <<k.params[n].at, k.params[n].width>> /\ Entry(k, n) = k.params[n]
      BY <1>4, <2>1, <2>2, <3>1 DEF Entry
    <3> QED
      BY <2>1, <3>2
  <2>3. CASE ~(n <= K)
    <3>1. n - K \in 1..S
      <4> HIDE DEF K, S
      <4> QED
        BY <1>1, <2>1, <2>3
    <3>2. /\ P[n] = <<k.stateless[n - K].at, k.stateless[n - K].width>>
          /\ Entry(k, n) = k.stateless[n - K]
      BY <1>4, <2>1, <2>3, <3>1 DEF Entry
    <3> QED
      BY <2>1, <3>2
  <2> QED
    BY <2>2, <2>3
<1>6. \A i, j \in 1..Len(P) : i = j \/ P[i][1] + P[i][2] <= P[j][1] \/ P[j][1] + P[j][2] <= P[i][1]
  BY DEF Consistent
<1> HIDE DEF P
<1> QED
  BY <1>5, <1>6 DEF Apart

-----------------------------------------------------------------------------
(* How an argument is reached through a surface state.                     *)
HandlesAt(M, slot) == {m.handle : m \in {x \in M : x.slot = slot}}
Reach(base, pinned, M, slot, x) ==
  IF x.type = "ptr" THEN base[slot] = x.buf /\ x.buf \in pinned
  ELSE base[slot] = Null /\ HandlesAt(M, slot) = {x.handle}

(* What a step of another prepared kernel leaves alone.                    *)
Alone(q) ==
  /\ pc'[q] = pc[q] /\ kernel'[q] = kernel[q] /\ args'[q] = args[q] /\ surface'[q] = surface[q]
  /\ bound'[q] = bound[q] /\ pins'[q] = pins[q] /\ moved'[q] = moved[q] /\ turn'[q] = turn[q]
  /\ data'[q] = data[q] /\ patches'[q] = patches[q]

LEMMA TabledKept ==
  ASSUME NEW q \in Prepared, Tabled(q), pc'[q] \in Calling => pc[q] \in Calling,
         kernel'[q] = kernel[q], args'[q] = args[q], surface'[q] = surface[q],
         bound'[q] = bound[q], pins'[q] = pins[q], moved'[q] = moved[q],
         pc'[q] \in Calling /\ pc'[q] # "bind" => bound[q] = Len(kernel[q].table) /\ CountMatches(q)
  PROVE  Tabled(q)'
<1>1. BufferArgs(q)' = BufferArgs(q) /\ (CountMatches(q)' <=> CountMatches(q))
  BY DEF BufferArgs, CountMatches
<1>2. ASSUME NEW n, NEW i, Reaches(q, kernel[q].table[n], args[q][i])
      PROVE  Reaches(q, kernel[q].table[n], args[q][i])'
  <2>1. Reach(surface[q], pins[q], moved[q], kernel[q].table[n], args[q][i])
    BY <1>2 DEF Reaches, Reach, HandlesAt
  <2>2. Reach(surface'[q], pins'[q], moved'[q], kernel'[q].table[n], args'[q][i])
    BY <2>1
  <2> QED
    BY <2>2 DEF Reaches, Reach, HandlesAt
<1>3. pc'[q] \in Calling => \A m \in moved[q] : \E n \in 1..bound[q] : m.slot = kernel[q].table[n]
  BY DEF Tabled
<1>4. pc'[q] \in Calling /\ Distinct(kernel'[q].table) =>
       \A n \in 1..bound'[q], i \in BufferArgs(q)' :
         Cardinality(Ahead(BufferArgs(q)', i)) = n - 1 => Reaches(q, kernel[q].table[n], args[q][i])'
  BY <1>1, <1>2 DEF Tabled
<1> QED
  BY <1>1, <1>3, <1>4 DEF Tabled

LEMMA LeftAlone ==
  ASSUME NEW q \in Prepared, Alone(q), Counts(q), Tabled(q), Written(q)
  PROVE  Counts(q)' /\ Tabled(q)' /\ Written(q)'
<1>1. Counts(q)'
  BY DEF Alone, Counts
<1>2. BufferArgs(q)' = BufferArgs(q) /\ (CountMatches(q)' <=> CountMatches(q))
  BY DEF Alone, BufferArgs, CountMatches
<1>3. Tabled(q)'
  BY <1>2, TabledKept DEF Alone, Tabled
<1>4. Written(q)'
  BY DEF Alone, Written
<1> QED
  BY <1>1, <1>3, <1>4

LEMMA CallChanges ==
  ASSUME IInv, Connected, NEW p \in Prepared, Step(p)
  PROVE  /\ \/ Fresh(p) /\ pc'[p] \in {"bind", "idle"}
            \/ UNCHANGED call /\ pc'[p] \notin Calling
            \/ Bound(p) \/ CrossThreadDataBuilt(p) \/ BuildList(p)
            \/ BindEntry(p) \/ AddParameter(p) \/ AddObject(p)
         /\ outcome' \in [Prepared -> {"none", "ok", "throw"}]
         /\ \A q \in Prepared \ {p} : Alone(q)
<1>0. /\ pc \in [Prepared -> Locations] /\ bound \in [Prepared -> Nat]
      /\ DOMAIN moved = Prepared /\ DOMAIN surface = Prepared /\ DOMAIN pins = Prepared
      /\ DOMAIN patches = Prepared /\ DOMAIN turn = Prepared /\ DOMAIN data = Prepared
      /\ outcome \in [Prepared -> {"none", "ok", "throw"}]
  BY DEF IInv, Typed, Connected, CallTyped
<1>1. \A q \in Prepared \ {p} : args'[q] = args[q] /\ pc'[q] = pc[q] /\ kernel'[q] = kernel[q]
  BY ArgsChange
<1>2. ASSUME UNCHANGED call PROVE \A q \in Prepared \ {p} : Alone(q)
  BY <1>1, <1>2 DEF Alone, call
<1>3. CASE Start(p) \/ BindFails(p) \/ Reject(p) \/ BuildListFails(p) \/ Finish(p)
  <2>1. Fresh(p) /\ pc'[p] \in {"bind", "idle"}
    BY <1>0, <1>3 DEF Start, BindFails, Reject, BuildListFails, Finish, Throw, Go
  <2>2. outcome' \in [Prepared -> {"none", "ok", "throw"}]
    BY <1>0, <1>3 DEF Start, BindFails, Reject, BuildListFails, Finish, Throw
  <2>3. \A q \in Prepared \ {p} : Alone(q)
    BY <1>0, <1>1, <2>1 DEF Alone, Fresh
  <2> QED
    BY <2>1, <2>2, <2>3
<1>4. CASE \/ AddInt(p) \/ AddPointer(p) \/ AddGemName(p) \/ AddGemNameFails(p)
           \/ StartRefused(p) \/ Destroy(p) \/ DestroyArg(p) \/ Destroyed(p) \/ Prepare(p)
  <2>1. UNCHANGED call
    BY <1>4
    DEF AddInt, AddPointer, AddGemName, AddGemNameFails, RefuseAdd, Bind, Return, StartRefused,
        Destroy, DestroyArg, Destroyed, Prepare
  <2>2. pc'[p] \notin Calling
    BY <1>0, <1>4
    DEF AddInt, AddPointer, AddGemName, AddGemNameFails, RefuseAdd, Bind, Return, StartRefused,
        Destroy, DestroyArg, Destroyed, Prepare, Go, Calling
  <2>3. outcome' \in [Prepared -> {"none", "ok", "throw"}]
    BY <1>0, <1>4
    DEF AddInt, AddPointer, AddGemName, AddGemNameFails, RefuseAdd, Bind, Return, StartRefused,
        Destroy, DestroyArg, Destroyed, Prepare
  <2> QED
    BY <1>2, <2>1, <2>2, <2>3
<1>5. CASE Bound(p) \/ CrossThreadDataBuilt(p) \/ BuildList(p)
  <2>1. UNCHANGED call /\ outcome' = outcome
    BY <1>5 DEF Bound, CrossThreadDataBuilt, BuildList
  <2> QED
    BY <1>0, <1>2, <1>5, <2>1
<1>6. CASE BindEntry(p)
  <2>1. \A q \in Prepared \ {p} : Alone(q)
    BY <1>0, <1>1, <1>6 DEF BindEntry, Alone
  <2>2. outcome' = outcome
    BY <1>6 DEF BindEntry
  <2> QED
    BY <1>0, <1>6, <2>1, <2>2
<1>7. CASE AddParameter(p) \/ AddObject(p)
  <2>1. \A q \in Prepared \ {p} : Alone(q)
    BY <1>0, <1>1, <1>7, Zenon DEF AddParameter, AddObject, SetParam, Alone
  <2>2. outcome' = outcome
    BY <1>7, Zenon DEF AddParameter, AddObject, SetParam
  <2> QED
    BY <1>0, <1>7, <2>1, <2>2
<1> QED
  BY <1>3, <1>4, <1>5, <1>6, <1>7 DEF Step

(* No more arguments are accepted than there are parameters.               *)
LEMMA ArgumentsFit ==
  ASSUME IInv, NEW p \in Prepared, Step(p), Len(args[p]) <= Len(kernel[p].infos)
  PROVE  Len(args'[p]) <= Len(kernel'[p].infos)
<1> DEFINE N == Len(args[p])
           M == Len(kernel[p].infos)
<1>0. /\ args \in [Prepared -> Seq(Arg)] /\ args[p] \in Seq(Arg) /\ N \in Nat
      /\ kernel[p] \in Kernels /\ M \in Nat /\ N <= M
  BY KernelFacts DEF IInv, Typed
<1>1. ASSUME NEW a, Binds(p, a) PROVE Len(args'[p]) <= Len(kernel'[p].infos)
  <2>1. kernel' = kernel /\ args'[p] = Append(args[p], a) /\ N + 1 \in 1..M
    BY <1>0, <1>1 DEF Binds
  <2>2. Len(args'[p]) = N + 1
    BY <1>0, <2>1
  <2>3. N + 1 <= M
    <3> HIDE DEF N, M
    <3> QED
      BY <1>0, <2>1
  <2> QED
    BY <2>1, <2>2, <2>3
<1>2. CASE DestroyArg(p)
  <2>1. kernel' = kernel /\ args'[p] = Tail(args[p]) /\ args[p] # <<>>
    BY <1>0, <1>2 DEF DestroyArg
  <2>2. Len(args'[p]) = N - 1
    BY <1>0, <2>1, HeadTailProperties
  <2>3. N - 1 <= M
    <3> HIDE DEF N, M
    <3> QED
      BY <1>0
  <2> QED
    BY <2>1, <2>2, <2>3
<1>3. CASE Rests(p)
  BY <1>0, <1>3 DEF Rests
<1> QED
  BY <1>1, <1>2, <1>3, StepKinds

(* The turn AddParameter or AddObject is at, as one of both lists.         *)
LEMMA TurnIs ==
  ASSUME IInv, Connected, NEW p \in Prepared, AddParameter(p) \/ AddObject(p)
  PROVE  LET k == kernel[p]
             n == turn[p] + 1
         IN /\ n \in 1..Turns(k) /\ turn[p] = n - 1 /\ turn'[p] = n
            /\ TurnOk(k, n, args[p])
            /\ SetParam(p, Entry(k, n).at, Entry(k, n).width, TurnValue(k, n, args[p], surface[p]))
            /\ IF n > Len(k.params) /\ ByName(Entry(k, n), args[p])
               THEN patches' = [patches EXCEPT ![p] = @ \cup
                                  {[handle |-> args[p][Entry(k, n).arg].handle, at |-> Entry(k, n).at]}]
               ELSE patches' = patches
<1> DEFINE k == kernel[p]
           n == turn[p] + 1
           K == Len(k.params)
           S == Len(k.stateless)
<1>0. /\ turn \in [Prepared -> Nat] /\ turn[p] \in Nat /\ k \in Kernels
      /\ K \in Nat /\ S \in Nat /\ Turns(k) = K + S
  BY KernelFacts DEF Connected, CallTyped, IInv, Typed, Turns
<1>1. turn'[p] = n /\ turn[p] = n - 1 /\ n \in Nat /\ n >= 1
  <2>1. turn' = [turn EXCEPT ![p] = @ + 1]
    BY Zenon DEF AddParameter, AddObject, SetParam
  <2> QED
    BY <1>0, <2>1
<1>2. CASE AddParameter(p)
  <2> DEFINE q == k.params[turn[p] + 1]
  <2>1. turn[p] < K /\ ParameterOk(q, args[p])
        /\ SetParam(p, q.at, q.width, ParameterValue(q, args[p])) /\ patches' = patches
    BY <1>2 DEF AddParameter
  <2>2. n \in 1..K + S /\ n <= K /\ ~(n > K)
    <3> HIDE DEF K, S
    <3> QED
      BY <1>0, <2>1
  <2>3. Entry(k, n) = q
    BY <2>2 DEF Entry
  <2>4. /\ TurnOk(k, n, args[p]) <=> ParameterOk(q, args[p])
        /\ TurnValue(k, n, args[p], surface[p]) = ParameterValue(q, args[p])
    BY <2>2, <2>3 DEF TurnOk, TurnValue
  <2> HIDE DEF n, q
  <2> QED
    BY <1>0, <1>1, <2>1, <2>2, <2>3, <2>4 DEF n
<1>3. CASE AddObject(p)
  <2> DEFINE l == turn[p] - K + 1
             s == k.stateless[l]
  <2>1. /\ l \in 1..S /\ ObjectOk(s, args[p])
        /\ SetParam(p, s.at, s.width, ObjectValue(s, args[p], surface[p]))
        /\ patches' = IF ByName(s, args[p])
                      THEN [patches EXCEPT ![p] =
                              @ \cup {[handle |-> args[p][s.arg].handle, at |-> s.at]}]
                      ELSE patches
    BY <1>3, Zenon DEF AddObject
  <2>2. n \in 1..K + S /\ ~(n <= K) /\ n > K /\ n - K = l
    <3> HIDE DEF K, S
    <3>1. PICK t \in Nat : t = turn[p]
      BY <1>0
    <3>2. K \in Nat /\ S \in Nat /\ t - K + 1 \in 1..S
      BY <1>0, <2>1, <3>1, Zenon
    <3>3. t + 1 \in 1..K + S /\ ~(t + 1 <= K) /\ t + 1 > K /\ t + 1 - K = t - K + 1
      BY <3>2
    <3>4. n = t + 1 /\ l = t - K + 1
      BY <3>1
    <3> HIDE DEF n, l
    <3> QED
      BY <3>2, <3>3, <3>4
  <2>3. Entry(k, n) = s
    BY <2>2 DEF Entry
  <2>4. /\ TurnOk(k, n, args[p]) <=> ObjectOk(s, args[p])
        /\ TurnValue(k, n, args[p], surface[p]) = ObjectValue(s, args[p], surface[p])
    BY <2>2, <2>3 DEF TurnOk, TurnValue
  <2> HIDE DEF n, s, l
  <2> QED
    BY <1>0, <1>1, <2>1, <2>2, <2>3, <2>4, Zenon DEF n
<1> QED
  BY <1>2, <1>3

LEMMA CallTypedStep ==
  ASSUME IInv, Connected, NEW p \in Prepared, Step(p)
  PROVE  CallTyped'
<1>0. /\ surface \in [Prepared -> [Slots -> Buffers \cup {Null}]]
      /\ pins \in [Prepared -> SUBSET Buffers]
      /\ patches \in [Prepared -> SUBSET [handle : Handles, at : Nat]]
      /\ turn \in [Prepared -> Nat] /\ DOMAIN data = Prepared
      /\ args \in [Prepared -> Seq(Arg)] /\ kernel[p] \in Kernels /\ bound \in [Prepared -> Nat]
  BY DEF Connected, CallTyped, IInv, Typed
<1>1. outcome' \in [Prepared -> {"none", "ok", "throw"}]
  BY CallChanges
<1>2. CASE Fresh(p)
  <2>1. [s \in Slots |-> Null] \in [Slots -> Buffers \cup {Null}]
    OBVIOUS
  <2> QED
    BY <1>0, <1>1, <1>2, <2>1 DEF Fresh, CallTyped
<1>3. CASE UNCHANGED call
  BY <1>0, <1>1, <1>3 DEF call, CallTyped
<1>4. CASE BindEntry(p)
  <2> DEFINE a == args[p][NextBuffer(p)]
             s == kernel[p].table[bound[p] + 1]
  <2>1. NextBuffer(p) \in BufferArgs(p)
    BY <1>4, NextIsBuffer DEF BindEntry
  <2>2. a \in Arg
    BY <1>0, <2>1 DEF BufferArgs
  <2>3. turn' = turn /\ data' = data /\ patches' = patches
    BY <1>4 DEF BindEntry
  <2>4. CASE a.type = "ptr"
    <3>1. a.buf \in Buffers
      BY <2>2, <2>4, Zenon DEF Arg, IntArg, PtrArg, GemArg, IntTypes
    <3>2. surface' = [surface EXCEPT ![p][s] = a.buf] /\ pins' = [pins EXCEPT ![p] = @ \cup {a.buf}]
      BY <1>4, <2>4 DEF BindEntry
    <3> HIDE DEF a, s
    <3> QED
      BY <1>0, <1>1, <2>3, <3>1, <3>2 DEF CallTyped
  <2>5. CASE a.type # "ptr"
    <3>1. surface' = [surface EXCEPT ![p][s] = Null] /\ pins' = pins
      BY <1>4, <2>5 DEF BindEntry
    <3> HIDE DEF a, s
    <3> QED
      BY <1>0, <1>1, <2>3, <3>1 DEF CallTyped
  <2> QED
    BY <2>4, <2>5
<1>5. CASE AddParameter(p) \/ AddObject(p)
  <2> DEFINE k == kernel[p]
             n == turn[p] + 1
             r == [handle |-> args[p][Entry(k, n).arg].handle, at |-> Entry(k, n).at]
  <2>1. /\ n \in 1..Turns(k) /\ TurnOk(k, n, args[p])
        /\ SetParam(p, Entry(k, n).at, Entry(k, n).width, TurnValue(k, n, args[p], surface[p]))
        /\ IF n > Len(k.params) /\ ByName(Entry(k, n), args[p])
           THEN patches' = [patches EXCEPT ![p] = @ \cup {r}] ELSE patches' = patches
    BY <1>5, TurnIs
  <2>2. Entry(k, n).at \in Nat
    BY <1>0, <2>1, KernelFacts
  <2>3. /\ surface' = surface /\ pins' = pins /\ turn' = [turn EXCEPT ![p] = @ + 1]
        /\ DOMAIN data' = Prepared
    BY <1>0, <2>1 DEF SetParam
  <2>4. turn' \in [Prepared -> Nat]
    BY <1>0, <2>3
  <2>5. patches' \in [Prepared -> SUBSET [handle : Handles, at : Nat]]
    <3>1. CASE n > Len(k.params) /\ ByName(Entry(k, n), args[p])
      <4> DEFINE i == Entry(k, n).arg
      <4>1. ~(n <= Len(k.params))
        <5> DEFINE K == Len(k.params)
        <5>1. K \in Nat /\ n \in Nat /\ n > K
          BY <1>0, <2>1, <3>1, KernelFacts DEF Connected, CallTyped
        <5> HIDE DEF K, n
        <5>2. ~(n <= K)
          BY <5>1
        <5> QED
          BY <5>2 DEF K
      <4>2. i \in 1..Len(args[p])
        BY <2>1, <4>1 DEF TurnOk, ObjectOk
      <4>3. args[p][i] \in Arg /\ args[p][i].type = "gem"
        BY <1>0, <3>1, <4>2 DEF ByName
      <4>4. args[p][i].handle \in Handles
        BY <4>3, Zenon DEF Arg, IntArg, PtrArg, GemArg, IntTypes
      <4>5. r \in [handle : Handles, at : Nat]
        BY <2>2, <4>4
      <4>6. patches' = [patches EXCEPT ![p] = @ \cup {r}]
        BY <2>1, <3>1
      <4> HIDE DEF r
      <4>7. patches[p] \cup {r} \in SUBSET [handle : Handles, at : Nat]
        BY <1>0, <4>5
      <4> QED
        BY <1>0, <4>6, <4>7
    <3>2. CASE ~(n > Len(k.params) /\ ByName(Entry(k, n), args[p]))
      BY <1>0, <2>1, <3>2
    <3> QED
      BY <3>1, <3>2
  <2> QED
    BY <1>0, <1>1, <2>3, <2>4, <2>5 DEF CallTyped
<1>6. CASE Bound(p) \/ CrossThreadDataBuilt(p) \/ BuildList(p)
  BY <1>3, <1>6 DEF Bound, CrossThreadDataBuilt, BuildList
<1> QED
  BY <1>2, <1>3, <1>4, <1>5, <1>6, CallChanges

(* One more entry of the table.                                            *)
LEMMA ReachStays ==
  ASSUME NEW base, NEW pinned, NEW M, NEW slot, NEW x, Reach(base, pinned, M, slot, x),
         NEW s, s # slot, NEW base2, DOMAIN base2 = DOMAIN base, slot \in DOMAIN base,
         \A t \in DOMAIN base \ {s} : base2[t] = base[t],
         NEW pinned2, pinned \subseteq pinned2,
         NEW M2, M \subseteq M2, \A m \in M2 \ M : m.slot = s
  PROVE  Reach(base2, pinned2, M2, slot, x)
<1>1. base2[slot] = base[slot]
  OBVIOUS
<1>2. {m \in M2 : m.slot = slot} = {m \in M : m.slot = slot}
  OBVIOUS
<1>3. HandlesAt(M2, slot) = HandlesAt(M, slot)
  BY <1>2 DEF HandlesAt
<1> QED
  BY <1>1, <1>3 DEF Reach

LEMMA BindStep ==
  ASSUME IInv, Connected, NEW p \in Prepared, BindEntry(p)
  PROVE  Counts(p)' /\ Tabled(p)' /\ Written(p)'
<1> DEFINE k == kernel[p]
           T == Len(k.table)
           b == bound[p]
           i0 == NextBuffer(p)
           a == args[p][i0]
           s == k.table[b + 1]
           B == BufferArgs(p)
<1>0. /\ pc \in [Prepared -> Locations] /\ bound \in [Prepared -> Nat]
      /\ args[p] \in Seq(Arg) /\ Len(args[p]) \in Nat
      /\ k \in Kernels /\ T \in Nat /\ b \in Nat /\ \A n \in 1..T : k.table[n] \in Slots
      /\ moved \in [Prepared -> SUBSET [handle : Handles, slot : Slots]]
      /\ surface \in [Prepared -> [Slots -> Buffers \cup {Null}]]
      /\ pins \in [Prepared -> SUBSET Buffers]
      /\ Counts(p) /\ Tabled(p) /\ Written(p)
  BY KernelFacts DEF IInv, Typed, Connected, CallTyped
<1>1. /\ pc[p] = "bind" /\ pc'[p] = "bind" /\ kernel' = kernel /\ args' = args
      /\ turn' = turn /\ data' = data /\ patches' = patches /\ b < T
      /\ bound'[p] = b + 1
  BY <1>0 DEF BindEntry, Go
<1>2. i0 \in B /\ Cardinality(Ahead(B, i0)) = b
  BY NextIsBuffer DEF BindEntry
<1>3. b + 1 \in 1..T /\ b + 1 <= T /\ \A n \in 1..b + 1 : n \in 1..b \/ n = b + 1
  <2> HIDE DEF b, T
  <2> QED
    BY <1>0, <1>1
<1>4. s \in Slots
  BY <1>0, <1>3
<1>5. Counts(p)'
  <2>1. Len(args'[p]) <= Len(kernel'[p].infos) /\ turn'[p] <= Turns(kernel'[p])
    BY <1>0, <1>1 DEF Counts
  <2> QED
    BY <1>1, <1>3, <2>1 DEF Counts
<1>6. Written(p)'
  <2>1. turn[p] = 0 /\ DOMAIN data[p] \subseteq 0..k.capacity - 1
    BY <1>0, <1>1 DEF Written, Calling
  <2>2. \A n \in 1..turn'[p] : FALSE
    BY <1>1, <2>1
  <2> QED
    BY <1>1, <2>1, <2>2 DEF Written
<1>7. /\ \A t \in Slots \ {s} : surface'[p][t] = surface[p][t]
      /\ DOMAIN surface'[p] = Slots
      /\ pins[p] \subseteq pins'[p]
      /\ moved[p] \subseteq moved'[p] /\ \A m \in moved'[p] \ moved[p] : m.slot = s
      /\ a.type = "ptr" => surface'[p][s] = a.buf /\ a.buf \in pins'[p]
      /\ a.type # "ptr" => /\ surface'[p][s] = Null
                           /\ moved'[p] = moved[p] \cup {[handle |-> a.handle, slot |-> s]}
  <2>1. CASE a.type = "ptr"
    <3>1. /\ surface' = [surface EXCEPT ![p][s] = a.buf] /\ pins' = [pins EXCEPT ![p] = @ \cup {a.buf}]
          /\ moved' = moved
      BY <2>1 DEF BindEntry
    <3> HIDE DEF a, s
    <3> QED
      BY <1>0, <1>4, <2>1, <3>1
  <2>2. CASE a.type # "ptr"
    <3>1. /\ surface' = [surface EXCEPT ![p][s] = Null] /\ pins' = pins
          /\ moved' = [moved EXCEPT ![p] = @ \cup {[handle |-> a.handle, slot |-> s]}]
      BY <2>2 DEF BindEntry
    <3> HIDE DEF a, s
    <3> QED
      BY <1>0, <1>4, <2>2, <3>1
  <2> QED
    BY <2>1, <2>2
<1>8. ASSUME NEW m \in moved'[p] PROVE \E n \in 1..b + 1 : m.slot = k.table[n]
  <2>1. CASE m \in moved[p]
    <3>1. PICK n \in 1..b : m.slot = k.table[n]
      BY <1>0, <1>1, <2>1 DEF Tabled, Calling
    <3>2. n \in 1..b + 1
      <4> HIDE DEF b
      <4> QED
        BY <1>0
    <3> QED
      BY <3>1, <3>2
  <2>2. CASE m \notin moved[p]
    <3>1. b + 1 \in 1..b + 1
      BY <1>0
    <3> QED
      BY <1>7, <2>2, <3>1
  <2> QED
    BY <2>1, <2>2
<1>9. ASSUME Distinct(k.table), NEW n \in 1..b + 1, NEW i \in B, Cardinality(Ahead(B, i)) = n - 1
      PROVE  Reach(surface'[p], pins'[p], moved'[p], k.table[n], args[p][i])
  <2>1. ASSUME NEW l \in 1..b PROVE l \in 1..T /\ k.table[l] # s
    <3>1. l \in 1..T /\ l # b + 1
      <4> HIDE DEF b, T
      <4> QED
        BY <1>0, <1>1
    <3> QED
      BY <1>3, <1>9, <3>1 DEF Distinct
  <2>2. CASE n \in 1..b
    <3>1. Reach(surface[p], pins[p], moved[p], k.table[n], args[p][i])
      BY <1>0, <1>1, <1>9, <2>2 DEF Tabled, Calling, Reaches, Reach, HandlesAt
    <3>2. k.table[n] # s /\ k.table[n] \in Slots /\ DOMAIN surface[p] = Slots
      BY <1>0, <2>1, <2>2
    <3>3. /\ DOMAIN surface'[p] = DOMAIN surface[p] /\ k.table[n] \in DOMAIN surface[p]
          /\ \A t \in DOMAIN surface[p] \ {s} : surface'[p][t] = surface[p][t]
      BY <1>7, <3>2
    <3>4. /\ pins[p] \subseteq pins'[p] /\ moved[p] \subseteq moved'[p]
          /\ \A m \in moved'[p] \ moved[p] : m.slot = s
      BY <1>7
    <3> HIDE DEF s
    <3> QED
      BY <3>1, <3>2, <3>3, <3>4, ReachStays
  <2>3. CASE n = b + 1
    <3>1. n - 1 = b
      BY <1>0, <2>3
    <3>2. B \subseteq 1..Len(args[p])
      BY DEF BufferArgs
    <3>3. i = i0
      BY <1>0, <1>2, <1>9, <3>1, <3>2, Ranks
    <3>4. k.table[n] = s
      BY <2>3
    <3>5. CASE a.type = "ptr"
      BY <1>7, <3>3, <3>4, <3>5 DEF Reach
    <3>6. CASE a.type # "ptr"
      <4>1. \A m \in moved[p] : m.slot # s
        BY <1>0, <1>1, <2>1 DEF Tabled, Calling
      <4>2. {m \in moved'[p] : m.slot = s} = {[handle |-> a.handle, slot |-> s]}
        BY <1>7, <3>6, <4>1
      <4>3. HandlesAt(moved'[p], s) = {a.handle}
        <5> DEFINE r == [handle |-> a.handle, slot |-> s]
                   X == {m \in moved'[p] : m.slot = s}
        <5>1. HandlesAt(moved'[p], s) = {m.handle : m \in X}
          BY DEF HandlesAt
        <5>2. X = {r} /\ r.handle = a.handle
          BY <4>2
        <5> HIDE DEF r, X
        <5> QED
          BY <5>1, <5>2
      <4> QED
        BY <1>7, <3>3, <3>4, <3>6, <4>3 DEF Reach
    <3> QED
      BY <3>5, <3>6
  <2> QED
    BY <1>3, <2>2, <2>3
<1>10. Tabled(p)'
  <2>1. BufferArgs(p)' = B
    BY <1>1 DEF BufferArgs
  <2>2. \A m \in moved'[p] : \E n \in 1..bound'[p] : m.slot = kernel'[p].table[n]
    BY <1>1, <1>8
  <2>3. Distinct(kernel'[p].table) =>
          \A n \in 1..bound'[p], i \in BufferArgs(p)' :
            Cardinality(Ahead(BufferArgs(p)', i)) = n - 1 =>
              Reaches(p, kernel[p].table[n], args[p][i])'
    <3> SUFFICES ASSUME Distinct(kernel'[p].table), NEW n \in 1..b + 1, NEW i \in B,
                        Cardinality(Ahead(B, i)) = n - 1
                 PROVE  Reaches(p, kernel[p].table[n], args[p][i])'
      BY <1>1, <2>1
    <3>1. Reach(surface'[p], pins'[p], moved'[p], k.table[n], args[p][i])
      BY <1>1, <1>9
    <3>2. Reach(surface'[p], pins'[p], moved'[p], kernel'[p].table[n], args'[p][i])
      BY <1>1, <3>1
    <3> QED
      BY <3>2 DEF Reaches, Reach, HandlesAt
  <2> QED
    BY <1>1, <2>2, <2>3 DEF Tabled
<1> QED
  BY <1>5, <1>6, <1>10

(* One more parameter: what set_param writes is there, and what was        *)
(* written elsewhere still is.                                             *)
Adds(f, g, at, width, v) ==
  /\ Holds(g, at, width, v)
  /\ DOMAIN g = DOMAIN f \cup at..at + width - 1
  /\ \A at2, width2 \in Nat : \A v2 :
       Holds(f, at2, width2, v2) /\ (at2 + width2 <= at \/ at + width <= at2)
         => Holds(g, at2, width2, v2)

LEMMA CopyKeeps ==
  ASSUME NEW f, NEW at \in Nat, NEW width \in Nat, NEW v, NEW g, g = Copied(f, at, width, v)
  PROVE  Adds(f, g, at, width, v)
<1>1. DOMAIN g = DOMAIN f \cup at..at + width - 1
  BY DEF Copied
<1>2. \A o \in at..at + width - 1 : g[o] = v[o - at]
  BY <1>1 DEF Copied
<1>3. \A o \in DOMAIN f : o \notin at..at + width - 1 => g[o] = f[o]
  BY <1>1 DEF Copied
<1>4. Holds(g, at, width, v)
  <2> SUFFICES ASSUME NEW o \in 0..width - 1 PROVE at + o \in DOMAIN g /\ g[at + o] = v[o]
    BY DEF Holds
  <2>1. at + o \in at..at + width - 1 /\ (at + o) - at = o
    OBVIOUS
  <2> QED
    BY <1>1, <1>2, <2>1
<1>5. ASSUME NEW at2 \in Nat, NEW width2 \in Nat, NEW v2, Holds(f, at2, width2, v2),
             at2 + width2 <= at \/ at + width <= at2
      PROVE  Holds(g, at2, width2, v2)
  <2> SUFFICES ASSUME NEW o \in 0..width2 - 1 PROVE at2 + o \in DOMAIN g /\ g[at2 + o] = v2[o]
    BY DEF Holds
  <2>1. at2 + o \notin at..at + width - 1
    BY <1>5
  <2>2. at2 + o \in DOMAIN f /\ f[at2 + o] = v2[o]
    BY <1>5 DEF Holds
  <2> QED
    BY <1>1, <1>3, <2>1, <2>2
<1> QED
  BY <1>1, <1>4, <1>5 DEF Adds

LEMMA TurnStep ==
  ASSUME IInv, Connected, NEW p \in Prepared, AddParameter(p) \/ AddObject(p)
  PROVE  Counts(p)' /\ Tabled(p)' /\ Written(p)'
<1> DEFINE k == kernel[p]
           as == args[p]
           n == turn[p] + 1
           at == Entry(k, n).at
           width == Entry(k, n).width
           value(m) == TurnValue(k, m, as, surface[p])
           target(m) == [handle |-> as[Entry(k, m).arg].handle, at |-> Entry(k, m).at]
           named(m) == m > Len(k.params) /\ ByName(Entry(k, m), as)
<1>0. /\ pc \in [Prepared -> Locations] /\ turn \in [Prepared -> Nat] /\ DOMAIN data = Prepared
      /\ patches \in [Prepared -> SUBSET [handle : Handles, at : Nat]]
      /\ k \in Kernels /\ Turns(k) \in Nat /\ k.capacity \in Nat
      /\ \A m \in 1..Turns(k) : Entry(k, m).at \in Nat /\ Entry(k, m).width \in Nat
      /\ Counts(p) /\ Tabled(p) /\ Written(p)
  BY KernelFacts DEF IInv, Typed, Connected, CallTyped
<1>1. /\ n \in 1..Turns(k) /\ turn[p] = n - 1 /\ turn'[p] = n /\ TurnOk(k, n, as)
      /\ SetParam(p, at, width, value(n))
      /\ IF named(n) THEN patches' = [patches EXCEPT ![p] = @ \cup {target(n)}] ELSE patches' = patches
  BY TurnIs
<1>2. /\ pc[p] = "cross" /\ pc'[p] = "cross" /\ kernel' = kernel /\ args' = args
      /\ surface' = surface /\ bound' = bound /\ pins' = pins /\ moved' = moved
      /\ data'[p] = Copied(data[p], at, width, value(n)) /\ at + width <= k.capacity
  BY <1>0, <1>1 DEF SetParam, Go
<1>3. \A m \in 1..n : m \in 1..Turns(k) /\ m \in Nat /\ (m # n => m \in 1..turn[p])
  BY <1>0, <1>1
<1>4. Counts(p)'
  BY <1>0, <1>1, <1>2 DEF Counts
<1>5. Tabled(p)'
  BY <1>0, <1>2, TabledKept DEF Tabled, Calling
<1>6. at \in Nat /\ width \in Nat
  BY <1>0, <1>1
<1>7. /\ Holds(data'[p], at, width, value(n))
      /\ DOMAIN data'[p] = DOMAIN data[p] \cup at..at + width - 1
      /\ \A at2, width2 \in Nat : \A v2 :
           Holds(data[p], at2, width2, v2) /\ (at2 + width2 <= at \/ at + width <= at2)
             => Holds(data'[p], at2, width2, v2)
  <2> DEFINE f == data[p]
             g == data'[p]
             v == value(n)
  <2>1. g = Copied(f, at, width, v)
    BY <1>2
  <2> HIDE DEF f, g, v, at, width
  <2>2. Adds(f, g, at, width, v)
    BY <1>6, <2>1, CopyKeeps
  <2> QED
    BY <2>2 DEF Adds, f, g, v
<1>8. DOMAIN data'[p] \subseteq 0..k.capacity - 1
  <2>1. DOMAIN data[p] \subseteq 0..k.capacity - 1
    BY <1>0, <1>2 DEF Written, Calling
  <2>2. at..at + width - 1 \subseteq 0..k.capacity - 1
    <3> HIDE DEF at, width
    <3> QED
      BY <1>0, <1>2, <1>6
  <2> QED
    BY <1>7, <2>1, <2>2
<1> DEFINE Done(m, f, P) ==
             /\ TurnOk(k, m, as)
             /\ Apart(k) => Holds(f, Entry(k, m).at, Entry(k, m).width, value(m))
             /\ named(m) => target(m) \in P
<1>9. ASSUME NEW m \in 1..n PROVE Done(m, data'[p], patches'[p])
  <2>1. CASE m = n
    <3>1. named(n) => target(n) \in patches'[p]
      <4> HIDE DEF target, named
      <4> QED
        BY <1>0, <1>1
    <3> HIDE DEF n
    <3> QED
      BY <1>1, <1>7, <2>1, <3>1
  <2>2. CASE m # n
    <3>1. m \in 1..turn[p] /\ m \in 1..Turns(k)
      BY <1>3, <2>2
    <3>2. Done(m, data[p], patches[p])
      BY <1>0, <1>2, <3>1 DEF Written, Calling
    <3>3. patches[p] \subseteq patches'[p]
      <4> HIDE DEF target, named
      <4> QED
        BY <1>0, <1>1
    <3>4. ASSUME Apart(k)
          PROVE  Holds(data'[p], Entry(k, m).at, Entry(k, m).width, value(m))
      <4>1. \/ Entry(k, m).at + Entry(k, m).width <= at
            \/ at + width <= Entry(k, m).at
        BY <1>1, <2>2, <3>1, <3>4 DEF Apart
      <4>2. Holds(data[p], Entry(k, m).at, Entry(k, m).width, value(m))
        BY <3>2, <3>4
      <4>3. Entry(k, m).at \in Nat /\ Entry(k, m).width \in Nat
        BY <1>0, <3>1
      <4> HIDE DEF at, width, value
      <4> QED
        BY <1>7, <4>1, <4>2, <4>3
    <3> QED
      BY <3>2, <3>3, <3>4
  <2> QED
    BY <2>1, <2>2
<1>10. Written(p)'
  <2>1. \A m \in 1..turn'[p] : Done(m, data'[p], patches'[p])
    BY <1>1, <1>9
  <2> QED
    BY <1>2, <1>8, <2>1 DEF Written
<1> QED
  BY <1>4, <1>5, <1>10

(* A call begins or ends, or goes on to the next part.                     *)
LEMMA FreshStep ==
  ASSUME IInv, Connected, NEW p \in Prepared, Fresh(p), pc'[p] \in {"bind", "idle"},
         Len(args'[p]) <= Len(kernel'[p].infos), kernel' = kernel
  PROVE  Counts(p)' /\ Tabled(p)' /\ Written(p)'
<1>0. /\ DOMAIN bound = Prepared /\ DOMAIN moved = Prepared /\ DOMAIN turn = Prepared
      /\ DOMAIN data = Prepared /\ kernel[p] \in Kernels
  BY DEF IInv, Typed, Connected, CallTyped
<1>1. bound'[p] = 0 /\ turn'[p] = 0 /\ moved'[p] = {} /\ data'[p] = <<>>
  BY <1>0 DEF Fresh
<1>2. Counts(p)'
  <2>1. Len(kernel[p].table) \in Nat /\ Turns(kernel[p]) \in Nat
    BY <1>0, KernelFacts
  <2>2. 0 <= Len(kernel[p].table) /\ 0 <= Turns(kernel[p])
    <3> DEFINE T == Len(kernel[p].table)
               N == Turns(kernel[p])
    <3> HIDE DEF T, N
    <3>1. T \in Nat /\ N \in Nat => 0 <= T /\ 0 <= N
      OBVIOUS
    <3> QED
      BY <2>1, <3>1 DEF T, N
  <2> QED
    BY <1>1, <2>2 DEF Counts
<1>3. \A n \in 1..0 : FALSE
  OBVIOUS
<1>4. Tabled(p)'
  BY <1>1, <1>3 DEF Tabled, Calling
<1>5. Written(p)'
  <2>1. DOMAIN <<>> = {}
    OBVIOUS
  <2> QED
    BY <1>1, <1>3, <2>1 DEF Written, Calling
<1> QED
  BY <1>2, <1>4, <1>5

LEMMA NextPart ==
  ASSUME IInv, Connected, NEW p \in Prepared,
         Bound(p) \/ CrossThreadDataBuilt(p) \/ BuildList(p)
  PROVE  Counts(p)' /\ Tabled(p)' /\ Written(p)'
<1>0. pc \in [Prepared -> Locations] /\ Counts(p) /\ Tabled(p) /\ Written(p)
  BY DEF IInv, Typed, Connected
<1>1. /\ UNCHANGED <<kernel, args, surface, bound, pins, moved, turn, data, patches>>
      /\ pc[p] \in Calling /\ pc'[p] \in {"cross", "list", "submit"}
  BY <1>0 DEF Bound, CrossThreadDataBuilt, BuildList, Go, call, Calling
<1>2. bound[p] = Len(kernel[p].table) /\ CountMatches(p)
  BY <1>0 DEF Bound, CrossThreadDataBuilt, BuildList, Go, Tabled, Calling
<1>3. pc'[p] \in {"list", "submit"} => turn[p] = Turns(kernel[p])
  BY <1>0 DEF Bound, CrossThreadDataBuilt, BuildList, Go, Written, Calling, Turns
<1>4. Counts(p)'
  BY <1>0, <1>1 DEF Counts
<1>5. Tabled(p)'
  BY <1>0, <1>1, <1>2, TabledKept
<1>6. Written(p)'
  BY <1>0, <1>1, <1>3 DEF Written
<1> QED
  BY <1>4, <1>5, <1>6

LEMMA ConnectedStep ==
  ASSUME IInv, Connected, NEW p \in Prepared, Step(p)
  PROVE  Connected'
<1>0. Counts(p) /\ Len(args[p]) <= Len(kernel[p].infos) /\ pc \in [Prepared -> Locations]
  BY DEF Connected, Counts, IInv, Typed
<1>1. Len(args'[p]) <= Len(kernel'[p].infos)
  BY <1>0, ArgumentsFit
<1>2. kernel' = kernel
  <2>1. \A a : Binds(p, a) => kernel' = kernel
    BY DEF Binds
  <2>2. DestroyArg(p) \/ Rests(p) => kernel' = kernel
    BY DEF DestroyArg, Rests
  <2> QED
    BY <2>1, <2>2, StepKinds
<1>3. Counts(p)' /\ Tabled(p)' /\ Written(p)'
  <2>1. CASE Fresh(p) /\ pc'[p] \in {"bind", "idle"}
    BY <1>1, <1>2, <2>1, FreshStep
  <2>2. CASE UNCHANGED call /\ pc'[p] \notin Calling
    <3>1. bound' = bound /\ turn' = turn
      BY <2>2 DEF call
    <3> QED
      BY <1>0, <1>1, <1>2, <2>2, <3>1 DEF Counts, Tabled, Written
  <2>3. CASE Bound(p) \/ CrossThreadDataBuilt(p) \/ BuildList(p)
    BY <2>3, NextPart
  <2>4. CASE BindEntry(p)
    BY <2>4, BindStep
  <2>5. CASE AddParameter(p) \/ AddObject(p)
    BY <2>5, TurnStep
  <2> QED
    BY <2>1, <2>2, <2>3, <2>4, <2>5, CallChanges
<1>4. ASSUME NEW q \in Prepared \ {p} PROVE Counts(q)' /\ Tabled(q)' /\ Written(q)'
  BY CallChanges, LeftAlone DEF Connected
<1>5. CallTyped'
  BY CallTypedStep
<1> QED
  BY <1>3, <1>4, <1>5 DEF Connected

LEMMA ConnectedInit == Init => Connected
<1> SUFFICES ASSUME Init PROVE Connected
  OBVIOUS
<1>1. CallTyped
  BY DEF Init, CallTyped
<1>2. ASSUME NEW p \in Prepared PROVE Counts(p) /\ Tabled(p) /\ Written(p)
  <2>1. /\ pc[p] = "idle" /\ kernel[p] \in Kernels /\ bound[p] = 0 /\ turn[p] = 0
        /\ Len(args[p]) = 0
    BY DEF Init
  <2> DEFINE T == Len(kernel[p].table)
             N == Turns(kernel[p])
             M == Len(kernel[p].infos)
  <2>2. T \in Nat /\ N \in Nat /\ M \in Nat
    BY <2>1, KernelFacts
  <2>3. 0 <= T /\ 0 <= N /\ 0 <= M
    <3> HIDE DEF T, N, M
    <3> QED
      BY <2>2
  <2> QED
    BY <2>1, <2>3 DEF Counts, Tabled, Written, Calling
<1> QED
  BY <1>1, <1>2 DEF Connected

LEMMA ConnectedInvariance == Spec => [](IInv /\ Connected)
<1>1. Init => IInv /\ Connected
  BY InitInv, ConnectedInit
<1>2. (IInv /\ Connected) /\ [Next]_vars => (IInv /\ Connected)'
  <2> SUFFICES ASSUME IInv, Connected, [Next]_vars PROVE IInv' /\ Connected'
    OBVIOUS
  <2>1. IInv'
    BY StepInv
  <2>2. CASE UNCHANGED vars
    <3>1. UNCHANGED <<pc, kernel, args, outcome, surface, bound, pins, moved, turn, data, patches>>
      BY <2>2 DEF vars, call
    <3>2. CallTyped'
      BY <3>1 DEF Connected, CallTyped
    <3>3. ASSUME NEW q \in Prepared PROVE Counts(q)' /\ Tabled(q)' /\ Written(q)'
      BY <3>1, LeftAlone DEF Alone, Connected
    <3> QED
      BY <2>1, <3>2, <3>3 DEF Connected
  <2>3. ASSUME NEW p \in Prepared, Step(p) PROVE Connected'
    BY <2>3, ConnectedStep
  <2> QED
    BY <2>1, <2>2, <2>3 DEF Next
<1> QED
  BY <1>1, <1>2, PTL DEF Spec

-----------------------------------------------------------------------------
(* Each open handle of the environment belongs to exactly one argument of  *)
(* one prepared kernel and is the one gem_open made for its name: what     *)
(* add_argument_gem_name opens, the destructor of that argument and        *)
(* nothing else closes.                                                    *)
THEOREM HandlesAreOwned == Spec => []HandlesOwned
<1>1. IInv => HandlesOwned
  <2> SUFFICES ASSUME IInv, NEW h \in Handles
               PROVE  /\ gem[h] # Null => Cardinality(Owners(h)) = 1
                      /\ \A o \in Owners(h) : gem[h] = args[o[1]][o[2]].name
    BY DEF HandlesOwned
  <2>0. args \in [Prepared -> Seq(Arg)] /\ Refers /\ Single /\ Owned
    BY DEF IInv, Typed, HandleInv
  <2>1. ASSUME NEW p, NEW i, IsNamed(p, i), args[p][i].handle = h PROVE <<p, i>> \in Owners(h)
    <3>1. p \in Prepared /\ i \in DOMAIN args[p]
      BY <2>0, <2>1 DEF IsNamed
    <3>2. <<p, i>> \in Bindings
      BY <3>1 DEF Bindings
    <3> QED
      BY <2>1, <3>2 DEF Owners, IsNamed
  <2>2. ASSUME NEW o \in Owners(h)
        PROVE  o = <<o[1], o[2]>> /\ IsNamed(o[1], o[2]) /\ args[o[1]][o[2]].handle = h
    <3>1. PICK p \in Prepared : o \in {p} \X DOMAIN args[p]
      BY DEF Owners, Bindings
    <3>2. o = <<o[1], o[2]>> /\ o[1] = p /\ o[2] \in 1..Len(args[p])
      BY <2>0, <3>1
    <3> QED
      BY <3>2 DEF Owners, IsNamed
  <2>3. \A o \in Owners(h) : gem[h] = args[o[1]][o[2]].name
    BY <2>0, <2>2 DEF Refers
  <2>4. ASSUME gem[h] # Null PROVE Cardinality(Owners(h)) = 1
    <3>1. PICK p, i : IsNamed(p, i) /\ args[p][i].handle = h
      BY <2>0, <2>4 DEF Owned
    <3>2. <<p, i>> \in Owners(h)
      BY <2>1, <3>1
    <3>3. \A o \in Owners(h) : o = <<p, i>>
      BY <2>0, <2>2, <3>1 DEF Single
    <3>4. Owners(h) = {<<p, i>>}
      BY <3>2, <3>3
    <3> QED
      BY <3>4, FS_Singleton
  <2> QED
    BY <2>3, <2>4
<1> QED
  BY <1>1, Invariance, PTL

(* A batch that is submitted asks for relocations to handles in its list   *)
(* only, and these are open: no argument is destroyed between the binding  *)
(* of the table and EXECBUFFER2.                                           *)
THEOREM RelocationsAreResolved == Spec => []RelocationsResolve
<1>1. IInv => RelocationsResolve
  <2> SUFFICES ASSUME IInv, NEW p \in Prepared, pc[p] = "submit", NEW r \in patches[p] \cup moved[p]
               PROVE  r.handle \in ListedHandles(p) /\ gem[r.handle] # Null
    BY DEF RelocationsResolve
  <2>0. args \in [Prepared -> Seq(Arg)] /\ Refers /\ MovedAreArgs /\ PatchesListed
    BY DEF IInv, Typed, HandleInv
  <2>1. r.handle \in ListedHandles(p)
    BY <2>0 DEF PatchesListed, ListedHandles
  <2>2. PICK m \in moved[p] : m.handle = r.handle
    BY <2>1 DEF ListedHandles
  <2>3. PICK i : IsNamed(p, i) /\ args[p][i].handle = r.handle
    BY <2>0, <2>2 DEF MovedAreArgs, Calling
  <2>4. args[p][i] \in Arg /\ args[p][i].type = "gem"
    BY <2>0, <2>3 DEF IsNamed
  <2>5. args[p][i].name # Null
    BY <2>4, BufferAssumption, Zenon DEF Arg, IntArg, PtrArg, GemArg, IntTypes
  <2>6. gem[r.handle] = args[p][i].name
    BY <2>0, <2>3 DEF Refers
  <2> QED
    BY <2>1, <2>5, <2>6
<1> QED
  BY <1>1, Invariance, PTL

(* A kernel is submitted with an argument of the declared type for each of *)
(* its parameters: arguments that were accepted stay those of the same     *)
(* parameters, through failed calls of add_argument and execute and        *)
(* through the preparation of another kernel in the same place.            *)
THEOREM SignatureIsMet == Spec => []ArgumentsMatchSignature
<1>1. IInv => ArgumentsMatchSignature
  <2> SUFFICES ASSUME IInv, NEW p \in Prepared, pc[p] = "submit", NEW i \in 1..Len(kernel[p].infos)
               PROVE  args[p][i].type \in Accepts(kernel[p].infos[i])
    BY DEF ArgumentsMatchSignature, Accepts
  <2>1. Matching(p) /\ Len(args[p]) = Len(kernel[p].infos)
    BY DEF IInv, SignatureInv, Calling
  <2> QED
    BY <2>1 DEF Matching
<1> QED
  BY <1>1, Invariance, PTL
-----------------------------------------------------------------------------
(* The types of the module hold, and no index leaves what it counts: the   *)
(* arguments are never more than the parameters, and the loops of execute  *)
(* and build_cross_thread_data end with the lists they go through.         *)
THEOREM TypeCorrect == Spec => []TypeOK
<1>1. IInv /\ Connected => TypeOK
  <2> SUFFICES ASSUME IInv, Connected PROVE TypeOK
    OBVIOUS
  <2>1. Typed /\ CallTyped
    BY DEF IInv, Connected
  <2>2. ASSUME NEW p \in Prepared
        PROVE  /\ Len(args[p]) \in 0..Len(kernel[p].infos)
               /\ bound[p] \in 0..Len(kernel[p].table)
               /\ turn[p] \in 0..Len(kernel[p].params) + Len(kernel[p].stateless)
    <3> DEFINE A == Len(args[p])
               I == Len(kernel[p].infos)
               T == Len(kernel[p].table)
               N == Len(kernel[p].params) + Len(kernel[p].stateless)
               b == bound[p]
               t == turn[p]
    <3>1. kernel[p] \in Kernels /\ args[p] \in Seq(Arg) /\ b \in Nat /\ t \in Nat
      BY <2>1 DEF Typed, CallTyped
    <3>2. A \in Nat
      BY <3>1
    <3>3. I \in Nat /\ T \in Nat /\ N \in Nat
      BY <3>1, KernelFacts DEF Turns
    <3>4. A <= I /\ b <= T /\ t <= N
      BY DEF Connected, Counts, Turns
    <3> HIDE DEF A, I, T, N, b, t
    <3>5. A \in 0..I /\ b \in 0..T /\ t \in 0..N
      BY <3>1, <3>2, <3>3, <3>4
    <3> QED
      BY <3>5 DEF A, I, T, N, b, t
  <2> QED
    BY <2>1, <2>2 DEF TypeOK, Typed, CallTyped, Locations, Arg
<1> QED
  BY <1>1, ConnectedInvariance, PTL

(* A pointer parameter of a kernel with a table: the entry it is looked up *)
(* in leads to the buffer that was given for it.                           *)
LEMMA PointerReached ==
  ASSUME IInv, Connected, NEW p \in Prepared, pc[p] = "submit",
         Distinct(kernel[p].table), kernel[p].table # <<>>, NEW i \in Pointers(kernel[p])
  PROVE  /\ EntryOf(args[p], i) + 1 = TableIndex(kernel[p], i)
         /\ EntryOf(args[p], i) \in Nat
         /\ TableIndex(kernel[p], i) \in 1..Len(kernel[p].table)
         /\ Reaches(p, kernel[p].table[TableIndex(kernel[p], i)], args[p][i])
<1> DEFINE k == kernel[p]
           as == args[p]
           B == BufferArgs(p)
           A == Len(as)
           T == Len(k.table)
           r == Cardinality(Ahead(B, i))
<1>0. /\ k \in Kernels /\ as \in Seq(Arg) /\ A = Len(k.infos) /\ Matching(p)
      /\ bound[p] = T /\ CountMatches(p) /\ Tabled(p)
  BY DEF IInv, Typed, SignatureInv, Connected, Tabled, Calling
<1>1. A \in Nat /\ T \in Nat
  BY <1>0, KernelFacts
<1>2. \A j \in 1..A : IsBuffer(as[j]) <=> k.infos[j] = Pointer
  <2> SUFFICES ASSUME NEW j \in 1..A PROVE IsBuffer(as[j]) <=> k.infos[j] = Pointer
    OBVIOUS
  <2>1. as[j].type \in Accepts(k.infos[j])
    BY <1>0 DEF Matching
  <2>2. k.infos[j] \in IntTypes \cup {Pointer}
    BY <1>0, KernelAssumption DEF KernelType
  <2> QED
    BY <2>1, <2>2, Zenon DEF Accepts, IsBuffer, IntTypes, Pointer
<1>3. B = Pointers(k) /\ B \subseteq 1..A
  <2>1. \A j : j \in B <=> j \in Pointers(k)
    BY <1>0, <1>2 DEF BufferArgs, Pointers
  <2> QED
    BY <2>1 DEF BufferArgs
<1>4. TableIndex(k, i) = r + 1
  BY <1>3 DEF TableIndex, Ahead
<1>5. i \in B /\ i \in 1..A /\ r \in Nat /\ r < Cardinality(B)
  BY <1>1, <1>3, Ranks
<1>6. Cardinality(B) = T
  BY <1>0 DEF CountMatches
<1>7. TableIndex(k, i) \in 1..T
  <2> HIDE DEF r, T
  <2> QED
    BY <1>1, <1>4, <1>5, <1>6
<1>8. EntryOf(as, i) = r
  <2>1. ASSUME NEW j PROVE (j \in 1..i - 1 /\ IsBuffer(as[j])) <=> j \in Ahead(B, i)
    <3>1. j \in 1..i - 1 <=> (j \in 1..A /\ j < i)
      <4> HIDE DEF A
      <4> QED
        BY <1>1, <1>5
    <3> QED
      BY <3>1 DEF Ahead, BufferArgs
  <2>2. {j \in 1..i - 1 : IsBuffer(as[j])} = Ahead(B, i)
    BY <2>1
  <2> QED
    BY <2>2 DEF EntryOf
<1>9. Reaches(p, k.table[TableIndex(k, i)], as[i])
  <2>1. r = TableIndex(k, i) - 1
    <3> HIDE DEF r
    <3> QED
      BY <1>4, <1>5
  <2> QED
    BY <1>0, <1>5, <1>7, <2>1 DEF Tabled, Calling
<1> QED
  BY <1>4, <1>5, <1>7, <1>8, <1>9

(* A turn of the first loop has left what its parameter stands for.        *)
LEMMA ParameterReached ==
  ASSUME IInv, Connected, NEW p \in Prepared, pc[p] = "submit", Consistent(kernel[p]),
         NEW i \in 1..Len(kernel[p].params)
  PROVE  ParameterHolds(p, kernel[p].params[i])
<1> DEFINE k == kernel[p]
           as == args[p]
           q == k.params[i]
<1>0. /\ k \in Kernels /\ as \in Seq(Arg) /\ Len(as) = Len(k.infos) /\ Matching(p)
      /\ turn[p] = Turns(k) /\ Written(p)
  BY DEF IInv, Typed, SignatureInv, Connected, Written, Calling
<1>1. i \in 1..Turns(k) /\ i <= Len(k.params) /\ i \in Nat
  <2> DEFINE K == Len(k.params)
             S == Len(k.stateless)
  <2>1. K \in Nat /\ S \in Nat /\ Turns(k) = K + S
    BY <1>0, KernelFacts DEF Turns
  <2>2. i \in 1..K
    OBVIOUS
  <2> HIDE DEF K, S
  <2>3. i \in 1..Turns(k) /\ i <= K /\ i \in Nat
    BY <2>1, <2>2
  <2> QED
    BY <2>3 DEF K
<1>2. q \in DataParameter
  BY <1>0, KernelFacts
<1>3. Entry(k, i) = q
  BY <1>1 DEF Entry
<1>4. ParameterOk(q, as)
  BY <1>0, <1>1, <1>3 DEF Written, Calling, TurnOk
<1>5. Finds(p, q.at, q.width, ParameterValue(q, as))
  <2>1. Apart(k)
    BY <1>0, ConsistentIsApart
  <2>2. Holds(data[p], q.at, q.width, ParameterValue(q, as))
    BY <1>0, <1>1, <1>3, <2>1, Zenon DEF Written, Calling, TurnValue
  <2> QED
    BY <2>2 DEF Finds, Holds
<1>6. CASE q.kind = "offset"
  BY <1>5, <1>6 DEF ParameterValue, ParameterHolds
<1>7. CASE q.kind \in {"local", "enqueued"}
  BY <1>5, <1>7, Zenon DEF ParameterValue, ParameterHolds
<1>8. CASE q.kind = "argument"
  <2>1. q.arg \in 1..Len(as) /\ ~IsBuffer(as[q.arg]) /\ q.width >= SizeOf(as[q.arg].type)
    BY <1>4, <1>8 DEF ParameterOk
  <2>2. as[q.arg].type = k.infos[q.arg]
    BY <1>0, <2>1 DEF Matching, Accepts, IsBuffer
  <2>3. ParameterValue(q, as) =
          Extended(<<"arg", q.arg>>, SizeOf(k.infos[q.arg]), Signed(k.infos[q.arg]))
    BY <1>8, <2>2 DEF ParameterValue
  <2> QED
    BY <1>5, <1>8, <2>1, <2>2, <2>3, Zenon DEF ParameterHolds
<1>9. CASE q.kind = "stateful"
  <2>1. q.arg \in Pointers(k) /\ k.table # <<>> /\ Distinct(k.table)
    BY <1>9 DEF Consistent, Distinct
  <2> DEFINE n == TableIndex(k, q.arg)
  <2>2. EntryOf(as, q.arg) + 1 = n /\ EntryOf(as, q.arg) \in Nat /\ n \in 1..Len(k.table)
        /\ Reaches(p, k.table[n], as[q.arg])
    BY <2>1, PointerReached
  <2>3. ParameterValue(q, as) = Extended(<<"entry", n - 1>>, 4, FALSE)
    <3>1. EntryOf(as, q.arg) = n - 1
      <4> HIDE DEF n
      <4> QED
        BY <2>2
    <3> QED
      BY <1>9, <3>1 DEF ParameterValue
  <2> HIDE DEF n
  <2> QED
    BY <1>5, <1>9, <2>2, <2>3 DEF ParameterHolds
<1>10. q.kind # "unknown"
  BY <1>4 DEF ParameterOk
<1> QED
  BY <1>2, <1>6, <1>7, <1>8, <1>9, <1>10 DEF DataParameter, Kinds

(* So has a turn of the second, or the driver is asked for a relocation.   *)
LEMMA ObjectReached ==
  ASSUME IInv, Connected, NEW p \in Prepared, pc[p] = "submit", Consistent(kernel[p]),
         NEW i \in 1..Len(kernel[p].stateless)
  PROVE  ObjectHolds(p, kernel[p].stateless[i])
<1> DEFINE k == kernel[p]
           as == args[p]
           s == k.stateless[i]
           K == Len(k.params)
           S == Len(k.stateless)
           n == K + i
           a == as[s.arg]
<1>0. /\ k \in Kernels /\ as \in Seq(Arg) /\ Len(as) = Len(k.infos) /\ Matching(p)
      /\ turn[p] = Turns(k) /\ Written(p)
  BY DEF IInv, Typed, SignatureInv, Connected, Written, Calling
<1>1. n \in 1..Turns(k) /\ ~(n <= K) /\ n > K /\ n - K = i
  <2>1. K \in Nat /\ S \in Nat /\ Turns(k) = K + S
    BY <1>0, KernelFacts DEF Turns
  <2>2. i \in 1..S
    OBVIOUS
  <2> HIDE DEF K, S
  <2> QED
    BY <2>1, <2>2
<1>2. Entry(k, n) = s
  BY <1>1 DEF Entry
<1>3. ObjectOk(s, as)
  BY <1>0, <1>1, <1>2 DEF Written, Calling, TurnOk
<1>4. Finds(p, s.at, 8, ObjectValue(s, as, surface[p]))
  <2>1. Apart(k)
    BY <1>0, ConsistentIsApart
  <2>2. Holds(data[p], s.at, s.width, ObjectValue(s, as, surface[p]))
    BY <1>0, <1>1, <1>2, <2>1 DEF Written, Calling, TurnValue
  <2>3. s.width = 8
    BY <1>3 DEF ObjectOk
  <2> QED
    BY <2>2, <2>3 DEF Finds, Holds
<1>5. ByName(s, as) => [handle |-> a.handle, at |-> s.at] \in patches[p]
  BY <1>0, <1>1, <1>2 DEF Written, Calling
<1>6. /\ s.arg \in Pointers(k) /\ TableIndex(k, s.arg) \in 1..Len(k.table)
      /\ s.slot = k.table[TableIndex(k, s.arg)] /\ Distinct(k.table)
  BY DEF Consistent, Distinct
<1>7. Reaches(p, s.slot, a)
  <2>1. k.table # <<>>
    BY <1>6
  <2> QED
    BY <1>6, <2>1, PointerReached
<1>8. s.arg \in 1..Len(as) /\ a \in Arg /\ a.type \in {"ptr", "gem"}
  <2>1. s.arg \in 1..Len(as) /\ k.infos[s.arg] = Pointer
    BY <1>0, <1>6 DEF Pointers
  <2>2. a.type \in Accepts(Pointer)
    BY <1>0, <2>1 DEF Matching
  <2> QED
    BY <1>0, <2>1, <2>2 DEF Accepts
<1>9. CASE a.type = "gem"
  BY <1>5, <1>9 DEF ObjectHolds, ByName
<1>10. CASE a.type = "ptr"
  <2>1. a.buf \in Buffers /\ a.buf # Null
    BY <1>8, <1>10, BufferAssumption, Zenon DEF Arg, IntArg, PtrArg, GemArg, IntTypes
  <2>2. surface[p][s.slot] = a.buf /\ a.buf \in pins[p]
    BY <1>7, <1>10 DEF Reaches
  <2>3. ObjectValue(s, as, surface[p]) = Word64(<<"buffer", a.buf>>)
    BY <1>10, <2>1, <2>2 DEF ObjectValue, ByName
  <2> QED
    BY <1>4, <1>10, <2>2, <2>3, Zenon DEF ObjectHolds
<1> QED
  BY <1>8, <1>9, <1>10

(* A kernel whose patch lists are consistent finds at the place of each    *)
(* parameter the value, the entry or the address that leads to what was    *)
(* given for it: execute and build_cross_thread_data count buffers alike,  *)
(* and no later turn writes over an earlier one.                           *)
THEOREM ParametersAreReached == Spec => []ParametersReachArguments
<1>1. IInv /\ Connected => ParametersReachArguments
  <2> SUFFICES ASSUME IInv, Connected, NEW p \in Prepared, pc[p] = "submit"
               PROVE  /\ DOMAIN data[p] \subseteq 0..kernel[p].capacity - 1
                      /\ Consistent(kernel[p]) =>
                           /\ \A i \in 1..Len(kernel[p].params) :
                                ParameterHolds(p, kernel[p].params[i])
                           /\ \A i \in 1..Len(kernel[p].stateless) :
                                ObjectHolds(p, kernel[p].stateless[i])
    BY DEF ParametersReachArguments
  <2>1. DOMAIN data[p] \subseteq 0..kernel[p].capacity - 1
    BY DEF Connected, Written, Calling
  <2>2. Consistent(kernel[p]) =>
          \A i \in 1..Len(kernel[p].params) : ParameterHolds(p, kernel[p].params[i])
    BY ParameterReached
  <2>3. Consistent(kernel[p]) =>
          \A i \in 1..Len(kernel[p].stateless) : ObjectHolds(p, kernel[p].stateless[i])
    BY ObjectReached
  <2> QED
    BY <2>1, <2>2, <2>3
<1> QED
  BY <1>1, ConnectedInvariance, PTL
=============================================================================
