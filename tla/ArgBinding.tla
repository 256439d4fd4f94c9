----------------------------- MODULE ArgBinding ------------------------------
(***************************************************************************)
(* Prepared kernels of one runtime environment: arguments are bound one by *)
(* one and checked against the signature of the kernel, execute connects   *)
(* them with the binding table, the surface states and the cross-thread    *)
(* data the compiler laid out, and destruction gives the handles back.     *)
(*                                                                         *)
(* An argument given by GEM name owns the handle that gem_open made for it.*)
(* Several prepared kernels, each used by a thread of its own, share the   *)
(* handles of the environment's file descriptor.                           *)
(*                                                                         *)
(* Execute.tla has the buffer objects of a call and the GPU; here a call   *)
(* is followed up to the submission and only for what it does with the     *)
(* arguments.  Positions count from 1.                                     *)
(***************************************************************************)
EXTENDS CrossThread

CONSTANTS
  Prepared,   \* prepared kernels
  Kernels,    \* kernels the compiler may have produced, see KernelType
  Buffers,    \* memory of the user given as pointer and size
  Misaligned, \* those that do not start or end on a page boundary
  Empty,      \* those of size zero
  Names,      \* global names of buffer objects, see gem_open
  Handles

Pointer == "*;8"

KernelType ==
  [infos : Seq(IntTypes \cup {Pointer}), \* kernel_argument_infos
   table : Seq(Slots),              \* surface state of each binding table entry
   params : Seq(DataParameter),     \* data_parameter_buffers
   stateless : Seq(MemoryObject),   \* arguments accessed through their address
   capacity : Nat]                  \* bytes of cross-thread data

ASSUME KernelAssumption == Kernels \subseteq KernelType

Pointers(k) == {i \in 1..Len(k.infos) : k.infos[i] = Pointer}
TableIndex(k, i) == Cardinality({j \in Pointers(k) : j < i}) + 1
Places(k) ==
  [i \in 1..Len(k.params) |-> <<k.params[i].at, k.params[i].width>>]
  \o [i \in 1..Len(k.stateless) |-> <<k.stateless[i].at, k.stateless[i].width>>]

(* What the compiler guarantees: the patch list names pointer parameters,  *)
(* and entries only of a table there is; entries have surface states of    *)
(* their own, the address of a pointer is looked up in the surface state   *)
(* of its entry, and no two values share a byte.                           *)
Consistent(k) ==
  /\ \A i \in 1..Len(k.params) :
       k.params[i].kind = "stateful" => k.params[i].arg \in Pointers(k) /\ k.table # <<>>
  /\ \A i \in 1..Len(k.stateless) :
       /\ k.stateless[i].arg \in Pointers(k)
       /\ TableIndex(k, k.stateless[i].arg) \in 1..Len(k.table)
       /\ k.stateless[i].slot = k.table[TableIndex(k, k.stateless[i].arg)]
  /\ \A i, j \in 1..Len(k.table) : k.table[i] = k.table[j] => i = j
  /\ \A i, j \in 1..Len(Places(k)) :
       LET a == Places(k)[i] b == Places(k)[j]
       IN i = j \/ a[1] + a[2] <= b[1] \/ b[1] + b[2] <= a[1]

ASSUME BufferAssumption ==
  /\ Misaligned \subseteq Buffers /\ Empty \subseteq Buffers
  /\ Null \notin Buffers /\ Null \notin Names

VARIABLES
  pc, kernel,
  args,     \* I915PreparedKernelImpl::args
  outcome,  \* how the last call of the user ended
  surface,  \* base address in each surface state of the copied heap
  bound,    \* entries of the binding table that are bound
  pins,     \* arg_userptr_bos: memory the batch gets pinned
  moved,    \* arg_reloc_bos, each with the surface state it is written to
  turn,     \* turns of the two loops of build_cross_thread_data
  data,     \* cross-thread data: the bytes that were written
  patches,  \* indirect_data_relocs, each with the offset it is written to
  gem       \* handle -> name of the buffer object behind it

call == <<surface, bound, pins, moved, turn, data, patches>>
vars == <<pc, kernel, args, outcome, call, gem>>

IntArg == [type : IntTypes]
PtrArg == [type : {"ptr"}, buf : Buffers]
GemArg == [type : {"gem"}, handle : Handles, name : Names]

TypeOK ==
  /\ pc \in [Prepared -> {"idle", "bind", "cross", "list", "submit", "destroy",
                          "destroyed", "terminated"}]
  /\ kernel \in [Prepared -> Kernels]
  /\ args \in [Prepared -> Seq(IntArg \cup PtrArg \cup GemArg)]
  /\ bound \in [Prepared -> Nat]
  /\ \A p \in Prepared :
       /\ Len(args[p]) \in 0..Len(kernel[p].infos)
       /\ bound[p] \in 0..Len(kernel[p].table)
       /\ turn[p] \in 0..Len(kernel[p].params) + Len(kernel[p].stateless)
  /\ outcome \in [Prepared -> {"none", "ok", "throw"}]
  /\ surface \in [Prepared -> [Slots -> Buffers \cup {Null}]]
  /\ pins \in [Prepared -> SUBSET Buffers]
  /\ moved \in [Prepared -> SUBSET [handle : Handles, slot : Slots]]
  /\ patches \in [Prepared -> SUBSET [handle : Handles, at : Nat]]
  /\ gem \in [Handles -> Names \cup {Null}]

Fresh(p) ==
  /\ surface' = [surface EXCEPT ![p] = [s \in Slots |-> Null]]
  /\ bound' = [bound EXCEPT ![p] = 0]
  /\ pins' = [pins EXCEPT ![p] = {}]
  /\ moved' = [moved EXCEPT ![p] = {}]
  /\ turn' = [turn EXCEPT ![p] = 0]
  /\ data' = [data EXCEPT ![p] = <<>>]
  /\ patches' = [patches EXCEPT ![p] = {}]

Init ==
  /\ pc = [p \in Prepared |-> "idle"]
  /\ kernel \in [Prepared -> Kernels]
  /\ args = [p \in Prepared |-> <<>>]
  /\ outcome = [p \in Prepared |-> "none"]
  /\ surface = [p \in Prepared |-> [s \in Slots |-> Null]]
  /\ bound = [p \in Prepared |-> 0]
  /\ pins = [p \in Prepared |-> {}]
  /\ moved = [p \in Prepared |-> {}]
  /\ turn = [p \in Prepared |-> 0]
  /\ data = [p \in Prepared |-> <<>>]
  /\ patches = [p \in Prepared |-> {}]
  /\ gem = [h \in Handles |-> Null]

(* A call of the user that is over at once.                                *)
Return(p, o) ==
  /\ pc[p] = "idle"
  /\ outcome' = [outcome EXCEPT ![p] = o]
  /\ UNCHANGED <<pc, kernel, call>>

-----------------------------------------------------------------------------
(* add_argument and add_argument_gem_name                                  *)

(* Variant: the type is not compared.                                      *)
ExpectsAny(p, type) == Len(args[p]) < Len(kernel[p].infos)

(* The next parameter exists and has the given type.                       *)
Expects(p, type) ==
  /\ Len(args[p]) < Len(kernel[p].infos)
  /\ kernel[p].infos[Len(args[p]) + 1] = type

Bind(p, a) == Return(p, "ok") /\ args' = [args EXCEPT ![p] = Append(@, a)]
RefuseAdd(p) == Return(p, "throw") /\ UNCHANGED <<args, gem>>

(* Variant: only parameters that exist are compared with the argument.     *)
AddIntUnbounded(p) ==
  \E type \in IntTypes :
    IF Expects(p, type) \/ Len(args[p]) = Len(kernel[p].infos)
    THEN Bind(p, [type |-> type]) /\ UNCHANGED gem
    ELSE RefuseAdd(p)

AddInt(p) ==
  \E type \in IntTypes :
    IF Expects(p, type)
    THEN Bind(p, [type |-> type]) /\ UNCHANGED gem
    ELSE RefuseAdd(p)

(* KernelArgPtr::KernelArgPtr has its own check.                           *)
AddPointer(p) ==
  \E b \in Buffers :
    IF Expects(p, Pointer) /\ b \notin Misaligned
    THEN Bind(p, [type |-> "ptr", buf |-> b]) /\ UNCHANGED gem
    ELSE RefuseAdd(p)

(* Variant: the name is opened before the signature is looked at.          *)
OpenFirst(p) ==
  \E n \in Names, h \in {k \in Handles : gem[k] = Null} :
    /\ gem' = [gem EXCEPT ![h] = n]
    /\ IF Expects(p, Pointer)
       THEN Bind(p, [type |-> "gem", handle |-> h, name |-> n])
       ELSE Return(p, "throw") /\ UNCHANGED args

(* KernelArgGEMName::KernelArgGEMName opens the name.                      *)
AddGemName(p) ==
  /\ Expects(p, Pointer)
  /\ \E n \in Names, h \in {k \in Handles : gem[k] = Null} :
       /\ gem' = [gem EXCEPT ![h] = n]
       /\ Bind(p, [type |-> "gem", handle |-> h, name |-> n])

(* No pointer is expected, or gem_open fails.                              *)
AddGemNameFails(p) == RefuseAdd(p)

-----------------------------------------------------------------------------
(* I915PreparedKernelImpl::execute                                         *)

Go(p, from, to) ==
  /\ pc[p] = from
  /\ pc' = [pc EXCEPT ![p] = to]
  /\ UNCHANGED <<kernel, args, gem>>

(* A throw gives up the locals of the call and leaves the arguments.       *)
Throw(p, from) ==
  /\ Go(p, from, "idle")
  /\ Fresh(p)
  /\ outcome' = [outcome EXCEPT ![p] = "throw"]

Start(p) ==
  /\ Len(args[p]) = Len(kernel[p].infos)
  /\ Go(p, "idle", "bind")
  /\ outcome' = [outcome EXCEPT ![p] = "none"]
  /\ Fresh(p)

StartRefused(p) ==
  /\ Len(args[p]) # Len(kernel[p].infos)
  /\ Return(p, "throw")
  /\ UNCHANGED <<args, gem>>

BufferArgs(p) == {i \in 1..Len(args[p]) : IsBuffer(args[p][i])}
CountMatches(p) ==
  kernel[p].table # <<>> => Cardinality(BufferArgs(p)) = Len(kernel[p].table)

(* The argument the iterator of the loop over the table comes to.          *)
NextBuffer(p) ==
  CHOOSE i \in BufferArgs(p) : Cardinality({j \in BufferArgs(p) : j < i}) = bound[p]

(* One turn of that loop.  A named object is put in place by a relocation  *)
(* of the base address in its surface state.                               *)
BindEntry(p) ==
  /\ CountMatches(p)
  /\ bound[p] < Len(kernel[p].table)
  /\ LET a == args[p][NextBuffer(p)]
         s == kernel[p].table[bound[p] + 1]
     IN IF a.type = "ptr"
        THEN /\ a.buf \notin Empty
             /\ surface' = [surface EXCEPT ![p][s] = a.buf]
             /\ pins' = [pins EXCEPT ![p] = @ \cup {a.buf}]
             /\ UNCHANGED moved
        ELSE /\ surface' = [surface EXCEPT ![p][s] = Null]
             /\ moved' = [moved EXCEPT ![p] = @ \cup {[handle |-> a.handle, slot |-> s]}]
             /\ UNCHANGED pins
  /\ bound' = [bound EXCEPT ![p] = @ + 1]
  /\ Go(p, "bind", "bind")
  /\ UNCHANGED <<outcome, turn, data, patches>>

(* The table is shorter or longer than the list of buffers, a buffer is    *)
(* empty, or its buffer object cannot be made.                             *)
BindFails(p) ==
  /\ ~CountMatches(p) \/ bound[p] < Len(kernel[p].table)
  /\ Throw(p, "bind")

Bound(p) ==
  /\ CountMatches(p)
  /\ bound[p] = Len(kernel[p].table)
  /\ Go(p, "bind", "cross")
  /\ UNCHANGED <<outcome, call>>

(* set_param, at the end of a turn.                                        *)
SetParam(p, at, width, value) ==
  /\ width <= 8 /\ at + width <= kernel[p].capacity
  /\ data' = [data EXCEPT ![p] = Copied(@, at, width, value)]
  /\ turn' = [turn EXCEPT ![p] = @ + 1]
  /\ Go(p, "cross", "cross")
  /\ UNCHANGED <<outcome, surface, bound, pins, moved>>

AddParameter(p) ==
  /\ turn[p] < Len(kernel[p].params)
  /\ LET q == kernel[p].params[turn[p] + 1]
     IN /\ ParameterOk(q, args[p])
        /\ SetParam(p, q.at, q.width, ParameterValue(q, args[p]))
  /\ UNCHANGED patches

AddObject(p) ==
  LET n == turn[p] - Len(kernel[p].params) + 1
      s == kernel[p].stateless[n]
  IN /\ n \in 1..Len(kernel[p].stateless)
     /\ ObjectOk(s, args[p])
     /\ SetParam(p, s.at, s.width, ObjectValue(s, args[p], surface[p]))
     /\ patches' = IF ByName(s, args[p])
                   THEN [patches EXCEPT ![p] =
                           @ \cup {[handle |-> args[p][s.arg].handle, at |-> s.at]}]
                   ELSE patches

CrossThreadDataBuilt(p) ==
  /\ turn[p] = Len(kernel[p].params) + Len(kernel[p].stateless)
  /\ Go(p, "cross", "list")
  /\ UNCHANGED <<outcome, call>>

(* build_cross_thread_data throws, or another check of execute between the *)
(* arguments and the submission.                                           *)
Reject(p) == Throw(p, "cross")

(* The handles of the list for EXECBUFFER2 that arguments contribute.      *)
ListedHandles(p) == {m.handle : m \in moved[p]}

(* Variant: relocation targets are not looked for in the list.             *)
BuildListUnchecked(p) ==
  /\ Go(p, "list", "submit")
  /\ UNCHANGED <<outcome, call>>

BuildList(p) ==
  /\ \A r \in patches[p] : r.handle \in ListedHandles(p)
  /\ Go(p, "list", "submit")
  /\ UNCHANGED <<outcome, call>>

BuildListFails(p) ==
  /\ \E r \in patches[p] : r.handle \notin ListedHandles(p)
  /\ Throw(p, "list")

(* The batch is submitted and waited for, see Execute.                     *)
Finish(p) ==
  /\ Go(p, "submit", "idle")
  /\ \E o \in {"ok", "throw"} : outcome' = [outcome EXCEPT ![p] = o]
  /\ Fresh(p)

-----------------------------------------------------------------------------
(* I915PreparedKernelImpl::~I915PreparedKernelImpl                         *)

Destroy(p) ==
  /\ Go(p, "idle", "destroy")
  /\ UNCHANGED <<outcome, call>>

(* An argument is destroyed; KernelArgGEMName closes its handle, and       *)
(* gem_close throws out of the destructor when the handle is not open.     *)
DestroyArg(p) ==
  /\ pc[p] = "destroy"
  /\ args[p] # <<>>
  /\ LET a == Head(args[p])
     IN IF a.type = "gem"
        THEN /\ gem' = [gem EXCEPT ![a.handle] = Null]
             /\ pc' = IF gem[a.handle] = Null THEN [pc EXCEPT ![p] = "terminated"] ELSE pc
        ELSE UNCHANGED <<gem, pc>>
  /\ args' = [args EXCEPT ![p] = Tail(@)]
  /\ UNCHANGED <<kernel, outcome, call>>

Destroyed(p) ==
  /\ args[p] = <<>>
  /\ Go(p, "destroy", "destroyed")
  /\ UNCHANGED <<outcome, call>>

(* prepare_kernel: a new prepared kernel takes the place of the old one.   *)
Prepare(p) ==
  /\ pc[p] = "destroyed"
  /\ pc' = [pc EXCEPT ![p] = "idle"]
  /\ outcome' = [outcome EXCEPT ![p] = "none"]
  /\ UNCHANGED <<kernel, args, call, gem>>

-----------------------------------------------------------------------------
Step(p) ==
  \/ AddInt(p) \/ AddPointer(p) \/ AddGemName(p) \/ AddGemNameFails(p)
  \/ Start(p) \/ StartRefused(p)
  \/ BindEntry(p) \/ BindFails(p) \/ Bound(p)
  \/ AddParameter(p) \/ AddObject(p) \/ CrossThreadDataBuilt(p) \/ Reject(p)
  \/ BuildList(p) \/ BuildListFails(p) \/ Finish(p)
  \/ Destroy(p) \/ DestroyArg(p) \/ Destroyed(p) \/ Prepare(p)

Next == \E p \in Prepared : Step(p)

Spec == Init /\ [][Next]_vars

-----------------------------------------------------------------------------
(* The open handles are those of the arguments given by name, one each,    *)
(* and refer to the object that was named: neither a refused argument, nor *)
(* a failed execute, nor the destruction of another prepared kernel leaks  *)
(* or takes one.                                                           *)
Bindings == UNION {{p} \X DOMAIN args[p] : p \in Prepared}
Owners(h) ==
  {o \in Bindings : LET a == args[o[1]][o[2]] IN a.type = "gem" /\ a.handle = h}

HandlesOwned ==
  \A h \in Handles :
    /\ gem[h] # Null => Cardinality(Owners(h)) = 1
    /\ \A o \in Owners(h) : gem[h] = args[o[1]][o[2]].name

(* A kernel on the GPU finds at the place of each of its parameters the    *)
(* value that parameter stands for: the whole of a scalar argument, with   *)
(* its sign; the size of the work group; and for a pointer an entry of the *)
(* binding table, or an address, that leads to the buffer bound to it,     *)
(* which the batch has pinned or relocated.  Nothing is written outside of *)
(* the data.  (The loop of execute over the table and                      *)
(* build_cross_thread_data count buffers independently.)                   *)
Reaches(p, slot, a) ==
  IF a.type = "ptr"
  THEN surface[p][slot] = a.buf /\ a.buf \in pins[p]
  ELSE surface[p][slot] = Null
       /\ {m.handle : m \in {n \in moved[p] : n.slot = slot}} = {a.handle}

Finds(p, at, width, value) == \A k \in 0..width - 1 : data[p][at + k] = value[k]

ParameterHolds(p, q) ==
  CASE q.kind = "offset" -> Finds(p, q.at, q.width, Word64(Zero))
    [] q.kind \in {"local", "enqueued"} ->
         Finds(p, q.at, q.width, Extended(<<"local", q.dim>>, 4, FALSE))
    [] q.kind = "argument" ->
         LET type == kernel[p].infos[q.arg]
         IN /\ q.width >= SizeOf(type)
            /\ Finds(p, q.at, q.width, Extended(<<"arg", q.arg>>, SizeOf(type), Signed(type)))
    [] q.kind = "stateful" ->
         \E n \in 1..Len(kernel[p].table) :
           /\ Finds(p, q.at, q.width, Extended(<<"entry", n - 1>>, 4, FALSE))
           /\ Reaches(p, kernel[p].table[n], args[p][q.arg])

ObjectHolds(p, s) ==
  LET a == args[p][s.arg]
  IN IF a.type = "ptr"
     THEN Finds(p, s.at, 8, Word64(<<"buffer", a.buf>>)) /\ a.buf \in pins[p]
     ELSE [handle |-> a.handle, at |-> s.at] \in patches[p]

ParametersReachArguments ==
  \A p \in Prepared : pc[p] = "submit" =>
    LET k == kernel[p]
    IN /\ DOMAIN data[p] \subseteq 0..k.capacity - 1
       /\ Consistent(k) =>
            /\ \A i \in 1..Len(k.params) : ParameterHolds(p, k.params[i])
            /\ \A i \in 1..Len(k.stateless) : ObjectHolds(p, k.stateless[i])

(* Every relocation the kernel driver is asked for names a handle that is  *)
(* open and in the list of the batch.                                      *)
RelocationsResolve ==
  \A p \in Prepared : pc[p] = "submit" =>
    \A r \in patches[p] \cup moved[p] :
      r.handle \in ListedHandles(p) /\ gem[r.handle] # Null

(* Scalars are handed over with the type the kernel declares: a kernel     *)
(* that is submitted has an argument of the declared type everywhere.      *)
ArgumentsMatchSignature ==
  \A p \in Prepared : pc[p] = "submit" =>
    \A i \in 1..Len(kernel[p].infos) :
      args[p][i].type \in (IF kernel[p].infos[i] = Pointer THEN {"ptr", "gem"}
                           ELSE {kernel[p].infos[i]})
=============================================================================
