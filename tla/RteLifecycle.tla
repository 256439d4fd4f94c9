---------------------------- MODULE RteLifecycle -----------------------------
(***************************************************************************)
(* Construction and destruction of runtime environments (I915RTEImpl) by   *)
(* several threads of one process, next to code that opens and closes      *)
(* files of its own.                                                       *)
(*                                                                         *)
(* A constructor opens the DRM device, asks it for its capabilities, tries *)
(* out a mapping with a throw-away buffer object, and creates an address   *)
(* space and a context bound to it.  Whatever fails, what exists already is*)
(* given back on the way out.  File descriptors belong to the process and  *)
(* are used again as soon as they are closed; identifiers of contexts,     *)
(* address spaces and buffer objects belong to an open file and die with it*)
(***************************************************************************)
EXTENDS Integers, FiniteSets

CONSTANTS
  Rtes,   \* runtime environments, each constructed by a thread of its own
  Fds,    \* file descriptors of the process
  Ids,    \* identifiers the driver hands out within one open file
  None

ASSUME RteAssumption == None \notin Fds /\ None \notin Ids

VARIABLES
  pc,     \* where each constructor or destructor is
  fd, vm, ctx,  \* I915RTEImpl::fd, vm_id and ctx_id
  probe,  \* the handle in gem_supports_wc_mmap
  opened, \* open file descriptors of the process
  other,  \* those that belong to the rest of the program
  vms, ctxs, bos,  \* per file descriptor: what exists in the open file
  vmOf    \* per file descriptor: the address space of each context

objects == <<vms, ctxs, bos, vmOf>>
vars == <<pc, fd, vm, ctx, probe, opened, other, objects>>

Locations ==
  {"none", "query", "probe", "mmap", "params", "vm", "ctx", "setvm", "ready",
   "undo_ctx", "undo_vm", "close", "failed",
   "destroy_vm", "destroy_fd", "gone", "terminated"}

(* Where the object, or its constructor, holds an open device.             *)
Live == Locations \ {"none", "failed", "gone"}

TypeOK ==
  /\ pc \in [Rtes -> Locations]
  /\ fd \in [Rtes -> Fds \cup {None}]
  /\ vm \in [Rtes -> Ids \cup {None}]
  /\ ctx \in [Rtes -> Ids \cup {None}]
  /\ probe \in [Rtes -> Ids \cup {None}]
  /\ opened \subseteq Fds
  /\ other \subseteq Fds
  /\ vms \in [Fds -> SUBSET Ids]
  /\ ctxs \in [Fds -> SUBSET Ids]
  /\ bos \in [Fds -> SUBSET Ids]
  /\ vmOf \in [Fds -> [Ids -> Ids \cup {None}]]
  /\ \A r \in Rtes : pc[r] \in Live => fd[r] \in Fds

Init ==
  /\ pc = [r \in Rtes |-> "none"]
  /\ fd = [r \in Rtes |-> None]
  /\ vm = [r \in Rtes |-> None]
  /\ ctx = [r \in Rtes |-> None]
  /\ probe = [r \in Rtes |-> None]
  /\ opened = {}
  /\ other = {}
  /\ vms = [f \in Fds |-> {}]
  /\ ctxs = [f \in Fds |-> {}]
  /\ bos = [f \in Fds |-> {}]
  /\ vmOf = [f \in Fds |-> [i \in Ids |-> None]]

Go(r, from, to) == pc[r] = from /\ pc' = [pc EXCEPT ![r] = to]

(* The last close of a file takes everything in it away.                   *)
CloseFile(f) ==
  /\ opened' = opened \ {f}
  /\ other' = other \ {f}
  /\ vms' = [vms EXCEPT ![f] = {}]
  /\ ctxs' = [ctxs EXCEPT ![f] = {}]
  /\ bos' = [bos EXCEPT ![f] = {}]
  /\ vmOf' = [vmOf EXCEPT ![f] = [i \in Ids |-> None]]

-----------------------------------------------------------------------------
(* I915RTEImpl::I915RTEImpl                                                *)

(* Variant: the result of open is not looked at.                           *)
OpenUnchecked(r) ==
  /\ Go(r, "none", "query")
  /\ \/ \E f \in Fds \ opened : fd' = [fd EXCEPT ![r] = f] /\ opened' = opened \cup {f}
     \/ fd' = [fd EXCEPT ![r] = None] /\ UNCHANGED opened
  /\ UNCHANGED <<vm, ctx, probe, other, objects>>

Open(r) ==
  /\ Go(r, "none", "query")
  /\ \E f \in Fds \ opened : fd' = [fd EXCEPT ![r] = f] /\ opened' = opened \cup {f}
  /\ UNCHANGED <<vm, ctx, probe, other, objects>>

(* The page size is not 4096, or open fails: nothing to undo.              *)
OpenFails(r) ==
  /\ Go(r, "none", "failed")
  /\ UNCHANGED <<fd, vm, ctx, probe, opened, other, objects>>

(* Driver version, device info and generation.                             *)
Query(r) ==
  /\ Go(r, "query", "probe") \/ Go(r, "query", "close")
  /\ UNCHANGED <<fd, vm, ctx, probe, opened, other, objects>>

(* gem_supports_wc_mmap up to gem_create.                                  *)
ProbeCreate(r) ==
  /\ Go(r, "probe", "mmap")
  /\ \E h \in Ids \ bos[fd[r]] :
       /\ bos' = [bos EXCEPT ![fd[r]] = @ \cup {h}]
       /\ probe' = [probe EXCEPT ![r] = h]
  /\ UNCHANGED <<fd, vm, ctx, opened, other, vms, ctxs, vmOf>>

ProbeFails(r) ==
  /\ Go(r, "probe", "close")
  /\ UNCHANGED <<fd, vm, ctx, probe, opened, other, objects>>

(* Variant: the buffer is not closed when munmap fails.                    *)
ProbeKeepsBuffer(r) ==
  /\ \/ /\ Go(r, "mmap", "params")
        /\ bos' = [bos EXCEPT ![fd[r]] = @ \ {probe[r]}]
     \/ /\ Go(r, "mmap", "close")
        /\ UNCHANGED bos
  /\ UNCHANGED <<fd, vm, ctx, probe, opened, other, vms, ctxs, vmOf>>

(* The mapping is made and removed, or cannot be; either way, and when     *)
(* munmap fails, the buffer is closed.                                     *)
ProbeMmap(r) ==
  /\ Go(r, "mmap", "params") \/ Go(r, "mmap", "close")
  /\ bos' = [bos EXCEPT ![fd[r]] = @ \ {probe[r]}]
  /\ UNCHANGED <<fd, vm, ctx, probe, opened, other, vms, ctxs, vmOf>>

(* EXECBUFFER2, NO_RELOC and, where EINVAL is an answer, USERPTR_PROBE.    *)
CheckParams(r) ==
  /\ Go(r, "params", "vm") \/ Go(r, "params", "close")
  /\ UNCHANGED <<fd, vm, ctx, probe, opened, other, objects>>

CreateVm(r) ==
  /\ Go(r, "vm", "ctx")
  /\ \E v \in Ids \ vms[fd[r]] :
       /\ vms' = [vms EXCEPT ![fd[r]] = @ \cup {v}]
       /\ vm' = [vm EXCEPT ![r] = v]
  /\ UNCHANGED <<fd, ctx, probe, opened, other, ctxs, bos, vmOf>>

CreateVmFails(r) ==
  /\ Go(r, "vm", "close")
  /\ UNCHANGED <<fd, vm, ctx, probe, opened, other, objects>>

CreateContext(r) ==
  /\ Go(r, "ctx", "setvm")
  /\ \E c \in Ids \ ctxs[fd[r]] :
       /\ ctxs' = [ctxs EXCEPT ![fd[r]] = @ \cup {c}]
       /\ ctx' = [ctx EXCEPT ![r] = c]
  /\ UNCHANGED <<fd, vm, probe, opened, other, vms, bos, vmOf>>

CreateContextFails(r) ==
  /\ Go(r, "ctx", "undo_vm")
  /\ UNCHANGED <<fd, vm, ctx, probe, opened, other, objects>>

SetVm(r) ==
  /\ Go(r, "setvm", "ready")
  /\ ctx[r] \in ctxs[fd[r]] /\ vm[r] \in vms[fd[r]]
  /\ vmOf' = [vmOf EXCEPT ![fd[r]][ctx[r]] = vm[r]]
  /\ UNCHANGED <<fd, vm, ctx, probe, opened, other, vms, ctxs, bos>>

SetVmFails(r) ==
  /\ Go(r, "setvm", "undo_ctx")
  /\ UNCHANGED <<fd, vm, ctx, probe, opened, other, objects>>

(* Variant: the handler does not throw on.                                 *)
UndoContextSwallows(r) ==
  /\ Go(r, "undo_ctx", "ready")
  /\ ctxs' = [ctxs EXCEPT ![fd[r]] = @ \ {ctx[r]}]
  /\ UNCHANGED <<fd, vm, ctx, probe, opened, other, vms, bos, vmOf>>

(* Should gem_context_destroy throw in the handler, the next handler out   *)
(* catches that exception as it would have caught the first one.           *)
UndoContext(r) ==
  /\ Go(r, "undo_ctx", "undo_vm")
  /\ ctxs' = [ctxs EXCEPT ![fd[r]] = @ \ {ctx[r]}]
  /\ UNCHANGED <<fd, vm, ctx, probe, opened, other, vms, bos, vmOf>>

(* Variant: this handler closes the device, and the next one does so again.*)
UndoVmAndClose(r) ==
  /\ Go(r, "undo_vm", "close")
  /\ CloseFile(fd[r])
  /\ UNCHANGED <<fd, vm, ctx, probe>>

UndoVm(r) ==
  /\ Go(r, "undo_vm", "close")
  /\ vms' = [vms EXCEPT ![fd[r]] = @ \ {vm[r]}]
  /\ UNCHANGED <<fd, vm, ctx, probe, opened, other, ctxs, bos, vmOf>>

UndoOpen(r) ==
  /\ Go(r, "close", "failed")
  /\ CloseFile(fd[r])
  /\ UNCHANGED <<fd, vm, ctx, probe>>

-----------------------------------------------------------------------------
(* I915RTEImpl::~I915RTEImpl: an ioctl on an identifier that does not      *)
(* exist fails, and an exception out of a destructor ends the process.     *)
DestroyContext(r) ==
  /\ pc[r] = "ready"
  /\ pc' = [pc EXCEPT ![r] = IF ctx[r] \in ctxs[fd[r]] THEN "destroy_vm" ELSE "terminated"]
  /\ ctxs' = [ctxs EXCEPT ![fd[r]] = @ \ {ctx[r]}]
  /\ UNCHANGED <<fd, vm, ctx, probe, opened, other, vms, bos, vmOf>>

DestroyVm(r) ==
  /\ pc[r] = "destroy_vm"
  /\ pc' = [pc EXCEPT ![r] = IF vm[r] \in vms[fd[r]] THEN "destroy_fd" ELSE "terminated"]
  /\ vms' = [vms EXCEPT ![fd[r]] = @ \ {vm[r]}]
  /\ UNCHANGED <<fd, vm, ctx, probe, opened, other, ctxs, bos, vmOf>>

DestroyFd(r) ==
  /\ Go(r, "destroy_fd", "gone")
  /\ CloseFile(fd[r])
  /\ UNCHANGED <<fd, vm, ctx, probe>>

(* A new object takes the place of one that is no more.                    *)
Again(r) ==
  /\ Go(r, "failed", "none") \/ Go(r, "gone", "none")
  /\ fd' = [fd EXCEPT ![r] = None]
  /\ vm' = [vm EXCEPT ![r] = None]
  /\ ctx' = [ctx EXCEPT ![r] = None]
  /\ probe' = [probe EXCEPT ![r] = None]
  /\ UNCHANGED <<opened, other, objects>>

-----------------------------------------------------------------------------
(* The rest of the program.                                                *)
OtherOpens ==
  /\ \E f \in Fds \ opened : opened' = opened \cup {f} /\ other' = other \cup {f}
  /\ UNCHANGED <<pc, fd, vm, ctx, probe, objects>>

OtherCloses ==
  /\ \E f \in other : CloseFile(f)
  /\ UNCHANGED <<pc, fd, vm, ctx, probe>>

-----------------------------------------------------------------------------
Construct(r) ==
  \/ Open(r) \/ OpenFails(r)
  \/ Query(r) \/ ProbeCreate(r) \/ ProbeFails(r) \/ ProbeMmap(r) \/ CheckParams(r)
  \/ CreateVm(r) \/ CreateVmFails(r)
  \/ CreateContext(r) \/ CreateContextFails(r)
  \/ SetVm(r) \/ SetVmFails(r)
  \/ UndoContext(r) \/ UndoVm(r) \/ UndoOpen(r)

Destroy(r) == DestroyContext(r) \/ DestroyVm(r) \/ DestroyFd(r)

Next ==
  \/ \E r \in Rtes : Construct(r) \/ Destroy(r) \/ Again(r)
  \/ OtherOpens \/ OtherCloses

Spec == Init /\ [][Next]_vars

-----------------------------------------------------------------------------
(* Every open file descriptor has exactly one owner, a runtime environment *)
(* that exists or is under construction or destruction, or the rest of the *)
(* program, and no owner has lost its own: a constructor that threw and a  *)
(* destructor that ran leave no descriptor open and close no other one, in *)
(* whichever order the threads run.                                        *)
Holders(f) == {r \in Rtes : pc[r] \in Live /\ fd[r] = f}

FdOwned ==
  /\ other \subseteq opened
  /\ \A r \in Rtes : pc[r] \in Live => fd[r] \in opened
  /\ \A f \in opened :
       IF f \in other THEN Holders(f) = {}
       ELSE \E r \in Rtes : Holders(f) = {r}

(* A runtime environment that is handed to the user has its context, bound *)
(* to its address space, and nothing else.  On whichever way the mapping   *)
(* test was left (gem_supports_wc_mmap), its buffer is closed then, and    *)
(* not only with the device; and the handlers have given back the context  *)
(* and the address space when they come to close the device.               *)
ReadyIsWhole ==
  \A r \in Rtes :
    /\ pc[r] = "ready" =>
         /\ vms[fd[r]] = {vm[r]} /\ ctxs[fd[r]] = {ctx[r]}
         /\ vmOf[fd[r]][ctx[r]] = vm[r]
    /\ pc[r] \in Live \ {"mmap"} => bos[fd[r]] = {}
    /\ pc[r] \in {"close", "destroy_fd"} => vms[fd[r]] = {} /\ ctxs[fd[r]] = {}

(* The destructor never throws, which would end the process.               *)
DestructorNeverThrows == \A r \in Rtes : pc[r] # "terminated"

(* No step of another thread takes away what a runtime environment in use  *)
(* needs.                                                                  *)
InUse(r) == <<fd[r], vm[r], ctx[r], vms[fd[r]], ctxs[fd[r]], vmOf[fd[r]]>>

ReadyUndisturbed ==
  [][\A r \in Rtes : pc[r] = "ready" /\ pc'[r] = "ready" => InUse(r)' = InUse(r)]_vars
-----------------------------------------------------------------------------
(***************************************************************************)
(* The strengthening that makes the invariants above inductive.            *)
(***************************************************************************)

(* FdOwned, said descriptor by descriptor.                                 *)
OneOwner ==
  /\ other \subseteq opened
  /\ \A r \in Rtes : pc[r] \in Live => fd[r] \in opened \ other
  /\ \A r, s \in Rtes :
       (pc[r] \in Live /\ pc[s] \in Live /\ fd[r] = fd[s]) => r = s
  /\ \A f \in opened \ other : \E r \in Rtes : pc[r] \in Live /\ fd[r] = f

(* What exists in the file of an object at each point.                     *)
Holds(r, V, C, B) == vms[fd[r]] = V /\ ctxs[fd[r]] = C /\ bos[fd[r]] = B

Contents(r) ==
  /\ pc[r] \in {"query", "probe", "params", "vm", "close", "destroy_fd"} =>
       Holds(r, {}, {}, {})
  /\ pc[r] = "mmap" => Holds(r, {}, {}, {probe[r]})
  /\ pc[r] \in {"ctx", "undo_vm", "destroy_vm"} => Holds(r, {vm[r]}, {}, {})
  /\ pc[r] \in {"setvm", "undo_ctx", "ready"} => Holds(r, {vm[r]}, {ctx[r]}, {})
  /\ pc[r] = "ready" => vmOf[fd[r]][ctx[r]] = vm[r]

(* A file that is not open contains nothing.                               *)
ClosedIsEmpty ==
  \A f \in Fds \ opened : vms[f] = {} /\ ctxs[f] = {} /\ bos[f] = {}

IInv ==
  /\ TypeOK
  /\ OneOwner
  /\ \A r \in Rtes : Contents(r)
  /\ ClosedIsEmpty
  /\ DestructorNeverThrows
=============================================================================
