------------------------------- MODULE Execute -------------------------------
(***************************************************************************)
(* Concurrent calls of I915PreparedKernelImpl::execute on one runtime      *)
(* environment (one DRM file descriptor, one hardware context), from the   *)
(* entry of the call to its return or to the exception that leaves it.     *)
(*                                                                         *)
(* A call builds a fixed sequence of buffer objects (an I915UserptrBo each:*)
(* memory of the process plus a GEM handle on it), zeroes the              *)
(* synchronisation word in the first word of gp_bo, submits one batch,     *)
(* waits for it with a 500 ms limit, polls the synchronisation word and    *)
(* destroys the buffer objects.  Every exception unwinds through the same  *)
(* destructors.  The GPU runs the batches of the context in submission     *)
(* order; the last command of a batch writes 1 into its gp_bo.             *)
(*                                                                         *)
(* What is inside the buffers (commands, surface state, thread payload) is *)
(* abstracted: only the synchronisation word has a value.                  *)
(***************************************************************************)
EXTENDS Integers, Sequences, FiniteSets

CONSTANTS
  Callers,      \* threads that call execute
  Order,        \* names of the buffer objects of a call, in construction order
  ArgBos,       \* those that wrap a buffer of the user (arg_userptr_bos)
  CheckedBos,   \* those whose construction is preceded by checks that throw
  Pages,        \* blocks the C allocator can hand out
  UserBuf,      \* the user's buffer behind each member of ArgBos
  Handles,      \* GEM handles of the file descriptor
  PagesFrom(_),   \* which of the free blocks aligned_alloc may return
  HandlesFrom(_), \* which of the free handles the kernel may hand out
  None,
  Garbage,      \* what the first word of a fresh block may hold
  MayHang,      \* can the GPU hang, so that the kernel resets it?
  MaxCalls      \* bound on the calls one caller makes

Bos == {Order[i] : i \in 1..Len(Order)}
Blocks == Pages \cup {UserBuf[b] : b \in ArgBos}

ASSUME OrderAssumption ==
  /\ Order \in Seq(STRING)
  /\ \A i, j \in 1..Len(Order) : Order[i] = Order[j] => i = j
  /\ "gp" \in Bos /\ "gp" \notin ArgBos
  /\ ArgBos \subseteq Bos /\ CheckedBos \subseteq Bos

(* The user's buffers are the members of one list, and no other buffer     *)
(* object is constructed between two of them.                              *)
ASSUME ListAssumption ==
  \A i, j, k \in 1..Len(Order) :
    i < j /\ j < k /\ Order[i] \in ArgBos /\ Order[k] \in ArgBos => Order[j] \in ArgBos

ASSUME MemoryAssumption ==
  /\ DOMAIN UserBuf = ArgBos
  /\ \A b \in ArgBos : UserBuf[b] \notin Pages
  /\ None \notin Blocks /\ None \notin Handles

ASSUME PolicyAssumption ==
  /\ \A S \in SUBSET Pages : PagesFrom(S) \subseteq S
  /\ \A S \in SUBSET Handles : HandlesFrom(S) \subseteq S

ASSUME BoundAssumption ==
  MaxCalls \in Nat /\ MayHang \in BOOLEAN /\ Garbage \subseteq {0, 1}

VARIABLES
  pc,       \* where each caller is in execute
  at,       \* index in Order of the buffer object under construction
  hdl,      \* I915UserptrBo::_handle of each live buffer object of a caller
  mem,      \* I915UserptrBo::_ptr, from aligned_alloc on
  outcome,  \* how the last call of a caller ended
  myjob,    \* the batch the current or last call submitted, 0 for none
  calls,    \* calls made so far
  heap,     \* blocks allocated and not yet freed
  word,     \* first word of each block
  gem,      \* the kernel's handle table: handle -> block behind it
  jobs,     \* batches in submission order
  written,  \* batches whose last command, the write to gp_bo, was executed
  gpu,      \* number of batches that have left the GPU
  faults    \* the rare events that have happened

queue == <<jobs, written, gpu>>
local == <<pc, at, hdl, mem, outcome, myjob, calls>>
vars == <<local, heap, word, gem, queue, faults>>

Locations == {"idle", "build", "register", "ready", "submit", "wait", "poll",
              "unwind", "terminated"}
Holding == {"ready", "submit", "wait", "poll"}

TypeOK ==
  /\ pc \in [Callers -> Locations]
  /\ at \in [Callers -> 1..Len(Order)]
  /\ hdl \in [Callers -> [Bos -> Handles \cup {None}]]
  /\ mem \in [Callers -> [Bos -> Blocks \cup {None}]]
  /\ outcome \in [Callers -> {"none", "ok", "throw"}]
  /\ myjob \in [Callers -> Nat]
  /\ calls \in [Callers -> Nat]
  /\ heap \subseteq Pages
  /\ word \in [Blocks -> {0, 1}]
  /\ gem \in [Handles -> Blocks \cup {None}]
  /\ jobs \in Seq([gp : Blocks \cup {None},
                 pins : SUBSET (Blocks \cup {None})])
  /\ written \subseteq 1..Len(jobs)
  /\ gpu \in 0..Len(jobs)
  /\ faults \subseteq {"timeout", "hang"}

(***************************************************************************)
(* Memory from aligned_alloc is not cleared: the synchronisation word may  *)
(* hold anything before the call writes it.                                *)
(***************************************************************************)
Init ==
  /\ pc = [t \in Callers |-> "idle"]
  /\ at = [t \in Callers |-> 1]
  /\ hdl = [t \in Callers |-> [b \in Bos |-> None]]
  /\ mem = [t \in Callers |-> [b \in Bos |-> None]]
  /\ outcome = [t \in Callers |-> "none"]
  /\ myjob = [t \in Callers |-> 0]
  /\ calls = [t \in Callers |-> 0]
  /\ heap = {}
  /\ word \in [Blocks -> Garbage]
  /\ gem = [h \in Handles |-> None]
  /\ jobs = <<>>
  /\ written = {}
  /\ gpu = 0
  /\ faults = {}

Bo(t) == Order[at[t]]
Live(t) == {b \in Bos : hdl[t][b] # None}
InFlight == (gpu + 1)..Len(jobs)

-----------------------------------------------------------------------------
(* Entering the call and throwing from it *)

(* The checks before the first buffer object hold nothing: they are the    *)
(* rejection at index 1.                                                   *)
Enter(t) ==
  /\ pc[t] = "idle"
  /\ calls[t] < MaxCalls
  /\ pc' = [pc EXCEPT ![t] = "build"]
  /\ at' = [at EXCEPT ![t] = 1]
  /\ outcome' = [outcome EXCEPT ![t] = "none"]
  /\ myjob' = [myjob EXCEPT ![t] = 0]
  /\ calls' = [calls EXCEPT ![t] = @ + 1]
  /\ UNCHANGED <<hdl, mem, heap, word, gem, queue, faults>>

(* An exception from location l: the destructors of what was built follow. *)
Throw(t, l) ==
  /\ pc[t] = l
  /\ pc' = [pc EXCEPT ![t] = "unwind"]
  /\ outcome' = [outcome EXCEPT ![t] = "throw"]
  /\ UNCHANGED <<at, myjob, calls>>

(* One of the checks ahead of the next buffer object throws.               *)
Reject(t) ==
  /\ Throw(t, "build")
  /\ Bo(t) \in CheckedBos
  /\ UNCHANGED <<hdl, mem, heap, word, gem, queue, faults>>

-----------------------------------------------------------------------------
(* I915UserptrBo::I915UserptrBo *)

AllocMem(t) ==
  /\ pc[t] = "build"
  /\ Bo(t) \notin ArgBos
  /\ \E p \in PagesFrom(Pages \ heap) :
       /\ heap' = heap \cup {p}
       /\ mem' = [mem EXCEPT ![t][Bo(t)] = p]
  /\ pc' = [pc EXCEPT ![t] = "register"]
  /\ UNCHANGED <<at, hdl, outcome, myjob, calls, word, gem, queue, faults>>

AllocMemFails(t) ==
  /\ Throw(t, "build")
  /\ Bo(t) \notin ArgBos
  /\ UNCHANGED <<hdl, mem, heap, word, gem, queue, faults>>

(* The second constructor takes the pointer of the kernel argument.        *)
UseUserMem(t) ==
  /\ pc[t] = "build"
  /\ Bo(t) \in ArgBos
  /\ mem' = [mem EXCEPT ![t][Bo(t)] = UserBuf[Bo(t)]]
  /\ pc' = [pc EXCEPT ![t] = "register"]
  /\ UNCHANGED <<at, hdl, outcome, myjob, calls, heap, word, gem, queue, faults>>

(* Variant: construction goes on after the last buffer object.             *)
RegisterForEver(t) ==
  /\ pc[t] = "register"
  /\ \E h \in HandlesFrom({k \in Handles : gem[k] = None}) :
       /\ gem' = [gem EXCEPT ![h] = mem[t][Bo(t)]]
       /\ hdl' = [hdl EXCEPT ![t][Bo(t)] = h]
  /\ pc' = [pc EXCEPT ![t] = "build"]
  /\ at' = [at EXCEPT ![t] = @ + 1]
  /\ UNCHANGED <<mem, outcome, myjob, calls, heap, word, queue, faults>>

(* gem_userptr: the kernel hands out a handle that is not in use.           *)
Register(t) ==
  /\ pc[t] = "register"
  /\ \E h \in HandlesFrom({k \in Handles : gem[k] = None}) :
       /\ gem' = [gem EXCEPT ![h] = mem[t][Bo(t)]]
       /\ hdl' = [hdl EXCEPT ![t][Bo(t)] = h]
  /\ IF at[t] = Len(Order)
     THEN /\ pc' = [pc EXCEPT ![t] = "ready"]
          /\ UNCHANGED at
     ELSE /\ pc' = [pc EXCEPT ![t] = "build"]
          /\ at' = [at EXCEPT ![t] = @ + 1]
  /\ UNCHANGED <<mem, outcome, myjob, calls, heap, word, queue, faults>>

(* Variant: the handler of a failed gem_userptr rethrows without free.     *)
RegisterFailsNoFree(t) ==
  /\ Throw(t, "register")
  /\ mem' = [mem EXCEPT ![t][Bo(t)] = None]
  /\ UNCHANGED <<hdl, heap, word, gem, queue, faults>>

(* gem_userptr throws: allocated memory is freed, a user's is left alone.  *)
RegisterFails(t) ==
  /\ Throw(t, "register")
  /\ heap' = heap \ {mem[t][Bo(t)]}
  /\ mem' = [mem EXCEPT ![t][Bo(t)] = None]
  /\ UNCHANGED <<hdl, word, gem, queue, faults>>

-----------------------------------------------------------------------------
(* Submission and waiting *)

(* A relocation of the indirect data names a handle that is not in the     *)
(* list for the kernel: the last check, with everything built.             *)
RejectRelocation(t) ==
  /\ Throw(t, "ready")
  /\ UNCHANGED <<hdl, mem, heap, word, gem, queue, faults>>

(* Variant: the synchronisation word is left as it is.                     *)
KeepFlag(t) ==
  /\ pc[t] = "ready"
  /\ pc' = [pc EXCEPT ![t] = "submit"]
  /\ UNCHANGED <<at, hdl, mem, outcome, myjob, calls, heap, word, gem, queue, faults>>

(* *sync_ptr = 0                                                           *)
ResetFlag(t) ==
  /\ pc[t] = "ready"
  /\ word' = [word EXCEPT ![mem[t]["gp"]] = 0]
  /\ pc' = [pc EXCEPT ![t] = "submit"]
  /\ UNCHANGED <<at, hdl, mem, outcome, myjob, calls, heap, gem, queue, faults>>

(* gem_execbuffer2 takes every buffer object.  The kernel keeps their      *)
(* memory mapped for the GPU until the batch has left it.                  *)
Submit(t) ==
  /\ pc[t] = "submit"
  /\ jobs' = Append(jobs, [gp |-> mem[t]["gp"],
                           pins |-> {mem[t][b] : b \in Bos}])
  /\ myjob' = [myjob EXCEPT ![t] = Len(jobs) + 1]
  /\ pc' = [pc EXCEPT ![t] = "wait"]
  /\ UNCHANGED <<at, hdl, mem, outcome, calls, heap, word, gem, written, gpu, faults>>

SubmitFails(t) ==
  /\ Throw(t, "submit")
  /\ UNCHANGED <<hdl, mem, heap, word, gem, queue, faults>>

(* Variant: the call goes straight to polling the synchronisation word.    *)
WaitSkipped(t) ==
  /\ pc[t] = "wait"
  /\ pc' = [pc EXCEPT ![t] = "poll"]
  /\ UNCHANGED <<at, hdl, mem, outcome, myjob, calls, heap, word, gem, queue, faults>>

(* Variant: the synchronisation word is zeroed after the wait.             *)
WaitThenReset(t) ==
  /\ pc[t] = "wait"
  /\ myjob[t] <= gpu
  /\ word' = [word EXCEPT ![mem[t]["gp"]] = 0]
  /\ pc' = [pc EXCEPT ![t] = "poll"]
  /\ UNCHANGED <<at, hdl, mem, outcome, myjob, calls, heap, gem, queue, faults>>

(* gem_wait on the batch buffer bb, which only this batch uses, returns    *)
(* once the batch has left the GPU, finished or killed by a reset.         *)
WaitDone(t) ==
  /\ pc[t] = "wait"
  /\ myjob[t] <= gpu
  /\ pc' = [pc EXCEPT ![t] = "poll"]
  /\ UNCHANGED <<at, hdl, mem, outcome, myjob, calls, heap, word, gem, queue, faults>>

(* 500 ms are over and the batch is still on the GPU.                      *)
WaitTimesOut(t) ==
  /\ myjob[t] > gpu
  /\ Throw(t, "wait")
  /\ faults' = faults \cup {"timeout"}
  /\ UNCHANGED <<hdl, mem, heap, word, gem, queue>>

(* The loop over *sync_ptr ends; a look that finds another value, and the  *)
(* usleep after it, change nothing.                                        *)
Poll(t) ==
  /\ pc[t] = "poll"
  /\ word[mem[t]["gp"]] = 1
  /\ pc' = [pc EXCEPT ![t] = "unwind"]
  /\ outcome' = [outcome EXCEPT ![t] = "ok"]
  /\ UNCHANGED <<at, hdl, mem, myjob, calls, heap, word, gem, queue, faults>>

-----------------------------------------------------------------------------
(* I915UserptrBo::~I915UserptrBo, in the order of the destructors *)

Position(b) == CHOOSE i \in 1..Len(Order) : Order[i] = b

(* Locals die youngest first, the members of a std::list from the front.   *)
DiesBefore(a, b) ==
  IF a \in ArgBos /\ b \in ArgBos
  THEN Position(a) < Position(b)
  ELSE Position(a) > Position(b)

Closed(t) == {b \in Bos : mem[t][b] # None /\ hdl[t][b] = None}

(* Variant: the memory is released first, the handle closed after it.      *)
FreeThenClose(t) ==
  /\ pc[t] = "unwind"
  /\ \E b \in Live(t) :
       /\ \A c \in Live(t) \ {b} : DiesBefore(b, c)
       /\ \/ /\ mem[t][b] \in heap
             /\ heap' = heap \ {mem[t][b]}
             /\ UNCHANGED <<pc, hdl, mem, gem>>
          \/ /\ mem[t][b] \notin heap
             /\ gem' = [gem EXCEPT ![hdl[t][b]] = None]
             /\ hdl' = [hdl EXCEPT ![t][b] = None]
             /\ mem' = [mem EXCEPT ![t][b] = None]
             /\ UNCHANGED <<pc, heap>>
  /\ UNCHANGED <<at, outcome, myjob, calls, word, queue, faults>>

(* gem_close.  It throws for a handle that is not open, and an exception   *)
(* that leaves a destructor ends the process.                              *)
CloseHandle(t) ==
  /\ pc[t] = "unwind"
  /\ Closed(t) = {}
  /\ \E b \in Live(t) :
       /\ \A c \in Live(t) \ {b} : DiesBefore(b, c)
       /\ IF gem[hdl[t][b]] = None
          THEN /\ pc' = [pc EXCEPT ![t] = "terminated"]
               /\ UNCHANGED <<hdl, mem, gem>>
          ELSE /\ gem' = [gem EXCEPT ![hdl[t][b]] = None]
               /\ hdl' = [hdl EXCEPT ![t][b] = None]
               /\ mem' = IF b \in ArgBos THEN [mem EXCEPT ![t][b] = None] ELSE mem
               /\ UNCHANGED pc
  /\ UNCHANGED <<at, outcome, myjob, calls, heap, word, queue, faults>>

FreeMem(t) ==
  /\ pc[t] = "unwind"
  /\ \E b \in Closed(t) :
       /\ heap' = heap \ {mem[t][b]}
       /\ mem' = [mem EXCEPT ![t][b] = None]
  /\ UNCHANGED <<pc, at, hdl, outcome, myjob, calls, word, gem, queue, faults>>

(* Everything is destroyed: the call returns or the exception reaches the  *)
(* caller.                                                                 *)
Leave(t) ==
  /\ pc[t] = "unwind"
  /\ Live(t) = {} /\ Closed(t) = {}
  /\ pc' = [pc EXCEPT ![t] = "idle"]
  /\ UNCHANGED <<at, hdl, mem, outcome, myjob, calls, heap, word, gem, queue, faults>>

-----------------------------------------------------------------------------
(* The GPU and the kernel's request queue *)

(* PIPE_CONTROL with post-sync write, the last command of bb2.             *)
GpuWrite ==
  /\ gpu < Len(jobs)
  /\ gpu + 1 \notin written
  /\ word' = [word EXCEPT ![jobs[gpu + 1].gp] = 1]
  /\ written' = written \cup {gpu + 1}
  /\ UNCHANGED <<local, heap, gem, jobs, gpu, faults>>

(* MI_BATCH_BUFFER_END, and the kernel retires the request.                *)
GpuRetire ==
  /\ gpu < Len(jobs)
  /\ gpu + 1 \in written
  /\ gpu' = gpu + 1
  /\ UNCHANGED <<local, heap, word, gem, jobs, written, faults>>

(* The batch hangs; the kernel resets the GPU and drops the batch.         *)
GpuHang ==
  /\ MayHang
  /\ gpu < Len(jobs)
  /\ gpu + 1 \notin written
  /\ gpu' = gpu + 1
  /\ faults' = faults \cup {"hang"}
  /\ UNCHANGED <<local, heap, word, gem, jobs, written>>

-----------------------------------------------------------------------------
CallStep(t) ==
  \/ Reject(t)
  \/ AllocMem(t)
  \/ AllocMemFails(t)
  \/ UseUserMem(t)
  \/ Register(t)
  \/ RegisterFails(t)
  \/ RejectRelocation(t)
  \/ ResetFlag(t)
  \/ Submit(t)
  \/ SubmitFails(t)
  \/ WaitDone(t)
  \/ WaitTimesOut(t)
  \/ Poll(t)
  \/ CloseHandle(t)
  \/ FreeMem(t)
  \/ Leave(t)

GpuStep == GpuWrite \/ GpuRetire \/ GpuHang

Next ==
  \/ \E t \in Callers : Enter(t) \/ CallStep(t)
  \/ GpuStep

Spec == Init /\ [][Next]_vars

(* The scheduler runs every thread that can run, and the GPU works through *)
(* its queue.  Whether a new call is made is the user's business.          *)
FairSpec ==
  /\ Spec
  /\ \A t \in Callers : WF_vars(CallStep(t))
  /\ WF_vars(GpuStep)

-----------------------------------------------------------------------------
(* Every open handle belongs to exactly one live buffer object of one      *)
(* caller and refers to that object's memory; every allocated block        *)
(* belongs to exactly one buffer object.  No path through execute leaks a  *)
(* handle or a block, closes another caller's handle, or frees memory an   *)
(* open handle still refers to (I915UserptrBo with the unwinding of        *)
(* execute).                                                               *)
HandleOwned ==
  /\ \A h \in Handles : gem[h] # None =>
       \E t \in Callers, b \in Bos : hdl[t][b] = h
  /\ \A t, u \in Callers, b, c \in Bos :
       (hdl[t][b] # None /\ hdl[t][b] = hdl[u][c]) => (t = u /\ b = c)
  /\ \A t \in Callers, b \in Bos : hdl[t][b] # None =>
       /\ gem[hdl[t][b]] = mem[t][b]
       /\ mem[t][b] # None

MemoryOwned ==
  /\ \A p \in heap : \E t \in Callers, b \in Bos : mem[t][b] = p
  /\ \A t \in Callers, b \in Bos \ ArgBos : mem[t][b] # None => mem[t][b] \in heap
  /\ \A t, u \in Callers, b, c \in Bos \ ArgBos :
       (mem[t][b] # None /\ mem[t][b] = mem[u][c]) => (t = u /\ b = c)

Ownership == HandleOwned /\ MemoryOwned

(* When no call is under way the process is back where it started: no      *)
(* handle is open and every block is free, whatever failed before.         *)
QuiescentIsClean ==
  (\A t \in Callers : pc[t] = "idle") =>
    (heap = {} /\ \A h \in Handles : gem[h] = None)

(* A call that returns normally has had its own batch finished, and not    *)
(* only a word set by a batch that an earlier, timed-out call left behind  *)
(* in the same memory.  (gem_wait guarantees it as long as the GPU does    *)
(* not hang, the synchronisation word as long as no call has timed out;    *)
(* nothing does when both have happened.)                                  *)
ReturnMeansFinished ==
  \A t \in Callers :
    (outcome[t] = "ok" /\ faults # {"timeout", "hang"}) =>
      /\ myjob[t] \in 1..gpu
      /\ myjob[t] \in written

(* As long as no wait has timed out, memory the GPU may still read or      *)
(* write is not released: this needs the wait for the whole batch, because *)
(* the synchronisation word is set before the batch has left the GPU.      *)
MemoryHeldByGpu ==
  "timeout" \notin faults =>
    \A i \in InFlight : jobs[i].pins \subseteq heap \cup {UserBuf[b] : b \in ArgBos}

(* "Wait for GPU" (i915_runtime.cc:1219): the call does not go on to       *)
(* release the memory of its batch while the GPU works on the batch.       *)
WaitsForGpu ==
  \A i \in InFlight : jobs[i].pins \subseteq heap \cup {UserBuf[b] : b \in ArgBos}

(* Once its batch is submitted, a call never sees its synchronisation word *)
(* go back from 1 to 0: the reset comes before the submission.             *)
FlagNeverLost ==
  [][\A t \in Callers :
       (pc[t] \in {"wait", "poll"} /\ pc'[t] \in {"wait", "poll"}) =>
         word'[mem[t]["gp"]] >= word[mem[t]["gp"]]]_vars

(* Every call ends, by return or by exception, but for one that polls for  *)
(* a batch of its own that was killed: the loop over *sync_ptr             *)
(* (i915_runtime.cc:1225) has no limit.  Nothing else keeps a call, as a   *)
(* batch that timed out or was killed and is not its own.                  *)
CallEnds ==
  \A t \in Callers :
    (pc[t] = "build") ~> (pc[t] = "idle" \/ (pc[t] = "poll" /\ myjob[t] \notin written))
-----------------------------------------------------------------------------
(* Execute implements Service: a call that returns has had its own         *)
(* computation run, exactly once, and a late batch never counts for a      *)
(* later call.                                                             *)
Promise == INSTANCE Service WITH
  status  <- [t \in Callers |-> IF pc[t] = "idle" THEN "idle" ELSE "busy"],
  result  <- [t \in Callers |-> IF pc[t] = "idle" THEN outcome[t] ELSE "none"],
  ran     <- {t \in Callers : myjob[t] \in written},
  excused <- faults = {"timeout", "hang"}

ImplementsService == Promise!Spec

-----------------------------------------------------------------------------
(***************************************************************************)
(* The strengthening that makes the properties above inductive.            *)
(***************************************************************************)

(* What a caller holds at each point of execute.                           *)
BuiltUpTo(t, i) ==
  \A j \in 1..Len(Order) :
    IF j < i THEN hdl[t][Order[j]] # None
             ELSE hdl[t][Order[j]] = None /\ (j > i => mem[t][Order[j]] = None)

Shape(t) ==
  /\ \A b \in ArgBos : mem[t][b] \in {None, UserBuf[b]}
  /\ pc[t] = "idle" => Live(t) = {} /\ Closed(t) = {}
  /\ pc[t] = "build" =>
       BuiltUpTo(t, at[t]) /\ mem[t][Bo(t)] = None
  /\ pc[t] = "register" =>
       BuiltUpTo(t, at[t]) /\ mem[t][Bo(t)] # None
  /\ pc[t] \in Holding => Live(t) = Bos
  /\ pc[t] = "unwind" => Closed(t) \cap ArgBos = {}

Shapes == \A t \in Callers : Shape(t)

(* What a submitted batch refers to, and who waits for it.                 *)
JobOf(t) ==
  /\ pc[t] \in {"wait", "poll"} =>
       /\ myjob[t] \in 1..Len(jobs)
       /\ jobs[myjob[t]].gp = mem[t]["gp"]
       /\ jobs[myjob[t]].pins = {mem[t][b] : b \in Bos}
  /\ pc[t] = "poll" => myjob[t] <= gpu

Awaited ==
  "timeout" \notin faults =>
    \A i \in InFlight : \E t \in Callers : pc[t] = "wait" /\ myjob[t] = i

(* A call that still works on its batch has not ended yet.                 *)
NotYetOver ==
  \A t \in Callers :
    pc[t] \in Holding \cup {"build", "register"} => outcome[t] = "none"

FinishedOrHung == "hang" \notin faults => 1..gpu \subseteq written

FlagIsOwn ==
  "timeout" \notin faults =>
    \A t \in Callers :
      /\ pc[t] = "submit" => word[mem[t]["gp"]] = 0
      /\ (pc[t] \in {"wait", "poll"} /\ word[mem[t]["gp"]] = 1) => myjob[t] \in written

JobInv ==
  /\ \A t \in Callers : JobOf(t)
  /\ NotYetOver
  /\ Awaited
  /\ FinishedOrHung
  /\ FlagIsOwn
  /\ ReturnMeansFinished

MemInv == TypeOK /\ Ownership /\ Shapes
IInv == MemInv /\ JobInv

(* Which batch is whose, over calls that have ended as well.               *)
CallInv ==
  /\ \A t \in Callers :
       /\ pc[t] \in {"build", "register", "ready", "submit"} => myjob[t] = 0
       /\ myjob[t] <= Len(jobs)
       /\ outcome[t] = "ok" => myjob[t] \in 1..gpu
       /\ pc[t] = "unwind" => outcome[t] # "none"
  /\ \A t, u \in Callers : (t # u /\ myjob[t] = myjob[u]) => myjob[t] = 0
=============================================================================
