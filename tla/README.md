# Verification of llt_gpgpu_rt

llt_gpgpu_rt runs OpenCL C kernels on Intel Gen9 GPUs without an OpenCL
installation: an offline compiler turns kernels into binaries with the Intel
Graphics Compiler (IGC), and a small runtime loads such a binary, lays out the
memory the hardware wants, and submits one batch per call through the i915 DRM
driver. This directory holds TLA+ modules of that program, the TLC
configurations that check them, and proofs for TLAPS.

In this document `R` is `src/ocl_runtime/i915/i915_runtime.cc`, `U` is `i915_utils.cc`,
`K` and `KH` are `i915_kernel_utils.cc` and `.h`, all in the same directory, and `D` is
`demo/i915_xcb_display.cc`. `PROJECT.json` has, for each definition, the lines it models.

## 1. Inventory

| component | state | operations | interacts with | hard behaviours | what makes it correct |
|---|---|---|---|---|---|
| Runtime environment (`I915RTEImpl`, R 1405-1578) | `fd`, `vm_id`, `ctx_id`, device info | constructor, destructor, `read_compiled_kernel`, `prepare_kernel`, `gem_userptr`, `gem_close` | DRM wrappers; every other run-time object refers to it | three nested handlers of a failing constructor; descriptors used again at once by other threads | exactly what was acquired is given back; a finished object has its context bound to its VM |
| DRM ioctl wrappers (U) | none of their own | userptr, close, open by name, create, mmap probe, context, VM, execbuffer2, wait | the i915 driver | an error or a timeout becomes an exception, also in destructors | no wrapper leaves an object behind when it throws |
| Prepared kernel (`I915PreparedKernelImpl`, R 104-238) | `args` | `add_argument*`, `execute`, destructor | runtime environment, kernel arguments | arguments are matched by the order of the calls; handles of named objects are owned | a refused argument changes nothing, each named argument owns its handle |
| Execution (`execute`, R 240-1232, `I915UserptrBo`, R 1349-1400) | ten or more buffer objects on the stack, the synchronisation word | one call: build, submit, wait, poll, unwind | driver and GPU, allocator, other threads on the same file descriptor | the GPU reads and writes the process's memory while the call goes on; a 500 ms limit; failures between any two buffer objects | no leak, no double release, a normal return means the work is done, memory of the GPU is not released |
| Dispatch sizing (R 615-897) | local to a call | SIMD width, threads, local ids, indirect data, SLM, URB | kernel parameters, the hardware's thread dispatcher | 32-bit arithmetic, carries across threads, boundaries | each work item runs exactly once, everything stays inside its buffer |
| Cross-thread data (K 108-372) | a byte buffer | `build_cross_thread_data`, `set_param` | patch list, arguments, surface states | two places count the buffers independently; a width of the patch list, a width of the argument, the buffer's capacity | each byte of a parameter is one of the argument bound to it |
| Program binary reader (R 1237-1346, `igc_progbin.cc`, `hash.cc`) | offsets into a byte buffer | headers, name, heaps, patch list | compiler output | sizes taken from the file, unsigned sums | nothing outside of the file is read, what the writer wrote is what the reader sees |
| IGC interface (`compiler/igc_interface.cc`, `translate_interfaces.cc`) | build log, binaries | translate in two stages | IGC library | errors of either stage | a failed build is reported |
| Offline compiler (`compiler/llt_gpgpu_rt_i915_c.cc`) | list of binaries per device, output file | parse arguments, compile per device, drop duplicates, write C source | IGC interface, device tables | output opened before anything is compiled | each device finds the binary built for it |
| Header generator (`tools/generate_gen_headers.py`) | none | generate accessors for structures, commands, registers | C++ code of `execute` | bit fields, signs, bounds off by one | what a setter stores, the packed word holds |
| Device tables (`compiler/translate_interfaces.cc`, `igc_interface.h`, `tools/device_info.cc`) | none | platform, family, core, device type of an id; the offline compiler's list | Mesa's table, IGC, offline compiler, `read_kernel` | one question answered by five tables written by hand | a device finds the binary that was built for its family |
| Demos with a window (`demo/i915_xcb_*.cc`) | connection, window, back buffer, events, source images | construct, draw, process events, unwind | X server (XCB, DRI2), runtime | resize between two events or ahead of one, a lost connection, a constructor that hides its failure | a frame is drawn into the buffer that is shown, with its size, from memory that was set |
| Demos without one (`demo/i915_memset*.cc`) | locals of `main` | build, execute, compare | runtime | - | - |
| Helpers (`utils.h`, `macros.h`) | `DynamicBuffer` | grow, align | everywhere | - | - |
| Checksum, public interface, build files, vendored Mesa and DRM headers | none | - | - | - | not modelled, see 8 |

The interactions that matter most: `execute` is called by any number of threads
on prepared kernels of one environment; they share the file descriptor (hence
the GEM handles), the hardware context (hence the GPU's queue) and the
allocator. The GPU is one more actor: it writes the synchronisation word and
the user's buffers at times the program does not control.

## 2. Modules

| module | models | state |
|---|---|---|
| `Execute` | concurrent calls of `execute` with driver, allocator and GPU | `pc`, `at`, `hdl`, `mem`, ... per caller; `heap`, `word`, `gem`; the queue `jobs`, `written`, `gpu` |
| `Service` | what `execute` promises: a computation that runs at most once per call, has run when the call returns, and does not run afterwards | `status`, `result`, `ran`, `excused` |
| `ExecuteProofs` | proofs about `Execute` | |
| `ServiceProofs` | `Execute` implements `Service` | |
| `Dispatch` | the sizing of one dispatch | `stage`, the inputs, `simd`, `threads`, the running id, `payload`, `slm` |
| `DispatchProofs` | proofs about `Dispatch` | |
| `RteLifecycle` | construction and destruction of environments | `pc`, `fd`, `vm`, `ctx`, `probe` per environment; the descriptors of the process and what each open file contains |
| `RteLifecycleProofs` | proofs about `RteLifecycle` | |
| `CrossThread` | the cross-thread data, byte by byte | none: operators `ArgBinding` uses |
| `ArgBinding` | prepared kernels, arguments, binding table, relocations; EXTENDS `CrossThread` | `args`, `surface`, `bound`, `pins`, `moved`, `turn`, `data`, `patches` per prepared kernel; `gem` |
| `ArgBindingProofs` | proofs about `ArgBinding` | |
| `ProgBinary` | the search for a kernel in a program binary | the file and the name asked for (`input`), `bin` and `size`, the headers, `left`, the parts of the kernel at hand, `kernel`, `outcome` |
| `ProgBinaryProofs` | proofs about `ProgBinary` | |
| `DeviceTables` | the tables about devices | none: operators `OfflineCompiler` uses |
| `OfflineCompiler` | one run of `llt_gpgpu_rt_i915_c`, with `IGCInterface` and the files | the parser's `next`, `given`, `input`, `output`; `disk`; `src`, `class`, `binaries`, `index`, `written`; `result`; `outcome`, what the compiler makes of each family |
| `OfflineCompilerProofs` | proofs about `OfflineCompiler` | |
| `XcbWindow` | connection, window, events, construction and destruction of `main`'s locals, the X server | `pc`, `objects`, `result`; `actual`, `events`, `back`, `lost` of the server; `size`, `closed`, `registered`, `drm_connected`; `buf`, `shown` |
| `XcbDisplay`, `XcbGradients` | what each demo adds: source images and the limit of their size, the colour map | `last`, `source` |
| `XcbDemos` | composes the three: one run of either demo against the X server | |
| `XcbDemosProofs` | proofs about `XcbDemos` | |
| `MC*` | values of the constants for TLC | |

### Execute

`Order` lists the buffer objects of a call in the order their constructors run
(R 334-380, 523, 837, 988, 1140); a kernel decides which exist. `pc` is where a
caller is:

| location | code |
|---|---|
| `build`, `register` | the checks ahead of, and the two halves of, an `I915UserptrBo` constructor: `aligned_alloc` (R 1355) or the user's pointer (R 1370), then `gem_userptr` (R 1361) |
| `ready` | the list of relocations is checked (R 1165-1191), then `*sync_ptr = 0` (R 1215) |
| `submit` | `gem_execbuffer2` (R 1217) |
| `wait`, `poll` | `gem_wait` with 500 ms (R 1223), the loop over `*sync_ptr` (R 1225) |
| `unwind` | destructors, youngest local first, members of the list of argument buffers from the front; `gem_close` then `free`, one step each |
| `terminated` | an exception left a destructor |

Each `throw` of the code is the action `Throw` from one of these locations;
`CheckedBos` names the buffer objects ahead of which a check can throw. A check
that throws ahead of the first buffer object is the rejection at index 1.

The driver and the GPU: `gem` is the handle table of the file, `jobs` the
requests of the context in order, `gpu` how many have left it. A request first
writes 1 to the word of its `gp_bo` (`GpuWrite`, the post-sync write of the
last `PIPE_CONTROL`) and is retired in a later step (`GpuRetire`), because the
driver retires it only after the batch has ended. `GpuHang` drops a request.
The driver keeps the pages of a submitted buffer object for the GPU until the
request is retired, whatever happens to the handle and to the memory; a late
write therefore hits the block by its name (`jobs[i].gp`), who ever owns it by
then. `PagesFrom` and `HandlesFrom` are the policies of allocator and driver,
any free block or the lowest free handle; nothing depends on which.

`faults` remembers whether a wait has timed out and whether the GPU has hung,
because three properties hold only without one or the other (see 4).

`Promise`, in the same module, is the refinement mapping to `Service`: a caller
is busy unless it is `idle`, the result of a call is visible when the call is
over, and a computation has run when the last command of its batch was
executed. A late batch is a `Run` after the call has thrown.

### Dispatch

One action per check or loop turn of R 615-897. Widths, register size and limits
are the code's constants. `Word` is 2^32 in the code; all 32-bit results are
taken modulo `Word`, and `AsInt` is the conversion to `int` at R 627. The
payload is a function from 16-bit offsets to ids and only holds what was
written, so that a missing write shows as a lookup outside of its domain. The
hardware's view of the payload is stated separately (`HardwareReads`, `IdOf`)
from the lengths the code gives it. Fields that make the payload format
unsupported, and the offset of the local surface, are one value, `flaw`, by where
they are tested: before the ids are written, after them, or with the size of the
shared memory.

### RteLifecycle

One action per acquisition, one for its failure, one per handler. Descriptors
belong to the process: code that is not part of the library (`OtherOpens`,
`OtherCloses`) takes and releases them as well. Closing a file takes away
everything in it.

### ArgBinding and CrossThread

A kernel is what the patch list says of it: types of the parameters, surface
state of each entry of the binding table, entries of `data_parameter_buffers`
and of the global memory objects with their offsets and widths, and the size of
the data. `BindEntry` is one turn of the loop at R 430-549. `AddParameter` and
`AddObject` are one turn each of the two loops of `build_cross_thread_data` (K 124-298
and 300-350), of which `turn` counts how many are over; the loops at R 430 and K 274
count buffers independently. `CrossThread` has what a turn decides: the checks
(`ParameterOk`, `ObjectOk`) and the value. A value is a name of what it is and its
bytes are numbered, so that a value that is cut, extended with the wrong sign, or
half overwritten shows. `SetParam` ends a turn and has the checks of width and
capacity. A turn that passes all of them may still be followed by `Reject`, which stands
for each `throw` of the pass and for the other checks of `execute` up to the submission.

What the code takes on trust from the compiler is the operator `Consistent`: no two values
of the patch lists share a byte; what is looked up in the binding table is a pointer, and
there is a table; the entries have surface states of their own, and an address is looked
up in the one of its pointer's entry. `ParametersReachArguments` is stated under it, and
the kernels of the run include some for which it does not hold. Calls are followed to the
submission only; `Execute` has the rest.

### ProgBinary

`I915KernelImpl::read_kernel` with `igc_progbin.cc`, in the order the file is
read: program header, then for each kernel its header, name, three heaps, patch
list and checksum. `bin` and `size` are the variables of that name and change
where the code changes them: `size` is not touched inside of a patch list, which
counts `left` (`patch_list_size`) down instead. A file is a sequence of bytes,
except that a 32-bit word is its value and three fillers; positions and sizes
are those of the real format. What is behind the end of the file reads as an
unknown value, so that a model that reads there goes on, as the code would. The
hash is a parameter; the run uses a sum weighted by position.

The compiler that writes the files is external; its layout is the one the reader's
header structures give. It appears twice. `Written` says of a file and a program, without
recursion, that the file is the program as it is written: at which position each
kernel and each item is, and which bytes are there (an input of state `intact` names
the positions; `WriterAssumption` says that such a file is `Written`). The bytes under a
checksum are a multiple of four, no kernel has a second item of a kind it can have
once, and sums of sizes fit in 32 bits. `MCProgBinary` has a writer that makes the files of
the run, and TLC evaluates `WriterAssumption` on them: the two descriptions agree.

### OfflineCompiler

`Args::parse` one argument a step, then `main_exc` (`llt_gpgpu_rt_i915_c.cc`
208-446) one call or loop turn a step, to the destructors of the files. `disk`
is what the process's files hold: the output is emptied before the input is
read. `BuildIr` and `BuildBinary` are the two stages of `IGCInterface::build`
(`igc_interface.cc` 305-445), whose results are the compiler's to choose; IGC is
external: `outcome` says from the start what it makes of each family, so that one
source compiled twice for one family gives one binary. `lost` is history. Any step may end in an
exception (`Throws`). Names are sequences of characters, since one property is
about the symbol made from them, one character a step (`BeginName`, `TakeCharacter`,
`EndOfName`), as in the loop at 265-283; build logs and the include guard are left out.

`DeviceTables` has the translations: Mesa's device info (external) gives the
platform, `get_product_family` and `get_render_core_family` what IGC is asked for,
`intel_platform_to_device_type` what a binary is filed under, and the list of the
offline compiler what it compiles for. The order of `enum intel_platform` is part
of it, since `main_exc` sorts by it and the first device of a platform in Mesa's
table stands for the platform.

### XcbWindow, XcbDisplay, XcbGradients, XcbDemos

`pc` follows `main` of a demo: the constructors of its locals (`connect` to
`kernel`), a turn of the loop (`loop`, `poll`, `draw`, `execute`, `swap`), and
`unwind`, where `objects`, the locals that exist, are destroyed from the last to
the first. `Throw` goes there from wherever the code throws, `Crash` ends the process
where a missing reply is dereferenced, whether the connection was lost or the server
answered with an error. `swallowed` records that the constructor of
`XCBWindow` caught its own exception and an object without a window is in `objects`.

The X server is external and a process of its own: `Resize` changes the window
(`actual`) and sends the event, `Notify` sends one of another kind, `Lose` breaks
the connection. The program's idea of the window is `size`, which is late by the
events not yet read. `Request` is what DRI2 does for `get_backbuffer`: a buffer of
the window's size of now. A picture is the set of window heights its pixels were
computed for, all that tells a right one from a wrong one; `source` has the same
for each pixel of the display's images.

`Execute` is not instantiated here: a demo has one thread and one call at a time, and
what matters is only that the call wrote to the object it was given by name
(`Executed`), which is what `Execute` is about.

## 3. Runs

| run | question | instance | result |
|---|---|---|---|
| `execute_race` | can two calls hurt each other or themselves? | 2 threads, one call each, three buffer objects (`gp`, a user's, `bb`), 3 blocks, 5 handles, any free block | holds |
| `execute_full` | what do repeated calls with all buffer objects do after a timeout; do they implement `Service`; does every call end? | 1 thread, 4 calls, 11 buffer objects, fairness | holds; a call ends unless its own batch was killed by a hang |
| `execute_waits` | is the GPU always waited for? | as `execute_race` | violated: finding 1 |
| `dispatch_small` | is every work item run once and everything in bounds? | 79 kernels, 21 ranges | holds |
| `dispatch_wrap` | is the limit of 1024 items kept? | groups up to 32 x 2 x 32768, `Word` = 2^16 | violated: finding 2 |
| `dispatch_urb` | does the URB check reject only large payloads? | as `dispatch_small` | violated: finding 3 |
| `lifecycle` | does every failure give back what was acquired? | 2 environments, 3 descriptors, 2 identifiers per file | holds, no deadlock |
| `arguments` | do arguments reach their parameters, and are handles owned? | 2 prepared kernels, 10 kernels, 3 buffers, 1 name, 3 handles | holds, no deadlock |
| `binary` | is the right kernel found, and anything else turned away? | 4 programs of up to three kernels, kernels of 308 and 316 bytes; every prefix, a change of every byte a check covers, 3 appended parts, 6 contents the reader does not know | holds |
| `compiler` | are arguments understood, and do devices find their binaries? | 11 families, all vectors of up to 5 of 4 arguments and 10 with other names, each family with a binary of its own; one vector with 216 patterns of results | holds |
| `compiler_backend` | is every failed build reported? | as `compiler` | violated: finding 4 |
| `display` | do the demos show what they drew, whatever happens to the window, and do they end? | both demos, 4 window sizes, 3 events, 2 names of buffers, fairness | holds |

Why these bounds are enough to see the interesting cases:

* `execute_race`: three buffer objects are the shortest sequence with one of
  each kind (allocated, user's, last); between two of them anything can fail.
  There are 3 blocks for 4 allocations and 5 handles for 6, so that both calls
  compete, run out, and get what the other has just released. One call per
  thread is enough for a late write into memory of the other call, and
  `execute_full` has the late write into memory of the *same* thread's later
  call: that takes three or four calls (time-out, reuse, second job).
* A block may start with 1 in its first word (`Garbage = {1}`), the value that
  would be mistaken for an answer; 0 is the harmless case.
* `dispatch_small`: widths 8, 16 and 32 with every set of compiled ones and
  every largest one, an illegal one (64) included; local sizes with rows that a
  width does not divide (12), several rows per thread group and several
  layers; groups of 65 and 67 threads and one of 1088 items pass each limit by
  a little; `MaxCsThreads` is 66 instead of the 56 of most Gen9 parts so that
  the test for 64 threads, which is behind it, is reached. SLM requests sit
  at and just above powers of two and the maximum. `Word` is 2^20 there, larger
  than anything the ranges produce; only `dispatch_wrap` is about wrapping.
* `lifecycle`: the third descriptor lets other code grab a descriptor between
  its release and a second, wrong release. Threads, descriptors and
  identifiers are interchangeable and declared symmetric (no liveness is
  checked there).
* `arguments`: a scalar ahead of two pointers makes "position among arguments"
  and "position among buffers" differ; the surface states are in another order
  than the table; kernels with a table of the wrong length and without a table
  are included, and layouts that just fit, do not fit, or name what is not there;
  a scalar of 4 bytes is bound in a place of 8; buffers may be misaligned or empty.
* `binary`: the two kernels have all eleven kinds of patch items between them,
  items that repeat, strings shorter than their space, empty ones, ones that
  fill their space, heaps with and without padding and empty ones, and a name
  that fills its field. Every length of the file and every byte the checksum or a
  header test covers is tried. Sizes in the files are small: their sums do not
  reach `Word`, so that the run says nothing about files in which they wrap.
* `compiler`: five arguments are one more than any accepted vector; every option
  can be missing, repeated, at the end, or the value of `-o`. The families are all
  eleven, in an order other than that of their platforms. A result is one of three
  binaries of two sizes, a failure of the back end with or without a binary, or one of
  the front end; families whose numbers are equal modulo 3 have the same, so that
  families with a core and a timer in common differ, and equal binaries, equal sizes
  and aliases that skip one all occur. Names have digits in front, characters that are
  dropped, several dots, no stem; one vector uses one file twice.
* `display`: `MaxWidth` 3 and `MaxHeight` 2 stand for 3840 and 2160, tiles of 2 x 3
  pixels for those of 128 x 8, 3 stripes and 4 colours for 7 and 8. Of the sizes, one
  is the largest allowed, one the smallest, one too wide and one too high (with enough
  lines for the stripes); width and height are multiples of a tile in one and not in
  another. Three events are enough to grow, shrink and close, and for two
  changes of size to be unread at once.

Deadlock is checked in `lifecycle` and `arguments`. It is off for `Execute`,
where callers stop after `MaxCalls` calls and where a poll after a GPU reset
does wait for ever (a hazard in its own right), and for `Dispatch` and
`ProgBinary`, where a call ends, and for `OfflineCompiler` and `XcbDemos`, where the
program ends.

## 4. Properties

`Execute`

* `Ownership`: every open handle belongs to one live buffer object of one call
  and refers to its memory; every allocated block belongs to one buffer object.
  It covers leaks, double close, closing another thread's handle, and memory
  freed under an open handle.
* `QuiescentIsClean`: between calls nothing is open or allocated.
* `ReturnMeansFinished`: a normal return means that the call's own batch has
  run. This is less obvious than it looks. The synchronisation word alone does
  not give it: a batch that an earlier, timed-out call left behind may write 1
  into the same block after the new call has zeroed it. The wait alone does not
  give it either: it returns when a hung batch is dropped. Each covers for the
  other; when a timeout *and* a hang have happened nothing does, which is why
  the property excludes exactly that.
* `MemoryHeldByGpu`: until a wait times out, memory of a batch stays allocated
  while the batch is on the GPU. Polling the word would not be enough, because
  the word is written before the batch has ended.
* `ImplementsService`: the steps of `Execute` are steps of `Service`. Beyond
  `ReturnMeansFinished` it says that a computation runs at most once per call,
  only between the call's beginning and the next one, never after a normal
  return, and that a late batch is never taken for that of a later call.
* `FlagNeverLost` (action): the word of a submitted batch does not go back to
  0; the reset precedes the submission.
* `CallEnds` (liveness): every call ends, but for one that polls for a batch of its own
  that was killed. Batches of other callers that hang, and batches that timed out,
  keep nobody.

`Dispatch`: `ItemsCovered` (each id of the group is in exactly one lane as the
hardware finds it, groups cover the range), `PayloadFits` (writes and reads stay
inside), `WidestChosen` (the loop's choice against its definition), `SlmCovers`
(size, bound and encoding), `Ends` (liveness).

`RteLifecycle`: `FdOwned`, `ReadyIsWhole` (what a finished object has in its file, and
that the buffer of the mapping test, the context and the address space are given back
one by one on the ways out, not left to the close of the device),
`DestructorNeverThrows`, `ReadyUndisturbed` (action).

`ArgBinding`:

* `HandlesOwned`: every handle of a named object has one argument that owns it, and is
  closed with it.
* `ParametersReachArguments`: whatever a kernel reads as a parameter, byte by byte, is
  what the argument bound to that parameter has there: scalars with their sign, the entry
  of the binding table that really is the buffer's, or its address. Two loops, over the
  table and over the patch list, have to count alike. It is stated for kernels that are
  `Consistent`, which asks for a binding table where pointers are looked up in one:
  without it, `execute` neither pins nor addresses buffers and does not turn the kernel
  away, and nothing in this code says whether the compiler can produce such a kernel.
* `RelocationsResolve`: each relocation names an open handle of the batch's list.
* `ArgumentsMatchSignature`: what is submitted has arguments of the declared types.

`ProgBinary`: `PositionAgrees` (position, bytes left and the countdown of the
patch list stay consistent), `FoundIsWritten` (a kernel is returned only from an
intact file that has exactly one of the name (`Named`: the numbers of the kernels so
named), with all its parts as written),
`IntactIsRead` (the converse: an intact file is turned away only if it has no
kernel of the name or several).

`OfflineCompiler`: `ArgumentsUnderstood` (the parser's loop against a definition over the
whole vector), `DevicesFindTheirs`, `NameIsSymbol` (the class's name is made of what C++
allows, for each input's name with a character that is not dropped), `FailureIsVisible`
(an output that a failed run leaves behind has no end). `DevicesFindTheirs` goes from one
end of the tool chain to the other: for each device of Mesa's table whose family is known,
`get_bin`, asked for the device's type, gives the binary the compiler made of the target
that the online compiler would name for this device (family, core and, for Gen9, timer).
Five tables, the sorting by platform, merging and numbering have to agree for it. It says
nothing when the back end failed or `fclose` lost text, and nothing about the source when
input and output are one file.

`XcbDemos`

* `FrameIsShown`: what a frame's kernel writes to is the buffer that is swapped, and
  its size is the one the kernel was told, however often the window changed since.
* `PixelsDefined`: the display reads only pixels that were written for *some* size of
  the window, and reads outside of its images only when the event that would tell is
  under way; the colour index of the gradients stays in the map.
* `PixelsPlaced`: the range covers the frame, and column and line give the offset in a
  tiled surface, for each pitch of whole tiles.
* `AbortsOnlyUnreported`: the destructor that throws does so only when the constructor
  of the window had hidden its failure.
* `ClosedEnds`, `PictureSettles` (liveness): a demo that is told to close or loses
  its connection ends; a window that is left alone comes to show a picture of its
  size. The exception in `ClosedEnds` is real: a display that took the window for too
  large makes no request, so that a lost connection, which looks like "no event",
  goes unnoticed and the demo loops for ever.

Operators whose comment starts with "Variant:" are wrong versions of the action
they stand beside. They are not part of any specification; each shows that a
property notices a plausible mistake.

## 5. Fairness

`Execute!FairSpec` has weak fairness of each caller's steps within a call (the
operating system schedules every thread that can run; `Enter` is left out,
nobody has to make calls) and of the GPU (the driver submits what is queued and
the hang check ends what does not move). `Dispatch!FairSpec` is one thread
running on. `XcbDemos!FairSpec` is the demo's one thread running on, which it does because
`main_iteration(false)` does not wait for events; the X server answers a request in
the same step, and owes no event. No other module needs fairness, and no strong
fairness is used.

## 6. What is proved

`ExecuteProofs` proves, for every set of callers, every order and number of
buffer objects, every number of blocks, handles and calls, and every allocation
policy, that `Spec` implies `[]TypeOK`, `[]Ownership`, `[]ReturnMeansFinished`,
`[]MemoryHeldByGpu`, `[]QuiescentIsClean`, `FlagNeverLost`, and that calls go on and move
on (below). It assumes only the named assumptions of `Execute`:

* `OrderAssumption`: the sequence of buffer objects has no repetition, contains
  `gp`, and the user's buffers are among it;
* `ListAssumption`: no other buffer object is constructed between two of the user's, which
  are the members of one list (R 523); only `CallsGoOn` uses it, since members of a list
  die from the front and locals from the youngest, and the two orders must not cross;
* `MemoryAssumption`: the user's buffers are not memory of the allocator, and
  `None` is neither a block nor a handle;
* `PolicyAssumption`: allocator and driver hand out only what is free;
* `BoundAssumption`: types of `MaxCalls`, `MayHang` and `Garbage`.

The argument has two layers. `MemInv` is `TypeOK`, `Ownership` and `Shapes` and
is inductive alone (`MemInvStep`). `Ownership` needs `Shapes`: that a failing
constructor frees the right block, and that `unwind` finds exactly what is
left, depends on a caller holding the buffer objects before `at` and no other.
`IInv` adds `JobInv`, in which

* `JobOf` ties the batch a caller waits for to the memory it holds,
* `Awaited` says that without a timeout every batch on the GPU has a waiting
  caller; with `JobOf` and `Ownership` this gives `MemoryHeldByGpu`,
* `FinishedOrHung` says that without a hang a batch that left the GPU ran,
* `FlagIsOwn` says that without a timeout the word of a caller is 0 until its
  own batch has written it; it needs `Awaited`, because a write comes from the
  oldest batch on the GPU, which has a caller of its own and hence a block of
  its own,
* `NotYetOver` ties `outcome` to the location; `ReturnMeansFinished` is carried
  along.

The lemmas go one action at a time; `JobFrame` and `JobStep` treat the actions
that touch neither queue nor words together. `IInv` and `CallInv` were checked by TLC, as
invariants of the `execute_race` instance, before they were proved.

Two more theorems are the safety half of `CallEnds`. `CallsGoOn` says that a call is never
stuck unless its own batch was killed: where it polls, the word is set already if its batch
was written, and if it was not, the GPU hung (`FlagSeen`: the wait ended with the request
off the GPU; whatever timed out before does not matter), where it unwinds, there is a
handle to give back or one object that dies before the others (`OneDiesFirst`), and it is
never `terminated`. `CallsMoveOn` says that each step of a call goes to a later location, on to the next buffer object, or
leaves less to destroy, and that no step of another caller or of the GPU takes any of that
back. With weak fairness of the caller and of the GPU the end of the call follows; that
last inference is about `ENABLED` and is TLC's.

`ServiceProofs` proves `Spec => ImplementsService` from the same assumptions. It
joins `IInv` with `CallInv`, which speaks of batches whose call is over: no two
callers have the same batch, a caller has none before it submits, and a call
that returned has none on the GPU. `ServiceStep` goes through the actions:
`Enter` is `Begin`, `Leave` is `Return` or `Throw`, `GpuWrite` is `Run` for the
caller of the batch if it has one still, `WaitTimesOut` and `GpuHang` are
`Excuse` or nothing, and the rest is not noticed.

`RteLifecycleProofs` proves `[]TypeOK`, `[]FdOwned`, `[]ReadyIsWhole`,
`[]DestructorNeverThrows` and `ReadyUndisturbed` for any number of environments,
descriptors and identifiers. Its invariant says descriptor by descriptor who the
owner is (`OneOwner`), what is in the file of an object at each location
(`Contents`), and that a closed file is empty, which a constructor relies on when
it gets a descriptor that was used before. Two lemmas carry most actions:
`OwnFile`, for a step that keeps its device and touches its own file only, and
`CloseOwn`.

`ArgBindingProofs` proves `[]TypeOK`, `[]HandlesOwned`, `[]RelocationsResolve`,
`[]ArgumentsMatchSignature` and `[]ParametersReachArguments` for any number of prepared
kernels, kernels, buffers, names and handles, from `KernelAssumption` (kernels are what
`KernelType` says) and `BufferAssumption` (`Null` is neither a buffer nor a name).
`HandlesOwned` counts the arguments that own a handle; its inductive form `HandleInv` says
place by place what a handle refers to (`Refers`), that no two arguments share one
(`Single`) and that none is open without an argument (`Owned`). It is kept because
`gem_open` returns a handle that was not open, and because ~KernelArgGEMName closes a
handle no other argument refers to; the latter needs `Single`, and `DestroyedPlaces`, in
which the other arguments move forward. `RelocationsResolve` follows from `PatchesListed`,
from `MovedAreArgs` (what is relocated belongs to arguments of the call) and `Refers`. For
`MovedAreArgs` the loop over the binding table must find a buffer at each turn:
`NextIsBuffer`, by the comparison of counts ahead of the loop and `RankExists` (of more
than b numbers, one has b ahead of it). `SignatureInv` says that arguments match the
parameters at their places from the first one on, except while the kernel is destroyed,
and all of them during a call. `StepKinds` sorts the steps by what they do to arguments
and handles: bind one, destroy one, or leave them alone.

`ParametersReachArguments` needs a second invariant, `Connected`, proved on top of the
first. It follows the two passes of a call:

* `Counts`: arguments, bound entries and turns stay within what they are counted against;
* `Tabled`: an entry that is bound leads to the buffer with as many buffers ahead of it as
  there are entries ahead of the entry, provided the entries have surface states of their
  own. The binding of a later entry must leave it alone (`ReachStays`), and the buffer a
  turn comes to must be the only one with its number of buffers ahead (`Ranks`);
* `Written`: a turn that is over passed its checks, its bytes are still there if no two
  places overlap, and the relocation of an object given by name is asked for. A later
  turn writes elsewhere (`CopyKeeps`), and the value depends on surface states that no
  longer change.

At the submission `PointerReached` puts them together: the number `bt_entry` of
K 274-284 and the position the loop at R 430 gave the buffer are the same, because by
`SignatureInv` the buffers are exactly the pointer parameters. `ConsistentIsApart` takes
the two patch lists, which `Consistent` speaks of one behind the other, to turns. TLC
checked `Connected`, as an invariant of the `arguments` instance, before it was proved.

`XcbDemosProofs` proves `[]TypeOK`, `[]FrameIsShown`, `[]PixelsDefined`,
`[]PixelsPlaced` and `[]AbortsOnlyUnreported` for every set of window sizes, size of tiles,
images and colour maps, number of names and of events, from `WindowAssumption`,
`DisplayAssumption` (the window of the display starts as large as its images, which is
what lines 281 and 282 of `i915_xcb_display.cc` say) and `GradientsAssumption` (there are
more colours than stripes). Its invariant has, besides the types and `FrameIsShown`:

* `Locals`: how many locals `main` has at each place, and that the window is the second;
  with `Recorded` (a window that was constructed without a failure is in the map) the
  destructor of the window throws only after a failure that was kept silent;
* `Informed`: the server's size is the one the program read last, or the last news of it
  are in the queue, or the connection is lost. Without it nothing could be said of the buffer
  `get_backbuffer` returns, whose size is that of the server;
* `Covered`: after the first turn all of the images are set. It has a case for the time
  before, in which no event was read;
* `Foreseen`: a frame that is larger than the images has news of that size on the way.

`PixelsDefined` then is arithmetic: `InsideOfImages` (a frame no larger than the images
reads inside of them) and `ColourInMap` (lines in parts of equal height leave a rest
smaller than the number of parts); and so is `PixelsPlaced`, from `RoundedUp` and
`OffsetInTile`.

`DispatchProofs` proves `[]TypeOK` and, for every kernel, range, number of hardware
threads and page size that `DispatchAssumption` admits, the four properties of the sizing:

* `[](ItemsUnwrapped => WidestChosen)` and `[](ItemsUnwrapped => ItemsCovered)`: the group
  has fewer than 2^32 items. Without that both are false, which is finding 2: a group
  whose size wraps is dispatched with too few threads, or none.
* `[](NoIdOutside /\ (LengthUnwrapped => PayloadFits))`: no id is written outside of the
  buffer, whatever wraps; that the indirect object holds everything it is said to hold
  needs its length, which is a 32-bit sum, to be less than 2^32.
* `[]SlmCovers`, without a condition.

A group's lanes are numbered; `Counted` reads the running id as the number of the lane
(x + X (y + Y z)), `Laid` says that every lane so far has the id of its number at its place.
`Slots` gives that no two of the places are the same, for all three widths with and
without the unused register, so that what a lane wrote is not overwritten; `Digits` that
the number determines the id. `ItemsCovered` then needs that each item has a number below
the number of lanes (`Chosen`: threads are the items divided by the width, rounded up).
`Widest` has to speak of all usable widths above the one at hand, since the loop goes on
from a width that is too narrow, and stops at the first that is not compiled. `Rounded`
bounds the loop for shared memory from both sides. `LoopsEnd` is the safety half of
`Ends`: stages only advance, what `Turns` says is left of the loop at hand is a natural
number that becomes smaller at each turn, and the loop over the lanes never finds itself
between its cases.

`ProgBinaryProofs` proves of `Spec /\ []SumsFit`, for every file, name, hash and word
size (`BinaryAssumption`: files are sequences of numbers), `[]TypeOK`, `[]PositionAgrees`
and `[]AcceptedIsWhole`: nothing is kept that was not in the file, position and bytes left
agree to the end, and a file is accepted only after all of it was read, all its
kernels, and exactly one of them had the name. `SumsFit` says that the sums of sizes that
pass the checks (the heaps', and those of the strings of one argument) are less than
2^32; the code adds them without looking, and a file whose sums wrap is read from behind
its end. In the run sizes are small and nothing wraps. The
invariant adds `Header` (a kernel's header was in the file, its patch list is in what is
left) to `PositionAgrees`, and `Kept` and `NoneTwice` for the kernel at hand.

`[]IntactIsRead` and `[]IntactIsFound` need no such condition: the reader inverts the
writer, for every program, every length of every name, string and heap, every order of the
items and every hash. The argument follows the reader through the file. `Follows` says
that it stands where the writer stood (at the beginning of a kernel, of its name, of its
heaps, of an item) and that each part it has kept is the one that was written there;
`Search`, that of the kernels so far it holds the one of the name if there was
one. `HeaderRead`, `BodyRead` and `ItemRead` are the parts of the file, from `WordIs`,
`BytesAre`, `WordsAre` and `TextIs` (what a reading operator returns where the writer put
something); an item's strings need `Totals`, since the place of each depends on the sizes
of those before. `HeadersFit`, `BodyFits` and `ItemFits` say that none of the reader's
checks refuses such a file, `CheckFailsFollows` that the one left to refuse it does so
for a second kernel of the name. `ReadingFits` gives `SumsFit` for these files.
`IntactIsFound` is what `FoundIsWritten` says of intact files.

The other direction is `[]AcceptedIsWritten`, again under `SumsFit`: whatever file the
reader accepts *is* `Written` for some program, with each size, name, string and heap at
its place, and what is returned is the one kernel of the name in that program. Nothing of
the file is left unaccounted for but what the layout leaves free, as the bytes behind the
end of a string, and a reader that skipped a check or an item would be caught by it. Its
invariant, `AsRead`, builds the program while it is read: `HeaderIsRead`, `KernelsAreRead`
(a program, with the positions of its kernels and items, that the file has up to `bin`,
and the kernel kept of it) and `PartsAreRead` for the kernel at hand
(`KernelHeaderIsRead`, `NameIsRead`, `HeapsAreRead`, `ListIsRead`). `ItemIsWritten` and
`KernelIsWritten` turn what the reading operators returned back into what is in the file.
It holds for every hash: the checksum is part of what a file must have.

`FoundIsWritten` follows for files that are not intact, from `NothingElseWritten`: what the
input calls not intact is not a file the compiler writes for any program. That is no
property of the code but what "damaged" has to mean: a changed file that is by chance another
program's, checksum included, cannot be told from it by any reader. A file that is changed under
its checksum satisfies it as far as the hash tells the two apart.

`ReadingEnds` bounds the search on every file, intact or not: what is left of the file
(`Rest`) never grows, and between two steps that make it smaller the location only advances,
through at most seven. So a header that announces 2^32 - 1 kernels is no reason to go on.

`OfflineCompilerProofs` proves `[]TypeOK`, `[]FailureIsVisible`, `[]ArgumentsUnderstood`,
`[]NameIsSymbol`, `[]BinariesKept` and `[]DevicesFindTheirs` for every argument vector,
outcome of the translations and order of the families, from `CompilerAssumption`
(arguments are texts, outcomes have the shape of a result, and the list of the offline
compiler names each family exactly once); that no two families have one platform is read
off the table. `Filled` gives the number of parts of the output at each place, whence a
failure leaves fewer than all. `ArgumentsUnderstood` is an equivalence, and each direction
needs an invariant of the parser's loop: `Behind` says where in the vector what is given
was found, `Ahead` that on a vector that should be accepted the parser stands at the
beginning of an argument, and has been given exactly those it passed. `BinariesKept` is
the part of `DevicesFindTheirs` that does not depend on the tables: through merging and
numbering, the platform of each family keeps a binary equal to the family's (`Kept` while
they are built, `Merged` while they are numbered). The rest of it is `Sourced` (what each
file holds, and what was read from the input), the comparison of the tables in the lemmas
`Names`, `Rows` and `Targets`, entry by entry, and `TypesDiffer`: no two platforms answer
to one device type. `NameIsSymbol` has an invariant of its own, `Named`: the name so far
is a symbol, is not empty once a character was not dropped, and is complete when the loop
is left.

Only model-checked:

* liveness under fairness (`CallEnds`, `Ends`, `ClosedEnds`, `PictureSettles`), since the
  prover does not handle `ENABLED`. Of `CallEnds` and `Ends`, and of the end of the search in
  `ProgBinary`, which no run states as a liveness property, the part that is safety is
  proved, as said above; of `ClosedEnds` and `PictureSettles`, which depend on what the X
  server goes on to do, nothing is;
* that the damaged files of the `binary` run are turned away although nothing is assumed
  about them: the run has no `NothingElseWritten`, which speaks of all programs;
* that `MCProgBinary`'s writer, which is recursive, makes files that are `Written`: an
  assumption TLC evaluates. What a recursive definition computes for every input would need
  an induction schema the installed provers cannot instantiate. The proofs speak of
  `Written`, which gives positions.

## 7. Findings

1. `execute_waits`: after 500 ms `gem_wait` throws and the destructors close the
   handles and free the memory of a batch that is still running. The driver
   keeps the pages, but the GPU then reads and writes blocks that belong to
   someone else in the process, or to nobody.
2. `dispatch_wrap`: the size of a work group is multiplied in 32 bits before it
   is compared with 1024. A group of 32 x 2 x 2^31 items counts as 0 items,
   and is dispatched with 0 threads. The run uses a word of 2^16 in place of
   2^32 and sizes that wrap it; the operators are the same.
3. `dispatch_urb`: the test for URB memory throws when the need is *smaller* than
   what there is. With `urb_allocation_size` 1922 that is a payload of less than
   62 bytes, e.g. a kernel without local ids and with one register of
   cross-thread data; a payload that is too large is never rejected.
4. `compiler_backend`: `build_ir` asks whether the front end was successful, `build`
   does not ask the back end. A program that fails there is written as an empty
   binary, or whatever was returned, and the exit status is success. A class with an
   empty binary has fewer elements in `binaries` than it declares, or, when another
   binary follows the empty one, does not compile.

The following were met while modelling and have no run, because nothing in the
repository promises otherwise, or because a property above states the exception.

* `File::~File` ignores what `fclose` returns, so that an output that does not fit on
  the disk ends in success although `write` says "Failed to write to file." for the same
  error a moment earlier (`lost`; `DevicesFindTheirs` excludes it). When both names are
  those of one file, the source is emptied before it is read.
* The poll for the word (R 1225) has no limit. A hang takes a batch off the GPU and lets
  `gem_wait` succeed although the word was never written, and the call goes round for
  ever (`CallEnds` has the case, and no other).
* The constructor of `XCBWindow` (D 385-388, and the same in the gradients) catches every
  exception and keeps it to itself. `main` goes on with an object without a window,
  `create_i915_rte` fails for the empty name of a device, and while that exception
  unwinds, `~XCBWindow` calls `remove_window`, which throws because the window is not in the
  map: `std::terminate`. `AbortsOnlyUnreported` says that this is the only way there.
* In the gradients' kernel a line's colour is its number divided by `height / 7`. Below
  seven lines that divides by zero; below 42 lines the index may run past the entries of
  the colour map. The window manager may make a window that small.
* The display looks at the size of the last event that was read, `get_backbuffer` has
  the size of now: between the two the kernel may be told a frame larger than the source
  images (`PixelsDefined` has the case).

## 8. Not modelled, and why

* What commands, surface states and state heaps contain, bit by bit: `execute`
  writes them without reading them back, and only the hardware documentation
  could say what is right. The generated accessors that pack them are planned.
* The driver's memory management, preemption and the hardware, except for what
  `execute` relies on (marked external in the map).
* `tools/generate_gen_headers.py`: it has no state, and the headers it writes are not in
  the repository, so that a model of an accessor would be one of the generator's text. A
  reader of it will notice that the width of a field is `start - end + 1` at line 209 and
  `end - start + 1` at 326, that `name` at 214 is not defined when a structure has a
  group, and that the test at 290 accepts a bit just behind the last dword.
* The demos without a window: straight-line callers of the runtime.
* The checksum is a pure function on words and a parameter of `ProgBinary`.
* Public abstract classes, build files, vendored code: no behaviour of their own.
* Destroying the environment before the objects that refer to it: forbidden to
  the user by the note at `i915_runtime_impl.h:94`.
* In the bound check of `set_param` (K 80) the offset of a parameter plus its size is a
  32-bit sum; it is taken not to wrap, since the compiler's offsets are inside of the
  data it sized.
* Local ids are 16 bits in the code. Groups that reach the loop have at most
  1024 lanes, so that they do not wrap; groups that pass the limit by wrapping
  (finding 2) have remainders that are not followed further.

## 9. Plan

All components with a state of their own are modelled. What is left, in the order of
importance:

1. `GenHeaders`: packing and bounds of generated accessors, `canonical_address`, once
   generated headers or a way to get them are part of the repository.
2. The device info queries of the DRM wrappers in `RteLifecycle`, as more than a query that
   may fail.
