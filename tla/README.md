# Specifications of the MUSA backend

TLA+ modules, TLC configurations and TLAPS proofs for the MUSA (Moore Threads
GPU) backend of PaddlePaddle in `src/backends/musa`, abbreviated `M/` below.
The backend is a plugin: the framework loads it, fills a table of callbacks
from it (`M/runtime/runtime.mu`), registers its kernels, and builds it against
a Paddle tree that scripts have patched.  Paddle itself, the MUSA driver and
runtime, MuDNN, MCCL and MUPTI are outside the repository; they are modelled as
the code uses them and marked external in `PROJECT.json`.  So are mublas,
mutlass and Paddle's own kernels.

```
tlc -workers 2 -config MCMudnnHandlePool.cfg MCMudnnHandlePool    # a run
tlapm MudnnHandlePoolProofs.tla                                   # a proof
```

## 1. The system

| Component | Code | State | Operations | What is hard |
|---|---|---|---|---|
| MuDNN handle pool | `M/kernels/kernels_utils.h:630-1040` | created and available handles per device, a mutex, a static `shared_ptr`, one `thread_local` window per thread with a `weak_ptr` | `GetMudnnHandle`, `reserve`, `release`, static destruction | threads that come and go, a constructor that throws under the lock, the end of the program while threads are inside |
| Recorded GPU memory | `M/runtime/musa_platform_info.cc:110-430` | per device an atomic `cur_size_`, a limit | `Malloc`, `Free`, `MemCreate`, `MemRelease`, `GetMemInfo` | the lock of `Malloc` is commented out, unsigned arithmetic, the thread's current device, driver shutdown |
| Device handler | `M/runtime/musa_device_handler.mu` | the thread's current device, streams, events | streams, events, copies, synchronising | the asynchronous copies ignore their stream; blocking streams, the default stream, several devices |
| Communication kernels | `M/kernels/paddle_kernels/*` (`global_scatter`, `all_to_all`, `c_concat`, `c_scatter`, `p_send`, `p_recv`, `all_gather`, `all_reduce`, `reduce_scatter`, `broadcast`, `c_softmax_with_cross_entropy`, `class_center_sample`, ...), `M/kernels/paddle_funcs/musa_send_recv_functor.h` | per rank the operations on its stream, temporary tensors | one kernel per collective | ranks that wait for each other, offsets in two different orders, memory freed on the host while the device uses it, results that several ranks must agree on |
| MCCL handler | `M/runtime/mccl_handler.cc` | an open group per thread | one call of MCCL per callback, `McclAll2All` | errors inside a group |
| Profiler and tracer | `M/runtime/profiler_handler.cc`, `process_mupti_data.cc` | queue of activity buffers under a lock, start times of the session | six callbacks of the framework, two of MUPTI | MUPTI's own threads, buffers of an earlier session, buffers without records |
| Hack rule engine | `M/tools/apply_hack_rules.py` | the Paddle tree | two passes over the rule files of the targets | failing and interrupted runs, a write cut short, rules applied twice, dry runs, order of the rule files |
| Hack rule generator | `M/tools/update_hack_rule_from_diff.py` | rule files and the mapping | a rule from a diff, a JSON rule | replay of what was written, names that clash |
| Build | `M/tools/build.sh` and friends | the Paddle tree | reset, apply, build | exit codes that nobody looks at |
| MuDNN workspace, singleton handle | `M/kernels/musa_context.h`, `.cc` | an allocation, a mutex, a `once_flag` | `RunFunc`, `ReallocWorkspace`, `GetDnnHandle` | reallocation outside the lock |
| FFT | `M/kernels/paddle_funcs/fft.mu` | a plan cache per device | `exec_fft` | a plan is used after the unlock |
| BLAS and BlasLt wrappers | `M/kernels/paddle_funcs/blas/*`, `mublaslt.h`, `M/runtime/mublas_handler.h` | a cache of descriptors and algorithms | a wrapper per function and element type, autotuning | row-major matrices for a column-major library, sizes in 32 bits, what a cache key leaves out |
| Matrix products | `M/kernels/paddle_impl/musa_matmul_kernel_impl.h`, `batched_gemm_kernel_register.cc` | none | `matmul` for two libraries and five families of types | broadcasting, vectors, int8 and float8 with demands of their own |
| Softmax, layer normalisation, embeddings | `M/kernels/paddle_dnn/softmax_musadnn.h`, `M/kernels/paddle_funcs/layer_norm_impl.mu.h`, `emb_eltwise_layer_norm_functor.cu` | registers and shared memory of a block | device kernels and the drivers that choose among them | barriers, reuse of shared memory, tails, reductions over warps, blocks and kernels |
| Attention | `M/kernels/flash_attn/*`, `kernels_utils.h` | none | padding, masks, muDNN and mutlass attention | sequences of different lengths, layouts, pages |
| Information, flags, loader | `musa_info.cc`, `flags.cc`, `M/hack/*dyload*` | lazily opened libraries, `once_flag`s | queries | |
| Other kernels | rest of `M/kernels` | none of their own | one call of Paddle or muDNN each | |

How they interact.  The framework calls the device handler, the MCCL handler
and the profiler through C function pointers, from many threads.  Kernels run
on a thread of the framework; they ask `GetMudnnHandle` for a handle on the
thread's current device, allocate through the recorded memory (directly or by
the allocators of the framework) and launch on the stream of their context,
which `CreateMusaStream` made.  Matrix products go through the BLAS wrappers,
linear layers through BlasLt and its cache; softmax, layer normalisation and
the padding of attention are device kernels of the repository.  The communication kernels go through Paddle's
`XCCLCommContext` to the MCCL handler.  The tools run before any of this, when
a tree is built.  Shared state is therefore: the pool (mutex, weak and strong
references), the counters of recorded memory (atomics), the current device of
a thread (changed by everybody, restored by some), the streams, the tracer's
queue (mutex), and the files of the Paddle tree.

What makes each part correct, and is stated below: a handle has one user, none
is lost and no more are made than threads need; counters are exact and guards
restore the device; work on a stream is done in its order; data of a
collective arrives where the operation's definition says and nobody waits
forever; every output of a kernel is computed from the elements its
definition names, each taken once, whatever shape chooses the kernel; a profiling session reports its own records, all of them, once; rules
are applied in an order that does not depend on the selection, a failing rule
file leaves no half-written file, and a generated rule reproduces the edit it
was made from.

## 2. Modules

| Module | Models | Checked by | Proved in |
|---|---|---|---|
| `HandleLease` | abstract: what a kernel may rely on when it asks for a handle | | |
| `MudnnHandlePool` | `kernels_utils.h`; implements `HandleLease` | `MCMudnnHandlePool`, 2 cfgs | `MudnnHandlePoolProofs` |
| `RecordedGpuMalloc` | `musa_platform_info.cc` | `MCRecordedGpuMalloc` | `RecordedGpuMallocProofs` |
| `StreamOrder` | abstract: streams do their work in order, behind events | | |
| `MusaDevice` | `musa_device_handler.mu`; implements `StreamOrder` | `MCMusaDevice` | `MusaDeviceProofs` |
| `MCCL` | external: communicator and streams | with `Collectives` | |
| `ParallelCrossEntropy` | kernels of both `c_softmax_with_*cross_entropy` between their reductions | with `Collectives` | |
| `ClassCenterSample` | `class_center_sample` of one rank, after its reduction | with `Collectives` | |
| `Collectives` | communication kernels and `mccl_handler.cc`, over `MCCL` and the two above | `MCCollectives` | `CollectivesProofs` |
| `CollectivesInvariant` | no code: the invariant of those proofs, in terms of `Collectives` | | `CollectivesProofs` |
| `MusaProfiler` | `profiler_handler.cc`, `process_mupti_data.cc` | `MCMusaProfiler` | `MusaProfilerProofs` |
| `HackRuleEngine` | operators: parse, match, replace | with the two below | |
| `HackRules` | `main()` of `apply_hack_rules.py`, the reset of `build.sh` | `MCHackRules`, 3 cfgs | `HackRulesProofs` |
| `HackRuleUpdate` | `update_hack_rule_from_diff.py`, replayed by the engine | `MCHackRuleUpdate`, 2 cfgs | `HackRuleUpdateProofs` |
| `ThreadBlock` | external: warps, shared memory, barriers, grids and streams of the GPU | `MCKernels` | |
| `WarpReductions` | the warp reductions of both kernel files, over `ThreadBlock` | `MCKernels` | |
| `SoftmaxKernels` | `softmax_musadnn.h` | `MCKernels` | |
| `LayerNormKernels` | `layer_norm_impl.mu.h`, the driver in `layer_norm_kernel_register.mu` | `MCKernels` | |
| `EmbLayerNorm` | `emb_eltwise_layer_norm_functor.cu` | `MCKernels` | |
| `Blas`, `BlasCalls` | `blas_impl.mu.h`: products, and every other function | `MCKernels` | |
| `BlasLt`, `MublasLt` | `blaslt_impl.mu.h`, `mublaslt.h`: descriptors and layouts | `MCKernels` | |
| `LinearLt` | `blaslt_impl.mu.h`: epilogues, gradients, autotuning, the cache | `MCKernels` | |
| `Matmul` | `musa_matmul_kernel_impl.h`, `batched_gemm_kernel_register.cc` | `MCKernels` | |
| `Attention` | flash attention, padding and masks of `kernels_utils.h` | `MCKernels` | |
| `KVCache` | `flash_attn_kvcache_mate.cu` | `MCKernels` | |
| `Scatter` | `scatter.cu.h`, `scatter_kernel_register.mu` | `MCKernels` | |
| `SequenceLemmas` | no code: what the proofs need of sequences | | itself |

The kernel modules extend each other in the order `ThreadBlock`,
`WarpReductions`, then `SoftmaxKernels` or `LayerNormKernels` and
`EmbLayerNorm`, or `Scatter`, or `Blas`, `BlasLt`, `MublasLt`, `Matmul`, then `BlasCalls`
and `LinearLt`, or `Attention` and `KVCache`; `MCKernels` takes them all.

Definitions called "mutant" in a module are plausible bugs of the definition
below them.  They are not part of the specification; each is a way to see that
a property notices.

### MudnnHandlePool

`poolRef` is the function-local static `shared_ptr` (`kernels_utils.h:1032`),
`strong` the threads that hold the result of `weak_parent_.lock()`, `mutex`
the pool's mutex, `created`/`available` its two maps, `window` the
`internal_handles_` of each thread.  `reserve()` is `LockParent`, `LockMutex`,
then `TakeAvailable` and `PopAvailable` (lines 698 and 699, between which the
handle is in two tables) or `CreateHandle` or `CreateFails` (the constructor
throws inside `emplace_back`), then `DropParent`, in the order in which C++
destroys the locals.  `release()` is `ReleaseLockParent`, `LockMutex`, one
`Release` per device in any order (an `unordered_map`), `ReleaseDone`,
`DropParent`.  The pool dies with its last strong reference (`Outlives`);
`DestroyMuDNNHandle` has an empty body, so handles survive it.

### RecordedGpuMalloc

Memory is a set of pages of which each device has some; an allocation is the
set of its pages, so that sizes, overlap and devices follow.  An operation is
a sequence of steps: `Malloc` checks the limit and enters the device guard,
`MallocSucceeds`/`MallocFails` is the driver, `CountMalloc` the `fetch_add`
and the guard's destructor; `Free`, `MemCreate`, `MemRelease` and `GetMemInfo`
likewise.  The counter is an integer modulo `W` (2^64 in the code); `W` is
larger than all the memory counted once per thread and twice more, so that the
counter itself never wraps, but `limit_size_ - cur_size_` of `GetMemInfo` does
when racing threads have overshot the limit.  `MemInfoLeavesRoom` says of a
report what matters in either case: it leaves room under the limit for all that
the helper has handed out, or more than the limit is recorded and the report is
what the driver said, the limit ignored.
`abandoned` are allocations that were freed when the driver had shut down
(`CudartUnloading`).  `back` is what a `CUDADeviceGuard` restores.

### MusaDevice

`work` is all the work ever issued, each piece with the stream it is really on
(`on`), the stream its caller wanted (`for`) and the event it is behind;
`pending` what is not done.  `Precedes` states MUSA's order, which is CUDA's
with the legacy default stream: one stream is first-in first-out, and the
default stream of a device waits for all blocking streams and they for it.
The asynchronous copies (`:318-374`) drop their stream argument, so `on` is
the default stream and `for` is the caller's.  A copy to pageable memory, a
synchronous copy and the synchronising calls make the thread wait for a set of
work; `upto` is what the caller takes for done when the call returns.

### MCCL and Collectives

The communicator promises only what MCCL's kind does: within a group the
operations proceed in any order, except that two between the same ranks match
in the order of the calls; groups on a stream run one after the other; nothing
is buffered; a collective waits for all ranks.  A kernel's actions append
groups to its rank's `stream`, fill fresh device memory with `Unwritten`, and
wait where the host does (`Drained`).  An element is the triple of rank, call
and index in the sender's tensor, so that a misplaced, missing or stale
element is a different one.  `global_scatter` computes `recv_ptr` and
`expert_ptr` as the code does, one group per expert; its result is compared
with the definition of the operation (`ScatteredRows`), which does not use them.
A reduction of such elements is the set of them with the operation's name.

The parallel cross entropies launch kernels and in-place reductions of numbers
one after the other (`CSoftmax`); `RunKernel` runs the kernels between two
reductions.  Logits are small integers and `e^v` is a power of ten, so that a
sum is known term by term; loss and softmax are compared with those of rows
that are the concatenation of all ranks' (`CrossEntropy`).
`class_center_sample` reduces the numbers of classes, waits, and runs its
fourteen steps with random keys for the classes that are no label
(`ClassCenters`); `LabelsFound` follows every renumbered label back to the
sample of the rank that owns its class.  Types and operations that MCCL has no
name for raise before anything is launched (`PostOrRaise`), on all ranks.

The kernels take the counts and shapes they are called with as they are; that
they are numbers, and that the ranks call fitting operations in fitting order,
is the framework's part.  `ProgramsAssumption` states it, pair by pair of
ranks: the calls of one that send to the other and the calls of the other that
receive from it, in their orders, are of the same tensors, and all ranks make
the same collective calls.  Calls of different kinds may be in different orders
on different ranks, and nothing is assumed of `global_count` or of the shapes
that are received: the first is what the ranks' `local_count` say, the second
is what arrives.

### MusaProfiler

MUPTI's threads request, fill and complete buffers at any time, also late and
empty; the controlling thread goes through the callbacks and `ProfilerStart`,
`ProfilerCollectData` and `ProfilerFinalize` are several steps each, since
MUPTI runs in between.  `local` is the list that `ConsumeBuffers` swaps out
under the lock, `processed` the records that the loop over its first buffer
has taken; a buffer is freed when the loop is through.  A record is the moment
it was made.

### HackRuleEngine, HackRules, HackRuleUpdate

A line is an indentation, a mark for `include` and a symbol; a `.hackdiff` file
a sequence of blocks of signed lines.  The two parsings of a block (strict and
with one space stripped), the search order of candidates, the test for "already
applied" and for partial matches, JSON rules with their `max` and `#include`
exemption are operators.  `HackRules` runs them: `Start` (or a target is
missing), `Apply` per rule file, `Raises`, `Ends`, `Interrupted` between two
writes, `InterruptedWriting` inside `write_text` (the target is left with some
of the first lines of what was to be written), and the reset of the tree.  Every
run that ended is in `reports`, the interrupted ones too, with the target whose
write was cut short, if any (`torn`).  `Work(selected)` is the order in which
the two passes of `main()` come to the rule files; `Replay` is what a list of
rule files makes of one target, and `FilesOf(p)` are the rule files of one
target, `.hackdiff` files first.  `HackRuleUpdate` is the generator: the
developer edits files (`Edit`), a call of the tool parses the diff into hunks and overwrites the file's rule (`Main`),
attaches JSON rules one after the other (`AddOrReuseJsonRule`) and writes the
mapping (`WriteMapping`); between any two writes the call can be interrupted
(`Interrupted`), and a hunk without old lines raises before the first.  A diff
is a shortest edit script with some lines of context; `Hunks` drops the
changed lines that look like a header (`parse_unified_diff` does, at line 63).
A dry run writes nothing and is no action.

### ThreadBlock and WarpReductions

A kernel is a grid of blocks, a block a straight program: its loops are
unrolled for the sizes of one launch, and every instruction says which threads
execute it and what each does.  The host's driver code is an operator that
yields the kernels of a launch, so a launch is: choose kernels, run each
kernel's blocks one after the other (blocks of a grid share nothing but
outputs, kernels follow each other on a stream), each block's warps in
lockstep and all warps interleaved.  A value is the bag of the elements that
were combined into it: a sum that leaves an element out, takes one twice, reads
shared memory nobody wrote (`Garbage`) or takes a deviation from an unfinished
mean holds another bag than it should.  Rounding and the order of additions are
therefore abstracted, and of the rest of the data flow what the sections below
name.

A barrier is passed when every warp that has not ended is at the same one;
warps that have ended do not count, as on the hardware.  A warp none of whose
threads reaches a `__syncthreads` runs past it.  Two reductions keep the state
space small and lose no behaviour: steps on a warp's own registers go first
(`Private`), and between two barriers warps access shared memory one after the
other in every order (`turn`); `NoSharedRace` looks at all accesses between
two barriers, and without a race their order makes no difference.

### SoftmaxKernels, LayerNormKernels, EmbLayerNorm

One operator per `__global__` function, one per driver, with the names of the
code.  Softmax: a warp per one or two rows (`WarpSoftmaxForward`,
`WarpSoftmaxBackward`) up to `2^MaxLog2` columns, a block per column group for
other axes (`NormalSoftmaxForward`, with `kps::Reduce` inside its loop).  Layer
normalisation: the three branches of the driver (`LayerNorm`) are
`fast_ln_fwd_kernel` by warps of a CTA (`FastKernel`: certain sizes, and both
scale and bias given), `LayerNormFwdWithWelford` with a warp to a row
(`LaunchLayerNormKernel`: the fast math flag, up to 1024 columns), and
`LayerNormForward` by blocks (`BlockKernel`).  The factor scale and the summand
bias of an output are part of its own element and not traced there; the
comparison of the element types of x, scale and bias is left out.  Backward,
the seven cases of `gradient_flag` with their fixed-size, vectorised,
small-feature and fast variants, which reduce over rows in one kernel and over parts in the next through temporary buffers; whether d_x has
the factor scale is traced (`Factor`).  One launch is left out: a single row,
with scale given, d_x asked for and the gradient of scale not.  There
`LayerNormBackwardWhenBatchSizeIsOne` (`layer_norm_impl.mu.h:1863`) looks at
`d_scale` where every other kernel looks at `scale`, so that d_x lacks the
factor, and `ResultsExact` does not hold; no comment, doc or test speaks of it.
`EmbLayerNorm` sends ids through shared memory and its sums through the output.

### Scatter

`scatter` puts updates into the rows that an index names, or adds them up
there: rows are zeroed first and then added with atomics (`scatter.cu.h`), or a
thread per element of a row goes through the whole index
(`ScatterAddNoAtomicKernel`, what `ScatterKernel` takes without `overwrite`).
An atomic addition reads and writes shared output in one step that other
threads' additions may come before or after (`AtomicStep`); with `overwrite`
and an index that names a row twice either update may stay, and the inputs
have no such index.  `ScatterBlock`, `ScatterGrid` and `ScatterLoop` are 8, 2
and 1 here, so that a loop over more than 16 elements is gone round twice.
`scatter_kernel_register.mu` includes Paddle's `scatter.cu.h`, of which the
repository's is the port; nothing in the repository calls the additions with
atomics, the gradient and `scatter_nd_add` of it.

### Blas, BlasCalls, BlasLt, MublasLt, Matmul

The library computes column-major products of index sets (`MublasGemm`); the
wrappers' exchange of operands, leading dimensions, casts to 32 bits
(`IntMax`), limits (`CheckGEMMNSize`) and strides are as written, per element
type.  A wrapper is a record [takes, kernels]: whether its checks let the call
through, and what it launches.  `Matmul` is `MatMulFunction` with its vector,
broadcast and batch cases for both libraries, int8 with its fall-back, float8,
`MatmulWithFlatten`, `LegacyMatmul` and `batched_gemm`.  `expected` is the
definition of the product by rows and columns, which uses none of this.

### LinearLt

`MatmulPlanner` and its key, descriptors with their epilogues, the gradients
of a linear layer (`FusedGEMMGradTrait` says which operands, transposed or
not) and autotuning.  Two layers run one after the other: the second may find
the descriptor and the algorithm that the first left under its key, so that a
key that leaves something out shows as a wrong result.

### Attention and KVCache

`Attention` brings q, k and v into muDNN's layout, pads packed sequences with
zeros to the longest (`PaddingKernel`, the tiles of its block, vectors of
`VecElements`), masks the padding, calls muDNN (external: an output attends to
the positions its mask allows) and packs the result, forward and backward.
`KVCache` is `flash_attn_kvcache_mate`: its checks in order, the strides it
derives for batched, packed and paged keys, and the launchers that choose a
tile; mutlass's kernel reads elements by those strides, and the expected
output names them by position.

## 3. Runs

All bounds are in the cfg files.

| Run | Instance | What it shows |
|---|---|---|
| `pool_safety` | 2 threads that are replaced by new ones, 2 devices, 4 handles, 2 streams, 1 throwing constructor | `ExclusiveLease`, `NoHandleLost`, `HandlesBounded`, `KernelOwnsHandle` |
| `pool_lease_teardown` | 2 threads, 1 device, fairness | `ImplementsLease` (refinement of `HandleLease`), `PoolTornDown` |
| `malloc_accounting` | 2 threads, a device of 4 pages and one of 1, requests of up to 2, limit 1, a counter modulo 32 | `AccountingExact`, `BlocksOnDevice`, `DeviceRestored`, `MemInfoLeavesRoom`, and `OvershootBounded`: racing threads exceed the limit, by how much at most |
| `device_streams` | 2 threads, 2 devices, 2 streams, 1 event, 3 pieces of work | `ImplementsStreams` (refinement of `StreamOrder`), `SyncCovers` |
| `collectives` | 3 ranks; programs of one or two calls of every kind and pipelines; cross entropies of two rows and six classes, samples of seven classes | `CountsMatch`, `TempsAlive`, `Delivered`, `AllCallsComplete` |
| `profiler` | 3 buffers of 2 records, 4 moments | `OwnedOnce`, `OnlyEmptyLeaked`, `EventsOfThisSession`, `ReportedOnce`, `SessionComplete`, `ReportedEventually` |
| `hack_rules` | every list of up to two rule files out of ten shapes on one target, one out of six on each of two; 2 runs with resets, failures, interrupts between two writes and inside one | `NoHalfAppliedFile`, `ReplayIsPerFile`, `DoneMeansAdapted` |
| `hack_rules_reapply` | one inserting rule, 2 runs | violation of `ReapplyKeeps` |
| `hack_rules_dry_run` | one target, 2 runs | violation of `DryRunPredicts` |
| `hack_update` | 3 files, clashing names of rule files and JSON files, diffs of one and two hunks, 4 edits or calls of which any is interrupted anywhere | `ReplayOfExpressible`, `JsonRulesKept` |
| `hack_update_one_space` | 1 file with a line indented by one space | violation of `ReplayIsExact` |
| `kernels` | one launch after its choice among all of `AllLaunches`; warps of 4 threads, blocks of 8, constants of the code scaled with them | `NoSharedRace`, `ResultsExact`, `LaunchEnds` |

Every passing run also checks the type invariant of its module, but for those
that share a module with one that does.

Why the bounds are enough.  Two threads make every race of the pool: a third
one adds no new pair of steps, and with `NewThread` a run has arbitrarily many
threads one after the other; four handles are what two threads on two devices
can need.  With pages, two threads and two devices, memory that one thread
frees can be given to the other before the counter is adjusted, on the same
or another device.  The order of streams relates two pieces of work, and a
third one is an event's record or a copy between them; the proof covers more.
Three ranks are the fewest in which a rank's neighbours differ and a pipeline
has a middle.  Three buffers are one that stays empty, one of an earlier
session and one of this one.  Rule files interact only through the lines of
their target, and two in either order show it.

The kernels' constants (warp size, block sizes, rows per CTA, vector widths,
tiles) are scaled down together, and the shapes of a launch are chosen so that
every driver takes every branch: rows below, at and above a warp's and a
block's share, with and without a tail, one row, more rows than parts, batches
that agree, broadcast or are missing on one side, vectors on either side,
every transposition and element type, sizes just beyond what a 32-bit cast or
`CheckGEMMNSize` takes (`IntMax` and `MaxGemmN` stand for 2^31-1 and its
kind), sequences that are empty, of different lengths, packed, paged or parts
of another tensor, every form of a mask, and each call that one check refuses.
A reduction over warps has two of them, over blocks two, over parts three.

Deadlock is not checked where the system stops: programs of the ranks and
threads end, `MaxWork`, `MaxTime` and `MaxSteps` cut off the rest.  In
`collectives` everybody waiting for everybody is what `AllCallsComplete`
excludes.

Fairness.  `MudnnHandlePool!FairSpec`: a thread inside a call is scheduled
again (`WF` of `Work(t)`); no thread has to begin a call or end.
`MusaProfiler!FairSpec`: MUPTI completes its buffers when it is asked to flush,
and the controlling thread goes on within a call.  `Collectives!FairSpec`: some
enabled step of a host thread or of MCCL is taken; as programs are finite no
finer fairness is needed.  `ThreadBlock!Spec`: the device keeps running the
warps of a block it has started (`WF` of `Next`); kernels do not spin, so no
warp needs to be preferred, and `LaunchEnds` fails only by a barrier that some
warp does not reach.

### Findings

- `hack_rules_reapply`: a block whose new text contains its old text is applied
  again to a tree it was applied to (`apply_hack_rules.py:188` answers that it
  is not yet applied), against `hack/README.md:197`.  36 of the shipped blocks
  have this form.  Builds are not affected as long as `build.sh` resets the
  tree first.
- `hack_rules_dry_run`: a dry run applies every rule file of a target to the
  text on disk, so it does not predict a run with several rule files
  (`hack/README.md:94`).
- `hack_update_one_space`: a line indented by one space comes back without it
  (`hack/README.md:40`, `:225`).

Observations that the model makes visible and no run is about:
`Malloc`'s limit can be overshot by a request of every other thread; a
profiler buffer without records is never freed (8 MB each); synchronising a
stream does not wait for a last copy that went to the default stream.  Of the
generator: a changed line whose text begins with `-- ` or `++ ` is left out of
the rule; a JSON rule counts as present if its texts are, whatever its limit
and the other rules of its file are.  Of the kernels, each at the line where
it can be seen:

- `class_center_sample` counts its samples by a scan with
  `max(num_samples, b - a)` (`class_center_sample_kernel_register.mu:234`,
  `:524`).  In a scan `a` is the last result and not the last bound, so that
  from the second rank on a rank with more labels than `num_samples` may get
  fewer samples than labels, although the comment at `:519-521` wants all of
  them, and a rank with fewer may get more samples than it has classes.
  `LabelsFound` claims the first rank and ranks with at most `num_samples`
  labels; without this condition TLC finds labels that point at a sample of
  the next rank.
- Without `sum_multi_label_loss` the thread of row i clears `loss[i]`
  (`c_softmax_with_multi_label_cross_entropy_kernel_register.mu:97`), which is
  a loss of an earlier row when rows have several labels: `Endangered` are the
  entries that may be lost, and the run has calls without them; with two rows
  of two labels `Delivered` fails.  With several labels
  `c_softmax_with_cross_entropy` keeps the logits of N rows only (`:235`).
- `all_gather`, `all_reduce`, `reduce_scatter` and `broadcast` are registered
  for types that `PDDataType2McclDataType` does not know (16-bit integers,
  complex numbers); such calls raise.
- float8 products ignore the transpositions and read y's buffer as n rows of
  k elements, which is exact for one column or a square transposed y only
  (`mublaslt.h:255-290`, `musa_matmul_kernel_impl.h:1479-1533`); the run has
  those shapes.
- `MatMulInt8Function`'s checks of a vector pass shapes that `DescriptorSetter`
  then refuses; the strided `BatchedGEMM` casts sizes to 32 bits unchecked
  (`blas_impl.mu.h:2500`), `CUBlas<float>::GEMM_EX` likewise (`:132`).
- `UseCudnnSoftmax` (`softmax_musadnn.h:1315`) calls the library available when
  its handle is null, and `GetDnnHandle` throws on a null handle: the library's
  softmax is never taken.
- Autotuning (`blaslt_impl.mu.h`): with `use_addto` a measured product is
  accumulated (`:587`); with one repeat the variance of times is NaN and no
  algorithm is chosen; a descriptor of the cache is shared by threads and
  changed by `SetFusedEpiloguePtr` (`:306`); copying a `MatmulDescriptor`
  drops `M_`, `N_`, `K_`; `SearchBestAlgoGlobal` is given pointers to pointers.
- Attention takes a two-dimensional mask of the batch for one of positions when
  the sizes agree, a causal call drops the padding mask, and head sizes
  outside the switch start no kernel (`flash_attn_kvcache_mate.cu:65`).
- The KV cache ignores `seqused_k` without pages, `cu_seqlens_q` with them and
  `num_splits`; the log-sum-exp of a paged call has a batch stride of 0
  (`flash_attn_kvcache_mate.cu:470`).
- `GetDnnHandle` (`musa_context.h:97`) keeps the stream and device of its first
  caller; a workspace (`:45`) is made per kernel by value, so that its
  unlocked reallocation is not a race in this code.

## 4. Proofs

TLAPS proves these for every value of the constants, that is every number of
threads, devices, handles, pages, streams, events, buffers, records, ranks,
files, rules and runs.  Assumptions are the named `ASSUME`s of the modules
only.

`MudnnHandlePoolProofs`, from `PoolAssumption`: `TypeCorrect`, `PoolInvariant`,
`LeaseIsExclusive`, `NothingLost`, `HandlesAreReused`, `KernelKeepsHandle`,
`LeaseImplemented`.  `ExclusiveLease` is not inductive: that a created handle
is new needs `NoHandleLost`, and that only one thread takes a handle needs the
mutex to follow the program counters.  `PoolInv` adds `Locking` (who holds the
mutex and a reference), `Windows` (when a window has a handle for the current
device, and that between lines 698 and 699 it is the last of the list) and that
nothing is destroyed.  The bound on handles follows by counting: created
handles are held or available, a new one is made only when none is available,
and a thread holds at most one per device.  `LeaseImplemented` is the
refinement `Spec => ImplementsLease`: each action is one step of `HandleLease`
or a stutter, under `PoolInv` and what `KernelKeepsHandle` rests on; the end of
the pool, while threads are inside or not, is a stutter because no destructor
destroys a handle.

`RecordedGpuMallocProofs`, from `MemoryAssumption`: `CounterIsExact`,
`CounterInRange`, `GuardsRestoreDevice`, `MemoryOnItsDevice`,
`OvershootIsBounded`, `ReportsLeaveRoom`.  `AccountingInv` is that
allocations are disjoint, that operations know the size of what they handle,
and that the counter is the cardinality of live pages together with pages on
their way back, tagged with the thread because they may already be allocated
again.  Typing is proved with an unbounded counter first; that `fetch_sub`
never wraps is a consequence of exactness.  The bound on the overshoot is not
inductive as it stands: what every thread between its check and its
`fetch_add` is about to add has to be counted with it.  That a report honours
the limit is an action property; the unsigned difference of limit and counter
is treated with both its outcomes.

`MusaDeviceProofs`, from `DefaultAssumption`, `AbsentAssumption`,
`MaxWorkAssumption`: `DeviceInvariant`, `StreamsImplemented` (the refinement
`Spec => ImplementsStreams`), `DeviceTypeCorrect`, `SynchronisingIsEnough`.
`IInv` says that every stream is blocking and on the device it was asked for,
and that work is on its stream or on the default stream of the stream's
device.  Two pieces of work for one stream are then ordered by the device
(`SameStreamPrecedes`), which makes every step a step of `StreamOrder` or a
stutter.  `SInv` adds that work of one stream is done in order and that what a
waiting call promises is before what it waits for.

`MusaProfilerProofs`, from `ProfilerAssumption`: `ProfilerInvariant`,
`ProfilerTypeCorrect`, `BuffersHaveOneOwner`, `MemoryIsGivenBack`,
`SessionsAreSeparate`, `NoDuplicates`, `NothingMissing`.  `ProfilerInv` adds to
the properties `Phases` (in which state of the controlling thread MUPTI writes
and who holds buffers), `Clocks` (a session begins in the past, on both
clocks), `RecordsOnce` (a record is in one place of one buffer, and reported
only after it was read) and `RecordsKept` (a record of the session is reported
or in a buffer that will be read).  Buffers of an earlier session are the
hard case: they may arrive at any time, and what keeps them out of the report
is the comparison with the start of the session, so `Clocks` is needed.

`HackRulesProofs`, from `MappingsAssumption`, `TreesAssumption`,
`MaxRunsAssumption`: `ReplayInvariant`, `FailedRunsLeaveWholeFiles`,
`CompleteRunsArePerFile`, `OthersAreNotWritten`, `TextsInvariant`,
`HackRulesTypeCorrect`, `DoneRunsAreAdapted`.  The first four treat the
application of one rule file (`ApplyRuleFile`) as any function of lines and
file, so they do not depend on how a block is matched.  `ReplayInv` says that
every target holds what the rule files of `Work(selected)` before the next one
made of it; an interrupt inside a write leaves part of one more step of that
replay (`NextFileSteps`).  That a target gets the same from `Work(selected)` as from its own
`FilesOf(p)` follows item by item: `SameTo(s, t, p)` is that two lists of rule
files do the same to every text of p, and joining and flattening lists
preserve it.  It is here that the two passes matter, for each of them is
treated alone.

The other three open the engine.  Its loops (`ReplaceAll`, `JsonChain`, the
chain of blocks) are recursive functions; that each has values, and that they
stay in a set its step does not leave, is `Iterated` of `SequenceLemmas`.
From it: a rule file makes a text of a text and its number of replacements is
a natural number (`ApplyRuleFileIsTyped`), so every target is a text
whichever files were replayed (`TextsInvariant`), and the reports are at most
the runs that began (`HackRulesTypeCorrect`; the run that is under way is
counted with them, or its end would overstep).  `DoneMeansAdapted` is about
the last `.hackdiff` rule file of a target and the last block of it.  The last
of `FilesOf(p)` wrote the text that is there (`MadeByLastFile`), and a block
that did not raise left its new lines in it (`RuleLeavesItsText`): either
they were there already, or the first candidate that was found was replaced, and its
new lines stand where its old lines were first found.

`HackRuleUpdateProofs`, from `NamesAssumption`, `FilesAssumption`,
`RepositoryAssumption`: `UpdateInvariant`, `UpdateTypeCorrect`,
`RulesStayAttached`, `JsonFilesAreNeverWrittenOver`, `StoredInvariant`,
`ExpressibleComesBack`.  `RulesStayAttached` needs
that the rule file of a `.hackdiff` never has the name of a JSON file, that a
new JSON name is not taken, that a call in memory extends the mapping on disk
(one that is interrupted leaves it as it was), and that each rule the call was
asked for is attached in memory or still to do (`CallOK`).  `NamesAssumption`
is what the two naming functions of the tool do: one ends its names in
`.hackdiff`, the other in `.json`.

`ExpressibleComesBack` is `ReplayOfExpressible` for any files, rules, edits,
calls and interruptions.  Its part about states is `StoredInv`: the `.hackdiff`
file of a path is made of the path's committed lines and its lines of now, from the
write of the rule file on, also while the mapping that names it is only in
memory.  That holds only where no other path has a rule file of the same name
(`Own`); a call in memory changes no path's rule file (`FirstInMapping`: what
it attaches is the path's own file or a JSON file), so that nobody takes a name
over on the way to the disk.  The replay is then the path's `.hackdiff` file
followed by its JSON files (`OnlyHackDiff`), the first gives the lines of now,
and the JSON files never raise (`JsonNeverRaises`) and have nothing left to
replace on these lines (`FirstThenRest`).  Its part about texts is its
hypothesis, `DiffsReplay`: the hunks of one diff, applied to the old lines one
after the other, are found where they were.  That is false of some contents (where
equal lines make a match ambiguous) and true of others; TLC evaluates it for
the contents of both configurations (`ContentsReplay` in `MCHackRuleUpdate`).

`CollectivesProofs`, from `NRanksAssumption` and, for the last three,
`ProgramsAssumption`: `TempInvariant`, `NoTempOutlivesItsKernel`,
`CountsInvariant`, `CollectivesTypeCorrect`, `CountsAlwaysMatch`.  `TempInv`
says that a stream is a sequence of groups, and that a rank with a temporary
tensor in its stream has not left the kernel that allocated it; each kernel
either allocates none or waits for its stream before it returns.

`CountsMatch` is about two ranks that have launched their operations at
different times and in different kernels; nothing in the state says that the
send at the head of one stream was meant for the receive at the head of
another.  `CountsInv` of `CollectivesInvariant` says it: the groups of every
stream can be labelled with the call and the step that launched them, in order
(`Labelled`), each operation has the count that this call owes its channel in
this step (`Fits`, `Messages`), and what is left of a channel, ahead of the
host code or still in the stream, is the same at both its ends (`Agree`).  So
the operations that meet are the first left of both ends, hence of paired calls
and the same step (`LeastMeet`), and paired calls owe each other the same count
(`FittingMessages`).  The labels are in no variable: the invariant is that some
labelling exists, and each step shows the one after it, without the groups
that left the stream (`MovesAgree`) or with those that were launched
(`HostStep`).  A shape that is received before its tensor is the sender's
(`Shapes`), a tensor that is reduced in place exists by the time its reduction
is first in the stream (`Reductions`), and the output of a call has the size
that its counts add up to (`Buffers`): of `global_scatter`, whose loops visit
the experts and then the ranks while `global_count` is kept the other way
around, because the same units are counted in another order
(`CountsOfScatter`).  With that no receive goes past the end of its buffer,
which is the type invariant.

`SequenceLemmas` and `HackRulesProofs` show that the values of recursive
functions are what their definitions say (`FlattenSteps`, `AfterSteps`, and
`Iterated` for any step that stays in a set) and reason along them by the least place where something fails (`LeastOf`), since
the induction theorems of the library take an operator as a parameter.

Only model-checked:

- liveness (`PoolTornDown`, `ReportedEventually`, `AllCallsComplete`,
  `LaunchEnds`), which needs fairness and `ENABLED`;
- `DiffsReplay`, the hypothesis of `ExpressibleComesBack`: that the hunks of a
  diff of two contents are found again is an induction over texts, and TLC
  evaluates it for the contents at hand;
- `Collectives!Delivered`, which compares every element of the outputs with a
  definition of the operation: the proofs have counts and sizes, not contents;
- `ThreadBlock`'s invariants, which are about the programs of the launches in
  `MCKernels`.

## 5. Not modelled, and why

- `musaGetLastError` and the error flag of the driver, memory statistics, the
  set `gpu_ptrs` of testing builds (`musa_platform_info.cc:310`: erased after
  the memory was freed, so that an address given to another thread in between
  is lost from the set).
- Callbacks that only forward to one driver call; queries of the device.
  Two are worth noting: `musa_device_handler.mu:44` has a `once_flag` that is not
  static, and `:400` fills the properties of one device only.
- Destroying streams and events.
- `c_scatter` with `use_calc_stream` false, whose broadcast and copies are on
  two streams with nothing between them; MCCL calls that fail inside a group;
  `McclReduce`; several labels per row of `c_softmax_with_cross_entropy`;
  counts beyond 32 bits; `p_recv_array`'s allocation on a copy
  of an element that has no memory yet (`p_recv_kernel_register.cc:73`).
- Fields of a profiler event other than its time; thread names.
- Edit scripts of git other than the shortest with old lines first; a mapping
  file that is cut off while it is written; the shell of `build.sh` beyond the
  reset.
- Kernels that nothing starts: `KeMatrixSoftmax*`, the cuDNN paths of
  `softmax_musadnn.h`, `softmax_gpudnn.h`,
  `MatmulWithFlattenKernelInt8Impl` (its body is commented out); of the softmax
  with other axes only float's vector widths.
- `LegacyMatmul` for int8 and the `cuda_core_int8_gemm` flag; pointers of
  batches of real and complex doubles (`blas_impl.mu.h:2883`); threads that
  share a descriptor of the cache; float8 shapes other than those above.
- d_x of `layer_norm_grad` for a single row with scale given and its gradient
  not asked for (`layer_norm_impl.mu.h:1863`, see `LayerNormKernels` above);
  the check of the element types in the forward driver.
- Dropout of attention, softcap, rotary and quantised caches (refused by the
  code), empty keys, causal calls with fewer keys than queries, variable
  queries with pages.
- Rounding, overflow of floating point, the order of additions.
- Registrations and kernels of one library call, FFT, headers that rename
  CUDA, tables of symbols, tests, CI.

## 6. Plan

Done: the modules above, in the order pool, recorded memory, profiler, hack
rules, collectives, device streams, kernels (softmax, layer normalisation,
products, attention, linear layers, KV cache, embeddings, scatter), several hunks and
interrupted calls of the generator; proofs about the pool and its refinement,
recorded memory, device streams, the profiler, both hack rule tools, and the
temporary tensors, counts and buffers of the collectives.  Next, most important first:

1. `c_scatter` on the communication stream, as a second stream of a rank, and
   failing MCCL calls that leave a group open.
2. `FftPlanCache` (`fft.mu:175-225`): lookup under a lock, use and eviction
   without.
3. `EigenGpuStreamDevice`'s scratchpad and semaphore
   (`musa_device_handler.h:60-100`).
4. `Delivered` for any number of ranks, kernel by kernel, over `CountsInv`.
5. That a block whose warps reach the same barriers in the same order never
   stops early, for any number of warps.
6. `MusaDevice` composed with `Collectives`: copies of shapes go through the
   default stream; `c_embedding` and the reduction behind it.
