# Composable Kernel for HCU: a verification project

TLA+ models of the concurrent and the index-critical parts of this repository,
a fork of Composable Kernel for HCU devices.  The library is header-only C++
that generates GPU kernels.  Most of it is compile-time index algebra and
arithmetic; what is hard to test is how waves of a work group, work groups of a
grid and two ranks synchronise, and which part of the result each of them makes.
That is what is modelled.

Paths below are relative to `src/`; `FC` stands for
`include/ck_tile/ops/fused_conv`.

## 1. Inventory

| component | state | operations | interacts with | hard because |
|---|---|---|---|---|
| TLS WASP pipeline V1 (`FC/pipeline/fused_conv_igemm_pipeline_tls_wasp_agmem_bgmem_creg_v1.hpp`) | per wave: program point, loads in flight, window offset; per group: LDS ring | producer: load, wait, notify, await free; compute: await, read, fence, free, multiply | ebarriers, `wg_sync`, LDS | three programs run by 12 waves, matched only by counts |
| ebarrier (`include/ck_tile/core/arch/hcu_ebarrier.hpp`) | slots: expected, pending | arrive, sync | everything of a work group | counts waves, does not know them |
| persistent TLS WASP kernel (`FC/kernel/fused_conv_tls_wasp_persistant_kernel_v1.hpp`) | tile of each wave | tile loop, role dispatch | pipeline, epilogue, partitioner | waves are on different tiles; LDS and slots are reused |
| WASP epilogue V2 (`FC/epilogue/fused_conv_epilogue_wasp_v2.hpp`) | region of a warp group in LDS, operand buffers | prefetch, guard, write, guard, read, await operand, store | LDS and slots of the pipeline | write after read across waves; waits count loads and stores together |
| tile partitioner (`FC/kernel/fused_conv_persistant_tile_partitioner_v1.hpp`) | none | tile number to place | kernel, coordinate transforms | every tile once |
| two-rank GEMM v02 (`example_hcu/ck_tile/05_gemm_comm/versions/v02_single_kernel_pipeline`) | flags and data of two ranks, epoch | roles of CTAs, signals, host loop | MPI, symmetric memory | in-kernel waits, weak visibility, flags never reset |
| magic division (`include/ck_tile/core/utility/magic_div.hpp`) | magic numbers | calculate, divide | all merge transforms | widths and ranges |
| coordinate transforms (`include/ck_tile/core/algorithm/coordinate_transform.hpp`) | none | merge, unmerge, ... | descriptors | index algebra |
| two-kernel GEMM v03 (`05_gemm_comm/versions/v03_two_kernel_tiles`) | as v02, resident CTAs | as v02, in two kernels on two streams | v02's flags | one kernel spins for another that must still find room |
| direct communication GEMM v01 | | library calls | MPI | the library mode of v02 |
| WASP V3 pipeline and kernel (`FC/pipeline/fused_conv_igemm_pipeline_wasp_agmem_bgmem_creg_v3.hpp`, `FC/kernel/fused_conv_wasp_kernel_v3.hpp`) | per wave: program point, loads in flight, window; LDS ring | as TLS WASP | `s_barrier` only, epilogue V2 | three programs meet by the number of their barriers alone |
| WASP V1, V2, V2R1, MLS WASP pipelines (`FC/pipeline`) | as V3 | as V3 | | earlier forms |
| MoE sorting (`include/ck_tile/ops/fused_moe/kernel/moe_sorting_kernel.hpp`) | workspace: mesh, sums, semaphore; LDS: tokens, sums | one block: clear, load, count, scan, ids, fill; many: P0, P1, P01, P2, P3, P23 | host's choice of kernels, `workgroup_barrier` | waves share LDS with few barriers; blocks meet in global memory; work sizes round in many places |
| `workgroup_barrier` (`include/ck_tile/core/arch/workgroup_barrier.hpp`) | a word of global memory | inc, wait | blocks of a kernel | who counts and who waits is the caller's arithmetic |
| TLS and MLS pipelines without specialisation, FMHA, GEMM pipelines, stream-K, wave-let GEMM | LDS, registers | load, wait, multiply | | numerics; subset of the hazards above |
| reductions, batch norm, block-to-tile maps, atomics, buffers | | | | separate launches, pure maps |
| host references, instances, profiler, client examples, build | | | | sequential or generated |

What makes each of those that are modelled correct:

* pipeline: a stage is not written while it is read; every wave accumulates
  exactly the K tiles of the problem in order; every wave returns, with nothing
  left in flight and no arrival left in a slot;
* ebarrier: a phase completes for all waves that sync in it;
* persistent kernel and epilogue: LDS and slots are handed over, a tile's sum
  does not depend on the tile before, every part of every tile is stored;
* partitioner and tile loop: every tile of the output exactly once;
* two-rank GEMM, in one kernel or two: only results of this epoch are added,
  they hold still while they are, both ranks get through every epoch;
* V3 kernel: as pipeline, persistent kernel and epilogue, and all waves of a
  work group barrier are at the same barrier;
* MoE sorting: the lists are the reference's, whatever kernels the host picks
  and in whatever order waves and blocks run, also when the sort is repeated on
  the workspace it has left; nothing is written past a buffer; nobody counts
  before all have entered, and the barrier opens;
* magic division: the quotient.

`PROJECT.json` lists all components with their status, and the hazards with the
line where each bites.

## 2. Modules

| module | models |
|---|---|
| `HcuEbarrier` | a slot of the ebarrier: operators on a record, no state of its own |
| `LdsStages` | the LDS ring of a pipeline: waves, loads in flight, landing, reads, data races |
| `TlsWaspPipeline` | one output tile of the TLS WASP pipeline, all waves; extends `LdsStages`, `HcuEbarrier` |
| `KContraction` | abstract: what a pipeline promises for an output tile |
| `TlsWaspPersistent` | extends the pipeline by the epilogue, with its operands, and the tile loop of a block |
| `WaspKernelV3` | a work group of the V3 kernel: pipeline, epilogue and tile loop with one barrier; extends `LdsStages` |
| `PersistentTiles` | how blocks divide the tiles; a tile's work is a step |
| `GemmComm` | two ranks of the v02 and v03 GEMM with the host loop |
| `MoeSortReference` | what a sort is, and the buffers it writes |
| `WaveScan` | sums and prefix sums over the threads of a block, as waves compute them |
| `MoeSortingMp` | the multi-phase kernels and their workspace |
| `MoeSortingEx` | the sort by one block, wave by wave |
| `MoeSorting` | composes the two under the host's choice and its repeated launches |
| `MagicDivision` | magic numbers and the division, by width |
| `MC...` | the constants of the instances that TLC checks |
| `..._proofs` | theorems about the module of that name; `TlsWasp_proofs` is about `TlsWaspPipeline` and `TlsWaspPersistent`, `MoeSortReference_proofs` about `MoeSorting` and its reference |

Some modules hold, in front of an operator `X`, variants `X_What`: the operator
with a defect (a missing wait, an off-by-one, a wrong count).  No
specification uses them.  `PROJECT.json` pairs each property with the variant
it rejects; they document what a property is able to see.

### TlsWaspPipeline

A wave is a pair of its warp group and its number.  `pc` names the next barrier
operation of the wave's program; an action is that operation with the register
work around it.  `n` is the iteration, the product of the do-while main loop and
the unrolled tail (`NumIter`, `IsTailLoop`, `IsLastLoop`); during the prologue
it counts the initial tiles.  An ebarrier `sync` counts the wave and moves it on
while the slot records it as waiting; a waiting wave can do nothing (`At`).

Loads are records in `vmq[p]`, the queue that `s_waitcnt vmcnt` counts.
`Land(p)` completes the oldest.  A stage of the ring is, per operand, the tile
whose part each producer wave last landed; a read returns a tile only if all
parts are of the same tile and nothing is on its way to the slot (`Content`).
The addresses inside a tile, the swizzles and the matrix product are abstracted:
a product is the K tile number of its operands, or `NoTile` if they differ.
A K tile is `coffset * FilterUnroll + samp_idx`, the window's channel offset and
the tap sampled, so the order in which windows advance is checked.

The two sides of `is_input_shared` differ only in which tensor is the shared
operand, hence `sh`, `pr_major`, `pr_minor`.

### TlsWaspPersistent

Adds the epilogue's points to `pc`.  A region of LDS per warp group holds the
part that each wave last wrote; `writing` and `loading` are the LDS operations
in flight, which end at the `lds_fence` or at the use of the value.  `EpiBar` is
the slot with the number of the rank, which the pipeline also uses for its
"loaded" barriers.  Producer waves go from the pipeline straight to the next
tile.

`OperandIssue` is the number of load instructions for the bias and the residual
of a part: 0 is the unary epilogue.  Operands are loaded `NumPrefetch` parts
ahead into register buffers; `epivmq` is the wave's queue of these loads and of
its own stores, in order, and `waitcnt_operand` the number that may stay in it.
A wait completes as many of the oldest as it demands (`FenceLands`) and may
find more completed, so that too large a count shows as a part stored with the
operand of another.

### WaspKernelV3

The devices this kernel is built for have no ebarriers.  `pc` names the barrier
a wave comes to or the step between two; `WgSync` fires when all waves of the
block that have not ended stand at *some* barrier, and moves each on in its own
program.  Nothing in it demands that it be the same barrier: that is
`BarriersAligned`.  Any instance with up to three stages and any supported
number of K tiles up to `MaxRounds` rounds is an initial state, since the
wait counts and the part of a stage that is refilled before the second barrier
depend on both.  Iterations are run in lock-step with barriers, so producers
refill the major operand's part of a stage while minor waves have yet to read the
rest: `NoLdsRace` is about that.  The producers take part in the barriers of
the epilogue (`EpiStart`).  The epilogue's operands are left to
`TlsWaspPersistent`.

### PersistentTiles

`Digits` and `Unmerge` are the merge and unmerge transforms the partitioner
chains; `ksplit`, always 1 in the kernel, has no digit.  Divisions are exact
here: that the code's magic division computes them is `MagicDivision`.
The ASSUME that cluster lengths divide the output holds in the kernel, which
passes 1 for both; the partitioner's round-up of `M00` and `N00` would
otherwise number tiles that do not exist.

### GemmComm

`cta` and `tile` are the program point and the loop variable of each CTA;
leader-thread waits with the `__syncthreads` after them are one action.  A
result is its epoch; `partial` is what the own rank sees and `peer_partial` what
the peer sees.  `Drain` lets a store become visible to the peer at any time, and
`FenceSystem` at the latest.  Signals are a set: they may overtake each other,
and `dushmem_quiet` waits until the CTA's own is delivered.  The host's
`MPI_Barrier` and `MPI_Allreduce` are collectives that nobody leaves before all
have arrived.  `Errors` is the comparison the check kernel makes.
Library mode is one action per rank.

In v03's modes (4 to 6) the roles are two kernels: a CTA is `queued` when its
kernel is dispatched and starts when fewer than `Slots` CTAs of the rank are
resident (`MayStart`).  The producer's CTAs are finite work, the consumer's
spin; the comment of `two_kernel.hpp` that the bounded consumer grid avoids a
circular wait is the assumption `Comm < Slots`, with `Slots` smaller than the
number of all CTAs.  `Dispatch` has the events between the two streams.

### MoeSorting

A problem is a record of `Inputs`: tokens, experts, the experts that each token
names, and a mask of the experts this device holds.  An entry of the sorted
list is the pair that an id packs, with the index of its weight.

`MoeSortReference` is the host's reference and the sizes of the buffers.
`WaveScan` computes a prefix sum as the DPP rows of a wave, then the wave, then
the block do, and is what the phases use where the code does.

In `MoeSortingMp` the blocks of P0, P1, P2, P3 and P23 write disjoint words and
never wait, so a block is a step; blocks run in any order and kernels in launch
order.  P01 has three steps around its barrier, the increment and the wait being
`inc` and `wait_lt` of `workgroup_barrier`.  `IsOneshot` and `SubTokens` are the
host's choice; `Paths` the kernels it launches.  P01 is compiled only with
`MOE_SORTING_FUSE_MP_01`, and P2 and P3 are used where an expert's sums do not
fit P23 (`MOE_SORTING_SUPPORT_LARGE_EXPERT`).

P2 and P23 sum the units of the experts in whole rounds of the block, so their
last threads may have no expert.  `PaddedUnitsAt` is what a position adds to the
sum: past the last expert nothing when experts without tokens are skipped or
there is a mask, and one unit otherwise.  `Starts` takes the start of a list
from its expert's own position and the total from the last thread.

In `MoeSortingEx` a step is what a wave does between two `__syncthreads`;
`Syncthreads` lets the waves on when all wait.  Where the code has no barrier,
after the expert ids in the one-shot form, a wave goes on alone.  `ClearMoeBuf`
is what the blocks after the first do.

`launch_kernel` repeats the same sort for warm-up and timing: `Again`, with
workspace and output as they are.  A second sort of *different* tokens on the
same workspace is not in the model: the caller clears it.

`SortedOnExit` does not claim where the lists start when one block sorts in
rounds: fill writes the position of each round over that of the last, so
`p_pos_per_expert`, which the two-stage kernel reads as the start of an expert's
list, ends as the start of what the last round added.  The host takes that form
only with `CK_TILE_WA_ISSUE_2028`, off by default.

### MagicDivision

`Bits` is the shift of the magic product and `RegBits` the width of the
registers, so that both variants of the file are instances and all truncations
are explicit.  `Pow2` is the code's `1U << n`, by recursion.

## 3. Runs

| run | instance | checks |
|---|---|---|
| `pipeline_2waves` | 2 waves per warp group, 2 stages, 1 tap, 6 K tiles | `TypeOK`, `NoLdsRace`, `WgSyncAligned`, `QuiescentAtExit`, `CompletesForAll`, `ImplementsContraction` |
| `pipeline_shapes` | 1 wave per group, 3 stages, 2 taps, 12 K tiles, 1/2/1 loads | `ImplementsContraction`, `Termination` |
| `pipeline_one_round` | 1 wave per group, `NumLoop = LoopUnroll` | `ImplementsContraction` fails |
| `persistent_two_tiles` | 2 waves per group, block 1 of 2, 4 tiles, 4 epilogue parts, 2 operand loads each | `PTypeOK`, `LdsHandover`, `NoRegionRace`, `SlotsAgree`, `SumIsOfTile`, `OutputInOrder`, `OperandsOfPart`, `KernelCompletes` |
| `wasp_v3_instances` | 2 waves per group, rings of 1 to 3 stages with 1 to 3 rounds, block 1 of 2, 4 tiles, 2 epilogue parts | `TypeOK`, `NoLdsRace`, `BarriersAligned`, `LdsHandover`, `SumIsOfTile`, `KernelCompletes` |
| `gemm_comm_epochs` | 2 + 1 CTAs per rank, 2 of them resident in v03, 3 tiles, 9 epochs, all modes | `TypeOK`, `OutputCorrect`, `NoticeMeansVisible`, `OneOwner`, `NeverAborts`, `AllEpochs`, `StableWhileReduced` |
| `moe_sorting` | 9 problems of 4 to 41 tokens and 2 to 10 experts, each sorted twice; waves of 4 rows of 4 lanes, 2 waves, 3 blocks | `TypeOK`, `SortedOnExit`, `WritesInBuffers`, `SemaphoreOpens`, `CountsCompleteMesh`, `StartsHoldStill` |
| `moe_sorting_oneshot` | 2 problems in one shot, with experts for the lane groups of both waves | `SortedOnExit` fails |
| `moe_sorting_keep` | a problem of 2 experts and no mask for blocks of 32 threads, experts without tokens kept | `WritesInBuffers` fails |
| `tiles_clusters` | 4 x 6 tiles, 2 x 3 clusters, 5 blocks | `TypeOK`, `NoTileTwice`, `AllTilesWritten` |
| `tiles_groups` | 2 x 2 tiles, 2 groups, 4 blocks | `AllTilesWritten` fails |
| `magic_32bit` | 8 bits, all divisors and dividends to 127 | `TypeOK`, `QuotientCorrect` |

Why the bounds are enough.  Two waves per warp group are the least with which a
wave can be ahead of another of its group, in a barrier phase and between
phases; the code has four, all alike.  Six K tiles give two main rounds and the
tail, so that every stage is filled, reused and drained.  The second shape
makes `LoopUnroll` larger than the ring, so that the tail has iterations that
still issue loads, makes the channel offset advance in the middle of a round,
and gives the operands different counts.  Two output tiles are the hand-over
and the return; the epilogue's four parts are two turns of its operand buffers.
For V3, one stage, two and three are the three forms of the code, one
round is only the tail, two have one main round and three a main round that
follows a main round.  In the GEMM, three tiles do
not divide by two CTAs, and the modes follow each other so that every flag array
is at some time several epochs old.  Five blocks do not divide 24 tiles.
The problems of the sort cross each of the host's thresholds, which are scaled
with the block: tokens in one shot, in rounds and over the blocks; a mesh that
is packed and one that is not; experts more and fewer than blocks; an expert
without tokens; with and without a mask; token counts that divide into neither
units nor packs.  What `Row`, `NumWaves`, `MeshChunk`, `Pack` and `SmallTokens`
scale are the 16 lanes of a DPP row, the waves of a block, the 32 tokens of a
mesh stride, the 16 of a pack and the 512 from which the mesh is packed.
The magic division is checked for all inputs at a quarter of the width.

Fairness.  Weak fairness of each wave, of each wave's memory queue and of the
work group barrier: hardware schedules all resident waves of a work group, loads
return, and a complete barrier releases.  For the GEMM, weak fairness of every
CTA, which is what the host establishes by its residency check (`bench.cpp`,
lines 67-70) and the collective launch; of the delivery of signals; and of the
hosts and collectives.  `Drain` has none: nothing may depend on a store becoming
visible early.

### What the failing runs show

* `pipeline_one_round`: `CalculateHasMainLoop` tests `> 0`, where the other
  pipelines of the directory test `> 1`.  With exactly one round of K tiles the
  do-while main loop runs and the tail runs after it: twice the K tiles.  What
  the surplus loads return decides whether the result is wrong.  Changing the
  test alone does not repair it when `LoopUnroll = NumLdsStages`: the prologue
  and the tail then signal `load_sh` twice before a wave of the major group
  needs to have arrived.
* `moe_sorting_oneshot`: the one-shot form fills the lists, moving their starts
  in LDS, with no barrier after the loop that reads the starts for the expert
  ids.  The form in rounds has one, because it clears its counts there, and
  `moe_sorting` shows it, and the one-shot form with the experts of
  one wave, correct.
* `moe_sorting_keep`: with `SkipExpertsWithZeroTokens` off and no mask, every
  thread of P2 or P23 past the last expert takes `max(0, 1)` units.  They enter
  the sum of the last thread, and with it the total and the end of the last
  list, whose block then pads past the end of the buffers.  It takes a template
  argument that nothing in the repository gives; all other runs of the sort have
  the option on, as the host does.
* `tiles_groups`: groups divide the blocks, but not the tile loop.

## 4. Proofs

Proved by TLAPS for all values of the constants that satisfy the ASSUMEs of the
modules.  These say what the code is compiled and launched with: positive
lengths (`StagesAssumption`, `KernelAssumption`, `GridAssumption`), a number of
K tiles that is a multiple of `LoopUnroll` (`LoopAssumption`, which the host
checks), cluster lengths that divide the output (`PartitionAssumption`), and
problems of the sort in which every token names existing experts, none of them
twice (`InputsAssumption`), with a mask of zeros and ones, which the kernels sum
(`MaskAssumption`), and few enough experts for the LDS (`HostAssumption`:
`moe_sorting_get_smem_row_col` throws otherwise).  A theorem with a further
hypothesis has it in its statement and here.

| theorem | property |
|---|---|
| `TlsWasp_proofs`, pipeline: `TypeCorrect`, `BarrierAligned`, `StagesHandedOver`, `LeavesNothing`, `BarriersComplete` | `TypeOK`, `WgSyncAligned`, `NoLdsRace`, `QuiescentAtExit`, `CompletesForAll` |
| `TlsWasp_proofs`, pipeline: `PipelineContracts`, for `NumLoop > LoopUnroll` | `ImplementsContraction` |
| `TlsWasp_proofs`, persistent kernel: `BlockTypeCorrect`, `LdsHandedOver`, `RegionsHandedOver`, `SlotsShared`, `PartsInOrder`, `OperandsMatch`, `StagesHandedOverInBlock` | `PTypeOK`, `LdsHandover`, `NoRegionRace`, `SlotsAgree`, `OutputInOrder`, `OperandsOfPart`, `NoLdsRace` |
| `TlsWasp_proofs`, persistent kernel: `SumsOwnTile`, for `NumLoop > LoopUnroll` | `SumIsOfTile` |
| `WaspKernelV3_proofs`: `TypesOfWaves`, `BarriersMatch`, `ReadsMeetNoLoad`, `RegionsMeetNoRing`, `SumsAreOfTheirTiles` | `TypeOK`, `BarriersAligned`, `NoLdsRace`, `LdsHandover`, `SumIsOfTile` |
| `GemmComm_proofs`: `TypesOfRanks`, `OutputIsCorrect`, `NoticesAreVisible`, `ReducedIsStable`, `OneOwnerEach`, `RunNeverAborts` | `TypeOK`, `OutputCorrect`, `NoticeMeansVisible`, `StableWhileReduced`, `OneOwner`, `NeverAborts` |
| `PersistentTiles_proofs`: `CountersAreBounded`, `TilesAreUnique`, `StoresStayInMatrix`; `TilesAreComplete`, for one group | `TypeOK`, `NoTileTwice`, `AllTilesWritten` |
| `MoeSorting_proofs`: `SemaphoreAlwaysOpens`, `CountsAfterMesh`, `SortTypes` | `SemaphoreOpens`, `CountsCompleteMesh`, `TypeOK` |
| `MoeSorting_proofs`: `SortWritesInBuffers`, for `NoIdleUnits`; `OneBlockWritesInBuffers`, for one block | `WritesInBuffers` |
| `MoeSorting_proofs`: `StartsKeptForReaders`, for `FewIfOneRound` | `StartsHoldStill` |
| `MoeSortReference_proofs`: `SortIsReference`, for `FewIfOneRound`, `NoEmptyLists` and `NoIdleUnits`; it joins `OneBlockSorts`, which needs the first only, and `MultiPhaseSorts`, which needs the other two | `SortedOnExit` |
| `MoeSorting_proofs`: `ScansArePrefixSums` | the operators of `WaveScan` |
| `MagicDivision_proofs`: `MagicNumbersFit`, `MagicIsDivision`, in `InRange` | `TypeOK`, `QuotientCorrect` |

`LdsStages_proofs` holds facts about a producer wave's queue of loads, which
both pipelines need.  The facts about division by a variable divisor stand at
the head of each module that uses them.

**The queue of loads** (`LdsStages_proofs`).  The loads in flight of a wave are
a tail of the one sequence it issues, K tile after K tile and operand after
operand.  `Queue` relates the queue, the stages of the ring that have landed,
the number issued, and two bounds by operand: no load in flight is of a K tile
below `lo`, and each landed slot holds its K tile up to `top`.  The lemmas say
what issuing, landing and a fence that leaves a number of loads in flight do to
it, for every number of stages and of load instructions.  A wait count in the
code is right when the loads it leaves in flight lie behind the next K tile in
that sequence; that is arithmetic on the sums of `IssueCnt`.

**TLS pipeline** (`TlsWasp_proofs`).  `TypeInv` makes the type invariant
inductive: it also bounds `n` of a producer in the prologue, without which the
stage of an initial load would not be known to exist.  `AlignInv` says that
waves between two barriers have the same `n`.  The rest follows from `PhaseInv`:
the work group enters, is in iteration `k`, or has left.  In an iteration every
wave is at a point of its program in iteration `k`.  `LevelAt` says how often a wave has used a
barrier since the iteration began; the waves of a slot are at two levels at
most (`Close`), those at the higher level are the ones the slot has counted
(`SlotFor`), and those of them that sync there are stalled behind it
(`BarrierOK`).  So a phase that completes has everyone, and levels also tell
what a wave may know: a producer that signals a stage has waited for its loads
(`QueueOK`), hence a stage that is read has landed and is not on its way
(`ReadingOK`).  Sums are prefixes of the problem's K tiles (`SumOK`).

The refinement, and `SumsOwnTile` below, need `NumLoop > LoopUnroll`: with one
round the main loop runs once too often, which the run `pipeline_one_round`
shows.  The other theorems
hold for one round too.

**Persistent TLS kernel** (`TlsWasp_proofs`).  `BlockInv` (theorem
`BlockInvariant`): the work group is in the pipeline of the block's `m`-th tile
(`InPipeline(m)`), or between the pipelines of the tile before it and of this
one (`Between(m)`).  In the pipeline the invariant is that of one tile, with
the epilogue at rest.  Between, each wave has arrived at the next tile or is
behind, in its epilogue or at its end; no load is in flight and nothing is
read from the ring, and the slots other than the epilogue's are free.  A warp
group's slot is described as the pipeline's are, by levels: `EpiLevel` is how
often a wave has used the barrier since the pipeline, two levels at most, and
those ahead stand behind it (`TeamBarrierOK`).  Hence a wave that reads its
region finds every wave of the group at the same part, written
(`RegionComplete`), and none at the next (`RegionsApart`).  A wave's own memory
operations are, before the fence for part `i`, the loads for part `i` behind
one store at most, and then those for part `i + 1` (`PrefetchedFor`): what the
fence leaves outstanding is no load for part `i`, and what completes beyond it
fills the other buffer (`OperandsArrive`).  The barrier that starts a pipeline
needs all waves, so all have arrived, and the levels are even: every slot is
free (`AllArrived`).

**V3 kernel** (`WaspKernelV3_proofs`).  The three programs meet by the number of
their barriers alone.  `StepInv` compares them segment by segment, a segment
being what a wave does between two barriers: all waves are in the same segment
of the same iteration or part.  `DataInv` adds the queues (`RingOK`), the sums
(`SumsOK`) and the regions of the epilogue (`RegionsOK`).

**GEMM** (`GemmComm_proofs`).  `OutputIsCorrect`, `NoticesAreVisible` and
`ReducedIsStable` follow from one inductive invariant, `Inv`: the hosts of the
two ranks are in the same section between two collectives (`HostsInStep`) and
their epochs differ by no more than that allows (`EpochsInStep`); CTAs run only
while their host waits for its kernel (`CtasInKernel`); no flag or signal is of
an epoch to come (`FlagsBounded`); what is announced for this epoch is there
(`Announced`); and what a CTA has waited for holds until it is done with the
tile (`CtaKnows`).  The last is the heart: it is preserved because data are
rewritten only with the value of the same epoch, until the host of the own rank
goes on, which the collectives prevent while the peer still runs.  `CoverInv`
adds what each CTA has done with the tiles of its residue (`Covered`), so that
tiles have one owner, and that the results a host compares are complete
(`NoErrors`).

**Tiles** (`PersistentTiles_proofs`).  The map is injective and surjective by the
uniqueness of quotient and remainder (`DivModUnique`), digit by digit; a
block's numbers keep their residue modulo the grid (`PlusMod`), so two blocks
never meet (`UniqueInv`), and a tile not written is still ahead of the block
with its residue.

**Sort** (`MoeSorting_proofs`, `MoeSortReference_proofs`).  `MpInv`: the pairs
of every block that has entered are in the mesh (`MeshOK`), and in the first launch the semaphore
counts exactly the blocks that have (`SemOK`); the blocks with pairs are among
the first `WGCounts`.  In a repeated launch the semaphore stands open, and the
mesh is entered again with what it holds.  For one block, `WavesInv`: two waves
are at the same piece, or in pieces with no barrier between (`Adjacent`), so
that only a wave which fills the lists of a sort in one round can move a start
that another still reads.  `StartsKeptForReaders` therefore assumes
`FewIfOneRound`: what is sorted in one round has no more experts than a wave
has lane groups, 8 in the code.  The code does not demand it, and
`moe_sorting_oneshot` shows what happens with more; in rounds nothing is
assumed of the experts.

`SortWritesInBuffers` does not assume `FewIfOneRound`: also where a start is read
too late, what is written stays inside.  It assumes `NoIdleUnits`: experts
without tokens are skipped, or every problem has a mask or whole blocks of
experts.  Without it, each thread of P2 and P23 that has no expert adds a unit
to the total (`IdleUnits`), which is where the last list ends (`Placed`), and
`moe_sorting_keep` shows that list written past the buffers.  The invariant
keeps the two apart: the sums are those of `Placed` in any case, and the buffers
hold what is written when there are no such units (`BuffersFit`).
`OneBlockWritesInBuffers` assumes nothing, as one block takes its total from the
lane of the last expert.  The argument has four parts.

* *Sums.*  `Runs(P, f, n)` says that `P` is the running sum of `f`; a set
  induction gives each function one (`RunsExist`) and makes `SumFunctionOnSet`
  its end (`SumIs`).  A scan is then a telescope: after the shifts by 1, 2, 4
  and 8 a lane holds the difference of `P` over a window that doubles
  (`Window`), the rows add up to the wave, the waves to a round and the rounds
  to the block (`ScansArePrefixSums`).
* *Room.*  `Named(e, m)` counts the pairs of the first `m` tokens that name
  expert `e`, and `TokensOf(e)` all of them; they add up to the pairs.  Padding
  costs an expert less than a unit, and an expert with tokens costs at most
  `UnitSize - 1` entries beyond them.  `ListsFit`: the units of all lists, one
  after the other (`UnitStart`), fit `MaxOutputIds`, which takes `Topk` entries
  off the worst padding.
* *Several kernels.*  `TablesInv` ties the tables to the stage of the stream: a
  mesh entry stands only for a token that names the expert (`MeshSound`), and
  complete, by `MpInv`, it has them all; so the sums of an expert that is
  counted in this launch are `TokensOf(e)`, and the starts `UnitSize *
  UnitStart` once P2 has stored them (`SumsInv`).  A list is then written
  between two starts.  `CountedIn` follows each block, since P01 counts block by
  block, and a repeated launch counts anew over what the last one left.
* *One block.*  `BlockInv` says what the LDS holds while waves are at
  different pieces.  The cells: cleared where a wave waits behind the clearing
  (`CellsCleared`); while tokens are counted, neither less nor more than the
  rounds so far and the waves that have read this one account for
  (`CellsCount`), so that at the end the count is `TokensOf(e)`
  (`AllCountedIn`); and while lists are filled, only tokens of this round
  (`CellsSound`).  The counters: counts at first, then, replaced by the first
  wave alone, the starts, and then the starts moved on by the tokens of the
  rounds before (`StartsMoved`); what is kept of them for the padding lies
  within the lists (`StartsKept`).  A lane group moves a start that a thread of
  another wave may read late, but it never moves it out of the lists
  (`StartsWithin`).

`SortIsReference` (in `MoeSortReference_proofs`) says that the sort does what the
reference does, with
several kernels (`MultiPhaseSorts`) and with one block (`OneBlockSorts`).

* *Reference.*  Its lists are sequences put together piece by piece.  `PiecesOf`
  says where each piece of a flattened sequence is (`Flattened`, by set
  induction on the number of pieces), and with it everything the reference says
  becomes a statement about single words: the entry of the token that is the
  `Named(e, t) + 1`st to name `e` stands there in the list of `e`, padding
  behind (`RefListIs`), the lists follow one another, and an expert's number is
  the sum of the mask below it (`ReferenceIs`, `LocalIds`).
* *Delivery, several kernels.*  `OutInv`: each block that has been run, in this
  launch or an
  earlier one, has left its part (`Delivered`) - P1 a count, P2 the starts' ids
  and total, P3 and P23 the list of an expert - and no block takes back what
  another delivered (`Keeps`), since lists and units of different experts are
  apart (`ListsApart`) and a block that runs again writes the same.  When the
  stream is empty all blocks are past, so all is delivered.
* *Delivery, one block.*  `BlockInv` bounds what LDS holds; `GotInv` says what
  exactly a wave finds there: in the cells of its round, the `topk_id` by which
  a token names an expert (`CellsShow`); in the starts, those of the reference
  moved on by the tokens its own lane groups have listed (`StartsExact`); and
  in `cumdup` first the numbers of the experts, then the starts that padding
  ends at (`NumbersKept`, `StartsCopied`).  That the starts are unmoved while a
  wave reads them for the ids of units is where `FewIfOneRound` enters
  (`StartsUnmoved`).  A wave that has done a piece has then written its part
  (`OutBy`): counts, ids, entries of the tokens so far (`WordsFilled`), padding.
  The others take nothing back (`Retains`): every word a wave writes to the
  lists is the word of some list at that place (`ListWord`), and there is only
  one (`OneWord`).  A further launch starts over, and so do the claims.

`NoEmptyLists` assumes that experts without tokens are skipped, or that there
are none: P2 and P23 write the experts of units for as many units as the tokens
fill, and the padded unit which an expert without tokens keeps when
`SkipExpertsWithZeroTokens` is off gets none.  `NoIdleUnits`, as above, makes
`Placed` the starts of the reference and the total its total (`PlacedAt`).  Both
hold whenever the option is on: the template's default is on, and nothing in the
repository instantiates it off.

`SortTypes` adds `LaunchInv`: nobody resets the semaphore, and it stands at
`GridSize` for each launch that has finished and the blocks of this one that are
past their increment, at most (`SemBound`).

**Magic division** (`MagicDivision_proofs`).  With `p` the least power of two not
below the divisor, the multiplier exceeds `(p - d) * 2^Bits / d` by at most
one, and a dividend below `2^Bits` does not notice (`MagicQuotient`).  `InRange`
has divisors up to `2^Bits` and `2^(RegBits - 1)` and dividends below both: 31
bits in `magic_division32_bit_range`, as its comment says, and in the 16-bit
variant, which `magic_division` does not name, the commented range but for a
dividend at its upper end: by 1 that is divided to `2^Bits + 1`, as the product
adds 1 to it.  What the shift is needs induction over
its value.  The provers cannot instantiate an induction principle that takes a
predicate; the proofs use one on sets (`SetInduction`): a set of numbers that
has a counterexample has a least one.

Only model-checked: liveness, that is `Termination`, `KernelCompletes` and
`AllEpochs`.  It is out of the prover's reach, as is ENABLED.

## 5. Not modelled, and what is left

Not modelled:

* numerical results, addresses inside a tile, and compile-time index algebra
  other than the partitioner's;
* pipelines and kernels without warp specialisation, and WASP V1, V2, V2R1 and
  MLS WASP, which have the barriers and waits of the forms that are modelled;
* the V3 kernel on devices with ebarriers: its instances are built for one that
  has none, and the producer's barriers of the epilogue are unconditional there;
* `aquire`, `release`, `wait_eq` and `wait_set` of `workgroup_barrier`, which no
  kernel calls; and memory order weaker than sequential consistency at the
  relaxed load of its `wait_lt`;
* the width of the packed channel offset in the shared-memory window of the TLS
  pipeline, 11 bits (`tile_window_conv2d_fwd_tls.hpp`): the model's offset is a
  natural number;
* the mesh of two-byte words, for 255 or more experts per token: the mesh of
  the model holds a `topk_id + 1` of any size, with the tiles of the other two;
* the one-block sort without `MOE_SORTING_USE_EX_KERNEL`, off by default;
* the end of `moe_buf` when its size is no multiple of 16 bytes, which
  `moe_buf_set_zero_kernel` does not clear: the model's buffer is whole words;
* v01 of the GEMM, and anything that one thread computes alone on the host.

The hazards without a property in `PROJECT.json` say for each why.

Every property of the passing runs but the liveness of section 4 is a theorem.
