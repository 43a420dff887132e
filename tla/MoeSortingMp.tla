--------------------------- MODULE MoeSortingMp ---------------------------
(***************************************************************************)
(* The multi-phase sort of moe_sorting_kernel.hpp: kernels P0, P1 and P23  *)
(* (or P2 and P3), launched one after the other on one stream, each a grid *)
(* of blocks that run in any order.  P01 is P0 and P1 in one kernel, whose *)
(* blocks meet at a workgroup_barrier in the workspace.                    *)
(*                                                                         *)
(* Blocks of a kernel other than P01 do not communicate, so what a block   *)
(* does is one step.  The workspace (mesh, expert_cumsum, semaphore) is    *)
(* cleared by the host once, and is as the last sort left it when the      *)
(* kernels are launched again.                                             *)
(***************************************************************************)
EXTENDS MoeSortReference, WaveScan

CONSTANTS
  GridSize,     \* blocks of P0 and P01: num_cu * OCCUPANCY
  MeshChunk,    \* the mesh stride is a multiple of this: 32
  Pack,         \* SubTokenTile of the packed mesh: 16
  SmallTokens   \* below this the mesh is not packed: 512

VARIABLES
  path,         \* the kernels of the sort, in launch order
  stage,        \* the one that runs
  at,           \* program point of each of its blocks
  mesh,         \* p_expert_mesh: topk_id + 1, or 0
  expert_cumsum,
  sem           \* the word of the workgroup_barrier

mpVars == <<path, stage, at, mesh, expert_cumsum, sem>>

ASSUME MpAssumption ==
  /\ GridSize \in Nat \ {0} /\ MeshChunk \in Nat \ {0} /\ Pack \in Nat \ {0}
  /\ MeshChunk % Pack = 0

Kernel == path[stage]
ZeroBlocks == IntegerDivideCeil(BufWords, BlockThreads)
MeshStride == IntegerDivideCeil(input.tokens, MeshChunk) * MeshChunk

\* moe_sorting_mesh_byte_size and the vector lengths the host chooses by it
Packed == path = <<"P0", "P1", "P23">> /\ input.tokens >= SmallTokens
TopkTile == IF Packed /\ (input.tokens * Topk) % 4 = 0 THEN 4 ELSE 1
MeshTile == IF Packed THEN Pack ELSE 1

Blocks(kernel) ==
  CASE kernel \in {"P0", "P01"} -> 0..(GridSize - 1)
    [] kernel \in {"P1", "P3"}  -> Experts
    [] kernel = "P2"            -> 0..ZeroBlocks
    [] kernel = "P23"           -> 0..(input.experts + ZeroBlocks - 1)

Running(b, kernel) ==
  stage \in DOMAIN path /\ Kernel = kernel /\ b \in DOMAIN at

Finish(b) == at' = [at EXCEPT ![b] = "done"]

-----------------------------------------------------------------------------
(* P0: the mesh                                                            *)

TotalElem == (input.tokens * Topk) \div TopkTile

\* the <<token, topk_id>> pairs that the threads of a block go through
PairsOf(b) ==
  {<<x \div Topk, x % Topk>> :
     x \in {y \in 0..(TotalElem * TopkTile - 1) :
              ((y \div TopkTile) \div BlockThreads) % GridSize = b}}

\* the mesh after a block has entered its pairs
MeshWith(b) ==
  LET pairs == PairsOf(b)
      entered(e, t) == {k \in 0..(Topk - 1) : <<t, k>> \in pairs /\ input.ids[t][k] = e}
  IN [et \in DOMAIN mesh |->
        IF entered(et[1], et[2]) = {} THEN mesh[et]
        ELSE (CHOOSE k \in entered(et[1], et[2]) : TRUE) + 1]

P0(b) ==
  /\ Running(b, "P0") /\ at[b] = "start"
  /\ mesh' = MeshWith(b)
  /\ Finish(b)
  /\ UNCHANGED <<path, stage, expert_cumsum, sem, input, out>>

-----------------------------------------------------------------------------
(* P1: how many tokens an expert has                                       *)

CountOf(e) ==
  LET shown(p) == Quantify(0..(MeshTile - 1), LAMBDA j : mesh[<<e, p * MeshTile + j>>] # 0)
      packs == MeshStride \div MeshTile
  IN BlockSum([p \in 0..(packs - 1) |-> shown(p)], packs)

P1(e) ==
  /\ Running(e, "P1") /\ at[e] = "start"
  /\ IF Enabled(e)
     THEN /\ expert_cumsum' = [expert_cumsum EXCEPT ![e] = CountOf(e)]
          /\ out' = [out EXCEPT !.counts = Stored([x \in {e} |-> CountOf(e)], @)]
     ELSE UNCHANGED <<expert_cumsum, out>>
  /\ Finish(e)
  /\ UNCHANGED <<path, stage, mesh, sem, input>>

-----------------------------------------------------------------------------
(* P01: the same in one kernel, with a workgroup_barrier between           *)

\* the blocks that enter pairs, and so increment the semaphore
WGCounts_Floor == Min({TotalElem \div BlockThreads, GridSize})
WGCounts == Min({IntegerDivideCeil(TotalElem, BlockThreads), GridSize})

P01Mesh(b) ==
  /\ Running(b, "P01") /\ at[b] = "start"
  /\ mesh' = MeshWith(b)
  /\ at' = [at EXCEPT ![b] = "inc"]
  /\ UNCHANGED <<path, stage, expert_cumsum, sem, input, out>>

\* wb.inc(), and the early exit of a block with no expert
P01Inc_ExitFirst(b) ==
  /\ Running(b, "P01") /\ at[b] = "inc"
  /\ sem' = IF b < WGCounts /\ b < input.experts THEN sem + 1 ELSE sem
  /\ at' = [at EXCEPT ![b] = IF b >= input.experts THEN "done" ELSE "wait"]
  /\ UNCHANGED <<path, stage, mesh, expert_cumsum, input, out>>

P01Inc(b) ==
  /\ Running(b, "P01") /\ at[b] = "inc"
  /\ sem' = IF b < WGCounts THEN sem + 1 ELSE sem
  /\ at' = [at EXCEPT ![b] = IF b >= input.experts THEN "done" ELSE "wait"]
  /\ UNCHANGED <<path, stage, mesh, expert_cumsum, input, out>>

\* wb.wait_lt(wg_count), and all experts of the block
ExpertsOf(b) == {e \in Experts : e % GridSize = b}

P01Count(b) ==
  /\ Running(b, "P01") /\ at[b] = "wait" /\ sem >= WGCounts
  /\ expert_cumsum' = [e \in DOMAIN expert_cumsum |->
       IF e \in ExpertsOf(b) /\ Enabled(e) THEN CountOf(e) ELSE expert_cumsum[e]]
  /\ Finish(b)
  /\ UNCHANGED <<path, stage, mesh, sem, input, out>>

-----------------------------------------------------------------------------
(* P2: where each expert's list starts, and the expert of every unit       *)

UnitsOf(e) == IntegerDivideCeil(expert_cumsum[e], UnitSize)     \* blocks_pers_expert

\* the least number of units of an expert this device holds
LeastUnits == IF SkipExpertsWithZeroTokens THEN 0 ELSE 1

PaddedUnitsOf(e) == IF Enabled(e) THEN Max({UnitsOf(e), LeastUnits}) ELSE 0

MaskOf(e) == IF input.masking THEN input.mask[e] ELSE 0

\* positions of the threads, in whole rounds of the block over the experts
NumPositions == IntegerDivideCeil(input.experts, BlockThreads) * BlockThreads

\* a thread past the last expert has no tokens and no mask, and is padded like an expert
PaddedUnitsAt(p) ==
  IF p \in Experts THEN PaddedUnitsOf(p) ELSE IF input.masking THEN 0 ELSE LeastUnits

\* inclusive sums of the units and of the mask: cumsum_a and cumsum_b
UnitsUpTo == BlockCumsum([p \in 0..(NumPositions - 1) |-> PaddedUnitsAt(p)], NumPositions, NumWaves)
MaskUpTo == BlockCumsum([e \in Experts |-> MaskOf(e)], input.experts, NumWaves)

\* where the lists start, and total_tokens_post_pad, the sum in the last thread
Starts ==
  LET upTo == UnitsUpTo
  IN [e \in 0..input.experts |->
        UnitSize * IF e = input.experts THEN upTo[NumPositions - 1]
                   ELSE upTo[e] - PaddedUnitsOf(e)]

ExpertIdWrites ==
  LET upTo == UnitsUpTo
      maskUpTo == MaskUpTo
      first(e) == upTo[e] - PaddedUnitsOf(e)
      units(e) == IF Enabled(e) THEN first(e)..(first(e) + UnitsOf(e) - 1) ELSE {}
      id(e) == IF input.masking THEN maskUpTo[e] - MaskOf(e) ELSE e
  IN [u \in UNION {units(e) : e \in Experts} |->
        id(CHOOSE e \in Experts : u \in units(e))]

\* moe_buf_set_zero_kernel, the g-th block of it
ClearBuffer(g) ==
  out' = [out EXCEPT !.cleared = @ \union
            {x \in 0..(BufWords - 1) : x \div BlockThreads = g}]

P2(b) ==
  /\ Running(b, "P2") /\ at[b] = "start"
  /\ IF b > 0
     THEN ClearBuffer(b - 1) /\ UNCHANGED expert_cumsum
     ELSE /\ expert_cumsum' = Starts
          /\ out' = [out EXCEPT !.expert_ids = Stored(ExpertIdWrites, @),
                                !.total = Starts[input.experts]]
  /\ Finish(b)
  /\ UNCHANGED <<path, stage, mesh, sem, input>>

-----------------------------------------------------------------------------
(* P3 and P23: the list of an expert                                       *)

\* what a block writes for expert e between two positions of the list
ListWrites_PadPastEnd(e, e_start, e_end) ==
  LET packs == IntegerDivideCeil(input.tokens, MeshTile)
      inPack(p, j) == Quantify(0..(j - 1), LAMBDA i : mesh[<<e, p * MeshTile + i>>] # 0)
      upTo == BlockCumsum([p \in 0..(packs - 1) |-> inPack(p, MeshTile)], packs, NumWaves)
      listed == {t \in Tokens : mesh[<<e, t>>] # 0}
      position == Held([t \in listed |->
        LET p == t \div MeshTile
        IN e_start + (upTo[p] - inPack(p, MeshTile)) + inPack(p, t % MeshTile)])
      padding == (e_start + upTo[packs - 1])..e_end
  IN [x \in Range(position) \union padding |->
        IF x \in padding THEN PadEntry
        ELSE LET t == CHOOSE u \in listed : position[u] = x
             IN Entry(t, mesh[<<e, t>>] - 1)]

ListWrites(e, e_start, e_end) ==
  LET packs == IntegerDivideCeil(input.tokens, MeshTile)
      inPack(p, j) == Quantify(0..(j - 1), LAMBDA i : mesh[<<e, p * MeshTile + i>>] # 0)
      upTo == BlockCumsum([p \in 0..(packs - 1) |-> inPack(p, MeshTile)], packs, NumWaves)
      listed == {t \in Tokens : mesh[<<e, t>>] # 0}
      position == Held([t \in listed |->
        LET p == t \div MeshTile
        IN e_start + (upTo[p] - inPack(p, MeshTile)) + inPack(p, t % MeshTile)])
      padding == (e_start + upTo[packs - 1])..(e_end - 1)
  IN [x \in Range(position) \union padding |->
        IF x \in padding THEN PadEntry
        ELSE LET t == CHOOSE u \in listed : position[u] = x
             IN Entry(t, mesh[<<e, t>>] - 1)]

Skipped(e, e_start, e_end) ==
  (SkipExpertsWithZeroTokens /\ e_start = e_end) \/ ~Enabled(e)

P3(e) ==
  /\ Running(e, "P3") /\ at[e] = "start"
  /\ LET e_start == expert_cumsum[e]
         e_end == expert_cumsum[e + 1]
     IN out' = IF Skipped(e, e_start, e_end) THEN out
               ELSE [out EXCEPT !.sorted = Stored(ListWrites(e, e_start, e_end), @)]
  /\ Finish(e)
  /\ UNCHANGED <<path, stage, mesh, expert_cumsum, sem, input>>

(* Every block computes the sums of P2 for itself, in LDS; the first one   *)
(* also stores them.                                                       *)
P23(b) ==
  /\ Running(b, "P23") /\ at[b] = "start"
  /\ IF b >= input.experts
     THEN ClearBuffer(b - input.experts)
     ELSE LET cumsum == Starts           \* p_expert_cumsum_smem
              e_start == cumsum[b]
              e_end == cumsum[b + 1]
              skip == Skipped(b, e_start, e_end)
          IN out' = [out EXCEPT
               !.expert_ids = IF b = 0 THEN Stored(ExpertIdWrites, @) ELSE @,
               !.total = IF b = 0 THEN cumsum[input.experts] ELSE @,
               !.positions = IF skip THEN @ ELSE Stored([x \in {b} |-> e_start], @),
               !.sorted = IF skip THEN @ ELSE Stored(ListWrites(b, e_start, e_end), @)]
  /\ Finish(b)
  /\ UNCHANGED <<path, stage, mesh, expert_cumsum, sem, input>>

-----------------------------------------------------------------------------
(* The stream: a kernel starts when the one before has finished            *)

StartOfKernel(s) == IF s \in DOMAIN path THEN [b \in Blocks(path[s]) |-> "start"] ELSE Nothing

NextKernel ==
  /\ stage \in DOMAIN path
  /\ \A b \in DOMAIN at : at[b] = "done"
  /\ stage' = stage + 1
  /\ at' = StartOfKernel(stage + 1)
  /\ UNCHANGED <<path, mesh, expert_cumsum, sem, input, out>>

\* the workspace as the host hands it over
Workspace ==
  /\ mesh = [et \in Experts \X (0..(MeshStride - 1)) |-> 0]
  /\ expert_cumsum = [e \in 0..input.experts |-> 0]
  /\ sem = 0

MpNext ==
  \/ \E b \in DOMAIN at :
       P0(b) \/ P1(b) \/ P01Mesh(b) \/ P01Inc(b) \/ P01Count(b) \/ P2(b) \/ P3(b) \/ P23(b)
  \/ NextKernel
=============================================================================
