---------------------------- MODULE WaspKernelV3 ----------------------------
(***************************************************************************)
(* One work group of the persistent kernel FusedConvWaspKernelV3: for each *)
(* output tile of the block, the pipeline                                  *)
(* FusedConvIgemmPipelineWaspAgmemBgmemCregV3 and then the epilogue        *)
(* FusedConvEpilogueWaspV2, on devices without ebarriers.                  *)
(*                                                                         *)
(* Every synchronisation is the one barrier of the work group.  The three  *)
(* warp groups run three different programs and meet by the number of      *)
(* their barriers alone: the producer waves take part in the epilogue's    *)
(* barriers although they have nothing to do there.  Each iteration has    *)
(* two barriers.  At the first the major waves have read the iteration's   *)
(* stage and the producers refill its pr_major part; at the second the     *)
(* minor waves have read it, the producers refill the rest, and the next   *)
(* stage is loaded.  A ring of one stage is refilled as a whole.           *)
(***************************************************************************)
EXTENDS LdsStages

CONSTANTS
  MaxRounds, \* bound: num_loop is at most so many times LoopUnroll
  NumTiles,  \* output tiles of the problem
  BlockId,   \* get_block_1d_id()
  GridDim,   \* gridDim.x, the distance between the block's tiles
  EpiLoop    \* num_loop of the epilogue

ASSUME KernelAssumption ==
  /\ MaxRounds \in Nat \ {0}
  /\ NumTiles \in Nat \ {0}
  /\ GridDim \in Nat \ {0}
  /\ BlockId \in 0 .. GridDim - 1
  /\ EpiLoop \in Nat \ {0}

VARIABLES
  stages,   \* the launched instance's Problem::NumLdsStages
  num_loop, \* K tiles of the launched problem
  pc,       \* where each wave stands
  n,        \* iterations each wave has finished
  tile_idx, \* the output tile each wave works on
  base,     \* K tile at the base address of a producer wave's dram windows
  acc,      \* tiles a compute wave has accumulated
  epi,      \* the epilogue iteration of each wave
  region,   \* the part each wave last wrote to its warp group's region
  writing,  \* waves whose ds writes to the region are in flight
  loading,  \* waves whose ds reads of the region are in flight
  out       \* parts each wave has stored to the output tensor

launch   == <<stages, num_loop>>
pipeVars == <<n, tile_idx, base, vmq, lds, reading, acc>>
epiVars  == <<epi, region, writing, loading, out>>
vars     == <<launch, pc, pipeVars, epiVars>>

\* FilterUnroll is 1: the dram windows of this kernel have RS == 1
LoopUnroll  == stages
IsSupported == num_loop % LoopUnroll = 0
HasMainLoop == num_loop \div LoopUnroll > 1
\* rounds of "do ... while(loop < num_loop - LoopUnroll)"
MainRounds  == IF HasMainLoop THEN num_loop \div LoopUnroll - 1 ELSE 0
NumIter     == (MainRounds + 1) * LoopUnroll

IsTailLoop(k) == k >= NumIter - stages
IsLastLoop(k) == k = NumIter - 1
LdsStage(k) == k % stages

\* part of a region: iteration i of a tile's epilogue
Part(t, i) == <<t, i>>
NoPart     == <<-1, -1>>
Team(c) == IF c \in Major THEN Major ELSE Minor

\* where a wave starts output tile t, if there is one
TileEntry_Unsynced(w, t) ==
  IF t < NumTiles THEN IF w \in Producer THEN "initial" ELSE "first" ELSE "exit"
TileEntry_OneLess(w, t) == IF t < NumTiles - 1 THEN "tile" ELSE "exit"
TileEntry(w, t) == IF t < NumTiles THEN "tile" ELSE "exit"

Init ==
  /\ stages \in 1 .. NumLdsStages
  /\ num_loop \in 1 .. MaxRounds * stages
  /\ IsSupported
  /\ pc = [w \in Waves |-> TileEntry(w, BlockId)]
  /\ n = [w \in Waves |-> 0]
  /\ tile_idx = [w \in Waves |-> BlockId]
  /\ base = [p \in Producer |-> 0]
  /\ StagesInit
  /\ acc = [c \in Compute |-> <<>>]
  /\ epi = [w \in Waves |-> 0]
  /\ region = [c \in Compute |-> NoPart]
  /\ writing = {}
  /\ loading = {}
  /\ out = [c \in Compute |-> <<>>]

Goto(w, point) == pc' = [pc EXCEPT ![w] = point]

(***************************************************************************)
(* wg_sync.  A wave stands at its barrier until all waves that have not    *)
(* ended stand at one - whichever.                                         *)
(***************************************************************************)
Barrier == {"tile", "first", "release", "ready", "epi_write", "epi_read"}

\* an iteration's first point: the major waves read before its barriers, the
\* minor waves between them, unless the ring has one stage
LoopStart(w) ==
  IF w \in Producer \/ (w \in Minor /\ stages > 1) THEN "release" ELSE "read"

EpiStart_ProducerSkips(w) == IF w \in Producer THEN "epi_end" ELSE "epi_write"
EpiStart(w) == "epi_write"

AfterReady(w) ==
  IF w \in Producer /\ stages > 1 /\ ~IsTailLoop(n[w]) THEN "issue_rest"
  ELSE IF IsLastLoop(n[w]) THEN EpiStart(w) ELSE LoopStart(w)

AfterEpiRead(w) ==
  IF w \in Compute THEN "region_read"
  ELSE IF epi[w] < EpiLoop - 1 THEN "epi_write" ELSE "epi_end"

Resume(w) ==
  CASE pc[w] = "tile"      -> IF w \in Producer THEN "initial" ELSE "first"
    [] pc[w] = "first"     -> LoopStart(w)
    [] pc[w] = "release"   -> IF w \in Producer THEN "issue"
                              ELSE IF LoopStart(w) = "release" THEN "read" ELSE "ready"
    [] pc[w] = "ready"     -> AfterReady(w)
    [] pc[w] = "epi_write" -> IF w \in Producer THEN "epi_read" ELSE "region_write"
    [] pc[w] = "epi_read"  -> AfterEpiRead(w)

WgSync ==
  LET live == {w \in Waves : pc[w] # "exit"}
  IN  /\ live # {} /\ \A w \in live : pc[w] \in Barrier
      /\ pc' = [w \in Waves |-> IF w \in live THEN Resume(w) ELSE "exit"]
      /\ n' = [w \in Waves |-> IF pc[w] = "ready" THEN n[w] + 1 ELSE n[w]]
      /\ epi' = [w \in Waves |->
           IF w \in Producer /\ pc[w] = "epi_read" THEN epi[w] + 1 ELSE epi[w]]
      /\ UNCHANGED <<launch, tile_idx, base, vmq, lds, reading, acc,
                     region, writing, loading, out>>

(***************************************************************************)
(* Producer waves.                                                         *)
(***************************************************************************)
\* async_load_tile_wrapped_asm: the tile at the window's base address
Loads(o, k, p, b) == LoadsInto(o, LdsStage(k), Tile(tile_idx[p], b))

\* the three operands of the K tile b, into iteration k's stage
WholeTile(k, p, b) ==
  Loads("pr_major", k, p, b) \o Loads("sh", k, p, b) \o Loads("pr_minor", k, p, b)

IssueInitial(p) ==
  /\ pc[p] = "initial"
  /\ vmq' = [vmq EXCEPT ![p] = @ \o WholeTile(n[p], p, base[p])]
  /\ IF n[p] < stages - 1
     THEN /\ base' = [base EXCEPT ![p] = @ + 1]
          /\ n' = [n EXCEPT ![p] = @ + 1]
          /\ UNCHANGED pc
     ELSE /\ n' = [n EXCEPT ![p] = 0]
          /\ Goto(p, "first_fence")
          /\ UNCHANGED base
  /\ UNCHANGED <<launch, tile_idx, lds, reading, acc, epiVars>>

\* wait for the first stage
AwaitFirst(p) ==
  /\ pc[p] = "first_fence"
  /\ async_load_fence(p, TileIssueCnt * (stages - 1))
  /\ Goto(p, "first")
  /\ UNCHANGED <<launch, pipeVars, epiVars>>

\* iteration k's loads, of the K tile b, before its second barrier: they reach
\* into LDS that the major waves have read, and the minor waves have not yet
Refill_Whole(k, p, b) == WholeTile(k, p, b)
Refill(k, p, b) ==
  IF stages = 1 THEN WholeTile(k, p, b) ELSE Loads("pr_major", k, p, b)

Issue(p) ==
  /\ pc[p] = "issue"
  /\ IF IsTailLoop(n[p]) THEN UNCHANGED <<base, vmq>>
     ELSE /\ base' = [base EXCEPT ![p] = @ + 1]
          /\ vmq' = [vmq EXCEPT ![p] = @ \o Refill(n[p], p, base[p] + 1)]
  /\ Goto(p, "await_next")
  /\ UNCHANGED <<launch, n, tile_idx, lds, reading, acc, epiVars>>

waitcnt_NoDrain(k) ==
  IF stages = 1 THEN 0 ELSE TileIssueCnt * (stages - 2) + IssueCnt["pr_major"]
waitcnt(k) ==
  IF stages = 1 THEN 0
  ELSE IF IsTailLoop(k) THEN TileIssueCnt * (stages - LdsStage(k) - 2)
  ELSE TileIssueCnt * (stages - 2) + IssueCnt["pr_major"]

\* wait for the next stage, if there is a next iteration
AwaitNext(p) ==
  /\ pc[p] = "await_next"
  /\ ~IsLastLoop(n[p]) => async_load_fence(p, waitcnt(n[p]))
  /\ Goto(p, "ready")
  /\ UNCHANGED <<launch, pipeVars, epiVars>>

\* refill of what the minor waves have read as well
IssueRest(p) ==
  LET load(o) == Loads(o, n[p] - 1, p, base[p])
  IN  /\ pc[p] = "issue_rest"
      /\ vmq' = [vmq EXCEPT ![p] = @ \o load("sh") \o load("pr_minor")]
      /\ Goto(p, "release")
      /\ UNCHANGED <<launch, n, tile_idx, base, lds, reading, acc, epiVars>>

Land(p) ==
  /\ LandOldest(p)
  /\ UNCHANGED <<launch, pc, n, tile_idx, base, acc, epiVars>>

(***************************************************************************)
(* Compute waves.                                                          *)
(***************************************************************************)
\* ds read of the iteration's stage (the major waves' prefetch included: they
\* read after the barriers of the iteration before)
Read(c) ==
  /\ pc[c] = "read"
  /\ ReadStage(c, LdsStage(n[c]))
  /\ Goto(c, "fence")
  /\ UNCHANGED <<launch, n, tile_idx, base, vmq, lds, acc, epiVars>>

\* lds_fence, and the barrier that says so; mmac of what was read
Fence(c) ==
  /\ pc[c] = "fence"
  /\ acc' = [acc EXCEPT ![c] = Append(@, Product(c))]
  /\ reading' = [reading EXCEPT ![c] = {}]
  /\ Goto(c, IF LoopStart(c) = "release" THEN "ready" ELSE "release")
  /\ UNCHANGED <<launch, n, tile_idx, base, vmq, lds, epiVars>>

\* epilogue: the accumulator's part, to the warp group's region
WriteRegion(c) ==
  /\ pc[c] = "region_write"
  /\ writing' = writing \union {c}
  /\ Goto(c, "region_fence")
  /\ UNCHANGED <<launch, pipeVars, epi, region, loading, out>>

FenceRegion(c) ==
  /\ pc[c] = "region_fence"
  /\ writing' = writing \ {c}
  /\ region' = [region EXCEPT ![c] = Part(tile_idx[c], epi[c])]
  /\ Goto(c, "epi_read")
  /\ UNCHANGED <<launch, pipeVars, epi, loading, out>>

ReadRegion(c) ==
  /\ pc[c] = "region_read"
  /\ loading' = loading \union {c}
  /\ Goto(c, "store")
  /\ UNCHANGED <<launch, pipeVars, epi, region, writing, out>>

\* what the ds read returns: one part, if all waves of the region wrote it
Shuffled(c) ==
  IF Team(c) \intersect writing = {}
  THEN TheOne({region[v] : v \in Team(c)}) ELSE NoPart

\* the elementwise operation, which waits for the read, and the store
StoreOut(c) ==
  /\ pc[c] = "store"
  /\ loading' = loading \ {c}
  /\ out' = [out EXCEPT ![c] = Append(@, Shuffled(c))]
  /\ epi' = [epi EXCEPT ![c] = @ + 1]
  /\ Goto(c, IF epi[c] < EpiLoop - 1 THEN "epi_write" ELSE "epi_end")
  /\ UNCHANGED <<launch, pipeVars, region, writing>>

(***************************************************************************)
(* The kernel's tile loop.                                                 *)
(***************************************************************************)
\* set_window_origin makes the buffer resources anew, at the first K tile
SetWindowOrigin_KeepBase(w) == UNCHANGED base
SetWindowOrigin(w) == base' = [p \in Producer |-> IF p = w THEN 0 ELSE base[p]]

NextTile(w) ==
  LET next == tile_idx[w] + GridDim
  IN  /\ pc[w] = "epi_end"
      /\ tile_idx' = [tile_idx EXCEPT ![w] = next]
      /\ Goto(w, TileEntry(w, next))
      /\ n' = [n EXCEPT ![w] = 0]
      /\ epi' = [epi EXCEPT ![w] = 0]
      /\ SetWindowOrigin(w)
      /\ acc' = [c \in Compute |-> IF c = w THEN <<>> ELSE acc[c]]
      /\ UNCHANGED <<launch, vmq, lds, reading, region, writing, loading, out>>

ProducerStep(p) ==
  \/ IssueInitial(p) \/ AwaitFirst(p) \/ Issue(p) \/ AwaitNext(p) \/ IssueRest(p)

ComputeStep(c) ==
  \/ Read(c) \/ Fence(c)
  \/ WriteRegion(c) \/ FenceRegion(c) \/ ReadRegion(c) \/ StoreOut(c)

Exited == (\A w \in Waves : pc[w] = "exit") /\ UNCHANGED vars

Next ==
  \/ \E p \in Producer : ProducerStep(p) \/ Land(p)
  \/ \E c \in Compute : ComputeStep(c)
  \/ \E w \in Waves : NextTile(w)
  \/ WgSync
  \/ Exited

\* The scheduler runs every wave that is not at a barrier, memory answers
\* every load, and the hardware releases a complete barrier.
Fairness ==
  /\ \A p \in Producer : WF_vars(ProducerStep(p)) /\ WF_vars(Land(p))
  /\ \A c \in Compute : WF_vars(ComputeStep(c))
  /\ \A w \in Waves : WF_vars(NextTile(w))
  /\ WF_vars(WgSync)

Spec == Init /\ [][Next]_vars
FairSpec == Spec /\ Fairness

(***************************************************************************)
(* Correctness.                                                            *)
(***************************************************************************)
WavePoint == {"initial", "first_fence", "issue", "await_next", "issue_rest",
              "read", "fence", "region_write", "region_fence", "region_read",
              "store", "epi_end", "exit"}

TypeOK ==
  /\ stages \in 1 .. NumLdsStages /\ num_loop \in Nat
  /\ pc \in [Waves -> Barrier \union WavePoint]
  /\ n \in [Waves -> 0 .. NumIter]
  /\ tile_idx \in [Waves -> Nat]
  /\ base \in [Producer -> 0 .. num_loop - 1]
  /\ vmq \in [Producer -> Seq([slot : Slot, tile : Nat \X Nat])]
  /\ lds \in [Slot -> [Producer -> {NoTile} \union (Nat \X Nat)]]
  /\ reading \in [Compute -> SUBSET Slot]
  /\ acc \in [Compute -> Seq({NoTile} \union (Nat \X Nat))]
  /\ epi \in [Waves -> 0 .. EpiLoop]
  /\ region \in [Compute -> {NoPart} \union (Nat \X Nat)]
  /\ writing \subseteq Compute /\ loading \subseteq Compute
  /\ out \in [Compute -> Seq({NoPart} \union (Nat \X Nat))]

\* When the barrier opens, all waves stand at the same barrier of the program,
\* in the same iteration and for the same tile: nothing but the number of the
\* barriers in three different programs, and in the epilogue, makes it so.
BarriersAligned ==
  (\A w \in Waves : pc[w] \in Barrier \union {"exit"}) =>
    \A w, v \in Waves : /\ pc[w] = pc[v] /\ n[w] = n[v]
                        /\ epi[w] = epi[v] /\ tile_idx[w] = tile_idx[v]

\* The epilogue and the pipeline share LDS: while a compute wave accesses its
\* epilogue region, no load is in flight and no wave reads a stage - neither
\* of this tile's pipeline nor of the next one's.
LdsHandover ==
  writing \union loading # {} =>
    /\ \A p \in Producer : vmq[p] = <<>>
    /\ \A c \in Compute : reading[c] = {}

\* A wave that is in its epilogue has accumulated exactly the num_loop K tiles
\* of its own output tile, each once and in order.
InEpilogue == {"epi_write", "region_write", "region_fence", "epi_read",
               "region_read", "store", "epi_end"}
SumIsOfTile ==
  \A c \in Compute :
    pc[c] \in InEpilogue =>
      acc[c] = [k \in 1 .. num_loop |-> Tile(tile_idx[c], k - 1)]

\* Every wave leaves the kernel, and then each compute wave has stored the
\* parts of all the block's tiles in order, each read back from a region that
\* all waves of its warp group had written.
Tiles == {t \in 0 .. NumTiles - 1 : t % GridDim = BlockId}
PartOf(j) == Part(BlockId + ((j - 1) \div EpiLoop) * GridDim, (j - 1) % EpiLoop)
KernelCompletes ==
  <>(/\ \A w \in Waves : pc[w] = "exit"
     /\ \A c \in Compute :
          out[c] = [j \in 1 .. EpiLoop * Cardinality(Tiles) |-> PartOf(j)])
=============================================================================
