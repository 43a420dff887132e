------------------------- MODULE TlsWaspPersistent -------------------------
(***************************************************************************)
(* One work group of the persistent kernel: FusedConvTlsWaspPersistant-    *)
(* KernelV1 runs, for every output tile of the block, the pipeline of      *)
(* TlsWaspPipeline and then, in the compute waves, the epilogue            *)
(* FusedConvEpilogueWaspV2.                                                *)
(*                                                                         *)
(* The epilogue shuffles the accumulator through LDS: in each iteration    *)
(* every wave of a warp group writes its part of a region, and reads parts *)
(* of all waves back in another layout.  The regions overlay the LDS       *)
(* stages of the pipeline, and the epilogue's ebarrier uses the slot whose *)
(* number is the rank of the warp group, which the pipeline uses too.      *)
(* The producer waves skip the epilogue and wait for the next tile.        *)
(*                                                                         *)
(* The fused forms add a bias, and a residual, to every part: the wave     *)
(* loads them NumPrefetch parts ahead into as many register buffers, and   *)
(* knows by the number of its vector memory operations that are still      *)
(* outstanding, its own stores among them, when a buffer is filled.        *)
(***************************************************************************)
EXTENDS TlsWaspPipeline

CONSTANTS
  NumTiles,  \* output tiles of the problem
  BlockId,   \* get_block_1d_id()
  GridDim,   \* gridDim.x, the distance between the block's tiles
  EpiLoop,   \* num_loop of the epilogue
  OperandIssue  \* bias_load_issue + res_load_issue: 0 in the unary epilogue

NumPrefetch == IF EpiLoop \div 2 >= 1 THEN 2 ELSE 1

ASSUME TilesAssumption ==
  /\ NumTiles \in Nat \ {0}
  /\ GridDim \in Nat \ {0}
  /\ BlockId \in 0 .. GridDim - 1
  /\ EpiLoop \in Nat \ {0} /\ EpiLoop % NumPrefetch = 0
  /\ OperandIssue \in Nat

VARIABLES
  epi,      \* the epilogue iteration of each compute wave
  region,   \* the part each wave last wrote to its warp group's region
  writing,  \* waves whose ds writes to the region are in flight
  loading,  \* waves whose ds reads of the region are in flight
  out,      \* parts each wave has stored to the output tensor
  epivmq,   \* a compute wave's operand loads and stores in flight, in order
  operand   \* what the pieces of its register buffers hold

epiVars == <<epi, region, writing, loading, out, epivmq, operand>>
pvars   == <<vars, epiVars>>

\* part of a region: iteration i of a tile's epilogue
Part(t, i) == <<t, i>>
NoPart     == <<-1, -1>>
\* a piece of a register buffer, which one load instruction fills
Buffer == (0 .. NumPrefetch - 1) \X (1 .. OperandIssue)
Team(c) == IF c \in Major THEN Major ELSE Minor

PInit ==
  /\ StartOf(BlockId, IF BlockId < NumTiles THEN "entry" ELSE "exit")
  /\ epi = [c \in Compute |-> 0]
  /\ region = [c \in Compute |-> NoPart]
  /\ writing = {}
  /\ loading = {}
  /\ out = [c \in Compute |-> <<>>]
  /\ epivmq = [c \in Compute |-> <<>>]
  /\ operand = [c \in Compute |-> [b \in Buffer |-> NoPart]]

(***************************************************************************)
(* Epilogue of a compute wave.                                             *)
(***************************************************************************)
\* hcu_ebarrier{rank, SubWGSize}: slots 0 and 1 are the pipeline's
\* ebar_load_sh and ebar_load_pr_major
EpiBar_OneSlot(c) == "load_sh"
EpiBar(c) == IF c \in Major THEN "load_sh" ELSE "load_pr_major"
EpiSync_NoStall(c) ==
  ebar' = [ebar EXCEPT ![EpiBar(c)] = EbarArrive(@, SubWGSize)]
EpiSync(c) ==
  ebar' = [ebar EXCEPT ![EpiBar(c)] = EbarSync(@, SubWGSize, c)]

UNCHANGEDpipeline ==
  UNCHANGED <<n, tile_idx, coffset, vmq, lds, reading, acc>>

\* the load instructions for the operands of part i of the wave's tile
OperandLoads(c, i) ==
  [j \in 1 .. OperandIssue |->
     [buffer |-> <<i % NumPrefetch, j>>, part |-> Part(tile_idx[c], i)]]

\* prefetch, before the first part
Prefetch(c) ==
  IF NumPrefetch = 1 THEN OperandLoads(c, 0) ELSE OperandLoads(c, 0) \o OperandLoads(c, 1)

\* safe guard for the ds write: the wave's reads are back (lds_fence), and so
\* are those of the other waves after the barrier
GuardWrite(c) ==
  /\ \/ At(c, "done") /\ epivmq' = [epivmq EXCEPT ![c] = @ \o Prefetch(c)]
     \/ At(c, "epi_next") /\ UNCHANGED epivmq
  /\ EpiSync(c)
  /\ Goto(c, "epi_write")
  /\ loading' = loading \ {c}
  /\ UNCHANGEDpipeline /\ UNCHANGED <<epi, region, writing, out, operand>>

WriteRegion(c) ==
  /\ At(c, "epi_write")
  /\ writing' = writing \union {c}
  /\ Goto(c, "epi_guard_read")
  /\ UNCHANGEDpipeline /\ UNCHANGED <<ebar, epi, region, loading, out, epivmq, operand>>

\* safe guard for the ds read: the wave's writes are done (lds_fence)
GuardRead(c) ==
  /\ At(c, "epi_guard_read")
  /\ writing' = writing \ {c}
  /\ region' = [region EXCEPT ![c] = Part(tile_idx[c], epi[c])]
  /\ EpiSync(c)
  /\ Goto(c, "epi_read")
  /\ UNCHANGEDpipeline /\ UNCHANGED <<epi, loading, out, epivmq, operand>>

ReadRegion(c) ==
  /\ At(c, "epi_read")
  /\ loading' = loading \union {c}
  /\ Goto(c, "epi_store")
  /\ UNCHANGEDpipeline /\ UNCHANGED <<ebar, epi, region, writing, out, epivmq, operand>>

\* what the ds read returns: one part, if all waves of the region wrote it
Shuffled(c) ==
  IF Team(c) \intersect writing = {}
  THEN TheOne({region[v] : v \in Team(c)}) ELSE NoPart

\* the epilogue's loop goes on after the wave's current part
MoreParts_OneMore(c) == epi[c] < EpiLoop
MoreParts(c) == epi[c] < EpiLoop - 1

\* buffer_load_fence(waitcnt): so many operations may be outstanding
waitcnt_operand_NoTail(i) == OperandIssue * (NumPrefetch - 1)
waitcnt_operand(i) ==
  IF i >= EpiLoop - NumPrefetch
  THEN OperandIssue * (NumPrefetch - 1 - (i % NumPrefetch))
  ELSE OperandIssue * (NumPrefetch - 1)

\* operations that have completed when the fence lets part i go on: at least
FenceLands(c, i) ==
  IF Len(epivmq[c]) <= waitcnt_operand(i) THEN 0 ELSE Len(epivmq[c]) - waitcnt_operand(i)

\* the buffers when the wave's first k operations have completed
BuffersAfter(c, k) ==
  [b \in Buffer |->
     LET filling == {j \in 1 .. k : epivmq[c][j].buffer = b}
     IN IF filling = {} THEN operand[c][b]
        ELSE epivmq[c][CHOOSE j \in filling : \A h \in filling : h <= j].part]

\* the part whose operands a filled buffer holds
OperandIn(buffers, i) ==
  TheOne({buffers[<<i % NumPrefetch, j>>] : j \in 1 .. OperandIssue})

\* a store, which fills no buffer, and the prefetch that follows it
Store(part) == <<[buffer |-> <<-1, 0>>, part |-> part]>>
LoadAhead(c, i) ==
  IF i < EpiLoop - NumPrefetch THEN OperandLoads(c, i + NumPrefetch) ELSE <<>>

\* The elementwise operation waits for the read and for its operands, and the
\* result is stored.  More operations may have completed than the fence asks
\* for: the operation sees their effect, but the queue keeps them, for what
\* may have happened already may as well happen later.
StoreOut(c) ==
  LET i == epi[c]
      lands == FenceLands(c, i)
  IN  /\ At(c, "epi_store")
      /\ loading' = loading \ {c}
      /\ \E k \in lands .. Len(epivmq[c]) :
           out' = [out EXCEPT ![c] = Append(@,
             [part |-> Shuffled(c), operand |-> OperandIn(BuffersAfter(c, k), i)])]
      /\ operand' = [operand EXCEPT ![c] = BuffersAfter(c, lands)]
      /\ epivmq' = [epivmq EXCEPT ![c] =
           SubSeq(@, lands + 1, Len(@)) \o Store(Part(tile_idx[c], i)) \o LoadAhead(c, i)]
      /\ IF MoreParts(c)
         THEN /\ epi' = [epi EXCEPT ![c] = @ + 1]
              /\ Goto(c, "epi_next")
         ELSE /\ epi' = [epi EXCEPT ![c] = 0]
              /\ Goto(c, "epi_end")
      /\ UNCHANGEDpipeline /\ UNCHANGED <<ebar, region, writing>>

EpilogueStep(c) ==
  \/ GuardWrite(c) \/ WriteRegion(c) \/ GuardRead(c)
  \/ ReadRegion(c) \/ StoreOut(c)

(***************************************************************************)
(* The kernel's tile loop: a wave makes its windows and accumulator anew   *)
(* for the block's next tile, or leaves.                                   *)
(***************************************************************************)
EndOfTile(w) == IF w \in Producer THEN "done" ELSE "epi_end"

\* where a wave starts output tile t, if there is one
TileEntry_Unsynced(w, t) ==
  IF t < NumTiles THEN IF w \in Producer THEN "initial" ELSE "entry" ELSE "exit"
TileEntry_OneLess(w, t) == IF t < NumTiles - 1 THEN "entry" ELSE "exit"
TileEntry(w, t) == IF t < NumTiles THEN "entry" ELSE "exit"

\* the dram windows of a producer wave, at the tile's first channel
FreshWindows_Kept(w) == UNCHANGED coffset
FreshWindows(w) == coffset' = [p \in Producer |-> IF p = w THEN 0 ELSE coffset[p]]

NextTile(w) ==
  LET next == tile_idx[w] + GridDim
  IN  /\ At(w, EndOfTile(w))
      /\ tile_idx' = [tile_idx EXCEPT ![w] = next]
      /\ Goto(w, TileEntry(w, next))
      /\ n' = [n EXCEPT ![w] = 0]
      /\ FreshWindows(w)
      /\ acc' = [c \in Compute |-> IF c = w THEN <<>> ELSE acc[c]]
      /\ UNCHANGED <<vmq, lds, reading, ebar, epiVars>>

Exited == (\A w \in Waves : pc[w] = "exit") /\ UNCHANGED pvars

PNext ==
  \/ PipelineStep /\ UNCHANGED epiVars
  \/ \E c \in Compute : EpilogueStep(c)
  \/ \E w \in Waves : NextTile(w)
  \/ Exited

PFairness ==
  /\ \A p \in Producer :
       /\ WF_pvars(ProducerStep(p) /\ UNCHANGED epiVars)
       /\ WF_pvars(Land(p) /\ UNCHANGED epiVars)
  /\ \A m \in Major : WF_pvars(MajorStep(m) /\ UNCHANGED epiVars)
  /\ \A m \in Minor : WF_pvars(MinorStep(m) /\ UNCHANGED epiVars)
  /\ WF_pvars(WgSync /\ UNCHANGED epiVars)
  /\ \A c \in Compute : WF_pvars(EpilogueStep(c))
  /\ \A w \in Waves : WF_pvars(NextTile(w))

PSpec == PInit /\ [][PNext]_pvars
PFairSpec == PSpec /\ PFairness

(***************************************************************************)
(* Correctness.                                                            *)
(***************************************************************************)
EpiPoint == {"epi_write", "epi_guard_read", "epi_read", "epi_store",
             "epi_next", "epi_end", "exit"}
Tiles == {t \in 0 .. NumTiles - 1 : t % GridDim = BlockId}

PTypeOK ==
  /\ pc \in [Waves -> Point \union EpiPoint]
  /\ epi \in [Compute -> 0 .. EpiLoop - 1]
  /\ region \in [Compute -> {NoPart} \union (Nat \X Nat)]
  /\ writing \subseteq Compute
  /\ loading \subseteq Compute
  /\ out \in [Compute -> Seq([part : {NoPart} \union (Nat \X Nat),
                               operand : {NoPart} \union (Nat \X Nat)])]
  /\ \A c \in Compute : Len(epivmq[c]) <= NumPrefetch * OperandIssue + EpiLoop

\* The epilogue and the pipeline share LDS: while a compute wave accesses its
\* epilogue region, no load of the producer is in flight and no wave reads a
\* stage - neither of this tile's pipeline nor of the next one's.
LdsHandover ==
  writing \union loading # {} =>
    /\ \A p \in Producer : vmq[p] = <<>>
    /\ \A c \in Compute : reading[c] = {}

\* No wave writes to a region that a wave of the same warp group is reading.
NoRegionRace ==
  \A c \in writing, d \in loading : Team(c) # Team(d)

\* All waves using an ebarrier slot agree on its number of arrivals: the
\* epilogue never joins a phase the pipeline has begun, nor the reverse.
SlotsAgree ==
  \A b \in Ebar : \A w \in ebar[b].waiting :
    ebar[b].expected = IF pc[w] \in EpiPoint THEN SubWGSize ELSE WvCnt(b)

\* A wave that is in its epilogue has accumulated exactly the K tiles of its
\* own output tile, whatever the pipeline of the previous tile left in LDS.
SumIsOfTile ==
  \A c \in Compute :
    pc[c] \in EpiPoint \ {"exit"} =>
      acc[c] = [k \in 1 .. NumLoop |-> Tile(tile_idx[c], k - 1)]

\* What a wave stores are the parts of the block's tiles, in order, each read
\* back from a region that all waves of its warp group had written.
PartOf(j) == Part(BlockId + ((j - 1) \div EpiLoop) * GridDim, (j - 1) % EpiLoop)
OutputInOrder ==
  \A c \in Compute : \A j \in DOMAIN out[c] : out[c][j].part = PartOf(j)

\* What the wave adds to a part are the bias and the residual of that part: its
\* loads have all completed, and the next prefetch has not overwritten them.
OperandsOfPart ==
  OperandIssue > 0 =>
    \A c \in Compute : \A j \in DOMAIN out[c] : out[c][j].operand = PartOf(j)

\* Every wave of the block leaves the kernel, and then all parts of all the
\* block's tiles are stored.
KernelCompletes ==
  <>(/\ \A w \in Waves : pc[w] = "exit"
     /\ \A c \in Compute : Len(out[c]) = EpiLoop * Cardinality(Tiles))
=============================================================================
