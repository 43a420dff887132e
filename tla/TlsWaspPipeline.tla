-------------------------- MODULE TlsWaspPipeline --------------------------
(***************************************************************************)
(* The warp-specialised implicit-GEMM pipeline of the fused convolution,   *)
(* FusedConvIgemmPipelineTlsWaspAgmemBgmemCregV1, for one output tile.     *)
(*                                                                         *)
(* A work group has three warp groups of SubWGSize waves.  The producer    *)
(* waves copy K tiles of three operands (one shared by both compute warp   *)
(* groups, one private to each) into a ring of NumLdsStages LDS stages by  *)
(* asynchronous loads; the major and the minor compute waves read a stage  *)
(* and accumulate it.  Every wave is a process.  Waves meet only at six    *)
(* ebarriers (three "loaded", three "free"), at the work group barrier     *)
(* that ends each iteration, and in LDS.                                   *)
(*                                                                         *)
(* A step below is one barrier operation of one wave together with the     *)
(* wave's own register work around it.  Loads land in any interleaving of  *)
(* the producer waves, in issue order within a wave.                       *)
(*                                                                         *)
(* An operator X_What in front of X is X with a defect (What says which):  *)
(* the variant that the property guarding against it must reject.          *)
(***************************************************************************)
EXTENDS LdsStages, HcuEbarrier

CONSTANTS
  FilterUnroll,  \* filter taps: K tiles loaded at one channel offset
  NumLoop        \* num_loop, the K tiles of the problem

ASSUME ShapeAssumption == FilterUnroll \in Nat \ {0} /\ NumLoop \in Nat \ {0}

LoopUnroll == IF FilterUnroll % NumLdsStages = 0
              THEN FilterUnroll ELSE FilterUnroll * NumLdsStages

\* the only loop counts the host launches the kernel with
IsSupported == NumLoop % LoopUnroll = 0
ASSUME LoopAssumption == IsSupported

HasMainLoop == NumLoop \div LoopUnroll > 0

MainRounds_OneMore == IF ~HasMainLoop THEN 0 ELSE NumLoop \div LoopUnroll
\* rounds of "do ... while(loop < num_loop - LoopUnroll)": at least one
MainRounds == IF ~HasMainLoop THEN 0
              ELSE IF NumLoop > 2 * LoopUnroll
                   THEN NumLoop \div LoopUnroll - 1 ELSE 1

\* iterations a wave runs: the main rounds, and the tail's LoopUnroll
NumIter == (MainRounds + 1) * LoopUnroll

\* producer_loop_fn and compute_loop_fn: is_tail_loop, is_last_loop, lds_stage
IsTailLoop(n) == n >= NumIter - NumLdsStages
IsLastLoop(n) == n = NumIter - 1
LdsStage_NoWrap(n) == n
LdsStage(n)   == n % NumLdsStages

Ebar == {"load_sh", "load_pr_major", "load_pr_minor",
         "free_sh", "free_pr_major", "free_pr_minor"}
WvCnt_OneReader(b) == 2 * SubWGSize
WvCnt_AllGroups(b) == 3 * SubWGSize
WvCnt(b) == IF b = "free_sh" THEN 3 * SubWGSize ELSE 2 * SubWGSize

VARIABLES
  pc,       \* where each wave stands
  n,        \* iterations each wave has finished
  tile_idx, \* the output tile each wave works on
  coffset,  \* channel offset of a producer wave's three dram windows
  acc,      \* tiles a compute wave has accumulated
  ebar      \* the ebarrier slots

vars == <<pc, n, tile_idx, coffset, vmq, lds, reading, acc, ebar>>

Point == {"entry", "initial", "first_sh", "first_pr_major", "first_read",
          "load_pr_minor", "free_sh", "free_pr_major", "free_private", "issue",
          "free_pr_minor", "issue_pr_minor", "load_sh", "load_pr_major",
          "read", "fence", "tg", "done"}

TypeOK ==
  /\ pc \in [Waves -> Point]
  /\ n \in [Waves -> Nat]
  /\ tile_idx \in [Waves -> Nat]
  /\ coffset \in [Producer -> Nat]
  /\ vmq \in [Producer -> Seq([slot : Slot, tile : Nat \X Nat])]
  /\ lds \in [Slot -> [Producer -> {NoTile} \union (Nat \X Nat)]]
  /\ reading \in [Compute -> SUBSET Slot]
  /\ acc \in [Compute -> Seq({NoTile} \union (Nat \X Nat))]
  /\ ebar \in [Ebar -> [expected : Nat, pending : Nat, waiting : SUBSET Waves]]

\* a work group that starts at the given point with output tile t
StartOf(t, point) ==
  /\ pc = [w \in Waves |-> point]
  /\ n = [w \in Waves |-> 0]
  /\ tile_idx = [w \in Waves |-> t]
  /\ coffset = [p \in Producer |-> 0]
  /\ StagesInit
  /\ acc = [c \in Compute |-> <<>>]
  /\ ebar = [b \in Ebar |-> FreeSlot]

Init == StartOf(0, "entry")

(***************************************************************************)
(* What a wave's instructions do.                                          *)
(***************************************************************************)

\* the wave is at a point of its program and not stalled in an ebarrier
At(w, point) == pc[w] = point /\ \A b \in Ebar : w \notin ebar[b].waiting
Goto(w, point) == pc' = [pc EXCEPT ![w] = point]

arrive(b)  == ebar' = [ebar EXCEPT ![b] = EbarArrive(@, WvCnt(b))]
sync(b, w) == ebar' = [ebar EXCEPT ![b] = EbarSync(@, WvCnt(b), w)]

\* async_tls_load_tile_asm: the instructions that load operand o of a tile.
\* The window addresses a K tile by its channel offset and the sampled tap.
Loads(o, stage, p, samp_idx, offset) ==
  LoadsInto(o, stage, Tile(tile_idx[p], offset * FilterUnroll + samp_idx))

\* test_and_advance_tile_window
Advanced(offset, next_samp_idx) ==
  IF next_samp_idx % FilterUnroll = 0 THEN offset + 1 ELSE offset

(***************************************************************************)
(* Producer waves.                                                         *)
(***************************************************************************)
IssueInitial(p) ==
  LET i == n[p]
      samp_idx == i % FilterUnroll
      load(o) == Loads(o, i, p, samp_idx, coffset[p])
  IN  /\ At(p, "initial")
      /\ vmq' = [vmq EXCEPT ![p] =
                   @ \o load("sh") \o load("pr_major") \o load("pr_minor")]
      /\ IF i < NumLdsStages - 1
         THEN /\ coffset' = [coffset EXCEPT ![p] = Advanced(@, samp_idx + 1)]
              /\ n' = [n EXCEPT ![p] = i + 1]
              /\ UNCHANGED pc
         ELSE /\ n' = [n EXCEPT ![p] = 0]
              /\ Goto(p, "first_sh")
              /\ UNCHANGED coffset
      /\ UNCHANGED <<tile_idx, lds, reading, acc, ebar>>

\* first sh and pr_major tiles landed: notify
NotifyFirstSh(p) ==
  /\ At(p, "first_sh")
  /\ async_load_fence(p, TileIssueCnt * NumLdsStages
                           - IssueCnt["sh"] - IssueCnt["pr_major"])
  /\ arrive("load_sh")
  /\ Goto(p, "first_pr_major")
  /\ UNCHANGED <<n, tile_idx, coffset, vmq, lds, reading, acc>>

NotifyFirstPrMajor(p) ==
  /\ At(p, "first_pr_major")
  /\ arrive("load_pr_major")
  /\ Goto(p, "load_pr_minor")
  /\ UNCHANGED <<n, tile_idx, coffset, vmq, lds, reading, acc>>

waitcnt_pr_minor_NoDrain(k) == TileIssueCnt * (NumLdsStages - 1)
waitcnt_pr_minor(k) ==
  IF IsTailLoop(k) THEN TileIssueCnt * (NumLdsStages - LdsStage(k) - 1)
  ELSE TileIssueCnt * (NumLdsStages - 1)

waitcnt_shpr_major(k) ==
  (IF IsTailLoop(k) THEN TileIssueCnt * (NumLdsStages - LdsStage(k) - 1)
   ELSE TileIssueCnt * NumLdsStages) - IssueCnt["sh"] - IssueCnt["pr_major"]

\* where the iteration goes on after the loads, which a tail loop skips
AfterIssue(k) == IF IsLastLoop(k) THEN "tg" ELSE "load_sh"

NotifyPrMinor(p) ==
  /\ At(p, "load_pr_minor")
  /\ async_load_fence(p, waitcnt_pr_minor(n[p]))
  /\ arrive("load_pr_minor")
  /\ Goto(p, IF IsTailLoop(n[p]) THEN AfterIssue(n[p]) ELSE "free_sh")
  /\ UNCHANGED <<n, tile_idx, coffset, vmq, lds, reading, acc>>

AwaitFreeSh_NoWait(p) ==
  /\ At(p, "free_sh")
  /\ Goto(p, "free_pr_major")
  /\ UNCHANGED <<n, tile_idx, coffset, vmq, lds, reading, acc, ebar>>

\* wait until the stage's readers are done with sh and pr_major
AwaitFreeSh(p) ==
  /\ At(p, "free_sh")
  /\ sync("free_sh", p)
  /\ Goto(p, "free_pr_major")
  /\ UNCHANGED <<n, tile_idx, coffset, vmq, lds, reading, acc>>

AwaitFreePrMajor(p) ==
  /\ At(p, "free_pr_major")
  /\ sync("free_pr_major", p)
  /\ Goto(p, "issue")
  /\ UNCHANGED <<n, tile_idx, coffset, vmq, lds, reading, acc>>

SampIdx_OwnTap(k) == (k % LoopUnroll) % FilterUnroll
\* samp_idx of the tile issued in iteration k
SampIdx(k) == ((k % LoopUnroll) + NumLdsStages) % FilterUnroll

IssueShPrMajor(p) ==
  LET k == n[p]
      offset == Advanced(coffset[p], SampIdx(k))
      load(o) == Loads(o, LdsStage(k), p, SampIdx(k), offset)
  IN  /\ At(p, "issue")
      /\ coffset' = [coffset EXCEPT ![p] = offset]
      /\ vmq' = [vmq EXCEPT ![p] = @ \o load("sh") \o load("pr_major")]
      /\ Goto(p, "free_pr_minor")
      /\ UNCHANGED <<n, tile_idx, lds, reading, acc, ebar>>

AwaitFreePrMinor(p) ==
  /\ At(p, "free_pr_minor")
  /\ sync("free_pr_minor", p)
  /\ Goto(p, "issue_pr_minor")
  /\ UNCHANGED <<n, tile_idx, coffset, vmq, lds, reading, acc>>

IssuePrMinor(p) ==
  LET k == n[p]
  IN  /\ At(p, "issue_pr_minor")
      /\ vmq' = [vmq EXCEPT ![p] =
                   @ \o Loads("pr_minor", LdsStage(k), p, SampIdx(k), coffset[p])]
      /\ Goto(p, AfterIssue(k))
      /\ UNCHANGED <<n, tile_idx, coffset, lds, reading, acc, ebar>>

\* sh and pr_major tiles of the next iteration landed: notify
NotifySh(p) ==
  /\ At(p, "load_sh")
  /\ async_load_fence(p, waitcnt_shpr_major(n[p]))
  /\ arrive("load_sh")
  /\ Goto(p, "load_pr_major")
  /\ UNCHANGED <<n, tile_idx, coffset, vmq, lds, reading, acc>>

NotifyPrMajor(p) ==
  /\ At(p, "load_pr_major")
  /\ arrive("load_pr_major")
  /\ Goto(p, "tg")
  /\ UNCHANGED <<n, tile_idx, coffset, vmq, lds, reading, acc>>

\* memory
Land(p) == LandOldest(p) /\ UNCHANGED <<pc, n, tile_idx, coffset, acc, ebar>>

(***************************************************************************)
(* Compute waves.  A ds read is in flight from its issue to the lds_fence; *)
(* the matrix product that follows the fence accumulates what was read.    *)
(***************************************************************************)
\* major: wait for the first, or the next, sh and pr_major tiles
AwaitSh(m) ==
  /\ \/ At(m, "first_sh") /\ Goto(m, "first_pr_major")
     \/ At(m, "load_sh")  /\ Goto(m, "load_pr_major")
  /\ sync("load_sh", m)
  /\ UNCHANGED <<n, tile_idx, coffset, vmq, lds, reading, acc>>

AwaitPrMajor(m) ==
  /\ \/ At(m, "first_pr_major") /\ Goto(m, "first_read")
     \/ At(m, "load_pr_major")  /\ Goto(m, "read")
  /\ sync("load_pr_major", m)
  /\ UNCHANGED <<n, tile_idx, coffset, vmq, lds, reading, acc>>

ReadMajor_TailUnsynced(m) ==
  /\ \/ At(m, "first_read") /\ ReadStage(m, 0) /\ Goto(m, "fence") /\ UNCHANGED n
     \/ /\ At(m, "read")
        /\ ReadStage(m, (LdsStage(n[m]) + 1) % NumLdsStages)
        /\ IF IsTailLoop(n[m])
           THEN Goto(m, "fence") /\ n' = [n EXCEPT ![m] = @ + 1]
           ELSE Goto(m, "tg") /\ UNCHANGED n
  /\ UNCHANGED <<tile_idx, coffset, vmq, lds, acc, ebar>>

\* major: ds read of stage 0, then of the stage after the iteration's own
ReadMajor(m) ==
  /\ \/ At(m, "first_read") /\ ReadStage(m, 0) /\ Goto(m, "fence")
     \/ /\ At(m, "read")
        /\ ReadStage(m, (LdsStage(n[m]) + 1) % NumLdsStages)
        /\ Goto(m, "tg")
  /\ UNCHANGED <<n, tile_idx, coffset, vmq, lds, acc, ebar>>

\* minor: wait for the iteration's pr_minor tile, which lands after its sh
AwaitPrMinor(m) ==
  /\ At(m, "load_pr_minor")
  /\ sync("load_pr_minor", m)
  /\ Goto(m, "read")
  /\ UNCHANGED <<n, tile_idx, coffset, vmq, lds, reading, acc>>

ReadMinor(m) ==
  /\ At(m, "read")
  /\ ReadStage(m, LdsStage(n[m]))
  /\ Goto(m, "fence")
  /\ UNCHANGED <<n, tile_idx, coffset, vmq, lds, acc, ebar>>

\* where an iteration goes on after its product
AfterProduct(c) ==
  IF c \in Major /\ ~IsLastLoop(n[c]) THEN "load_sh" ELSE "tg"

\* lds_fence, the notice that the stage is free (not in a tail loop), mmac
FenceAndFreeSh(c) ==
  /\ At(c, "fence")
  /\ acc' = [acc EXCEPT ![c] = Append(@, Product(c))]
  /\ reading' = [reading EXCEPT ![c] = {}]
  /\ IF IsTailLoop(n[c])
     THEN Goto(c, AfterProduct(c)) /\ UNCHANGED ebar
     ELSE Goto(c, "free_private") /\ arrive("free_sh")
  /\ UNCHANGED <<n, tile_idx, coffset, vmq, lds>>

FreePrivate(c) ==
  /\ At(c, "free_private")
  /\ arrive(IF c \in Major THEN "free_pr_major" ELSE "free_pr_minor")
  /\ Goto(c, AfterProduct(c))
  /\ UNCHANGED <<n, tile_idx, coffset, vmq, lds, reading, acc>>

(***************************************************************************)
(* wg_sync: s_barrier lets the waves go when all of them have reached one. *)
(***************************************************************************)
LoopStart(w) == IF w \in Major THEN "fence" ELSE "load_pr_minor"
Resume(w) ==
  CASE pc[w] = "entry" -> IF w \in Producer THEN "initial"
                          ELSE IF w \in Major THEN "first_sh" ELSE LoopStart(w)
    [] pc[w] = "tg"    -> IF IsLastLoop(n[w]) THEN "done" ELSE LoopStart(w)

WgSync ==
  /\ \A w \in Waves : pc[w] \in {"entry", "tg"}
  /\ pc' = [w \in Waves |-> Resume(w)]
  /\ n' = [w \in Waves |-> IF pc[w] = "tg" THEN n[w] + 1 ELSE n[w]]
  /\ UNCHANGED <<tile_idx, coffset, vmq, lds, reading, acc, ebar>>

ProducerStep(p) ==
  \/ IssueInitial(p) \/ NotifyFirstSh(p) \/ NotifyFirstPrMajor(p)
  \/ NotifyPrMinor(p)
  \/ AwaitFreeSh(p) \/ AwaitFreePrMajor(p) \/ IssueShPrMajor(p)
  \/ AwaitFreePrMinor(p) \/ IssuePrMinor(p)
  \/ NotifySh(p) \/ NotifyPrMajor(p)

MajorStep(m) ==
  \/ AwaitSh(m) \/ AwaitPrMajor(m) \/ ReadMajor(m)
  \/ FenceAndFreeSh(m) \/ FreePrivate(m)

MinorStep(m) ==
  \/ AwaitPrMinor(m) \/ ReadMinor(m)
  \/ FenceAndFreeSh(m) \/ FreePrivate(m)

PipelineStep ==
  \/ \E p \in Producer : ProducerStep(p) \/ Land(p)
  \/ \E m \in Major : MajorStep(m)
  \/ \E m \in Minor : MinorStep(m)
  \/ WgSync

\* every wave has returned from its pipeline
Terminated == (\A w \in Waves : pc[w] = "done") /\ UNCHANGED vars

Next == PipelineStep \/ Terminated

\* The scheduler runs every wave that is not stalled, memory answers every
\* load, and the barrier hardware releases a complete work group barrier.
Fairness ==
  /\ \A p \in Producer : WF_vars(ProducerStep(p)) /\ WF_vars(Land(p))
  /\ \A m \in Major : WF_vars(MajorStep(m))
  /\ \A m \in Minor : WF_vars(MinorStep(m))
  /\ WF_vars(WgSync)

Spec == Init /\ [][Next]_vars
FairSpec == Spec /\ Fairness

(***************************************************************************)
(* Correctness.                                                            *)
(***************************************************************************)

\* An ebarrier slot completes on behalf of every wave that syncs on it: no
\* wave arrives twice in a phase in place of a wave still on its way.
SyncWaves(b) ==
  CASE b \in {"load_sh", "load_pr_major"} -> Major
    [] b = "load_pr_minor" -> Minor
    [] OTHER -> Producer
CompletesForAll ==
  [][\A b \in Ebar :
       ebar[b].pending > 0 /\ ebar'[b].pending = 0 =>
         \A w \in SyncWaves(b) : w \in ebar[b].waiting \/ pc'[w] # pc[w]]_vars

\* All waves that leave a work group barrier are at the same barrier of the
\* program: none waits in the kernel while others are in an iteration, or in
\* an iteration of another number.
WgSyncAligned ==
  (\A w \in Waves : pc[w] \in {"entry", "tg"}) =>
    \A w, v \in Waves : pc[w] = pc[v] /\ n[w] = n[v]

\* When a wave has left the pipeline, nothing will write or read the LDS
\* stages any more and every ebarrier slot is free: the epilogue reuses both.
QuiescentAtExit ==
  (\E w \in Waves : pc[w] = "done") =>
    /\ \A p \in Producer : vmq[p] = <<>>
    /\ \A c \in Compute : reading[c] = {}
    /\ \A b \in Ebar : ebar[b] = FreeSlot

\* The pipeline implements the contraction: its compute waves accumulate the
\* problem's num_loop K tiles, each once and in order, before they return.
\* (A product of anything else is mapped to no tile number.)
TileNumber(t) == IF t[1] = 0 THEN t[2] ELSE -1
Contraction ==
  INSTANCE KContraction WITH
    Worker   <- Compute,
    NumTiles <- NumLoop,
    sum      <- [c \in Compute |-> [j \in DOMAIN acc[c] |-> TileNumber(acc[c][j])]],
    ready    <- {c \in Compute : pc[c] = "done"}
ImplementsContraction == Contraction!Spec

\* Every wave returns from its pipeline.
Termination == <>(\A w \in Waves : pc[w] = "done")
=============================================================================
