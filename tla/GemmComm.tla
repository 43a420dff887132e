------------------------------ MODULE GemmComm ------------------------------
(***************************************************************************)
(* The two-rank GEMM with device-side reduction of 05_gemm_comm: the       *)
(* role_kernel of v02_single_kernel_pipeline (operators.hpp), the two      *)
(* kernels of v03_two_kernel_tiles (two_kernel.hpp), and the host loops    *)
(* that drive them (bench.cpp).                                            *)
(*                                                                         *)
(* In every epoch each rank computes a partial result of every tile and    *)
(* adds the peer's, which it reads from the peer's memory.  Thread blocks  *)
(* (CTAs) of one launch play two roles: compute CTAs make tiles and        *)
(* publish them in "produced", communication CTAs tell the peer, wait for  *)
(* its notice in "remote_ready" and reduce.  Flags are never reset: they   *)
(* hold the epoch that set them, and the host raises the epoch.  In v03    *)
(* the roles are two kernels on two streams, whose CTAs become resident    *)
(* in any order as others exit.                                            *)
(*                                                                         *)
(* A result is modelled by the epoch it was computed in, 0 for the pattern *)
(* the host fills a buffer with.  Stores of a CTA reach its own rank by    *)
(* the fence that ends compute_tile, and the peer at the latest by the     *)
(* system fence of publish.                                                *)
(*                                                                         *)
(* An operator X_What in front of X is X with a defect (What says which):  *)
(* the variant that the property guarding against it must reject.          *)
(***************************************************************************)
EXTENDS Integers, FiniteSets

CONSTANTS
  Compute,  \* a.compute, CTAs with the compute role
  Comm,     \* a.comm, CTAs with the communication role
  Total,    \* tiles of the output
  MaxEpoch, \* launches the host makes
  ModeOf,   \* the mode of each
  Slots     \* CTAs of the two kernels that a rank has resident at once

\* -1 library; the one kernel: 0 serial, 1 phase-separated, 2 pipelined,
\* 3 compute-only; the two kernels: 4 two_serial, 5 two_overlap, 6 compute_only
Mode == -1 .. 6
TwoKernels == {4, 5, 6}

ASSUME GridAssumption ==
  /\ Compute \in Nat \ {0}
  /\ Comm \in Nat \ {0}
  /\ Total \in Nat
  /\ MaxEpoch \in Nat \ {0}
  /\ ModeOf \in [1 .. MaxEpoch -> Mode]
  /\ Slots \in Nat /\ Comm < Slots  \* the bounded consumer grid of two_kernel.hpp

Rank == {0, 1}
Peer(r) == 1 - r
CTA  == 0 .. Compute + Comm - 1
Tile == 0 .. Total - 1

VARIABLES
  host,         \* where each rank's host thread stands
  epoch,        \* a.epoch
  cta,          \* where each CTA of a rank stands
  tile,         \* the tile its loop is at
  partial,      \* a.partial, as its own rank sees it
  peer_partial, \* a.partial, as the peer sees it
  produced, finished, remote_ready, \* the flags
  signals,      \* signals on their way to a rank
  output        \* a.output: the epochs of the two summands

hostVars == <<host, epoch>>
ctaVars  == <<cta, tile>>
data     == <<partial, peer_partial, output>>
flags    == <<produced, finished, remote_ready, signals>>
vars     == <<hostVars, ctaVars, data, flags>>

HostPoint == {"prepare", "barrier", "launch", "kernel", "worst", "check",
              "allerr", "abort", "done"}
CtaPoint == {"idle", "queued", "compute", "fence", "flag", "finish", "await_finished",
             "await_produced", "signal", "quiet", "await_peer", "reduce", "exit"}

Signal == [tile : Tile, epoch : Nat]

TypeOK ==
  /\ host \in [Rank -> HostPoint]
  /\ epoch \in [Rank -> 0 .. MaxEpoch]
  /\ cta \in [Rank -> [CTA -> CtaPoint]]
  /\ tile \in [Rank -> [CTA -> Nat]]
  /\ partial \in [Rank -> [Tile -> Nat]]
  /\ peer_partial \in [Rank -> [Tile -> Nat]]
  /\ produced \in [Rank -> [Tile -> Nat]]
  /\ finished \in [Rank -> [0 .. Compute - 1 -> Nat]]
  /\ remote_ready \in [Rank -> [Tile -> Nat]]
  /\ signals \in [Rank -> SUBSET Signal]
  /\ output \in [Rank -> [Tile -> Nat \X Nat]]

Filled == [t \in Tile |-> 0]

Init ==
  /\ host = [r \in Rank |-> "prepare"]
  /\ epoch = [r \in Rank |-> 0]
  /\ cta = [r \in Rank |-> [c \in CTA |-> "idle"]]
  /\ tile = [r \in Rank |-> [c \in CTA |-> 0]]
  /\ partial = [r \in Rank |-> Filled]
  /\ peer_partial = [r \in Rank |-> Filled]
  /\ produced = [r \in Rank |-> Filled]
  /\ finished = [r \in Rank |-> [c \in 0 .. Compute - 1 |-> 0]]
  /\ remote_ready = [r \in Rank |-> Filled]
  /\ signals = [r \in Rank |-> {}]
  /\ output = [r \in Rank |-> [t \in Tile |-> <<0, 0>>]]

(***************************************************************************)
(* role_kernel: the loops of a CTA.                                        *)
(***************************************************************************)
mode(r) == ModeOf[epoch[r]]
IsComputeCTA(c) == c < Compute

\* a loop starts at the CTA's number within its role, and steps by the role's
\* number of CTAs; in mode 0 all CTAs have the one role
FirstTile_OneRole(r, c) == IF mode(r) = 0 THEN c ELSE c - Compute
FirstTile(r, c) == IF mode(r) = 0 \/ IsComputeCTA(c) THEN c ELSE c - Compute
Stride_One(r, c)  == 1
Stride_Grid(r, c) == Compute + Comm
Stride(r, c) == IF mode(r) = 0 THEN Compute + Comm
                ELSE IF IsComputeCTA(c) THEN Compute ELSE Comm

\* the point of the loop test: its body, or what follows the loop
LoopTest(r, c, t) ==
  IF mode(r) = 0 THEN IF t < Total THEN "compute" ELSE "exit"
  ELSE IF IsComputeCTA(c)
       THEN IF t < Total THEN "compute"
            ELSE IF mode(r) \in TwoKernels THEN "exit" ELSE "finish"
  ELSE IF t < Total THEN "await_produced" ELSE "exit"

\* where a CTA starts: in a queue, or resident with the whole grid
Entry(r, c) ==
  IF mode(r) \in {3, 6} /\ ~IsComputeCTA(c) THEN "exit"
  ELSE IF mode(r) \in TwoKernels THEN "queued"
  ELSE IF mode(r) = 1 /\ ~IsComputeCTA(c) THEN "await_finished"
  ELSE LoopTest(r, c, FirstTile(r, c))

GoCta(r, c, point) == cta' = [cta EXCEPT ![r][c] = point]
NextRound(r, c) ==
  LET next == tile[r][c] + Stride(r, c)
  IN  /\ tile' = [tile EXCEPT ![r][c] = next]
      /\ GoCta(r, c, LoopTest(r, c, next))

\* A CTA of the two kernels gets a place on the device; those of the
\* communication kernel of two_serial only when the compute kernel has ended.
Resident(r) == {c \in CTA : cta[r][c] \notin {"idle", "queued", "exit"}}
MayStart_Backwards(r, c) ==
  /\ Cardinality(Resident(r)) < Slots
  /\ mode(r) = 4 /\ IsComputeCTA(c) =>
       \A d \in Compute .. Compute + Comm - 1 : cta[r][d] = "exit"

MayStart(r, c) ==
  /\ Cardinality(Resident(r)) < Slots
  /\ mode(r) = 4 /\ ~IsComputeCTA(c) => \A p \in 0 .. Compute - 1 : cta[r][p] = "exit"

Dispatch(r, c) ==
  /\ cta[r][c] = "queued"
  /\ MayStart(r, c)
  /\ GoCta(r, c, LoopTest(r, c, tile[r][c]))
  /\ UNCHANGED <<hostVars, tile, data, flags>>

\* compute_tile, with the device-scope fence that ends it
ComputeTile(r, c) ==
  /\ cta[r][c] = "compute"
  /\ partial' = [partial EXCEPT ![r][tile[r][c]] = epoch[r]]
  /\ GoCta(r, c, "fence")
  /\ UNCHANGED <<hostVars, tile, peer_partial, output, flags>>

FenceSystem_Device(r, c) ==
  /\ cta[r][c] = "fence"
  /\ GoCta(r, c, "flag")
  /\ UNCHANGED <<hostVars, tile, data, flags>>

\* publish: the system fence, then the flag
FenceSystem(r, c) ==
  LET t == tile[r][c]
  IN  /\ cta[r][c] = "fence"
      /\ peer_partial' = [peer_partial EXCEPT ![r][t] = partial[r][t]]
      /\ GoCta(r, c, "flag")
      /\ UNCHANGED <<hostVars, tile, partial, output, flags>>

PublishTile(r, c) ==
  /\ cta[r][c] = "flag"
  /\ produced' = [produced EXCEPT ![r][tile[r][c]] = epoch[r]]
  /\ IF mode(r) = 0 THEN GoCta(r, c, "signal") /\ UNCHANGED tile
     ELSE NextRound(r, c)
  /\ UNCHANGED <<hostVars, data, finished, remote_ready, signals>>

PublishFinished(r, c) ==
  /\ cta[r][c] = "finish"
  /\ finished' = [finished EXCEPT ![r][c] = epoch[r]]
  /\ GoCta(r, c, "exit")
  /\ UNCHANGED <<hostVars, tile, data, produced, remote_ready, signals>>

\* wait_local: the flag has been set in this epoch
wait_local_AnyEpoch(r, flag) == flag > 0
wait_local(r, flag) == flag >= epoch[r]

\* wait on every compute CTA's flag, or on the tile's
AwaitFinished(r, c) ==
  /\ cta[r][c] = "await_finished"
  /\ \A p \in 0 .. Compute - 1 : wait_local(r, finished[r][p])
  /\ GoCta(r, c, LoopTest(r, c, tile[r][c]))
  /\ UNCHANGED <<hostVars, tile, data, flags>>

AwaitProduced(r, c) ==
  /\ cta[r][c] = "await_produced"
  /\ wait_local(r, produced[r][tile[r][c]])
  /\ GoCta(r, c, "signal")
  /\ UNCHANGED <<hostVars, tile, data, flags>>

\* communicate_tile: signal the peer, wait until the signal is delivered,
\* wait for the peer's signal, add the two partial results
SignalPeer(r, c) ==
  /\ cta[r][c] = "signal"
  /\ signals' = [signals EXCEPT ![Peer(r)] =
                   @ \union {[tile |-> tile[r][c], epoch |-> epoch[r]]}]
  /\ GoCta(r, c, "quiet")
  /\ UNCHANGED <<hostVars, tile, data, produced, finished, remote_ready>>

Quiet(r, c) ==
  /\ cta[r][c] = "quiet"
  /\ [tile |-> tile[r][c], epoch |-> epoch[r]] \notin signals[Peer(r)]
  /\ GoCta(r, c, "await_peer")
  /\ UNCHANGED <<hostVars, tile, data, flags>>

AwaitPeer(r, c) ==
  /\ cta[r][c] = "await_peer"
  /\ wait_local(r, remote_ready[r][tile[r][c]])
  /\ GoCta(r, c, "reduce")
  /\ UNCHANGED <<hostVars, tile, data, flags>>

Reduce(r, c) ==
  LET t == tile[r][c]
  IN  /\ cta[r][c] = "reduce"
      /\ output' = [output EXCEPT ![r][t] =
                      <<partial[r][t], peer_partial[Peer(r)][t]>>]
      /\ NextRound(r, c)
      /\ UNCHANGED <<hostVars, partial, peer_partial, flags>>

CtaStep(r, c) ==
  \/ Dispatch(r, c)
  \/ ComputeTile(r, c) \/ FenceSystem(r, c) \/ PublishTile(r, c)
  \/ PublishFinished(r, c) \/ AwaitFinished(r, c) \/ AwaitProduced(r, c)
  \/ SignalPeer(r, c) \/ Quiet(r, c) \/ AwaitPeer(r, c) \/ Reduce(r, c)

(***************************************************************************)
(* Memory and interconnect: stores may reach the peer before any fence,    *)
(* signals arrive in any order.                                            *)
(***************************************************************************)
Drain(r, t) ==
  /\ peer_partial[r][t] # partial[r][t]
  /\ peer_partial' = [peer_partial EXCEPT ![r][t] = partial[r][t]]
  /\ UNCHANGED <<hostVars, ctaVars, partial, output, flags>>

Deliver(r) ==
  \E s \in signals[r] :
    /\ remote_ready' = [remote_ready EXCEPT ![r][s.tile] = s.epoch]
    /\ signals' = [signals EXCEPT ![r] = @ \ {s}]
    /\ UNCHANGED <<hostVars, ctaVars, data, produced, finished>>

(***************************************************************************)
(* bench.cpp: the host loop of test().                                     *)
(***************************************************************************)
GoHost(r, point) == host' = [host EXCEPT ![r] = point]

\* ++epoch, and the buffers filled with 0xff before the device synchronises
Prepare(r) ==
  /\ host[r] = "prepare"
  /\ epoch' = [epoch EXCEPT ![r] = @ + 1]
  /\ partial' = [partial EXCEPT ![r] = Filled]
  /\ peer_partial' = [peer_partial EXCEPT ![r] = Filled]
  /\ output' = [output EXCEPT ![r] = [t \in Tile |-> <<0, 0>>]]
  /\ GoHost(r, "barrier")
  /\ UNCHANGED <<ctaVars, flags>>

\* a collective of both ranks: nobody leaves it before everybody is there
Collective(from, to) ==
  /\ \A r \in Rank : host[r] = from
  /\ host' = [r \in Rank |-> to]
  /\ UNCHANGED <<epoch, ctaVars, data, flags>>

MPIBarrier == Collective("barrier", "launch")

\* the role kernel or the two kernels, or the library's GEMM and all-reduce
LaunchRoles(r) ==
  /\ host[r] = "launch"
  /\ mode(r) # -1
  /\ cta' = [cta EXCEPT ![r] = [c \in CTA |-> Entry(r, c)]]
  /\ tile' = [tile EXCEPT ![r] = [c \in CTA |-> FirstTile(r, c)]]
  /\ GoHost(r, "kernel")
  /\ UNCHANGED <<epoch, data, flags>>

LaunchLibrary(r) ==
  /\ host[r] = "launch"
  /\ mode(r) = -1
  /\ output' = [output EXCEPT ![r] = [t \in Tile |-> <<epoch[r], epoch[r]>>]]
  /\ GoHost(r, "kernel")
  /\ UNCHANGED <<epoch, ctaVars, partial, peer_partial, flags>>

KernelDone_Alone(r) ==
  /\ host[r] = "kernel"
  /\ \A c \in CTA : cta[r][c] \in {"idle", "exit"}
  /\ GoHost(r, "prepare")
  /\ UNCHANGED <<epoch, ctaVars, data, flags>>

\* the event after the launch: every CTA has returned
KernelDone(r) ==
  /\ host[r] = "kernel"
  /\ \A c \in CTA : cta[r][c] \in {"idle", "exit"}
  /\ GoHost(r, "worst")
  /\ UNCHANGED <<epoch, ctaVars, data, flags>>

\* MPI_Allreduce of the time
AllreduceWorst == Collective("worst", "check")

\* the check kernel compares every element, and MPI_Allreduce sums the errors
Errors(r) ==
  \E t \in Tile : IF mode(r) \in {3, 6} THEN partial[r][t] # epoch[r]
                  ELSE output[r][t] # <<epoch[r], epoch[r]>>

AllreduceErrors ==
  Collective("check",
    IF \E r \in Rank : Errors(r) THEN "abort"
    ELSE IF epoch[0] = MaxEpoch THEN "done" ELSE "prepare")

HostStep(r) ==
  Prepare(r) \/ LaunchRoles(r) \/ LaunchLibrary(r) \/ KernelDone(r)

Finished == (\A r \in Rank : host[r] = "done") /\ UNCHANGED vars

Next ==
  \/ \E r \in Rank : HostStep(r)
  \/ \E r \in Rank, c \in CTA : CtaStep(r, c)
  \/ \E r \in Rank : Deliver(r)
  \/ \E r \in Rank, t \in Tile : Drain(r, t)
  \/ MPIBarrier \/ AllreduceWorst \/ AllreduceErrors
  \/ Finished

\* The whole grid of the one kernel is resident, and a CTA of the two gets a
\* free place: every CTA runs; signals arrive; collectives complete.  Nothing
\* makes a store reach the peer early.
Fairness ==
  /\ \A r \in Rank : WF_vars(HostStep(r)) /\ WF_vars(Deliver(r))
  /\ \A r \in Rank, c \in CTA : WF_vars(CtaStep(r, c))
  /\ WF_vars(MPIBarrier) /\ WF_vars(AllreduceWorst) /\ WF_vars(AllreduceErrors)

Spec == Init /\ [][Next]_vars
FairSpec == Spec /\ Fairness

(***************************************************************************)
(* Correctness.                                                            *)
(***************************************************************************)

\* A reduced element is the sum of both ranks' partial results of this epoch:
\* never of the fill pattern, nor of a result of another epoch.
OutputCorrect ==
  \A r \in Rank, t \in Tile :
    output[r][t] \in {<<0, 0>>, <<epoch[r], epoch[r]>>}

\* A flag or signal of the current epoch is never ahead of the data it
\* announces: "produced" of the rank's own view, a notice of the peer's view.
NoticeMeansVisible ==
  \A r \in Rank, t \in Tile :
    /\ produced[r][t] >= epoch[r] =>
         partial[r][t] = epoch[r] /\ peer_partial[r][t] = epoch[r]
    /\ remote_ready[Peer(r)][t] >= epoch[r] => peer_partial[r][t] = epoch[r]

\* While a CTA of either rank adds up a tile, no CTA and no host rewrites the
\* partial results it reads, in its own memory or in the peer's.
Reducing(t) == \E r \in Rank, c \in CTA : cta[r][c] = "reduce" /\ tile[r][c] = t
StableWhileReduced ==
  [][\A t \in Tile : Reducing(t) =>
       \A r \in Rank : partial'[r][t] = partial[r][t]
                       /\ peer_partial'[r][t] = peer_partial[r][t]]_vars

\* No two CTAs of a rank compute, or reduce, the same tile.
Exclusive(points) ==
  \A r \in Rank : \A c, d \in CTA :
    c # d /\ cta[r][c] \in points /\ cta[r][d] \in points =>
      tile[r][c] # tile[r][d]
OneOwner ==
  /\ Exclusive({"compute", "fence", "flag"})
  /\ Exclusive({"signal", "quiet", "await_peer", "reduce"})

\* When the launch has ended every tile is computed and, unless the mode has
\* no communication, reduced: the host's comparison never aborts the run.
NeverAborts == \A r \in Rank : host[r] # "abort"

\* Both ranks get through every epoch, though each waits for the other within
\* its kernel: no epoch is left waiting for a notice that never comes.
AllEpochs == <>(\A r \in Rank : host[r] = "done")
=============================================================================
