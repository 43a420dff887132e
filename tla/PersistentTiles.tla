--------------------------- MODULE PersistentTiles ---------------------------
(***************************************************************************)
(* How the persistent fused-convolution kernels divide the output among    *)
(* the blocks of the grid: the tile loop of FusedConvTlsWaspPersistant-    *)
(* KernelV1, and FusedConvPersistantTilePartitionerV1, which maps a linear *)
(* tile number to the tile's place in the output matrix.                   *)
(*                                                                         *)
(* What a block does with a tile is TlsWaspPersistent; here it is a step.  *)
(*                                                                         *)
(* An operator X_What in front of X is X with a defect (What says which):  *)
(* the variant that the property guarding against it must reject.          *)
(***************************************************************************)
EXTENDS Integers, FiniteSets

CONSTANTS
  M0, N0,    \* tiles of the output matrix along M and N
  M01, N01,  \* tiles of a cluster of neighbouring tiles
  GridDim,   \* blocks of the grid
  NumGroup   \* groups of the convolution

\* The kernels make their partitioner with M01 = N01 = 1.
ASSUME PartitionAssumption ==
  /\ M0 \in Nat \ {0} /\ N0 \in Nat \ {0}
  /\ M01 \in Nat \ {0} /\ M0 % M01 = 0
  /\ N01 \in Nat \ {0} /\ N0 % N01 = 0
  /\ NumGroup \in Nat \ {0}
  /\ GridDim \in Nat \ {0} /\ GridDim >= NumGroup

Block    == 0 .. GridDim - 1
NumTiles == M0 * N0
N00_Swapped == N0 \div M01
N00      == N0 \div N01

Digits_Swapped(idx) ==
  LET idx3 == idx \div M01
      idx2 == idx3 \div N01
      idx1 == idx2 \div N00
  IN  [n01 |-> idx % M01, m01 |-> idx3 % N01, n00 |-> idx2 % N00, m00 |-> idx1]
\* merge(M00, N00, M01, N01): digits of a mixed radix number, the last lowest
Digits(idx) ==
  LET idx3 == idx \div N01
      idx2 == idx3 \div M01
      idx1 == idx2 \div N00
  IN  [n01 |-> idx % N01, m01 |-> idx3 % M01, n00 |-> idx2 % N00, m00 |-> idx1]

\* unmerge((M00, M01)) and unmerge((N00, N01))
Unmerge(hi, lo, len) == hi * len + lo

GetOutputTileIndex(tile_idx_1d) ==
  LET d == Digits(tile_idx_1d % NumTiles)
  IN  <<Unmerge(d.m00, d.m01, M01), Unmerge(d.n00, d.n01, N01)>>

\* the group a block works for: its pointers into the tensors
GroupOf(b) == b \div (GridDim \div NumGroup)

Output == (0 .. NumGroup - 1) \X ((0 .. M0 - 1) \X (0 .. N0 - 1))

VARIABLES
  tile_idx, \* the tile each block's loop is at
  written   \* output tiles stored so far, with their groups

vars == <<tile_idx, written>>

TypeOK ==
  /\ tile_idx \in [Block -> 0 .. NumTiles + GridDim - 1]
  /\ written \subseteq Nat \X (Nat \X Nat)

Init ==
  /\ tile_idx = [b \in Block |-> b]
  /\ written = {}

Target(b) == <<GroupOf(b), GetOutputTileIndex(tile_idx[b])>>

ComputeTile_NoTest(b) ==
  /\ written' = written \union {Target(b)}
  /\ tile_idx' = [tile_idx EXCEPT ![b] = @ + GridDim]
ComputeTile(b) ==
  /\ tile_idx[b] < NumTiles
  /\ written' = written \union {Target(b)}
  /\ tile_idx' = [tile_idx EXCEPT ![b] = @ + GridDim]

Finished == (\A b \in Block : tile_idx[b] >= NumTiles) /\ UNCHANGED vars

Next == (\E b \in Block : ComputeTile(b)) \/ Finished

Spec == Init /\ [][Next]_vars
FairSpec == Spec /\ \A b \in Block : WF_vars(ComputeTile(b))

(***************************************************************************)
(* Correctness.                                                            *)
(***************************************************************************)

\* No output tile is stored twice, by one block or by two: the tile a block
\* is at has not been written, and no other block is at the same one.
NoTileTwice ==
  \A b \in Block : tile_idx[b] < NumTiles =>
    /\ Target(b) \notin written
    /\ \A c \in Block \ {b} :
         tile_idx[c] < NumTiles => Target(c) # Target(b)

\* When the grid has finished, every tile of every group's output is stored:
\* the example compares the whole output tensor with the reference.
AllTilesWritten ==
  (\A b \in Block : tile_idx[b] >= NumTiles) => Output \subseteq written
=============================================================================
