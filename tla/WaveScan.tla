----------------------------- MODULE WaveScan -----------------------------
(***************************************************************************)
(* Sums over the lanes of a wave, and over the waves of a work group, as   *)
(* moe_sorting_kernel.hpp computes them.  A wave is four rows of lanes;    *)
(* a data parallel primitive (DPP) moves values inside a row only, and     *)
(* ds_bpermute fetches from any lane.  A lane that is switched off, or     *)
(* does not exist, yields 0 (bound_ctrl).                                  *)
(***************************************************************************)
EXTENDS Integers, Functions

CONSTANTS
  Row,        \* lanes of a DPP row: 16 in the hardware, a power of two
  NumWaves    \* waves of a work group: 4 in the code

ASSUME WaveScanAssumption == Row \in {2, 4, 8, 16} /\ NumWaves \in Nat \ {0}

WarpSize == 4 * Row
BlockThreads == NumWaves * WarpSize
LaneGroup == Row \div 2            \* lane_group_sz: 8
Lanes == 0..(WarpSize - 1)
Waves == 0..(NumWaves - 1)

\* a value held in registers: what it is, computed once (TLC does when it compares)
Held(v) == IF v = v THEN v ELSE v

RowOf(l) == (l \div Row) * Row     \* first lane of the row: lane & 0x30

\* v + mov_dpp(v, row_shr:s)
RowShr(v, s) == Held([l \in Lanes |-> v[l] + IF l % Row >= s THEN v[l - s] ELSE 0])

\* wave_cumsum makes the shifts below its width
ShrBelow(v, s, width) == IF s < width THEN RowShr(v, s) ELSE v
RowCumsum(v, width) ==
  ShrBelow(ShrBelow(ShrBelow(ShrBelow(v, 1, width), 2, width), 4, width), 8, width)

(* The inclusive prefix sum of a whole wave: inside the rows, then the row *)
(* before, then the two rows before that.                                  *)
WaveCumsum(v) ==
  LET rows  == RowCumsum(v, Row)
      pairs == Held([l \in Lanes |-> rows[l] + IF l >= Row THEN rows[RowOf(l) - 1] ELSE 0])
  IN [l \in Lanes |->
        pairs[l] + IF l >= 2 * Row THEN pairs[RowOf(l) - (Row + 1)] ELSE 0]

(* The same for groups of half a row: the shifts run through the row, and  *)
(* the second group takes off the total of the first.                      *)
GroupCumsum(v) ==
  LET row == RowShr(RowCumsum(v, LaneGroup), LaneGroup)
  IN [l \in Lanes |->
        row[l] - IF (l \div LaneGroup) % 2 = 0 THEN 0 ELSE row[RowOf(l) + LaneGroup - 1]]

\* wave_reduce: the butterfly over lane ^ (1 << stage) leaves the sum in every lane
Partner(l, s) == IF (l \div s) % 2 = 0 THEN l + s ELSE l - s
Fold(v, s) == IF s < WarpSize THEN Held([l \in Lanes |-> v[l] + v[Partner(l, s)]]) ELSE v
WaveReduce(v) == Fold(Fold(Fold(Fold(Fold(Fold(v, 1), 2), 4), 8), 16), 32)

(* The inclusive prefix sum of the items 0 .. n-1 by a block of "waves"    *)
(* waves: rounds of one item a thread, in a round the waves before this    *)
(* one (through LDS), and the total of the rounds before.                  *)
BlockCumsum(f, n, waves) ==
  LET round == waves * WarpSize
      rounds == (n + round - 1) \div round
      item(r, w, l) == r * round + w * WarpSize + l
      of == Held([rw \in (0..(rounds - 1)) \X (0..(waves - 1)) |->
               Held(WaveCumsum([l \in Lanes |->
                 IF item(rw[1], rw[2], l) < n THEN f[item(rw[1], rw[2], l)] ELSE 0]))])
      at(r, w, l) ==
        of[<<r, w>>][l]
          + SumFunctionOnSet([u \in 0..(waves - 1) |-> of[<<r, u>>][WarpSize - 1]], 0..(w - 1))
      ends == Held([r \in 0..(rounds - 1) |-> at(r, waves - 1, WarpSize - 1)])
  IN Held([i \in 0..(n - 1) |->
        SumFunctionOnSet(ends, 0..(i \div round - 1))
          + at(i \div round, (i % round) \div WarpSize, i % WarpSize)])

\* how many of the items 0 .. n-1 count: the same rounds, each wave reduced
BlockSum(f, n) ==
  LET rounds == (n + BlockThreads - 1) \div BlockThreads
      turns == 0..(rounds * NumWaves - 1)            \* of the waves of all rounds
      item(g, l) == g * WarpSize + l
  IN SumFunctionOnSet([g \in turns |->
       WaveReduce([l \in Lanes |-> IF item(g, l) < n THEN f[item(g, l)] ELSE 0])[0]], turns)
=============================================================================
