----------------------------- MODULE LdsStages -----------------------------
(***************************************************************************)
(* What the warp-specialised pipelines share: the warp groups of a work    *)
(* group, the ring of LDS stages between them, and the memory that fills   *)
(* it.                                                                     *)
(*                                                                         *)
(* A producer wave issues asynchronous loads, which land in LDS in issue   *)
(* order; the wave knows how many are outstanding and nothing else.  Every *)
(* producer wave loads its part of each tile.  A compute wave's ds reads   *)
(* are in flight from their issue to its lds_fence.  The hardware orders   *)
(* the reads of one wave neither with the loads of another nor with its    *)
(* writes: only the barriers do.                                           *)
(***************************************************************************)
EXTENDS Integers, Sequences, FiniteSets

CONSTANTS
  SubWGSize,     \* waves of a warp group
  NumLdsStages,  \* stages of the LDS ring
  IssueCnt       \* load instructions a wave issues for a tile, by operand

\* one operand is shared by the compute warp groups, two are private to one
Operand == {"sh", "pr_major", "pr_minor"}

ASSUME StagesAssumption ==
  /\ SubWGSize    \in Nat \ {0}
  /\ NumLdsStages \in Nat \ {0}
  /\ IssueCnt     \in [Operand -> Nat \ {0}]

Wave(wg) == {wg} \X (1 .. SubWGSize)
Producer == Wave("producer")
Major    == Wave("major")
Minor    == Wave("minor")
Compute  == Major \union Minor
Waves    == Producer \union Compute

Stage == 0 .. NumLdsStages - 1
Slot  == Operand \X Stage

VARIABLES
  vmq,     \* a producer wave's loads in flight, in issue order
  lds,     \* the tile whose part each producer wave last landed in a slot
  reading  \* slots a compute wave has ds reads outstanding on

\* a K tile of an output tile; what a slot holds before the first load
Tile(t, k) == <<t, k>>
NoTile     == <<-1, -1>>

\* the member of a singleton, and NoTile for any other set
TheOne(tiles) ==
  IF \E t \in tiles : tiles = {t} THEN CHOOSE t \in tiles : TRUE ELSE NoTile

\* no load issued, nothing landed
StagesInit ==
  /\ vmq = [p \in Producer |-> <<>>]
  /\ lds = [s \in Slot |-> [p \in Producer |-> NoTile]]
  /\ reading = [c \in Compute |-> {}]

(***************************************************************************)
(* Producer waves.                                                         *)
(***************************************************************************)
\* the instructions that load a tile's operand into a stage
LoadsInto(o, stage, tile) ==
  [j \in 1 .. IssueCnt[o] |-> [slot |-> <<o, stage>>, tile |-> tile]]

TileIssueCnt == IssueCnt["sh"] + IssueCnt["pr_major"] + IssueCnt["pr_minor"]

\* async_load_fence, s_waitcnt vmcnt(cnt): at most cnt loads in flight
async_load_fence(p, cnt) == Len(vmq[p]) <= cnt

\* the oldest load in flight of a producer wave lands
LandOldest(p) ==
  /\ vmq[p] # <<>>
  /\ lds' = [lds EXCEPT ![Head(vmq[p]).slot][p] = Head(vmq[p]).tile]
  /\ vmq' = [vmq EXCEPT ![p] = Tail(@)]
  /\ UNCHANGED reading

\* what a read of a slot returns: the tile, if every producer wave's part of
\* it has landed and nothing is on its way to the slot
InFlight(p, slot) == \E j \in DOMAIN vmq[p] : vmq[p][j].slot = slot
Content(slot) ==
  IF \A p \in Producer : ~InFlight(p, slot)
  THEN TheOne({lds[slot][p] : p \in Producer}) ELSE NoTile

(***************************************************************************)
(* Compute waves.                                                          *)
(***************************************************************************)
Private(c) == IF c \in Major THEN "pr_major" ELSE "pr_minor"
ReadStage(c, stage) ==
  reading' = [reading EXCEPT ![c] = {<<"sh", stage>>, <<Private(c), stage>>}]

\* the product of the two tiles read: theirs, if they are the same K tile
Product(c) == TheOne({Content(s) : s \in reading[c]})

(***************************************************************************)
(* Correctness.                                                            *)
(***************************************************************************)
\* No load is on its way to a slot that a compute wave is reading: the stage
\* was completely loaded before the read was issued, and the producer waves
\* do not reuse it before the lds_fence (LDS writes and reads are unordered).
NoLdsRace ==
  \A c \in Compute, p \in Producer : \A s \in reading[c] : ~InFlight(p, s)
=============================================================================
