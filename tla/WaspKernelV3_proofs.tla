------------------------- MODULE WaspKernelV3_proofs -------------------------
(***************************************************************************)
(* Safety of the V3 kernel, for every number of waves and LDS stages,      *)
(* every number of load instructions, every problem and every grid.        *)
(*                                                                         *)
(* First, that the warp groups stay in step: whenever the barrier opens,   *)
(* all waves stand at the same barrier of the program.  The three programs *)
(* are compared segment by segment: a segment is what a wave does between  *)
(* two barriers, and is named after the barrier that ends it.  All waves   *)
(* are in the same segment of the same iteration.                          *)
(***************************************************************************)
EXTENDS WaspKernelV3, LdsStages_proofs

(***************************************************************************)
(* The inductive invariant.                                                *)
(***************************************************************************)
LaunchOK ==
  /\ stages \in 1 .. NumLdsStages
  /\ num_loop \in Nat \ {0}
  /\ num_loop % stages = 0

ControlOK ==
  /\ pc \in [Waves -> Barrier \union WavePoint]
  /\ n \in [Waves -> Nat]
  /\ tile_idx \in [Waves -> Nat]
  /\ epi \in [Waves -> Nat]

\* between the tiles: a wave has its next tile, or still works on the last part
\* of the one before
AtTile(w, t) ==
  \/ /\ pc[w] = TileEntry(w, t) /\ n[w] = 0 /\ epi[w] = 0 /\ tile_idx[w] = t
  \/ /\ tile_idx[w] + GridDim = t /\ n[w] = NumIter
     /\ \/ pc[w] = "epi_end" /\ epi[w] = EpiLoop
        \/ /\ w \in Compute /\ pc[w] \in {"region_read", "store"}
           /\ epi[w] = EpiLoop - 1

\* the producers fill the ring
AtFirst(w, t) ==
  /\ epi[w] = 0 /\ tile_idx[w] = t
  /\ \/ pc[w] = "first" /\ n[w] = 0
     \/ w \in Producer /\ pc[w] = "initial" /\ n[w] \in 0 .. stages - 1
     \/ w \in Producer /\ pc[w] = "first_fence" /\ n[w] = 0

\* iteration k up to its first barrier: producers refill the rest of the stage
\* of the iteration before, those who read at the start of an iteration read
AtRelease(w, t, k) ==
  /\ epi[w] = 0 /\ tile_idx[w] = t /\ n[w] = k
  /\ \/ pc[w] = "release"
     \/ w \in Producer /\ pc[w] = "issue_rest" /\ stages > 1 /\ k > 0
        /\ ~IsTailLoop(k - 1)
     \/ pc[w] \in {"read", "fence"} /\ LoopStart(w) = "read"

\* iteration k up to its second barrier: producers refill, the others read
AtReady(w, t, k) ==
  /\ epi[w] = 0 /\ tile_idx[w] = t /\ n[w] = k
  /\ \/ pc[w] = "ready"
     \/ w \in Producer /\ pc[w] \in {"issue", "await_next"}
     \/ w \in Compute /\ pc[w] \in {"read", "fence"} /\ LoopStart(w) = "release"

\* the epilogue: compute waves finish part e - 1, and write part e
AtEpiWrite(w, t, e) ==
  /\ tile_idx[w] = t /\ n[w] = NumIter
  /\ \/ pc[w] = "epi_write" /\ epi[w] = e
     \/ w \in Compute /\ pc[w] \in {"region_read", "store"} /\ epi[w] = e - 1

AtEpiRead(w, t, e) ==
  /\ tile_idx[w] = t /\ n[w] = NumIter /\ epi[w] = e
  /\ \/ pc[w] = "epi_read"
     \/ w \in Compute /\ pc[w] \in {"region_write", "region_fence"}

Iteration == 0 .. NumIter - 1
EpiIteration == 0 .. EpiLoop - 1

InStep ==
  \/ \E t \in Nat : \A w \in Waves : AtTile(w, t)
  \/ \E t \in Nat : \A w \in Waves : AtFirst(w, t)
  \/ \E t \in Nat, k \in Iteration : \A w \in Waves : AtRelease(w, t, k)
  \/ \E t \in Nat, k \in Iteration : \A w \in Waves : AtReady(w, t, k)
  \/ \E t \in Nat, e \in EpiIteration : \A w \in Waves : AtEpiWrite(w, t, e)
  \/ \E t \in Nat, e \in EpiIteration : \A w \in Waves : AtEpiRead(w, t, e)

StepInv == LaunchOK /\ ControlOK /\ InStep

(***************************************************************************)
(* The launched instance.                                                  *)
(***************************************************************************)
\* The rounds of the loop make up the num_loop iterations of the problem.
LEMMA Iterations ==
  ASSUME LaunchOK
  PROVE  /\ stages \in Nat \ {0} /\ NumIter = num_loop /\ NumIter \in Nat \ {0}
         /\ stages <= NumIter
         /\ NumIter % stages = 0
<1>1. stages \in Nat \ {0} /\ num_loop \in Nat \ {0} /\ num_loop % stages = 0
  BY StagesAssumption DEF LaunchOK
<1> DEFINE q == num_loop \div stages
<1>2. q \in Nat /\ num_loop = stages * q
  <2>1. q \in Nat /\ num_loop = stages * q + (num_loop % stages)
    BY <1>1, DivMod
  <2> QED BY <1>1, <2>1
<1>3. MainRounds = IF q > 1 THEN q - 1 ELSE 0
  BY DEF MainRounds, HasMainLoop, LoopUnroll
<1> HIDE DEF q
<1>4. q # 0
  BY <1>1, <1>2
<1>5. MainRounds + 1 = q
  BY <1>2, <1>3, <1>4
<1>6. NumIter = stages * q
  BY <1>1, <1>2, <1>5 DEF NumIter, LoopUnroll
<1>7. stages * q >= stages * 1
  BY <1>1, <1>2, <1>4
<1> QED BY <1>1, <1>2, <1>6, <1>7

\* The epilogue has at least one part.
LEMMA EpiLength == EpiLoop \in Nat \ {0} /\ GridDim \in Nat \ {0}
BY KernelAssumption

\* What a launch fixes, stays.
LEMMA SameLaunch ==
  ASSUME UNCHANGED launch
  PROVE  /\ LaunchOK => LaunchOK'
         /\ stages' = stages /\ NumIter' = NumIter /\ Iteration' = Iteration
         /\ \A w : LoopStart(w)' = LoopStart(w)
         /\ \A k : IsTailLoop(k)' = IsTailLoop(k) /\ IsLastLoop(k)' = IsLastLoop(k)
BY DEF launch, LaunchOK, NumIter, MainRounds, HasMainLoop, LoopUnroll, Iteration,
   LoopStart, IsTailLoop, IsLastLoop

(***************************************************************************)
(* Steps of one wave: it stays in its segment.                             *)
(***************************************************************************)
\* What a wave's place in its segment is made of.
Place(w) == <<pc[w], n[w], epi[w], tile_idx[w]>>

\* A wave that does not move stays in its segment.
LEMMA Stays ==
  ASSUME UNCHANGED launch, NEW w, UNCHANGED Place(w)
  PROVE  /\ \A t : AtTile(w, t)' = AtTile(w, t) /\ AtFirst(w, t)' = AtFirst(w, t)
         /\ \A t, k : /\ AtRelease(w, t, k)' = AtRelease(w, t, k)
                      /\ AtReady(w, t, k)' = AtReady(w, t, k)
                      /\ AtEpiWrite(w, t, k)' = AtEpiWrite(w, t, k)
                      /\ AtEpiRead(w, t, k)' = AtEpiRead(w, t, k)
<1>1. /\ pc'[w] = pc[w] /\ n'[w] = n[w] /\ epi'[w] = epi[w] /\ tile_idx'[w] = tile_idx[w]
      /\ stages' = stages
  BY DEF Place, launch
<1>2. /\ NumIter' = NumIter /\ LoopStart(w)' = LoopStart(w)
      /\ \A k : IsTailLoop(k)' = IsTailLoop(k)
  BY SameLaunch
<1>3. \A t : AtTile(w, t)' = AtTile(w, t) /\ AtFirst(w, t)' = AtFirst(w, t)
  BY <1>1, <1>2 DEF AtTile, AtFirst, TileEntry
<1>4. \A t, k : AtRelease(w, t, k)' = AtRelease(w, t, k) /\ AtReady(w, t, k)' = AtReady(w, t, k)
  BY <1>1, <1>2 DEF AtRelease, AtReady
<1>5. \A t, k : /\ AtEpiWrite(w, t, k)' = AtEpiWrite(w, t, k)
                /\ AtEpiRead(w, t, k)' = AtEpiRead(w, t, k)
  BY <1>1, <1>2 DEF AtEpiWrite, AtEpiRead
<1> QED BY <1>3, <1>4, <1>5

\* If one wave moves within its segment, whichever it is, and the others stay,
\* all are still in the same one.
LEMMA OneMoves ==
  ASSUME StepInv, NEW w \in Waves, UNCHANGED launch, ControlOK',
         \A v \in Waves \ {w} : UNCHANGED Place(v),
         \A t \in Nat : AtTile(w, t) => AtTile(w, t)',
         \A t \in Nat : AtFirst(w, t) => AtFirst(w, t)',
         \A t \in Nat, k \in Iteration : AtRelease(w, t, k) => AtRelease(w, t, k)',
         \A t \in Nat, k \in Iteration : AtReady(w, t, k) => AtReady(w, t, k)',
         \A t \in Nat, e \in EpiIteration : AtEpiWrite(w, t, e) => AtEpiWrite(w, t, e)',
         \A t \in Nat, e \in EpiIteration : AtEpiRead(w, t, e) => AtEpiRead(w, t, e)'
  PROVE  StepInv'
<1>1. \A v \in Waves \ {w} :
        /\ \A t : AtTile(v, t) => AtTile(v, t)'
        /\ \A t : AtFirst(v, t) => AtFirst(v, t)'
        /\ \A t, k : AtRelease(v, t, k) => AtRelease(v, t, k)'
        /\ \A t, k : AtReady(v, t, k) => AtReady(v, t, k)'
        /\ \A t, k : AtEpiWrite(v, t, k) => AtEpiWrite(v, t, k)'
        /\ \A t, k : AtEpiRead(v, t, k) => AtEpiRead(v, t, k)'
  BY Stays
<1>2. /\ \A t \in Nat : (\A v \in Waves : AtTile(v, t)) => \A v \in Waves : AtTile(v, t)'
      /\ \A t \in Nat : (\A v \in Waves : AtFirst(v, t)) => \A v \in Waves : AtFirst(v, t)'
      /\ \A t \in Nat, k \in Iteration :
           (\A v \in Waves : AtRelease(v, t, k)) => \A v \in Waves : AtRelease(v, t, k)'
      /\ \A t \in Nat, k \in Iteration :
           (\A v \in Waves : AtReady(v, t, k)) => \A v \in Waves : AtReady(v, t, k)'
      /\ \A t \in Nat, e \in EpiIteration :
           (\A v \in Waves : AtEpiWrite(v, t, e)) => \A v \in Waves : AtEpiWrite(v, t, e)'
      /\ \A t \in Nat, e \in EpiIteration :
           (\A v \in Waves : AtEpiRead(v, t, e)) => \A v \in Waves : AtEpiRead(v, t, e)'
  BY <1>1
<1>3. LaunchOK' /\ Iteration' = Iteration
  BY SameLaunch DEF StepInv
<1>4. InStep'
  BY <1>2, <1>3 DEF StepInv, InStep, EpiIteration
<1> QED BY <1>3, <1>4 DEF StepInv

\* The points of each segment are its own: a wave's point names the segments
\* that it can be in.
LEMMA Segments ==
  ASSUME NEW w \in Waves
  PROVE  /\ \A t : AtTile(w, t) =>
              pc[w] \in {"tile", "exit", "epi_end", "region_read", "store"}
         /\ \A t : AtFirst(w, t) => pc[w] \in {"initial", "first_fence", "first"}
         /\ \A t, k : AtRelease(w, t, k) =>
              pc[w] \in {"release", "issue_rest", "read", "fence"}
         /\ \A t, k : AtReady(w, t, k) =>
              pc[w] \in {"ready", "issue", "await_next", "read", "fence"}
         /\ \A t, e : AtEpiWrite(w, t, e) =>
              pc[w] \in {"epi_write", "region_read", "store"}
         /\ \A t, e : AtEpiRead(w, t, e) =>
              pc[w] \in {"epi_read", "region_write", "region_fence"}
BY DEF AtTile, AtFirst, AtRelease, AtReady, AtEpiWrite, AtEpiRead, TileEntry

\* A wave that changes its point only.
LEMMA GotoStep ==
  ASSUME StepInv, NEW w \in Waves, NEW point \in Barrier \union WavePoint,
         Goto(w, point), UNCHANGED <<n, epi, tile_idx>>
  PROVE  /\ ControlOK' /\ pc'[w] = point
         /\ \A v \in Waves \ {w} : UNCHANGED Place(v)
BY DEF Goto, StepInv, ControlOK, Place

\* Producer waves, as long as their iteration stays the same.
LEMMA ProducerPlace ==
  ASSUME StepInv, NEW p \in Producer,
         AwaitFirst(p) \/ Issue(p) \/ AwaitNext(p) \/ IssueRest(p)
  PROVE  StepInv'
<1>1. p \in Waves /\ UNCHANGED launch /\ UNCHANGED <<n, epi, tile_idx>>
  BY Groups DEF AwaitFirst, Issue, AwaitNext, IssueRest, pipeVars, epiVars
<1>2. PICK from, to :
        /\ pc[p] = from /\ Goto(p, to)
        /\ <<from, to>> \in {<<"first_fence", "first">>, <<"issue", "await_next">>,
                             <<"await_next", "ready">>, <<"issue_rest", "release">>}
  BY DEF AwaitFirst, Issue, AwaitNext, IssueRest
<1>3. to \in Barrier \union WavePoint
  BY <1>2 DEF Barrier, WavePoint
<1>4. /\ ControlOK' /\ pc'[p] = to
      /\ \A v \in Waves \ {p} : UNCHANGED Place(v)
  BY <1>1, <1>2, <1>3, GotoStep
<1>5. \A t \in Nat : AtFirst(p, t) => AtFirst(p, t)'
  BY <1>1, <1>2, <1>4 DEF AtFirst
<1>6. \A t \in Nat, k \in Iteration : AtRelease(p, t, k) => AtRelease(p, t, k)'
  BY <1>1, <1>2, <1>4 DEF AtRelease
<1>7. \A t \in Nat, k \in Iteration : AtReady(p, t, k) => AtReady(p, t, k)'
  BY <1>1, <1>2, <1>4 DEF AtReady
<1>8. /\ \A t : ~AtTile(p, t)
      /\ \A t, e : ~AtEpiWrite(p, t, e) /\ ~AtEpiRead(p, t, e)
  BY <1>1, <1>2, Segments
<1> QED BY <1>1, <1>4, <1>5, <1>6, <1>7, <1>8, OneMoves

\* The first loads: one stage after the other.
LEMMA IssueInitialPlace ==
  ASSUME StepInv, NEW p \in Producer, IssueInitial(p)
  PROVE  StepInv'
<1>1. /\ p \in Waves /\ pc[p] = "initial" /\ UNCHANGED <<launch, epi, tile_idx>>
      /\ IF n[p] < stages - 1
         THEN n' = [n EXCEPT ![p] = n[p] + 1] /\ UNCHANGED pc
         ELSE n' = [n EXCEPT ![p] = 0] /\ pc' = [pc EXCEPT ![p] = "first_fence"]
  BY Groups DEF IssueInitial, Goto, epiVars
<1>2. /\ stages \in Nat \ {0} /\ stages' = stages /\ NumIter' = NumIter
  BY <1>1, Iterations, SameLaunch DEF StepInv
<1>3. n[p] \in Nat
  BY <1>1 DEF StepInv, ControlOK
<1>4. /\ ControlOK'
      /\ \A v \in Waves \ {p} : UNCHANGED Place(v)
      /\ IF n[p] < stages - 1 THEN n'[p] = n[p] + 1 /\ pc'[p] = "initial"
         ELSE n'[p] = 0 /\ pc'[p] = "first_fence"
  BY <1>1, <1>3 DEF StepInv, ControlOK, Place, WavePoint
<1>5. \A t \in Nat : AtFirst(p, t) => AtFirst(p, t)'
  BY <1>1, <1>2, <1>3, <1>4 DEF AtFirst
<1>6. /\ \A t : ~AtTile(p, t)
      /\ \A t, e : ~AtRelease(p, t, e) /\ ~AtReady(p, t, e)
                   /\ ~AtEpiWrite(p, t, e) /\ ~AtEpiRead(p, t, e)
  BY <1>1, Segments
<1> QED BY <1>1, <1>4, <1>5, <1>6, OneMoves

\* Compute waves, as long as their part of the epilogue stays the same.
LEMMA ComputePlace ==
  ASSUME StepInv, NEW c \in Compute,
         Read(c) \/ Fence(c) \/ WriteRegion(c) \/ FenceRegion(c) \/ ReadRegion(c)
  PROVE  StepInv'
<1>1. c \in Waves /\ c \notin Producer /\ UNCHANGED launch /\ UNCHANGED <<n, epi, tile_idx>>
  BY Groups DEF Read, Fence, WriteRegion, FenceRegion, ReadRegion, pipeVars, epiVars
<1>2. PICK from, to :
        /\ pc[c] = from /\ Goto(c, to)
        /\ \/ from = "read" /\ to = "fence"
           \/ from = "fence" /\ to = IF LoopStart(c) = "release" THEN "ready" ELSE "release"
           \/ from = "region_write" /\ to = "region_fence"
           \/ from = "region_fence" /\ to = "epi_read"
           \/ from = "region_read" /\ to = "store"
  BY DEF Read, Fence, WriteRegion, FenceRegion, ReadRegion
<1>3. to \in Barrier \union WavePoint
  BY <1>2 DEF Barrier, WavePoint
<1>4. /\ ControlOK' /\ pc'[c] = to
      /\ \A v \in Waves \ {c} : UNCHANGED Place(v)
  BY <1>1, <1>2, <1>3, GotoStep
<1>5. NumIter' = NumIter /\ LoopStart(c)' = LoopStart(c)
  BY <1>1, SameLaunch
<1>6. LoopStart(c) \in {"read", "release"}
  BY DEF LoopStart
<1>7. \A t \in Nat : AtTile(c, t) => AtTile(c, t)'
  BY <1>1, <1>2, <1>4, <1>5 DEF AtTile, TileEntry
<1>8. \A t \in Nat, k \in Iteration : AtRelease(c, t, k) => AtRelease(c, t, k)'
  BY <1>1, <1>2, <1>4, <1>5, <1>6 DEF AtRelease
<1>9. \A t \in Nat, k \in Iteration : AtReady(c, t, k) => AtReady(c, t, k)'
  BY <1>1, <1>2, <1>4, <1>5, <1>6 DEF AtReady
<1>10. \A t \in Nat, e \in EpiIteration : AtEpiWrite(c, t, e) => AtEpiWrite(c, t, e)'
  BY <1>1, <1>2, <1>4, <1>5 DEF AtEpiWrite
<1>11. \A t \in Nat, e \in EpiIteration : AtEpiRead(c, t, e) => AtEpiRead(c, t, e)'
  BY <1>1, <1>2, <1>4, <1>5 DEF AtEpiRead
<1>12. \A t : ~AtFirst(c, t)
  BY <1>1, <1>2, Segments
<1> QED BY <1>1, <1>4, <1>7, <1>8, <1>9, <1>10, <1>11, <1>12, OneMoves

\* The last step of a part: on to the next one, or to the end of the tile.
LEMMA StoreOutPlace ==
  ASSUME StepInv, NEW c \in Compute, StoreOut(c)
  PROVE  StepInv'
<1> DEFINE to == IF epi[c] < EpiLoop - 1 THEN "epi_write" ELSE "epi_end"
<1>1. /\ c \in Waves /\ pc[c] = "store" /\ UNCHANGED <<launch, n, tile_idx>>
      /\ epi' = [epi EXCEPT ![c] = epi[c] + 1]
      /\ pc' = [pc EXCEPT ![c] = to]
  BY Groups DEF StoreOut, Goto, pipeVars
<1>2. epi[c] \in Nat
  BY <1>1 DEF StepInv, ControlOK
<1>3. /\ ControlOK' /\ pc'[c] = to /\ epi'[c] = epi[c] + 1
      /\ n'[c] = n[c] /\ tile_idx'[c] = tile_idx[c]
      /\ \A v \in Waves \ {c} : UNCHANGED Place(v)
  BY <1>1, <1>2 DEF StepInv, ControlOK, Place, WavePoint, Barrier
<1>4. NumIter' = NumIter
  BY <1>1, SameLaunch
<1>5. \A t \in Nat : AtTile(c, t) => AtTile(c, t)'
  BY <1>1, <1>2, <1>3, <1>4, EpiLength DEF AtTile, TileEntry
<1>6. \A t \in Nat, e \in EpiIteration : AtEpiWrite(c, t, e) => AtEpiWrite(c, t, e)'
  BY <1>1, <1>2, <1>3, <1>4, EpiLength DEF AtEpiWrite, EpiIteration
<1>7. /\ \A t : ~AtFirst(c, t)
      /\ \A t, e : ~AtRelease(c, t, e) /\ ~AtReady(c, t, e) /\ ~AtEpiRead(c, t, e)
  BY <1>1, Segments
<1> QED BY <1>1, <1>3, <1>5, <1>6, <1>7, OneMoves

\* The next tile of the block, or the end.
LEMMA NextTilePlace ==
  ASSUME StepInv, NEW w \in Waves, NextTile(w)
  PROVE  StepInv'
<1> DEFINE next == tile_idx[w] + GridDim
<1>1. /\ pc[w] = "epi_end" /\ UNCHANGED launch
      /\ tile_idx' = [tile_idx EXCEPT ![w] = next]
      /\ pc' = [pc EXCEPT ![w] = TileEntry(w, next)]
      /\ n' = [n EXCEPT ![w] = 0] /\ epi' = [epi EXCEPT ![w] = 0]
  BY DEF NextTile, Goto
<1>2. next \in Nat
  BY EpiLength DEF StepInv, ControlOK
<1> HIDE DEF next
<1>3. TileEntry(w, next) \in {"tile", "exit"}
  BY DEF TileEntry
<1>4. /\ ControlOK' /\ pc'[w] = TileEntry(w, next)
      /\ n'[w] = 0 /\ epi'[w] = 0 /\ tile_idx'[w] = next
      /\ \A v \in Waves \ {w} : UNCHANGED Place(v)
  BY <1>1, <1>2, <1>3 DEF StepInv, ControlOK, Place, WavePoint, Barrier
<1>5. \A t \in Nat : AtTile(w, t) => AtTile(w, t)'
  BY <1>1, <1>4 DEF AtTile, TileEntry, next
<1>6. /\ \A t : ~AtFirst(w, t)
      /\ \A t, e : ~AtRelease(w, t, e) /\ ~AtReady(w, t, e)
                   /\ ~AtEpiWrite(w, t, e) /\ ~AtEpiRead(w, t, e)
  BY <1>1, Segments
<1> QED BY <1>1, <1>4, <1>5, <1>6, OneMoves

(***************************************************************************)
(* The barrier.                                                            *)
(***************************************************************************)
MeetAt(b, t, k, e) ==
  \A w \in Waves : pc[w] = b /\ tile_idx[w] = t /\ n[w] = k /\ epi[w] = e

\* Waves that all stand at barriers stand at the same one.
LEMMA Meeting ==
  ASSUME StepInv, \A w \in Waves : pc[w] \in Barrier \union {"exit"},
         \E w \in Waves : pc[w] # "exit"
  PROVE  \E t \in Nat :
           \/ MeetAt("tile", t, 0, 0) \/ MeetAt("first", t, 0, 0)
           \/ \E k \in Iteration : MeetAt("release", t, k, 0) \/ MeetAt("ready", t, k, 0)
           \/ \E e \in EpiIteration : \/ MeetAt("epi_write", t, NumIter, e)
                                      \/ MeetAt("epi_read", t, NumIter, e)
<1>0. \A w \in Waves : pc[w] \notin WavePoint \/ pc[w] = "exit"
  BY DEF Barrier, WavePoint
<1>1. ASSUME NEW t \in Nat, \A w \in Waves : AtTile(w, t) PROVE MeetAt("tile", t, 0, 0)
  <2>1. \A w \in Waves : /\ pc[w] = TileEntry(w, t) /\ n[w] = 0 /\ epi[w] = 0
                         /\ tile_idx[w] = t
    BY <1>0, <1>1 DEF AtTile, WavePoint
  <2> QED BY <2>1 DEF MeetAt, TileEntry
<1>2. ASSUME NEW t \in Nat, \A w \in Waves : AtFirst(w, t) PROVE MeetAt("first", t, 0, 0)
  BY <1>0, <1>2 DEF AtFirst, MeetAt, WavePoint
<1>3. ASSUME NEW t \in Nat, NEW k \in Iteration, \A w \in Waves : AtRelease(w, t, k)
      PROVE  MeetAt("release", t, k, 0)
  BY <1>0, <1>3 DEF AtRelease, MeetAt, WavePoint
<1>4. ASSUME NEW t \in Nat, NEW k \in Iteration, \A w \in Waves : AtReady(w, t, k)
      PROVE  MeetAt("ready", t, k, 0)
  BY <1>0, <1>4 DEF AtReady, MeetAt, WavePoint
<1>5. ASSUME NEW t \in Nat, NEW e \in EpiIteration, \A w \in Waves : AtEpiWrite(w, t, e)
      PROVE  MeetAt("epi_write", t, NumIter, e)
  BY <1>0, <1>5 DEF AtEpiWrite, MeetAt, WavePoint
<1>6. ASSUME NEW t \in Nat, NEW e \in EpiIteration, \A w \in Waves : AtEpiRead(w, t, e)
      PROVE  MeetAt("epi_read", t, NumIter, e)
  BY <1>0, <1>6 DEF AtEpiRead, MeetAt, WavePoint
<1> QED BY <1>1, <1>2, <1>3, <1>4, <1>5, <1>6 DEF StepInv, InStep

\* When all waves stand at barrier b, the barrier takes all of them to what
\* their programs have after b.
LEMMA Opening ==
  ASSUME StepInv, WgSync, NEW b \in Barrier, NEW t \in Nat, NEW k \in Nat, NEW e \in Nat,
         MeetAt(b, t, k, e)
  PROVE  /\ UNCHANGED launch
         /\ pc' \in [Waves -> {Resume(w) : w \in Waves}]
         /\ \A w \in Waves :
              /\ pc'[w] = Resume(w) /\ tile_idx'[w] = t
              /\ n'[w] = IF b = "ready" THEN k + 1 ELSE k
              /\ epi'[w] = IF w \in Producer /\ b = "epi_read" THEN e + 1 ELSE e
         /\ n' \in [Waves -> Nat] /\ epi' \in [Waves -> Nat] /\ tile_idx' \in [Waves -> Nat]
<1>1. b # "exit"
  BY DEF Barrier
<1>2. {w \in Waves : pc[w] # "exit"} = Waves
  BY <1>1 DEF MeetAt
<1>3. /\ UNCHANGED <<launch, tile_idx>>
      /\ pc' = [w \in Waves |-> Resume(w)]
      /\ n' = [w \in Waves |-> IF pc[w] = "ready" THEN n[w] + 1 ELSE n[w]]
      /\ epi' = [w \in Waves |->
                   IF w \in Producer /\ pc[w] = "epi_read" THEN epi[w] + 1 ELSE epi[w]]
  <2> HIDE DEF Resume
  <2> QED BY <1>2 DEF WgSync
<1> HIDE DEF Resume
<1> QED BY <1>3 DEF MeetAt, StepInv, ControlOK

\* From each barrier all waves get into the same segment.
LEMMA WgSyncPlace ==
  ASSUME StepInv, WgSync
  PROVE  StepInv'
<1>1. PICK t \in Nat :
           \/ MeetAt("tile", t, 0, 0) \/ MeetAt("first", t, 0, 0)
           \/ \E k \in Iteration : MeetAt("release", t, k, 0) \/ MeetAt("ready", t, k, 0)
           \/ \E e \in EpiIteration : \/ MeetAt("epi_write", t, NumIter, e)
                                      \/ MeetAt("epi_read", t, NumIter, e)
  BY Meeting DEF WgSync
<1>2. UNCHANGED launch
  BY DEF WgSync
<1>3. /\ LaunchOK' /\ Iteration' = Iteration /\ NumIter' = NumIter /\ stages' = stages
      /\ \A w : LoopStart(w)' = LoopStart(w)
      /\ \A k : IsTailLoop(k)' = IsTailLoop(k)
  BY <1>2, SameLaunch DEF StepInv
<1>4. stages \in Nat \ {0} /\ NumIter \in Nat \ {0} /\ stages <= NumIter
  BY Iterations DEF StepInv
<1>5. \A w \in Waves : w \in Producer \/ w \in Compute
  BY Groups
<1>6. CASE MeetAt("tile", t, 0, 0)
  <2>1. /\ pc' \in [Waves -> {Resume(w) : w \in Waves}]
        /\ \A w \in Waves : pc'[w] = Resume(w) /\ tile_idx'[w] = t /\ n'[w] = 0 /\ epi'[w] = 0
        /\ n' \in [Waves -> Nat] /\ epi' \in [Waves -> Nat] /\ tile_idx' \in [Waves -> Nat]
    BY <1>6, Opening DEF Barrier
  <2>2. \A w \in Waves : Resume(w) = IF w \in Producer THEN "initial" ELSE "first"
    BY <1>6 DEF MeetAt, Resume
  <2>3. \A w \in Waves : AtFirst(w, t)'
    BY <1>3, <1>4, <2>1, <2>2 DEF AtFirst
  <2>4. ControlOK'
    BY <2>1, <2>2 DEF ControlOK, Barrier, WavePoint
  <2> QED BY <1>3, <2>3, <2>4 DEF StepInv, InStep
<1>7. CASE MeetAt("first", t, 0, 0)
  <2>1. /\ pc' \in [Waves -> {Resume(w) : w \in Waves}]
        /\ \A w \in Waves : pc'[w] = Resume(w) /\ tile_idx'[w] = t /\ n'[w] = 0 /\ epi'[w] = 0
        /\ n' \in [Waves -> Nat] /\ epi' \in [Waves -> Nat] /\ tile_idx' \in [Waves -> Nat]
    BY <1>7, Opening DEF Barrier
  <2>2. \A w \in Waves : Resume(w) = LoopStart(w) /\ LoopStart(w) \in {"release", "read"}
    BY <1>7 DEF MeetAt, Resume, LoopStart
  <2>3. \A w \in Waves : AtRelease(w, t, 0)'
    BY <1>3, <2>1, <2>2 DEF AtRelease
  <2>4. ControlOK'
    BY <2>1, <2>2 DEF ControlOK, Barrier, WavePoint
  <2>5. 0 \in Iteration
    BY <1>4 DEF Iteration
  <2> QED BY <1>3, <2>3, <2>4, <2>5 DEF StepInv, InStep
<1>8. ASSUME NEW k \in Iteration, MeetAt("release", t, k, 0) PROVE StepInv'
  <2>0. k \in Nat
    BY <1>4 DEF Iteration
  <2>1. /\ pc' \in [Waves -> {Resume(w) : w \in Waves}]
        /\ \A w \in Waves : pc'[w] = Resume(w) /\ tile_idx'[w] = t /\ n'[w] = k /\ epi'[w] = 0
        /\ n' \in [Waves -> Nat] /\ epi' \in [Waves -> Nat] /\ tile_idx' \in [Waves -> Nat]
    BY <1>8, <2>0, Opening DEF Barrier
  <2>2. \A w \in Waves : Resume(w) = IF w \in Producer THEN "issue"
                                     ELSE IF LoopStart(w) = "release" THEN "read" ELSE "ready"
    BY <1>8 DEF MeetAt, Resume
  <2>3. \A w \in Waves : AtReady(w, t, k)'
    BY <1>3, <1>5, <2>1, <2>2 DEF AtReady
  <2>4. ControlOK'
    BY <2>1, <2>2 DEF ControlOK, Barrier, WavePoint
  <2> QED BY <1>3, <2>3, <2>4 DEF StepInv, InStep
<1>9. ASSUME NEW k \in Iteration, MeetAt("ready", t, k, 0) PROVE StepInv'
  <2>0. k \in Nat
    BY <1>4 DEF Iteration
  <2>1. /\ pc' \in [Waves -> {Resume(w) : w \in Waves}]
        /\ \A w \in Waves : pc'[w] = Resume(w) /\ tile_idx'[w] = t /\ n'[w] = k + 1 /\ epi'[w] = 0
        /\ n' \in [Waves -> Nat] /\ epi' \in [Waves -> Nat] /\ tile_idx' \in [Waves -> Nat]
    BY <1>9, <2>0, Opening DEF Barrier
  <2>2. \A w \in Waves :
          /\ Resume(w) = IF w \in Producer /\ stages > 1 /\ ~IsTailLoop(k) THEN "issue_rest"
                         ELSE IF IsLastLoop(k) THEN "epi_write" ELSE LoopStart(w)
          /\ LoopStart(w) \in {"release", "read"}
    BY <1>9 DEF MeetAt, Resume, AfterReady, EpiStart, LoopStart
  <2>3. ControlOK'
    BY <2>1, <2>2 DEF ControlOK, Barrier, WavePoint
  <2>4. CASE IsLastLoop(k)
    <3>1. IsTailLoop(k) /\ k + 1 = NumIter
      BY <1>4, <2>0, <2>4 DEF IsLastLoop, IsTailLoop
    <3>2. \A w \in Waves : AtEpiWrite(w, t, 0)'
      BY <1>3, <2>1, <2>2, <2>4, <3>1 DEF AtEpiWrite
    <3>3. 0 \in EpiIteration
      BY EpiLength DEF EpiIteration
    <3> QED BY <1>3, <2>3, <3>2, <3>3 DEF StepInv, InStep
  <2>5. CASE ~IsLastLoop(k)
    <3>1. k + 1 \in Iteration /\ k + 1 > 0 /\ (k + 1) - 1 = k
      BY <1>4, <2>0, <2>5 DEF IsLastLoop, Iteration
    <3>2. \A w \in Waves : AtRelease(w, t, k + 1)'
      BY <1>3, <2>1, <2>2, <2>5, <3>1 DEF AtRelease
    <3> QED BY <1>3, <2>3, <3>1, <3>2 DEF StepInv, InStep
  <2> QED BY <2>4, <2>5
<1>10. ASSUME NEW e \in EpiIteration, MeetAt("epi_write", t, NumIter, e) PROVE StepInv'
  <2>0. e \in Nat
    BY EpiLength DEF EpiIteration
  <2>1. /\ pc' \in [Waves -> {Resume(w) : w \in Waves}]
        /\ \A w \in Waves : pc'[w] = Resume(w) /\ tile_idx'[w] = t /\ n'[w] = NumIter /\ epi'[w] = e
        /\ n' \in [Waves -> Nat] /\ epi' \in [Waves -> Nat] /\ tile_idx' \in [Waves -> Nat]
    BY <1>4, <1>10, <2>0, Opening DEF Barrier
  <2>2. \A w \in Waves : Resume(w) = IF w \in Producer THEN "epi_read" ELSE "region_write"
    BY <1>10 DEF MeetAt, Resume
  <2>3. \A w \in Waves : AtEpiRead(w, t, e)'
    BY <1>3, <1>5, <2>1, <2>2 DEF AtEpiRead
  <2>4. ControlOK'
    BY <2>1, <2>2 DEF ControlOK, Barrier, WavePoint
  <2>5. EpiIteration' = EpiIteration
    BY DEF EpiIteration
  <2> QED BY <1>3, <2>3, <2>4, <2>5 DEF StepInv, InStep
<1>11. ASSUME NEW e \in EpiIteration, MeetAt("epi_read", t, NumIter, e) PROVE StepInv'
  <2>0. e \in Nat /\ e <= EpiLoop - 1
    BY EpiLength DEF EpiIteration
  <2>1. /\ pc' \in [Waves -> {Resume(w) : w \in Waves}]
        /\ \A w \in Waves : /\ pc'[w] = Resume(w) /\ tile_idx'[w] = t /\ n'[w] = NumIter
                            /\ epi'[w] = IF w \in Producer THEN e + 1 ELSE e
        /\ n' \in [Waves -> Nat] /\ epi' \in [Waves -> Nat] /\ tile_idx' \in [Waves -> Nat]
    BY <1>4, <1>11, <2>0, Opening DEF Barrier
  <2>2. \A w \in Waves :
          Resume(w) = IF w \in Compute THEN "region_read"
                      ELSE IF e < EpiLoop - 1 THEN "epi_write" ELSE "epi_end"
    BY <1>11 DEF MeetAt, Resume, AfterEpiRead
  <2>3. ControlOK'
    BY <2>1, <2>2 DEF ControlOK, Barrier, WavePoint
  <2>4. \A w \in Waves : ~(w \in Producer /\ w \in Compute)
    BY Groups
  <2>5. CASE e < EpiLoop - 1
    <3>1. e + 1 \in EpiIteration
      BY <2>0, <2>5, EpiLength DEF EpiIteration
    <3>2. \A w \in Waves : AtEpiWrite(w, t, e + 1)'
      BY <1>3, <1>5, <2>0, <2>1, <2>2, <2>4, <2>5 DEF AtEpiWrite
    <3> QED BY <1>3, <2>3, <3>1, <3>2 DEF StepInv, InStep
  <2>6. CASE ~(e < EpiLoop - 1)
    <3>1. e = EpiLoop - 1 /\ t + GridDim \in Nat
      BY <2>0, <2>6, EpiLength
    <3>2. \A w \in Waves : AtTile(w, t + GridDim)'
      BY <1>3, <1>5, <2>0, <2>1, <2>2, <2>4, <2>6, <3>1, EpiLength DEF AtTile
    <3> QED BY <1>3, <2>3, <3>1, <3>2 DEF StepInv, InStep
  <2> QED BY <2>5, <2>6
<1> QED BY <1>1, <1>6, <1>7, <1>8, <1>9, <1>10, <1>11

(***************************************************************************)
(* The theorem.                                                            *)
(***************************************************************************)
\* The waves start together, at the block's first tile.
LEMMA StepInit == Init => StepInv
<1> SUFFICES ASSUME Init PROVE StepInv
  OBVIOUS
<1>1. BlockId \in Nat
  BY KernelAssumption
<1>2. /\ stages \in 1 .. NumLdsStages /\ num_loop \in 1 .. MaxRounds * stages
      /\ num_loop % stages = 0
  BY DEF Init, IsSupported, LoopUnroll
<1>3. LaunchOK
  BY <1>2 DEF LaunchOK
<1>4. ControlOK
  BY <1>1 DEF Init, ControlOK, TileEntry, Barrier, WavePoint
<1>5. \A w \in Waves : AtTile(w, BlockId)
  BY DEF Init, AtTile
<1> QED BY <1>1, <1>3, <1>4, <1>5 DEF StepInv, InStep

\* Every step preserves the invariant, one case per action.
LEMMA StepNext == StepInv /\ [Next]_vars => StepInv'
<1> SUFFICES ASSUME StepInv, [Next]_vars PROVE StepInv'
  OBVIOUS
<1>1. ASSUME UNCHANGED <<launch, pc, n, tile_idx, epi>> PROVE StepInv'
  <2>1. ControlOK' /\ LaunchOK' /\ Iteration' = Iteration
    BY <1>1, SameLaunch DEF StepInv, ControlOK
  <2>2. \A w \in Waves : UNCHANGED Place(w)
    BY <1>1 DEF Place
  <2>3. InStep'
    BY <1>1, <2>1, <2>2, Stays DEF StepInv, InStep, EpiIteration
  <2> QED BY <2>1, <2>3 DEF StepInv
<1>2. CASE UNCHANGED vars
  BY <1>1, <1>2 DEF vars, pipeVars, epiVars
<1>3. ASSUME NEW p \in Producer, ProducerStep(p) PROVE StepInv'
  BY <1>3, IssueInitialPlace, ProducerPlace DEF ProducerStep
<1>4. ASSUME NEW p \in Producer, Land(p) PROVE StepInv'
  BY <1>1, <1>4 DEF Land, epiVars
<1>5. ASSUME NEW c \in Compute, ComputeStep(c) PROVE StepInv'
  BY <1>5, ComputePlace, StoreOutPlace DEF ComputeStep
<1>6. ASSUME NEW w \in Waves, NextTile(w) PROVE StepInv'
  BY <1>6, NextTilePlace
<1>7. CASE WgSync
  BY <1>7, WgSyncPlace
<1>8. CASE Exited
  BY <1>2, <1>8 DEF Exited
<1> QED BY <1>2, <1>3, <1>4, <1>5, <1>6, <1>7, <1>8 DEF Next

\* The invariant holds in every reachable state.
LEMMA StepInvariance == Spec => []StepInv
BY StepInit, StepNext, PTL DEF Spec

\* Whenever the barrier can open, all waves stand at the same barrier of their
\* three programs, in the same iteration and for the same tile: the barriers
\* of pipeline, epilogue and tile loop match in number on every path.
THEOREM BarriersMatch == Spec => []BarriersAligned
<1>1. StepInv => BarriersAligned
  <2> SUFFICES ASSUME StepInv, \A w \in Waves : pc[w] \in Barrier \union {"exit"},
                      NEW w \in Waves, NEW v \in Waves
               PROVE  /\ pc[w] = pc[v] /\ n[w] = n[v]
                      /\ epi[w] = epi[v] /\ tile_idx[w] = tile_idx[v]
    BY DEF BarriersAligned
  <2>1. CASE \E u \in Waves : pc[u] # "exit"
    <3>1. \E b, t, k, e : MeetAt(b, t, k, e)
      BY <2>1, Meeting
    <3> QED BY <3>1 DEF MeetAt
  <2>2. CASE \A u \in Waves : pc[u] = "exit"
    <3>1. \E t \in Nat : \A u \in Waves : AtTile(u, t)
      BY <2>2, Segments DEF StepInv, InStep
    <3> QED BY <2>2, <3>1 DEF AtTile
  <2> QED BY <2>1, <2>2
<1> QED BY <1>1, StepInvariance, PTL

(***************************************************************************)
(* The data: what is in the LDS ring and on its way to it, what the        *)
(* compute waves read and accumulate, and when the epilogue may take the   *)
(* LDS over.                                                               *)
(*                                                                         *)
(* A producer wave waits for whole K tiles only, so that for its queue of  *)
(* loads (LdsStages_proofs) the order of the operands in a K tile does not *)
(* matter.  The barriers tell the compute waves what it has waited for.    *)
(***************************************************************************)

(***************************************************************************)
(* A producer wave's queue of loads, by K tile.                            *)
(***************************************************************************)
\* The same number for each operand, and one after the pr_major operand.
Each(b)     == [o \in Operand |-> b]
MajorTop(b) == [o \in Operand |-> IF o = "pr_major" THEN b ELSE b - 1]

\* the k-th instruction issued is of K tile b or of one before it
TileInPlace(k, b) == k <= (b + 1) * TileIssueCnt

\* loads in flight of the K tiles from lo on
TileOrdered(q, issued, t, lo, top, st) ==
  Ordered(q, issued, t, Each(lo), top, st, Each(TileIssueCnt))

TileQueue(q, l, p, t, issued, lo, top, st) ==
  /\ q \in Seq(LoadType)
  /\ TileOrdered(q, issued, t, lo, top, st)
  /\ Filled(q, l, p, t, top, st)

(***************************************************************************)
(* The inductive invariant, on top of StepInv.                             *)
(***************************************************************************)
LoopPoint == {"initial", "first_fence", "first", "release", "issue", "await_next",
              "ready", "issue_rest"}

\* A producer that has refilled a stage's pr_major part and not yet the rest.
Half(p) ==
  stages > 1 /\ \/ pc[p] = "issue_rest"
                \/ pc[p] \in {"await_next", "ready"} /\ ~IsTailLoop(n[p])

\* The last K tile issued, by operand; the instructions issued for a tile.
Top(p) ==
  [o \in Operand |->
     IF pc[p] = "initial" \/ (Half(p) /\ o # "pr_major") THEN base[p] - 1 ELSE base[p]]
Issued(p) ==
  IF pc[p] = "initial" THEN base[p] * TileIssueCnt
  ELSE IF Half(p) THEN base[p] * TileIssueCnt + IssueCnt["pr_major"]
  ELSE (base[p] + 1) * TileIssueCnt

\* The first K tile that may still be in flight.
Floor(p) ==
  IF pc[p] \in {"initial", "first_fence"} THEN 0
  ELSE IF pc[p] = "ready" /\ ~IsLastLoop(n[p]) THEN n[p] + 2
  ELSE n[p] + 1

LastTile(k) == IF k < NumIter THEN k ELSE NumIter - 1
BaseOK(p) ==
  /\ base[p] \in 0 .. NumIter - 1
  /\ pc[p] \in {"tile", "exit"} => base[p] = 0
  /\ pc[p] = "initial" => base[p] = n[p]
  /\ pc[p] \in {"first_fence", "first"} => base[p] = stages - 1
  /\ pc[p] \in {"release", "issue", "issue_rest"} => base[p] = LastTile(n[p] + stages - 1)
  /\ pc[p] \in {"await_next", "ready"} => base[p] = LastTile(n[p] + stages)

QueueOK(p) ==
  IF pc[p] \in LoopPoint
  THEN TileQueue(vmq[p], lds, p, tile_idx[p], Issued(p), Floor(p), Top(p), stages)
  ELSE vmq[p] = <<>>

\* What a compute wave reads, and has accumulated.
ReadingOK(c) ==
  reading[c] = IF pc[c] = "fence"
               THEN {<<"sh", LdsStage(n[c])>>, <<Private(c), LdsStage(n[c])>>} ELSE {}
HasRead(c) == pc[c] = "ready" \/ (pc[c] = "release" /\ LoopStart(c) = "read")
SumOK(c) ==
  /\ Len(acc[c]) = n[c] + (IF HasRead(c) THEN 1 ELSE 0)
  /\ \A i \in 1 .. Len(acc[c]) : acc[c][i] = Tile(tile_idx[c], i - 1)

PartType == {NoPart} \union (Nat \X Nat)

\* what the producer waves do
RingOK ==
  /\ base \in [Producer -> Nat]
  /\ vmq \in [Producer -> Seq(LoadType)]
  /\ lds \in [Slot -> [Producer -> TileType]]
  /\ \A p \in Producer : BaseOK(p) /\ QueueOK(p)

\* what the compute waves do
SumsOK ==
  /\ reading \in [Compute -> SUBSET Slot]
  /\ acc \in [Compute -> Seq(TileType)]
  /\ \A c \in Compute : ReadingOK(c) /\ SumOK(c)

\* what they do in the epilogue
RegionsOK ==
  /\ region \in [Compute -> PartType]
  /\ out \in [Compute -> Seq(PartType)]
  /\ writing \subseteq Compute /\ loading \subseteq Compute
  /\ \A c \in writing : pc[c] = "region_fence"
  /\ \A c \in loading : pc[c] = "store"

DataInv == StepInv /\ RingOK /\ SumsOK /\ RegionsOK

(***************************************************************************)
(* Steps of the queue.                                                     *)
(***************************************************************************)
\* The bounds are functions.
LEMMA EachType ==
  ASSUME NEW b \in Int
  PROVE  /\ Each(b) \in [Operand -> Int] /\ MajorTop(b) \in [Operand -> Int]
         /\ Each(TileIssueCnt) \in [Operand -> Int]
         /\ \A o \in Operand : Each(b)[o] = b
         /\ \A o \in Operand : Each(TileIssueCnt)[o] = TileIssueCnt
BY Counts DEF Each, MajorTop

\* Issuing an operand of the next K tile.
LEMMA IssueTileLoads ==
  ASSUME NEW q, NEW l, NEW p, NEW t \in Nat, NEW st \in 1 .. NumLdsStages,
         NEW lo \in Int, NEW top \in [Operand -> Int], NEW issued \in Int,
         NEW o \in Operand, NEW b \in Nat,
         TileQueue(q, l, p, t, issued, lo, top, st), top[o] = b - 1, lo <= b,
         NEW issued2, issued2 = issued + IssueCnt[o], TileInPlace(issued2, b),
         NEW top2 \in [Operand -> Int], top2[o] = b,
         \A x \in Operand : x # o => top2[x] = top[x]
  PROVE  TileQueue(Loaded(q, o, b, t, st), l, p, t, issued2, lo, top2, st)
<1> DEFINE lo2 == Each(lo)
           end == Each(TileIssueCnt)
<1>1. lo2 \in [Operand -> Int] /\ end \in [Operand -> Int] /\ lo2[o] = lo
  BY EachType
<1>2. InPlace(issued2, o, b, end)
  <2>1. end[o] = TileIssueCnt /\ TileIssueCnt \in Nat
    BY EachType, Counts
  <2>2. b * TileIssueCnt + TileIssueCnt = (b + 1) * TileIssueCnt
    BY <2>1
  <2> HIDE DEF end
  <2> QED BY <2>1, <2>2 DEF InPlace, TileInPlace
<1>3. Queue(q, l, p, t, issued, lo2, top, st, end)
  BY DEF Queue, TileQueue, TileOrdered
<1> HIDE DEF lo2, end
<1>4. Queue(Loaded(q, o, b, t, st), l, p, t, issued2, lo2, top2, st, end)
  BY <1>1, <1>2, <1>3, IssueLoads
<1> QED BY <1>4 DEF Queue, TileQueue, TileOrdered, lo2, end

\* A fence that leaves at most cnt loads in flight: they are of the K tiles
\* from m on.
LEMMA TileFenceTells ==
  ASSUME NEW q \in Seq(LoadType), NEW t, NEW st, NEW lo \in Int, NEW top \in [Operand -> Int],
         NEW issued \in Int, NEW cnt \in Int, NEW m \in Int,
         TileOrdered(q, issued, t, lo, top, st), Len(q) <= cnt,
         m * TileIssueCnt <= issued - cnt
  PROVE  TileOrdered(q, issued, t, m, top, st)
<1> DEFINE lo2 == Each(lo)
           m2 == Each(m)
           end == Each(TileIssueCnt)
<1>1. lo2 \in [Operand -> Int] /\ end \in [Operand -> Int] /\ m2 \in [Operand -> Int]
  BY EachType
<1>2. \A o \in Operand : (m2[o] - 1) * TileIssueCnt + end[o] <= issued - cnt
  <2>1. \A o \in Operand : m2[o] = m /\ end[o] = TileIssueCnt
    BY EachType
  <2>2. (m - 1) * TileIssueCnt + TileIssueCnt = m * TileIssueCnt
    BY Counts
  <2> HIDE DEF m2, end
  <2> QED BY <2>1, <2>2
<1>3. Ordered(q, issued, t, lo2, top, st, end)
  BY DEF TileOrdered
<1> HIDE DEF lo2, m2, end
<1>4. Ordered(q, issued, t, m2, top, st, end)
  BY <1>1, <1>2, <1>3, FenceTells
<1> QED BY <1>4 DEF TileOrdered, m2, end

\* The oldest load lands.
LEMMA LandTile ==
  ASSUME NEW q \in Seq(LoadType), q # <<>>, NEW p \in Producer, NEW t \in Nat,
         NEW l \in [Slot -> [Producer -> TileType]],
         NEW st \in 1 .. NumLdsStages, NEW lo \in Int, NEW top \in [Operand -> Int],
         NEW issued \in Int,
         TileOrdered(q, issued, t, lo, top, st), Filled(q, l, p, t, top, st),
         \A o \in Operand : top[o] < lo + st,
         NEW l2, l2 = Landed(l, p, Head(q))
  PROVE  /\ Tail(q) \in Seq(LoadType)
         /\ l2 \in [Slot -> [Producer -> TileType]]
         /\ \A s \in Slot, p2 \in Producer : p2 # p => l2[s][p2] = l[s][p2]
         /\ TileOrdered(Tail(q), issued, t, lo, top, st)
         /\ Filled(Tail(q), l2, p, t, top, st)
<1> DEFINE lo2 == Each(lo)
           end == Each(TileIssueCnt)
<1>1. lo2 \in [Operand -> Int] /\ \A o \in Operand : top[o] < lo2[o] + st
  BY EachType
<1>2. Ordered(q, issued, t, lo2, top, st, end)
  BY DEF TileOrdered
<1> HIDE DEF lo2, end
<1>3. /\ Tail(q) \in Seq(LoadType)
      /\ l2 \in [Slot -> [Producer -> TileType]]
      /\ \A s \in Slot, p2 \in Producer : p2 # p => l2[s][p2] = l[s][p2]
      /\ Ordered(Tail(q), issued, t, lo2, top, st, end)
      /\ Filled(Tail(q), l2, p, t, top, st)
  BY <1>1, <1>2, LandOne
<1> QED BY <1>3 DEF TileOrdered, lo2, end

\* The queue and the slots show what a slot holds.
LEMMA TileQueueHolds ==
  ASSUME NEW q, NEW l, NEW p, NEW t \in Nat, NEW st \in Nat \ {0}, NEW issued,
         NEW lo \in Int, NEW top \in [Operand -> Int],
         TileQueue(q, l, p, t, issued, lo, top, st),
         NEW o \in Operand, NEW b \in Nat, b < lo, b <= top[o], top[o] < b + st
  PROVE  Holds(q, l, p, t, st, o, b)
<1> DEFINE lo2 == Each(lo)
           end == Each(TileIssueCnt)
<1>1. lo2 \in [Operand -> Int] /\ b < lo2[o]
  BY EachType
<1>2. Queue(q, l, p, t, issued, lo2, top, st, end)
  BY DEF Queue, TileQueue, TileOrdered
<1> HIDE DEF lo2, end
<1> QED BY <1>1, <1>2, QueueHolds

\* The instructions of K tile b.
LEMMA Places2 ==
  ASSUME NEW b \in Nat
  PROVE  LET sh == IssueCnt["sh"]  pj == IssueCnt["pr_major"]  pn == IssueCnt["pr_minor"]
         IN  /\ b * TileIssueCnt \in Int /\ (b + 1) * TileIssueCnt \in Int
             /\ sh \in Nat /\ pj \in Nat /\ pn \in Nat
             /\ b * TileIssueCnt + pj + sh + pn = (b + 1) * TileIssueCnt
             /\ TileInPlace(b * TileIssueCnt + pj, b)
             /\ TileInPlace(b * TileIssueCnt + pj + sh, b)
             /\ TileInPlace((b + 1) * TileIssueCnt, b)
<1> DEFINE sh == IssueCnt["sh"]
           pj == IssueCnt["pr_major"]
           pn == IssueCnt["pr_minor"]
           T  == TileIssueCnt
<1>1. sh \in Nat /\ pj \in Nat /\ pn \in Nat /\ T = sh + pj + pn
  BY Counts
<1>2. \A k : TileInPlace(k, b) <=> k <= (b + 1) * T
  BY DEF TileInPlace
<1> HIDE DEF sh, pj, pn, T
<1>3. T \in Nat
  BY <1>1
<1>4. (b + 1) * T = b * T + T /\ b * T \in Int
  BY <1>3
<1> QED BY <1>1, <1>2, <1>3, <1>4 DEF sh, pj, pn, T

\* Issuing the pr_major operand of the next K tile.
LEMMA IssueMajor ==
  ASSUME NEW q, NEW l, NEW p, NEW t \in Nat, NEW st \in 1 .. NumLdsStages,
         NEW lo \in Int, NEW b \in Nat, lo <= b,
         TileQueue(q, l, p, t, b * TileIssueCnt, lo, Each(b - 1), st)
  PROVE  TileQueue(Loaded(q, "pr_major", b, t, st), l, p, t,
               b * TileIssueCnt + IssueCnt["pr_major"], lo, MajorTop(b), st)
<1>1. "pr_major" \in Operand
  BY DEF Operand
<1>2. Each(b - 1) \in [Operand -> Int] /\ MajorTop(b) \in [Operand -> Int]
  BY DEF Each, MajorTop
<1>3. /\ Each(b - 1)["pr_major"] = b - 1 /\ MajorTop(b)["pr_major"] = b
      /\ \A x \in Operand : x # "pr_major" => MajorTop(b)[x] = Each(b - 1)[x]
  BY <1>1 DEF Each, MajorTop
<1>4. /\ b * TileIssueCnt \in Int
      /\ TileInPlace(b * TileIssueCnt + IssueCnt["pr_major"], b)
  BY Places2
<1> QED BY <1>1, <1>2, <1>3, <1>4, IssueTileLoads

\* Issuing the two others.
LEMMA IssueOthers ==
  ASSUME NEW q, NEW l, NEW p, NEW t \in Nat, NEW st \in 1 .. NumLdsStages,
         NEW lo \in Int, NEW b \in Nat, lo <= b,
         TileQueue(q, l, p, t, b * TileIssueCnt + IssueCnt["pr_major"], lo, MajorTop(b), st)
  PROVE  TileQueue(Loaded(Loaded(q, "sh", b, t, st), "pr_minor", b, t, st), l, p, t,
               (b + 1) * TileIssueCnt, lo, Each(b), st)
<1> DEFINE mid == [o \in Operand |-> IF o = "pr_minor" THEN b - 1 ELSE b]
           i1 == b * TileIssueCnt + IssueCnt["pr_major"]
           i2 == i1 + IssueCnt["sh"]
           i3 == (b + 1) * TileIssueCnt
<1>1. "sh" \in Operand /\ "pr_minor" \in Operand
  BY DEF Operand
<1>2. /\ Each(b) \in [Operand -> Int] /\ MajorTop(b) \in [Operand -> Int]
      /\ mid \in [Operand -> Int]
  BY DEF Each, MajorTop
<1>3. /\ MajorTop(b)["sh"] = b - 1 /\ mid["sh"] = b
      /\ \A x \in Operand : x # "sh" => mid[x] = MajorTop(b)[x]
  BY <1>1 DEF MajorTop, Operand
<1>4. /\ mid["pr_minor"] = b - 1 /\ Each(b)["pr_minor"] = b
      /\ \A x \in Operand : x # "pr_minor" => Each(b)[x] = mid[x]
  BY <1>1 DEF Each
<1>5. /\ i1 \in Int /\ i2 \in Int /\ i3 = i2 + IssueCnt["pr_minor"]
      /\ TileInPlace(i2, b) /\ TileInPlace(i3, b)
  BY Places2
<1>6. TileQueue(q, l, p, t, i1, lo, MajorTop(b), st) /\ i2 = i1 + IssueCnt["sh"]
  OBVIOUS
<1> HIDE DEF mid, i1, i2, i3
<1>7. TileQueue(Loaded(q, "sh", b, t, st), l, p, t, i2, lo, mid, st)
  BY <1>1, <1>2, <1>3, <1>5, <1>6, IssueTileLoads
<1>8. TileQueue(Loaded(Loaded(q, "sh", b, t, st), "pr_minor", b, t, st), l, p, t, i3, lo, Each(b), st)
  BY <1>1, <1>2, <1>4, <1>5, <1>7, IssueTileLoads
<1> QED BY <1>8 DEF i3

\* The whole K tile at once.
LEMMA IssueWhole ==
  ASSUME NEW q, NEW l, NEW p, NEW t \in Nat, NEW st \in 1 .. NumLdsStages,
         NEW lo \in Int, NEW b \in Nat, lo <= b,
         TileQueue(q, l, p, t, b * TileIssueCnt, lo, Each(b - 1), st)
  PROVE  TileQueue(q \o (LoadsInto("pr_major", b % st, Tile(t, b))
                     \o LoadsInto("sh", b % st, Tile(t, b))
                     \o LoadsInto("pr_minor", b % st, Tile(t, b))), l, p, t,
               (b + 1) * TileIssueCnt, lo, Each(b), st)
<1> DEFINE x == LoadsInto("pr_major", b % st, Tile(t, b))
           y == LoadsInto("sh", b % st, Tile(t, b))
           z == LoadsInto("pr_minor", b % st, Tile(t, b))
<1>1. q \in Seq(LoadType)
  BY DEF TileQueue
<1>2. b % st \in Stage /\ Tile(t, b) \in Nat \X Nat
  <2>1. st \in Nat \ {0} /\ NumLdsStages \in Nat
    BY StagesAssumption
  <2>2. b % st \in 0 .. st - 1
    BY <2>1, ModRange
  <2> QED BY <2>1, <2>2 DEF Stage, Tile
<1>3. x \in Seq(LoadType) /\ y \in Seq(LoadType) /\ z \in Seq(LoadType)
  BY <1>2, LoadsIntoType DEF Operand
<1>4. Loaded(Loaded(Loaded(q, "pr_major", b, t, st), "sh", b, t, st), "pr_minor", b, t, st)
        = ((q \o x) \o y) \o z
  BY DEF Loaded
<1> HIDE DEF x, y, z
<1>5. SameLoads(q, x, y, z)
  BY <1>1, <1>3, LoadsInOrder
<1>6. TileQueue(Loaded(Loaded(Loaded(q, "pr_major", b, t, st), "sh", b, t, st), "pr_minor", b, t, st),
            l, p, t, (b + 1) * TileIssueCnt, lo, Each(b), st)
  BY IssueMajor, IssueOthers
<1>7. ((q \o x) \o y) \o z = q \o ((x \o y) \o z)
  BY <1>5 DEF SameLoads
<1> QED BY <1>4, <1>6, <1>7 DEF x, y, z

(***************************************************************************)
(* Where the waves are.                                                    *)
(***************************************************************************)
\* Every wave is somewhere.
LEMMA Somewhere ==
  ASSUME StepInv, NEW w \in Waves
  PROVE  \/ \E t \in Nat : AtTile(w, t) \/ AtFirst(w, t)
         \/ \E t \in Nat, k \in Iteration : AtRelease(w, t, k) \/ AtReady(w, t, k)
         \/ \E t \in Nat, e \in EpiIteration : AtEpiWrite(w, t, e) \/ AtEpiRead(w, t, e)
BY DEF StepInv, InStep

\* The iteration a wave is in, by its point.
LEMMA IterationAt ==
  ASSUME StepInv, NEW w \in Waves
  PROVE  /\ n[w] \in Nat /\ tile_idx[w] \in Nat /\ stages \in Nat \ {0}
         /\ NumIter \in Nat \ {0} /\ stages <= NumIter
         /\ pc[w] = "initial" => n[w] \in 0 .. stages - 1
         /\ pc[w] \in {"tile", "first_fence", "first"} => n[w] = 0
         /\ pc[w] \in {"release", "issue", "await_next", "ready", "issue_rest", "read", "fence"}
              => n[w] \in 0 .. NumIter - 1
         /\ pc[w] = "issue_rest" => stages > 1 /\ n[w] > 0 /\ ~IsTailLoop(n[w] - 1)
         /\ pc[w] \in InEpilogue => n[w] = NumIter
<1>1. n[w] \in Nat /\ tile_idx[w] \in Nat
  BY DEF StepInv, ControlOK
<1>2. stages \in Nat \ {0} /\ NumIter \in Nat \ {0} /\ stages <= NumIter
  BY Iterations DEF StepInv
<1>3. CASE \E t \in Nat : AtTile(w, t)
  BY <1>1, <1>2, <1>3 DEF AtTile, TileEntry, InEpilogue
<1>4. CASE \E t \in Nat : AtFirst(w, t)
  BY <1>1, <1>2, <1>4 DEF AtFirst, InEpilogue
<1>5. CASE \E t \in Nat, k \in Iteration : AtRelease(w, t, k)
  BY <1>1, <1>2, <1>5 DEF AtRelease, Iteration, InEpilogue
<1>6. CASE \E t \in Nat, k \in Iteration : AtReady(w, t, k)
  BY <1>1, <1>2, <1>6 DEF AtReady, Iteration, InEpilogue
<1>7. CASE \E t \in Nat, e \in EpiIteration : AtEpiWrite(w, t, e) \/ AtEpiRead(w, t, e)
  BY <1>1, <1>2, <1>7 DEF AtEpiWrite, AtEpiRead, InEpilogue
<1> QED BY <1>3, <1>4, <1>5, <1>6, <1>7, Somewhere

\* Types of what is derived from a producer wave's state.
LEMMA Values ==
  ASSUME StepInv, NEW p \in Producer, base[p] \in Nat
  PROVE  /\ p \in Waves /\ n[p] \in Nat /\ tile_idx[p] \in Nat
         /\ stages \in 1 .. NumLdsStages
         /\ Issued(p) \in Int /\ Floor(p) \in Int /\ Top(p) \in [Operand -> Int]
<1>1. p \in Waves
  BY Groups
<1>2. n[p] \in Nat /\ tile_idx[p] \in Nat
  BY <1>1 DEF StepInv, ControlOK
<1>3. stages \in 1 .. NumLdsStages
  BY DEF StepInv, LaunchOK
<1>4. Issued(p) \in Int
  <2>1. /\ base[p] * TileIssueCnt \in Int /\ (base[p] + 1) * TileIssueCnt \in Int
        /\ IssueCnt["pr_major"] \in Nat
    BY Places2
  <2> QED BY <2>1 DEF Issued
<1>5. Floor(p) \in Int
  BY <1>2 DEF Floor
<1>6. Top(p) \in [Operand -> Int]
  BY DEF Top
<1> QED BY <1>1, <1>2, <1>3, <1>4, <1>5, <1>6

(***************************************************************************)
(* What a step leaves alone.                                               *)
(***************************************************************************)
\* A producer wave that does not move.
LEMMA ProducerStays ==
  ASSUME StepInv, UNCHANGED launch, NEW p \in Producer, UNCHANGED Place(p),
         base'[p] = base[p], vmq'[p] = vmq[p], \A s \in Slot : lds'[s][p] = lds[s][p],
         BaseOK(p), QueueOK(p)
  PROVE  BaseOK(p)' /\ QueueOK(p)'
<1>1. /\ pc'[p] = pc[p] /\ n'[p] = n[p] /\ tile_idx'[p] = tile_idx[p]
      /\ stages' = stages /\ NumIter' = NumIter
      /\ \A k : IsTailLoop(k)' = IsTailLoop(k) /\ IsLastLoop(k)' = IsLastLoop(k)
      /\ \A k : LastTile(k)' = LastTile(k)
  BY SameLaunch DEF Place, launch, LastTile
<1>2. BaseOK(p)'
  BY <1>1 DEF BaseOK
<1>3. Half(p)' = Half(p) /\ Issued(p)' = Issued(p) /\ Floor(p)' = Floor(p) /\ Top(p)' = Top(p)
  BY <1>1 DEF Half, Issued, Floor, Top
<1>4. stages \in 1 .. NumLdsStages
  BY DEF StepInv, LaunchOK
<1>5. \A q, t, i, lo, top : TileQueue(q, lds, p, t, i, lo, top, stages)
                              => TileQueue(q, lds', p, t, i, lo, top, stages)
  <2> SUFFICES ASSUME NEW q, NEW t, NEW i, NEW lo, NEW top,
                      TileQueue(q, lds, p, t, i, lo, top, stages)
               PROVE  Filled(q, lds', p, t, top, stages)
    BY DEF TileQueue
  <2> SUFFICES ASSUME NEW o \in Operand, NEW b \in Nat, top[o] - stages < b, b <= top[o],
                      ~OnTheWay(q, <<o, b % stages>>)
               PROVE  lds'[<<o, b % stages>>][p] = Tile(t, b)
    BY DEF Filled
  <2>1. lds[<<o, b % stages>>][p] = Tile(t, b)
    BY DEF TileQueue, Filled
  <2>2. <<o, b % stages>> \in Slot
    BY <1>4, SlotOf
  <2> QED BY <2>1, <2>2
<1>6. QueueOK(p)'
  BY <1>1, <1>3, <1>5 DEF QueueOK
<1> QED BY <1>2, <1>6

\* A compute wave that does not move.
LEMMA ComputeStays ==
  ASSUME StepInv, UNCHANGED launch, NEW c \in Compute, UNCHANGED Place(c),
         reading'[c] = reading[c], acc'[c] = acc[c], ReadingOK(c), SumOK(c)
  PROVE  ReadingOK(c)' /\ SumOK(c)'
<1>1. /\ pc'[c] = pc[c] /\ n'[c] = n[c] /\ tile_idx'[c] = tile_idx[c]
      /\ stages' = stages /\ LoopStart(c)' = LoopStart(c)
  BY SameLaunch DEF Place, launch
<1>2. ReadingOK(c)'
  BY <1>1 DEF ReadingOK, LdsStage
<1>3. SumOK(c)'
  BY <1>1 DEF SumOK, HasRead
<1> QED BY <1>2, <1>3

\* The ring is as before if no producer wave moves.
LEMMA RingStays ==
  ASSUME StepInv, RingOK, UNCHANGED <<launch, base, vmq, lds>>,
         \A p \in Producer : UNCHANGED Place(p)
  PROVE  RingOK'
<1>1. \A p \in Producer : BaseOK(p)' /\ QueueOK(p)'
  BY ProducerStays DEF RingOK
<1> QED BY <1>1 DEF RingOK

\* The compute waves' state is as before if none of them moves.
LEMMA SumsStay ==
  ASSUME StepInv, SumsOK, UNCHANGED <<launch, reading, acc>>,
         \A c \in Compute : UNCHANGED Place(c)
  PROVE  SumsOK'
<1>1. \A c \in Compute : ReadingOK(c)' /\ SumOK(c)'
  BY ComputeStays DEF SumsOK
<1> QED BY <1>1 DEF SumsOK

\* The epilogue's state is as before if none of its variables changes.
LEMMA RegionsStay ==
  ASSUME RegionsOK, UNCHANGED <<region, out, writing, loading>>,
         \A c \in writing \union loading : pc'[c] = pc[c]
  PROVE  RegionsOK'
BY DEF RegionsOK

\* Steps of a producer wave: what is to be shown of them.
LEMMA ProducerMoves ==
  ASSUME DataInv, NEW p \in Producer, \A v \in Waves \ {p} : UNCHANGED Place(v),
         UNCHANGED <<launch, lds, reading, acc, epiVars>>,
         NEW b \in Nat, base' = [base EXCEPT ![p] = b],
         NEW q \in Seq(LoadType), vmq' = [vmq EXCEPT ![p] = q],
         BaseOK(p)', QueueOK(p)'
  PROVE  RingOK' /\ SumsOK' /\ RegionsOK'
<1>1. \A v \in Producer \ {p} : base'[v] = base[v] /\ vmq'[v] = vmq[v] /\ v \in Waves
  BY Groups DEF DataInv, RingOK
<1>2. \A v \in Producer \ {p} : BaseOK(v)' /\ QueueOK(v)'
  BY <1>1, ProducerStays DEF DataInv, RingOK
<1>3. RingOK'
  <2>1. base' \in [Producer -> Nat] /\ vmq' \in [Producer -> Seq(LoadType)]
        /\ lds' \in [Slot -> [Producer -> TileType]]
    BY DEF DataInv, RingOK
  <2> QED BY <1>2, <2>1 DEF RingOK
<1>4. \A c \in Compute : UNCHANGED Place(c)
  BY Groups
<1>5. SumsOK'
  BY <1>4, SumsStay DEF DataInv
<1>6. RegionsOK'
  BY <1>4, RegionsStay DEF DataInv, RegionsOK, Place, epiVars
<1> QED BY <1>3, <1>5, <1>6

(***************************************************************************)
(* The producer waves' steps.                                              *)
(***************************************************************************)
\* The loads of a K tile, as the model writes them.
LEMMA WholeTileLoads ==
  ASSUME NEW k \in Nat, NEW p \in Producer, NEW b \in Nat, k % stages = b % stages
  PROVE  WholeTile(k, p, b) = LoadsInto("pr_major", b % stages, Tile(tile_idx[p], b))
                              \o LoadsInto("sh", b % stages, Tile(tile_idx[p], b))
                              \o LoadsInto("pr_minor", b % stages, Tile(tile_idx[p], b))
BY DEF WholeTile, Loads, LdsStage

\* What a wave keeps in a step that moves one wave only.
LEMMA OthersStay ==
  ASSUME StepInv, NEW w \in Waves, NEW point, NEW k, UNCHANGED <<epi, tile_idx>>,
         \/ n' = [n EXCEPT ![w] = k] \/ UNCHANGED n,
         \/ pc' = [pc EXCEPT ![w] = point] \/ UNCHANGED pc
  PROVE  \A v \in Waves \ {w} : UNCHANGED Place(v)
BY DEF StepInv, ControlOK, Place

\* The first loads: K tile b into stage b.
LEMMA IssueInitialData ==
  ASSUME DataInv, NEW p \in Producer, IssueInitial(p)
  PROVE  RingOK' /\ SumsOK' /\ RegionsOK'
<1> DEFINE b == base[p]
           t == tile_idx[p]
           q == vmq[p]
           q2 == q \o WholeTile(n[p], p, b)
<1>1. /\ pc[p] = "initial" /\ UNCHANGED <<launch, tile_idx, lds, reading, acc, epiVars>>
      /\ vmq' = [vmq EXCEPT ![p] = q2]
      /\ IF n[p] < stages - 1
         THEN base' = [base EXCEPT ![p] = b + 1] /\ n' = [n EXCEPT ![p] = n[p] + 1]
              /\ UNCHANGED pc
         ELSE n' = [n EXCEPT ![p] = 0] /\ pc' = [pc EXCEPT ![p] = "first_fence"]
              /\ UNCHANGED base
  BY DEF IssueInitial, Goto
<1>2. /\ base[p] \in Nat /\ BaseOK(p) /\ QueueOK(p) /\ StepInv
      /\ base \in [Producer -> Nat] /\ vmq \in [Producer -> Seq(LoadType)]
  BY DEF DataInv, RingOK
<1>3. /\ p \in Waves /\ n[p] \in Nat /\ t \in Nat /\ stages \in 1 .. NumLdsStages
      /\ stages \in Nat \ {0} /\ NumIter \in Nat \ {0} /\ stages <= NumIter
      /\ n[p] \in 0 .. stages - 1
  BY <1>1, <1>2, Values, IterationAt
<1>4. b = n[p] /\ b \in 0 .. stages - 1
  BY <1>1, <1>2, <1>3 DEF BaseOK
<1>5. TileQueue(q, lds, p, t, b * TileIssueCnt, 0, Each(b - 1), stages)
  <2>1. /\ Issued(p) = b * TileIssueCnt /\ Floor(p) = 0 /\ Top(p) = Each(b - 1)
        /\ pc[p] \in LoopPoint
    BY <1>1 DEF Issued, Floor, Top, Each, LoopPoint
  <2> QED BY <1>2, <2>1 DEF QueueOK
<1>6. TileQueue(q2, lds, p, t, (b + 1) * TileIssueCnt, 0, Each(b), stages)
  <2>1. q2 = q \o (LoadsInto("pr_major", b % stages, Tile(t, b))
                   \o LoadsInto("sh", b % stages, Tile(t, b))
                   \o LoadsInto("pr_minor", b % stages, Tile(t, b)))
    BY <1>3, <1>4, WholeTileLoads
  <2> HIDE DEF q2
  <2>2. b \in Nat /\ 0 <= b
    BY <1>4
  <2> QED BY <1>3, <1>5, <2>1, <2>2, IssueWhole
<1>7. q2 \in Seq(LoadType)
  BY <1>6 DEF TileQueue
<1> HIDE DEF q2
<1>8. \A v \in Waves \ {p} : UNCHANGED Place(v)
  BY <1>1, <1>2, <1>3, OthersStay DEF epiVars
<1>9. stages' = stages /\ NumIter' = NumIter /\ UNCHANGED launch
  BY <1>1, SameLaunch
<1>10. vmq'[p] = q2 /\ tile_idx'[p] = t /\ lds' = lds
  BY <1>1, <1>2
<1>11. CASE n[p] < stages - 1
  <2>1. n'[p] = b + 1 /\ base'[p] = b + 1 /\ pc'[p] = "initial"
    BY <1>1, <1>2, <1>3, <1>4, <1>11 DEF StepInv, ControlOK
  <2>2. BaseOK(p)'
    BY <1>3, <1>4, <1>9, <1>11, <2>1 DEF BaseOK
  <2>3. /\ Issued(p)' = (b + 1) * TileIssueCnt /\ Floor(p)' = 0 /\ Top(p)' = Each(b)
        /\ pc'[p] \in LoopPoint
    BY <1>4, <2>1 DEF Issued, Floor, Top, Each, LoopPoint
  <2>4. QueueOK(p)'
    BY <1>6, <1>9, <1>10, <2>3 DEF QueueOK
  <2>5. base' = [base EXCEPT ![p] = b + 1] /\ b + 1 \in Nat
    BY <1>1, <1>4, <1>11
  <2> QED BY <1>1, <1>7, <1>8, <1>9, <2>2, <2>4, <2>5, ProducerMoves
<1>12. CASE ~(n[p] < stages - 1)
  <2>1. n'[p] = 0 /\ base'[p] = b /\ pc'[p] = "first_fence" /\ b = stages - 1
    BY <1>1, <1>2, <1>3, <1>4, <1>12 DEF StepInv, ControlOK
  <2>2. BaseOK(p)'
    BY <1>3, <1>4, <1>9, <2>1 DEF BaseOK
  <2>3. /\ Issued(p)' = (b + 1) * TileIssueCnt /\ Floor(p)' = 0 /\ Top(p)' = Each(b)
        /\ pc'[p] \in LoopPoint
    BY <2>1 DEF Issued, Floor, Top, Each, LoopPoint, Half
  <2>4. QueueOK(p)'
    BY <1>6, <1>9, <1>10, <2>3 DEF QueueOK
  <2>5. base' = [base EXCEPT ![p] = b] /\ b \in Nat
    BY <1>1, <1>2, <1>12
  <2> QED BY <1>1, <1>7, <1>8, <1>9, <2>2, <2>4, <2>5, ProducerMoves
<1> QED BY <1>11, <1>12

\* What the invariant says of a producer wave.
LEMMA ProducerFacts ==
  ASSUME DataInv, NEW p \in Producer
  PROVE  /\ StepInv /\ BaseOK(p) /\ QueueOK(p) /\ base[p] \in Nat /\ vmq[p] \in Seq(LoadType)
         /\ base = [base EXCEPT ![p] = base[p]] /\ vmq = [vmq EXCEPT ![p] = vmq[p]]
         /\ base \in [Producer -> Nat] /\ vmq \in [Producer -> Seq(LoadType)]
         /\ p \in Waves /\ n[p] \in Nat /\ tile_idx[p] \in Nat
         /\ stages \in 1 .. NumLdsStages /\ stages \in Nat \ {0}
         /\ NumIter \in Nat \ {0} /\ stages <= NumIter
<1>1. StepInv /\ BaseOK(p) /\ QueueOK(p) /\ base[p] \in Nat /\ vmq[p] \in Seq(LoadType)
      /\ base = [base EXCEPT ![p] = base[p]] /\ vmq = [vmq EXCEPT ![p] = vmq[p]]
      /\ base \in [Producer -> Nat] /\ vmq \in [Producer -> Seq(LoadType)]
  BY DEF DataInv, RingOK
<1> QED BY <1>1, Values, IterationAt

\* A step that only takes a producer wave to another point.
LEMMA ProducerGoes ==
  ASSUME DataInv, NEW p \in Producer, NEW point \in Barrier \union WavePoint,
         Goto(p, point), UNCHANGED <<launch, pipeVars, epiVars>>,
         BaseOK(p)', QueueOK(p)'
  PROVE  RingOK' /\ SumsOK' /\ RegionsOK'
<1>1. UNCHANGED <<n, epi, tile_idx, base, vmq, lds, reading, acc>>
  BY DEF pipeVars, epiVars
<1>2. \A v \in Waves \ {p} : UNCHANGED Place(v)
  BY <1>1, GotoStep, ProducerFacts
<1>3. /\ base' = [base EXCEPT ![p] = base[p]] /\ vmq' = [vmq EXCEPT ![p] = vmq[p]]
      /\ base[p] \in Nat /\ vmq[p] \in Seq(LoadType)
  BY <1>1, ProducerFacts
<1> QED BY <1>1, <1>2, <1>3, ProducerMoves

\* m K tiles are all that a fence with a count of the a - m other ones waits for.
LEMMA FenceCount ==
  ASSUME NEW T \in Nat, NEW a \in Int, NEW m \in Int, NEW rest \in Int
  PROVE  m * T <= (a * T + rest) - (T * (a - m) + rest)
<1>1. T * (a - m) = a * T - m * T
  OBVIOUS
<1>2. a * T \in Int /\ m * T \in Int
  OBVIOUS
<1> QED BY <1>1, <1>2

\* The first fence: K tile 0 has landed.
LEMMA AwaitFirstData ==
  ASSUME DataInv, NEW p \in Producer, AwaitFirst(p)
  PROVE  RingOK' /\ SumsOK' /\ RegionsOK'
<1> DEFINE b == base[p]
           t == tile_idx[p]
           q == vmq[p]
<1>1. /\ pc[p] = "first_fence" /\ Len(q) <= TileIssueCnt * (stages - 1)
      /\ Goto(p, "first") /\ UNCHANGED <<launch, pipeVars, epiVars>>
  BY DEF AwaitFirst, async_load_fence
<1>2. n[p] = 0 /\ b = stages - 1 /\ stages \in Nat \ {0} /\ t \in Nat /\ q \in Seq(LoadType)
      /\ 1 <= NumIter /\ NumIter \in Nat
  BY <1>1, ProducerFacts, IterationAt DEF BaseOK
<1>3. TileQueue(q, lds, p, t, stages * TileIssueCnt, 0, Each(b), stages)
  <2>1. /\ Issued(p) = stages * TileIssueCnt /\ Floor(p) = 0 /\ Top(p) = Each(b)
        /\ pc[p] \in LoopPoint
    BY <1>1, <1>2 DEF Issued, Floor, Top, Each, LoopPoint, Half
  <2> QED BY <2>1, ProducerFacts DEF QueueOK
<1>4. TileQueue(q, lds, p, t, stages * TileIssueCnt, 1, Each(b), stages)
  <2>1. Each(b) \in [Operand -> Int]
    BY <1>2 DEF Each
  <2>2. TileIssueCnt \in Nat
    BY Counts
  <2>3. 1 * TileIssueCnt <= (stages * TileIssueCnt + 0) - (TileIssueCnt * (stages - 1) + 0)
    BY <1>2, <2>2, FenceCount
  <2>4. /\ stages * TileIssueCnt \in Int /\ TileIssueCnt * (stages - 1) \in Int
    BY <1>2, <2>2
  <2>5. 1 * TileIssueCnt <= stages * TileIssueCnt - TileIssueCnt * (stages - 1)
    BY <2>3, <2>4
  <2> DEFINE cnt == TileIssueCnt * (stages - 1)
             issued == stages * TileIssueCnt
             m == 1
  <2>6. /\ TileOrdered(q, issued, t, 0, Each(b), stages) /\ Len(q) <= cnt
        /\ m * TileIssueCnt <= issued - cnt /\ issued \in Int /\ cnt \in Int /\ m \in Int
        /\ 0 \in Int
    BY <1>1, <1>3, <2>4, <2>5 DEF TileQueue
  <2> HIDE DEF cnt, issued, m
  <2>7. TileOrdered(q, issued, t, m, Each(b), stages)
    BY <1>2, <2>1, <2>6, TileFenceTells
  <2> QED BY <1>3, <2>7 DEF TileQueue, issued, m
<1>5. /\ pc'[p] = "first" /\ n'[p] = 0 /\ base'[p] = b /\ vmq'[p] = q /\ tile_idx'[p] = t
      /\ lds' = lds /\ stages' = stages /\ NumIter' = NumIter
  BY <1>1, <1>2, SameLaunch, ProducerFacts DEF Goto, pipeVars, StepInv, ControlOK
<1>6. BaseOK(p)'
  BY <1>2, <1>5, ProducerFacts DEF BaseOK
<1>7. /\ Issued(p)' = stages * TileIssueCnt /\ Floor(p)' = 1 /\ Top(p)' = Each(b)
      /\ pc'[p] \in LoopPoint
  BY <1>2, <1>5 DEF Issued, Floor, Top, Each, LoopPoint, Half
<1>8. QueueOK(p)'
  BY <1>4, <1>5, <1>7 DEF QueueOK
<1> QED BY <1>1, <1>6, <1>8, ProducerGoes DEF Barrier

\* Iteration k's stage takes the K tile that is "stages" further.
LEMMA SameStage ==
  ASSUME NEW k \in Nat, stages \in Nat \ {0}
  PROVE  k % stages = (k + stages) % stages
BY PlusMod

\* The loads before an iteration's second barrier.
LEMMA IssueData ==
  ASSUME DataInv, NEW p \in Producer, Issue(p)
  PROVE  RingOK' /\ SumsOK' /\ RegionsOK'
<1> DEFINE b == base[p]
           t == tile_idx[p]
           q == vmq[p]
           k == n[p]
<1>1. /\ pc[p] = "issue" /\ Goto(p, "await_next")
      /\ UNCHANGED <<launch, n, tile_idx, lds, reading, acc, epiVars>>
      /\ IF IsTailLoop(k) THEN UNCHANGED <<base, vmq>>
         ELSE /\ base' = [base EXCEPT ![p] = b + 1]
              /\ vmq' = [vmq EXCEPT ![p] = q \o Refill(k, p, b + 1)]
  BY DEF Issue
<1>2. /\ k \in 0 .. NumIter - 1 /\ k \in Nat /\ b = LastTile(k + stages - 1) /\ b \in Nat
      /\ stages \in Nat \ {0} /\ stages \in 1 .. NumLdsStages /\ NumIter \in Nat
      /\ t \in Nat /\ q \in Seq(LoadType)
  BY <1>1, ProducerFacts, IterationAt DEF BaseOK
<1>3. /\ pc'[p] = "await_next" /\ n'[p] = k /\ tile_idx'[p] = t
      /\ lds' = lds /\ stages' = stages /\ NumIter' = NumIter
      /\ \A i : IsTailLoop(i)' = IsTailLoop(i) /\ LastTile(i)' = LastTile(i)
  BY <1>1, <1>2, SameLaunch, ProducerFacts DEF Goto, StepInv, ControlOK, LastTile, launch
<1>4. \A v \in Waves \ {p} : UNCHANGED Place(v)
  BY <1>1, ProducerFacts, GotoStep DEF epiVars, WavePoint
<1>5. TileQueue(q, lds, p, t, (b + 1) * TileIssueCnt, k + 1, Each(b), stages)
  <2>1. /\ Issued(p) = (b + 1) * TileIssueCnt /\ Floor(p) = k + 1 /\ Top(p) = Each(b)
        /\ pc[p] \in LoopPoint
    BY <1>1 DEF Issued, Floor, Top, Each, LoopPoint, Half
  <2> QED BY <2>1, ProducerFacts DEF QueueOK
<1>6. CASE IsTailLoop(k)
  <2>1. base' = [base EXCEPT ![p] = b] /\ vmq' = [vmq EXCEPT ![p] = q] /\ base'[p] = b
        /\ vmq'[p] = q
    BY <1>1, <1>6, ProducerFacts
  <2>2. b = LastTile(k + stages) /\ b \in 0 .. NumIter - 1
    BY <1>2, <1>6 DEF LastTile, IsTailLoop
  <2>3. BaseOK(p)'
    BY <1>3, <2>1, <2>2 DEF BaseOK
  <2>4. /\ Issued(p)' = (b + 1) * TileIssueCnt /\ Floor(p)' = k + 1 /\ Top(p)' = Each(b)
        /\ pc'[p] \in LoopPoint
    BY <1>3, <1>6, <2>1 DEF Issued, Floor, Top, Each, LoopPoint, Half
  <2>5. QueueOK(p)'
    BY <1>3, <1>5, <2>1, <2>4 DEF QueueOK
  <2> QED BY <1>1, <1>2, <1>4, <2>1, <2>3, <2>5, ProducerMoves
<1>7. CASE ~IsTailLoop(k)
  <2> DEFINE q2 == q \o Refill(k, p, b + 1)
  <2>1. /\ b = k + stages - 1 /\ b + 1 \in 0 .. NumIter - 1 /\ b + 1 \in Nat
        /\ b + 1 = LastTile(k + stages) /\ b + 1 = k + stages /\ b = (b + 1) - 1 /\ k + 1 <= b + 1
    BY <1>2, <1>7 DEF LastTile, IsTailLoop
  <2>2. k % stages = (b + 1) % stages
    BY <1>2, <2>1, SameStage
  <2>3. base' = [base EXCEPT ![p] = b + 1] /\ vmq' = [vmq EXCEPT ![p] = q2]
    BY <1>1, <1>7
  <2>4. base'[p] = b + 1 /\ vmq'[p] = q2
    BY <2>3, ProducerFacts
  <2>5. BaseOK(p)'
    BY <1>3, <2>1, <2>4 DEF BaseOK
  <2>6. TileQueue(q, lds, p, t, (b + 1) * TileIssueCnt, k + 1, Each((b + 1) - 1), stages)
    BY <1>5, <2>1
  <2>7. CASE stages = 1
    <3>1. q2 = q \o (LoadsInto("pr_major", (b + 1) % stages, Tile(t, b + 1))
                     \o LoadsInto("sh", (b + 1) % stages, Tile(t, b + 1))
                     \o LoadsInto("pr_minor", (b + 1) % stages, Tile(t, b + 1)))
      <4>1. Refill(k, p, b + 1) = WholeTile(k, p, b + 1)
        BY <2>7 DEF Refill
      <4> QED BY <1>2, <2>1, <2>2, <4>1, WholeTileLoads
    <3> HIDE DEF q2
    <3>2. TileQueue(q2, lds, p, t, ((b + 1) + 1) * TileIssueCnt, k + 1, Each(b + 1), stages)
      BY <1>2, <2>1, <2>6, <3>1, IssueWhole
    <3>3. /\ Issued(p)' = ((b + 1) + 1) * TileIssueCnt /\ Floor(p)' = k + 1
          /\ Top(p)' = Each(b + 1) /\ pc'[p] \in LoopPoint
      BY <1>3, <2>4, <2>7 DEF Issued, Floor, Top, Each, LoopPoint, Half
    <3>4. QueueOK(p)'
      BY <1>3, <2>4, <3>2, <3>3 DEF QueueOK
    <3>5. q2 \in Seq(LoadType)
      BY <3>2 DEF TileQueue
    <3> QED BY <1>1, <1>4, <2>1, <2>3, <2>5, <3>4, <3>5, ProducerMoves
  <2>8. CASE stages # 1
    <3>1. q2 = Loaded(q, "pr_major", b + 1, t, stages)
      BY <2>2, <2>8 DEF Refill, Loads, LdsStage, Loaded
    <3> HIDE DEF q2
    <3>2. TileQueue(q2, lds, p, t, (b + 1) * TileIssueCnt + IssueCnt["pr_major"], k + 1,
                MajorTop(b + 1), stages)
      BY <1>2, <2>1, <2>6, <3>1, IssueMajor
    <3>3. /\ Issued(p)' = (b + 1) * TileIssueCnt + IssueCnt["pr_major"] /\ Floor(p)' = k + 1
          /\ Top(p)' = MajorTop(b + 1) /\ pc'[p] \in LoopPoint
      BY <1>2, <1>3, <1>7, <2>4, <2>8 DEF Issued, Floor, Top, MajorTop, LoopPoint, Half
    <3>4. QueueOK(p)'
      BY <1>3, <2>4, <3>2, <3>3 DEF QueueOK
    <3>5. q2 \in Seq(LoadType)
      BY <3>2 DEF TileQueue
    <3> QED BY <1>1, <1>4, <2>1, <2>3, <2>5, <3>4, <3>5, ProducerMoves
  <2> QED BY <2>7, <2>8
<1> QED BY <1>6, <1>7

\* In the tail, iteration k's stage is the place of k in the last round.
LEMMA TailStage ==
  ASSUME StepInv, NEW k \in 0 .. NumIter - 1, IsTailLoop(k)
  PROVE  LdsStage(k) = k - (NumIter - stages)
<1>1. stages \in Nat \ {0} /\ NumIter \in Nat \ {0} /\ stages <= NumIter /\ NumIter % stages = 0
  BY Iterations DEF StepInv
<1> DEFINE N == NumIter
           q == N \div stages
<1>2. q \in Nat /\ N = stages * q
  <2>1. N \in Nat /\ q \in Nat /\ N = stages * q + (N % stages)
    BY <1>1, DivMod
  <2> QED BY <1>1, <2>1
<1> DEFINE r == k - (N - stages)
<1>3. r \in 0 .. stages - 1
  BY <1>1 DEF IsTailLoop
<1>4. k = (N - stages) + r
  BY <1>1
<1> HIDE DEF N, q, r
<1>5. q # 0
  BY <1>1, <1>2 DEF N
<1>6. q - 1 \in Nat /\ k = stages * (q - 1) + r
  BY <1>1, <1>2, <1>3, <1>4, <1>5
<1>7. (stages * (q - 1) + r) % stages = r
  BY <1>1, <1>3, <1>6, DivModUnique
<1> QED BY <1>6, <1>7 DEF LdsStage, r, N

\* A fence before an iteration that is not the last one: the next K tile has
\* landed.
LEMMA NextTileLanded ==
  ASSUME DataInv, NEW p \in Producer, pc[p] = "await_next", ~IsLastLoop(n[p]),
         Len(vmq[p]) <= waitcnt(n[p])
  PROVE  TileOrdered(vmq[p], Issued(p), tile_idx[p], n[p] + 2, Top(p), stages)
<1> DEFINE b == base[p]
           t == tile_idx[p]
           q == vmq[p]
           k == n[p]
           T == TileIssueCnt
           cnt == waitcnt(k)
           m == k + 2
<1>1. /\ k \in 0 .. NumIter - 1 /\ k \in Nat /\ b = LastTile(k + stages) /\ b \in Nat
      /\ stages \in Nat \ {0} /\ NumIter \in Nat /\ stages <= NumIter
      /\ t \in Nat /\ q \in Seq(LoadType)
      /\ T \in Nat /\ IssueCnt["pr_major"] \in Nat
  BY ProducerFacts, IterationAt, Counts, Places2 DEF BaseOK
<1>2. TileOrdered(q, Issued(p), t, k + 1, Top(p), stages)
  BY ProducerFacts DEF QueueOK, TileQueue, Floor, LoopPoint
<1>3. Issued(p) \in Int /\ Top(p) \in [Operand -> Int]
  BY ProducerFacts, Values
<1>4. CASE stages = 1
  <2>1. Len(q) = 0
    BY <1>1, <1>4 DEF waitcnt
  <2> QED BY <2>1 DEF TileOrdered, Ordered, Each
<1>5. ASSUME cnt \in Int, m * T <= Issued(p) - cnt
      PROVE  TileOrdered(q, Issued(p), t, k + 2, Top(p), stages)
  <2>1. k + 1 \in Int /\ m \in Int /\ Len(q) <= cnt
    BY <1>1
  <2> DEFINE i == Issued(p)
             lo == k + 1
  <2> HIDE DEF i, cnt, m, lo, q
  <2> QED BY <1>1, <1>2, <1>3, <1>5, <2>1, TileFenceTells DEF i, m, lo, T
<1>6. CASE stages # 1 /\ IsTailLoop(k)
  <2>1. b + 1 = NumIter
    BY <1>1, <1>6 DEF LastTile, IsTailLoop
  <2>2. Issued(p) = NumIter * T
    BY <1>6, <2>1 DEF Issued, Half
  <2>3. cnt = T * (NumIter - m)
    <3>1. stages - LdsStage(k) - 2 = NumIter - m
      BY <1>1, <1>6, TailStage, ProducerFacts
    <3> QED BY <1>6, <3>1 DEF waitcnt
  <2>4. m * T <= (NumIter * T + 0) - (T * (NumIter - m) + 0)
    BY <1>1, FenceCount
  <2>5. NumIter * T \in Int /\ T * (NumIter - m) \in Int
    BY <1>1
  <2>6. cnt \in Int /\ m * T <= Issued(p) - cnt
    BY <2>2, <2>3, <2>4, <2>5
  <2> QED BY <1>5, <2>6
<1>7. CASE stages # 1 /\ ~IsTailLoop(k)
  <2>1. b = k + stages /\ stages > 1
    BY <1>1, <1>7 DEF LastTile, IsTailLoop
  <2>2. Issued(p) = b * T + IssueCnt["pr_major"]
    BY <1>7, <2>1 DEF Issued, Half
  <2>3. cnt = T * (b - m) + IssueCnt["pr_major"]
    <3>1. stages - 2 = b - m
      BY <1>1, <2>1
    <3> QED BY <1>7, <3>1 DEF waitcnt
  <2>4. m * T <= (b * T + IssueCnt["pr_major"]) - (T * (b - m) + IssueCnt["pr_major"])
    BY <1>1, FenceCount
  <2>5. T * (b - m) + IssueCnt["pr_major"] \in Int
    BY <1>1
  <2>6. cnt \in Int /\ m * T <= Issued(p) - cnt
    BY <2>2, <2>3, <2>4, <2>5
  <2> QED BY <1>5, <2>6
<1> QED BY <1>4, <1>6, <1>7

\* The fence of an iteration: its next K tile has landed.
LEMMA AwaitNextData ==
  ASSUME DataInv, NEW p \in Producer, AwaitNext(p)
  PROVE  RingOK' /\ SumsOK' /\ RegionsOK'
<1> DEFINE k == n[p]
<1>1. /\ pc[p] = "await_next" /\ Goto(p, "ready") /\ UNCHANGED <<launch, pipeVars, epiVars>>
      /\ ~IsLastLoop(k) => Len(vmq[p]) <= waitcnt(k)
  BY DEF AwaitNext, async_load_fence
<1>2. /\ pc'[p] = "ready" /\ n' = n /\ base' = base /\ vmq' = vmq /\ tile_idx' = tile_idx
      /\ lds' = lds /\ stages' = stages /\ NumIter' = NumIter
      /\ \A i : /\ IsTailLoop(i)' = IsTailLoop(i) /\ LastTile(i)' = LastTile(i)
                /\ IsLastLoop(i)' = IsLastLoop(i)
  BY <1>1, SameLaunch, ProducerFacts DEF Goto, pipeVars, StepInv, ControlOK, LastTile, launch
<1>3. BaseOK(p)'
  BY <1>1, <1>2, ProducerFacts DEF BaseOK
<1>4. Issued(p)' = Issued(p) /\ Top(p)' = Top(p)
  BY <1>1, <1>2 DEF Issued, Top, Half
<1>5. TileQueue(vmq[p], lds, p, tile_idx[p], Issued(p), k + 1, Top(p), stages)
  BY <1>1, ProducerFacts DEF QueueOK, Floor, LoopPoint
<1>6. QueueOK(p)'
  <2>1. CASE IsLastLoop(k)
    <3>1. Floor(p)' = k + 1
      BY <1>2, <2>1 DEF Floor
    <3> QED BY <1>2, <1>4, <1>5, <3>1 DEF QueueOK, LoopPoint
  <2>2. CASE ~IsLastLoop(k)
    <3>1. Floor(p)' = k + 2
      BY <1>2, <2>2 DEF Floor
    <3>2. TileOrdered(vmq[p], Issued(p), tile_idx[p], k + 2, Top(p), stages)
      BY <1>1, <2>2, NextTileLanded
    <3>3. TileQueue(vmq[p], lds, p, tile_idx[p], Issued(p), k + 2, Top(p), stages)
      BY <1>5, <3>2 DEF TileQueue
    <3> QED BY <1>2, <1>4, <3>1, <3>3 DEF QueueOK, LoopPoint
  <2> QED BY <2>1, <2>2
<1> QED BY <1>1, <1>3, <1>6, ProducerGoes DEF Barrier

\* The loads after an iteration's second barrier.
LEMMA IssueRestData ==
  ASSUME DataInv, NEW p \in Producer, IssueRest(p)
  PROVE  RingOK' /\ SumsOK' /\ RegionsOK'
<1> DEFINE b == base[p]
           t == tile_idx[p]
           q == vmq[p]
           k == n[p]
           q2 == Loaded(Loaded(q, "sh", b, t, stages), "pr_minor", b, t, stages)
<1>1. /\ pc[p] = "issue_rest" /\ Goto(p, "release")
      /\ UNCHANGED <<launch, n, tile_idx, base, lds, reading, acc, epiVars>>
      /\ vmq' = [vmq EXCEPT ![p] = q \o Loads("sh", k - 1, p, b) \o Loads("pr_minor", k - 1, p, b)]
  BY DEF IssueRest
<1>2. /\ k \in 0 .. NumIter - 1 /\ k - 1 \in Nat /\ k + 1 \in Int /\ b = LastTile(k + stages - 1)
      /\ stages > 1 /\ ~IsTailLoop(k - 1) /\ b \in Nat
      /\ stages \in Nat \ {0} /\ stages \in 1 .. NumLdsStages /\ NumIter \in Nat
      /\ t \in Nat /\ q \in Seq(LoadType)
  BY <1>1, ProducerFacts, IterationAt DEF BaseOK
<1>3. b = (k - 1) + stages /\ k + 1 <= b
  <2>1. ~(k - 1 >= NumIter - stages)
    BY <1>2 DEF IsTailLoop
  <2>2. k + stages - 1 < NumIter
    BY <1>2, <2>1
  <2>3. b = k + stages - 1
    BY <1>2, <2>2 DEF LastTile
  <2> QED BY <1>2, <2>3
<1>4. vmq' = [vmq EXCEPT ![p] = q2]
  <2>1. (k - 1) % stages = b % stages
    BY <1>2, <1>3, SameStage
  <2>2. q2 = q \o Loads("sh", k - 1, p, b) \o Loads("pr_minor", k - 1, p, b)
    BY <2>1 DEF Loads, LdsStage, Loaded
  <2> QED BY <1>1, <2>2
<1>5. TileQueue(q, lds, p, t, b * TileIssueCnt + IssueCnt["pr_major"], k + 1, MajorTop(b), stages)
  <2>1. /\ Issued(p) = b * TileIssueCnt + IssueCnt["pr_major"] /\ Floor(p) = k + 1
        /\ Top(p) = MajorTop(b) /\ pc[p] \in LoopPoint
    BY <1>1, <1>2 DEF Issued, Floor, Top, MajorTop, LoopPoint, Half
  <2> QED BY <2>1, ProducerFacts DEF QueueOK
<1>6. TileQueue(q2, lds, p, t, (b + 1) * TileIssueCnt, k + 1, Each(b), stages)
  BY <1>2, <1>3, <1>5, IssueOthers
<1>7. q2 \in Seq(LoadType)
  BY <1>6 DEF TileQueue
<1> HIDE DEF q2
<1>8. \A v \in Waves \ {p} : UNCHANGED Place(v)
  BY <1>1, ProducerFacts, GotoStep DEF epiVars, Barrier
<1>9. /\ pc'[p] = "release" /\ n' = n /\ base' = base /\ vmq'[p] = q2 /\ tile_idx' = tile_idx
      /\ lds' = lds /\ stages' = stages /\ NumIter' = NumIter
      /\ \A i : LastTile(i)' = LastTile(i)
  BY <1>1, <1>4, SameLaunch, ProducerFacts DEF Goto, StepInv, ControlOK, LastTile, launch
<1>10. BaseOK(p)'
  BY <1>1, <1>9, ProducerFacts DEF BaseOK
<1>11. /\ Issued(p)' = (b + 1) * TileIssueCnt /\ Floor(p)' = k + 1 /\ Top(p)' = Each(b)
       /\ pc'[p] \in LoopPoint
  BY <1>9 DEF Issued, Floor, Top, Each, LoopPoint, Half
<1>12. QueueOK(p)'
  BY <1>6, <1>9, <1>11 DEF QueueOK
<1>13. base' = [base EXCEPT ![p] = b]
  BY <1>1, ProducerFacts
<1> QED BY <1>1, <1>2, <1>4, <1>7, <1>8, <1>10, <1>12, <1>13, ProducerMoves

\* A stage is not loaded again before all that it takes has been waited for: the
\* K tiles issued and not known to have landed are at most "stages".
LEMMA Window ==
  ASSUME DataInv, NEW p \in Producer, pc[p] \in LoopPoint
  PROVE  \A o \in Operand : Top(p)[o] < Floor(p) + stages
<1> SUFFICES ASSUME NEW o \in Operand PROVE Top(p)[o] < Floor(p) + stages
  OBVIOUS
<1>1. /\ base[p] \in Nat /\ n[p] \in Nat /\ stages \in Nat \ {0} /\ NumIter \in Nat
      /\ stages <= NumIter /\ BaseOK(p)
  BY ProducerFacts
<1>2. Top(p)[o] <= base[p] /\ (pc[p] = "initial" => Top(p)[o] = base[p] - 1)
  BY <1>1 DEF Top
<1>3. CASE pc[p] = "initial"
  <2>1. base[p] \in 0 .. stages - 1 /\ Floor(p) = 0
    BY <1>1, <1>3, ProducerFacts, IterationAt DEF BaseOK, Floor
  <2> QED BY <1>1, <1>2, <1>3, <2>1
<1>4. CASE pc[p] \in {"first_fence", "first"}
  <2>1. base[p] = stages - 1 /\ Floor(p) >= 0
    BY <1>1, <1>4 DEF BaseOK, Floor
  <2>2. Floor(p) \in Int
    BY <1>1, ProducerFacts, Values
  <2> QED BY <1>1, <1>2, <2>1, <2>2, ProducerFacts, Values
<1>5. CASE pc[p] \in {"release", "issue", "issue_rest"}
  <2>1. base[p] <= n[p] + stages - 1 /\ Floor(p) = n[p] + 1
    BY <1>1, <1>5 DEF BaseOK, Floor, LastTile
  <2> QED BY <1>1, <1>2, <2>1, ProducerFacts, Values
<1>6. CASE pc[p] \in {"await_next", "ready"}
  <2>1. base[p] <= n[p] + stages /\ Floor(p) >= n[p] + 1
    BY <1>1, <1>6 DEF BaseOK, Floor, LastTile
  <2> QED BY <1>1, <1>2, <2>1, ProducerFacts, Values
<1> QED BY <1>3, <1>4, <1>5, <1>6 DEF LoopPoint

\* A load lands.
LEMMA LandData ==
  ASSUME DataInv, NEW p \in Producer, Land(p)
  PROVE  RingOK' /\ SumsOK' /\ RegionsOK'
<1> DEFINE q == vmq[p]
           l2 == [lds EXCEPT ![Head(q).slot][p] = Head(q).tile]
<1>1. /\ q # <<>> /\ vmq' = [vmq EXCEPT ![p] = Tail(q)] /\ lds' = l2
      /\ UNCHANGED <<launch, pc, n, tile_idx, base, acc, epiVars, reading>>
  BY DEF Land, LandOldest
<1>2. pc[p] \in LoopPoint
  BY <1>1, ProducerFacts DEF QueueOK
<1>3. TileQueue(q, lds, p, tile_idx[p], Issued(p), Floor(p), Top(p), stages)
  BY <1>2, ProducerFacts DEF QueueOK
<1>4. \A o \in Operand : Top(p)[o] < Floor(p) + stages
  BY <1>2, Window
<1>5. /\ Tail(q) \in Seq(LoadType) /\ l2 \in [Slot -> [Producer -> TileType]]
      /\ \A s \in Slot, p2 \in Producer : p2 # p => l2[s][p2] = lds[s][p2]
      /\ TileOrdered(Tail(q), Issued(p), tile_idx[p], Floor(p), Top(p), stages)
      /\ Filled(Tail(q), l2, p, tile_idx[p], Top(p), stages)
  <2>1. /\ q \in Seq(LoadType) /\ tile_idx[p] \in Nat /\ stages \in 1 .. NumLdsStages
        /\ lds \in [Slot -> [Producer -> TileType]]
        /\ Floor(p) \in Int /\ Top(p) \in [Operand -> Int] /\ Issued(p) \in Int
        /\ TileOrdered(q, Issued(p), tile_idx[p], Floor(p), Top(p), stages)
        /\ Filled(q, lds, p, tile_idx[p], Top(p), stages)
    BY <1>3, ProducerFacts, Values DEF DataInv, RingOK, TileQueue
  <2>2. l2 = Landed(lds, p, Head(q)) /\ q # <<>>
    BY <1>1 DEF Landed
  <2> HIDE DEF q, l2
  <2> QED BY <1>4, <2>1, <2>2, LandTile
<1> HIDE DEF l2
<1>6. \A v \in Waves : UNCHANGED Place(v)
  BY <1>1 DEF Place, epiVars
<1>7. vmq'[p] = Tail(q) /\ \A v \in Producer \ {p} : vmq'[v] = vmq[v]
  BY <1>1, ProducerFacts
<1>8. \A v \in Producer \ {p} : BaseOK(v)' /\ QueueOK(v)'
  <2> SUFFICES ASSUME NEW v \in Producer \ {p} PROVE BaseOK(v)' /\ QueueOK(v)'
    OBVIOUS
  <2>1. \A s \in Slot : lds'[s][v] = lds[s][v]
    BY <1>1, <1>5
  <2> QED BY <1>1, <1>6, <1>7, <2>1, ProducerStays, Groups DEF DataInv, RingOK
<1>9. /\ stages' = stages /\ NumIter' = NumIter
      /\ \A i : /\ IsTailLoop(i)' = IsTailLoop(i) /\ LastTile(i)' = LastTile(i)
                /\ IsLastLoop(i)' = IsLastLoop(i)
  BY <1>1, SameLaunch DEF LastTile, launch
<1>10. BaseOK(p)'
  BY <1>1, <1>9, ProducerFacts DEF BaseOK
<1>11. Issued(p)' = Issued(p) /\ Top(p)' = Top(p) /\ Floor(p)' = Floor(p)
  BY <1>1, <1>9 DEF Issued, Top, Floor, Half
<1>12. QueueOK(p)'
  BY <1>1, <1>2, <1>5, <1>7, <1>9, <1>11 DEF QueueOK, TileQueue
<1>13. RingOK'
  <2>1. vmq' \in [Producer -> Seq(LoadType)]
    BY <1>1, <1>5, ProducerFacts
  <2> QED BY <1>1, <1>5, <1>8, <1>10, <1>12, <2>1 DEF DataInv, RingOK
<1>14. SumsOK'
  BY <1>1, <1>6, SumsStay, Groups DEF DataInv
<1>15. RegionsOK'
  BY <1>1, RegionsStay DEF DataInv, epiVars
<1> QED BY <1>13, <1>14, <1>15

(***************************************************************************)
(* The barrier.                                                            *)
(***************************************************************************)
\* What the barrier does to one wave, whichever barrier it is.
LEMMA Opened ==
  ASSUME StepInv, WgSync, NEW w \in Waves
  PROVE  /\ pc[w] \in Barrier /\ pc'[w] = Resume(w) /\ tile_idx'[w] = tile_idx[w]
         /\ n'[w] = IF pc[w] = "ready" THEN n[w] + 1 ELSE n[w]
         /\ stages' = stages /\ NumIter' = NumIter /\ LoopStart(w)' = LoopStart(w)
         /\ \A i : /\ IsTailLoop(i)' = IsTailLoop(i) /\ LastTile(i)' = LastTile(i)
                   /\ IsLastLoop(i)' = IsLastLoop(i)
<1>1. PICK b \in Barrier, t \in Nat, k \in Nat, e \in Nat : MeetAt(b, t, k, e)
  <2>1. 0 \in Nat /\ Iteration \subseteq Nat /\ EpiIteration \subseteq Nat /\ NumIter \in Nat
    BY Iterations, EpiLength DEF Iteration, EpiIteration, StepInv
  <2>2. "tile" \in Barrier /\ "first" \in Barrier /\ "release" \in Barrier
        /\ "ready" \in Barrier /\ "epi_write" \in Barrier /\ "epi_read" \in Barrier
    BY DEF Barrier
  <2>3. /\ \A v \in Waves : pc[v] \in Barrier \union {"exit"}
        /\ \E v \in Waves : pc[v] # "exit"
    BY DEF WgSync
  <2> QED BY <2>1, <2>2, <2>3, Meeting
<1>2. /\ pc'[w] = Resume(w) /\ tile_idx'[w] = t /\ UNCHANGED launch
      /\ n'[w] = IF b = "ready" THEN k + 1 ELSE k
  <2> HIDE DEF Resume
  <2> QED BY <1>1, Opening
<1>3. pc[w] = b /\ tile_idx[w] = t /\ n[w] = k
  BY <1>1 DEF MeetAt
<1> HIDE DEF Resume
<1> QED BY <1>2, <1>3, SameLaunch DEF LastTile, launch

\* Loads in flight at a barrier.
LEMMA WgSyncRing ==
  ASSUME DataInv, WgSync
  PROVE  RingOK'
<1>1. ASSUME NEW p \in Producer PROVE BaseOK(p)' /\ QueueOK(p)'
  <2> DEFINE b == base[p]
             k == n[p]
  <2>1. /\ p \in Waves /\ k \in Nat /\ BaseOK(p) /\ QueueOK(p) /\ b \in Nat
        /\ stages \in Nat \ {0} /\ NumIter \in Nat \ {0} /\ stages <= NumIter
        /\ vmq[p] \in Seq(LoadType)
    BY ProducerFacts
  <2>2. base' = base /\ vmq' = vmq /\ lds' = lds
    BY DEF WgSync
  <2>3. /\ pc[p] \in Barrier /\ pc'[p] = Resume(p) /\ tile_idx'[p] = tile_idx[p]
        /\ n'[p] = IF pc[p] = "ready" THEN k + 1 ELSE k
        /\ stages' = stages /\ NumIter' = NumIter
        /\ \A i : /\ IsTailLoop(i)' = IsTailLoop(i) /\ LastTile(i)' = LastTile(i)
                  /\ IsLastLoop(i)' = IsLastLoop(i)
    <3> HIDE DEF Resume
    <3> QED BY <2>1, Opened, ProducerFacts
  <2>4. ASSUME pc[p] \in LoopPoint, pc'[p] \in LoopPoint,
               Issued(p)' = Issued(p), Floor(p)' = Floor(p), Top(p)' = Top(p)
        PROVE  QueueOK(p)'
    BY <2>1, <2>2, <2>3, <2>4 DEF QueueOK
  <2>5. CASE pc[p] = "tile"
    <3>1. pc'[p] = "initial" /\ k = 0 /\ b = 0 /\ vmq[p] = <<>> /\ n'[p] = 0
      BY <2>1, <2>3, <2>5, ProducerFacts, IterationAt DEF Resume, BaseOK, QueueOK, LoopPoint
    <3>2. BaseOK(p)'
      BY <2>1, <2>2, <2>3, <3>1 DEF BaseOK
    <3>3. TileOrdered(vmq[p], Issued(p)', tile_idx[p], Floor(p)', Top(p)', stages)
      BY <3>1 DEF TileOrdered, Ordered, Each
    <3>4. Filled(vmq[p], lds, p, tile_idx[p], Top(p)', stages)
      <4>1. \A o \in Operand : Top(p)'[o] = -1
        BY <2>2, <3>1 DEF Top
      <4> QED BY <4>1 DEF Filled
    <3> QED BY <2>1, <2>2, <2>3, <3>1, <3>2, <3>3, <3>4 DEF QueueOK, TileQueue, LoopPoint
  <2>6. CASE pc[p] = "first"
    <3>1. pc'[p] = "release" /\ k = 0 /\ b = stages - 1 /\ n'[p] = 0
      BY <2>1, <2>3, <2>6, ProducerFacts, IterationAt DEF Resume, LoopStart, BaseOK
    <3>2. b = LastTile(0 + stages - 1)
      BY <2>1, <3>1 DEF LastTile
    <3>3. BaseOK(p)'
      BY <2>1, <2>2, <2>3, <3>1, <3>2 DEF BaseOK
    <3>4. Issued(p)' = Issued(p) /\ Floor(p)' = Floor(p) /\ Top(p)' = Top(p)
      BY <2>2, <2>3, <2>6, <3>1 DEF Issued, Floor, Top, Half
    <3> QED BY <2>4, <2>6, <3>1, <3>3, <3>4 DEF LoopPoint
  <2>7. CASE pc[p] = "release"
    <3>1. pc'[p] = "issue" /\ n'[p] = k
      BY <2>3, <2>7 DEF Resume
    <3>2. BaseOK(p)'
      BY <2>1, <2>2, <2>3, <2>7, <3>1 DEF BaseOK
    <3>3. Issued(p)' = Issued(p) /\ Floor(p)' = Floor(p) /\ Top(p)' = Top(p)
      BY <2>2, <2>3, <2>7, <3>1 DEF Issued, Floor, Top, Half
    <3> QED BY <2>4, <2>7, <3>1, <3>2, <3>3 DEF LoopPoint
  <2>8. CASE pc[p] = "ready"
    <3>1. n'[p] = k + 1 /\ b = LastTile(k + stages) /\ k \in 0 .. NumIter - 1
      BY <2>1, <2>3, <2>8, ProducerFacts, IterationAt DEF BaseOK
    <3>2. pc'[p] = IF stages > 1 /\ ~IsTailLoop(k) THEN "issue_rest"
                   ELSE IF IsLastLoop(k) THEN "epi_write" ELSE "release"
      BY <2>3, <2>8 DEF Resume, AfterReady, EpiStart, LoopStart
    <3>3. LastTile(k + stages) = LastTile((k + 1) + stages - 1)
      BY <2>1 DEF LastTile
    <3>4. BaseOK(p)'
      BY <2>1, <2>2, <2>3, <3>1, <3>2, <3>3 DEF BaseOK
    <3>5. CASE stages > 1 /\ ~IsTailLoop(k)
      <4>1. ~IsLastLoop(k)
        BY <2>1, <3>1, <3>5 DEF IsLastLoop, IsTailLoop
      <4>2. Half(p) /\ Half(p)' /\ pc'[p] = "issue_rest"
        BY <2>3, <2>8, <3>2, <3>5 DEF Half
      <4>3. Issued(p)' = Issued(p) /\ Top(p)' = Top(p)
        BY <2>2, <2>8, <4>2 DEF Issued, Top
      <4>4. Floor(p)' = Floor(p)
        BY <2>1, <2>3, <2>8, <3>1, <4>1, <4>2 DEF Floor
      <4> QED BY <2>4, <2>8, <3>4, <4>2, <4>3, <4>4 DEF LoopPoint
    <3>6. CASE ~(stages > 1 /\ ~IsTailLoop(k)) /\ IsLastLoop(k)
      <4>1. pc'[p] = "epi_write"
        BY <3>2, <3>6
      <4>2. Floor(p) = NumIter /\ \A o \in Operand : Top(p)[o] <= NumIter - 1
        BY <2>1, <2>8, <3>1, <3>6 DEF Floor, Top, IsLastLoop, BaseOK
      <4>3. TileOrdered(vmq[p], Issued(p), tile_idx[p], Floor(p), Top(p), stages)
            /\ Top(p) \in [Operand -> Int]
        BY <2>1, <2>8, ProducerFacts, Values DEF QueueOK, TileQueue, LoopPoint
      <4>4. \A j \in 1 .. Len(vmq[p]) : FALSE
        BY <2>1, <4>2, <4>3 DEF TileOrdered, Ordered, Each
      <4>5. vmq[p] = <<>>
        <5>1. Len(vmq[p]) \in Nat
          BY <2>1, LenProperties
        <5>2. Len(vmq[p]) = 0
          BY <4>4, <5>1
        <5> QED BY <2>1, <5>2, EmptySeq
      <4> QED BY <2>2, <3>4, <4>1, <4>5 DEF QueueOK, LoopPoint
    <3>7. CASE ~(stages > 1 /\ ~IsTailLoop(k)) /\ ~IsLastLoop(k)
      <4>1. pc'[p] = "release" /\ ~Half(p) /\ ~Half(p)'
        BY <2>3, <2>8, <3>2, <3>7 DEF Half
      <4>2. Issued(p)' = Issued(p) /\ Top(p)' = Top(p)
        BY <2>2, <2>8, <4>1 DEF Issued, Top
      <4>3. Floor(p)' = Floor(p)
        BY <2>1, <2>8, <3>1, <3>7, <4>1 DEF Floor
      <4> QED BY <2>4, <2>8, <3>4, <4>1, <4>2, <4>3 DEF LoopPoint
    <3> QED BY <3>5, <3>6, <3>7
  <2>9. CASE pc[p] \in {"epi_write", "epi_read"}
    <3>1. pc'[p] \in {"epi_write", "epi_read", "epi_end"} /\ n'[p] = k /\ vmq[p] = <<>>
      <4>1. pc'[p] \in {"epi_write", "epi_read", "epi_end"}
        BY <2>3, <2>9, Groups DEF Resume, AfterEpiRead
      <4> QED BY <2>1, <2>3, <2>9, <4>1 DEF QueueOK, LoopPoint
    <3>2. BaseOK(p)'
      BY <2>1, <2>2, <2>3, <3>1 DEF BaseOK
    <3> QED BY <2>2, <3>1, <3>2 DEF QueueOK, LoopPoint
  <2> QED BY <2>3, <2>5, <2>6, <2>7, <2>8, <2>9 DEF Barrier
<1> QED BY <1>1 DEF WgSync, DataInv, RingOK

\* What the compute waves have read at a barrier.
LEMMA WgSyncSums ==
  ASSUME DataInv, WgSync
  PROVE  SumsOK'
<1>1. ASSUME NEW c \in Compute PROVE ReadingOK(c)' /\ SumOK(c)'
  <2>1. /\ c \in Waves /\ c \notin Producer /\ StepInv /\ ReadingOK(c) /\ SumOK(c)
    BY Groups DEF DataInv, SumsOK
  <2>2. reading' = reading /\ acc' = acc
    BY DEF WgSync
  <2>3. /\ pc[c] \in Barrier /\ pc'[c] = Resume(c) /\ tile_idx'[c] = tile_idx[c]
        /\ n'[c] = IF pc[c] = "ready" THEN n[c] + 1 ELSE n[c]
        /\ stages' = stages /\ LoopStart(c)' = LoopStart(c) /\ n[c] \in Nat
    <3> HIDE DEF Resume
    <3> QED BY <2>1, Opened, IterationAt
  <2>4. LoopStart(c) \in {"read", "release"}
    BY DEF LoopStart
  <2>6. pc'[c] # "fence" /\ pc[c] # "fence"
    BY <2>1, <2>3, <2>4 DEF Barrier, Resume, AfterReady, AfterEpiRead, EpiStart
  <2>7. ReadingOK(c)'
    BY <2>1, <2>2, <2>6 DEF ReadingOK
  <2>8. n'[c] + (IF HasRead(c)' THEN 1 ELSE 0) = n[c] + (IF HasRead(c) THEN 1 ELSE 0)
    <3>1. CASE pc[c] = "ready"
      <4>1. ~HasRead(c)' /\ HasRead(c)
        BY <2>1, <2>3, <2>4, <3>1 DEF HasRead, Resume, AfterReady, EpiStart
      <4> QED BY <2>3, <3>1, <4>1
    <3>2. CASE pc[c] = "release"
      <4>1. HasRead(c)' = HasRead(c)
        BY <2>1, <2>3, <2>4, <3>2 DEF HasRead, Resume
      <4> QED BY <2>3, <3>2, <4>1
    <3>3. CASE pc[c] \in {"tile", "first"}
      <4>1. ~HasRead(c)' /\ ~HasRead(c)
        BY <2>1, <2>3, <2>4, <3>3 DEF HasRead, Resume
      <4> QED BY <2>3, <3>3, <4>1
    <3>4. CASE pc[c] \in {"epi_write", "epi_read"}
      <4>1. ~HasRead(c)' /\ ~HasRead(c)
        BY <2>1, <2>3, <3>4 DEF HasRead, Resume, AfterEpiRead
      <4> QED BY <2>3, <3>4, <4>1
    <3> QED BY <2>3, <3>1, <3>2, <3>3, <3>4 DEF Barrier
  <2>9. SumOK(c)'
    BY <2>1, <2>2, <2>3, <2>8 DEF SumOK
  <2> QED BY <2>7, <2>9
<1> QED BY <1>1 DEF WgSync, DataInv, SumsOK

\* No wave is in its region at a barrier.
LEMMA WgSyncRegions ==
  ASSUME DataInv, WgSync
  PROVE  RegionsOK'
<1>1. \A c \in Compute : pc[c] # "region_fence" /\ pc[c] # "store"
  BY Opened, Groups DEF Barrier, DataInv
<1> QED BY <1>1 DEF WgSync, DataInv, RegionsOK

(***************************************************************************)
(* The tile loop.                                                          *)
(***************************************************************************)
\* The next output tile: windows, iterations and sums from the start.
LEMMA NextTileData ==
  ASSUME DataInv, NEW w \in Waves, NextTile(w)
  PROVE  RingOK' /\ SumsOK' /\ RegionsOK'
<1> DEFINE next == tile_idx[w] + GridDim
<1>1. /\ pc[w] = "epi_end" /\ UNCHANGED <<launch, vmq, lds, reading, region, writing, loading, out>>
      /\ tile_idx' = [tile_idx EXCEPT ![w] = next]
      /\ pc' = [pc EXCEPT ![w] = TileEntry(w, next)]
      /\ n' = [n EXCEPT ![w] = 0] /\ epi' = [epi EXCEPT ![w] = 0]
      /\ base' = [p \in Producer |-> IF p = w THEN 0 ELSE base[p]]
      /\ acc' = [c \in Compute |-> IF c = w THEN <<>> ELSE acc[c]]
  BY DEF NextTile, Goto, SetWindowOrigin
<1>2. TileEntry(w, next) \in {"tile", "exit"}
  BY DEF TileEntry
<1>3. /\ pc'[w] \in {"tile", "exit"} /\ n'[w] = 0
      /\ \A v \in Waves \ {w} : UNCHANGED Place(v)
  BY <1>1, <1>2 DEF DataInv, StepInv, ControlOK, Place
<1>4. ASSUME NEW p \in Producer PROVE BaseOK(p)' /\ QueueOK(p)'
  <2>1. p \in Waves /\ BaseOK(p) /\ QueueOK(p) /\ StepInv /\ NumIter \in Nat \ {0}
    BY ProducerFacts
  <2>2. CASE p # w
    <3>1. base'[p] = base[p] /\ vmq'[p] = vmq[p] /\ lds' = lds /\ UNCHANGED launch
      BY <1>1, <2>2
    <3> QED BY <1>3, <2>1, <2>2, <3>1, ProducerStays
  <2>3. CASE p = w
    <3>1. base'[p] = 0 /\ vmq'[p] = <<>> /\ NumIter' = NumIter
      BY <1>1, <2>1, <2>3, SameLaunch DEF QueueOK, LoopPoint
    <3> QED BY <1>3, <2>1, <2>3, <3>1 DEF BaseOK, QueueOK, LoopPoint
  <2> QED BY <2>2, <2>3
<1>5. ASSUME NEW c \in Compute PROVE ReadingOK(c)' /\ SumOK(c)'
  <2>1. c \in Waves /\ ReadingOK(c) /\ SumOK(c) /\ StepInv
    BY Groups DEF DataInv, SumsOK
  <2>2. CASE c # w
    <3>1. reading'[c] = reading[c] /\ acc'[c] = acc[c] /\ UNCHANGED launch
      BY <1>1, <2>2
    <3> QED BY <1>3, <2>1, <2>2, <3>1, ComputeStays
  <2>3. CASE c = w
    <3>1. reading'[c] = {} /\ acc'[c] = <<>>
      BY <1>1, <2>1, <2>3 DEF ReadingOK
    <3> QED BY <1>3, <2>3, <3>1 DEF ReadingOK, SumOK, HasRead
  <2> QED BY <2>2, <2>3
<1>6. RingOK'
  <2>1. base' \in [Producer -> Nat]
    BY <1>1 DEF DataInv, RingOK
  <2> QED BY <1>1, <1>4, <2>1 DEF DataInv, RingOK
<1>7. SumsOK'
  <2>1. acc' \in [Compute -> Seq(TileType)]
    BY <1>1, EmptySeq DEF DataInv, SumsOK
  <2> QED BY <1>1, <1>5, <2>1 DEF DataInv, SumsOK
<1>8. RegionsOK'
  <2>1. \A c \in writing \union loading : c \in Waves /\ c # w
    BY <1>1, Groups DEF DataInv, RegionsOK
  <2> QED BY <1>1, <1>3, <2>1, RegionsStay DEF DataInv, Place
<1> QED BY <1>6, <1>7, <1>8

(***************************************************************************)
(* The compute waves' steps.                                               *)
(***************************************************************************)
\* What the invariant says of a compute wave.
LEMMA ComputeFacts ==
  ASSUME DataInv, NEW c \in Compute
  PROVE  /\ StepInv /\ ReadingOK(c) /\ SumOK(c) /\ acc[c] \in Seq(TileType)
         /\ reading \in [Compute -> SUBSET Slot] /\ acc \in [Compute -> Seq(TileType)]
         /\ c \in Waves /\ n[c] \in Nat /\ tile_idx[c] \in Nat
         /\ stages \in Nat \ {0} /\ stages \in 1 .. NumLdsStages
         /\ LoopStart(c) \in {"read", "release"}
<1>1. c \in Waves /\ StepInv /\ ReadingOK(c) /\ SumOK(c) /\ acc[c] \in Seq(TileType)
      /\ reading \in [Compute -> SUBSET Slot] /\ acc \in [Compute -> Seq(TileType)]
  BY Groups DEF DataInv, SumsOK
<1>2. LoopStart(c) \in {"read", "release"}
  BY DEF LoopStart
<1>3. stages \in 1 .. NumLdsStages
  BY DEF DataInv, StepInv, LaunchOK
<1> QED BY <1>1, <1>2, <1>3, IterationAt

\* Steps of a compute wave: what is to be shown of them.
LEMMA ComputeMoves ==
  ASSUME DataInv, NEW c \in Compute, \A v \in Waves \ {c} : UNCHANGED Place(v),
         UNCHANGED <<launch, base, vmq, lds>>,
         NEW s \in SUBSET Slot, reading' = [reading EXCEPT ![c] = s],
         NEW a \in Seq(TileType), acc' = [acc EXCEPT ![c] = a],
         ReadingOK(c)', SumOK(c)'
  PROVE  RingOK' /\ SumsOK'
<1>1. RingOK'
  <2>1. \A p \in Producer : UNCHANGED Place(p)
    BY Groups
  <2> QED BY <2>1, RingStays DEF DataInv
<1>2. \A v \in Compute \ {c} : v \in Waves /\ reading'[v] = reading[v] /\ acc'[v] = acc[v]
  BY Groups DEF DataInv, SumsOK
<1>3. \A v \in Compute \ {c} : ReadingOK(v)' /\ SumOK(v)'
  BY <1>2, ComputeStays DEF DataInv, SumsOK
<1>4. reading' \in [Compute -> SUBSET Slot] /\ acc' \in [Compute -> Seq(TileType)]
  BY DEF DataInv, SumsOK
<1> QED BY <1>1, <1>3, <1>4 DEF SumsOK

\* The ds read of an iteration's stage.
LEMMA ReadData ==
  ASSUME DataInv, NEW c \in Compute, Read(c)
  PROVE  RingOK' /\ SumsOK' /\ RegionsOK'
<1> DEFINE s == {<<"sh", LdsStage(n[c])>>, <<Private(c), LdsStage(n[c])>>}
<1>1. /\ pc[c] = "read" /\ reading' = [reading EXCEPT ![c] = s] /\ Goto(c, "fence")
      /\ UNCHANGED <<launch, n, tile_idx, base, vmq, lds, acc, epiVars>>
  BY DEF Read, ReadStage
<1>2. s \in SUBSET Slot
  <2>1. Private(c) \in Operand /\ "sh" \in Operand
    BY DEF Private, Operand
  <2> QED BY <2>1, SlotOf, ComputeFacts DEF LdsStage
<1>3. \A v \in Waves \ {c} : UNCHANGED Place(v)
  BY <1>1, ComputeFacts, GotoStep DEF epiVars, WavePoint
<1>4. /\ pc'[c] = "fence" /\ n' = n /\ tile_idx' = tile_idx /\ acc' = acc
      /\ stages' = stages /\ LoopStart(c)' = LoopStart(c) /\ reading'[c] = s
  BY <1>1, SameLaunch, ComputeFacts DEF Goto, StepInv, ControlOK
<1>5. ReadingOK(c)'
  BY <1>4 DEF ReadingOK, LdsStage
<1>6. SumOK(c)'
  BY <1>1, <1>4, ComputeFacts DEF SumOK, HasRead
<1>7. acc[c] \in Seq(TileType) /\ acc' = [acc EXCEPT ![c] = acc[c]]
  BY <1>1, ComputeFacts
<1>8. RingOK' /\ SumsOK'
  <2> HIDE DEF s
  <2> QED BY <1>1, <1>2, <1>3, <1>5, <1>6, <1>7, ComputeMoves
<1>9. \A v \in writing \union loading : v \in Waves \ {c}
  BY <1>1, Groups DEF DataInv, RegionsOK
<1>10. RegionsOK'
  BY <1>1, <1>3, <1>9, RegionsStay DEF DataInv, epiVars, Place
<1> QED BY <1>8, <1>10

\* Whenever a compute wave has reads outstanding, the stage that it reads holds
\* the K tile of its iteration, and nothing is on the way to it.
LEMMA StageHolds ==
  ASSUME DataInv, NEW c \in Compute, pc[c] = "fence", NEW p \in Producer,
         NEW o \in {"sh", Private(c)}
  PROVE  /\ ~OnTheWay(vmq[p], <<o, LdsStage(n[c])>>)
         /\ lds[<<o, LdsStage(n[c])>>][p] = Tile(tile_idx[c], n[c])
<1> DEFINE k == n[c]
<1>1. /\ c \in Waves /\ p \in Waves /\ c \notin Producer /\ StepInv
      /\ k \in 0 .. NumIter - 1 /\ k \in Nat
      /\ stages \in Nat \ {0} /\ NumIter \in Nat /\ stages <= NumIter
      /\ base[p] \in Nat /\ BaseOK(p) /\ QueueOK(p)
      /\ o \in Operand
  BY ComputeFacts, ProducerFacts, IterationAt, Groups DEF Private, Operand
<1>2. /\ n[p] = k /\ tile_idx[p] = tile_idx[c]
      /\ \/ pc[p] \in {"release", "issue_rest"}
         \/ /\ pc[p] \in {"ready", "issue", "await_next"}
            /\ o # "pr_major" /\ stages > 1
  <2>1. CASE \E t \in Nat, i \in Iteration : \A w \in Waves : AtRelease(w, t, i)
    <3>1. LoopStart(p) # "read"
      BY DEF LoopStart
    <3> QED BY <1>1, <2>1, <3>1 DEF AtRelease
  <2>2. CASE \E t \in Nat, i \in Iteration : \A w \in Waves : AtReady(w, t, i)
    <3>1. LoopStart(c) = "release"
      BY <1>1, <2>2 DEF AtReady
    <3>2. c \in Minor /\ c \notin Major /\ stages > 1
      BY <1>1, <3>1, Groups DEF LoopStart
    <3>3. o # "pr_major"
      BY <3>2 DEF Private
    <3>4. ~(pc[p] \in {"read", "fence"} /\ p \in Compute)
      BY Groups
    <3> QED BY <1>1, <2>2, <3>2, <3>3, <3>4 DEF AtReady
  <2> QED BY <1>1, <2>1, <2>2, Segments DEF StepInv, InStep
<1>3. pc[p] \in LoopPoint /\ Floor(p) >= k + 1
  BY <1>1, <1>2 DEF LoopPoint, Floor
<1>4. k <= Top(p)[o] /\ Top(p)[o] < k + stages
  <2>1. CASE pc[p] \in {"release", "issue"}
    <3>1. base[p] = LastTile(k + stages - 1) /\ Top(p)[o] = base[p]
      BY <1>1, <1>2, <2>1 DEF BaseOK, Top, Half
    <3> QED BY <1>1, <3>1 DEF LastTile
  <2>2. CASE pc[p] = "issue_rest"
    <3>1. /\ base[p] = LastTile(k + stages - 1) /\ stages > 1 /\ k > 0 /\ ~IsTailLoop(k - 1)
          /\ Top(p)[o] = IF o # "pr_major" THEN base[p] - 1 ELSE base[p]
      BY <1>1, <1>2, <2>2, IterationAt DEF BaseOK, Top, Half
    <3>2. k + stages - 1 < NumIter
      BY <1>1, <3>1 DEF IsTailLoop
    <3>3. base[p] = k + stages - 1
      BY <1>1, <3>1, <3>2 DEF LastTile
    <3> QED BY <1>1, <3>1, <3>3
  <2>3. CASE pc[p] \in {"await_next", "ready"} /\ stages > 1 /\ ~IsTailLoop(k)
    <3>1. base[p] = LastTile(k + stages) /\ Top(p)[o] = base[p] - 1
      BY <1>1, <1>2, <2>3 DEF BaseOK, Top, Half
    <3>2. base[p] = k + stages
      BY <1>1, <2>3, <3>1 DEF LastTile, IsTailLoop
    <3> QED BY <1>1, <3>1, <3>2
  <2>4. CASE pc[p] \in {"await_next", "ready"} /\ ~(stages > 1 /\ ~IsTailLoop(k))
    <3>1. base[p] = LastTile(k + stages) /\ Top(p)[o] = base[p]
      BY <1>1, <1>2, <2>4 DEF BaseOK, Top, Half
    <3>2. stages > 1
      BY <1>1, <1>2, <2>4
    <3>3. base[p] = NumIter - 1 /\ NumIter <= k + stages
      BY <1>1, <2>4, <3>1, <3>2 DEF LastTile, IsTailLoop
    <3> QED BY <1>1, <3>1, <3>3
  <2> QED BY <1>2, <2>1, <2>2, <2>3, <2>4
<1>5. TileQueue(vmq[p], lds, p, tile_idx[p], Issued(p), Floor(p), Top(p), stages)
  BY <1>1, <1>3 DEF QueueOK
<1>6. Holds(vmq[p], lds, p, tile_idx[p], stages, o, k)
  <2>1. Floor(p) \in Int /\ Top(p) \in [Operand -> Int] /\ k < Floor(p)
        /\ tile_idx[p] \in Nat
    BY <1>1, <1>3, Values
  <2> HIDE DEF k
  <2> QED BY <1>1, <1>4, <1>5, <2>1, TileQueueHolds
<1> QED BY <1>2, <1>6 DEF LdsStage, Holds

\* So the product is that of the iteration's K tile.
LEMMA ProductIsTile ==
  ASSUME DataInv, NEW c \in Compute, pc[c] = "fence"
  PROVE  Product(c) = Tile(tile_idx[c], n[c])
<1> DEFINE T == Tile(tile_idx[c], n[c])
           st == LdsStage(n[c])
<1>1. reading[c] = {<<"sh", st>>, <<Private(c), st>>}
  BY ComputeFacts DEF ReadingOK
<1>2. ASSUME NEW s \in reading[c] PROVE Content(s) = T
  <2>1. PICK o \in {"sh", Private(c)} : s = <<o, st>>
    BY <1>1, <1>2
  <2>2. \A p \in Producer : ~OnTheWay(vmq[p], s) /\ lds[s][p] = T
    BY <2>1, StageHolds
  <2>3. \A p \in Producer : ~InFlight(p, s)
    BY <2>2, SameFlight, ProducerFacts
  <2>4. TheOne({lds[s][p] : p \in Producer}) = T
    <3>1. lds[s][<<"producer", 1>>] \in {lds[s][p] : p \in Producer}
      BY SomeProducer
    <3> HIDE DEF T
    <3>2. \A y \in {lds[s][p] : p \in Producer} : y = T
      BY <2>2
    <3> QED BY <3>1, <3>2, SameOne
  <2> QED BY <2>3, <2>4 DEF Content
<1>3. /\ Content(<<"sh", st>>) \in {Content(s) : s \in reading[c]}
      /\ \A y \in {Content(s) : s \in reading[c]} : y = T
  BY <1>1, <1>2
<1>4. \A S, t : (\E x \in S : TRUE) /\ (\A y \in S : y = t) => TheOne(S) = t
  BY SameOne
<1> HIDE DEF T
<1>5. TheOne({Content(s) : s \in reading[c]}) = T
  BY <1>3, <1>4
<1> QED BY <1>5 DEF Product, T

\* The end of an iteration's read: its K tile is accumulated.
LEMMA FenceData ==
  ASSUME DataInv, NEW c \in Compute, Fence(c)
  PROVE  RingOK' /\ SumsOK' /\ RegionsOK'
<1> DEFINE T == Tile(tile_idx[c], n[c])
           to == IF LoopStart(c) = "release" THEN "ready" ELSE "release"
           a == Append(acc[c], T)
<1>1. /\ pc[c] = "fence" /\ acc' = [acc EXCEPT ![c] = a]
      /\ reading' = [reading EXCEPT ![c] = {}] /\ Goto(c, to)
      /\ UNCHANGED <<launch, n, tile_idx, base, vmq, lds, epiVars>>
  BY ProductIsTile DEF Fence
<1>2. /\ StepInv /\ c \in Waves /\ n[c] \in Nat /\ acc[c] \in Seq(TileType) /\ SumOK(c)
      /\ tile_idx[c] \in Nat /\ LoopStart(c) \in {"read", "release"}
      /\ acc \in [Compute -> Seq(TileType)]
  BY ComputeFacts
<1>3. T \in TileType
  BY <1>2 DEF Tile, TileType
<1>4. Len(acc[c]) = n[c] /\ \A i \in 1 .. Len(acc[c]) : acc[c][i] = Tile(tile_idx[c], i - 1)
  BY <1>1, <1>2 DEF SumOK, HasRead
<1>5. /\ a \in Seq(TileType) /\ Len(a) = n[c] + 1
      /\ \A i \in 1 .. Len(a) : a[i] = Tile(tile_idx[c], i - 1)
  <2> DEFINE s == acc[c]
  <2>1. s \in Seq(TileType) /\ Len(s) = n[c]
        /\ \A i \in 1 .. Len(s) : s[i] = Tile(tile_idx[c], i - 1)
    BY <1>2, <1>4
  <2> HIDE DEF s, T
  <2>2. /\ Append(s, T) \in Seq(TileType) /\ Len(Append(s, T)) = Len(s) + 1
        /\ \A i \in 1 .. Len(s) : Append(s, T)[i] = s[i]
        /\ Append(s, T)[Len(s) + 1] = T
    BY <1>3, <2>1, AppendProperties
  <2>3. \A i \in 1 .. Len(s) + 1 : Append(s, T)[i] = Tile(tile_idx[c], i - 1)
    <3>1. T = Tile(tile_idx[c], (n[c] + 1) - 1)
      BY <1>2 DEF T
    <3>2. \A i \in 1 .. Len(s) + 1 : i \in 1 .. Len(s) \/ i = Len(s) + 1
      BY <1>2, <2>1
    <3> QED BY <2>1, <2>2, <3>1, <3>2
  <2> QED BY <2>1, <2>2, <2>3 DEF s
<1> HIDE DEF a
<1>6. to \in Barrier \union WavePoint
  BY DEF Barrier
<1>7. pc'[c] = to /\ \A v \in Waves \ {c} : UNCHANGED Place(v)
  BY <1>1, <1>2, <1>6, GotoStep DEF epiVars
<1>8. /\ n' = n /\ tile_idx' = tile_idx /\ acc'[c] = a /\ reading'[c] = {}
      /\ LoopStart(c)' = LoopStart(c)
  BY <1>1, <1>2, SameLaunch, ComputeFacts
<1>9. ReadingOK(c)'
  BY <1>7, <1>8 DEF ReadingOK
<1>10. SumOK(c)'
  <2>1. HasRead(c)'
    BY <1>2, <1>7, <1>8 DEF HasRead
  <2> QED BY <1>5, <1>8, <2>1 DEF SumOK
<1>11. {} \in SUBSET Slot
  OBVIOUS
<1>12. RingOK' /\ SumsOK'
  BY <1>1, <1>5, <1>7, <1>9, <1>10, <1>11, ComputeMoves
<1>13. \A v \in writing \union loading : v \in Waves \ {c}
  BY <1>1, Groups DEF DataInv, RegionsOK
<1>14. RegionsOK'
  BY <1>1, <1>7, <1>13, RegionsStay DEF DataInv, epiVars, Place
<1> QED BY <1>12, <1>14

\* A compute wave's steps in the epilogue leave the ring and the sums alone.
LEMMA EpilogueStep ==
  ASSUME DataInv, NEW c \in Compute, \A v \in Waves \ {c} : UNCHANGED Place(v),
         UNCHANGED <<launch, pipeVars>>, pc[c] \in InEpilogue, pc'[c] \in InEpilogue
  PROVE  RingOK' /\ SumsOK'
<1>1. /\ UNCHANGED <<n, tile_idx, base, vmq, lds, reading, acc>>
      /\ reading' = [reading EXCEPT ![c] = reading[c]] /\ acc' = [acc EXCEPT ![c] = acc[c]]
      /\ reading[c] \in SUBSET Slot /\ acc[c] \in Seq(TileType)
      /\ ReadingOK(c) /\ SumOK(c)
  BY ComputeFacts DEF pipeVars
<1>2. ReadingOK(c)'
  BY <1>1 DEF ReadingOK, InEpilogue
<1>3. SumOK(c)'
  BY <1>1 DEF SumOK, HasRead, InEpilogue
<1> QED BY <1>1, <1>2, <1>3, ComputeMoves

\* What the regions hold, and a read of one returns.
LEMMA PartTypes ==
  ASSUME DataInv, NEW c \in Compute
  PROVE  Part(tile_idx[c], epi[c]) \in PartType /\ Shuffled(c) \in PartType
<1>1. tile_idx[c] \in Nat /\ epi[c] \in Nat
  BY Groups DEF DataInv, StepInv, ControlOK
<1>2. Team(c) \subseteq Compute
  BY Groups DEF Team
<1>3. \A S : S \subseteq PartType => TheOne(S) \in PartType
  BY DEF TheOne, PartType, NoTile, NoPart
<1>4. {region[v] : v \in Team(c)} \subseteq PartType
  BY <1>2 DEF DataInv, RegionsOK
<1>5. Shuffled(c) \in PartType
  BY <1>3, <1>4 DEF Shuffled, PartType
<1> QED BY <1>1, <1>5 DEF Part, PartType

\* The epilogue's steps.
LEMMA EpilogueData ==
  ASSUME DataInv, NEW c \in Compute,
         WriteRegion(c) \/ FenceRegion(c) \/ ReadRegion(c) \/ StoreOut(c)
  PROVE  RingOK' /\ SumsOK' /\ RegionsOK'
<1>1. /\ c \in Waves /\ StepInv /\ pc \in [Waves -> Barrier \union WavePoint]
      /\ epi \in [Waves -> Nat]
      /\ \A v \in writing : pc[v] = "region_fence" /\ v \in Waves
      /\ \A v \in loading : pc[v] = "store" /\ v \in Waves
      /\ region \in [Compute -> PartType] /\ out \in [Compute -> Seq(PartType)]
      /\ writing \subseteq Compute /\ loading \subseteq Compute
  BY Groups DEF DataInv, StepInv, ControlOK, RegionsOK
<1>2. UNCHANGED <<launch, pipeVars>>
  BY DEF WriteRegion, FenceRegion, ReadRegion, StoreOut
<1>3. PICK to : pc' = [pc EXCEPT ![c] = to] /\ to \in InEpilogue /\ pc[c] \in InEpilogue
  BY DEF WriteRegion, FenceRegion, ReadRegion, StoreOut, Goto, InEpilogue
<1>4. epi' = epi \/ epi' = [epi EXCEPT ![c] = epi[c] + 1]
  BY DEF WriteRegion, FenceRegion, ReadRegion, StoreOut
<1>5. \A v \in Waves \ {c} : UNCHANGED Place(v)
  BY <1>1, <1>2, <1>3, <1>4 DEF Place, pipeVars
<1>6. RingOK' /\ SumsOK'
  BY <1>1, <1>2, <1>3, <1>5, EpilogueStep
<1>7. \A v \in Waves \ {c} : pc'[v] = pc[v]
  BY <1>5 DEF Place
<1>8. CASE WriteRegion(c)
  <2>1. pc'[c] = "region_fence" /\ writing' = writing \union {c} /\ pc[c] = "region_write"
        /\ UNCHANGED <<region, loading, out>>
    BY <1>1, <1>8 DEF WriteRegion, Goto
  <2> QED BY <1>1, <1>6, <1>7, <2>1 DEF RegionsOK
<1>9. CASE FenceRegion(c)
  <2>1. writing' = writing \ {c} /\ pc[c] = "region_fence"
        /\ region' = [region EXCEPT ![c] = Part(tile_idx[c], epi[c])]
        /\ UNCHANGED <<loading, out>>
    BY <1>9 DEF FenceRegion
  <2>2. region' \in [Compute -> PartType]
    BY <1>1, <2>1, PartTypes
  <2> QED BY <1>1, <1>6, <1>7, <2>1, <2>2 DEF RegionsOK
<1>10. CASE ReadRegion(c)
  <2>1. pc'[c] = "store" /\ loading' = loading \union {c} /\ pc[c] = "region_read"
        /\ UNCHANGED <<region, writing, out>>
    BY <1>1, <1>10 DEF ReadRegion, Goto
  <2> QED BY <1>1, <1>6, <1>7, <2>1 DEF RegionsOK
<1>11. CASE StoreOut(c)
  <2>1. loading' = loading \ {c} /\ pc[c] = "store"
        /\ out' = [out EXCEPT ![c] = Append(out[c], Shuffled(c))]
        /\ UNCHANGED <<region, writing>>
    BY <1>11 DEF StoreOut
  <2>2. out' \in [Compute -> Seq(PartType)]
    <3>1. Append(out[c], Shuffled(c)) \in Seq(PartType)
      BY <1>1, PartTypes, AppendProperties
    <3> QED BY <1>1, <2>1, <3>1
  <2> QED BY <1>1, <1>6, <1>7, <2>1, <2>2 DEF RegionsOK
<1> QED BY <1>8, <1>9, <1>10, <1>11

(***************************************************************************)
(* The invariant.                                                          *)
(***************************************************************************)
\* No load is in flight, and nothing read, when the kernel starts.
LEMMA DataInit == Init => DataInv
<1> SUFFICES ASSUME Init PROVE DataInv
  OBVIOUS
<1>1. StepInv
  BY StepInit
<1>2. NumIter \in Nat \ {0}
  BY <1>1, Iterations DEF StepInv
<1>3. \A w \in Waves : pc[w] \in {"tile", "exit"} /\ n[w] = 0
  BY DEF Init, TileEntry
<1>4. RingOK
  <2>1. \A p \in Producer : base[p] = 0 /\ vmq[p] = <<>> /\ p \in Waves
    BY Groups DEF Init, StagesInit
  <2>2. \A p \in Producer : BaseOK(p) /\ QueueOK(p)
    BY <1>2, <1>3, <2>1 DEF BaseOK, QueueOK, LoopPoint
  <2>3. /\ base \in [Producer -> Nat] /\ vmq \in [Producer -> Seq(LoadType)]
        /\ lds \in [Slot -> [Producer -> TileType]]
    BY EmptySeq DEF Init, StagesInit, TileType
  <2> QED BY <2>2, <2>3 DEF RingOK
<1>5. SumsOK
  <2>1. \A c \in Compute : reading[c] = {} /\ acc[c] = <<>> /\ c \in Waves
    BY Groups DEF Init, StagesInit
  <2>2. ASSUME NEW c \in Compute PROVE ReadingOK(c) /\ SumOK(c)
    <3>1. reading[c] = {} /\ acc[c] = <<>> /\ pc[c] \in {"tile", "exit"} /\ n[c] = 0
      BY <1>3, <2>1
    <3>2. ~HasRead(c)
      BY <3>1 DEF HasRead
    <3>3. Len(acc[c]) = 0
      BY <3>1
    <3>4. SumOK(c)
      BY <3>1, <3>2, <3>3 DEF SumOK
    <3> QED BY <3>1, <3>4 DEF ReadingOK
  <2>3. reading \in [Compute -> SUBSET Slot] /\ acc \in [Compute -> Seq(TileType)]
    BY EmptySeq DEF Init, StagesInit
  <2> QED BY <2>2, <2>3 DEF SumsOK
<1>6. RegionsOK
  BY EmptySeq DEF Init, RegionsOK, PartType
<1> QED BY <1>1, <1>4, <1>5, <1>6 DEF DataInv

\* Every step preserves the invariant, one case per action.
LEMMA DataNext == DataInv /\ [Next]_vars => DataInv'
<1> SUFFICES ASSUME DataInv, [Next]_vars PROVE DataInv'
  OBVIOUS
<1>1. StepInv'
  BY StepNext DEF DataInv
<1>2. CASE UNCHANGED vars
  <2>1. UNCHANGED <<launch, pc, n, tile_idx, base, vmq, lds, reading, acc, epiVars>>
    BY <1>2 DEF vars, pipeVars
  <2>2. \A w : UNCHANGED Place(w)
    BY <2>1 DEF Place, epiVars
  <2>3. RegionsOK'
    BY <2>1, RegionsStay DEF DataInv, epiVars
  <2> QED BY <1>1, <2>1, <2>2, <2>3, RingStays, SumsStay DEF DataInv
<1>3. ASSUME NEW p \in Producer, ProducerStep(p) PROVE DataInv'
  BY <1>1, <1>3, IssueInitialData, AwaitFirstData, IssueData, AwaitNextData, IssueRestData
     DEF ProducerStep, DataInv
<1>4. ASSUME NEW p \in Producer, Land(p) PROVE DataInv'
  BY <1>1, <1>4, LandData DEF DataInv
<1>5. ASSUME NEW c \in Compute, ComputeStep(c) PROVE DataInv'
  BY <1>1, <1>5, ReadData, FenceData, EpilogueData DEF ComputeStep, DataInv
<1>6. ASSUME NEW w \in Waves, NextTile(w) PROVE DataInv'
  BY <1>1, <1>6, NextTileData DEF DataInv
<1>7. CASE WgSync
  BY <1>1, <1>7, WgSyncRing, WgSyncSums, WgSyncRegions DEF DataInv
<1>8. CASE Exited
  BY <1>2, <1>8 DEF Exited
<1> QED BY <1>2, <1>3, <1>4, <1>5, <1>6, <1>7, <1>8 DEF Next

\* The invariant holds in every reachable state.
LEMMA DataInvariance == Spec => []DataInv
BY DataInit, DataNext, PTL DEF Spec

(***************************************************************************)
(* The theorems.                                                           *)
(***************************************************************************)
\* The variables keep their types: no wave counts more iterations than the
\* problem has K tiles, more parts than the epilogue has, or moves its windows
\* beyond the last K tile.
THEOREM TypesOfWaves == Spec => []TypeOK
<1>1. DataInv => TypeOK
  <2> SUFFICES ASSUME DataInv PROVE TypeOK
    OBVIOUS
  <2>1. StepInv /\ LaunchOK /\ ControlOK
    BY DEF DataInv, StepInv
  <2>2. NumIter = num_loop /\ NumIter \in Nat \ {0} /\ stages <= NumIter /\ stages \in Nat
    BY <2>1, Iterations
  <2>3. \A w \in Waves : n[w] \in 0 .. NumIter /\ epi[w] \in 0 .. EpiLoop
    <3> SUFFICES ASSUME NEW w \in Waves
                 PROVE  n[w] \in 0 .. NumIter /\ epi[w] \in 0 .. EpiLoop
      OBVIOUS
    <3>1. n[w] \in Nat /\ epi[w] \in Nat
      BY <2>1 DEF ControlOK
    <3>2. CASE \E t \in Nat : AtTile(w, t)
      BY <2>2, <3>1, <3>2, EpiLength DEF AtTile
    <3>3. CASE \E t \in Nat : AtFirst(w, t)
      BY <2>2, <3>1, <3>3, EpiLength DEF AtFirst
    <3>4. CASE \E t \in Nat, k \in Iteration : AtRelease(w, t, k) \/ AtReady(w, t, k)
      BY <2>2, <3>1, <3>4, EpiLength DEF AtRelease, AtReady, Iteration
    <3>5. CASE \E t \in Nat, e \in EpiIteration : AtEpiWrite(w, t, e) \/ AtEpiRead(w, t, e)
      BY <2>2, <3>1, <3>5, EpiLength DEF AtEpiWrite, AtEpiRead, EpiIteration
    <3> QED BY <2>1, <3>2, <3>3, <3>4, <3>5, Somewhere
  <2>4. base \in [Producer -> 0 .. num_loop - 1]
    BY <2>2 DEF DataInv, RingOK, BaseOK
  <2>5. /\ n \in [Waves -> 0 .. NumIter] /\ epi \in [Waves -> 0 .. EpiLoop]
    BY <2>1, <2>3 DEF ControlOK
  <2> QED BY <2>1, <2>2, <2>4, <2>5
          DEF DataInv, RingOK, SumsOK, RegionsOK, LaunchOK, ControlOK, TypeOK, LoadType,
              TileType, PartType
<1> QED BY <1>1, DataInvariance, PTL

\* While a compute wave reads a stage, no load is on its way to it: the waits
\* of the producer waves and the two barriers of an iteration are enough, in
\* rings of one stage and of more, in the loop and in its tail.
THEOREM ReadsMeetNoLoad == Spec => []NoLdsRace
<1>1. DataInv => NoLdsRace
  <2> SUFFICES ASSUME DataInv, NEW c \in Compute, NEW p \in Producer, NEW s \in reading[c]
               PROVE  ~InFlight(p, s)
    BY DEF NoLdsRace
  <2>1. ReadingOK(c)
    BY ComputeFacts
  <2>2. pc[c] = "fence" /\ \E o \in {"sh", Private(c)} : s = <<o, LdsStage(n[c])>>
    BY <2>1 DEF ReadingOK
  <2>3. ~OnTheWay(vmq[p], s)
    BY <2>2, StageHolds
  <2> QED BY <2>3, SameFlight, ProducerFacts
<1> QED BY <1>1, DataInvariance, PTL

\* While a compute wave accesses its epilogue region, which lies in the LDS of
\* the ring, no load is in flight and no stage is being read.
THEOREM RegionsMeetNoRing == Spec => []LdsHandover
<1>1. DataInv => LdsHandover
  <2> SUFFICES ASSUME DataInv, NEW d \in writing \union loading
               PROVE  /\ \A p \in Producer : vmq[p] = <<>>
                      /\ \A c \in Compute : reading[c] = {}
    BY DEF LdsHandover
  <2>1. d \in Waves /\ pc[d] \in {"region_fence", "store"} /\ StepInv
    BY Groups DEF DataInv, RegionsOK
  <2>2. \A w \in Waves : pc[w] \notin LoopPoint /\ pc[w] # "fence"
    <3>1. CASE \E t \in Nat : \A w \in Waves : AtTile(w, t)
      BY <3>1, Segments DEF LoopPoint
    <3>2. CASE \E t \in Nat, e \in EpiIteration : \A w \in Waves : AtEpiWrite(w, t, e)
      BY <3>2, Segments DEF LoopPoint
    <3>3. CASE \E t \in Nat, e \in EpiIteration : \A w \in Waves : AtEpiRead(w, t, e)
      BY <3>3, Segments DEF LoopPoint
    <3> QED BY <2>1, <3>1, <3>2, <3>3, Segments DEF StepInv, InStep
  <2>3. ASSUME NEW p \in Producer PROVE vmq[p] = <<>>
    BY <2>2, ProducerFacts DEF QueueOK
  <2>4. ASSUME NEW c \in Compute PROVE reading[c] = {}
    BY <2>2, ComputeFacts DEF ReadingOK
  <2> QED BY <2>3, <2>4
<1> QED BY <1>1, DataInvariance, PTL

\* A compute wave enters the epilogue with exactly the num_loop K tiles of its
\* own output tile accumulated, each once and in order.
THEOREM SumsAreOfTheirTiles == Spec => []SumIsOfTile
<1>1. DataInv => SumIsOfTile
  <2> SUFFICES ASSUME DataInv, NEW c \in Compute, pc[c] \in InEpilogue
               PROVE  acc[c] = [k \in 1 .. num_loop |-> Tile(tile_idx[c], k - 1)]
    BY DEF SumIsOfTile
  <2>1. n[c] = num_loop /\ num_loop \in Nat
    BY ComputeFacts, IterationAt, Iterations DEF StepInv
  <2>2. ~HasRead(c)
    BY DEF HasRead, InEpilogue
  <2>3. /\ Len(acc[c]) = num_loop /\ acc[c] \in Seq(TileType)
        /\ \A i \in 1 .. num_loop : acc[c][i] = Tile(tile_idx[c], i - 1)
    BY <2>1, <2>2, ComputeFacts DEF SumOK
  <2>4. acc[c] \in [1 .. num_loop -> TileType]
    BY <2>3, LenProperties
  <2> QED BY <2>3, <2>4
<1> QED BY <1>1, DataInvariance, PTL
=============================================================================
