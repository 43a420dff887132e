--------------------------- MODULE TlsWasp_proofs ---------------------------
(***************************************************************************)
(* Theorems about the work group of the TLS kernels, for every number of   *)
(* waves, stages, filter taps, K tiles and load instructions: about its    *)
(* pipeline (the specification Spec of TlsWaspPipeline) and then, for      *)
(* every number of output tiles, epilogue parts and operand loads, every   *)
(* block and every grid, about the persistent kernel that runs it tile     *)
(* after tile (PSpec of TlsWaspPersistent).                                *)
(***************************************************************************)
EXTENDS TlsWaspPersistent, LdsStages_proofs, FiniteSetTheorems, WellFoundedInduction

(***************************************************************************)
(* Division with remainder by a variable divisor.                          *)
(***************************************************************************)
\* A common divisor of a number and its summand does not see the summand.
LEMMA PlusMultiple ==
  ASSUME NEW a \in Nat, NEW d \in Nat \ {0}, NEW m \in Nat
  PROVE  (d * m + a) % d = a % d
<1> DEFINE q == a \div d
           r == a % d
<1>1. q \in Nat /\ r \in 0 .. d - 1 /\ a = d * q + r
  BY DivMod
<1> HIDE DEF q, r
<1>2. d * m + a = d * (m + q) + r
  BY <1>1
<1>3. (d * (m + q) + r) % d = r
  <2>1. m + q \in Nat
    BY <1>1
  <2> QED BY <1>1, <2>1, DivModUnique
<1> QED BY <1>2, <1>3 DEF r

\* A quotient steps on where the remainder is 0 again.
LEMMA DivStep ==
  ASSUME NEW a \in Nat, NEW d \in Nat \ {0}
  PROVE  /\ (a + 1) \div d = IF (a + 1) % d = 0 THEN (a \div d) + 1 ELSE a \div d
         /\ (a + 1) % d = ((a % d) + 1) % d
<1> DEFINE q == a \div d
           r == a % d
<1>1. q \in Nat /\ r \in 0 .. d - 1 /\ a = d * q + r
  BY DivMod
<1> HIDE DEF q, r
<1>2. CASE r + 1 < d
  <2>1. r + 1 \in 0 .. d - 1 /\ a + 1 = d * q + (r + 1) /\ r + 1 # 0
    BY <1>1, <1>2
  <2>2. (a + 1) \div d = q /\ (a + 1) % d = r + 1
    BY <1>1, <2>1, DivModUnique
  <2>3. (r + 1) % d = r + 1
    BY <2>1, SmallMod
  <2> QED BY <2>1, <2>2, <2>3 DEF q, r
<1>3. CASE ~(r + 1 < d)
  <2>1. r + 1 = d
    BY <1>1, <1>3
  <2>2. a + 1 = d * (q + 1) + 0
    BY <1>1, <2>1
  <2>3. (a + 1) \div d = q + 1 /\ (a + 1) % d = 0
    <3> DEFINE q1 == q + 1
    <3>1. q1 \in Nat /\ 0 \in 0 .. d - 1 /\ a + 1 = d * q1 + 0
      BY <1>1, <2>2
    <3> HIDE DEF q1
    <3>2. (d * q1 + 0) \div d = q1 /\ (d * q1 + 0) % d = 0
      BY <3>1, DivModUnique
    <3>3. (a + 1) \div d = q1 /\ (a + 1) % d = 0
      BY <3>1, <3>2
    <3> QED BY <3>3 DEF q1
  <2>4. d = d * 1 + 0 /\ 1 \in Nat /\ 0 \in 0 .. d - 1
    OBVIOUS
  <2>5. d % d = 0
    BY <2>4, DivModUnique
  <2> QED BY <2>1, <2>3, <2>5 DEF q, r
<1> QED BY <1>2, <1>3

(***************************************************************************)
(* Induction over the natural numbers, on sets.                            *)
(***************************************************************************)
NatLess == OpToRel(<, Nat)

\* A set of natural numbers that is not empty has a least element.
LEMMA LeastOf ==
  ASSUME NEW S, S \subseteq Nat, S # {}
  PROVE  \E m \in S : \A k \in S : m <= k
<1>1. IsWellFoundedOn(NatLess, Nat)
  BY NatLessThanWellFounded DEF NatLess
<1> HIDE DEF NatLess
<1>2. PICK m \in S : \A k \in S : ~(<<k, m>> \in NatLess)
  BY <1>1, WFMin
<1>3. \A k \in S : k < m => <<k, m>> \in NatLess
  BY DEF NatLess, OpToRel
<1>4. \A k \in S : ~(k < m)
  BY <1>2, <1>3
<1> QED BY <1>4

\* One that is bounded has a greatest.
LEMMA GreatestOf ==
  ASSUME NEW top \in Nat, NEW S, S \subseteq 0 .. top, S # {}
  PROVE  \E m \in S : \A k \in S : k <= m
<1> DEFINE D == {d \in 0 .. top : top - d \in S}
<1>1. D \subseteq Nat /\ D # {}
  <2>1. PICK k \in S : k \in 0 .. top
    OBVIOUS
  <2>2. top - k \in 0 .. top /\ top - (top - k) = k
    BY <2>1
  <2>3. top - k \in D
    BY <2>1, <2>2
  <2>4. D \subseteq Nat
    OBVIOUS
  <2> QED BY <2>3, <2>4
<1>2. PICK d \in D : \A e \in D : d <= e
  BY <1>1, LeastOf
<1>3. ASSUME NEW k \in S PROVE k <= top - d
  <2>1. top - k \in 0 .. top /\ top - (top - k) = k
    OBVIOUS
  <2>2. top - k \in D
    BY <2>1
  <2>3. d <= top - k /\ d \in 0 .. top
    BY <1>2, <2>2
  <2> QED BY <2>3
<1>4. top - d \in S
  BY <1>2
<1> QED BY <1>3, <1>4

(***************************************************************************)
(* The pipeline's types.                                                   *)
(***************************************************************************)
\* The initial loads go to stages of the ring.
InitialStages ==
  \A p \in Producer :
    /\ pc[p] = "entry" => n[p] = 0
    /\ pc[p] = "initial" => n[p] \in Stage

TypeInv == TypeOK /\ InitialStages

(***************************************************************************)
(* What the operators of the model return.                                 *)
(***************************************************************************)
EbarSlot == [expected : Nat, pending : Nat, waiting : SUBSET Waves]

\* The barrier counts of the constructor are numbers.
LEMMA WvCntType == \A b \in Ebar : WvCnt(b) \in Nat
BY StagesAssumption DEF WvCnt

\* An arrival, stalling or not, leaves a well-formed slot.
LEMMA ArrivalType ==
  ASSUME NEW slot \in EbarSlot, NEW cnt \in Nat, NEW stalls \in SUBSET Waves
  PROVE  Arrival(slot, cnt, stalls) \in EbarSlot
BY DEF Arrival, FreeSlot, EbarSlot

\* arrive() and sync() of a barrier keep all slots well-formed.
LEMMA EbarTypes ==
  ASSUME TypeOK, NEW b \in Ebar, NEW w \in Waves, arrive(b) \/ sync(b, w)
  PROVE  ebar' \in [Ebar -> EbarSlot]
<1>1. /\ ebar \in [Ebar -> EbarSlot]
      /\ ebar[b] \in EbarSlot
      /\ WvCnt(b) \in Nat
  BY WvCntType DEF TypeOK, EbarSlot
<1>2. /\ Arrival(ebar[b], WvCnt(b), {}) \in EbarSlot
      /\ Arrival(ebar[b], WvCnt(b), {w}) \in EbarSlot
  BY <1>1, ArrivalType
<1> QED BY <1>1, <1>2 DEF arrive, sync, EbarArrive, EbarSync

\* The stage of an iteration is a stage of the ring, and a tap is a tap.
LEMMA StageType ==
  ASSUME NEW k \in Nat
  PROVE  LdsStage(k) \in Stage /\ SampIdx(k) \in Nat /\ LoopUnroll \in Nat \ {0}
<1>1. LoopUnroll \in Nat \ {0}
  BY StagesAssumption, ShapeAssumption DEF LoopUnroll
<1>2. k % LoopUnroll \in Nat /\ k % NumLdsStages \in Stage
  BY <1>1, StagesAssumption DEF Stage
<1>3. ((k % LoopUnroll) + NumLdsStages) % FilterUnroll \in Nat
  BY <1>2, StagesAssumption, ShapeAssumption
<1> QED BY <1>1, <1>2, <1>3 DEF LdsStage, SampIdx

\* The load instructions of a tile are loads to slots of the ring.
LEMMA LoadsType ==
  ASSUME TypeOK, NEW o \in Operand, NEW stage \in Stage, NEW p \in Producer,
         NEW samp_idx \in Nat, NEW offset \in Nat
  PROVE  Loads(o, stage, p, samp_idx, offset) \in Seq(LoadType)
<1>1. IssueCnt[o] \in Nat
  BY StagesAssumption
<1>2. tile_idx[p] \in Nat
  BY DEF TypeOK, Waves
<1>3. offset * FilterUnroll + samp_idx \in Nat
  BY StagesAssumption, ShapeAssumption
<1>4. <<tile_idx[p], offset * FilterUnroll + samp_idx>> \in Nat \X Nat
  BY <1>2, <1>3
<1>5. <<o, stage>> \in Slot
  BY DEF Slot
<1>6. Loads(o, stage, p, samp_idx, offset) \in [1 .. IssueCnt[o] -> LoadType]
  BY <1>4, <1>5 DEF Loads, LoadsInto, LoadType, Tile
<1> QED BY <1>1, <1>6

\* A window that advances keeps a channel offset.
LEMMA AdvancedType ==
  ASSUME NEW offset \in Nat, NEW s \in Nat
  PROVE  Advanced(offset, s) \in Nat
BY DEF Advanced

\* What a compute wave reads is a K tile or no tile.
LEMMA ProductType ==
  ASSUME TypeOK, NEW c \in Compute
  PROVE  Product(c) \in TileType
<1>1. \A tiles : tiles \subseteq TileType => TheOne(tiles) \in TileType
  BY DEF TheOne, TileType
<1>2. \A s \in Slot : {lds[s][p] : p \in Producer} \subseteq TileType
  BY DEF TypeOK, TileType
<1>3. \A s \in Slot : Content(s) \in TileType
  BY <1>1, <1>2 DEF Content, TileType
<1>4. {Content(s) : s \in reading[c]} \subseteq TileType
  BY <1>3 DEF TypeOK
<1> QED BY <1>1, <1>4 DEF Product

(***************************************************************************)
(* Type correctness.                                                       *)
(***************************************************************************)

\* A wave that goes on to a point other than the two before the loop.
LEMMA GotoType ==
  ASSUME TypeInv, NEW w \in Waves, NEW point \in Point \ {"entry", "initial"},
         Goto(w, point), UNCHANGED n
  PROVE  pc' \in [Waves -> Point] /\ InitialStages'
BY DEF TypeInv, TypeOK, InitialStages, Goto, Stage, Waves

\* Steps of a wave that leave everything but pc and the barriers alone.
LEMMA BarrierStepType ==
  ASSUME TypeInv, NEW w \in Waves, NEW b \in Ebar, arrive(b) \/ sync(b, w),
         NEW point \in Point \ {"entry", "initial"}, Goto(w, point),
         UNCHANGED <<n, tile_idx, coffset, vmq, lds, reading>>,
         acc' \in [Compute -> Seq(TileType)]
  PROVE  TypeInv'
<1>1. ebar' \in [Ebar -> EbarSlot]
  BY EbarTypes DEF TypeInv
<1>2. pc' \in [Waves -> Point] /\ InitialStages'
  BY GotoType
<1> QED BY <1>1, <1>2 DEF TypeInv, TypeOK, EbarSlot, TileType

\* The initial states are well typed.
LEMMA TypeInit == Init => TypeInv
BY StagesAssumption, ShapeAssumption
   DEF Init, StartOf, StagesInit, TypeInv, TypeOK, InitialStages, Point,
   FreeSlot, Waves, Compute

\* The points that follow the loads of an iteration.
LEMMA PointAfterIssue == \A k : AfterIssue(k) \in {"tg", "load_sh"}
BY DEF AfterIssue

\* The points that follow the product of an iteration.
LEMMA PointAfterProduct == \A c : AfterProduct(c) \in {"tg", "load_sh"}
BY DEF AfterProduct

\* Producer waves.
LEMMA ProducerType ==
  ASSUME TypeInv, NEW p \in Producer, ProducerStep(p)
  PROVE  TypeInv'
<1> USE DEF At
<1>0. /\ p \in Waves /\ n[p] \in Nat /\ coffset[p] \in Nat
      /\ vmq \in [Producer -> Seq(LoadType)]
      /\ acc \in [Compute -> Seq(TileType)]
  BY DEF Waves, TypeInv, TypeOK, LoadType, TileType
<1>1. CASE IssueInitial(p)
  <2> DEFINE load(o) == Loads(o, n[p], p, n[p] % FilterUnroll, coffset[p])
  <2>1. n[p] \in Stage /\ n[p] % FilterUnroll \in Nat
    BY <1>0, <1>1, StagesAssumption, ShapeAssumption DEF TypeInv, InitialStages, IssueInitial
  <2>2. load("sh") \in Seq(LoadType) /\ load("pr_major") \in Seq(LoadType)
        /\ load("pr_minor") \in Seq(LoadType)
    BY <1>0, <2>1, LoadsType DEF TypeInv, Operand
  <2>3. vmq[p] \o load("sh") \o load("pr_major") \o load("pr_minor") \in Seq(LoadType)
    BY <1>0, <2>2
  <2>4. vmq' \in [Producer -> Seq(LoadType)]
    BY <1>0, <1>1, <2>3 DEF IssueInitial
  <2>5. Advanced(coffset[p], (n[p] % FilterUnroll) + 1) \in Nat
    <3>1. (n[p] % FilterUnroll) + 1 \in Nat
      BY <2>1
    <3> QED BY <1>0, <3>1, AdvancedType
  <2>6. \/ /\ n[p] < NumLdsStages - 1
           /\ coffset' = [coffset EXCEPT ![p] = Advanced(@, (n[p] % FilterUnroll) + 1)]
           /\ n' = [n EXCEPT ![p] = n[p] + 1]
           /\ pc' = pc
        \/ /\ n' = [n EXCEPT ![p] = 0]
           /\ pc' = [pc EXCEPT ![p] = "first_sh"]
           /\ coffset' = coffset
    BY <1>1 DEF IssueInitial, Goto
  <2>7. coffset' \in [Producer -> Nat]
    BY <2>5, <2>6 DEF TypeInv, TypeOK
  <2>8. n[p] < NumLdsStages - 1 => n[p] + 1 \in Stage
    BY <1>0, StagesAssumption DEF Stage
  <2>9. n' \in [Waves -> Nat] /\ pc' \in [Waves -> Point]
    <3>1. n[p] + 1 \in Nat /\ 0 \in Nat /\ "first_sh" \in Point
      BY <1>0 DEF Point
    <3>2. n \in [Waves -> Nat] /\ pc \in [Waves -> Point]
      BY DEF TypeInv, TypeOK
    <3> QED BY <2>6, <3>1, <3>2
  <2>10. pc[p] = "initial"
    BY <1>1 DEF IssueInitial
  <2>11. InitialStages'
    BY <1>0, <2>6, <2>8, <2>10 DEF TypeInv, TypeOK, InitialStages, Waves, Stage
  <2> QED BY <1>1, <2>4, <2>7, <2>9, <2>11 DEF IssueInitial, TypeInv, TypeOK, LoadType
<1>2. CASE NotifyFirstSh(p)
  BY <1>0, <1>2, BarrierStepType DEF NotifyFirstSh, Ebar, Point
<1>3. CASE NotifyFirstPrMajor(p)
  BY <1>0, <1>3, BarrierStepType DEF NotifyFirstPrMajor, Ebar, Point
<1>4. CASE NotifyPrMinor(p)
  <2>1. \E point \in Point \ {"entry", "initial"} : Goto(p, point)
    BY <1>4, PointAfterIssue DEF NotifyPrMinor, Point
  <2> QED BY <1>0, <1>4, <2>1, BarrierStepType DEF NotifyPrMinor, Ebar
<1>5. CASE AwaitFreeSh(p)
  BY <1>0, <1>5, BarrierStepType DEF AwaitFreeSh, Ebar, Point
<1>6. CASE AwaitFreePrMajor(p)
  BY <1>0, <1>6, BarrierStepType DEF AwaitFreePrMajor, Ebar, Point
<1>7. CASE IssueShPrMajor(p)
  <2> DEFINE offset == Advanced(coffset[p], SampIdx(n[p]))
             load(o) == Loads(o, LdsStage(n[p]), p, SampIdx(n[p]), offset)
  <2>1. offset \in Nat
    BY <1>0, StageType, AdvancedType
  <2>2. load("sh") \in Seq(LoadType) /\ load("pr_major") \in Seq(LoadType)
    <3> HIDE DEF offset
    <3> QED BY <1>0, <2>1, StageType, LoadsType DEF TypeInv, Operand
  <2>3. vmq[p] \o load("sh") \o load("pr_major") \in Seq(LoadType)
    BY <1>0, <2>2
  <2>4. vmq' \in [Producer -> Seq(LoadType)]
    BY <1>0, <1>7, <2>3 DEF IssueShPrMajor
  <2>5. coffset' \in [Producer -> Nat]
    BY <1>7, <2>1 DEF IssueShPrMajor, TypeInv, TypeOK
  <2>6. pc' \in [Waves -> Point] /\ InitialStages'
    BY <1>0, <1>7, GotoType DEF IssueShPrMajor, Point
  <2> QED BY <1>7, <2>4, <2>5, <2>6 DEF IssueShPrMajor, TypeInv, TypeOK, LoadType
<1>8. CASE AwaitFreePrMinor(p)
  BY <1>0, <1>8, BarrierStepType DEF AwaitFreePrMinor, Ebar, Point
<1>9. CASE IssuePrMinor(p)
  <2> DEFINE load == Loads("pr_minor", LdsStage(n[p]), p, SampIdx(n[p]), coffset[p])
  <2>1. load \in Seq(LoadType)
    BY <1>0, StageType, LoadsType DEF TypeInv, Operand
  <2>2. vmq' \in [Producer -> Seq(LoadType)]
    BY <1>0, <1>9, <2>1 DEF IssuePrMinor
  <2>3. \E point \in Point \ {"entry", "initial"} : Goto(p, point)
    BY <1>9, PointAfterIssue DEF IssuePrMinor, Point
  <2>4. pc' \in [Waves -> Point] /\ InitialStages'
    BY <1>0, <1>9, <2>3, GotoType DEF IssuePrMinor
  <2> QED BY <1>9, <2>2, <2>4 DEF IssuePrMinor, TypeInv, TypeOK, LoadType
<1>10. CASE NotifySh(p)
  BY <1>0, <1>10, BarrierStepType DEF NotifySh, Ebar, Point
<1>11. CASE NotifyPrMajor(p)
  BY <1>0, <1>11, BarrierStepType DEF NotifyPrMajor, Ebar, Point
<1> QED BY <1>1, <1>2, <1>3, <1>4, <1>5, <1>6, <1>7, <1>8, <1>9, <1>10, <1>11
        DEF ProducerStep

\* Compute waves.
LEMMA ComputeType ==
  ASSUME TypeInv, NEW c \in Compute,
         \/ AwaitSh(c) \/ AwaitPrMajor(c) \/ ReadMajor(c)
         \/ AwaitPrMinor(c) \/ ReadMinor(c) \/ FenceAndFreeSh(c) \/ FreePrivate(c)
  PROVE  TypeInv'
<1>0. /\ c \in Waves /\ n[c] \in Nat
      /\ acc \in [Compute -> Seq(TileType)]
  BY DEF Waves, TypeInv, TypeOK, TileType
<1>1. CASE AwaitSh(c)
  <2>1. \E point \in Point \ {"entry", "initial"} : Goto(c, point)
    BY <1>1 DEF AwaitSh, Point
  <2> QED BY <1>0, <1>1, <2>1, BarrierStepType DEF AwaitSh, Ebar
<1>2. CASE AwaitPrMajor(c)
  <2>1. \E point \in Point \ {"entry", "initial"} : Goto(c, point)
    BY <1>2 DEF AwaitPrMajor, Point
  <2> QED BY <1>0, <1>2, <2>1, BarrierStepType DEF AwaitPrMajor, Ebar
<1>3. CASE ReadMajor(c) \/ ReadMinor(c)
  <2>1. \E point \in Point \ {"entry", "initial"} : Goto(c, point)
    BY <1>3 DEF ReadMajor, ReadMinor, Point
  <2>2. pc' \in [Waves -> Point] /\ InitialStages'
    BY <1>0, <1>3, <2>1, GotoType DEF ReadMajor, ReadMinor
  <2>3. 0 \in Stage /\ LdsStage(n[c]) \in Stage
        /\ (LdsStage(n[c]) + 1) % NumLdsStages \in Stage
    BY <1>0, StagesAssumption DEF Stage, LdsStage
  <2>4. \E stage \in Stage : ReadStage(c, stage)
    BY <1>3, <2>3 DEF ReadMajor, ReadMinor
  <2>5. reading' \in [Compute -> SUBSET Slot]
    BY <2>4 DEF ReadStage, Slot, Operand, Private, TypeInv, TypeOK
  <2> QED BY <1>3, <2>2, <2>5 DEF ReadMajor, ReadMinor, TypeInv, TypeOK
<1>4. CASE AwaitPrMinor(c)
  BY <1>0, <1>4, BarrierStepType DEF AwaitPrMinor, Ebar, Point
<1>5. CASE FenceAndFreeSh(c)
  <2>1. Product(c) \in TileType
    BY ProductType DEF TypeInv
  <2>2. acc' \in [Compute -> Seq(TileType)]
    BY <1>0, <1>5, <2>1 DEF FenceAndFreeSh
  <2>3. reading' \in [Compute -> SUBSET Slot]
    BY <1>5 DEF FenceAndFreeSh, TypeInv, TypeOK
  <2>4. \E point \in Point \ {"entry", "initial"} : Goto(c, point)
    BY <1>5, PointAfterProduct DEF FenceAndFreeSh, Point
  <2>5. pc' \in [Waves -> Point] /\ InitialStages'
    BY <1>0, <1>5, <2>4, GotoType DEF FenceAndFreeSh
  <2>6. ebar' \in [Ebar -> EbarSlot]
    BY <1>0, <1>5, EbarTypes DEF FenceAndFreeSh, TypeInv, TypeOK, EbarSlot, Ebar
  <2> QED BY <1>5, <2>2, <2>3, <2>5, <2>6
          DEF FenceAndFreeSh, TypeInv, TypeOK, EbarSlot, TileType
<1>6. CASE FreePrivate(c)
  <2>1. \E point \in Point \ {"entry", "initial"} : Goto(c, point)
    BY <1>6, PointAfterProduct DEF FreePrivate, Point
  <2>2. \E b \in Ebar : arrive(b)
    BY <1>6 DEF FreePrivate, Ebar
  <2> QED BY <1>0, <1>6, <2>1, <2>2, BarrierStepType DEF FreePrivate
<1> QED BY <1>1, <1>2, <1>3, <1>4, <1>5, <1>6

\* A load that lands.
LEMMA LandType ==
  ASSUME TypeInv, NEW p \in Producer, Land(p)
  PROVE  TypeInv'
<1>1. /\ vmq \in [Producer -> Seq(LoadType)] /\ vmq[p] # <<>>
      /\ Head(vmq[p]) \in LoadType /\ Tail(vmq[p]) \in Seq(LoadType)
  <2>1. vmq \in [Producer -> Seq(LoadType)] /\ vmq[p] # <<>>
    BY DEF Land, LandOldest, TypeInv, TypeOK, LoadType
  <2>2. vmq[p] \in Seq(LoadType)
    BY <2>1
  <2> QED BY <2>1, <2>2, HeadTailProperties
<1>2. vmq' \in [Producer -> Seq(LoadType)]
  BY <1>1 DEF Land, LandOldest
<1>3. Head(vmq[p]).slot \in Slot /\ Head(vmq[p]).tile \in Nat \X Nat
  BY <1>1 DEF LoadType
<1>4. lds' \in [Slot -> [Producer -> TileType]]
  BY <1>3 DEF Land, LandOldest, TypeInv, TypeOK, TileType
<1>5. InitialStages'
  BY DEF Land, LandOldest, TypeInv, InitialStages
<1> QED BY <1>2, <1>4, <1>5 DEF Land, LandOldest, TypeInv, TypeOK, LoadType, TileType

\* The work group barrier.
LEMMA WgSyncType ==
  ASSUME TypeInv, WgSync
  PROVE  TypeInv'
<1>1. \A w \in Waves : Resume(w) \in Point
  BY DEF WgSync, Resume, LoopStart, Point
<1>2. pc' \in [Waves -> Point] /\ n' \in [Waves -> Nat]
  BY <1>1 DEF WgSync, TypeInv, TypeOK
<1>3. \A w \in Waves :
        /\ Resume(w) # "entry"
        /\ Resume(w) = "initial" => pc[w] = "entry"
  BY DEF WgSync, Resume, LoopStart
<1>4. 0 \in Stage
  BY StagesAssumption DEF Stage
<1>5. InitialStages'
  BY <1>3, <1>4 DEF WgSync, TypeInv, InitialStages, Waves
<1> QED BY <1>2, <1>5 DEF WgSync, TypeInv, TypeOK

\* Every step of the work group keeps the types.
LEMMA TypeNext == TypeInv /\ [Next]_vars => TypeInv'
<1> SUFFICES ASSUME TypeInv, [Next]_vars PROVE TypeInv'
  OBVIOUS
<1>1. CASE UNCHANGED vars
  BY <1>1 DEF vars, TypeInv, TypeOK, InitialStages
<1>2. ASSUME NEW p \in Producer, ProducerStep(p) \/ Land(p) PROVE TypeInv'
  BY <1>2, ProducerType, LandType
<1>3. ASSUME NEW m \in Major, MajorStep(m) PROVE TypeInv'
  BY <1>3, ComputeType DEF MajorStep, Compute
<1>4. ASSUME NEW m \in Minor, MinorStep(m) PROVE TypeInv'
  BY <1>4, ComputeType DEF MinorStep, Compute
<1>5. CASE WgSync
  BY <1>5, WgSyncType
<1>6. CASE Terminated
  BY <1>1, <1>6 DEF Terminated
<1> QED BY <1>1, <1>2, <1>3, <1>4, <1>5, <1>6 DEF Next, PipelineStep

\* Every variable keeps its type; in particular the initial loads and the
\* loads of the loop go to stages that exist.
THEOREM TypeCorrect == Spec => []TypeOK
<1>1. Spec => []TypeInv
  BY TypeInit, TypeNext, PTL DEF Spec
<1> QED BY <1>1, PTL DEF TypeInv

(***************************************************************************)
(* The work group barrier keeps the waves in step.                         *)
(***************************************************************************)

\* Inductive form: the waves are all before the first barrier, or all in the
\* same iteration k.  (While it issues the initial loads a producer wave
\* counts stages in n; it is then before iteration 0.)
InIteration(w, k) ==
  pc[w] # "entry" /\ IF pc[w] = "initial" THEN k = 0 ELSE n[w] = k
Aligned ==
  \/ \A w \in Waves : pc[w] = "entry" /\ n[w] = 0
  \/ \E k \in Nat : \A w \in Waves : InIteration(w, k)

AlignInv == TypeInv /\ Aligned

\* A step of one wave between barriers stays in the wave's iteration.
LEMMA AlignedStep ==
  ASSUME AlignInv, NEW w \in Waves, pc[w] # "entry", pc'[w] # "entry",
         \A v \in Waves \ {w} : pc'[v] = pc[v] /\ n'[v] = n[v],
         IF pc'[w] = "initial" THEN pc[w] = "initial"
         ELSE n'[w] = IF pc[w] = "initial" THEN 0 ELSE n[w]
  PROVE  Aligned'
<1>1. PICK k \in Nat : \A v \in Waves : InIteration(v, k)
  BY DEF AlignInv, Aligned
<1>2. InIteration(w, k)'
  BY <1>1 DEF InIteration
<1>3. \A v \in Waves \ {w} : InIteration(v, k)'
  BY <1>1 DEF InIteration
<1> QED BY <1>2, <1>3 DEF Aligned

\* A step that leaves n alone and takes one wave to a point of the loop.
LEMMA AlignedGoto ==
  ASSUME AlignInv, NEW w \in Waves, NEW from \in Point \ {"entry", "initial"},
         At(w, from), NEW point \in Point \ {"entry", "initial"},
         Goto(w, point), UNCHANGED n
  PROVE  Aligned'
<1>1. pc \in [Waves -> Point]
  BY DEF AlignInv, TypeInv, TypeOK
<1> QED BY <1>1, AlignedStep DEF Goto, At

\* A step of a producer wave stays in its iteration.
LEMMA AlignedProducer ==
  ASSUME AlignInv, NEW p \in Producer, ProducerStep(p)
  PROVE  Aligned'
<1>0. /\ p \in Waves /\ pc \in [Waves -> Point] /\ n \in [Waves -> Nat]
  BY DEF Waves, AlignInv, TypeInv, TypeOK
<1>1. CASE IssueInitial(p)
  <2>1. pc[p] = "initial"
    BY <1>1 DEF IssueInitial, At
  <2>2. \/ n' = [n EXCEPT ![p] = n[p] + 1] /\ pc' = pc
        \/ n' = [n EXCEPT ![p] = 0] /\ pc' = [pc EXCEPT ![p] = "first_sh"]
    BY <1>1 DEF IssueInitial, Goto
  <2> QED BY <1>0, <2>1, <2>2, AlignedStep
<1>2. ASSUME ~IssueInitial(p) PROVE Aligned'
  <2>1. /\ n' = n
        /\ \E from \in Point \ {"entry", "initial"} : At(p, from)
    BY <1>2 DEF ProducerStep, NotifyFirstSh, NotifyFirstPrMajor, NotifyPrMinor,
       AwaitFreeSh, AwaitFreePrMajor, IssueShPrMajor, AwaitFreePrMinor,
       IssuePrMinor, NotifySh, NotifyPrMajor, Point
  <2>2. \E point \in Point \ {"entry", "initial"} : Goto(p, point)
    BY <1>2, PointAfterIssue
       DEF ProducerStep, NotifyFirstSh, NotifyFirstPrMajor, NotifyPrMinor,
       AwaitFreeSh, AwaitFreePrMajor, IssueShPrMajor, AwaitFreePrMinor,
       IssuePrMinor, NotifySh, NotifyPrMajor, Point
  <2> QED BY <1>0, <2>1, <2>2, AlignedGoto
<1> QED BY <1>1, <1>2

\* A step of a compute wave stays in its iteration.
LEMMA AlignedCompute ==
  ASSUME AlignInv, NEW c \in Compute,
         \/ AwaitSh(c) \/ AwaitPrMajor(c) \/ ReadMajor(c)
         \/ AwaitPrMinor(c) \/ ReadMinor(c) \/ FenceAndFreeSh(c) \/ FreePrivate(c)
  PROVE  Aligned'
<1>1. /\ n' = n
      /\ \E from \in Point \ {"entry", "initial"} : At(c, from)
  BY DEF AwaitSh, AwaitPrMajor, ReadMajor, AwaitPrMinor, ReadMinor,
         FenceAndFreeSh, FreePrivate, Point
<1>2. \E point \in Point \ {"entry", "initial"} : Goto(c, point)
  BY PointAfterProduct
     DEF AwaitSh, AwaitPrMajor, ReadMajor, AwaitPrMinor, ReadMinor,
         FenceAndFreeSh, FreePrivate, Point
<1> QED BY <1>1, <1>2, AlignedGoto DEF Waves

\* The barrier takes all waves to iteration 0, or to the next one.
LEMMA AlignedWgSync ==
  ASSUME AlignInv, WgSync
  PROVE  Aligned'
<1>0. pc \in [Waves -> Point] /\ n \in [Waves -> Nat]
  BY DEF AlignInv, TypeInv, TypeOK
<1>1. \A w \in Waves :
        /\ pc'[w] # "entry"
        /\ pc'[w] = "initial" => pc[w] = "entry"
        /\ n'[w] = IF pc[w] = "tg" THEN n[w] + 1 ELSE n[w]
  BY DEF WgSync, Resume, LoopStart
<1>2. CASE \A w \in Waves : pc[w] = "entry" /\ n[w] = 0
  <2>1. \A w \in Waves : InIteration(w, 0)'
    BY <1>1, <1>2 DEF InIteration
  <2> QED BY <2>1 DEF Aligned
<1>3. ASSUME NEW k \in Nat, \A w \in Waves : InIteration(w, k) PROVE Aligned'
  <2>1. \A w \in Waves : pc[w] = "tg" /\ n[w] = k
    BY <1>3 DEF WgSync, InIteration
  <2>2. \A w \in Waves : InIteration(w, k + 1)'
    BY <1>1, <2>1 DEF InIteration
  <2> QED BY <2>2 DEF Aligned
<1> QED BY <1>2, <1>3 DEF AlignInv, Aligned

\* Only the work group barrier takes waves to another iteration: all of them.
LEMMA AlignNext == AlignInv /\ [Next]_vars => AlignInv'
<1> SUFFICES ASSUME AlignInv, [Next]_vars PROVE Aligned'
  BY TypeNext DEF AlignInv
<1>1. CASE UNCHANGED <<pc, n>>
  BY <1>1 DEF AlignInv, Aligned, InIteration
<1>2. ASSUME NEW p \in Producer, ProducerStep(p) PROVE Aligned'
  BY <1>2, AlignedProducer
<1>3. ASSUME NEW p \in Producer, Land(p) PROVE Aligned'
  BY <1>1, <1>3 DEF Land, LandOldest
<1>4. ASSUME NEW m \in Major, MajorStep(m) PROVE Aligned'
  BY <1>4, AlignedCompute DEF MajorStep, Compute
<1>5. ASSUME NEW m \in Minor, MinorStep(m) PROVE Aligned'
  BY <1>5, AlignedCompute DEF MinorStep, Compute
<1>6. CASE WgSync
  BY <1>6, AlignedWgSync
<1> QED BY <1>1, <1>2, <1>3, <1>4, <1>5, <1>6
        DEF Next, PipelineStep, Terminated, vars

\* The work group barrier never joins waves of different iterations, nor a
\* wave still in the kernel with one already in its loop: the s_barrier, which
\* cannot tell them apart, is executed equally often on all three paths.
THEOREM BarrierAligned == Spec => []WgSyncAligned
<1>1. Init => AlignInv
  BY TypeInit DEF Init, StartOf, StagesInit, AlignInv, Aligned
<1>2. AlignInv => WgSyncAligned
  BY DEF AlignInv, Aligned, InIteration, WgSyncAligned
<1> QED BY <1>1, <1>2, AlignNext, PTL DEF Spec

(***************************************************************************)
(* What the waves know of each other.                                      *)
(*                                                                         *)
(* Within an iteration a wave uses a barrier at most once, except that in  *)
(* iteration 0 "load_sh" and "load_pr_major" have a first use before the   *)
(* loop.  The waves that are one use ahead of others are those that the    *)
(* slot counts, and the synchronising ones among them are stalled.  So a   *)
(* wave that goes on after a barrier knows that all other waves have been  *)
(* there; what a producer wave has waited for before it went there, and    *)
(* what a compute wave has read, follows.                                  *)
(***************************************************************************)
\* The waves that arrive at a barrier, and all that use it.
ArriveWaves(b) ==
  CASE b = "free_sh"       -> Compute
    [] b = "free_pr_major" -> Major
    [] b = "free_pr_minor" -> Minor
    [] OTHER               -> Producer
UserWaves(b) == ArriveWaves(b) \union SyncWaves(b)

\* How often a wave has used a barrier, since the loop's or the kernel's begin:
\* by the points of its program at which a use is behind it.
LevelAt(b, w, point, k) ==
  CASE b = "load_sh" ->
         IF point \in {"initial", "first_sh"} THEN 0
         ELSE IF point \in {"load_pr_major", "read", "tg"} /\ ~IsLastLoop(k) THEN 2 ELSE 1
    [] b = "load_pr_major" ->
         IF point \in {"initial", "first_sh", "first_pr_major"} THEN 0
         ELSE IF point \in {"read", "tg"} /\ ~IsLastLoop(k) THEN 2 ELSE 1
    [] b = "load_pr_minor" ->
         IF point \in {"initial", "first_sh", "first_pr_major", "load_pr_minor"} THEN 0 ELSE 1
    [] b = "free_sh" ->
         IF IsTailLoop(k)
            \/ point \in {"initial", "first_sh", "first_pr_major", "first_read",
                          "load_pr_minor", "free_sh", "fence"}
            \/ (point = "read" /\ w \in Minor) THEN 0 ELSE 1
    [] b = "free_pr_major" ->
         IF ~IsTailLoop(k) /\ point \in {"issue", "free_pr_minor", "issue_pr_minor", "load_sh",
                                         "load_pr_major", "read", "tg"} THEN 1 ELSE 0
    [] b = "free_pr_minor" ->
         IF ~IsTailLoop(k) /\ point \in {"issue_pr_minor", "load_sh", "load_pr_major", "tg"}
         THEN 1 ELSE 0
Level(b, w) == LevelAt(b, w, pc[w], n[w])
Levels(b) == [w \in UserWaves(b) |-> Level(b, w)]

\* Those that are ahead of others, and the slot that has counted them, where
\* the waves of S wait.
AheadOf(f) == {w \in DOMAIN f : \E v \in DOMAIN f : f[v] < f[w]}
SlotFor(f, S) ==
  IF AheadOf(f) = {} THEN FreeSlot
  ELSE [expected |-> Cardinality(DOMAIN f), pending |-> Cardinality(AheadOf(f)),
        waiting |-> AheadOf(f) \intersect S]
Close(f) == \A w, v \in DOMAIN f : f[w] <= f[v] + 1

\* The points behind a barrier, where a wave is while it is stalled.
AfterSync(b) ==
  CASE b = "load_sh"       -> {"first_pr_major", "load_pr_major"}
    [] b = "load_pr_major" -> {"first_read", "read"}
    [] b = "load_pr_minor" -> {"read"}
    [] b = "free_sh"       -> {"free_pr_major"}
    [] b = "free_pr_major" -> {"issue"}
    [] b = "free_pr_minor" -> {"issue_pr_minor"}

BarrierOK(b) ==
  /\ ebar[b] = SlotFor(Levels(b), SyncWaves(b))
  /\ Close(Levels(b))
  /\ \A w \in AheadOf(Levels(b)) \intersect SyncWaves(b) : pc[w] \in AfterSync(b)

\* The points of the three programs.
ProgramPoint(w) ==
  IF w \in Producer
  THEN {"initial", "first_sh", "first_pr_major", "load_pr_minor", "free_sh", "free_pr_major",
        "issue", "free_pr_minor", "issue_pr_minor", "load_sh", "load_pr_major", "tg"}
  ELSE IF w \in Major
  THEN {"first_sh", "first_pr_major", "first_read", "fence", "free_private", "load_sh",
        "load_pr_major", "read", "tg"}
  ELSE {"load_pr_minor", "read", "fence", "free_private", "tg"}
PointOK(w) ==
  /\ pc[w] \in ProgramPoint(w)
  /\ pc[w] \in {"first_sh", "first_pr_major", "first_read"} => n[w] = 0
  /\ pc[w] \in {"free_sh", "free_pr_major", "issue", "free_pr_minor", "issue_pr_minor",
                "free_private"} => ~IsTailLoop(n[w])
  /\ pc[w] \in {"load_sh", "load_pr_major"} \/ (pc[w] = "read" /\ w \in Major)
       => ~IsLastLoop(n[w])

\* The last K tile issued, by operand, and the instructions issued for it.
LastTile(k) == IF k < NumIter THEN k ELSE NumIter - 1
LastOf(p) ==
  IF pc[p] = "initial" THEN n[p] - 1
  ELSE IF pc[p] \in {"first_sh", "first_pr_major", "load_pr_minor", "free_sh", "free_pr_major",
                     "issue"}
  THEN LastTile(n[p] + NumLdsStages - 1) ELSE LastTile(n[p] + NumLdsStages)
Half(p) == pc[p] \in {"free_pr_minor", "issue_pr_minor"}
Top(p) ==
  [o \in Operand |-> IF Half(p) /\ o = "pr_minor" THEN LastOf(p) - 1 ELSE LastOf(p)]
Issued(p) ==
  IF Half(p) THEN LastOf(p) * TileIssueCnt + IssueCnt["sh"] + IssueCnt["pr_major"]
  ELSE (LastOf(p) + 1) * TileIssueCnt

\* The order of the operands in a K tile.
OperandEnd ==
  [o \in Operand |-> IF o = "sh" THEN IssueCnt["sh"]
                     ELSE IF o = "pr_major" THEN IssueCnt["sh"] + IssueCnt["pr_major"]
                     ELSE TileIssueCnt]

\* The first K tile that may still be in flight: sh and pr_major are k, and
\* pr_minor is the one before it, or the same.
FromTile(k, minor) == [o \in Operand |-> IF o = "pr_minor" THEN minor ELSE k]
Floor(p) ==
  IF pc[p] \in {"initial", "first_sh"} THEN FromTile(0, 0)
  ELSE IF pc[p] \in {"first_pr_major", "load_pr_minor"} THEN FromTile(n[p] + 1, n[p])
  ELSE IF pc[p] \in {"load_pr_major", "tg"} /\ ~IsLastLoop(n[p])
  THEN FromTile(n[p] + 2, n[p] + 1) ELSE FromTile(n[p] + 1, n[p] + 1)

QueueOK(p) ==
  /\ Queue(vmq[p], lds, p, tile_idx[p], Issued(p), Floor(p), Top(p), NumLdsStages, OperandEnd)
  /\ coffset[p] = (IF pc[p] = "initial" THEN n[p] ELSE LastOf(p)) \div FilterUnroll

\* What a compute wave reads, and has accumulated.
ReadsNext(c) == c \in Major /\ pc[c] = "tg" /\ ~IsLastLoop(n[c])
TileRead(c) == IF ReadsNext(c) THEN n[c] + 1 ELSE n[c]
ReadingOK(c) ==
  reading[c] = IF pc[c] = "fence" \/ ReadsNext(c)
               THEN {<<"sh", LdsStage(TileRead(c))>>, <<Private(c), LdsStage(TileRead(c))>>}
               ELSE {}
HasProduct(c) ==
  ~(pc[c] \in {"first_sh", "first_pr_major", "first_read", "load_pr_minor", "fence"}
    \/ (pc[c] = "read" /\ c \in Minor))
FirstTiles(t, k) == [i \in 1 .. k |-> Tile(t, i - 1)]
SumOK(c) == acc[c] = FirstTiles(tile_idx[c], IF HasProduct(c) THEN n[c] + 1 ELSE n[c])

\* The work group before, in and after its pipeline for output tile t.
Entering(t) ==
  /\ \A w \in Waves : pc[w] = "entry" /\ n[w] = 0 /\ tile_idx[w] = t
  /\ \A p \in Producer : coffset[p] = 0 /\ vmq[p] = <<>>
  /\ \A c \in Compute : reading[c] = {} /\ acc[c] = <<>>
  /\ \A b \in Ebar : ebar[b] = FreeSlot
Walking(t, k) ==
  /\ \A w \in Waves : InIteration(w, k) /\ tile_idx[w] = t /\ PointOK(w)
  /\ \A b \in Ebar : BarrierOK(b)
Iterating(t, k) ==
  /\ Walking(t, k)
  /\ \A p \in Producer : QueueOK(p)
  /\ \A c \in Compute : ReadingOK(c) /\ SumOK(c)
Leaving(t) ==
  /\ \A w \in Waves : pc[w] = "done" /\ tile_idx[w] = t
  /\ \A p \in Producer : vmq[p] = <<>>
  /\ \A c \in Compute : reading[c] = {} /\ acc[c] = FirstTiles(t, NumIter)
  /\ \A b \in Ebar : ebar[b] = FreeSlot

PhaseInv(t) ==
  /\ TypeInv
  /\ Entering(t) \/ Leaving(t) \/ \E k \in 0 .. NumIter - 1 : Iterating(t, k)

(***************************************************************************)
(* The numbers of the loop.                                                *)
(***************************************************************************)
\* The loop's unrolling, its iterations, the first and the last of them.
LoopShape ==
  /\ FilterUnroll \in Nat \ {0} /\ NumLdsStages \in Nat \ {0} /\ NumLoop \in Nat \ {0}
  /\ LoopUnroll \in Nat \ {0}
  /\ LoopUnroll % FilterUnroll = 0
  /\ NumIter \in Nat /\ NumLdsStages < NumIter
  /\ NumIter % NumLdsStages = 0
  /\ NumLoop > LoopUnroll => NumIter = NumLoop

\* The launched loop has a main round, and a tail of a whole ring of stages.
LEMMA LoopNumbers == LoopShape
<1>0. /\ FilterUnroll \in Nat \ {0} /\ NumLdsStages \in Nat \ {0} /\ NumLoop \in Nat \ {0}
      /\ NumLoop % LoopUnroll = 0
  BY StagesAssumption, ShapeAssumption, LoopAssumption DEF IsSupported
<1>1. PICK x \in Nat \ {0}, y \in Nat \ {0} :
        LoopUnroll = FilterUnroll * x /\ LoopUnroll = NumLdsStages * y
  <2>1. CASE FilterUnroll % NumLdsStages = 0
    <3> DEFINE u == FilterUnroll \div NumLdsStages
    <3>1. FilterUnroll \in Nat /\ NumLdsStages \in Nat \ {0}
      BY <1>0
    <3>2. u \in Nat /\ FilterUnroll = NumLdsStages * u + (FilterUnroll % NumLdsStages)
      BY <3>1, DivMod
    <3> HIDE DEF u
    <3>3. NumLdsStages * u \in Nat
      BY <3>1, <3>2
    <3>4. FilterUnroll = NumLdsStages * u
      BY <2>1, <3>2, <3>3
    <3>5. LoopUnroll = FilterUnroll * 1
      BY <1>0, <2>1 DEF LoopUnroll
    <3>6. u # 0
      BY <1>0, <3>4
    <3>7. LoopUnroll = NumLdsStages * u
      BY <1>0, <3>4, <3>5
    <3> QED BY <3>2, <3>5, <3>6, <3>7
  <2>2. CASE FilterUnroll % NumLdsStages # 0
    <3>1. LoopUnroll = FilterUnroll * NumLdsStages
      BY <2>2 DEF LoopUnroll
    <3>2. FilterUnroll * NumLdsStages = NumLdsStages * FilterUnroll
      BY <1>0
    <3> QED BY <1>0, <3>1, <3>2
  <2> QED BY <2>1, <2>2
<1>2. LoopUnroll \in Nat \ {0}
  BY <1>0, StageType
<1>3. \A d \in Nat \ {0}, m \in Nat : (d * m) % d = 0
  <2> TAKE d \in Nat \ {0}, m \in Nat
  <2>1. d * m + 0 = d * m /\ 0 \in 0 .. d - 1
    OBVIOUS
  <2> QED BY <2>1, DivModUnique
<1> DEFINE q == NumLoop \div LoopUnroll
<1>4. q \in Nat /\ NumLoop = LoopUnroll * q
  <2>1. q \in Nat /\ NumLoop = LoopUnroll * q + (NumLoop % LoopUnroll)
    BY <1>0, <1>2, DivMod
  <2> QED BY <1>0, <1>2, <2>1
<1>5. MainRounds = IF ~(q > 0) THEN 0 ELSE IF NumLoop > 2 * LoopUnroll THEN q - 1 ELSE 1
  BY DEF MainRounds, HasMainLoop
<1> HIDE DEF q
<1>6. q # 0
  BY <1>0, <1>2, <1>4
<1>7. NumLoop > 2 * LoopUnroll => q > 2
  <2>1. q <= 2 => LoopUnroll * q <= LoopUnroll * 2
    BY <1>2, <1>4
  <2> QED BY <1>2, <1>4, <2>1
<1>8. MainRounds \in Nat \ {0}
  BY <1>4, <1>5, <1>6, <1>7
<1>9. NumLoop > LoopUnroll => MainRounds + 1 = q
  <2>1. q <= 1 => LoopUnroll * q <= LoopUnroll * 1
    BY <1>2, <1>4
  <2>2. q > 2 => LoopUnroll * q > LoopUnroll * 2
    BY <1>2, <1>4
  <2> QED BY <1>2, <1>4, <1>5, <1>6, <1>7, <2>1, <2>2
<1> DEFINE mr == MainRounds + 1
<1>10. mr \in Nat /\ mr >= 2 /\ NumIter = mr * LoopUnroll
  BY <1>8 DEF NumIter
<1>11. NumLoop > LoopUnroll => mr = q
  BY <1>9
<1> HIDE DEF mr
<1>12. NumIter \in Nat /\ NumIter = NumLdsStages * (y * mr)
  <2>1. mr * (NumLdsStages * y) = NumLdsStages * (y * mr)
    BY <1>0, <1>10
  <2> QED BY <1>1, <1>2, <1>10, <2>1
<1>13. NumLdsStages < NumIter
  <2>1. y * mr >= 2
    <3>1. y * mr >= 1 * mr
      BY <1>1, <1>10
    <3> QED BY <1>1, <1>10, <3>1
  <2> DEFINE z == y * mr
  <2>2. z \in Nat /\ z >= 2 /\ NumIter = NumLdsStages * z
    BY <1>1, <1>10, <1>12, <2>1
  <2> HIDE DEF z
  <2>3. NumLdsStages * z >= NumLdsStages * 2
    BY <1>0, <2>2
  <2> QED BY <1>0, <2>2, <2>3
<1>14. NumIter % NumLdsStages = 0
  <2>1. y * mr \in Nat
    BY <1>1, <1>10
  <2> QED BY <1>0, <1>3, <1>12, <2>1
<1>15. LoopUnroll % FilterUnroll = 0
  BY <1>0, <1>1, <1>3
<1>16. NumLoop > LoopUnroll => NumIter = NumLoop
  BY <1>2, <1>4, <1>10, <1>11
<1> QED BY <1>0, <1>2, <1>12, <1>13, <1>14, <1>15, <1>16 DEF LoopShape

\* The stage and the tap of an iteration.  In the tail the stages are numbered
\* from 0 on; a producer wave issues the tile a whole ring ahead.
LEMMA IterationNumbers ==
  ASSUME NEW k \in Nat
  PROVE  /\ LdsStage(k) = k % NumLdsStages
         /\ (k + NumLdsStages) % NumLdsStages = LdsStage(k)
         /\ (LdsStage(k) + 1) % NumLdsStages = (k + 1) % NumLdsStages
         /\ SampIdx(k) = (k + NumLdsStages) % FilterUnroll
         /\ IsTailLoop(k) /\ k < NumIter => LdsStage(k) = k - (NumIter - NumLdsStages)
<1>0. LoopShape
  BY LoopNumbers
<1>1. LdsStage(k) = k % NumLdsStages
  BY DEF LdsStage
<1>2. (k + NumLdsStages) % NumLdsStages = k % NumLdsStages
  BY <1>0, PlusMod DEF LoopShape
<1>3. (k + 1) % NumLdsStages = ((k % NumLdsStages) + 1) % NumLdsStages
  BY <1>0, DivStep DEF LoopShape
<1>4. SampIdx(k) = (k + NumLdsStages) % FilterUnroll
  <2> DEFINE q == k \div LoopUnroll
             r == k % LoopUnroll
             x == LoopUnroll \div FilterUnroll
  <2>1. q \in Nat /\ r \in Nat /\ k = LoopUnroll * q + r
    BY <1>0, DivMod DEF LoopShape
  <2>2. x \in Nat /\ LoopUnroll = FilterUnroll * x
    <3>1. x \in Nat /\ LoopUnroll = FilterUnroll * x + (LoopUnroll % FilterUnroll)
      BY <1>0, DivMod DEF LoopShape
    <3>2. FilterUnroll * x \in Nat
      BY <1>0, <3>1 DEF LoopShape
    <3> QED BY <1>0, <3>1, <3>2 DEF LoopShape
  <2>3. SampIdx(k) = (r + NumLdsStages) % FilterUnroll
    BY DEF SampIdx
  <2> HIDE DEF q, r, x
  <2>4. k + NumLdsStages = FilterUnroll * (x * q) + (r + NumLdsStages)
    <3>1. LoopUnroll * q = FilterUnroll * (x * q)
      BY <1>0, <2>1, <2>2 DEF LoopShape
    <3> QED BY <1>0, <2>1, <3>1 DEF LoopShape
  <2>5. x * q \in Nat /\ r + NumLdsStages \in Nat
    BY <1>0, <2>1, <2>2 DEF LoopShape
  <2> QED BY <1>0, <2>3, <2>4, <2>5, PlusMultiple DEF LoopShape
<1>5. ASSUME IsTailLoop(k), k < NumIter PROVE LdsStage(k) = k - (NumIter - NumLdsStages)
  <2> DEFINE q == NumIter \div NumLdsStages
             r == k - (NumIter - NumLdsStages)
  <2>1. q \in Nat /\ NumIter = NumLdsStages * q
    <3>1. q \in Nat /\ NumIter = NumLdsStages * q + (NumIter % NumLdsStages)
      BY <1>0, DivMod DEF LoopShape
    <3>2. NumLdsStages * q \in Nat
      BY <1>0, <3>1 DEF LoopShape
    <3> QED BY <1>0, <3>1, <3>2 DEF LoopShape
  <2>2. r \in 0 .. NumLdsStages - 1 /\ k = NumIter - NumLdsStages + r
    BY <1>0, <1>5 DEF LoopShape, IsTailLoop
  <2> HIDE DEF q, r
  <2>3. q # 0
    BY <1>0, <2>1 DEF LoopShape
  <2>4. k = NumLdsStages * (q - 1) + r /\ q - 1 \in Nat
    BY <1>0, <2>1, <2>2, <2>3 DEF LoopShape
  <2>5. (NumLdsStages * (q - 1) + r) % NumLdsStages = r
    BY <1>0, <2>2, <2>4, DivModUnique DEF LoopShape
  <2> QED BY <1>1, <2>4, <2>5 DEF r
<1> QED BY <1>1, <1>2, <1>3, <1>4, <1>5

\* Channel offset and tap address the K tile.
LEMMA Addressed ==
  ASSUME NEW b \in Nat
  PROVE  (b \div FilterUnroll) * FilterUnroll + (b % FilterUnroll) = b
<1> DEFINE q == b \div FilterUnroll
           r == b % FilterUnroll
<1>0. FilterUnroll \in Nat \ {0}
  BY ShapeAssumption
<1>1. q \in Nat /\ r \in Nat /\ b = FilterUnroll * q + r
  BY <1>0, DivMod
<1> HIDE DEF q, r
<1>2. q * FilterUnroll + r = b
  BY <1>0, <1>1
<1> QED BY <1>2 DEF q, r

\* A window that advances addresses the next K tile.
LEMMA AdvancedTo ==
  ASSUME NEW b \in Nat
  PROVE  /\ Advanced(b \div FilterUnroll, (b + 1) % FilterUnroll) = (b + 1) \div FilterUnroll
         /\ Advanced(b \div FilterUnroll, (b % FilterUnroll) + 1) = (b + 1) \div FilterUnroll
<1>0. FilterUnroll \in Nat \ {0}
  BY ShapeAssumption
<1>1. /\ (b + 1) \div FilterUnroll = IF (b + 1) % FilterUnroll = 0
                                      THEN (b \div FilterUnroll) + 1 ELSE b \div FilterUnroll
      /\ (b + 1) % FilterUnroll = ((b % FilterUnroll) + 1) % FilterUnroll
  BY <1>0, DivStep
<1>2. ((b + 1) % FilterUnroll) % FilterUnroll = (b + 1) % FilterUnroll
  <2>1. (b + 1) % FilterUnroll \in 0 .. FilterUnroll - 1
    BY <1>0, ModRange
  <2> QED BY <1>0, <2>1, SmallMod
<1> QED BY <1>1, <1>2 DEF Advanced

(***************************************************************************)
(* Barriers.                                                               *)
(***************************************************************************)
\* A warp group has SubWGSize waves.
LEMMA WarpGroupSize ==
  ASSUME NEW wg
  PROVE  IsFiniteSet(Wave(wg)) /\ Cardinality(Wave(wg)) = SubWGSize
<1> DEFINE f == [i \in 1 .. SubWGSize |-> <<wg, i>>]
<1>1. SubWGSize \in Nat
  BY StagesAssumption
<1>2. IsFiniteSet(1 .. SubWGSize) /\ Cardinality(1 .. SubWGSize) = SubWGSize
  BY <1>1, FS_Interval
<1>3. f \in Bijection(1 .. SubWGSize, Wave(wg))
  <2>1. Wave(wg) = {<<wg, i>> : i \in 1 .. SubWGSize}
    BY DEF Wave
  <2>2. /\ f \in [1 .. SubWGSize -> Wave(wg)]
        /\ \A i, j \in 1 .. SubWGSize : f[i] = f[j] => i = j
        /\ \A y \in Wave(wg) : \E i \in 1 .. SubWGSize : f[i] = y
    BY <2>1
  <2> HIDE DEF f
  <2>3. DOMAIN f = 1 .. SubWGSize
    BY <2>2
  <2> QED BY <2>2, <2>3 DEF Bijection, Injection, Surjection, IsInjective
<1>4. ExistsBijection(1 .. SubWGSize, Wave(wg))
  BY <1>3 DEF ExistsBijection
<1> QED BY <1>2, <1>4, FS_Bijection

\* A barrier's count is the number of the waves that use it.
LEMMA Users ==
  ASSUME NEW b \in Ebar
  PROVE  /\ UserWaves(b) \subseteq Waves /\ IsFiniteSet(UserWaves(b))
         /\ Cardinality(UserWaves(b)) = WvCnt(b)
         /\ ArriveWaves(b) \intersect SyncWaves(b) = {}
<1>0. SubWGSize \in Nat
  BY StagesAssumption
<1>1. /\ IsFiniteSet(Producer) /\ Cardinality(Producer) = SubWGSize
      /\ IsFiniteSet(Major) /\ Cardinality(Major) = SubWGSize
      /\ IsFiniteSet(Minor) /\ Cardinality(Minor) = SubWGSize
  BY WarpGroupSize DEF Producer, Major, Minor
<1>2. /\ Producer \intersect Major = {} /\ Producer \intersect Minor = {}
      /\ Major \intersect Minor = {} /\ Producer \intersect Compute = {}
  BY Groups
<1>3. \A S, T : /\ IsFiniteSet(S) /\ Cardinality(S) \in Nat
                /\ IsFiniteSet(T) /\ Cardinality(T) \in Nat /\ S \intersect T = {}
        => /\ IsFiniteSet(S \union T)
           /\ Cardinality(S \union T) = Cardinality(S) + Cardinality(T)
  <2> SUFFICES ASSUME NEW S, NEW T, IsFiniteSet(S), Cardinality(S) \in Nat, IsFiniteSet(T),
                      Cardinality(T) \in Nat, S \intersect T = {}
               PROVE  /\ IsFiniteSet(S \union T)
                      /\ Cardinality(S \union T) = Cardinality(S) + Cardinality(T)
    OBVIOUS
  <2>1. /\ IsFiniteSet(S \union T)
        /\ Cardinality(S \union T) = Cardinality(S) + Cardinality(T) - Cardinality({})
    BY FS_Union
  <2>2. Cardinality({}) = 0
    BY FS_EmptySet
  <2> QED BY <2>1, <2>2
<1>4. /\ IsFiniteSet(Producer \union Major) /\ Cardinality(Producer \union Major) = 2 * SubWGSize
      /\ IsFiniteSet(Producer \union Minor) /\ Cardinality(Producer \union Minor) = 2 * SubWGSize
      /\ IsFiniteSet(Compute) /\ Cardinality(Compute) = 2 * SubWGSize
  BY <1>0, <1>1, <1>2, <1>3 DEF Compute
<1>5. /\ IsFiniteSet(Producer \union Compute)
      /\ Cardinality(Producer \union Compute) = 3 * SubWGSize
  <2>1. Cardinality(Producer) \in Nat /\ Cardinality(Compute) \in Nat
    BY <1>0, <1>1, <1>4
  <2>2. /\ IsFiniteSet(Producer \union Compute)
        /\ Cardinality(Producer \union Compute) = Cardinality(Producer) + Cardinality(Compute)
    BY <1>1, <1>2, <1>3, <1>4, <2>1
  <2> QED BY <1>0, <1>1, <1>4, <2>2
<1>6. /\ UserWaves("load_sh") = Producer \union Major
      /\ UserWaves("load_pr_major") = Producer \union Major
      /\ UserWaves("load_pr_minor") = Producer \union Minor
      /\ UserWaves("free_sh") = Producer \union Compute
      /\ UserWaves("free_pr_major") = Producer \union Major
      /\ UserWaves("free_pr_minor") = Producer \union Minor
  BY DEF UserWaves, ArriveWaves, SyncWaves
<1>7. /\ IsFiniteSet(UserWaves(b)) /\ Cardinality(UserWaves(b)) = WvCnt(b)
  BY <1>4, <1>5, <1>6 DEF Ebar, WvCnt
<1>8. UserWaves(b) \subseteq Waves
  BY <1>6, Groups DEF Ebar
<1>9. ArriveWaves(b) \intersect SyncWaves(b) = {}
  BY <1>2 DEF Ebar, ArriveWaves, SyncWaves, Compute
<1> QED BY <1>7, <1>8, <1>9

\* If all are equally far, nobody is ahead and the slot is free.
LEMMA EvenSlot ==
  ASSUME NEW P, NEW f \in [P -> Nat], NEW S, \A w, v \in P : f[w] = f[v]
  PROVE  AheadOf(f) = {} /\ Close(f) /\ SlotFor(f, S) = FreeSlot
<1>1. DOMAIN f = P
  OBVIOUS
<1>2. AheadOf(f) = {}
  <2> SUFFICES ASSUME NEW w \in P, NEW v \in P, f[v] < f[w] PROVE FALSE
    BY <1>1 DEF AheadOf
  <2> QED OBVIOUS
<1>3. Close(f)
  BY <1>1 DEF Close
<1> QED BY <1>2, <1>3 DEF SlotFor

\* One wave that is not ahead of another uses the barrier.
LEMMA Counted ==
  ASSUME NEW P, IsFiniteSet(P), NEW f \in [P -> Nat], Close(f),
         NEW w \in P, w \notin AheadOf(f),
         NEW g \in [P -> Nat], g[w] = f[w] + 1, \A v \in P : v # w => g[v] = f[v]
  PROVE  /\ Close(g)
         /\ \A v \in P : g[v] <= f[w] + 1
         /\ AheadOf(g) = IF AheadOf(f) \union {w} = P THEN {} ELSE AheadOf(f) \union {w}
<1>1. DOMAIN f = P /\ DOMAIN g = P
  OBVIOUS
<1>2. \A v \in P : f[w] <= f[v] /\ f[v] <= f[w] + 1
  BY <1>1 DEF Close, AheadOf
<1>3. \A v \in P : f[v] \in Nat /\ g[v] \in Nat
  OBVIOUS
<1>4. \A v \in P : v \in AheadOf(f) <=> f[v] = f[w] + 1
  BY <1>1, <1>2, <1>3 DEF AheadOf
<1>5. \A v \in P : f[w] <= g[v] /\ g[v] <= f[w] + 1
  BY <1>2, <1>3
<1>6. Close(g)
  BY <1>1, <1>3, <1>5 DEF Close
<1>7. \A v \in P : g[v] = f[w] + 1 <=> v \in AheadOf(f) \union {w}
  BY <1>3, <1>4
<1>8. AheadOf(f) \union {w} \subseteq P /\ AheadOf(g) \subseteq P
  BY <1>1 DEF AheadOf
<1>9. CASE AheadOf(f) \union {w} = P
  <2>1. \A v, u \in P : g[v] = g[u]
    BY <1>7, <1>9
  <2>2. AheadOf(g) = {}
    BY <2>1, EvenSlot
  <2> QED BY <1>5, <1>6, <1>9, <2>2
<1>10. CASE AheadOf(f) \union {w} # P
  <2>1. PICK u \in P : u \notin AheadOf(f) \union {w}
    BY <1>8, <1>10
  <2>2. g[u] = f[w]
    BY <1>2, <1>3, <1>4, <2>1
  <2>3. \A v \in P : v \in AheadOf(g) <=> g[v] = f[w] + 1
    BY <1>1, <1>3, <1>5, <2>2 DEF AheadOf
  <2>4. AheadOf(g) = AheadOf(f) \union {w}
    BY <1>7, <1>8, <2>3
  <2> QED BY <1>5, <1>6, <1>10, <2>4
<1> QED BY <1>9, <1>10

\* The slot counts it.
LEMMA SlotCounts ==
  ASSUME NEW P, IsFiniteSet(P), NEW f \in [P -> Nat], Close(f),
         NEW w \in P, w \notin AheadOf(f),
         NEW g \in [P -> Nat], g[w] = f[w] + 1, \A v \in P : v # w => g[v] = f[v],
         NEW cnt, Cardinality(P) = cnt, NEW S,
         NEW stalls, stalls = S \intersect {w}
  PROVE  Arrival(SlotFor(f, S), cnt, stalls) = SlotFor(g, S)
<1> DEFINE A == AheadOf(f)
           A2 == A \union {w}
           slot == SlotFor(f, S)
<1>1. A \subseteq P /\ A2 \subseteq P /\ DOMAIN f = P /\ DOMAIN g = P
  BY DEF AheadOf
<1>2. AheadOf(g) = IF A2 = P THEN {} ELSE A2
  BY Counted
<1>3. IsFiniteSet(A) /\ Cardinality(A) \in Nat /\ cnt \in Nat
  BY <1>1, FS_Subset, FS_CardinalityType
<1>4. IsFiniteSet(A2) /\ Cardinality(A2) = Cardinality(A) + 1
  BY <1>3, FS_AddElement
<1>5. Cardinality(A2) <= cnt /\ (Cardinality(A2) = cnt => A2 = P)
  BY <1>1, FS_Subset
<1>6. slot.pending = Cardinality(A) /\ slot.waiting = A \intersect S
  <2>1. CASE A = {}
    BY <2>1, FS_EmptySet DEF SlotFor, FreeSlot
  <2>2. CASE A # {}
    BY <2>2 DEF SlotFor
  <2> QED BY <2>1, <2>2
<1>7. w \in A2
  OBVIOUS
<1>8. slot.waiting \union stalls = A2 \intersect S
  BY <1>6
<1>9. slot.pending + 1 = Cardinality(A2)
  BY <1>4, <1>6
<1> HIDE DEF A, A2, slot
<1>10. CASE A2 = P
  <2>1. slot.pending + 1 >= cnt
    BY <1>3, <1>9, <1>10
  <2> QED BY <1>2, <1>10, <2>1 DEF Arrival, SlotFor, slot
<1>11. CASE A2 # P
  <2>1. ~(slot.pending + 1 >= cnt)
    <3>1. Cardinality(A2) \in Nat
      BY <1>3, <1>4
    <3> QED BY <1>3, <1>5, <1>9, <1>11, <3>1
  <2>2. Arrival(slot, cnt, stalls)
          = [expected |-> cnt, pending |-> Cardinality(A2), waiting |-> A2 \intersect S]
    BY <1>8, <1>9, <2>1 DEF Arrival
  <2>3. SlotFor(g, S) = [expected |-> cnt, pending |-> Cardinality(A2), waiting |-> A2 \intersect S]
    BY <1>1, <1>2, <1>7, <1>11 DEF SlotFor
  <2> QED BY <2>2, <2>3 DEF slot
<1> QED BY <1>10, <1>11

\* A wave uses a barrier at most twice in an iteration.
LEMMA LevelsType ==
  ASSUME NEW b \in Ebar
  PROVE  /\ \A w, point, k : LevelAt(b, w, point, k) \in Nat
         /\ Levels(b) \in [UserWaves(b) -> Nat]
         /\ \A w \in UserWaves(b) : Levels(b)[w] = Level(b, w)
<1>1. \A w, point, k : LevelAt(b, w, point, k) \in Nat
  BY DEF Ebar, LevelAt
<1> QED BY <1>1 DEF Levels, Level

\* A synchronising wave that is not stalled is behind no other's barrier: every
\* wave has used the barrier as often as it.
LEMMA Unstalled ==
  ASSUME NEW b \in Ebar, BarrierOK(b), NEW w \in SyncWaves(b), w \notin ebar[b].waiting
  PROVE  /\ w \notin AheadOf(Levels(b))
         /\ \A v \in UserWaves(b) : Level(b, w) <= Level(b, v)
<1>1. w \in UserWaves(b)
  BY DEF UserWaves
<1>2. w \notin AheadOf(Levels(b))
  BY DEF BarrierOK, SlotFor
<1>3. \A v \in UserWaves(b) : ~(Level(b, v) < Level(b, w))
  BY <1>1, <1>2, LevelsType DEF AheadOf
<1>4. \A v \in UserWaves(b) : Level(b, v) \in Nat
  BY LevelsType DEF Level
<1> QED BY <1>1, <1>2, <1>3, <1>4

\* A wave that has used it no more often than any other is not ahead.
LEMMA NotAhead ==
  ASSUME NEW b \in Ebar, NEW w \in UserWaves(b),
         \A v \in UserWaves(b) : Level(b, w) <= Level(b, v)
  PROVE  w \notin AheadOf(Levels(b))
<1>1. \A v \in UserWaves(b) : Level(b, v) \in Nat
  BY LevelsType DEF Level
<1>2. \A v \in UserWaves(b) : ~(Level(b, v) < Level(b, w))
  BY <1>1
<1> QED BY <1>2, LevelsType DEF AheadOf

\* A barrier that is not used.
LEMMA BarrierSame ==
  ASSUME NEW b \in Ebar, BarrierOK(b), ebar'[b] = ebar[b],
         \A v \in UserWaves(b) : Level(b, v)' = Level(b, v),
         \A v \in AheadOf(Levels(b)) \intersect SyncWaves(b) : pc'[v] = pc[v]
  PROVE  BarrierOK(b)'
<1>1. Levels(b)' = Levels(b)
  BY DEF Levels
<1> QED BY <1>1 DEF BarrierOK

\* The arrival of wave w at a barrier.
Arrives(b, w) ==
  ebar'[b] = Arrival(ebar[b], WvCnt(b), IF w \in SyncWaves(b) THEN {w} ELSE {})

\* A barrier that one wave uses.
LEMMA BarrierUsed ==
  ASSUME NEW b \in Ebar, BarrierOK(b), NEW w \in UserWaves(b), w \notin AheadOf(Levels(b)),
         Arrives(b, w),
         Level(b, w)' = Level(b, w) + 1,
         \A v \in UserWaves(b) \ {w} : Level(b, v)' = Level(b, v) /\ pc'[v] = pc[v],
         w \in SyncWaves(b) => pc'[w] \in AfterSync(b)
  PROVE  BarrierOK(b)'
<1> DEFINE f == Levels(b)
           g == Levels(b)'
           P == UserWaves(b)
           S == SyncWaves(b)
<1>1. f \in [P -> Nat] /\ \A v \in P : f[v] = Level(b, v)
  BY LevelsType
<1>2. g \in [P -> Nat] /\ \A v \in P : g[v] = Level(b, v)'
  <2>1. \A v, point, k : LevelAt(b, v, point, k) \in Nat
    BY LevelsType
  <2> QED BY <2>1 DEF Levels, Level
<1>3. g[w] = f[w] + 1 /\ \A v \in P : v # w => g[v] = f[v]
  BY <1>1, <1>2
<1>4. IsFiniteSet(P) /\ Cardinality(P) = WvCnt(b)
  BY Users
<1>5. Close(f) /\ ebar[b] = SlotFor(f, S)
  BY DEF BarrierOK
<1>6. w \in P /\ w \notin AheadOf(f)
  OBVIOUS
<1>7. Arrives(b, w)
  OBVIOUS
<1> HIDE DEF f, g, P, S
<1>8. /\ Close(g)
      /\ AheadOf(g) = IF AheadOf(f) \union {w} = P THEN {} ELSE AheadOf(f) \union {w}
  BY <1>1, <1>2, <1>3, <1>4, <1>5, <1>6, Counted
<1>9. Arrival(SlotFor(f, S), WvCnt(b), IF w \in S THEN {w} ELSE {}) = SlotFor(g, S)
  <2> DEFINE cnt == WvCnt(b)
  <2>1. IsFiniteSet(P) /\ Cardinality(P) = cnt /\ Close(f)
    BY <1>4, <1>5
  <2>2. f \in [P -> Nat] /\ g \in [P -> Nat]
    BY <1>1, <1>2
  <2> DEFINE stalls == S \intersect {w}
  <2> HIDE DEF cnt
  <2>3. Arrival(SlotFor(f, S), cnt, stalls) = SlotFor(g, S)
    BY <1>3, <1>6, <2>1, <2>2, SlotCounts
  <2>4. stalls = IF w \in S THEN {w} ELSE {}
    OBVIOUS
  <2> QED BY <2>3, <2>4 DEF cnt
<1>10. ebar'[b] = SlotFor(g, S)
  BY <1>5, <1>7, <1>9 DEF Arrives, S
<1>11. \A v \in AheadOf(g) \intersect S : pc'[v] \in AfterSync(b)
  <2> SUFFICES ASSUME NEW v \in AheadOf(g), v \in S PROVE pc'[v] \in AfterSync(b)
    OBVIOUS
  <2>1. v \in AheadOf(f) \/ v = w
    BY <1>8
  <2>2. CASE v = w
    BY <2>2 DEF S
  <2>3. CASE v # w
    <3>1. v \in AheadOf(f) /\ v \in SyncWaves(b) /\ v \in UserWaves(b)
      BY <2>1, <2>3 DEF S, UserWaves
    <3>2. pc[v] \in AfterSync(b)
      BY <3>1 DEF BarrierOK, f
    <3> QED BY <2>3, <3>1, <3>2
  <2> QED BY <2>2, <2>3
<1> QED BY <1>8, <1>10, <1>11 DEF BarrierOK, g, S

\* A step of one wave that uses barrier b0, or none.
OneWave(w) ==
  /\ \A b \in Ebar : w \notin ebar[b].waiting
  /\ \A v \in Waves \ {w} : pc'[v] = pc[v] /\ n'[v] = n[v]
LevelsAfter(w, b0) ==
  \A b \in Ebar :
    w \in UserWaves(b) => Level(b, w)' = IF b = b0 THEN Level(b, w) + 1 ELSE Level(b, w)

\* Barriers that a step of one wave does not use.
LEMMA OtherBarriers ==
  ASSUME NEW w \in Waves, OneWave(w), NEW b \in Ebar, BarrierOK(b), ebar'[b] = ebar[b],
         w \in UserWaves(b) => Level(b, w)' = Level(b, w)
  PROVE  BarrierOK(b)'
<1>1. \A v \in UserWaves(b) : Level(b, v)' = Level(b, v)
  <2> SUFFICES ASSUME NEW v \in UserWaves(b), v # w PROVE Level(b, v)' = Level(b, v)
    OBVIOUS
  <2>1. v \in Waves
    BY Users
  <2> QED BY <2>1 DEF OneWave, Level
<1>2. \A v \in AheadOf(Levels(b)) \intersect SyncWaves(b) : pc'[v] = pc[v]
  <2> SUFFICES ASSUME NEW v \in AheadOf(Levels(b)), v \in SyncWaves(b) PROVE pc'[v] = pc[v]
    OBVIOUS
  <2>1. v \in UserWaves(b) /\ v \in Waves
    BY Users DEF UserWaves
  <2>2. v # w
    BY Unstalled DEF OneWave
  <2> QED BY <2>1, <2>2 DEF OneWave
<1> QED BY <1>1, <1>2, BarrierSame

\* A step of one wave that uses no barrier.
LEMMA NoBarrier ==
  ASSUME \A b \in Ebar : BarrierOK(b), NEW w \in Waves, OneWave(w), UNCHANGED ebar,
         LevelsAfter(w, "none")
  PROVE  \A b \in Ebar : BarrierOK(b)'
<1> SUFFICES ASSUME NEW b \in Ebar PROVE BarrierOK(b)'
  OBVIOUS
<1>1. w \in UserWaves(b) => Level(b, w)' = Level(b, w)
  BY DEF LevelsAfter, Ebar
<1> QED BY <1>1, OtherBarriers

\* A step of one wave that uses barrier b0.
LEMMA OneBarrier ==
  ASSUME ebar \in [Ebar -> EbarSlot],
         \A b \in Ebar : BarrierOK(b), NEW w \in Waves, OneWave(w), NEW b0 \in Ebar,
         \/ w \in SyncWaves(b0) /\ sync(b0, w) /\ pc'[w] \in AfterSync(b0)
         \/ w \in ArriveWaves(b0) /\ arrive(b0)
            /\ \A v \in UserWaves(b0) : Level(b0, w) <= Level(b0, v),
         LevelsAfter(w, b0)
  PROVE  \A b \in Ebar : BarrierOK(b)'
<1>1. w \in UserWaves(b0) /\ w \notin AheadOf(Levels(b0))
  BY Unstalled, NotAhead DEF UserWaves, OneWave
<1>2. /\ Arrives(b0, w)
      /\ w \in SyncWaves(b0) => pc'[w] \in AfterSync(b0)
      /\ \A b \in Ebar : b # b0 => ebar'[b] = ebar[b]
  BY Users DEF Arrives, sync, arrive, EbarSync, EbarArrive
<1>3. BarrierOK(b0)'
  <2>1. Level(b0, w)' = Level(b0, w) + 1
    BY <1>1 DEF LevelsAfter
  <2>2. \A v \in UserWaves(b0) \ {w} : Level(b0, v)' = Level(b0, v) /\ pc'[v] = pc[v]
    <3>1. UserWaves(b0) \subseteq Waves
      BY Users
    <3> QED BY <3>1 DEF OneWave, Level
  <2> QED BY <1>1, <1>2, <2>1, <2>2, BarrierUsed
<1>4. ASSUME NEW b \in Ebar, b # b0 PROVE BarrierOK(b)'
  <2>1. w \in UserWaves(b) => Level(b, w)' = Level(b, w)
    BY <1>4 DEF LevelsAfter
  <2> QED BY <1>2, <1>4, <2>1, OtherBarriers
<1> QED BY <1>3, <1>4

(***************************************************************************)
(* The waves within an iteration.                                          *)
(***************************************************************************)

\* A step of one wave within its iteration.
LEMMA WalkOn ==
  ASSUME NEW t, NEW k, Walking(t, k), NEW w \in Waves,
         \A v \in Waves \ {w} : pc'[v] = pc[v] /\ n'[v] = n[v],
         UNCHANGED tile_idx, InIteration(w, k)', PointOK(w)', \A b \in Ebar : BarrierOK(b)'
  PROVE  Walking(t, k)'
<1>1. \A v \in Waves \ {w} : (InIteration(v, k) /\ PointOK(v))'
  BY DEF Walking, InIteration, PointOK
<1> QED BY <1>1 DEF Walking

\* A producer wave that goes to notify of the next tiles knows that all have
\* passed the barriers before the loop.
LEMMA SecondUse ==
  ASSUME NEW t, NEW k \in Nat, Walking(t, k), NEW p \in Producer,
         At(p, "load_sh") \/ At(p, "load_pr_major"),
         NEW v \in Producer \union Major
  PROVE  1 <= Level("load_sh", v) /\ 1 <= Level("load_pr_major", v)
<1>1. p \in Waves /\ v \in Waves
  BY Groups
<1>2. pc[v] \notin {"initial", "first_sh", "first_pr_major", "first_read"}
  <2>1. CASE k = 0
    <3>1. ~IsTailLoop(0)
      BY LoopNumbers DEF LoopShape, IsTailLoop
    <3>2. n[p] = 0
      BY <1>1, <2>1 DEF Walking, InIteration, At
    <3>3. Level("free_sh", p) = 1
      BY <3>1, <3>2, Groups DEF Level, LevelAt, At
    <3>4. /\ "free_sh" \in Ebar /\ p \in SyncWaves("free_sh") /\ p \notin ebar["free_sh"].waiting
          /\ v \in UserWaves("free_sh")
      BY Groups DEF Ebar, SyncWaves, UserWaves, ArriveWaves, At
    <3>5. Level("free_sh", p) <= Level("free_sh", v)
      BY <3>4, Unstalled DEF Walking
    <3> QED BY <3>3, <3>5 DEF Level, LevelAt
  <2>2. CASE k # 0
    BY <1>1, <2>2 DEF Walking, InIteration, PointOK
  <2> QED BY <2>1, <2>2
<1> QED BY <1>2 DEF Level, LevelAt

\* Producer waves.
LEMMA ProducerWalks ==
  ASSUME TypeInv, NEW t, NEW k \in Nat, Walking(t, k), NEW p \in Producer, ProducerStep(p)
  PROVE  Walking(t, k)'
<1>0. /\ p \in Waves /\ p \notin Compute /\ p \notin Major /\ p \notin Minor
      /\ pc \in [Waves -> Point] /\ n \in [Waves -> Nat] /\ ebar \in [Ebar -> EbarSlot]
  BY Groups DEF TypeInv, TypeOK, EbarSlot
<1>1. /\ InIteration(p, k) /\ PointOK(p)
      /\ \A b \in Ebar : BarrierOK(b)
  BY <1>0 DEF Walking
<1>2. UNCHANGED tile_idx
  BY DEF ProducerStep, IssueInitial, NotifyFirstSh, NotifyFirstPrMajor, NotifyPrMinor,
     AwaitFreeSh, AwaitFreePrMajor, IssueShPrMajor, AwaitFreePrMinor, IssuePrMinor,
     NotifySh, NotifyPrMajor
<1>3. OneWave(p)
  BY <1>0 DEF OneWave, At, Goto, ProducerStep, IssueInitial, NotifyFirstSh, NotifyFirstPrMajor,
     NotifyPrMinor, AwaitFreeSh, AwaitFreePrMajor, IssueShPrMajor, AwaitFreePrMinor,
     IssuePrMinor, NotifySh, NotifyPrMajor
<1>4. ASSUME NEW b0 \in Ebar, LevelsAfter(p, b0), InIteration(p, k)', PointOK(p)',
             \/ p \in SyncWaves(b0) /\ sync(b0, p) /\ pc'[p] \in AfterSync(b0)
             \/ p \in ArriveWaves(b0) /\ arrive(b0)
                /\ \A v \in UserWaves(b0) : Level(b0, p) <= Level(b0, v)
      PROVE  Walking(t, k)'
  <2>1. \A b \in Ebar : BarrierOK(b)'
    BY <1>0, <1>1, <1>3, <1>4, OneBarrier
  <2> QED BY <1>0, <1>2, <1>3, <1>4, <2>1, WalkOn DEF OneWave
<1>5. ASSUME LevelsAfter(p, "none"), InIteration(p, k)', PointOK(p)', UNCHANGED ebar
      PROVE  Walking(t, k)'
  <2>1. \A b \in Ebar : BarrierOK(b)'
    BY <1>0, <1>1, <1>3, <1>5, NoBarrier
  <2> QED BY <1>0, <1>2, <1>3, <1>5, <2>1, WalkOn DEF OneWave
<1>6. \A b \in Ebar : Level(b, p) = 0 => \A v \in UserWaves(b) : Level(b, p) <= Level(b, v)
  <2> SUFFICES ASSUME NEW b \in Ebar, NEW v \in UserWaves(b), Level(b, p) = 0 PROVE 0 <= Level(b, v)
    OBVIOUS
  <2>1. Level(b, v) \in Nat
    BY LevelsType DEF Level
  <2> QED BY <2>1
<1> USE DEF At, Goto
<1>10. CASE IssueInitial(p)
  <2>1. /\ pc[p] = "initial" /\ pc'[p] \in {"initial", "first_sh"}
        /\ pc'[p] = "first_sh" => n'[p] = 0
        /\ UNCHANGED ebar
    BY <1>0, <1>10 DEF IssueInitial
  <2>2. k = 0
    BY <1>1, <2>1 DEF InIteration
  <2>3. InIteration(p, k)' /\ PointOK(p)'
    BY <1>0, <2>1, <2>2 DEF InIteration, PointOK, ProgramPoint
  <2>4. LevelsAfter(p, "none")
    BY <1>0, <2>1 DEF LevelsAfter, Level, LevelAt, Ebar
  <2> QED BY <1>5, <2>1, <2>3, <2>4
<1>11. CASE NotifyFirstSh(p)
  <2>1. pc[p] = "first_sh" /\ pc'[p] = "first_pr_major" /\ n' = n /\ arrive("load_sh")
    BY <1>0, <1>11 DEF NotifyFirstSh
  <2>2. InIteration(p, k)' /\ PointOK(p)'
    BY <1>0, <1>1, <2>1 DEF InIteration, PointOK, ProgramPoint
  <2>3. LevelsAfter(p, "load_sh")
    BY <1>0, <2>1 DEF LevelsAfter, Level, LevelAt, Ebar
  <2>4. "load_sh" \in Ebar /\ p \in ArriveWaves("load_sh") /\ Level("load_sh", p) = 0
    BY <2>1 DEF Ebar, ArriveWaves, Level, LevelAt
  <2> QED BY <1>4, <1>6, <2>1, <2>2, <2>3, <2>4
<1>12. CASE NotifyFirstPrMajor(p)
  <2>1. pc[p] = "first_pr_major" /\ pc'[p] = "load_pr_minor" /\ n' = n /\ arrive("load_pr_major")
    BY <1>0, <1>12 DEF NotifyFirstPrMajor
  <2>2. InIteration(p, k)' /\ PointOK(p)'
    BY <1>0, <1>1, <2>1 DEF InIteration, PointOK, ProgramPoint
  <2>3. LevelsAfter(p, "load_pr_major")
    BY <1>0, <2>1 DEF LevelsAfter, Level, LevelAt, Ebar
  <2>4. "load_pr_major" \in Ebar /\ p \in ArriveWaves("load_pr_major") /\ Level("load_pr_major", p) = 0
    BY <2>1 DEF Ebar, ArriveWaves, Level, LevelAt
  <2> QED BY <1>4, <1>6, <2>1, <2>2, <2>3, <2>4
<1>13. CASE NotifyPrMinor(p)
  <2>1. /\ pc[p] = "load_pr_minor" /\ n' = n /\ arrive("load_pr_minor")
        /\ pc'[p] = IF IsTailLoop(n[p]) THEN AfterIssue(n[p]) ELSE "free_sh"
    BY <1>0, <1>13, PointAfterIssue DEF NotifyPrMinor
  <2>2. InIteration(p, k)' /\ PointOK(p)'
    BY <1>0, <1>1, <2>1 DEF InIteration, PointOK, ProgramPoint, AfterIssue
  <2>3. LevelsAfter(p, "load_pr_minor")
    BY <1>0, <2>1 DEF LevelsAfter, Level, LevelAt, Ebar, AfterIssue
  <2>4. "load_pr_minor" \in Ebar /\ p \in ArriveWaves("load_pr_minor") /\ Level("load_pr_minor", p) = 0
    BY <2>1 DEF Ebar, ArriveWaves, Level, LevelAt
  <2> QED BY <1>4, <1>6, <2>1, <2>2, <2>3, <2>4
<1>14. CASE AwaitFreeSh(p)
  <2>1. pc[p] = "free_sh" /\ pc'[p] = "free_pr_major" /\ n' = n /\ sync("free_sh", p)
    BY <1>0, <1>14 DEF AwaitFreeSh
  <2>2. InIteration(p, k)' /\ PointOK(p)' /\ ~IsTailLoop(n[p])
    BY <1>0, <1>1, <2>1 DEF InIteration, PointOK, ProgramPoint
  <2>3. LevelsAfter(p, "free_sh")
    BY <1>0, <2>1, <2>2 DEF LevelsAfter, Level, LevelAt, Ebar
  <2>4. "free_sh" \in Ebar /\ p \in SyncWaves("free_sh") /\ pc'[p] \in AfterSync("free_sh")
    BY <2>1 DEF Ebar, SyncWaves, AfterSync
  <2> QED BY <1>4, <2>1, <2>2, <2>3, <2>4
<1>15. CASE AwaitFreePrMajor(p)
  <2>1. pc[p] = "free_pr_major" /\ pc'[p] = "issue" /\ n' = n /\ sync("free_pr_major", p)
    BY <1>0, <1>15 DEF AwaitFreePrMajor
  <2>2. InIteration(p, k)' /\ PointOK(p)' /\ ~IsTailLoop(n[p])
    BY <1>0, <1>1, <2>1 DEF InIteration, PointOK, ProgramPoint
  <2>3. LevelsAfter(p, "free_pr_major")
    BY <1>0, <2>1, <2>2 DEF LevelsAfter, Level, LevelAt, Ebar
  <2>4. "free_pr_major" \in Ebar /\ p \in SyncWaves("free_pr_major") /\ pc'[p] \in AfterSync("free_pr_major")
    BY <2>1 DEF Ebar, SyncWaves, AfterSync
  <2> QED BY <1>4, <2>1, <2>2, <2>3, <2>4
<1>16. CASE IssueShPrMajor(p)
  <2>1. pc[p] = "issue" /\ pc'[p] = "free_pr_minor" /\ n' = n /\ UNCHANGED ebar
    BY <1>0, <1>16 DEF IssueShPrMajor
  <2>2. InIteration(p, k)' /\ PointOK(p)'
    BY <1>0, <1>1, <2>1 DEF InIteration, PointOK, ProgramPoint
  <2>3. LevelsAfter(p, "none")
    BY <1>0, <2>1 DEF LevelsAfter, Level, LevelAt, Ebar
  <2> QED BY <1>5, <2>1, <2>2, <2>3
<1>17. CASE AwaitFreePrMinor(p)
  <2>1. pc[p] = "free_pr_minor" /\ pc'[p] = "issue_pr_minor" /\ n' = n /\ sync("free_pr_minor", p)
    BY <1>0, <1>17 DEF AwaitFreePrMinor
  <2>2. InIteration(p, k)' /\ PointOK(p)' /\ ~IsTailLoop(n[p])
    BY <1>0, <1>1, <2>1 DEF InIteration, PointOK, ProgramPoint
  <2>3. LevelsAfter(p, "free_pr_minor")
    BY <1>0, <2>1, <2>2 DEF LevelsAfter, Level, LevelAt, Ebar
  <2>4. "free_pr_minor" \in Ebar /\ p \in SyncWaves("free_pr_minor") /\ pc'[p] \in AfterSync("free_pr_minor")
    BY <2>1 DEF Ebar, SyncWaves, AfterSync
  <2> QED BY <1>4, <2>1, <2>2, <2>3, <2>4
<1>18. CASE IssuePrMinor(p)
  <2>1. pc[p] = "issue_pr_minor" /\ pc'[p] = AfterIssue(n[p]) /\ n' = n /\ UNCHANGED ebar
    BY <1>0, <1>18 DEF IssuePrMinor
  <2>2. InIteration(p, k)' /\ PointOK(p)'
    BY <1>0, <1>1, <2>1 DEF InIteration, PointOK, ProgramPoint, AfterIssue
  <2>3. LevelsAfter(p, "none")
    BY <1>0, <2>1 DEF LevelsAfter, Level, LevelAt, Ebar, AfterIssue
  <2> QED BY <1>5, <2>1, <2>2, <2>3
<1>19. CASE NotifySh(p)
  <2>1. pc[p] = "load_sh" /\ pc'[p] = "load_pr_major" /\ n' = n /\ arrive("load_sh")
    BY <1>0, <1>19 DEF NotifySh
  <2>2. InIteration(p, k)' /\ PointOK(p)' /\ ~IsLastLoop(n[p])
    BY <1>0, <1>1, <2>1 DEF InIteration, PointOK, ProgramPoint
  <2>3. LevelsAfter(p, "load_sh")
    BY <1>0, <2>1, <2>2 DEF LevelsAfter, Level, LevelAt, Ebar
  <2>4. "load_sh" \in Ebar /\ p \in ArriveWaves("load_sh") /\ Level("load_sh", p) = 1
        /\ UserWaves("load_sh") = Producer \union Major
    BY <2>1 DEF Ebar, ArriveWaves, SyncWaves, UserWaves, Level, LevelAt
  <2>5. At(p, "load_sh")
    BY <1>19 DEF NotifySh
  <2>6. \A v \in UserWaves("load_sh") : Level("load_sh", p) <= Level("load_sh", v)
    BY <2>4, <2>5, SecondUse
  <2> QED BY <1>4, <2>1, <2>2, <2>3, <2>4, <2>6
<1>20. CASE NotifyPrMajor(p)
  <2>1. pc[p] = "load_pr_major" /\ pc'[p] = "tg" /\ n' = n /\ arrive("load_pr_major")
    BY <1>0, <1>20 DEF NotifyPrMajor
  <2>2. InIteration(p, k)' /\ PointOK(p)' /\ ~IsLastLoop(n[p])
    BY <1>0, <1>1, <2>1 DEF InIteration, PointOK, ProgramPoint
  <2>3. LevelsAfter(p, "load_pr_major")
    BY <1>0, <2>1, <2>2 DEF LevelsAfter, Level, LevelAt, Ebar
  <2>4. "load_pr_major" \in Ebar /\ p \in ArriveWaves("load_pr_major") /\ Level("load_pr_major", p) = 1
        /\ UserWaves("load_pr_major") = Producer \union Major
    BY <2>1 DEF Ebar, ArriveWaves, SyncWaves, UserWaves, Level, LevelAt
  <2>5. At(p, "load_pr_major")
    BY <1>20 DEF NotifyPrMajor
  <2>6. \A v \in UserWaves("load_pr_major") : Level("load_pr_major", p) <= Level("load_pr_major", v)
    BY <2>4, <2>5, SecondUse
  <2> QED BY <1>4, <2>1, <2>2, <2>3, <2>4, <2>6
<1> QED BY <1>10, <1>11, <1>12, <1>13, <1>14, <1>15, <1>16, <1>17, <1>18, <1>19, <1>20
        DEF ProducerStep

\* A compute wave's steps.
ComputeStep(c) ==
  \/ c \in Major /\ MajorStep(c)
  \/ c \in Minor /\ MinorStep(c)

\* Compute waves.
LEMMA ComputeWalks ==
  ASSUME TypeInv, NEW t, NEW k \in Nat, Walking(t, k), NEW c \in Compute, ComputeStep(c)
  PROVE  Walking(t, k)'
<1>0. /\ c \in Waves /\ c \notin Producer /\ (c \in Major <=> c \notin Minor)
      /\ pc \in [Waves -> Point] /\ n \in [Waves -> Nat] /\ ebar \in [Ebar -> EbarSlot]
  BY Groups DEF TypeInv, TypeOK, EbarSlot
<1>1. /\ InIteration(c, k) /\ PointOK(c)
      /\ \A b \in Ebar : BarrierOK(b)
  BY <1>0 DEF Walking
<1>2. UNCHANGED tile_idx /\ n' = n
  BY DEF ComputeStep, MajorStep, MinorStep, AwaitSh, AwaitPrMajor, ReadMajor, AwaitPrMinor,
     ReadMinor, FenceAndFreeSh, FreePrivate
<1>3. OneWave(c)
  BY <1>0 DEF OneWave, At, Goto, ComputeStep, MajorStep, MinorStep, AwaitSh, AwaitPrMajor,
     ReadMajor, AwaitPrMinor, ReadMinor, FenceAndFreeSh, FreePrivate
<1>4. ASSUME NEW b0 \in Ebar, LevelsAfter(c, b0), InIteration(c, k)', PointOK(c)',
             \/ c \in SyncWaves(b0) /\ sync(b0, c) /\ pc'[c] \in AfterSync(b0)
             \/ c \in ArriveWaves(b0) /\ arrive(b0) /\ Level(b0, c) = 0
      PROVE  Walking(t, k)'
  <2>1. Level(b0, c) = 0 => \A v \in UserWaves(b0) : Level(b0, c) <= Level(b0, v)
    <3> SUFFICES ASSUME NEW v \in UserWaves(b0), Level(b0, c) = 0 PROVE 0 <= Level(b0, v)
      OBVIOUS
    <3>1. Level(b0, v) \in Nat
      BY LevelsType DEF Level
    <3> QED BY <3>1
  <2>2. \A b \in Ebar : BarrierOK(b)'
    BY <1>0, <1>1, <1>3, <1>4, <2>1, OneBarrier
  <2> QED BY <1>0, <1>2, <1>3, <1>4, <2>2, WalkOn DEF OneWave
<1>5. ASSUME LevelsAfter(c, "none"), InIteration(c, k)', PointOK(c)', UNCHANGED ebar
      PROVE  Walking(t, k)'
  <2>1. \A b \in Ebar : BarrierOK(b)'
    BY <1>0, <1>1, <1>3, <1>5, NoBarrier
  <2> QED BY <1>0, <1>2, <1>3, <1>5, <2>1, WalkOn DEF OneWave
<1> USE DEF At, Goto
<1>10. CASE c \in Major /\ AwaitSh(c)
  <2>1. /\ <<pc[c], pc'[c]>> \in {<<"first_sh", "first_pr_major">>, <<"load_sh", "load_pr_major">>}
        /\ sync("load_sh", c)
    BY <1>0, <1>10 DEF AwaitSh
  <2>2. InIteration(c, k)' /\ PointOK(c)' /\ (pc[c] = "load_sh" => ~IsLastLoop(n[c]))
    BY <1>0, <1>1, <1>2, <1>10, <2>1 DEF InIteration, PointOK, ProgramPoint
  <2>3. LevelsAfter(c, "load_sh")
    BY <1>0, <1>2, <1>10, <2>1, <2>2 DEF LevelsAfter, Level, LevelAt, Ebar
  <2>4. "load_sh" \in Ebar /\ c \in SyncWaves("load_sh") /\ pc'[c] \in AfterSync("load_sh")
    BY <1>10, <2>1 DEF Ebar, SyncWaves, AfterSync
  <2> QED BY <1>4, <2>1, <2>2, <2>3, <2>4
<1>11. CASE c \in Major /\ AwaitPrMajor(c)
  <2>1. /\ <<pc[c], pc'[c]>> \in {<<"first_pr_major", "first_read">>, <<"load_pr_major", "read">>}
        /\ sync("load_pr_major", c)
    BY <1>0, <1>11 DEF AwaitPrMajor
  <2>2. InIteration(c, k)' /\ PointOK(c)' /\ (pc[c] = "load_pr_major" => ~IsLastLoop(n[c]))
    BY <1>0, <1>1, <1>2, <1>11, <2>1 DEF InIteration, PointOK, ProgramPoint
  <2>3. ~IsTailLoop(0)
    BY LoopNumbers DEF LoopShape, IsTailLoop
  <2>4. LevelsAfter(c, "load_pr_major")
    BY <1>0, <1>1, <1>2, <1>11, <2>1, <2>2, <2>3
       DEF LevelsAfter, Level, LevelAt, Ebar, UserWaves, ArriveWaves, SyncWaves, PointOK
  <2>5. "load_pr_major" \in Ebar /\ c \in SyncWaves("load_pr_major") /\ pc'[c] \in AfterSync("load_pr_major")
    BY <1>11, <2>1 DEF Ebar, SyncWaves, AfterSync
  <2> QED BY <1>4, <2>1, <2>2, <2>4, <2>5
<1>12. CASE c \in Major /\ ReadMajor(c)
  <2>1. /\ <<pc[c], pc'[c]>> \in {<<"first_read", "fence">>, <<"read", "tg">>}
        /\ UNCHANGED ebar
    BY <1>0, <1>12 DEF ReadMajor
  <2>2. InIteration(c, k)' /\ PointOK(c)'
    BY <1>0, <1>1, <1>2, <1>12, <2>1 DEF InIteration, PointOK, ProgramPoint
  <2>3. LevelsAfter(c, "none")
    BY <1>0, <1>2, <1>12, <2>1 DEF LevelsAfter, Level, LevelAt, Ebar, UserWaves, ArriveWaves, SyncWaves
  <2> QED BY <1>5, <2>1, <2>2, <2>3
<1>13. CASE c \in Minor /\ AwaitPrMinor(c)
  <2>1. pc[c] = "load_pr_minor" /\ pc'[c] = "read" /\ sync("load_pr_minor", c)
    BY <1>0, <1>13 DEF AwaitPrMinor
  <2>2. InIteration(c, k)' /\ PointOK(c)'
    BY <1>0, <1>1, <1>2, <1>13, <2>1 DEF InIteration, PointOK, ProgramPoint
  <2>3. LevelsAfter(c, "load_pr_minor")
    BY <1>0, <1>2, <1>13, <2>1 DEF LevelsAfter, Level, LevelAt, Ebar, UserWaves, ArriveWaves, SyncWaves
  <2>4. "load_pr_minor" \in Ebar /\ c \in SyncWaves("load_pr_minor") /\ pc'[c] \in AfterSync("load_pr_minor")
    BY <1>13, <2>1 DEF Ebar, SyncWaves, AfterSync
  <2> QED BY <1>4, <2>1, <2>2, <2>3, <2>4
<1>14. CASE c \in Minor /\ ReadMinor(c)
  <2>1. pc[c] = "read" /\ pc'[c] = "fence" /\ UNCHANGED ebar
    BY <1>0, <1>14 DEF ReadMinor
  <2>2. InIteration(c, k)' /\ PointOK(c)'
    BY <1>0, <1>1, <1>2, <1>14, <2>1 DEF InIteration, PointOK, ProgramPoint
  <2>3. LevelsAfter(c, "none")
    BY <1>0, <1>2, <1>14, <2>1 DEF LevelsAfter, Level, LevelAt, Ebar, UserWaves, ArriveWaves, SyncWaves
  <2> QED BY <1>5, <2>1, <2>2, <2>3
<1>15. CASE FenceAndFreeSh(c)
  <2>1. /\ pc[c] = "fence"
        /\ IF IsTailLoop(n[c]) THEN pc'[c] = AfterProduct(c) /\ UNCHANGED ebar
           ELSE pc'[c] = "free_private" /\ arrive("free_sh")
    BY <1>0, <1>15 DEF FenceAndFreeSh
  <2>2. InIteration(c, k)' /\ PointOK(c)'
    BY <1>0, <1>1, <1>2, <2>1 DEF InIteration, PointOK, ProgramPoint, AfterProduct
  <2>3. CASE IsTailLoop(n[c])
    <3>1. LevelsAfter(c, "none")
      BY <1>0, <1>2, <2>1, <2>3
         DEF LevelsAfter, Level, LevelAt, Ebar, UserWaves, ArriveWaves, SyncWaves, AfterProduct
    <3> QED BY <1>5, <2>1, <2>2, <2>3, <3>1
  <2>4. CASE ~IsTailLoop(n[c])
    <3>1. LevelsAfter(c, "free_sh")
      BY <1>0, <1>2, <2>1, <2>4
         DEF LevelsAfter, Level, LevelAt, Ebar, UserWaves, ArriveWaves, SyncWaves
    <3>2. "free_sh" \in Ebar /\ c \in ArriveWaves("free_sh") /\ Level("free_sh", c) = 0
      BY <2>1 DEF Ebar, ArriveWaves, Level, LevelAt
    <3> QED BY <1>4, <2>1, <2>2, <2>4, <3>1, <3>2
  <2> QED BY <2>3, <2>4
<1>16. CASE FreePrivate(c)
  <2> DEFINE b0 == IF c \in Major THEN "free_pr_major" ELSE "free_pr_minor"
  <2>1. pc[c] = "free_private" /\ pc'[c] = AfterProduct(c) /\ arrive(b0)
    BY <1>0, <1>16 DEF FreePrivate
  <2>2. InIteration(c, k)' /\ PointOK(c)' /\ ~IsTailLoop(n[c])
    BY <1>0, <1>1, <1>2, <2>1 DEF InIteration, PointOK, ProgramPoint, AfterProduct
  <2>3. LevelsAfter(c, b0)
    BY <1>0, <1>2, <2>1, <2>2
       DEF LevelsAfter, Level, LevelAt, Ebar, UserWaves, ArriveWaves, SyncWaves, AfterProduct
  <2>4. b0 \in Ebar /\ c \in ArriveWaves(b0) /\ Level(b0, c) = 0
    BY <1>0, <2>1 DEF Ebar, ArriveWaves, Level, LevelAt
  <2> QED BY <1>4, <2>1, <2>2, <2>3, <2>4
<1> QED BY <1>10, <1>11, <1>12, <1>13, <1>14, <1>15, <1>16 DEF ComputeStep, MajorStep, MinorStep

\* A free slot that all have used equally often.
LEMMA EvenBarrier ==
  ASSUME NEW b \in Ebar, (ebar[b] = FreeSlot)',
         (\A w, v \in UserWaves(b) : Level(b, w) = Level(b, v))'
  PROVE  BarrierOK(b)'
<1> DEFINE f == Levels(b)'
           P == UserWaves(b)
<1>1. f \in [P -> Nat] /\ \A w \in P : f[w] = Level(b, w)'
  <2>1. \A w, point, k : LevelAt(b, w, point, k) \in Nat
    BY LevelsType
  <2> QED BY <2>1 DEF Levels, Level
<1> HIDE DEF f
<1>2. \A w, v \in P : f[w] = f[v]
  BY <1>1
<1> HIDE DEF P
<1>3. AheadOf(f) = {} /\ Close(f) /\ SlotFor(f, SyncWaves(b)) = FreeSlot
  BY <1>1, <1>2, EvenSlot
<1> QED BY <1>3 DEF BarrierOK, f

\* At the work group barrier that ends an iteration all slots are free.
LEMMA FreeAtBarrier ==
  ASSUME TypeInv, NEW t, NEW k \in Nat, Walking(t, k), \A w \in Waves : pc[w] = "tg"
  PROVE  /\ \A w \in Waves : n[w] = k
         /\ \A b \in Ebar : ebar[b] = FreeSlot
<1>1. \A w \in Waves : n[w] = k
  BY DEF Walking, InIteration
<1> SUFFICES ASSUME NEW b \in Ebar PROVE ebar[b] = FreeSlot
  BY <1>1
<1>2. UserWaves(b) \subseteq Waves
  BY Users
<1>3. \A w, v \in UserWaves(b) : Level(b, w) = Level(b, v)
  <2> SUFFICES ASSUME NEW w \in UserWaves(b), NEW v \in UserWaves(b)
               PROVE  Level(b, w) = Level(b, v)
    OBVIOUS
  <2>1. pc[w] = "tg" /\ pc[v] = "tg" /\ n[w] = k /\ n[v] = k
    BY <1>1, <1>2
  <2> QED BY <2>1 DEF Level, LevelAt, Ebar
<1> DEFINE f == Levels(b)
           P == UserWaves(b)
<1>4. f \in [P -> Nat] /\ \A w, v \in P : f[w] = f[v]
  BY <1>3, LevelsType
<1>5. ebar[b] = SlotFor(f, SyncWaves(b))
  BY DEF Walking, BarrierOK
<1> HIDE DEF f, P
<1> QED BY <1>4, <1>5, EvenSlot

\* The barrier lets all into their first iteration.
LEMMA WalkIn ==
  ASSUME TypeInv, NEW t, Entering(t), WgSync
  PROVE  Walking(t, 0)'
<1>0. pc \in [Waves -> Point] /\ n \in [Waves -> Nat]
  BY DEF TypeInv, TypeOK
<1>1. \A w \in Waves :
        /\ pc'[w] = IF w \in Producer THEN "initial"
                    ELSE IF w \in Major THEN "first_sh" ELSE "load_pr_minor"
        /\ n'[w] = 0 /\ tile_idx'[w] = t
  BY DEF Entering, WgSync, Resume, LoopStart
<1>2. \A w \in Waves : InIteration(w, 0)' /\ PointOK(w)'
  <2> SUFFICES ASSUME NEW w \in Waves PROVE InIteration(w, 0)' /\ PointOK(w)'
    OBVIOUS
  <2> QED BY <1>1 DEF InIteration, PointOK, ProgramPoint
<1>3. \A b \in Ebar : BarrierOK(b)'
  <2> SUFFICES ASSUME NEW b \in Ebar PROVE BarrierOK(b)'
    OBVIOUS
  <2>1. UserWaves(b) \subseteq Waves
    BY Users
  <2>2. \A w, v \in UserWaves(b) : Level(b, w)' = Level(b, v)'
    <3> SUFFICES ASSUME NEW w \in UserWaves(b), NEW v \in UserWaves(b)
                 PROVE  Level(b, w)' = Level(b, v)'
      OBVIOUS
    <3>1. \A x \in {w, v} : /\ n'[x] = 0
                            /\ pc'[x] = IF x \in Producer THEN "initial"
                                        ELSE IF x \in Major THEN "first_sh" ELSE "load_pr_minor"
      BY <1>1, <2>1
    <3> QED BY <3>1, Groups
            DEF Level, LevelAt, Ebar, UserWaves, ArriveWaves, SyncWaves
  <2>3. ebar'[b] = FreeSlot
    BY DEF WgSync, Entering
  <2> QED BY <2>2, <2>3, EvenBarrier
<1> QED BY <1>1, <1>2, <1>3 DEF Walking

\* It lets all into their next iteration, or out of the last one.
LEMMA WalkAcross ==
  ASSUME TypeInv, NEW t, NEW k \in Nat, Walking(t, k), WgSync
  PROVE  /\ \A w \in Waves : pc[w] = "tg" /\ n[w] = k /\ tile_idx'[w] = t
         /\ \A w \in Waves : n'[w] = k + 1 /\ pc'[w] = IF IsLastLoop(k) THEN "done" ELSE LoopStart(w)
         /\ \A b \in Ebar : ebar'[b] = FreeSlot
         /\ ~IsLastLoop(k) => Walking(t, k + 1)'
<1>0. pc \in [Waves -> Point] /\ n \in [Waves -> Nat]
  BY DEF TypeInv, TypeOK
<1>1. \A w \in Waves : pc[w] = "tg"
  BY DEF WgSync, Walking, InIteration
<1>2. /\ \A w \in Waves : n[w] = k
      /\ \A b \in Ebar : ebar[b] = FreeSlot
  BY <1>1, FreeAtBarrier
<1>3. /\ \A w \in Waves :
           n'[w] = k + 1 /\ pc'[w] = IF IsLastLoop(k) THEN "done" ELSE LoopStart(w)
      /\ \A w \in Waves : tile_idx'[w] = t
      /\ \A b \in Ebar : ebar'[b] = FreeSlot
  BY <1>1, <1>2 DEF WgSync, Resume, Walking
<1>4. ASSUME ~IsLastLoop(k) PROVE Walking(t, k + 1)'
  <2>1. \A w \in Waves : n'[w] = k + 1 /\ pc'[w] = IF w \in Major THEN "fence" ELSE "load_pr_minor"
    BY <1>3, <1>4 DEF LoopStart
  <2>2. \A w \in Waves : InIteration(w, k + 1)' /\ PointOK(w)'
    <3> SUFFICES ASSUME NEW w \in Waves PROVE InIteration(w, k + 1)' /\ PointOK(w)'
      OBVIOUS
    <3> QED BY <2>1, Groups DEF InIteration, PointOK, ProgramPoint
  <2>3. \A b \in Ebar : BarrierOK(b)'
    <3> SUFFICES ASSUME NEW b \in Ebar PROVE BarrierOK(b)'
      OBVIOUS
    <3>1. UserWaves(b) \subseteq Waves
      BY Users
    <3>2. \A w, v \in UserWaves(b) : Level(b, w)' = Level(b, v)'
      <4> SUFFICES ASSUME NEW w \in UserWaves(b), NEW v \in UserWaves(b)
                   PROVE  Level(b, w)' = Level(b, v)'
        OBVIOUS
      <4>1. \A x \in {w, v} :
              n'[x] = k + 1 /\ pc'[x] = IF x \in Major THEN "fence" ELSE "load_pr_minor"
        BY <2>1, <3>1
      <4> QED BY <4>1, Groups
              DEF Level, LevelAt, Ebar, UserWaves, ArriveWaves, SyncWaves
    <3> QED BY <1>3, <3>2, EvenBarrier
  <2> QED BY <1>3, <2>2, <2>3 DEF Walking
<1> QED BY <1>1, <1>2, <1>3, <1>4

(***************************************************************************)
(* The loads of a producer wave.                                           *)
(***************************************************************************)
\* The queue of a wave, with the ring's stages and the order of the operands.
RingQueue(q, l, p, t, issued, lo, top) ==
  Queue(q, l, p, t, issued, lo, top, NumLdsStages, OperandEnd)

\* A ring of stages; all the numbers that describe a queue are integers.
LEMMA QueueNumbers ==
  /\ NumLdsStages \in 1 .. NumLdsStages /\ NumLdsStages \in Nat \ {0}
  /\ OperandEnd \in [Operand -> Int]
  /\ \A k \in Int, m \in Int : FromTile(k, m) \in [Operand -> Int]
  /\ \A k \in Int : LastTile(k) \in Int /\ LastTile(k) <= k /\ LastTile(k) < NumIter
<1>1. LoopShape
  BY LoopNumbers
<1>2. OperandEnd \in [Operand -> Int]
  BY Counts DEF OperandEnd
<1> QED BY <1>1, <1>2 DEF LoopShape, FromTile, LastTile

\* What a producer wave's numbers are in an iteration.
LEMMA OwnNumbers ==
  ASSUME TypeInv, NEW p \in Producer
  PROVE  /\ n[p] \in Nat /\ LastOf(p) \in Int /\ Issued(p) \in Int
         /\ Top(p) \in [Operand -> Int] /\ Floor(p) \in [Operand -> Int]
<1>1. n[p] \in Nat
  BY DEF TypeInv, TypeOK, Waves
<1>2. LastOf(p) \in Int
  <2>1. NumLdsStages \in Nat
    BY QueueNumbers
  <2>2. n[p] + NumLdsStages \in Int /\ n[p] + NumLdsStages - 1 \in Int /\ n[p] - 1 \in Int
    BY <1>1, <2>1
  <2> QED BY <2>2, QueueNumbers DEF LastOf
<1>3. Issued(p) \in Int /\ Top(p) \in [Operand -> Int]
  BY <1>2, Counts DEF Issued, Top
<1>4. Floor(p) \in [Operand -> Int]
  <2>1. n[p] + 1 \in Int /\ n[p] + 2 \in Int /\ n[p] \in Int /\ 0 \in Int
    BY <1>1
  <2> QED BY <2>1, QueueNumbers DEF Floor
<1> QED BY <1>1, <1>2, <1>3, <1>4

\* A queue does not depend on the parts of the other waves.
LEMMA OwnParts ==
  ASSUME NEW q, NEW l, NEW l2, NEW p, NEW t, NEW issued, NEW lo, NEW top,
         RingQueue(q, l, p, t, issued, lo, top), \A s \in Slot : l2[s][p] = l[s][p]
  PROVE  RingQueue(q, l2, p, t, issued, lo, top)
<1>1. \A o \in Operand, b \in Nat : <<o, b % NumLdsStages>> \in Slot
  BY SlotOf, QueueNumbers
<1> QED BY <1>1 DEF RingQueue, Queue, Filled

\* The step of another wave.
LEMMA QueueElsewhere ==
  ASSUME NEW p \in Producer, QueueOK(p), pc'[p] = pc[p], n'[p] = n[p],
         coffset'[p] = coffset[p], vmq'[p] = vmq[p], tile_idx'[p] = tile_idx[p],
         \A s \in Slot : lds'[s][p] = lds[s][p]
  PROVE  QueueOK(p)'
<1>1. /\ LastOf(p)' = LastOf(p) /\ Half(p)' = Half(p) /\ Floor(p)' = Floor(p)
  BY DEF LastOf, Half, Floor
<1>2. Top(p)' = Top(p) /\ Issued(p)' = Issued(p)
  BY <1>1 DEF Top, Issued
<1>3. RingQueue(vmq[p], lds, p, tile_idx[p], Issued(p), Floor(p), Top(p))
  BY DEF QueueOK, RingQueue
<1>4. RingQueue(vmq[p], lds', p, tile_idx[p], Issued(p), Floor(p), Top(p))
  BY <1>3, OwnParts
<1>5. coffset[p] = (IF pc[p] = "initial" THEN n[p] ELSE LastOf(p)) \div FilterUnroll
  BY DEF QueueOK
<1> QED BY <1>1, <1>2, <1>4, <1>5 DEF QueueOK, RingQueue

\* The wave goes on; its loads stay what they are, but a fence may have told
\* that more of them have landed.
LEMMA QueueGoesOn ==
  ASSUME NEW p \in Producer, QueueOK(p), UNCHANGED <<coffset, vmq, lds, tile_idx>>,
         pc[p] # "initial", pc'[p] # "initial",
         LastOf(p)' = LastOf(p), Half(p)' = Half(p),
         RingQueue(vmq[p], lds, p, tile_idx[p], Issued(p), Floor(p)', Top(p))
  PROVE  QueueOK(p)'
<1>1. Top(p)' = Top(p) /\ Issued(p)' = Issued(p)
  BY DEF Top, Issued
<1> QED BY <1>1 DEF QueueOK, RingQueue

\* What the fence tells.
LEMMA QueueFenced ==
  ASSUME TypeInv, NEW p \in Producer, QueueOK(p), NEW cnt \in Int, async_load_fence(p, cnt),
         NEW lo \in [Operand -> Int],
         \A o \in Operand : (lo[o] - 1) * TileIssueCnt + OperandEnd[o] <= Issued(p) - cnt
  PROVE  RingQueue(vmq[p], lds, p, tile_idx[p], Issued(p), lo, Top(p))
<1> DEFINE q == vmq[p]
           issued == Issued(p)
           top == Top(p)
           lo0 == Floor(p)
           end == OperandEnd
<1>1. /\ issued \in Int /\ top \in [Operand -> Int] /\ lo0 \in [Operand -> Int]
      /\ end \in [Operand -> Int]
  BY OwnNumbers, QueueNumbers
<1>2. /\ q \in Seq(LoadType)
      /\ Ordered(q, issued, tile_idx[p], lo0, top, NumLdsStages, end)
      /\ Filled(q, lds, p, tile_idx[p], top, NumLdsStages)
  BY DEF QueueOK, Queue
<1>3. Len(q) <= cnt
  BY DEF async_load_fence
<1>4. \A o \in Operand : (lo[o] - 1) * TileIssueCnt + end[o] <= issued - cnt
  OBVIOUS
<1> HIDE DEF q, issued, top, lo0, end
<1>5. Ordered(q, issued, tile_idx[p], lo, top, NumLdsStages, end)
  BY <1>1, <1>2, <1>3, <1>4, FenceTells
<1>6. Queue(q, lds, p, tile_idx[p], issued, lo, top, NumLdsStages, end)
  BY <1>2, <1>5 DEF Queue
<1> QED BY <1>6 DEF RingQueue, q, issued, top, end

\* A fence that leaves y K tiles in flight, but z instructions, of x issued.
LEMMA FenceNumbers ==
  ASSUME NEW x \in Int, NEW y \in Int, NEW z \in Int, NEW m \in Int, x = m + y,
         NEW T \in Nat
  PROVE  x * T - (T * y - z) = m * T + z
<1>1. x * T = m * T + T * y
  OBVIOUS
<1>2. x * T \in Int /\ m * T \in Int /\ T * y \in Int
  OBVIOUS
<1> DEFINE a == x * T
           b == m * T
           c == T * y
<1>3. a = b + c /\ a \in Int /\ b \in Int /\ c \in Int
  BY <1>1, <1>2
<1> HIDE DEF a, b, c
<1>4. a - (c - z) = b + z
  BY <1>3
<1> QED BY <1>4 DEF a, b, c

\* The K tiles that have landed after the fences of iteration k: all of tile k,
\* and, where the fence counts z instructions more, those of sh and pr_major
\* of tile k + 1.
LEMMA FenceFloor ==
  ASSUME NEW k \in Int, NEW issued \in Int, NEW cnt \in Int
  PROVE  /\ issued - cnt = (k + 1) * TileIssueCnt =>
              \A o \in Operand :
                (FromTile(k + 1, k + 1)[o] - 1) * TileIssueCnt + OperandEnd[o] <= issued - cnt
         /\ issued - cnt = (k + 1) * TileIssueCnt + IssueCnt["sh"] + IssueCnt["pr_major"] =>
              \A o \in Operand :
                (FromTile(k + 2, k + 1)[o] - 1) * TileIssueCnt + OperandEnd[o] <= issued - cnt
<1>0. /\ TileIssueCnt \in Nat /\ IssueCnt["sh"] \in Nat /\ IssueCnt["pr_major"] \in Nat
      /\ IssueCnt["pr_minor"] \in Nat
      /\ TileIssueCnt = IssueCnt["sh"] + IssueCnt["pr_major"] + IssueCnt["pr_minor"]
  BY Counts
<1> DEFINE T == TileIssueCnt
           x == k * T
           y == (k + 1) * T
<1>1. x \in Int /\ y \in Int /\ y = x + T
  BY <1>0
<1>2. /\ (k + 1 - 1) * T = x /\ (k + 2 - 1) * T = y
  OBVIOUS
<1>3. \A o \in Operand : OperandEnd[o] \in Int /\ OperandEnd[o] <= T
  BY <1>0 DEF OperandEnd
<1>4. ASSUME issued - cnt = y, NEW o \in Operand
      PROVE  (FromTile(k + 1, k + 1)[o] - 1) * T + OperandEnd[o] <= issued - cnt
  <2>1. FromTile(k + 1, k + 1)[o] = k + 1
    BY DEF FromTile
  <2>2. (FromTile(k + 1, k + 1)[o] - 1) * T = x
    BY <1>2, <2>1
  <2> HIDE DEF x, y
  <2> QED BY <1>0, <1>1, <1>3, <1>4, <2>2
<1>5. ASSUME issued - cnt = y + IssueCnt["sh"] + IssueCnt["pr_major"], NEW o \in Operand
      PROVE  (FromTile(k + 2, k + 1)[o] - 1) * T + OperandEnd[o] <= issued - cnt
  <2>1. CASE o = "pr_minor"
    <3>1. FromTile(k + 2, k + 1)[o] = k + 1
      BY <2>1 DEF FromTile
    <3>2. (FromTile(k + 2, k + 1)[o] - 1) * T = x
      BY <1>2, <3>1
    <3> HIDE DEF x, y
    <3> QED BY <1>0, <1>1, <1>3, <1>5, <3>2
  <2>2. CASE o # "pr_minor"
    <3>1. FromTile(k + 2, k + 1)[o] = k + 2
      BY <2>2 DEF FromTile
    <3>2. (FromTile(k + 2, k + 1)[o] - 1) * T = y
      BY <1>2, <3>1
    <3>3. OperandEnd[o] <= IssueCnt["sh"] + IssueCnt["pr_major"]
      BY <1>0, <2>2 DEF OperandEnd, Operand
    <3> HIDE DEF x, y
    <3> QED BY <1>0, <1>1, <1>3, <1>5, <3>2, <3>3
  <2> QED BY <2>1, <2>2
<1> QED BY <1>4, <1>5

\* After the first fence all sh and pr_major instructions of tile 0 have landed.
LEMMA FirstFence ==
  ASSUME TypeInv, NEW p \in Producer, QueueOK(p), NotifyFirstSh(p), n[p] = 0
  PROVE  QueueOK(p)'
<1> DEFINE T == TileIssueCnt
           shm == IssueCnt["sh"] + IssueCnt["pr_major"]
           cnt == TileIssueCnt * NumLdsStages - IssueCnt["sh"] - IssueCnt["pr_major"]
<1>0. p \in Waves /\ pc \in [Waves -> Point]
  BY Groups DEF TypeInv, TypeOK
<1>1. /\ pc[p] = "first_sh" /\ pc'[p] = "first_pr_major" /\ n' = n
      /\ UNCHANGED <<coffset, vmq, lds, tile_idx>> /\ async_load_fence(p, cnt)
  BY <1>0 DEF NotifyFirstSh, At, Goto
<1>2. T \in Nat /\ shm \in Int /\ NumLdsStages \in Nat /\ NumLdsStages < NumIter /\ NumIter \in Nat
      /\ IssueCnt["sh"] \in Int /\ IssueCnt["pr_major"] \in Int
  BY Counts, LoopNumbers DEF LoopShape
<1>3. LastOf(p) = NumLdsStages - 1 /\ Issued(p) = NumLdsStages * T
  <2>1. LastOf(p) = NumLdsStages - 1
    BY <1>1, <1>2 DEF LastOf, LastTile
  <2>2. NumLdsStages - 1 + 1 = NumLdsStages
    BY <1>2
  <2> QED BY <1>1, <2>1, <2>2 DEF Issued, Half
<1>4. cnt \in Int /\ Issued(p) - cnt = (-1 + 1) * T + shm
  <2>1. cnt = T * NumLdsStages - shm
    <3> DEFINE y == T * NumLdsStages
    <3>1. y \in Int
      BY <1>2
    <3> HIDE DEF y
    <3>2. y - IssueCnt["sh"] - IssueCnt["pr_major"] = y - shm
      BY <1>2, <3>1
    <3> QED BY <3>2 DEF y
  <2>2. NumLdsStages * T - (T * NumLdsStages - shm) = 0 * T + shm
    <3> HIDE DEF shm
    <3>1. NumLdsStages = 0 + NumLdsStages /\ 0 \in Int /\ NumLdsStages \in Int
      BY <1>2
    <3> HIDE DEF T
    <3> QED BY <1>2, <3>1, FenceNumbers
  <2>3. T * NumLdsStages \in Int
    BY <1>2
  <2> HIDE DEF shm, T
  <2> QED BY <1>2, <1>3, <2>1, <2>2, <2>3
<1>5. Issued(p) \in Int /\ shm = IssueCnt["sh"] + IssueCnt["pr_major"]
  BY OwnNumbers
<1>6. \A o \in Operand : (FromTile(1, 0)[o] - 1) * T + OperandEnd[o] <= Issued(p) - cnt
  <2> DEFINE issued == Issued(p)
  <2>1. issued \in Int /\ cnt \in Int /\ -1 \in Int
        /\ issued - cnt = (-1 + 1) * T + IssueCnt["sh"] + IssueCnt["pr_major"]
    <3> DEFINE z == (-1 + 1) * T
    <3>1. z \in Int
      BY <1>2
    <3> HIDE DEF z
    <3>2. z + shm = z + IssueCnt["sh"] + IssueCnt["pr_major"]
      BY <1>2, <3>1
    <3> QED BY <1>4, <1>5, <3>2 DEF z
  <2> HIDE DEF issued, cnt
  <2>2. \A o \in Operand :
          (FromTile(-1 + 2, -1 + 1)[o] - 1) * T + OperandEnd[o] <= issued - cnt
    BY <2>1, FenceFloor
  <2>3. -1 + 2 = 1 /\ -1 + 1 = 0
    OBVIOUS
  <2> QED BY <2>2, <2>3 DEF issued
<1>7. FromTile(1, 0) \in [Operand -> Int] /\ Floor(p)' = FromTile(1, 0)
  <2>1. Floor(p)' = FromTile(n[p] + 1, n[p])
    BY <1>1 DEF Floor
  <2>2. n[p] + 1 = 1
    OBVIOUS
  <2> QED BY <2>1, <2>2, QueueNumbers
<1>8. RingQueue(vmq[p], lds, p, tile_idx[p], Issued(p), Floor(p)', Top(p))
  <2> HIDE DEF cnt
  <2>1. RingQueue(vmq[p], lds, p, tile_idx[p], Issued(p), FromTile(1, 0), Top(p))
    BY <1>1, <1>4, <1>6, <1>7, QueueFenced
  <2> QED BY <1>7, <2>1
<1>9. LastOf(p)' = LastOf(p) /\ Half(p)' = Half(p) /\ pc[p] # "initial" /\ pc'[p] # "initial"
  BY <1>1 DEF LastOf, Half
<1> QED BY <1>1, <1>8, <1>9, QueueGoesOn

\* The instructions issued by the fences of iteration k, less those that they
\* leave in flight.
LEMMA LoopFences ==
  ASSUME NEW k \in Nat, k < NumIter
  PROVE  /\ waitcnt_pr_minor(k) \in Int /\ waitcnt_shpr_major(k) \in Int
         /\ (LastTile(k + NumLdsStages - 1) + 1) * TileIssueCnt - waitcnt_pr_minor(k)
              = (k + 1) * TileIssueCnt
         /\ (LastTile(k + NumLdsStages) + 1) * TileIssueCnt - waitcnt_shpr_major(k)
              = (k + 1) * TileIssueCnt + IssueCnt["sh"] + IssueCnt["pr_major"]
<1> DEFINE T == TileIssueCnt
           S == NumLdsStages
           sh == IssueCnt["sh"]
           mj == IssueCnt["pr_major"]
<1>0. /\ T \in Nat /\ sh \in Nat /\ mj \in Nat /\ S \in Nat \ {0} /\ NumIter \in Nat /\ S < NumIter
  BY Counts, LoopNumbers DEF LoopShape
<1>1. IsTailLoop(k) => LdsStage(k) = k - (NumIter - S)
  BY IterationNumbers
<1> DEFINE y1 == IF IsTailLoop(k) THEN NumIter - k - 1 ELSE S - 1
           y2 == IF IsTailLoop(k) THEN NumIter - k - 1 ELSE S
           x1 == LastTile(k + S - 1) + 1
           x2 == LastTile(k + S) + 1
           m == k + 1
<1>2. /\ x1 \in Int /\ x2 \in Int /\ y1 \in Int /\ y2 \in Int /\ m \in Int
      /\ x1 = m + y1 /\ x2 = m + y2
  BY <1>0 DEF LastTile, IsTailLoop
<1>3. /\ waitcnt_pr_minor(k) = T * y1
      /\ waitcnt_shpr_major(k) = T * y2 - sh - mj
  <2>1. IsTailLoop(k) => S - LdsStage(k) - 1 = NumIter - k - 1
    BY <1>0, <1>1
  <2> QED BY <2>1 DEF waitcnt_pr_minor, waitcnt_shpr_major
<1> HIDE DEF y1, y2, x1, x2, m, T, sh, mj
<1>4. x1 * T - (T * y1 - 0) = m * T + 0
  BY <1>0, <1>2, FenceNumbers
<1>5. x2 * T - (T * y2 - (sh + mj)) = m * T + (sh + mj)
  <2>1. sh + mj \in Int
    BY <1>0
  <2> QED BY <1>0, <1>2, <2>1, FenceNumbers
<1>6. T * y1 \in Int /\ T * y2 \in Int /\ m * T \in Int
  BY <1>0, <1>2
<1> DEFINE u1 == T * y1
           u2 == T * y2
           v == m * T
<1>7. u1 \in Int /\ u2 \in Int /\ v \in Int
  BY <1>6
<1> DEFINE w1 == x1 * T
           w2 == x2 * T
<1>8. w1 \in Int /\ w2 \in Int
  BY <1>0, <1>2
<1>9. w1 - (u1 - 0) = v + 0 /\ w2 - (u2 - (sh + mj)) = v + (sh + mj)
  BY <1>4, <1>5
<1>10. waitcnt_pr_minor(k) = u1 /\ waitcnt_shpr_major(k) = u2 - sh - mj
  BY <1>3
<1> HIDE DEF u1, u2, v, w1, w2
<1>11. /\ u1 \in Int /\ u2 - sh - mj \in Int
       /\ w1 - u1 = v /\ w2 - (u2 - sh - mj) = v + sh + mj
  BY <1>0, <1>7, <1>8, <1>9
<1> QED BY <1>10, <1>11 DEF u1, u2, v, w1, w2, x1, x2, m, T, sh, mj

\* Steps of a producer wave that neither issue loads nor wait for them.
LEMMA QueueQuiet ==
  ASSUME TypeInv, NEW p \in Producer, QueueOK(p), PointOK(p),
         \/ NotifyFirstPrMajor(p) \/ AwaitFreeSh(p) \/ AwaitFreePrMajor(p)
         \/ AwaitFreePrMinor(p) \/ NotifyPrMajor(p)
  PROVE  QueueOK(p)'
<1>0. p \in Waves /\ pc \in [Waves -> Point]
  BY Groups DEF TypeInv, TypeOK
<1>1. /\ UNCHANGED <<n, coffset, vmq, lds, tile_idx>>
      /\ <<pc[p], pc'[p]>> \in {<<"first_pr_major", "load_pr_minor">>, <<"free_sh", "free_pr_major">>,
           <<"free_pr_major", "issue">>, <<"free_pr_minor", "issue_pr_minor">>,
           <<"load_pr_major", "tg">>}
  BY <1>0 DEF NotifyFirstPrMajor, AwaitFreeSh, AwaitFreePrMajor, AwaitFreePrMinor, NotifyPrMajor,
     At, Goto
<1>2. LastOf(p)' = LastOf(p) /\ Half(p)' = Half(p) /\ pc[p] # "initial" /\ pc'[p] # "initial"
  BY <1>1 DEF LastOf, Half
<1>3. Floor(p)' = Floor(p)
  BY <1>1 DEF Floor, PointOK
<1>4. RingQueue(vmq[p], lds, p, tile_idx[p], Issued(p), Floor(p)', Top(p))
  BY <1>3 DEF QueueOK, RingQueue
<1> QED BY <1>1, <1>2, <1>4, QueueGoesOn

\* After the fence for pr_minor all of the iteration's K tile has landed.
LEMMA MinorFence ==
  ASSUME TypeInv, NEW p \in Producer, QueueOK(p), n[p] < NumIter, NotifyPrMinor(p)
  PROVE  QueueOK(p)'
<1> DEFINE k == n[p]
           cnt == waitcnt_pr_minor(k)
           lo == FromTile(k + 1, k + 1)
<1>0. /\ p \in Waves /\ pc \in [Waves -> Point] /\ k \in Nat
      /\ NumIter \in Nat /\ NumLdsStages \in Nat \ {0}
  BY Groups, LoopNumbers DEF TypeInv, TypeOK, LoopShape
<1>1. /\ UNCHANGED <<n, coffset, vmq, lds, tile_idx>> /\ async_load_fence(p, cnt)
      /\ pc[p] = "load_pr_minor"
      /\ pc'[p] = IF IsTailLoop(k) THEN AfterIssue(k) ELSE "free_sh"
  BY <1>0, PointAfterIssue DEF NotifyPrMinor, At, Goto
<1>2. pc'[p] \in {"free_sh", "tg", "load_sh"} /\ (IsTailLoop(k) <=> pc'[p] # "free_sh")
      /\ (pc'[p] = "tg" => IsLastLoop(k))
  BY <1>1 DEF AfterIssue
<1>3. LastOf(p)' = LastOf(p) /\ Half(p)' = Half(p) /\ pc[p] # "initial" /\ pc'[p] # "initial"
  <2>1. LastOf(p) = LastTile(k + NumLdsStages - 1)
    BY <1>1 DEF LastOf
  <2>2. IsTailLoop(k) => LastTile(k + NumLdsStages) = LastTile(k + NumLdsStages - 1)
    <3>1. \A x \in Nat, N \in Nat, S \in Nat : x >= N - S =>
            (IF x + S < N THEN x + S ELSE N - 1) = (IF x + S - 1 < N THEN x + S - 1 ELSE N - 1)
      OBVIOUS
    <3> HIDE DEF k
    <3> QED BY <1>0, <3>1 DEF LastTile, IsTailLoop
  <2>3. LastOf(p)' = IF IsTailLoop(k) THEN LastTile(k + NumLdsStages)
                     ELSE LastTile(k + NumLdsStages - 1)
    BY <1>1, <1>2 DEF LastOf
  <2> QED BY <1>1, <1>2, <2>1, <2>2, <2>3 DEF Half
<1>4. Floor(p)' = lo
  BY <1>1, <1>2 DEF Floor
<1>5. cnt \in Int /\ Issued(p) - cnt = (k + 1) * TileIssueCnt
  <2>1. Issued(p) = (LastTile(k + NumLdsStages - 1) + 1) * TileIssueCnt
    BY <1>1 DEF Issued, Half, LastOf
  <2> HIDE DEF k
  <2> QED BY <1>0, <2>1, LoopFences DEF k
<1>6. lo \in [Operand -> Int] /\ Issued(p) \in Int /\ k \in Int
  <2>1. k + 1 \in Int
    BY <1>0
  <2>2. \A x \in Int, y \in Int : FromTile(x, y) \in [Operand -> Int]
    BY QueueNumbers
  <2>3. lo \in [Operand -> Int]
    BY <2>1, <2>2
  <2> QED BY <1>0, <2>3, OwnNumbers
<1>7. \A o \in Operand : (lo[o] - 1) * TileIssueCnt + OperandEnd[o] <= Issued(p) - cnt
  <2> HIDE DEF k, cnt
  <2> QED BY <1>5, <1>6, FenceFloor
<1>8. RingQueue(vmq[p], lds, p, tile_idx[p], Issued(p), lo, Top(p))
  <2> HIDE DEF cnt, lo
  <2> QED BY <1>1, <1>5, <1>6, <1>7, QueueFenced
<1>9. RingQueue(vmq[p], lds, p, tile_idx[p], Issued(p), Floor(p)', Top(p))
  BY <1>4, <1>8
<1> QED BY <1>1, <1>3, <1>9, QueueGoesOn

\* After the fence for sh and pr_major those of the next K tile have landed.
LEMMA MajorFence ==
  ASSUME TypeInv, NEW p \in Producer, QueueOK(p), PointOK(p), n[p] < NumIter, NotifySh(p)
  PROVE  QueueOK(p)'
<1> DEFINE k == n[p]
           cnt == waitcnt_shpr_major(k)
           lo == FromTile(k + 2, k + 1)
<1>0. /\ p \in Waves /\ pc \in [Waves -> Point] /\ k \in Nat
  BY Groups DEF TypeInv, TypeOK
<1>1. /\ UNCHANGED <<n, coffset, vmq, lds, tile_idx>> /\ async_load_fence(p, cnt)
      /\ pc[p] = "load_sh" /\ pc'[p] = "load_pr_major" /\ ~IsLastLoop(k)
  BY <1>0 DEF NotifySh, At, Goto, PointOK
<1>3. LastOf(p)' = LastOf(p) /\ Half(p)' = Half(p) /\ pc[p] # "initial" /\ pc'[p] # "initial"
  BY <1>1 DEF LastOf, Half
<1>4. Floor(p)' = lo
  BY <1>1 DEF Floor
<1>5. /\ cnt \in Int
      /\ Issued(p) - cnt = (k + 1) * TileIssueCnt + IssueCnt["sh"] + IssueCnt["pr_major"]
  <2>1. Issued(p) = (LastTile(k + NumLdsStages) + 1) * TileIssueCnt
    BY <1>1 DEF Issued, Half, LastOf
  <2> HIDE DEF k
  <2> QED BY <1>0, <2>1, LoopFences DEF k
<1>6. lo \in [Operand -> Int] /\ Issued(p) \in Int /\ k \in Int
  <2>1. k + 1 \in Int /\ k + 2 \in Int
    BY <1>0
  <2>2. \A x \in Int, y \in Int : FromTile(x, y) \in [Operand -> Int]
    BY QueueNumbers
  <2>3. lo \in [Operand -> Int]
    BY <2>1, <2>2
  <2> QED BY <1>0, <2>3, OwnNumbers
<1>7. \A o \in Operand : (lo[o] - 1) * TileIssueCnt + OperandEnd[o] <= Issued(p) - cnt
  <2> HIDE DEF k, cnt
  <2> QED BY <1>5, <1>6, FenceFloor
<1>8. RingQueue(vmq[p], lds, p, tile_idx[p], Issued(p), lo, Top(p))
  <2> HIDE DEF cnt, lo
  <2> QED BY <1>1, <1>5, <1>6, <1>7, QueueFenced
<1>9. RingQueue(vmq[p], lds, p, tile_idx[p], Issued(p), Floor(p)', Top(p))
  BY <1>4, <1>8
<1> QED BY <1>1, <1>3, <1>9, QueueGoesOn

\* The operands' loads of K tile b, one after the other.
LoadedOperand(q, o, b, t) == Loaded(q, o, b, t, NumLdsStages)

\* The queue with the loads of operand o of K tile b behind it.
LEMMA IssueOperand ==
  ASSUME NEW q, NEW l, NEW p, NEW t \in Nat, NEW lo \in [Operand -> Int],
         NEW top \in [Operand -> Int], NEW issued \in Int, NEW o \in Operand, NEW b \in Nat,
         RingQueue(q, l, p, t, issued, lo, top), top[o] = b - 1, lo[o] <= b,
         NEW issued2, issued2 = issued + IssueCnt[o],
         issued2 <= b * TileIssueCnt + OperandEnd[o],
         NEW top2 \in [Operand -> Int], top2[o] = b,
         \A x \in Operand : x # o => top2[x] = top[x]
  PROVE  RingQueue(LoadedOperand(q, o, b, t), l, p, t, issued2, lo, top2)
<1> DEFINE st == NumLdsStages
           end == OperandEnd
<1>1. st \in 1 .. NumLdsStages /\ end \in [Operand -> Int]
  BY QueueNumbers
<1>2. InPlace(issued2, o, b, end) /\ Queue(q, l, p, t, issued, lo, top, st, end)
  BY DEF InPlace, RingQueue
<1> HIDE DEF st, end
<1>3. Queue(Loaded(q, o, b, t, st), l, p, t, issued2, lo, top2, st, end)
  BY <1>1, <1>2, IssueLoads
<1> QED BY <1>3 DEF LoadedOperand, RingQueue, st, end

\* A K tile's sh and pr_major loads.
LEMMA IssueTwo ==
  ASSUME NEW q, NEW l, NEW p, NEW t \in Nat, NEW b \in Nat, NEW lo \in [Operand -> Int],
         \A o \in Operand : lo[o] <= b,
         RingQueue(q, l, p, t, b * TileIssueCnt, lo, FromTile(b - 1, b - 1))
  PROVE  RingQueue(LoadedOperand(LoadedOperand(q, "sh", b, t), "pr_major", b, t), l, p, t,
                   b * TileIssueCnt + IssueCnt["sh"] + IssueCnt["pr_major"], lo,
                   FromTile(b, b - 1))
<1> DEFINE a == b * TileIssueCnt
           a1 == a + IssueCnt["sh"]
           a2 == a1 + IssueCnt["pr_major"]
           top0 == FromTile(b - 1, b - 1)
           top1 == [o \in Operand |-> IF o = "sh" THEN b ELSE b - 1]
           top2 == FromTile(b, b - 1)
           q1 == LoadedOperand(q, "sh", b, t)
<1>0. /\ "sh" \in Operand /\ "pr_major" \in Operand
      /\ IssueCnt["sh"] \in Nat /\ IssueCnt["pr_major"] \in Nat
  BY Counts
<1>1. a \in Int
  BY Counts
<1>2. /\ top0 \in [Operand -> Int] /\ top1 \in [Operand -> Int] /\ top2 \in [Operand -> Int]
      /\ top0["sh"] = b - 1 /\ top1["sh"] = b
      /\ top1["pr_major"] = b - 1 /\ top2["pr_major"] = b
      /\ \A x \in Operand : x # "sh" => top1[x] = top0[x]
      /\ \A x \in Operand : x # "pr_major" => top2[x] = top1[x]
  BY <1>0 DEF FromTile, Operand
<1>3. /\ OperandEnd["sh"] = IssueCnt["sh"]
      /\ OperandEnd["pr_major"] = IssueCnt["sh"] + IssueCnt["pr_major"]
  BY <1>0 DEF OperandEnd
<1> HIDE DEF a, top0, top1, top2, q1
<1>4. /\ a1 \in Int /\ a1 <= a + OperandEnd["sh"] /\ a2 <= a + OperandEnd["pr_major"]
  BY <1>0, <1>1, <1>3
<1>5. RingQueue(q, l, p, t, a, lo, top0) /\ lo["sh"] <= b /\ lo["pr_major"] <= b
  BY <1>0 DEF a, top0
<1> HIDE DEF a1, a2
<1>6. RingQueue(q1, l, p, t, a1, lo, top1)
  <2>1. a1 = a + IssueCnt["sh"] /\ a1 <= b * TileIssueCnt + OperandEnd["sh"]
    BY <1>4 DEF a1, a
  <2> QED BY <1>0, <1>1, <1>2, <1>4, <1>5, <2>1, IssueOperand DEF q1
<1>7. RingQueue(LoadedOperand(q1, "pr_major", b, t), l, p, t, a2, lo, top2)
  <2>1. a2 = a1 + IssueCnt["pr_major"] /\ a2 <= b * TileIssueCnt + OperandEnd["pr_major"]
    BY <1>4 DEF a2, a
  <2> QED BY <1>0, <1>1, <1>2, <1>4, <1>5, <1>6, <2>1, IssueOperand
<1> QED BY <1>7 DEF q1, a2, a1, a, top2

\* Its pr_minor loads.
LEMMA IssueLast ==
  ASSUME NEW q, NEW l, NEW p, NEW t \in Nat, NEW b \in Nat, NEW lo \in [Operand -> Int],
         \A o \in Operand : lo[o] <= b,
         RingQueue(q, l, p, t, b * TileIssueCnt + IssueCnt["sh"] + IssueCnt["pr_major"], lo,
                   FromTile(b, b - 1))
  PROVE  RingQueue(LoadedOperand(q, "pr_minor", b, t), l, p, t, (b + 1) * TileIssueCnt, lo,
                   FromTile(b, b))
<1> DEFINE a == b * TileIssueCnt
           a2 == a + IssueCnt["sh"] + IssueCnt["pr_major"]
           a3 == (b + 1) * TileIssueCnt
           top2 == FromTile(b, b - 1)
           top3 == FromTile(b, b)
<1>0. /\ "pr_minor" \in Operand
      /\ IssueCnt["sh"] \in Nat /\ IssueCnt["pr_major"] \in Nat /\ IssueCnt["pr_minor"] \in Nat
      /\ TileIssueCnt = IssueCnt["sh"] + IssueCnt["pr_major"] + IssueCnt["pr_minor"]
      /\ OperandEnd["pr_minor"] = TileIssueCnt
  BY Counts DEF OperandEnd
<1>1. a \in Int /\ a3 = a + TileIssueCnt
  BY Counts
<1>2. /\ top2 \in [Operand -> Int] /\ top3 \in [Operand -> Int]
      /\ top2["pr_minor"] = b - 1 /\ top3["pr_minor"] = b
      /\ \A x \in Operand : x # "pr_minor" => top3[x] = top2[x]
  BY <1>0 DEF FromTile, Operand
<1> HIDE DEF a, a3, top2, top3
<1>3. a2 \in Int /\ a3 = a2 + IssueCnt["pr_minor"] /\ a3 <= a + OperandEnd["pr_minor"]
  BY <1>0, <1>1
<1>4. RingQueue(q, l, p, t, a2, lo, top2) /\ lo["pr_minor"] <= b
  BY <1>0 DEF a, top2
<1> HIDE DEF a2
<1>5. a3 <= b * TileIssueCnt + OperandEnd["pr_minor"]
  BY <1>3 DEF a
<1>6. RingQueue(LoadedOperand(q, "pr_minor", b, t), l, p, t, a3, lo, top3)
  BY <1>0, <1>2, <1>3, <1>4, <1>5, IssueOperand
<1> QED BY <1>6 DEF a3, top3

\* The loads of a K tile as the window addresses it.
LEMMA WindowLoads ==
  ASSUME NEW p, NEW o, NEW b \in Nat
  PROVE  Loads(o, b % NumLdsStages, p, b % FilterUnroll, b \div FilterUnroll)
           = LoadsInto(o, b % NumLdsStages, Tile(tile_idx[p], b))
<1>1. (b \div FilterUnroll) * FilterUnroll + (b % FilterUnroll) = b
  BY Addressed
<1> QED BY <1>1 DEF Loads

\* The last K tile of each operand.
LEMMA TopIs ==
  ASSUME NEW p
  PROVE  Top(p) = FromTile(LastOf(p), IF Half(p) THEN LastOf(p) - 1 ELSE LastOf(p))
BY DEF Top, FromTile

\* The initial loads: K tile i to stage i.
LEMMA QueueInitial ==
  ASSUME TypeInv, NEW p \in Producer, QueueOK(p), IssueInitial(p)
  PROVE  QueueOK(p)'
<1> DEFINE i == n[p]
           t == tile_idx[p]
           q == vmq[p]
           q2 == LoadedOperand(LoadedOperand(q, "sh", i, t), "pr_major", i, t)
           q3 == LoadedOperand(q2, "pr_minor", i, t)
           lo == FromTile(0, 0)
<1>0. /\ p \in Waves /\ pc \in [Waves -> Point] /\ n \in [Waves -> Nat]
      /\ t \in Nat /\ vmq \in [Producer -> Seq(LoadType)] /\ coffset \in [Producer -> Nat]
      /\ FilterUnroll \in Nat \ {0}
  BY Groups, ShapeAssumption DEF TypeInv, TypeOK, LoadType
<1>1. /\ pc[p] = "initial" /\ i \in Nat /\ i < NumLdsStages
      /\ NumLdsStages \in Nat \ {0} /\ NumLdsStages < NumIter /\ NumIter \in Nat
  BY <1>0, LoopNumbers DEF IssueInitial, At, TypeInv, InitialStages, Stage, LoopShape
<1>2. coffset[p] = i \div FilterUnroll
  BY <1>1 DEF QueueOK
<1>3. LastOf(p) = i - 1 /\ ~Half(p) /\ Floor(p) = lo
  BY <1>1 DEF LastOf, Half, Floor
<1>4. Issued(p) = i * TileIssueCnt /\ Top(p) = FromTile(i - 1, i - 1)
  <2>1. Issued(p) = (i - 1 + 1) * TileIssueCnt
    BY <1>3 DEF Issued
  <2>2. i - 1 + 1 = i
    BY <1>1
  <2> QED BY <1>3, <2>1, <2>2, TopIs
<1>5. RingQueue(q, lds, p, t, i * TileIssueCnt, lo, FromTile(i - 1, i - 1))
  BY <1>3, <1>4 DEF QueueOK, RingQueue
<1>6. lo \in [Operand -> Int] /\ \A o \in Operand : lo[o] <= i
  BY <1>1 DEF FromTile
<1>7. RingQueue(q3, lds, p, t, (i + 1) * TileIssueCnt, lo, FromTile(i, i))
  <2> HIDE DEF i, t, q, lo
  <2>1. RingQueue(q2, lds, p, t, i * TileIssueCnt + IssueCnt["sh"] + IssueCnt["pr_major"], lo,
                  FromTile(i, i - 1))
    BY <1>0, <1>1, <1>5, <1>6, IssueTwo
  <2> HIDE DEF q2
  <2> QED BY <1>0, <1>1, <1>6, <2>1, IssueLast
<1>8. vmq' = [vmq EXCEPT ![p] = q3]
  <2> DEFINE samp == i % FilterUnroll
             load(o) == Loads(o, i, p, samp, coffset[p])
  <2>1. vmq' = [vmq EXCEPT ![p] = q \o load("sh") \o load("pr_major") \o load("pr_minor")]
    BY DEF IssueInitial
  <2>2. i % NumLdsStages = i
    BY <1>1, SmallMod
  <2>3. \A o, x : x \o load(o) = LoadedOperand(x, o, i, t)
    <3> SUFFICES ASSUME NEW o, NEW x PROVE x \o load(o) = LoadedOperand(x, o, i, t)
      OBVIOUS
    <3>1. load(o) = Loads(o, i % NumLdsStages, p, i % FilterUnroll, i \div FilterUnroll)
      BY <1>2, <2>2
    <3>2. Loads(o, i % NumLdsStages, p, i % FilterUnroll, i \div FilterUnroll)
            = LoadsInto(o, i % NumLdsStages, Tile(t, i))
      BY <1>1, WindowLoads
    <3> HIDE DEF load
    <3> QED BY <3>1, <3>2 DEF LoadedOperand, Loaded
  <2> HIDE DEF load
  <2> QED BY <2>1, <2>3
<1>9. /\ vmq'[p] = q3 /\ UNCHANGED <<lds, tile_idx>>
      /\ IF i < NumLdsStages - 1
         THEN /\ coffset'[p] = Advanced(coffset[p], (i % FilterUnroll) + 1)
              /\ n'[p] = i + 1 /\ pc'[p] = "initial"
         ELSE n'[p] = 0 /\ pc'[p] = "first_sh" /\ coffset'[p] = coffset[p]
  BY <1>0, <1>1, <1>8 DEF IssueInitial, Goto
<1>10. Advanced(coffset[p], (i % FilterUnroll) + 1) = (i + 1) \div FilterUnroll
  BY <1>1, <1>2, AdvancedTo
<1>11. LastOf(p)' = i /\ Half(p)' = FALSE /\ Floor(p)' = lo
  BY <1>1, <1>9 DEF LastOf, LastTile, Half, Floor
<1>12. Issued(p)' = (i + 1) * TileIssueCnt /\ Top(p)' = FromTile(i, i)
  BY <1>11 DEF Issued, Top, FromTile
<1>13. coffset'[p] = (IF pc'[p] = "initial" THEN n'[p] ELSE LastOf(p)') \div FilterUnroll
  BY <1>2, <1>9, <1>10, <1>11
<1> QED BY <1>7, <1>9, <1>11, <1>12, <1>13 DEF QueueOK, RingQueue

\* The loads of the loop: sh and pr_major of the K tile a whole ring ahead.
LEMMA QueueTwo ==
  ASSUME TypeInv, NEW p \in Producer, QueueOK(p), PointOK(p), IssueShPrMajor(p)
  PROVE  QueueOK(p)'
<1> DEFINE k == n[p]
           b == k + NumLdsStages
           t == tile_idx[p]
           q == vmq[p]
           q2 == LoadedOperand(LoadedOperand(q, "sh", b, t), "pr_major", b, t)
           lo == FromTile(k + 1, k + 1)
<1>0. /\ p \in Waves /\ pc \in [Waves -> Point] /\ n \in [Waves -> Nat]
      /\ t \in Nat /\ vmq \in [Producer -> Seq(LoadType)] /\ coffset \in [Producer -> Nat]
  BY Groups DEF TypeInv, TypeOK, LoadType
<1>1. /\ pc[p] = "issue" /\ k \in Nat /\ b \in Nat /\ b < NumIter /\ k + 1 <= b
      /\ NumLdsStages \in Nat \ {0} /\ NumIter \in Nat
  <2>1. pc[p] = "issue" /\ ~IsTailLoop(k) /\ k \in Nat
    BY <1>0 DEF IssueShPrMajor, At, PointOK
  <2>2. NumLdsStages \in Nat \ {0} /\ NumIter \in Nat
    BY LoopNumbers DEF LoopShape
  <2> HIDE DEF k
  <2> QED BY <2>1, <2>2 DEF IsTailLoop
<1>2. LastTile(b - 1) = b - 1 /\ LastTile(b) = b /\ k + NumLdsStages - 1 = b - 1
  BY <1>1 DEF LastTile
<1>3. LastOf(p) = b - 1 /\ ~Half(p) /\ Floor(p) = lo
  BY <1>1, <1>2 DEF LastOf, Half, Floor
<1>4. coffset[p] = (b - 1) \div FilterUnroll
  BY <1>1, <1>3 DEF QueueOK
<1>5. Issued(p) = b * TileIssueCnt /\ Top(p) = FromTile(b - 1, b - 1)
  <2>1. Issued(p) = (b - 1 + 1) * TileIssueCnt
    BY <1>3 DEF Issued
  <2>2. b - 1 + 1 = b
    BY <1>1
  <2> QED BY <1>3, <2>1, <2>2, TopIs
<1>6. RingQueue(q, lds, p, t, b * TileIssueCnt, lo, FromTile(b - 1, b - 1))
  BY <1>3, <1>5 DEF QueueOK, RingQueue
<1>7. lo \in [Operand -> Int] /\ \A o \in Operand : lo[o] <= b
  BY <1>1 DEF FromTile
<1>8. RingQueue(q2, lds, p, t, b * TileIssueCnt + IssueCnt["sh"] + IssueCnt["pr_major"], lo,
                FromTile(b, b - 1))
  <2> HIDE DEF k, b, t, q, lo
  <2> QED BY <1>0, <1>1, <1>6, <1>7, IssueTwo
<1>9. LdsStage(k) = b % NumLdsStages /\ SampIdx(k) = b % FilterUnroll
  BY <1>1, IterationNumbers
<1>10. Advanced(coffset[p], SampIdx(k)) = b \div FilterUnroll
  <2>1. b - 1 \in Nat /\ b - 1 + 1 = b
    BY <1>1
  <2> QED BY <1>4, <1>9, <2>1, AdvancedTo
<1>11. vmq' = [vmq EXCEPT ![p] = q2]
  <2> DEFINE offset == Advanced(coffset[p], SampIdx(k))
             load(o) == Loads(o, LdsStage(k), p, SampIdx(k), offset)
  <2>1. vmq' = [vmq EXCEPT ![p] = q \o load("sh") \o load("pr_major")]
    BY DEF IssueShPrMajor
  <2>3. \A o, x : x \o load(o) = LoadedOperand(x, o, b, t)
    <3> SUFFICES ASSUME NEW o, NEW x PROVE x \o load(o) = LoadedOperand(x, o, b, t)
      OBVIOUS
    <3>1. load(o) = Loads(o, b % NumLdsStages, p, b % FilterUnroll, b \div FilterUnroll)
      BY <1>9, <1>10
    <3>2. Loads(o, b % NumLdsStages, p, b % FilterUnroll, b \div FilterUnroll)
            = LoadsInto(o, b % NumLdsStages, Tile(t, b))
      BY <1>1, WindowLoads
    <3> HIDE DEF load
    <3> QED BY <3>1, <3>2 DEF LoadedOperand, Loaded
  <2> HIDE DEF load
  <2> QED BY <2>1, <2>3
<1>12. /\ vmq'[p] = q2 /\ UNCHANGED <<n, lds, tile_idx>>
       /\ coffset'[p] = b \div FilterUnroll /\ pc'[p] = "free_pr_minor"
  BY <1>0, <1>10, <1>11 DEF IssueShPrMajor, Goto
<1>13. LastOf(p)' = b /\ Half(p)' = TRUE /\ Floor(p)' = lo
  BY <1>2, <1>12 DEF LastOf, Half, Floor
<1>14. /\ Issued(p)' = b * TileIssueCnt + IssueCnt["sh"] + IssueCnt["pr_major"]
       /\ Top(p)' = FromTile(b, b - 1)
  BY <1>13 DEF Issued, Top, FromTile
<1>15. coffset'[p] = (IF pc'[p] = "initial" THEN n'[p] ELSE LastOf(p)') \div FilterUnroll
  BY <1>12, <1>13
<1> QED BY <1>8, <1>12, <1>13, <1>14, <1>15 DEF QueueOK, RingQueue

\* And pr_minor.
LEMMA QueueLast ==
  ASSUME TypeInv, NEW p \in Producer, QueueOK(p), PointOK(p), IssuePrMinor(p)
  PROVE  QueueOK(p)'
<1> DEFINE k == n[p]
           b == k + NumLdsStages
           t == tile_idx[p]
           q == vmq[p]
           q3 == LoadedOperand(q, "pr_minor", b, t)
           lo == FromTile(k + 1, k + 1)
<1>0. /\ p \in Waves /\ pc \in [Waves -> Point] /\ n \in [Waves -> Nat]
      /\ t \in Nat /\ vmq \in [Producer -> Seq(LoadType)]
  BY Groups DEF TypeInv, TypeOK, LoadType
<1>1. /\ pc[p] = "issue_pr_minor" /\ k \in Nat /\ b \in Nat /\ b < NumIter /\ k + 1 <= b
      /\ NumLdsStages \in Nat \ {0} /\ NumIter \in Nat
  <2>1. pc[p] = "issue_pr_minor" /\ ~IsTailLoop(k) /\ k \in Nat
    BY <1>0 DEF IssuePrMinor, At, PointOK
  <2>2. NumLdsStages \in Nat \ {0} /\ NumIter \in Nat
    BY LoopNumbers DEF LoopShape
  <2> HIDE DEF k
  <2> QED BY <2>1, <2>2 DEF IsTailLoop
<1>2. LastTile(b) = b
  BY <1>1 DEF LastTile
<1>3. LastOf(p) = b /\ Half(p) /\ Floor(p) = lo
  BY <1>1, <1>2 DEF LastOf, Half, Floor
<1>4. coffset[p] = b \div FilterUnroll
  BY <1>1, <1>3 DEF QueueOK
<1>5. /\ Issued(p) = b * TileIssueCnt + IssueCnt["sh"] + IssueCnt["pr_major"]
      /\ Top(p) = FromTile(b, b - 1)
  BY <1>3, TopIs DEF Issued
<1>6. RingQueue(q, lds, p, t, b * TileIssueCnt + IssueCnt["sh"] + IssueCnt["pr_major"], lo,
                FromTile(b, b - 1))
  BY <1>3, <1>5 DEF QueueOK, RingQueue
<1>7. lo \in [Operand -> Int] /\ \A o \in Operand : lo[o] <= b
  BY <1>1 DEF FromTile
<1>8. RingQueue(q3, lds, p, t, (b + 1) * TileIssueCnt, lo, FromTile(b, b))
  <2> HIDE DEF k, b, t, q, lo
  <2> QED BY <1>0, <1>1, <1>6, <1>7, IssueLast
<1>9. LdsStage(k) = b % NumLdsStages /\ SampIdx(k) = b % FilterUnroll
  BY <1>1, IterationNumbers
<1>10. vmq' = [vmq EXCEPT ![p] = q3]
  <2> DEFINE load == Loads("pr_minor", LdsStage(k), p, SampIdx(k), coffset[p])
  <2>1. vmq' = [vmq EXCEPT ![p] = q \o load]
    BY DEF IssuePrMinor
  <2>2. load = Loads("pr_minor", b % NumLdsStages, p, b % FilterUnroll, b \div FilterUnroll)
    BY <1>4, <1>9
  <2>3. Loads("pr_minor", b % NumLdsStages, p, b % FilterUnroll, b \div FilterUnroll)
          = LoadsInto("pr_minor", b % NumLdsStages, Tile(t, b))
    BY <1>1, WindowLoads
  <2> HIDE DEF load
  <2> QED BY <2>1, <2>2, <2>3 DEF LoadedOperand, Loaded
<1>11. /\ vmq'[p] = q3 /\ UNCHANGED <<n, lds, tile_idx, coffset>>
       /\ pc'[p] \in {"tg", "load_sh"} /\ (pc'[p] = "tg" => IsLastLoop(k))
  BY <1>0, <1>10, PointAfterIssue DEF IssuePrMinor, Goto, AfterIssue
<1>12. LastOf(p)' = b /\ Half(p)' = FALSE /\ Floor(p)' = lo
  BY <1>2, <1>11 DEF LastOf, Half, Floor
<1>13. Issued(p)' = (b + 1) * TileIssueCnt /\ Top(p)' = FromTile(b, b)
  BY <1>12 DEF Issued, Top, FromTile
<1>14. coffset'[p] = (IF pc'[p] = "initial" THEN n'[p] ELSE LastOf(p)') \div FilterUnroll
  BY <1>4, <1>11, <1>12
<1> QED BY <1>8, <1>11, <1>12, <1>13, <1>14 DEF QueueOK, RingQueue

\* In every step of the producer wave its loads stay what they are.
LEMMA ProducerQueue ==
  ASSUME TypeInv, NEW p \in Producer, QueueOK(p), PointOK(p), n[p] < NumIter, ProducerStep(p)
  PROVE  QueueOK(p)'
<1>1. CASE IssueInitial(p)
  BY <1>1, QueueInitial
<1>2. CASE NotifyFirstSh(p)
  <2>1. n[p] = 0
    BY <1>2 DEF NotifyFirstSh, At, PointOK
  <2> QED BY <1>2, <2>1, FirstFence
<1>3. CASE NotifyPrMinor(p)
  BY <1>3, MinorFence
<1>4. CASE NotifySh(p)
  BY <1>4, MajorFence
<1>5. CASE IssueShPrMajor(p)
  BY <1>5, QueueTwo
<1>6. CASE IssuePrMinor(p)
  BY <1>6, QueueLast
<1> QED BY <1>1, <1>2, <1>3, <1>4, <1>5, <1>6, QueueQuiet DEF ProducerStep

\* What is in flight fits in the ring: a slot's last load is its K tile's.
LEMMA WithinRing ==
  ASSUME TypeInv, NEW p \in Producer, PointOK(p)
  PROVE  \A o \in Operand : Top(p)[o] < Floor(p)[o] + NumLdsStages
<1>1. n[p] \in Nat /\ NumLdsStages \in Nat \ {0}
  BY OwnNumbers, QueueNumbers
<1> SUFFICES ASSUME NEW o \in Operand PROVE Top(p)[o] < Floor(p)[o] + NumLdsStages
  OBVIOUS
<1>2. \A x \in Int : LastTile(x) \in Int /\ LastTile(x) <= x
  BY QueueNumbers
<1>3. /\ n[p] + NumLdsStages - 1 \in Int /\ n[p] + NumLdsStages \in Int
      /\ LastTile(n[p] + NumLdsStages - 1) \in Int /\ LastTile(n[p] + NumLdsStages) \in Int
      /\ LastTile(n[p] + NumLdsStages - 1) <= n[p] + NumLdsStages - 1
      /\ LastTile(n[p] + NumLdsStages) <= n[p] + NumLdsStages
  BY <1>1, <1>2
<1>4. Top(p)[o] <= LastOf(p) /\ Top(p)[o] \in Int /\ LastOf(p) \in Int
  BY OwnNumbers DEF Top
<1>6. CASE pc[p] = "initial"
  <2>1. LastOf(p) = n[p] - 1 /\ Floor(p)[o] = 0
    BY <1>6 DEF LastOf, Floor, FromTile
  <2>2. n[p] <= NumLdsStages - 1
    BY <1>6 DEF TypeInv, InitialStages, Stage
  <2> QED BY <1>1, <1>4, <2>1, <2>2
<1>7. CASE pc[p] = "first_sh"
  <2>1. LastOf(p) = LastTile(n[p] + NumLdsStages - 1) /\ Floor(p)[o] = 0 /\ n[p] = 0
    BY <1>7 DEF LastOf, Floor, FromTile, PointOK
  <2> QED BY <1>1, <1>3, <1>4, <2>1
<1>8. CASE pc[p] \in {"first_pr_major", "load_pr_minor"}
  <2>1. LastOf(p) = LastTile(n[p] + NumLdsStages - 1) /\ Floor(p)[o] >= n[p]
    BY <1>1, <1>8 DEF LastOf, Floor, FromTile
  <2>2. Floor(p)[o] \in Int
    BY OwnNumbers
  <2> QED BY <1>1, <1>3, <1>4, <2>1, <2>2
<1>9. CASE pc[p] \notin {"initial", "first_sh", "first_pr_major", "load_pr_minor"}
  <2>1. /\ LastOf(p) \in {LastTile(n[p] + NumLdsStages - 1), LastTile(n[p] + NumLdsStages)}
        /\ Floor(p)[o] >= n[p] + 1
    BY <1>1, <1>9 DEF LastOf, Floor, FromTile
  <2>2. Floor(p)[o] \in Int
    BY OwnNumbers
  <2> QED BY <1>1, <1>3, <1>4, <2>1, <2>2
<1> QED BY <1>6, <1>7, <1>8, <1>9

\* The oldest load in flight lands: the queue's other loads stay what they are,
\* and the parts of the other waves, too.
LandsIn(q, l, l2, p, t, issued, lo, top) ==
  /\ RingQueue(Tail(q), l2, p, t, issued, lo, top)
  /\ \A s \in Slot, x \in Producer : x # p => l2[s][x] = l[s][x]

\* So it does if what is in flight fits in the ring.
LEMMA RingLands ==
  ASSUME NEW q \in Seq(LoadType), q # <<>>, NEW p \in Producer, NEW t \in Nat,
         NEW l \in [Slot -> [Producer -> TileType]],
         NEW lo \in [Operand -> Int], NEW top \in [Operand -> Int], NEW issued \in Int,
         RingQueue(q, l, p, t, issued, lo, top),
         \A o \in Operand : top[o] < lo[o] + NumLdsStages,
         NEW l2, l2 = Landed(l, p, Head(q))
  PROVE  LandsIn(q, l, l2, p, t, issued, lo, top)
<1>1. Queue(q, l, p, t, issued, lo, top, NumLdsStages, OperandEnd)
  BY DEF RingQueue
<1>2. LandsQueue(q, l, l2, p, t, issued, lo, top, NumLdsStages, OperandEnd)
  BY <1>1, QueueNumbers, LandQueue
<1> QED BY <1>2 DEF LandsQueue, LandsIn, RingQueue

\* A load lands, in the wave's own part of a slot.
LEMMA QueueLands ==
  ASSUME TypeInv, NEW p \in Producer, \A x \in Producer : QueueOK(x), PointOK(p), Land(p)
  PROVE  \A x \in Producer : QueueOK(x)'
<1> DEFINE q == vmq[p]
           t == tile_idx[p]
           issued == Issued(p)
           lo == Floor(p)
           top == Top(p)
           l2 == lds'
           l == lds
<1>0. /\ vmq \in [Producer -> Seq(LoadType)] /\ t \in Nat
      /\ l \in [Slot -> [Producer -> TileType]]
  BY Groups DEF TypeInv, TypeOK, LoadType, TileType
<1>1. /\ q # <<>> /\ vmq' = [vmq EXCEPT ![p] = Tail(q)] /\ l2 = Landed(l, p, Head(q))
      /\ UNCHANGED <<pc, n, tile_idx, coffset>>
  BY DEF Land, LandOldest, Landed
<1>2. /\ lo \in [Operand -> Int] /\ top \in [Operand -> Int] /\ issued \in Int
      /\ \A o \in Operand : top[o] < lo[o] + NumLdsStages
  BY OwnNumbers, WithinRing
<1>3. RingQueue(q, l, p, t, issued, lo, top)
  BY DEF QueueOK, RingQueue
<1>4. vmq'[p] = Tail(q) /\ \A x \in Producer \ {p} : vmq'[x] = vmq[x]
  BY <1>0, <1>1
<1>5. LandsIn(q, l, l2, p, t, issued, lo, top)
  <2>1. /\ q \in Seq(LoadType) /\ q # <<>> /\ l2 = Landed(l, p, Head(q)) /\ t \in Nat
        /\ l \in [Slot -> [Producer -> TileType]]
    BY <1>0, <1>1
  <2> HIDE DEF q, t, issued, lo, top, l, l2
  <2> QED BY <1>2, <1>3, <2>1, RingLands
<1>6. QueueOK(p)'
  <2>1. Issued(p)' = issued /\ Floor(p)' = lo /\ Top(p)' = top /\ LastOf(p)' = LastOf(p)
    BY <1>1 DEF Issued, Floor, Top, LastOf, Half
  <2>2. RingQueue(vmq'[p], l2, p, t, issued, lo, top)
    BY <1>4, <1>5 DEF LandsIn
  <2>3. coffset[p] = (IF pc[p] = "initial" THEN n[p] ELSE LastOf(p)) \div FilterUnroll
    BY DEF QueueOK
  <2> QED BY <1>1, <2>1, <2>2, <2>3 DEF QueueOK, RingQueue
<1>7. ASSUME NEW x \in Producer, x # p PROVE QueueOK(x)'
  <2>1. vmq'[x] = vmq[x] /\ \A s \in Slot : lds'[s][x] = lds[s][x]
    BY <1>4, <1>5, <1>7 DEF LandsIn
  <2> QED BY <1>1, <1>7, <2>1, QueueElsewhere
<1> QED BY <1>6, <1>7

(***************************************************************************)
(* What a compute wave reads.                                              *)
(***************************************************************************)
\* A synchronising wave beyond the points where it may be stalled: every wave
\* has used the barrier as often as it.
LEMMA Past ==
  ASSUME NEW b \in Ebar, BarrierOK(b), NEW w \in SyncWaves(b), pc[w] \notin AfterSync(b),
         NEW v \in UserWaves(b)
  PROVE  Level(b, w) <= Level(b, v)
<1>1. w \in UserWaves(b)
  BY DEF UserWaves
<1>2. w \notin AheadOf(Levels(b))
  BY DEF BarrierOK
<1>3. ~(Level(b, v) < Level(b, w))
  BY <1>1, <1>2, LevelsType DEF AheadOf
<1>4. Level(b, v) \in Nat /\ Level(b, w) \in Nat
  BY LevelsType DEF Level
<1> QED BY <1>3, <1>4

\* K tile b of operand o is what a producer wave last loaded to its slot, and
\* the wave knows that its part of it has landed.
Ready(p, o, b) ==
  b < Floor(p)[o] /\ b <= Top(p)[o] /\ Top(p)[o] < b + NumLdsStages

\* The tiles of a major wave's read for the next iteration are ready: it has
\* passed the second barriers, so the producer waves have notified of them.
LEMMA NextReady ==
  ASSUME TypeInv, NEW t, NEW k \in 0 .. NumIter - 1, Walking(t, k),
         NEW c \in Compute, ReadsNext(c), NEW p \in Producer, NEW o \in {"sh", "pr_major"}
  PROVE  Ready(p, o, k + 1)
<1>0. /\ c \in Waves /\ p \in Waves /\ p \notin Major /\ k \in Nat /\ k < NumIter
      /\ NumLdsStages \in Nat \ {0} /\ NumIter \in Nat
  BY Groups, LoopNumbers DEF LoopShape
<1>1. c \in Major /\ pc[c] = "tg" /\ n[c] = k /\ ~IsLastLoop(k)
  BY <1>0 DEF ReadsNext, Walking, InIteration
<1>2. InIteration(p, k) /\ PointOK(p) /\ BarrierOK("load_sh")
  BY <1>0 DEF Walking, Ebar
<1>3. Level("load_sh", c) = 2
  BY <1>1 DEF Level, LevelAt
<1>4. 2 <= Level("load_sh", p)
  <2>1. /\ "load_sh" \in Ebar /\ c \in SyncWaves("load_sh") /\ pc[c] \notin AfterSync("load_sh")
        /\ p \in UserWaves("load_sh")
    BY <1>1 DEF Ebar, SyncWaves, AfterSync, UserWaves, ArriveWaves
  <2>2. Level("load_sh", c) <= Level("load_sh", p)
    BY <1>2, <2>1, Past
  <2> QED BY <1>3, <2>2
<1>5. pc[p] \in {"load_pr_major", "tg"}
  BY <1>0, <1>2, <1>4 DEF Level, LevelAt, PointOK, ProgramPoint
<1>6. n[p] = k
  BY <1>2, <1>5 DEF InIteration
<1>7. Floor(p)[o] = k + 2 /\ Top(p)[o] = LastTile(k + NumLdsStages)
  BY <1>1, <1>5, <1>6 DEF Floor, FromTile, Top, Half, LastOf, Operand
<1>8. k + 1 <= NumIter - 1
  BY <1>0, <1>1 DEF IsLastLoop
<1>9. k + 1 <= LastTile(k + NumLdsStages) /\ LastTile(k + NumLdsStages) < k + 1 + NumLdsStages
  BY <1>0, <1>8 DEF LastTile
<1> QED BY <1>0, <1>7, <1>9 DEF Ready

\* The producer waves do not load to a stage that is being read: they wait for
\* the readers, or have come to the last K tile.
LEMMA NotReplaced ==
  ASSUME TypeInv, NEW t, NEW k \in 0 .. NumIter - 1, Walking(t, k),
         NEW c \in Compute, pc[c] = "fence", NEW p \in Producer, pc[p] # "initial",
         NEW o \in Operand
  PROVE  k <= Top(p)[o] /\ Top(p)[o] < k + NumLdsStages
<1>0. /\ c \in Waves /\ p \in Waves /\ k \in Nat /\ k < NumIter
      /\ NumLdsStages \in Nat \ {0} /\ NumIter \in Nat
  BY Groups, LoopNumbers DEF LoopShape
<1>1. n[c] = k /\ n[p] = k /\ PointOK(p) /\ BarrierOK("free_sh")
  BY <1>0 DEF Walking, InIteration, Ebar
<1> DEFINE early == LastTile(k + NumLdsStages - 1)
           late == LastTile(k + NumLdsStages)
<1>2. k <= early /\ early < k + NumLdsStages /\ early \in Int
  BY <1>0 DEF LastTile
<1>3. late \in Int /\ k <= late /\ late <= NumIter - 1
  BY <1>0 DEF LastTile
<1>4. CASE pc[p] \in {"first_sh", "first_pr_major", "load_pr_minor", "free_sh", "free_pr_major",
                      "issue"}
  <2>1. Top(p)[o] = early
    BY <1>1, <1>4 DEF Top, Half, LastOf
  <2> QED BY <1>2, <2>1
<1>5. CASE ~(pc[p] \in {"first_sh", "first_pr_major", "load_pr_minor", "free_sh", "free_pr_major",
                        "issue"})
  <2>1. IsTailLoop(k)
    <3> SUFFICES ASSUME ~IsTailLoop(k) PROVE FALSE
      OBVIOUS
    <3>1. Level("free_sh", c) = 0 /\ Level("free_sh", p) = 1
      BY <1>0, <1>1, <1>5, Groups DEF Level, LevelAt, PointOK, ProgramPoint
    <3>2. /\ "free_sh" \in Ebar /\ p \in SyncWaves("free_sh") /\ pc[p] \notin AfterSync("free_sh")
          /\ c \in UserWaves("free_sh")
      BY <1>5 DEF Ebar, SyncWaves, AfterSync, UserWaves, ArriveWaves
    <3>3. Level("free_sh", p) <= Level("free_sh", c)
      BY <1>1, <3>2, Past
    <3> QED BY <3>1, <3>3
  <2>2. NumIter - 1 < k + NumLdsStages
    BY <1>0, <2>1 DEF IsTailLoop
  <2>3. ~Half(p)
    BY <1>1, <2>1 DEF Half, PointOK
  <2>4. Top(p)[o] = late
    BY <1>1, <1>5, <2>3 DEF Top, LastOf
  <2> QED BY <1>0, <1>3, <2>2, <2>4
<1> QED BY <1>4, <1>5

\* The tiles that a wave reads at its fence are ready.
LEMMA FenceReady ==
  ASSUME TypeInv, NEW t, NEW k \in 0 .. NumIter - 1, Walking(t, k),
         NEW c \in Compute, pc[c] = "fence", NEW p \in Producer, NEW o \in {"sh", Private(c)}
  PROVE  Ready(p, o, k)
<1>0. /\ c \in Waves /\ p \in Waves /\ k \in Nat /\ k < NumIter
  BY Groups, LoopNumbers DEF LoopShape
<1>1. /\ n[c] = k /\ InIteration(p, k) /\ PointOK(p)
      /\ BarrierOK("load_sh") /\ BarrierOK("load_pr_major") /\ BarrierOK("load_pr_minor")
  BY <1>0 DEF Walking, InIteration, Ebar
<1>2. /\ pc[p] \notin {"initial", "first_sh"}
      /\ o = "pr_major" => pc[p] # "first_pr_major"
      /\ o = "pr_minor" => pc[p] \notin {"first_pr_major", "load_pr_minor"}
  <2>1. CASE c \in Major
    <3>1. Level("load_sh", c) \in {1, 2} /\ Level("load_pr_major", c) \in {1, 2}
      BY DEF Level, LevelAt
    <3>2. /\ "load_sh" \in Ebar /\ c \in SyncWaves("load_sh") /\ pc[c] \notin AfterSync("load_sh")
          /\ p \in UserWaves("load_sh")
          /\ "load_pr_major" \in Ebar /\ c \in SyncWaves("load_pr_major")
          /\ pc[c] \notin AfterSync("load_pr_major") /\ p \in UserWaves("load_pr_major")
      BY <2>1 DEF Ebar, SyncWaves, AfterSync, UserWaves, ArriveWaves
    <3>3. /\ Level("load_sh", c) <= Level("load_sh", p)
          /\ Level("load_pr_major", c) <= Level("load_pr_major", p)
      BY <1>1, <3>2, Past
    <3>4. Level("load_sh", p) # 0 /\ Level("load_pr_major", p) # 0
      BY <3>1, <3>3
    <3>5. o # "pr_minor"
      BY <2>1 DEF Private
    <3> QED BY <3>4, <3>5 DEF Level, LevelAt
  <2>2. CASE c \in Minor
    <3>1. Level("load_pr_minor", c) = 1
      BY <2>2 DEF Level, LevelAt
    <3>2. /\ "load_pr_minor" \in Ebar /\ c \in SyncWaves("load_pr_minor")
          /\ pc[c] \notin AfterSync("load_pr_minor") /\ p \in UserWaves("load_pr_minor")
      BY <2>2 DEF Ebar, SyncWaves, AfterSync, UserWaves, ArriveWaves
    <3>3. Level("load_pr_minor", c) <= Level("load_pr_minor", p)
      BY <1>1, <3>2, Past
    <3>4. Level("load_pr_minor", p) # 0
      BY <3>1, <3>3
    <3> QED BY <3>4 DEF Level, LevelAt
  <2> QED BY <2>1, <2>2, Groups
<1>3. n[p] = k /\ o \in Operand
  BY <1>1, <1>2 DEF InIteration, Private, Operand
<1>4. k < Floor(p)[o]
  BY <1>0, <1>2, <1>3 DEF Floor, FromTile
<1>5. k <= Top(p)[o] /\ Top(p)[o] < k + NumLdsStages
  BY <1>2, <1>3, NotReplaced
<1> QED BY <1>4, <1>5 DEF Ready

\* A tile that is ready is in the wave's part of its slot, and nothing is on
\* its way there.
LEMMA ReadyHolds ==
  ASSUME TypeInv, NEW p \in Producer, QueueOK(p), NEW o \in Operand, NEW b \in Nat, Ready(p, o, b)
  PROVE  /\ ~InFlight(p, <<o, LdsStage(b)>>)
         /\ lds[<<o, LdsStage(b)>>][p] = Tile(tile_idx[p], b)
<1> DEFINE q == vmq[p]
           l == lds
           t == tile_idx[p]
           issued == Issued(p)
           lo == Floor(p)
           top == Top(p)
<1>1. /\ t \in Nat /\ q \in Seq(LoadType) /\ lo \in [Operand -> Int] /\ top \in [Operand -> Int]
      /\ NumLdsStages \in Nat \ {0} /\ issued \in Int
  BY OwnNumbers, QueueNumbers, Groups DEF TypeInv, TypeOK, LoadType
<1>2. Queue(q, l, p, t, issued, lo, top, NumLdsStages, OperandEnd)
  BY DEF QueueOK
<1>3. b < lo[o] /\ b <= top[o] /\ top[o] < b + NumLdsStages
  BY DEF Ready
<1> HIDE DEF q, l, t, issued, lo, top
<1>4. Holds(q, l, p, t, NumLdsStages, o, b)
  BY <1>1, <1>2, <1>3, QueueHolds
<1>5. ~OnTheWay(q, <<o, LdsStage(b)>>) /\ l[<<o, LdsStage(b)>>][p] = Tile(t, b)
  BY <1>4 DEF Holds, LdsStage
<1>6. ~InFlight(p, <<o, LdsStage(b)>>)
  BY <1>1, <1>5, SameFlight DEF q
<1> QED BY <1>5, <1>6 DEF l, t

\* No load is on its way to what a wave reads, and the tiles it reads are the
\* K tile that comes next in its sum.
LEMMA ReadsItsTile ==
  ASSUME TypeInv, NEW t, NEW k \in 0 .. NumIter - 1, Iterating(t, k),
         NEW c \in Compute, pc[c] = "fence" \/ ReadsNext(c)
  PROVE  /\ \A p \in Producer : \A s \in reading[c] : ~InFlight(p, s)
         /\ Product(c) = Tile(t, TileRead(c))
<1> DEFINE b == TileRead(c)
<1>0. Walking(t, k) /\ (\A p \in Producer : QueueOK(p)) /\ ReadingOK(c) /\ c \in Waves /\ k \in Nat
  BY Groups, LoopNumbers DEF Iterating, LoopShape
<1>1. n[c] = k
  BY <1>0 DEF Walking, InIteration, ReadsNext
<1>2. b \in Nat /\ b = (IF ReadsNext(c) THEN k + 1 ELSE k)
  BY <1>0, <1>1 DEF TileRead
<1>3. reading[c] = {<<"sh", LdsStage(b)>>, <<Private(c), LdsStage(b)>>}
  BY <1>0 DEF ReadingOK
<1>4. {"sh", Private(c)} \subseteq Operand
  BY DEF Private, Operand
<1>5. ASSUME NEW p \in Producer, NEW o \in {"sh", Private(c)} PROVE Ready(p, o, b)
  <2>1. CASE ReadsNext(c)
    <3>1. o \in {"sh", "pr_major"}
      BY <2>1 DEF ReadsNext, Private
    <3> QED BY <1>0, <1>2, <2>1, <3>1, NextReady
  <2>2. CASE ~ReadsNext(c)
    <3>1. b = k
      BY <1>2, <2>2
    <3> QED BY <1>0, <2>2, <3>1, FenceReady
  <2> QED BY <2>1, <2>2
<1> HIDE DEF b
<1>6. \A p \in Producer : tile_idx[p] = t
  BY <1>0, Groups DEF Walking
<1>7. \A p \in Producer, o \in {"sh", Private(c)} :
        /\ ~InFlight(p, <<o, LdsStage(b)>>)
        /\ lds[<<o, LdsStage(b)>>][p] = Tile(t, b)
  <2> SUFFICES ASSUME NEW p \in Producer, NEW o \in {"sh", Private(c)}
               PROVE  /\ ~InFlight(p, <<o, LdsStage(b)>>)
                      /\ lds[<<o, LdsStage(b)>>][p] = Tile(t, b)
    OBVIOUS
  <2>1. QueueOK(p) /\ Ready(p, o, b) /\ o \in Operand /\ tile_idx[p] = t
    BY <1>0, <1>4, <1>5, <1>6
  <2> QED BY <1>2, <2>1, ReadyHolds
<1>8. Content(<<"sh", LdsStage(b)>>) = Tile(t, b) /\ Content(<<Private(c), LdsStage(b)>>) = Tile(t, b)
  <2>1. \A o \in {"sh", Private(c)} : Content(<<o, LdsStage(b)>>) = Tile(t, b)
    <3> TAKE o \in {"sh", Private(c)}
    <3> DEFINE s == <<o, LdsStage(b)>>
               tile == Tile(t, b)
    <3>1. \A p \in Producer : ~InFlight(p, s) /\ lds[s][p] = tile
      BY <1>7
    <3> HIDE DEF s, tile
    <3>2. Content(s) = tile
      BY <3>1, ContentIs
    <3> QED BY <3>2 DEF s, tile
  <2> QED BY <2>1
<1>9. Product(c) = Tile(t, b)
  BY <1>3, <1>8, ProductIs
<1>10. \A p \in Producer : \A s \in reading[c] : ~InFlight(p, s)
  BY <1>3, <1>7
<1> QED BY <1>9, <1>10 DEF b

\* Other waves leave a compute wave's registers alone.
LEMMA ComputeElsewhere ==
  ASSUME NEW c \in Compute, ReadingOK(c) /\ SumOK(c), pc'[c] = pc[c], n'[c] = n[c],
         tile_idx'[c] = tile_idx[c], reading'[c] = reading[c], acc'[c] = acc[c]
  PROVE  ReadingOK(c)' /\ SumOK(c)'
BY DEF ReadingOK, SumOK, ReadsNext, TileRead, HasProduct

\* The next tile follows the first ones.
LEMMA TileAdded ==
  ASSUME NEW t \in Nat, NEW k \in Nat
  PROVE  Append(FirstTiles(t, k), Tile(t, k)) = FirstTiles(t, k + 1)
<1> DEFINE a == FirstTiles(t, k)
           b == FirstTiles(t, k + 1)
           e == Tile(t, k)
           T == Nat \X Nat
<1>1. \A i \in Nat \ {0} : Tile(t, i - 1) \in T
  BY DEF Tile
<1>2. a \in Seq(T) /\ Len(a) = k /\ \A i \in 1 .. k : a[i] = Tile(t, i - 1)
  <2>1. a \in [1 .. k -> T]
    BY <1>1 DEF FirstTiles
  <2> QED BY <2>1 DEF FirstTiles
<1>3. b \in Seq(T) /\ Len(b) = k + 1 /\ \A i \in 1 .. k + 1 : b[i] = Tile(t, i - 1)
  <2>1. b \in [1 .. k + 1 -> T]
    BY <1>1 DEF FirstTiles
  <2> QED BY <2>1 DEF FirstTiles
<1>4. e \in T /\ e = Tile(t, (k + 1) - 1)
  BY DEF Tile
<1> HIDE DEF a, b, e, T
<1>5. /\ Append(a, e) \in Seq(T) /\ Len(Append(a, e)) = k + 1
      /\ \A i \in 1 .. k : Append(a, e)[i] = a[i]
      /\ Append(a, e)[k + 1] = e
  BY <1>2, <1>4, AppendProperties
<1>6. \A i \in 1 .. k + 1 : Append(a, e)[i] = b[i]
  <2> TAKE i \in 1 .. k + 1
  <2>1. i \in 1 .. k \/ i = k + 1
    OBVIOUS
  <2>2. CASE i \in 1 .. k
    BY <1>2, <1>3, <1>5, <2>2
  <2>3. CASE i = k + 1
    BY <1>3, <1>4, <1>5, <2>3
  <2> QED BY <2>1, <2>2, <2>3, Zenon
<1> QED BY <1>3, <1>5, <1>6, SeqEqual DEF a, b, e

\* A compute wave reads and sums up tile after tile.
LEMMA ComputeSums ==
  ASSUME TypeInv, NEW t, NEW k \in 0 .. NumIter - 1, Iterating(t, k),
         NEW c \in Compute, ComputeStep(c)
  PROVE  ReadingOK(c)' /\ SumOK(c)'
<1>0. /\ c \in Waves /\ (c \in Major <=> c \notin Minor) /\ k \in Nat
      /\ pc \in [Waves -> Point] /\ n \in [Waves -> Nat] /\ tile_idx \in [Waves -> Nat]
      /\ reading \in [Compute -> SUBSET Slot] /\ acc \in [Compute -> Seq(TileType)]
  BY Groups, LoopNumbers DEF TypeInv, TypeOK, TileType, LoopShape
<1>1. PointOK(c) /\ ReadingOK(c) /\ SumOK(c) /\ InIteration(c, k) /\ tile_idx[c] = t
  BY <1>0 DEF Iterating, Walking
<1>2. UNCHANGED tile_idx /\ n' = n
  BY DEF ComputeStep, MajorStep, MinorStep, AwaitSh, AwaitPrMajor, ReadMajor, AwaitPrMinor,
     ReadMinor, FenceAndFreeSh, FreePrivate
\* where nothing is read
<1>3. ASSUME ~(pc[c] = "fence" \/ ReadsNext(c)), ~(pc'[c] = "fence" \/ ReadsNext(c)'),
             HasProduct(c)' = HasProduct(c), UNCHANGED <<reading, acc>>
      PROVE  ReadingOK(c)' /\ SumOK(c)'
  BY <1>1, <1>2, <1>3 DEF ReadingOK, SumOK
<1> USE DEF At, Goto
<1>4. CASE c \in Major /\ AwaitSh(c)
  <2>1. /\ <<pc[c], pc'[c]>> \in {<<"first_sh", "first_pr_major">>, <<"load_sh", "load_pr_major">>}
        /\ UNCHANGED <<reading, acc>>
    BY <1>0, <1>4 DEF AwaitSh
  <2> QED BY <1>0, <1>3, <1>4, <2>1 DEF ReadsNext, HasProduct
<1>5. CASE c \in Major /\ AwaitPrMajor(c)
  <2>1. /\ <<pc[c], pc'[c]>> \in {<<"first_pr_major", "first_read">>, <<"load_pr_major", "read">>}
        /\ UNCHANGED <<reading, acc>>
    BY <1>0, <1>5 DEF AwaitPrMajor
  <2> QED BY <1>0, <1>3, <1>5, <2>1 DEF ReadsNext, HasProduct
<1>6. CASE c \in Minor /\ AwaitPrMinor(c)
  <2>1. pc[c] = "load_pr_minor" /\ pc'[c] = "read" /\ UNCHANGED <<reading, acc>>
    BY <1>0, <1>6 DEF AwaitPrMinor
  <2> QED BY <1>0, <1>3, <1>6, <2>1 DEF ReadsNext, HasProduct
<1>7. CASE FreePrivate(c)
  <2>1. pc[c] = "free_private" /\ pc'[c] = AfterProduct(c) /\ UNCHANGED <<reading, acc>>
    BY <1>0, <1>7 DEF FreePrivate
  <2> QED BY <1>0, <1>2, <1>3, <2>1 DEF ReadsNext, HasProduct, AfterProduct
<1>8. CASE c \in Major /\ ReadMajor(c)
  <2>1. UNCHANGED acc /\ n[c] \in Nat
    BY <1>0, <1>8 DEF ReadMajor
  <2>2. CASE pc[c] = "first_read"
    <3>1. /\ pc'[c] = "fence" /\ n[c] = 0
          /\ reading'[c] = {<<"sh", 0>>, <<Private(c), 0>>}
      BY <1>0, <1>1, <1>8, <2>2 DEF ReadMajor, ReadStage, PointOK
    <3>2. LdsStage(0) = 0
      BY SmallMod, LoopNumbers DEF LdsStage, LoopShape
    <3> QED BY <1>1, <1>2, <2>1, <2>2, <3>1, <3>2
            DEF ReadingOK, SumOK, TileRead, ReadsNext, HasProduct
  <2>3. CASE pc[c] = "read"
    <3> DEFINE s == (LdsStage(n[c]) + 1) % NumLdsStages
    <3>1. /\ pc'[c] = "tg" /\ ~IsLastLoop(n[c])
          /\ reading'[c] = {<<"sh", s>>, <<Private(c), s>>}
      BY <1>0, <1>1, <1>8, <2>3 DEF ReadMajor, ReadStage, PointOK
    <3>2. s = LdsStage(n[c] + 1)
      BY <2>1, IterationNumbers DEF LdsStage
    <3> HIDE DEF s
    <3>3. ReadsNext(c)' /\ TileRead(c)' = n[c] + 1
      BY <1>2, <1>8, <3>1 DEF ReadsNext, TileRead
    <3>4. HasProduct(c) /\ HasProduct(c)'
      BY <1>0, <1>8, <2>3, <3>1 DEF HasProduct
    <3> QED BY <1>1, <1>2, <2>1, <3>1, <3>2, <3>3, <3>4 DEF ReadingOK, SumOK
  <2> QED BY <1>8, <2>2, <2>3 DEF ReadMajor
<1>9. CASE c \in Minor /\ ReadMinor(c)
  <2> DEFINE s == LdsStage(n[c])
  <2>1. /\ pc[c] = "read" /\ pc'[c] = "fence" /\ UNCHANGED acc
        /\ reading'[c] = {<<"sh", s>>, <<Private(c), s>>}
    BY <1>0, <1>9 DEF ReadMinor, ReadStage
  <2> HIDE DEF s
  <2>2. ~ReadsNext(c)' /\ TileRead(c)' = n[c]
    BY <1>2, <2>1 DEF ReadsNext, TileRead
  <2>3. ~HasProduct(c) /\ ~HasProduct(c)'
    BY <1>9, <2>1 DEF HasProduct
  <2> QED BY <1>1, <1>2, <2>1, <2>2, <2>3 DEF ReadingOK, SumOK, s
<1>10. CASE FenceAndFreeSh(c)
  <2>1. /\ pc[c] = "fence" /\ reading'[c] = {} /\ acc'[c] = Append(acc[c], Product(c))
        /\ pc'[c] \in {AfterProduct(c), "free_private"}
    BY <1>0, <1>10 DEF FenceAndFreeSh
  <2>2. n[c] = k /\ t \in Nat
    BY <1>0, <1>1, <2>1 DEF InIteration
  <2>3. ~ReadsNext(c)
    BY <2>1 DEF ReadsNext
  <2>4. Product(c) = Tile(t, k)
    BY <2>1, <2>2, <2>3, ReadsItsTile DEF TileRead
  <2>5. ~HasProduct(c) /\ HasProduct(c)'
    BY <2>1 DEF HasProduct, AfterProduct
  <2>6. acc[c] = FirstTiles(t, k)
    BY <1>1, <2>2, <2>5 DEF SumOK
  <2>7. acc'[c] = FirstTiles(t, k + 1)
    BY <1>0, <2>1, <2>2, <2>4, <2>6, TileAdded
  <2>8. ~ReadsNext(c)' /\ pc'[c] # "fence"
    BY <1>0, <1>2, <2>1 DEF ReadsNext, AfterProduct
  <2> QED BY <1>1, <1>2, <2>1, <2>2, <2>5, <2>7, <2>8 DEF ReadingOK, SumOK
<1> QED BY <1>4, <1>5, <1>6, <1>7, <1>8, <1>9, <1>10 DEF ComputeStep, MajorStep, MinorStep

(***************************************************************************)
(* The work group's steps.                                                 *)
(***************************************************************************)
\* What a producer wave's step leaves alone.
LEMMA ProducerElsewhere ==
  ASSUME TypeInv, NEW p \in Producer, ProducerStep(p)
  PROVE  /\ UNCHANGED <<tile_idx, lds, reading, acc>>
         /\ \A w \in Waves \ {p} : pc'[w] = pc[w] /\ n'[w] = n[w]
         /\ \A x \in Producer \ {p} : coffset'[x] = coffset[x] /\ vmq'[x] = vmq[x]
<1>0. /\ pc \in [Waves -> Point] /\ n \in [Waves -> Nat] /\ coffset \in [Producer -> Nat]
      /\ vmq \in [Producer -> Seq(LoadType)]
  BY DEF TypeInv, TypeOK, LoadType
<1>1. CASE IssueInitial(p)
  <2>1. /\ UNCHANGED <<tile_idx, lds, reading, acc>>
        /\ \E q : vmq' = [vmq EXCEPT ![p] = q]
    BY <1>1 DEF IssueInitial
  <2>2. \E x, i, point : /\ coffset' = [coffset EXCEPT ![p] = x] \/ coffset' = coffset
                         /\ n' = [n EXCEPT ![p] = i]
                         /\ pc' = [pc EXCEPT ![p] = point] \/ pc' = pc
    BY <1>1 DEF IssueInitial, Goto
  <2> QED BY <1>0, <2>1, <2>2
<1>2. CASE IssueShPrMajor(p)
  <2>1. /\ UNCHANGED <<n, tile_idx, lds, reading, acc>>
        /\ (\E q : vmq' = [vmq EXCEPT ![p] = q]) /\ (\E x : coffset' = [coffset EXCEPT ![p] = x])
        /\ (\E point : pc' = [pc EXCEPT ![p] = point])
    BY <1>2 DEF IssueShPrMajor, Goto
  <2> QED BY <1>0, <2>1
<1>3. CASE IssuePrMinor(p)
  <2>1. /\ UNCHANGED <<n, tile_idx, coffset, lds, reading, acc>>
        /\ (\E q : vmq' = [vmq EXCEPT ![p] = q])
        /\ (\E point : pc' = [pc EXCEPT ![p] = point])
    BY <1>3 DEF IssuePrMinor, Goto
  <2> QED BY <1>0, <2>1
<1>4. CASE ~(IssueInitial(p) \/ IssueShPrMajor(p) \/ IssuePrMinor(p))
  <2>1. /\ UNCHANGED <<n, tile_idx, coffset, vmq, lds, reading, acc>>
        /\ (\E point : pc' = [pc EXCEPT ![p] = point])
    BY <1>4 DEF ProducerStep, NotifyFirstSh, NotifyFirstPrMajor, NotifyPrMinor, AwaitFreeSh,
       AwaitFreePrMajor, AwaitFreePrMinor, NotifySh, NotifyPrMajor, Goto
  <2> QED BY <1>0, <2>1
<1> QED BY <1>1, <1>2, <1>3, <1>4

\* A producer wave's step.
LEMMA ProducerIterates ==
  ASSUME TypeInv, NEW t, NEW k \in 0 .. NumIter - 1, Iterating(t, k),
         NEW p \in Producer, ProducerStep(p)
  PROVE  Iterating(t, k)'
<1>0. p \in Waves /\ p \notin Compute /\ k \in Nat /\ k < NumIter /\ NumIter \in Nat
  BY Groups, LoopNumbers DEF LoopShape
<1>1. Walking(t, k) /\ InIteration(p, k) /\ PointOK(p) /\ \A x \in Producer : QueueOK(x)
  BY <1>0 DEF Iterating, Walking
<1>2. /\ UNCHANGED <<tile_idx, lds, reading, acc>>
      /\ \A w \in Waves \ {p} : pc'[w] = pc[w] /\ n'[w] = n[w]
      /\ \A x \in Producer \ {p} : coffset'[x] = coffset[x] /\ vmq'[x] = vmq[x]
  BY ProducerElsewhere
<1>3. Walking(t, k)'
  BY <1>0, <1>1, ProducerWalks
<1>4. n[p] < NumIter
  <2>1. CASE pc[p] = "initial"
    <3>1. n[p] \in Stage /\ NumLdsStages < NumIter /\ NumLdsStages \in Nat
      BY <2>1, LoopNumbers DEF TypeInv, InitialStages, LoopShape
    <3> QED BY <1>0, <3>1 DEF Stage
  <2>2. CASE pc[p] # "initial"
    BY <1>0, <1>1, <2>2 DEF InIteration
  <2> QED BY <2>1, <2>2
<1>5. QueueOK(p)'
  BY <1>1, <1>4, ProducerQueue
<1>6. ASSUME NEW x \in Producer, x # p PROVE QueueOK(x)'
  BY <1>1, <1>2, <1>6, QueueElsewhere, Groups
<1>7. ASSUME NEW c \in Compute PROVE ReadingOK(c)' /\ SumOK(c)'
  <2>1. ReadingOK(c) /\ SumOK(c) /\ c \in Waves /\ c # p
    BY <1>0, Groups DEF Iterating
  <2> QED BY <1>2, <2>1, ComputeElsewhere
<1> QED BY <1>3, <1>5, <1>6, <1>7 DEF Iterating

\* A load that lands.
LEMMA LandIterates ==
  ASSUME TypeInv, NEW t, NEW k \in Nat, Iterating(t, k),
         NEW p \in Producer, Land(p)
  PROVE  Iterating(t, k)'
<1>1. UNCHANGED <<pc, n, tile_idx, coffset, reading, acc, ebar>>
  BY DEF Land, LandOldest
<1>2. Walking(t, k)'
  <2>1. \A w \in Waves : (InIteration(w, k) /\ tile_idx[w] = t /\ PointOK(w))'
    BY <1>1 DEF Iterating, Walking, InIteration, PointOK
  <2>2. \A b \in Ebar : BarrierOK(b)'
    <3> TAKE b \in Ebar
    <3>1. BarrierOK(b)
      BY DEF Iterating, Walking
    <3>2. Levels(b)' = Levels(b)
      BY <1>1 DEF Levels, Level
    <3> QED BY <1>1, <3>1, <3>2 DEF BarrierOK
  <2> QED BY <2>1, <2>2 DEF Walking
<1>3. \A x \in Producer : QueueOK(x)'
  <2>1. PointOK(p) /\ \A x \in Producer : QueueOK(x)
    BY Groups DEF Iterating, Walking
  <2> QED BY <2>1, QueueLands
<1>4. \A c \in Compute : ReadingOK(c)' /\ SumOK(c)'
  BY <1>1, ComputeElsewhere DEF Iterating
<1> QED BY <1>2, <1>3, <1>4 DEF Iterating

\* What a compute wave's step leaves alone.
LEMMA OthersWait ==
  ASSUME TypeInv, NEW c \in Compute, ComputeStep(c)
  PROVE  /\ UNCHANGED <<n, tile_idx, coffset, vmq, lds>>
         /\ \A w \in Waves \ {c} : pc'[w] = pc[w]
         /\ \A x \in Compute \ {c} : reading'[x] = reading[x] /\ acc'[x] = acc[x]
<1>0. /\ pc \in [Waves -> Point] /\ reading \in [Compute -> SUBSET Slot]
      /\ acc \in [Compute -> Seq(TileType)]
  BY DEF TypeInv, TypeOK, TileType
<1>1. UNCHANGED <<n, tile_idx, coffset, vmq, lds>>
  BY DEF ComputeStep, MajorStep, MinorStep, AwaitSh, AwaitPrMajor, ReadMajor, AwaitPrMinor,
     ReadMinor, FenceAndFreeSh, FreePrivate
<1>2. \E point : pc' = [pc EXCEPT ![c] = point]
  BY DEF ComputeStep, MajorStep, MinorStep, AwaitSh, AwaitPrMajor, ReadMajor, AwaitPrMinor,
     ReadMinor, FenceAndFreeSh, FreePrivate, Goto
<1>3. /\ reading' = reading \/ \E S : reading' = [reading EXCEPT ![c] = S]
      /\ acc' = acc \/ \E s : acc' = [acc EXCEPT ![c] = s]
  BY DEF ComputeStep, MajorStep, MinorStep, AwaitSh, AwaitPrMajor, ReadMajor, AwaitPrMinor,
     ReadMinor, FenceAndFreeSh, FreePrivate, ReadStage
<1> QED BY <1>0, <1>1, <1>2, <1>3

\* A compute wave's step.
LEMMA ComputeIterates ==
  ASSUME TypeInv, NEW t, NEW k \in 0 .. NumIter - 1, Iterating(t, k),
         NEW c \in Compute, ComputeStep(c)
  PROVE  Iterating(t, k)'
<1>0. c \in Waves /\ c \notin Producer /\ k \in Nat
  BY Groups, LoopNumbers DEF LoopShape
<1>1. /\ UNCHANGED <<n, tile_idx, coffset, vmq, lds>>
      /\ \A w \in Waves \ {c} : pc'[w] = pc[w]
      /\ \A x \in Compute \ {c} : reading'[x] = reading[x] /\ acc'[x] = acc[x]
  BY OthersWait
<1>2. Walking(t, k)'
  BY <1>0, ComputeWalks DEF Iterating
<1>3. ASSUME NEW p \in Producer PROVE QueueOK(p)'
  <2>1. QueueOK(p) /\ p \in Waves /\ p # c
    BY <1>0, Groups DEF Iterating
  <2> QED BY <1>1, <2>1, QueueElsewhere
<1>4. ASSUME NEW x \in Compute PROVE ReadingOK(x)' /\ SumOK(x)'
  <2>1. CASE x = c
    BY <2>1, ComputeSums
  <2>2. CASE x # c
    <3>1. ReadingOK(x) /\ SumOK(x) /\ x \in Waves
      BY Groups DEF Iterating
    <3> QED BY <1>1, <2>2, <3>1, ComputeElsewhere
  <2> QED BY <2>1, <2>2
<1> QED BY <1>2, <1>3, <1>4 DEF Iterating

\* The barrier lets all into their first iteration.
LEMMA Enters ==
  ASSUME TypeInv, NEW t, Entering(t), WgSync
  PROVE  Iterating(t, 0)'
<1>0. /\ \A c \in Compute : c \in Waves /\ c \notin Producer
      /\ \A p \in Producer : p \in Waves
  BY Groups
<1>1. /\ \A w \in Waves :
           /\ pc'[w] = IF w \in Producer THEN "initial"
                       ELSE IF w \in Major THEN "first_sh" ELSE "load_pr_minor"
           /\ n'[w] = 0 /\ tile_idx'[w] = t
      /\ UNCHANGED <<coffset, vmq, lds, reading, acc>>
  BY DEF TypeInv, TypeOK, Entering, WgSync, Resume, LoopStart
<1>2. Walking(t, 0)'
  BY WalkIn
<1>3. ASSUME NEW p \in Producer PROVE QueueOK(p)'
  <2>1. /\ pc'[p] = "initial" /\ n'[p] = 0 /\ vmq'[p] = <<>> /\ coffset'[p] = 0
    BY <1>0, <1>1 DEF Entering
  <2>2. LastOf(p)' = -1 /\ ~Half(p)'
    BY <2>1 DEF LastOf, Half
  <2>3. Top(p)' = [o \in Operand |-> -1]
    BY <2>2 DEF Top
  <2> DEFINE top == Top(p)'
  <2>4. \A o \in Operand : top[o] = -1
    BY <2>3
  <2> HIDE DEF top
  <2>5. Queue(<<>>, lds', p, tile_idx'[p], Issued(p)', Floor(p)', top, NumLdsStages, OperandEnd)
    <3>1. <<>> \in Seq(LoadType) /\ Len(<<>>) = 0
      OBVIOUS
    <3>2. \A issued, lo : Ordered(<<>>, issued, tile_idx'[p], lo, top, NumLdsStages, OperandEnd)
      BY <3>1 DEF Ordered
    <3>3. Filled(<<>>, lds', p, tile_idx'[p], top, NumLdsStages)
      <4>1. \A o \in Operand, b \in Nat : ~(b <= top[o])
        BY <2>4
      <4> QED BY <4>1 DEF Filled
    <3> QED BY <3>1, <3>2, <3>3 DEF Queue
  <2>6. 0 \div FilterUnroll = 0
    <3>1. FilterUnroll * 0 + 0 = 0 /\ 0 \in 0 .. FilterUnroll - 1 /\ FilterUnroll \in Nat \ {0}
      BY ShapeAssumption
    <3> QED BY <3>1, DivModUnique
  <2> QED BY <2>1, <2>5, <2>6 DEF QueueOK, top
<1>4. ASSUME NEW c \in Compute PROVE ReadingOK(c)' /\ SumOK(c)'
  <2>1. /\ pc'[c] \in {"first_sh", "load_pr_minor"} /\ n'[c] = 0 /\ reading'[c] = {} /\ acc'[c] = <<>>
    BY <1>0, <1>1 DEF Entering
  <2>2. FirstTiles(tile_idx'[c], 0) = <<>>
    BY DEF FirstTiles
  <2> QED BY <2>1, <2>2 DEF ReadingOK, ReadsNext, SumOK, HasProduct
<1> QED BY <1>2, <1>3, <1>4 DEF Iterating

\* At the end of an iteration nothing is read, but the major waves' next tile,
\* and the sums are complete.
LEMMA AtIterationEnd ==
  ASSUME TypeInv, NEW t, NEW k \in Nat, Iterating(t, k), NEW c \in Compute, pc[c] = "tg"
  PROVE  /\ acc[c] = FirstTiles(t, k + 1)
         /\ reading[c] = IF c \in Major /\ ~IsLastLoop(k)
                         THEN {<<"sh", LdsStage(k + 1)>>, <<Private(c), LdsStage(k + 1)>>} ELSE {}
<1>1. n[c] = k /\ tile_idx[c] = t /\ ReadingOK(c) /\ SumOK(c)
  BY Groups DEF Iterating, Walking, InIteration
<1>2. HasProduct(c)
  BY DEF HasProduct
<1> QED BY <1>1, <1>2 DEF ReadingOK, SumOK, TileRead, ReadsNext

\* The last iteration's loads have all landed.
LEMMA AllLanded ==
  ASSUME TypeInv, NEW p \in Producer, QueueOK(p), pc[p] = "tg", IsLastLoop(n[p])
  PROVE  vmq[p] = <<>>
<1> DEFINE q == vmq[p]
           issued == Issued(p)
           lo == Floor(p)
           top == Top(p)
           t == tile_idx[p]
<1>1. Ordered(q, issued, t, lo, top, NumLdsStages, OperandEnd) /\ q \in Seq(LoadType)
  BY DEF QueueOK, Queue
<1>2. NumIter \in Nat /\ NumLdsStages \in Nat \ {0} /\ n[p] = NumIter - 1
  BY LoopNumbers DEF LoopShape, IsLastLoop
<1>3. LastOf(p) = NumIter - 1 /\ ~Half(p)
  BY <1>2 DEF LastOf, Half, LastTile
<1>4. \A o \in Operand : top[o] = NumIter - 1 /\ lo[o] = NumIter
  BY <1>2, <1>3 DEF Top, Floor, FromTile
<1> HIDE DEF q, issued, lo, top, t
<1>5. Len(q) \in Nat
  BY <1>1, LenProperties
<1>6. 1 \notin 1 .. Len(q)
  <2> SUFFICES ASSUME 1 \in 1 .. Len(q) PROVE FALSE
    OBVIOUS
  <2>1. PICK o \in Operand, b \in Nat : lo[o] <= b /\ b <= top[o]
    BY <1>1 DEF Ordered
  <2> QED BY <1>2, <1>4, <2>1
<1>7. Len(q) = 0
  BY <1>5, <1>6
<1> QED BY <1>1, <1>7, EmptySeq DEF q

\* The barrier lets all into their next iteration.
LEMMA Rounds ==
  ASSUME TypeInv, NEW t, NEW k \in Nat, Iterating(t, k), WgSync, ~IsLastLoop(k)
  PROVE  Iterating(t, k + 1)'
<1>0. /\ \A c \in Compute : c \in Waves /\ c \notin Producer
      /\ \A p \in Producer : p \in Waves /\ p \notin Major
      /\ NumLdsStages \in Nat \ {0}
  BY Groups, QueueNumbers
<1>1. /\ \A w \in Waves : pc[w] = "tg" /\ n[w] = k
      /\ \A w \in Waves : n'[w] = k + 1 /\ pc'[w] = LoopStart(w)
      /\ Walking(t, k + 1)'
  BY WalkAcross DEF Iterating
<1>2. UNCHANGED <<tile_idx, coffset, vmq, lds, reading, acc>>
  BY DEF WgSync
<1>3. ASSUME NEW p \in Producer PROVE QueueOK(p)'
  <2>1. /\ pc[p] = "tg" /\ n[p] = k /\ pc'[p] = "load_pr_minor" /\ n'[p] = k + 1 /\ QueueOK(p)
    BY <1>0, <1>1 DEF LoopStart, Iterating
  <2>2. k + 1 + NumLdsStages - 1 = k + NumLdsStages
    BY <1>0
  <2>3. LastOf(p)' = LastOf(p) /\ Half(p)' = Half(p)
    BY <2>1, <2>2 DEF LastOf, Half
  <2>4. Floor(p)' = Floor(p)
    <3>1. k + 1 + 1 = k + 2
      OBVIOUS
    <3> QED BY <2>1, <3>1 DEF Floor
  <2>5. RingQueue(vmq[p], lds, p, tile_idx[p], Issued(p), Floor(p)', Top(p))
    BY <2>1, <2>4 DEF QueueOK, RingQueue
  <2> QED BY <1>2, <2>1, <2>3, <2>5, QueueGoesOn
<1>4. ASSUME NEW c \in Compute PROVE ReadingOK(c)' /\ SumOK(c)'
  <2>1. /\ acc[c] = FirstTiles(t, k + 1)
        /\ reading[c] = IF c \in Major
                        THEN {<<"sh", LdsStage(k + 1)>>, <<Private(c), LdsStage(k + 1)>>} ELSE {}
    <3>1. /\ acc[c] = FirstTiles(t, k + 1)
          /\ reading[c] = IF c \in Major /\ ~IsLastLoop(k)
                          THEN {<<"sh", LdsStage(k + 1)>>, <<Private(c), LdsStage(k + 1)>>} ELSE {}
      <4>1. pc[c] = "tg"
        BY <1>0, <1>1
      <4> QED BY <4>1, AtIterationEnd
    <3> QED BY <3>1
  <2>2. n'[c] = k + 1 /\ tile_idx'[c] = t
    BY <1>0, <1>1, <1>2 DEF Iterating, Walking
  <2>3. pc'[c] = IF c \in Major THEN "fence" ELSE "load_pr_minor"
    BY <1>0, <1>1 DEF LoopStart
  <2>4. ~HasProduct(c)' /\ ~ReadsNext(c)' /\ TileRead(c)' = k + 1
    BY <2>2, <2>3 DEF HasProduct, ReadsNext, TileRead
  <2> QED BY <1>2, <2>1, <2>2, <2>3, <2>4 DEF ReadingOK, SumOK
<1> QED BY <1>1, <1>3, <1>4 DEF Iterating

\* It lets all out of their last one.
LEMMA Leaves ==
  ASSUME TypeInv, NEW t, NEW k \in Nat, Iterating(t, k), WgSync, IsLastLoop(k)
  PROVE  Leaving(t)'
<1>0. /\ \A c \in Compute : c \in Waves /\ \A p \in Producer : p \in Waves
  BY Groups
<1>1. /\ \A w \in Waves : pc[w] = "tg" /\ n[w] = k /\ tile_idx'[w] = t
      /\ \A w \in Waves : pc'[w] = "done"
      /\ \A b \in Ebar : ebar'[b] = FreeSlot
  BY WalkAcross DEF Iterating
<1>2. UNCHANGED <<vmq, reading, acc>>
  BY DEF WgSync
<1>3. \A p \in Producer : vmq'[p] = <<>>
  <2> TAKE p \in Producer
  <2>1. QueueOK(p) /\ pc[p] = "tg" /\ IsLastLoop(n[p])
    BY <1>1, Groups DEF Iterating
  <2> QED BY <1>2, <2>1, AllLanded
<1>4. \A c \in Compute : reading'[c] = {} /\ acc'[c] = FirstTiles(t, NumIter)
  <2> TAKE c \in Compute
  <2>1. acc[c] = FirstTiles(t, k + 1) /\ reading[c] = {}
    <3>1. pc[c] = "tg"
      BY <1>0, <1>1
    <3>2. /\ acc[c] = FirstTiles(t, k + 1)
          /\ reading[c] = IF c \in Major /\ ~IsLastLoop(k)
                          THEN {<<"sh", LdsStage(k + 1)>>, <<Private(c), LdsStage(k + 1)>>} ELSE {}
      BY <3>1, AtIterationEnd
    <3> QED BY <3>2
  <2>2. k + 1 = NumIter
    BY LoopNumbers DEF IsLastLoop, LoopShape
  <2> QED BY <1>2, <2>1, <2>2
<1> QED BY <1>1, <1>3, <1>4 DEF Leaving

(***************************************************************************)
(* The whole pipeline.                                                     *)
(***************************************************************************)
\* The work group starts before its pipeline.
LEMMA PhaseInit == Init => PhaseInv(0)
<1> SUFFICES ASSUME Init PROVE PhaseInv(0)
  OBVIOUS
<1>1. TypeInv
  BY TypeInit
<1>2. Entering(0)
  BY Groups DEF Init, StartOf, StagesInit, Entering
<1> QED BY <1>1, <1>2 DEF PhaseInv

\* A step of the work group in its pipeline keeps it there, or is the last.
LEMMA IterationStep ==
  ASSUME TypeInv, NEW t, NEW k \in 0 .. NumIter - 1, Iterating(t, k), PipelineStep
  PROVE  Leaving(t)' \/ \E j \in 0 .. NumIter - 1 : Iterating(t, j)'
<1>0. k \in Nat /\ (~IsLastLoop(k) => k + 1 \in 0 .. NumIter - 1)
  BY LoopNumbers DEF LoopShape, IsLastLoop
<1>1. ASSUME NEW p \in Producer, ProducerStep(p) \/ Land(p) PROVE Iterating(t, k)'
  BY <1>0, <1>1, ProducerIterates, LandIterates
<1>2. ASSUME NEW m \in Major, MajorStep(m) PROVE Iterating(t, k)'
  BY <1>2, Groups, ComputeIterates DEF ComputeStep
<1>3. ASSUME NEW m \in Minor, MinorStep(m) PROVE Iterating(t, k)'
  BY <1>3, Groups, ComputeIterates DEF ComputeStep
<1>4. CASE WgSync /\ ~IsLastLoop(k)
  BY <1>0, <1>4, Rounds
<1>5. CASE WgSync /\ IsLastLoop(k)
  BY <1>0, <1>5, Leaves
<1> QED BY <1>1, <1>2, <1>3, <1>4, <1>5 DEF PipelineStep

\* The work group waits.
LEMMA IterationStays ==
  ASSUME UNCHANGED vars, NEW t, NEW k, Iterating(t, k)
  PROVE  Iterating(t, k)'
<1>1. \A w \in Waves : (InIteration(w, k) /\ tile_idx[w] = t /\ PointOK(w))'
  BY DEF Iterating, Walking, InIteration, PointOK, vars
<1>2. \A b \in Ebar : BarrierOK(b)'
  <2> TAKE b \in Ebar
  <2>1. BarrierOK(b) /\ Levels(b)' = Levels(b) /\ ebar' = ebar /\ pc' = pc
    BY DEF Iterating, Walking, Levels, Level, vars
  <2> QED BY <2>1 DEF BarrierOK
<1>3. \A p \in Producer : QueueOK(p)'
  BY QueueElsewhere DEF Iterating, vars
<1>4. \A c \in Compute : ReadingOK(c)' /\ SumOK(c)'
  BY ComputeElsewhere DEF Iterating, vars
<1> QED BY <1>1, <1>2, <1>3, <1>4 DEF Iterating, Walking

\* A step of the work group keeps it in its pipeline.
LEMMA PhaseStep ==
  ASSUME NEW t, PhaseInv(t), PipelineStep
  PROVE  PhaseInv(t)'
<1>0. TypeInv /\ TypeInv'
  <2>1. TypeInv /\ [Next]_vars
    BY DEF PhaseInv, Next
  <2> QED BY <2>1, TypeNext
<1>1. NumIter \in Nat \ {0}
  BY LoopNumbers DEF LoopShape
<1>2. CASE Entering(t)
  <2>1. WgSync
    <3>1. \A p \in Producer : ~(ProducerStep(p) \/ Land(p))
      BY <1>2, Groups DEF Entering, ProducerStep, IssueInitial, NotifyFirstSh,
         NotifyFirstPrMajor, NotifyPrMinor, AwaitFreeSh, AwaitFreePrMajor, IssueShPrMajor,
         AwaitFreePrMinor, IssuePrMinor, NotifySh, NotifyPrMajor, At, Land, LandOldest
    <3>2. \A c \in Compute : ~(MajorStep(c) \/ MinorStep(c))
      BY <1>2, Groups DEF Entering, MajorStep, MinorStep, AwaitSh, AwaitPrMajor, ReadMajor,
         AwaitPrMinor, ReadMinor, FenceAndFreeSh, FreePrivate, At
    <3> QED BY <3>1, <3>2, Groups DEF PipelineStep
  <2>2. Iterating(t, 0)'
    BY <1>0, <1>2, <2>1, Enters
  <2>3. 0 \in 0 .. NumIter - 1
    BY <1>1
  <2> QED BY <1>0, <2>2, <2>3 DEF PhaseInv
<1>3. CASE Leaving(t)
  <2>1. \A p \in Producer : ~(ProducerStep(p) \/ Land(p))
    BY <1>3, Groups DEF Leaving, ProducerStep, IssueInitial, NotifyFirstSh,
       NotifyFirstPrMajor, NotifyPrMinor, AwaitFreeSh, AwaitFreePrMajor, IssueShPrMajor,
       AwaitFreePrMinor, IssuePrMinor, NotifySh, NotifyPrMajor, At, Land, LandOldest
  <2>2. \A c \in Compute : ~(MajorStep(c) \/ MinorStep(c))
    BY <1>3, Groups DEF Leaving, MajorStep, MinorStep, AwaitSh, AwaitPrMajor, ReadMajor,
       AwaitPrMinor, ReadMinor, FenceAndFreeSh, FreePrivate, At
  <2>3. ~WgSync
    BY <1>3, SomeProducer, Groups DEF Leaving, WgSync
  <2> QED BY <2>1, <2>2, <2>3, Groups DEF PipelineStep
<1>4. ASSUME NEW k \in 0 .. NumIter - 1, Iterating(t, k) PROVE PhaseInv(t)'
  BY <1>0, <1>4, IterationStep DEF PhaseInv
<1> QED BY <1>2, <1>3, <1>4 DEF PhaseInv

\* So does every step of the specification.
LEMMA PhaseNext ==
  ASSUME NEW t, PhaseInv(t), [Next]_vars
  PROVE  PhaseInv(t)'
<1>1. CASE PipelineStep
  BY <1>1, PhaseStep
<1>2. CASE UNCHANGED vars
  <2>1. TypeInv'
    BY <1>2, TypeNext DEF PhaseInv
  <2>2. Entering(t) => Entering(t)'
    BY <1>2 DEF Entering, vars
  <2>3. Leaving(t) => Leaving(t)'
    BY <1>2 DEF Leaving, vars
  <2>4. \A k \in 0 .. NumIter - 1 : Iterating(t, k) => Iterating(t, k)'
    BY <1>2, IterationStays
  <2> QED BY <2>1, <2>2, <2>3, <2>4 DEF PhaseInv
<1> QED BY <1>1, <1>2 DEF Next, Terminated

\* In every phase no load overtakes a read.
LEMMA PhaseReads ==
  ASSUME NEW t, PhaseInv(t)
  PROVE  NoLdsRace
<1>1. CASE Entering(t) \/ Leaving(t)
  BY <1>1 DEF Entering, Leaving, NoLdsRace
<1>2. ASSUME NEW k \in 0 .. NumIter - 1, Iterating(t, k) PROVE NoLdsRace
  <2> SUFFICES ASSUME NEW c \in Compute, NEW p \in Producer, NEW s \in reading[c]
               PROVE  ~InFlight(p, s)
    BY DEF NoLdsRace
  <2>1. pc[c] = "fence" \/ ReadsNext(c)
    BY <1>2 DEF Iterating, ReadingOK
  <2> QED BY <1>2, <2>1, ReadsItsTile DEF PhaseInv
<1> QED BY <1>1, <1>2 DEF PhaseInv

\* A wave that has left its pipeline: all have.
LEMMA PhaseExit ==
  ASSUME NEW t, PhaseInv(t)
  PROVE  QuiescentAtExit
<1> SUFFICES ASSUME NEW w \in Waves, pc[w] = "done"
             PROVE  /\ \A p \in Producer : vmq[p] = <<>>
                    /\ \A c \in Compute : reading[c] = {}
                    /\ \A b \in Ebar : ebar[b] = FreeSlot
  BY DEF QuiescentAtExit
<1>1. ~Entering(t)
  BY DEF Entering
<1>2. \A k : ~Iterating(t, k)
  BY DEF Iterating, Walking, PointOK, ProgramPoint
<1> QED BY <1>1, <1>2 DEF PhaseInv, Leaving

\* The stages are handed over: no asynchronous load is on its way to a stage
\* that a compute wave reads, whatever the interleaving of the waves and of the
\* loads, in the main rounds and in the tail.
THEOREM StagesHandedOver == Spec => []NoLdsRace
<1>1. PhaseInv(0) => NoLdsRace
  BY PhaseReads
<1>2. PhaseInv(0) /\ [Next]_vars => PhaseInv(0)'
  BY PhaseNext
<1> QED BY <1>1, <1>2, PhaseInit, PTL DEF Spec

\* What the pipeline leaves behind: no load, no read, no arrival.
THEOREM LeavesNothing == Spec => []QuiescentAtExit
<1>1. PhaseInv(0) => QuiescentAtExit
  BY PhaseExit
<1>2. PhaseInv(0) /\ [Next]_vars => PhaseInv(0)'
  BY PhaseNext
<1> QED BY <1>1, <1>2, PhaseInit, PTL DEF Spec

(***************************************************************************)
(* A barrier completes for all that wait at it.                            *)
(***************************************************************************)
\* A wave's step uses barriers, and takes no use back; where the wave stays at
\* its point it uses none.
LevelsGrow(w) ==
  \A b \in Ebar :
    w \in UserWaves(b) => /\ Level(b, w) <= Level(b, w)'
                          /\ pc'[w] = pc[w] => Level(b, w)' = Level(b, w)

\* A slot that becomes free while waves were counted in it: the waves that
\* synchronise on it wait there, or are the one that completes it.
LEMMA Completes ==
  ASSUME NEW w0 \in Waves, OneWave(w0), LevelsGrow(w0), NEW b \in Ebar,
         BarrierOK(b), BarrierOK(b)', ebar[b].pending > 0, ebar'[b].pending = 0,
         NEW w \in SyncWaves(b)
  PROVE  w \in ebar[b].waiting \/ pc'[w] # pc[w]
<1> DEFINE f == Levels(b)
           g == Levels(b)'
           P == UserWaves(b)
           S == SyncWaves(b)
<1>1. /\ f \in [P -> Nat] /\ \A v \in P : f[v] = Level(b, v)
      /\ g \in [P -> Nat] /\ \A v \in P : g[v] = Level(b, v)'
  <2>1. \A v, point, k : LevelAt(b, v, point, k) \in Nat
    BY LevelsType
  <2>2. f \in [P -> Nat] /\ \A v \in P : f[v] = Level(b, v)
    BY LevelsType
  <2> QED BY <2>1, <2>2 DEF Levels, Level
<1>2. P \subseteq Waves /\ IsFiniteSet(P) /\ w \in P
  BY Users DEF UserWaves
<1>3. \A v \in P : v # w0 => g[v] = f[v]
  <2> SUFFICES ASSUME NEW v \in P, v # w0 PROVE g[v] = f[v]
    OBVIOUS
  <2>1. Level(b, v)' = Level(b, v)
    BY <1>2 DEF OneWave, Level
  <2> QED BY <1>1, <2>1
<1>4. w0 \in P => f[w0] <= g[w0] /\ (pc'[w0] = pc[w0] => g[w0] = f[w0])
  BY <1>1 DEF LevelsGrow
<1>5. ebar[b] = SlotFor(f, S) /\ ebar'[b] = SlotFor(g, S)
  BY DEF BarrierOK
<1> HIDE DEF f, g, P, S
<1>6. AheadOf(f) # {} /\ ebar[b].waiting = AheadOf(f) \intersect S
  BY <1>5 DEF SlotFor, FreeSlot
<1>7. AheadOf(g) = {}
  <2> SUFFICES ASSUME AheadOf(g) # {} PROVE FALSE
    OBVIOUS
  <2>1. Cardinality(AheadOf(g)) = 0
    BY <1>5 DEF SlotFor
  <2>2. AheadOf(g) \subseteq P
    BY <1>1 DEF AheadOf
  <2>3. IsFiniteSet(AheadOf(g))
    BY <1>2, <2>2, FS_Subset
  <2> QED BY <2>1, <2>3, FS_EmptySet
<1>8. DOMAIN f = P /\ DOMAIN g = P
  BY <1>1
<1>9. \A v, u \in P : g[v] = g[u]
  <2> SUFFICES ASSUME NEW v \in P, NEW u \in P PROVE g[v] = g[u]
    OBVIOUS
  <2>1. ~(g[v] < g[u]) /\ ~(g[u] < g[v])
    BY <1>7, <1>8 DEF AheadOf
  <2>2. g[v] \in Nat /\ g[u] \in Nat
    BY <1>1
  <2> QED BY <2>1, <2>2
<1>10. w0 \in P /\ f[w0] # g[w0]
  <2> SUFFICES ASSUME w0 \in P => f[w0] = g[w0] PROVE FALSE
    OBVIOUS
  <2>1. \A v \in P : f[v] = g[v]
    BY <1>3
  <2>2. f = g
    BY <1>1, <2>1
  <2> QED BY <1>6, <1>7, <2>2
<1>11. f[w0] < g[w0] /\ pc'[w0] # pc[w0]
  <2>1. f[w0] \in Nat /\ g[w0] \in Nat
    BY <1>1, <1>10
  <2> QED BY <1>4, <1>10, <2>1
<1>12. CASE w # w0
  <2>1. f[w0] < f[w]
    BY <1>2, <1>3, <1>9, <1>10, <1>11, <1>12
  <2>2. w \in AheadOf(f)
    BY <1>2, <1>8, <1>10, <2>1 DEF AheadOf
  <2> QED BY <1>6, <2>2 DEF S
<1> QED BY <1>11, <1>12

\* A producer wave's barriers are in the order of its program.
LEMMA ProducerGrows ==
  ASSUME TypeInv, NEW p \in Producer, PointOK(p), ProducerStep(p)
  PROVE  OneWave(p) /\ LevelsGrow(p)
<1>0. /\ p \in Waves /\ p \notin Compute /\ p \notin Major /\ p \notin Minor
      /\ pc \in [Waves -> Point] /\ n \in [Waves -> Nat]
  BY Groups DEF TypeInv, TypeOK
<1>1. OneWave(p)
  <2>1. \A b \in Ebar : p \notin ebar[b].waiting
    BY DEF ProducerStep, IssueInitial, NotifyFirstSh,
       NotifyFirstPrMajor, NotifyPrMinor, AwaitFreeSh, AwaitFreePrMajor, IssueShPrMajor,
       AwaitFreePrMinor, IssuePrMinor, NotifySh, NotifyPrMajor, At
  <2> QED BY <2>1, ProducerElsewhere DEF OneWave
<1> DEFINE from == pc[p]
           to == pc'[p]
<1>2. CASE IssueInitial(p)
  <2>1. from = "initial" /\ to \in {"initial", "first_sh"}
    BY <1>0, <1>2 DEF IssueInitial, At, Goto
  <2>2. \A b \in Ebar : Level(b, p) = 0 /\ Level(b, p)' = 0
    BY <2>1 DEF Level, LevelAt, Ebar
  <2>3. LevelsGrow(p)
    BY <2>2 DEF LevelsGrow
  <2> QED BY <1>1, <2>3
<1>3. CASE ~IssueInitial(p)
  <2>1. /\ n' = n
        /\ \/ <<from, to>> \in {<<"first_sh", "first_pr_major">>, <<"first_pr_major", "load_pr_minor">>,
                <<"free_sh", "free_pr_major">>, <<"free_pr_major", "issue">>,
                <<"issue", "free_pr_minor">>, <<"free_pr_minor", "issue_pr_minor">>,
                <<"load_sh", "load_pr_major">>, <<"load_pr_major", "tg">>}
           \/ from = "issue_pr_minor" /\ to = AfterIssue(n[p])
           \/ from = "load_pr_minor" /\ to = IF IsTailLoop(n[p]) THEN AfterIssue(n[p]) ELSE "free_sh"
    BY <1>0, <1>3 DEF ProducerStep, NotifyFirstSh,
       NotifyFirstPrMajor, NotifyPrMinor, AwaitFreeSh, AwaitFreePrMajor, IssueShPrMajor,
       AwaitFreePrMinor, IssuePrMinor, NotifySh, NotifyPrMajor, At, Goto
  <2>2. LevelsGrow(p)
    BY <1>0, <2>1 DEF LevelsGrow, Level, LevelAt, Ebar, AfterIssue, PointOK
  <2> QED BY <1>1, <2>2
<1> QED BY <1>2, <1>3

\* So are a compute wave's.
LEMMA ComputeGrows ==
  ASSUME TypeInv, NEW c \in Compute, PointOK(c), ComputeStep(c)
  PROVE  OneWave(c) /\ LevelsGrow(c)
<1>0. /\ c \in Waves /\ c \notin Producer /\ (c \in Major <=> c \notin Minor)
      /\ pc \in [Waves -> Point] /\ n \in [Waves -> Nat]
  BY Groups DEF TypeInv, TypeOK
<1>1. OneWave(c)
  <2>1. \A b \in Ebar : c \notin ebar[b].waiting
    BY DEF ComputeStep, MajorStep, MinorStep, AwaitSh, AwaitPrMajor, ReadMajor, AwaitPrMinor,
       ReadMinor, FenceAndFreeSh, FreePrivate, At
  <2> QED BY <2>1, OthersWait DEF OneWave
<1> DEFINE from == pc[c]
           to == pc'[c]
<1>2. /\ n' = n
      /\ \/ c \in Major /\ <<from, to>> \in {<<"first_sh", "first_pr_major">>,
              <<"load_sh", "load_pr_major">>, <<"first_pr_major", "first_read">>,
              <<"load_pr_major", "read">>, <<"first_read", "fence">>, <<"read", "tg">>}
         \/ c \in Minor /\ <<from, to>> \in {<<"load_pr_minor", "read">>, <<"read", "fence">>}
         \/ from = "fence" /\ to = IF IsTailLoop(n[c]) THEN AfterProduct(c) ELSE "free_private"
         \/ from = "free_private" /\ to = AfterProduct(c)
  BY <1>0 DEF ComputeStep, MajorStep, MinorStep, AwaitSh, AwaitPrMajor, ReadMajor, AwaitPrMinor,
     ReadMinor, FenceAndFreeSh, FreePrivate, At, Goto
<1>3. ~IsTailLoop(0)
  BY LoopNumbers DEF LoopShape, IsTailLoop
<1>4. LevelsGrow(c)
  BY <1>0, <1>2, <1>3 DEF LevelsGrow, Level, LevelAt, Ebar, AfterProduct, PointOK,
     UserWaves, ArriveWaves, SyncWaves
<1> QED BY <1>1, <1>4

\* The slots' steps.
SlotsComplete ==
  \A b \in Ebar :
    ebar[b].pending > 0 /\ ebar'[b].pending = 0 =>
      \A w \in SyncWaves(b) : w \in ebar[b].waiting \/ pc'[w] # pc[w]

\* In each phase of the pipeline.
LEMMA PhaseCompletes ==
  ASSUME NEW t, PhaseInv(t), PipelineStep
  PROVE  SlotsComplete
<1>0. TypeInv /\ (\A p \in Producer : p \in Waves) /\ (\A c \in Compute : c \in Waves)
  BY Groups DEF PhaseInv
<1>1. ASSUME ebar' = ebar PROVE SlotsComplete
  BY <1>1 DEF SlotsComplete
<1>2. CASE \E b \in Ebar : ebar[b] # FreeSlot
  <2>1. PICK k \in 0 .. NumIter - 1 : Iterating(t, k)
    BY <1>2 DEF PhaseInv, Entering, Leaving
  <2>2. k \in Nat
    BY LoopNumbers DEF LoopShape
  <2>3. (\A w \in Waves : PointOK(w)) /\ (\A b \in Ebar : BarrierOK(b)) /\ Walking(t, k)
    BY <2>1 DEF Iterating, Walking
  <2>4. ASSUME NEW w0 \in Waves, OneWave(w0), LevelsGrow(w0), Walking(t, k)'
        PROVE  SlotsComplete
    <3>1. \A b \in Ebar : BarrierOK(b)'
      BY <2>4 DEF Walking
    <3> SUFFICES ASSUME NEW b \in Ebar, ebar[b].pending > 0, ebar'[b].pending = 0,
                        NEW w \in SyncWaves(b)
                 PROVE  w \in ebar[b].waiting \/ pc'[w] # pc[w]
      BY DEF SlotsComplete
    <3> QED BY <2>3, <2>4, <3>1, Completes
  <2>5. ASSUME NEW p \in Producer, ProducerStep(p) PROVE SlotsComplete
    <3>1. OneWave(p) /\ LevelsGrow(p)
      BY <1>0, <2>3, <2>5, ProducerGrows
    <3>2. Walking(t, k)'
      BY <1>0, <2>2, <2>3, <2>5, ProducerWalks
    <3> QED BY <1>0, <2>4, <3>1, <3>2
  <2>6. ASSUME NEW c \in Compute, ComputeStep(c) PROVE SlotsComplete
    <3>1. OneWave(c) /\ LevelsGrow(c)
      BY <1>0, <2>3, <2>6, ComputeGrows
    <3>2. Walking(t, k)'
      BY <1>0, <2>2, <2>3, <2>6, ComputeWalks
    <3> QED BY <1>0, <2>4, <3>1, <3>2
  <2>7. ASSUME NEW p \in Producer, Land(p) PROVE SlotsComplete
    BY <1>1, <2>7 DEF Land
  <2>8. CASE WgSync
    BY <1>1, <2>8 DEF WgSync
  <2> QED BY <2>5, <2>6, <2>7, <2>8, Groups DEF PipelineStep, ComputeStep
<1>3. CASE \A b \in Ebar : ebar[b] = FreeSlot
  BY <1>3 DEF SlotsComplete, FreeSlot
<1> QED BY <1>2, <1>3

\* An ebarrier slot, which knows the number of its arrivals and not whose they
\* are, completes only when all waves that synchronise on it have come: none
\* arrives twice in place of another.
THEOREM BarriersComplete == Spec => CompletesForAll
<1>1. PhaseInv(0) /\ [Next]_vars => [SlotsComplete]_vars
  BY PhaseCompletes DEF Next, Terminated
<1>2. PhaseInv(0) /\ [Next]_vars => PhaseInv(0)'
  BY PhaseNext
<1> QED BY <1>1, <1>2, PhaseInit, PTL DEF Spec, CompletesForAll, SlotsComplete

(***************************************************************************)
(* The pipeline implements the contraction.                                *)
(***************************************************************************)
\* The contraction's state: the numbers of the tiles in a wave's sum, and the
\* waves that have their result.
Mapped(s) == [j \in DOMAIN s |-> TileNumber(s[j])]
Sums == [c \in Compute |-> Mapped(acc[c])]
Results == {c \in Compute : pc[c] = "done"}
Numbers(m) == [j \in 1 .. m |-> j - 1]

\* What its steps are in terms of that.
LEMMA ContractionSteps ==
  /\ Contraction!Init <=> Sums = [c \in Compute |-> <<>>] /\ Results = {}
  /\ \A c \in Compute :
       /\ Len(Sums[c]) < NumLoop
       /\ Sums' = [Sums EXCEPT ![c] = Append(Sums[c], Len(Sums[c]))]
       /\ Results' = Results
       => Contraction!Next
  /\ /\ \A c \in Compute : Len(Sums[c]) = NumLoop
     /\ Results' = Compute /\ Sums' = Sums
     => Contraction!Next
  /\ Sums' = Sums /\ Results' = Results => UNCHANGED Contraction!vars
<1>1. Contraction!Init <=> Sums = [c \in Compute |-> <<>>] /\ Results = {}
  BY DEF Contraction!Init, Sums, Mapped, Results
<1>2. ASSUME NEW c \in Compute, Len(Sums[c]) < NumLoop,
             Sums' = [Sums EXCEPT ![c] = Append(Sums[c], Len(Sums[c]))], Results' = Results
      PROVE  Contraction!Next
  <2>1. Contraction!Accumulate(c)
    BY <1>2 DEF Contraction!Accumulate, Sums, Mapped, Results
  <2> QED BY <2>1 DEF Contraction!Next
<1>3. ASSUME \A c \in Compute : Len(Sums[c]) = NumLoop, Results' = Compute, Sums' = Sums
      PROVE  Contraction!Next
  <2>1. <<"major", 1>> \in Compute
    BY StagesAssumption DEF Compute, Major, Wave
  <2>2. Results' = Results \union Compute
    BY <1>3 DEF Results
  <2>3. Contraction!Complete(Compute)
    BY <1>3, <2>1, <2>2 DEF Contraction!Complete, Sums, Mapped, Results
  <2> QED BY <2>3 DEF Contraction!Next
<1>4. ASSUME Sums' = Sums, Results' = Results PROVE UNCHANGED Contraction!vars
  BY <1>4 DEF Contraction!vars, Sums, Mapped, Results
<1> QED BY <1>1, <1>2, <1>3, <1>4

\* The first K tiles have the first numbers, and the next tile the next one.
LEMMA MappedTiles ==
  ASSUME NEW m \in Nat
  PROVE  /\ Mapped(FirstTiles(0, m)) = Numbers(m)
         /\ Len(Numbers(m)) = m
         /\ Append(Numbers(m), m) = Numbers(m + 1)
<1>1. DOMAIN FirstTiles(0, m) = 1 .. m
  BY DEF FirstTiles
<1>2. \A j \in 1 .. m : TileNumber(FirstTiles(0, m)[j]) = j - 1
  BY DEF FirstTiles, TileNumber, Tile
<1>3. Mapped(FirstTiles(0, m)) = Numbers(m)
  BY <1>1, <1>2 DEF Mapped, Numbers
<1>4. Numbers(m) \in Seq(Nat) /\ Len(Numbers(m)) = m /\ \A j \in 1 .. m : Numbers(m)[j] = j - 1
  <2>1. Numbers(m) \in [1 .. m -> Nat]
    BY DEF Numbers
  <2> QED BY <2>1 DEF Numbers
<1>5. /\ Numbers(m + 1) \in Seq(Nat) /\ Len(Numbers(m + 1)) = m + 1
      /\ \A j \in 1 .. m + 1 : Numbers(m + 1)[j] = j - 1
  <2>1. Numbers(m + 1) \in [1 .. m + 1 -> Nat]
    BY DEF Numbers
  <2> QED BY <2>1 DEF Numbers
<1> DEFINE a == Numbers(m)
           b == Numbers(m + 1)
<1> HIDE DEF a, b
<1>6. /\ Append(a, m) \in Seq(Nat) /\ Len(Append(a, m)) = m + 1
      /\ \A j \in 1 .. m : Append(a, m)[j] = a[j]
      /\ Append(a, m)[m + 1] = m
  <2>1. a \in Seq(Nat) /\ Len(a) = m
    BY <1>4 DEF a
  <2> QED BY <2>1, AppendProperties
<1>7. \A j \in 1 .. m + 1 : Append(a, m)[j] = b[j]
  <2> TAKE j \in 1 .. m + 1
  <2>1. j \in 1 .. m \/ j = m + 1
    OBVIOUS
  <2>2. CASE j \in 1 .. m
    BY <1>4, <1>5, <1>6, <2>2 DEF a, b
  <2>3. CASE j = m + 1
    <3>1. b[j] = m
      BY <1>5, <2>3 DEF b
    <3> QED BY <1>6, <2>3, <3>1
  <2> QED BY <2>1, <2>2, <2>3, Zenon
<1>8. Append(a, m) = b
  <2>1. b \in Seq(Nat) /\ Len(b) = m + 1
    BY <1>5 DEF b
  <2> QED BY <1>6, <1>7, <2>1, SeqEqual
<1> QED BY <1>3, <1>4, <1>8 DEF a, b

\* A compute wave's step adds the next tile to its sum, or leaves it alone.
LEMMA NextNumber ==
  ASSUME TypeInv, NEW k \in 0 .. NumIter - 1, Iterating(0, k), NumIter = NumLoop,
         NEW c \in Compute, ComputeStep(c)
  PROVE  [Contraction!Next]_(Contraction!vars)
<1>0. /\ c \in Waves /\ k \in Nat /\ k < NumLoop /\ acc \in [Compute -> Seq(TileType)]
      /\ reading \in [Compute -> SUBSET Slot]
  BY Groups, LoopNumbers DEF TypeInv, TypeOK, TileType, LoopShape
<1>1. Results' = Results
  <2>1. Iterating(0, k)'
    BY ComputeIterates
  <2>2. \A x \in Compute : pc[x] # "done" /\ pc'[x] # "done"
    BY <2>1, Groups DEF Iterating, Walking, PointOK, ProgramPoint
  <2> QED BY <2>2 DEF Results
<1>2. CASE FenceAndFreeSh(c)
  <2>1. pc[c] = "fence" /\ acc' = [acc EXCEPT ![c] = Append(acc[c], Product(c))]
    BY <1>2 DEF FenceAndFreeSh, At
  <2>2. n[c] = k /\ tile_idx[c] = 0 /\ SumOK(c)
    BY <1>0, <2>1 DEF Iterating, Walking, InIteration
  <2>3. Product(c) = Tile(0, k)
    BY <2>1, <2>2, ReadsItsTile DEF TileRead, ReadsNext
  <2>4. acc[c] = FirstTiles(0, k)
    BY <2>1, <2>2 DEF SumOK, HasProduct
  <2>5. acc' = [acc EXCEPT ![c] = FirstTiles(0, k + 1)]
    BY <1>0, <2>1, <2>3, <2>4, TileAdded
  <2>6. Sums[c] = Numbers(k) /\ Len(Sums[c]) = k
    BY <1>0, <2>4, MappedTiles DEF Sums
  <2>7. Mapped(FirstTiles(0, k + 1)) = Append(Sums[c], Len(Sums[c]))
    <3>1. Mapped(FirstTiles(0, k + 1)) = Numbers(k + 1)
      BY <1>0, MappedTiles
    <3>2. Append(Numbers(k), k) = Numbers(k + 1)
      BY <1>0, MappedTiles
    <3> QED BY <2>6, <3>1, <3>2
  <2>8. Sums' = [Sums EXCEPT ![c] = Mapped(FirstTiles(0, k + 1))]
    BY <1>0, <2>5 DEF Sums
  <2>9. Contraction!Next
    BY <1>0, <1>1, <2>6, <2>7, <2>8, ContractionSteps
  <2> QED BY <2>9
<1>3. CASE ~FenceAndFreeSh(c)
  <2>1. UNCHANGED acc
    BY <1>3 DEF ComputeStep, MajorStep, MinorStep, AwaitSh, AwaitPrMajor, ReadMajor, AwaitPrMinor,
       ReadMinor, FreePrivate
  <2>2. Sums' = Sums
    BY <2>1 DEF Sums
  <2> QED BY <1>1, <2>2, ContractionSteps
<1> QED BY <1>2, <1>3

\* Every step of the pipeline is a step of the contraction, or leaves it alone.
LEMMA Contracts ==
  ASSUME NumLoop > LoopUnroll, PhaseInv(0), [Next]_vars
  PROVE  [Contraction!Next]_(Contraction!vars)
<1>0. NumIter = NumLoop /\ NumIter \in Nat
  BY LoopNumbers DEF LoopShape
<1>1. ASSUME UNCHANGED <<pc, acc>> PROVE [Contraction!Next]_(Contraction!vars)
  <2>1. Sums' = Sums /\ Results' = Results
    BY <1>1 DEF Sums, Results
  <2> QED BY <2>1, ContractionSteps
<1>2. PhaseInv(0)'
  BY PhaseNext
<1>3. ASSUME NEW p \in Producer, ProducerStep(p) PROVE [Contraction!Next]_(Contraction!vars)
  <2>1. acc' = acc /\ \A c \in Compute : pc'[c] = pc[c]
    BY <1>3, ProducerElsewhere, Groups DEF PhaseInv
  <2>2. Sums' = Sums /\ Results' = Results
    BY <2>1 DEF Sums, Results
  <2> QED BY <2>2, ContractionSteps
<1>4. ASSUME NEW c \in Compute, ComputeStep(c) PROVE [Contraction!Next]_(Contraction!vars)
  <2>1. PICK k \in 0 .. NumIter - 1 : Iterating(0, k)
    <3>1. pc[c] \notin {"entry", "done"}
      BY <1>4 DEF ComputeStep, MajorStep, MinorStep, AwaitSh, AwaitPrMajor, ReadMajor,
         AwaitPrMinor, ReadMinor, FenceAndFreeSh, FreePrivate, At
    <3> QED BY <3>1, Groups DEF PhaseInv, Entering, Leaving
  <2> QED BY <1>0, <1>4, <2>1, NextNumber DEF PhaseInv
<1>5. CASE WgSync
  <2>1. acc' = acc
    BY <1>5 DEF WgSync
  <2>2. Sums' = Sums
    BY <2>1 DEF Sums
  <2>3. Results = {}
    BY <1>5, Groups DEF Results, WgSync
  <2>4. CASE Leaving(0)'
    <3>1. Results' = Compute
      BY <2>4, Groups DEF Leaving, Results
    <3>2. \A c \in Compute : Len(Sums[c]) = NumLoop
      <4> TAKE c \in Compute
      <4>1. acc[c] = FirstTiles(0, NumIter)
        BY <2>1, <2>4 DEF Leaving
      <4>2. Sums[c] = Numbers(NumIter)
        BY <1>0, <4>1, MappedTiles DEF Sums
      <4> QED BY <1>0, <4>2, MappedTiles
    <3> QED BY <2>2, <3>1, <3>2, ContractionSteps
  <2>5. CASE ~Leaving(0)'
    <3>1. \A c \in Compute : pc'[c] # "done"
      BY <1>2, <2>5, Groups DEF PhaseInv, Entering, Iterating, Walking, PointOK, ProgramPoint
    <3>2. Results' = Results
      BY <2>3, <3>1 DEF Results
    <3> QED BY <2>2, <3>2, ContractionSteps
  <2> QED BY <2>4, <2>5
<1>6. ASSUME NEW p \in Producer, Land(p) PROVE [Contraction!Next]_(Contraction!vars)
  BY <1>1, <1>6 DEF Land
<1> QED BY <1>1, <1>3, <1>4, <1>5, <1>6, Groups
        DEF Next, PipelineStep, Terminated, vars, ComputeStep

\* With more than one unrolled round of K tiles, the pipeline implements the
\* contraction: every compute wave sums up the problem's K tiles, each once and
\* in order, before it returns.  (With one round only it sums up more.)
THEOREM PipelineContracts ==
  ASSUME NumLoop > LoopUnroll
  PROVE  Spec => ImplementsContraction
<1>1. Init => Contraction!Init
  <2> SUFFICES ASSUME Init PROVE Contraction!Init
    OBVIOUS
  <2>1. Sums = [c \in Compute |-> <<>>]
    BY DEF Init, StartOf, Sums, Mapped
  <2>2. Results = {}
    BY Groups DEF Init, StartOf, Results
  <2> QED BY <2>1, <2>2, ContractionSteps
<1>2. PhaseInv(0) /\ [Next]_vars => [Contraction!Next]_(Contraction!vars)
  BY Contracts
<1>3. PhaseInv(0) /\ [Next]_vars => PhaseInv(0)'
  BY PhaseNext
<1> QED BY <1>1, <1>2, <1>3, PhaseInit, PTL DEF Spec, ImplementsContraction, Contraction!Spec

-----------------------------------------------------------------------------

(***************************************************************************)
(* The persistent kernel.                                                  *)
(***************************************************************************)

(***************************************************************************)
(* The inductive invariant.  The work group is in the pipeline of the      *)
(* block's m-th tile, or between the pipelines of the tile before it and   *)
(* of this one: there a compute wave is in its epilogue, or has arrived at *)
(* the next tile, and no wave touches the ring.                            *)
(***************************************************************************)
TileAt(m) == BlockId + m * GridDim

PartType == {NoPart} \union (Nat \X Nat)
OpType   == [buffer : Int \X Int, part : Nat \X Nat]

BlockTypes ==
  /\ pc \in [Waves -> Point \union EpiPoint]
  /\ n \in [Waves -> Nat] /\ tile_idx \in [Waves -> Nat]
  /\ coffset \in [Producer -> Nat]
  /\ vmq \in [Producer -> Seq(LoadType)]
  /\ lds \in [Slot -> [Producer -> TileType]]
  /\ reading \in [Compute -> SUBSET Slot]
  /\ acc \in [Compute -> Seq(TileType)]
  /\ ebar \in [Ebar -> EbarSlot]
  /\ epi \in [Compute -> 0 .. EpiLoop - 1]
  /\ region \in [Compute -> PartType]
  /\ writing \subseteq Compute /\ loading \subseteq Compute
  /\ out \in [Compute -> Seq([part : PartType, operand : PartType])]
  /\ epivmq \in [Compute -> Seq(OpType)]
  /\ operand \in [Compute -> [Buffer -> PartType]]

\* A compute wave's vector memory operations in flight: between the tiles no
\* more than its last store; before the fence for part i its loads for part i,
\* behind no more than a store, and last those for the part after it.
OperandLoad(t, i, h) == [buffer |-> <<i % NumPrefetch, h>>, part |-> Part(t, i)]
LoadsAhead(i) == IF i < EpiLoop - 1 THEN OperandIssue ELSE 0
StoresOnly(q) == Len(q) <= 1 /\ \A j \in 1 .. Len(q) : q[j].buffer = <<-1, 0>>
PrefetchedFor(q, t, i) ==
  LET own == Len(q) - LoadsAhead(i)
  IN  /\ own \in 0 .. OperandIssue + 1
      /\ \A h \in 1 .. LoadsAhead(i) : q[own + h] = OperandLoad(t, i + 1, h)
      /\ \A j \in 1 .. own :
           q[j].buffer = <<-1, 0>> \/ \E h \in 1 .. OperandIssue : q[j] = OperandLoad(t, i, h)
      /\ \A h \in 1 .. OperandIssue : \E j \in 1 .. own : q[j] = OperandLoad(t, i, h)

\* How many parts of its region a wave has written, how many it has stored, and
\* how often it has used its warp group's barrier since the pipeline.
EpiWork == {"epi_write", "epi_guard_read", "epi_read", "epi_store", "epi_next"}
Written(c) ==
  IF pc[c] \in {"epi_read", "epi_store"} THEN epi[c] + 1
  ELSE IF pc[c] \in {"epi_end", "entry", "exit"} THEN EpiLoop ELSE epi[c]
Stored(c) == IF pc[c] = "epi_end" THEN EpiLoop ELSE epi[c]
EpiLevel(c) ==
  2 * Written(c) + (IF pc[c] \in {"epi_write", "epi_guard_read"} THEN 1 ELSE 0)
TeamLevels(c) == [v \in Team(c) |-> EpiLevel(v)]

\* A wave that has arrived at the m-th tile, and one that still is behind, at
\* the tile before.
Arrived(w, m) == pc[w] = TileEntry(w, TileAt(m)) /\ tile_idx[w] = TileAt(m) /\ n[w] = 0
EndPoints(w) == IF w \in Compute THEN EpiWork \union {"done", "epi_end"} ELSE {"done"}
Behind(w, m) == m > 0 /\ pc[w] \in EndPoints(w) /\ tile_idx[w] = TileAt(m - 1)

ArrivedOK(c, m) ==
  Arrived(c, m) =>
    acc[c] = <<>> /\ epi[c] = 0 /\ Len(out[c]) = EpiLoop * m /\ StoresOnly(epivmq[c])
BehindOK(c, m) ==
  Behind(c, m) =>
    /\ acc[c] = FirstTiles(TileAt(m - 1), NumIter)
    /\ Len(out[c]) = EpiLoop * (m - 1) + Stored(c)
    /\ pc[c] \in {"done", "epi_end"} => epi[c] = 0 /\ StoresOnly(epivmq[c])
    /\ pc[c] \in EpiWork => PrefetchedFor(epivmq[c], TileAt(m - 1), epi[c])
    /\ pc[c] = "epi_next" => epi[c] > 0
RegionOK(c, m) ==
  /\ m > 0 /\ Written(c) > 0 => region[c] = Part(TileAt(m - 1), Written(c) - 1)
  /\ c \in writing => pc[c] = "epi_guard_read"
  /\ c \in loading => pc[c] = "epi_store"
TeamBarrierOK(c) ==
  /\ ebar[EpiBar(c)] = SlotFor(TeamLevels(c), Team(c))
  /\ Close(TeamLevels(c))
  /\ \A v \in AheadOf(TeamLevels(c)) : pc[v] \in {"epi_write", "epi_read"}

Between(m) ==
  /\ \A w \in Waves : Arrived(w, m) \/ Behind(w, m)
  /\ \A p \in Producer : vmq[p] = <<>> /\ (Arrived(p, m) => coffset[p] = 0)
  /\ \A c \in Compute : ArrivedOK(c, m) /\ BehindOK(c, m) /\ RegionOK(c, m) /\ reading[c] = {}
  /\ \A c \in Compute : TeamBarrierOK(c)
  /\ \A b \in Ebar \ {"load_sh", "load_pr_major"} : ebar[b] = FreeSlot

\* The pipeline, while the epilogue rests.
InPipeline(m) ==
  /\ TypeInv /\ \E k \in 0 .. NumIter - 1 : Iterating(TileAt(m), k)
  /\ writing = {} /\ loading = {}
  /\ \A c \in Compute : epi[c] = 0 /\ Len(out[c]) = EpiLoop * m /\ StoresOnly(epivmq[c])

BlockInv ==
  /\ BlockTypes /\ OutputInOrder /\ OperandsOfPart
  /\ \E m \in Nat : Between(m) \/ InPipeline(m)

(***************************************************************************)
(* Numbers.                                                                *)
(***************************************************************************)
\* The block's tiles are GridDim apart.
LEMMA TileNumbers ==
  /\ GridDim \in Nat \ {0} /\ BlockId \in Nat
  /\ TileAt(0) = BlockId
  /\ \A m \in Nat : TileAt(m) \in Nat /\ TileAt(m + 1) = TileAt(m) + GridDim
  /\ \A m \in Nat : m > 0 => m - 1 \in Nat /\ TileAt(m) = TileAt(m - 1) + GridDim
<1>1. GridDim \in Nat \ {0} /\ BlockId \in Nat
  BY TilesAssumption
<1>2. 0 * GridDim = 0
  BY <1>1
<1>3. \A m \in Nat : m * GridDim \in Nat /\ (m + 1) * GridDim = m * GridDim + GridDim
  BY <1>1
<1>4. \A m \in Nat : TileAt(m) \in Nat /\ TileAt(m + 1) = TileAt(m) + GridDim
  BY <1>1, <1>3 DEF TileAt
<1>5. ASSUME NEW m \in Nat, m > 0
      PROVE  m - 1 \in Nat /\ TileAt(m) = TileAt(m - 1) + GridDim
  <2>1. m - 1 \in Nat /\ (m - 1) + 1 = m
    BY <1>5
  <2> QED BY <1>4, <2>1
<1> QED BY <1>1, <1>2, <1>4, <1>5 DEF TileAt

\* The place of a tile's part in the wave's output.
LEMMA OutputNumbers ==
  /\ EpiLoop \in Nat \ {0}
  /\ EpiLoop * 0 = 0
  /\ \A m \in Nat : /\ EpiLoop * m \in Nat
                    /\ EpiLoop * (m + 1) = EpiLoop * m + EpiLoop
                    /\ m > 0 => EpiLoop * m = EpiLoop * (m - 1) + EpiLoop
  /\ \A m \in Nat, i \in 0 .. EpiLoop - 1 :
       PartOf(EpiLoop * m + i + 1) = Part(TileAt(m), i)
<1>1. EpiLoop \in Nat \ {0} /\ GridDim \in Nat \ {0} /\ BlockId \in Nat
  BY TilesAssumption
<1>2. EpiLoop * 0 = 0
  BY <1>1
<1>3. ASSUME NEW m \in Nat
      PROVE  /\ EpiLoop * m \in Nat
             /\ EpiLoop * (m + 1) = EpiLoop * m + EpiLoop
             /\ EpiLoop * m = EpiLoop * (m - 1) + EpiLoop
  BY <1>1
<1>4. ASSUME NEW m \in Nat, NEW i \in 0 .. EpiLoop - 1
      PROVE  PartOf(EpiLoop * m + i + 1) = Part(TileAt(m), i)
  <2>1. (EpiLoop * m + i + 1) - 1 = EpiLoop * m + i
    BY <1>1, <1>3
  <2>2. (EpiLoop * m + i) \div EpiLoop = m /\ (EpiLoop * m + i) % EpiLoop = i
    BY <1>1, <1>4, DivModUnique
  <2> QED BY <2>1, <2>2 DEF PartOf, TileAt
<1> QED BY <1>1, <1>2, <1>3, <1>4

\* The epilogue's buffers: one, or two by turns.
LEMMA BufferNumbers ==
  /\ OperandIssue \in Nat
  /\ \/ NumPrefetch = 1 /\ EpiLoop = 1
     \/ NumPrefetch = 2 /\ EpiLoop >= 2 /\ EpiLoop % 2 = 0
  /\ \A i \in 0 .. EpiLoop - 1 :
       /\ i % NumPrefetch \in 0 .. NumPrefetch - 1
       /\ i < EpiLoop - 1 => (i + 1) % NumPrefetch # i % NumPrefetch
  /\ \A i \in 0 .. EpiLoop - 1 :
       /\ waitcnt_operand(i) = LoadsAhead(i)
       /\ LoadsAhead(i) \in {0, OperandIssue}
<1>1. EpiLoop \in Nat \ {0} /\ EpiLoop % NumPrefetch = 0 /\ OperandIssue \in Nat
  BY TilesAssumption
<1>2. \/ NumPrefetch = 1 /\ EpiLoop = 1
      \/ NumPrefetch = 2 /\ EpiLoop >= 2 /\ EpiLoop % 2 = 0
  BY <1>1 DEF NumPrefetch
<1>3. ASSUME NEW i \in 0 .. EpiLoop - 1
      PROVE  /\ i % NumPrefetch \in 0 .. NumPrefetch - 1
             /\ i < EpiLoop - 1 => (i + 1) % NumPrefetch # i % NumPrefetch
             /\ waitcnt_operand(i) = LoadsAhead(i)
             /\ LoadsAhead(i) \in {0, OperandIssue}
  <2>1. LoadsAhead(i) \in {0, OperandIssue}
    BY DEF LoadsAhead
  <2>2. CASE NumPrefetch = 1 /\ EpiLoop = 1
    <3>1. i = 0 /\ 0 % 1 = 0 /\ OperandIssue * 0 = 0
      BY <1>1, <2>2
    <3>2. waitcnt_operand(0) = 0
      BY <2>2, <3>1 DEF waitcnt_operand
    <3> QED BY <2>1, <2>2, <3>1, <3>2 DEF LoadsAhead
  <2>3. CASE NumPrefetch = 2 /\ EpiLoop >= 2 /\ EpiLoop % 2 = 0
    <3>1. i % 2 \in 0 .. 1 /\ (i + 1) % 2 # i % 2
      OBVIOUS
    <3>2. OperandIssue * 0 = 0 /\ OperandIssue * 1 = OperandIssue
      BY <1>1
    <3>3. CASE i < EpiLoop - 2
      BY <1>1, <2>1, <2>3, <3>1, <3>2, <3>3 DEF waitcnt_operand, LoadsAhead
    <3>4. CASE i = EpiLoop - 2
      <4>1. i % 2 = 0
        BY <1>1, <2>3, <3>4
      <4>2. waitcnt_operand(i) = OperandIssue
        BY <1>1, <2>3, <3>2, <3>4, <4>1 DEF waitcnt_operand
      <4> QED BY <1>1, <2>1, <2>3, <3>1, <3>4, <4>2 DEF LoadsAhead
    <3>5. CASE i = EpiLoop - 1
      <4>1. i % 2 = 1
        BY <1>1, <2>3, <3>5
      <4>2. waitcnt_operand(i) = 0
        BY <1>1, <2>3, <3>2, <3>5, <4>1 DEF waitcnt_operand
      <4> QED BY <1>1, <2>1, <2>3, <3>1, <3>5, <4>2 DEF LoadsAhead
    <3> QED BY <1>1, <3>3, <3>4, <3>5
  <2> QED BY <1>2, <2>2, <2>3
<1> QED BY <1>1, <1>2, <1>3

(***************************************************************************)
(* The barriers of the epilogue.                                           *)
(***************************************************************************)
\* A warp group and its barrier.
LEMMA Teams ==
  ASSUME NEW c \in Compute
  PROVE  /\ Team(c) \subseteq Compute /\ c \in Team(c)
         /\ IsFiniteSet(Team(c)) /\ Cardinality(Team(c)) = SubWGSize
         /\ EpiBar(c) \in {"load_sh", "load_pr_major"} /\ EpiBar(c) \in Ebar
         /\ \A v \in Team(c) : Team(v) = Team(c) /\ EpiBar(v) = EpiBar(c)
         /\ \A v \in Compute : v \notin Team(c) => Team(v) # Team(c) /\ EpiBar(v) # EpiBar(c)
<1>1. /\ IsFiniteSet(Major) /\ Cardinality(Major) = SubWGSize
      /\ IsFiniteSet(Minor) /\ Cardinality(Minor) = SubWGSize
  BY WarpGroupSize DEF Major, Minor
<1>2. CASE c \in Major
  BY <1>1, <1>2, Groups DEF Team, EpiBar, Ebar
<1>3. CASE c \notin Major
  BY <1>1, <1>3, Groups DEF Team, EpiBar, Ebar
<1> QED BY <1>2, <1>3

\* Waves of a warp group have its barrier in common.
LEMMA TeamsShare ==
  ASSUME NEW c \in Compute, NEW v \in Team(c), TeamBarrierOK(c)
  PROVE  TeamBarrierOK(v)
<1>1. Team(v) = Team(c) /\ EpiBar(v) = EpiBar(c)
  BY Teams
<1>2. TeamLevels(v) = TeamLevels(c)
  BY <1>1 DEF TeamLevels
<1> QED BY <1>1, <1>2 DEF TeamBarrierOK

\* What a wave has written and stored are numbers of parts.
LEMMA LevelsOfTeams ==
  ASSUME epi \in [Compute -> 0 .. EpiLoop - 1], NEW c \in Compute
  PROVE  /\ Written(c) \in Nat /\ Stored(c) \in Nat /\ EpiLevel(c) \in Nat
         /\ TeamLevels(c) \in [Team(c) -> Nat]
         /\ \A v \in Team(c) : TeamLevels(c)[v] = EpiLevel(v)
<1>1. EpiLoop \in Nat
  BY TilesAssumption
<1>2. \A v \in Compute : Written(v) \in Nat /\ Stored(v) \in Nat
  BY <1>1 DEF Written, Stored
<1>3. \A v \in Compute : EpiLevel(v) \in Nat
  BY <1>2 DEF EpiLevel
<1> QED BY <1>2, <1>3, Teams DEF TeamLevels

\* A wave that is not stalled is not ahead: every wave of the group has used
\* the barrier as often as it, and those that have used it once more are
\* stalled behind it.
LEMMA TeamUnstalled ==
  ASSUME epi \in [Compute -> 0 .. EpiLoop - 1], NEW c \in Compute, TeamBarrierOK(c),
         \A b \in Ebar : c \notin ebar[b].waiting
  PROVE  /\ c \notin AheadOf(TeamLevels(c))
         /\ \A v \in Team(c) : /\ EpiLevel(c) <= EpiLevel(v) /\ EpiLevel(v) <= EpiLevel(c) + 1
                               /\ EpiLevel(v) = EpiLevel(c) + 1 => pc[v] \in {"epi_write", "epi_read"}
<1>1. /\ TeamLevels(c) \in [Team(c) -> Nat] /\ c \in Team(c)
      /\ \A v \in Team(c) : TeamLevels(c)[v] = EpiLevel(v) /\ EpiLevel(v) \in Nat
  BY LevelsOfTeams, Teams
<1>2. c \notin ebar[EpiBar(c)].waiting
  BY Teams
<1> DEFINE f == TeamLevels(c)
<1>3. ebar[EpiBar(c)] = SlotFor(f, Team(c)) /\ Close(f)
      /\ \A v \in AheadOf(f) : pc[v] \in {"epi_write", "epi_read"}
  BY DEF TeamBarrierOK
<1> HIDE DEF f
<1>4. c \notin AheadOf(f)
  BY <1>1, <1>2, <1>3 DEF SlotFor
<1>5. \A v \in Team(c) : ~(f[v] < f[c])
  BY <1>1, <1>4 DEF AheadOf, f
<1>6. \A v \in Team(c) : f[v] <= f[c] + 1
  BY <1>1, <1>3 DEF Close, f
<1>7. \A v \in Team(c) : f[c] < f[v] => v \in AheadOf(f)
  BY <1>1 DEF AheadOf, f
<1>8. \A v \in Team(c) : f[v] = EpiLevel(v) /\ EpiLevel(v) \in Nat /\ f[c] = EpiLevel(c)
  BY <1>1 DEF f
<1>9. ASSUME NEW v \in Team(c)
      PROVE  /\ EpiLevel(c) <= EpiLevel(v) /\ EpiLevel(v) <= EpiLevel(c) + 1
             /\ EpiLevel(v) = EpiLevel(c) + 1 => pc[v] \in {"epi_write", "epi_read"}
  <2>1. EpiLevel(v) \in Nat /\ EpiLevel(c) \in Nat
    BY <1>1, <1>8
  <2>2. EpiLevel(c) <= EpiLevel(v) /\ EpiLevel(v) <= EpiLevel(c) + 1
    BY <1>5, <1>6, <1>8, <2>1
  <2>3. EpiLevel(v) = EpiLevel(c) + 1 => v \in AheadOf(f)
    BY <1>7, <1>8, <2>1
  <2> QED BY <1>3, <2>2, <2>3
<1> QED BY <1>4, <1>9 DEF f

\* The same after a step.
LEMMA LevelsAfterStep ==
  ASSUME epi' \in [Compute -> 0 .. EpiLoop - 1], NEW c \in Compute
  PROVE  /\ TeamLevels(c)' \in [Team(c) -> Nat]
         /\ \A v \in Team(c) : TeamLevels(c)'[v] = EpiLevel(v)' /\ EpiLevel(v)' \in Nat
<1>1. EpiLoop \in Nat
  BY TilesAssumption
<1>2. \A v \in Compute : Written(v)' \in Nat
  BY <1>1 DEF Written
<1>3. \A v \in Compute : EpiLevel(v)' \in Nat
  BY <1>2 DEF EpiLevel
<1> QED BY <1>3, Teams DEF TeamLevels

\* A slot at which all wait counts one more.
LEMMA SlotOfTeam ==
  ASSUME NEW P, IsFiniteSet(P), NEW cnt, Cardinality(P) = cnt,
         NEW f \in [P -> Nat], Close(f), NEW w \in P, w \notin AheadOf(f),
         NEW g \in [P -> Nat], g[w] = f[w] + 1, \A v \in P : v # w => g[v] = f[v]
  PROVE  Arrival(SlotFor(f, P), cnt, {w}) = SlotFor(g, P)
<1>1. {w} = P \intersect {w}
  OBVIOUS
<1> QED BY <1>1, SlotCounts

\* A wave of the group uses the barrier.
LEMMA TeamUsed ==
  ASSUME epi \in [Compute -> 0 .. EpiLoop - 1], epi' \in [Compute -> 0 .. EpiLoop - 1],
         NEW c \in Compute, TeamBarrierOK(c), ebar \in [Ebar -> EbarSlot],
         \A b \in Ebar : c \notin ebar[b].waiting,
         EpiSync(c), EpiLevel(c)' = EpiLevel(c) + 1, pc'[c] \in {"epi_write", "epi_read"},
         \A v \in Team(c) \ {c} : EpiLevel(v)' = EpiLevel(v) /\ pc'[v] = pc[v]
  PROVE  TeamBarrierOK(c)'
<1> DEFINE f == TeamLevels(c)
           g == TeamLevels(c)'
           P == Team(c)
<1>1. f \in [P -> Nat] /\ \A v \in P : f[v] = EpiLevel(v)
  BY LevelsOfTeams
<1>2. g \in [P -> Nat] /\ \A v \in P : g[v] = EpiLevel(v)'
  BY LevelsAfterStep
<1>3. c \in P /\ IsFiniteSet(P) /\ Cardinality(P) = SubWGSize
  BY Teams
<1>4. g[c] = f[c] + 1 /\ \A v \in P : v # c => g[v] = f[v]
  BY <1>1, <1>2, <1>3
<1>5. c \notin AheadOf(f)
  BY TeamUnstalled
<1>6. /\ ebar[EpiBar(c)] = SlotFor(f, P) /\ Close(f)
      /\ \A v \in AheadOf(f) : pc[v] \in {"epi_write", "epi_read"}
  BY DEF TeamBarrierOK
<1>7. ebar'[EpiBar(c)] = Arrival(ebar[EpiBar(c)], SubWGSize, {c})
  BY Teams DEF EpiSync, EbarSync
<1>8. \A v \in P \ {c} : pc'[v] = pc[v]
  OBVIOUS
<1>9. DOMAIN f = P
  BY <1>1
<1> HIDE DEF f, g, P
<1>10. /\ Close(g)
       /\ AheadOf(g) = IF AheadOf(f) \union {c} = P THEN {} ELSE AheadOf(f) \union {c}
  BY <1>1, <1>2, <1>3, <1>4, <1>5, <1>6, Counted
<1>11. Arrival(SlotFor(f, P), SubWGSize, {c}) = SlotFor(g, P)
  BY <1>1, <1>2, <1>3, <1>4, <1>5, <1>6, SlotOfTeam
<1>12. ebar'[EpiBar(c)] = SlotFor(g, P)
  BY <1>3, <1>6, <1>7, <1>11
<1>13. \A v \in AheadOf(g) : pc'[v] \in {"epi_write", "epi_read"}
  <2> SUFFICES ASSUME NEW v \in AheadOf(g) PROVE pc'[v] \in {"epi_write", "epi_read"}
    OBVIOUS
  <2>1. v \in AheadOf(f) \/ v = c
    BY <1>10
  <2>2. v \in AheadOf(f) => v \in P
    BY <1>9 DEF AheadOf
  <2> QED BY <1>6, <1>8, <2>1, <2>2
<1>14. TeamLevels(c)' = g /\ Team(c) = P
  BY DEF g, P
<1> HIDE DEF EpiSync, EpiBar
<1> QED BY <1>10, <1>12, <1>13, <1>14 DEF TeamBarrierOK

\* A step in which nobody of the group uses it.
LEMMA TeamSame ==
  ASSUME epi \in [Compute -> 0 .. EpiLoop - 1], epi' \in [Compute -> 0 .. EpiLoop - 1],
         NEW c \in Compute, TeamBarrierOK(c), ebar'[EpiBar(c)] = ebar[EpiBar(c)],
         \A v \in Team(c) : EpiLevel(v)' = EpiLevel(v),
         \A v \in AheadOf(TeamLevels(c)) : pc'[v] = pc[v]
  PROVE  TeamBarrierOK(c)'
<1>1. TeamLevels(c)' = TeamLevels(c)
  BY DEF TeamLevels
<1> QED BY <1>1 DEF TeamBarrierOK

(***************************************************************************)
(* Between the pipelines.                                                  *)
(***************************************************************************)
\* What a step of one compute wave's epilogue leaves alone.
OthersRest(c) ==
  /\ UNCHANGED <<n, tile_idx, coffset, vmq, lds, reading, acc>>
  /\ \A v \in Waves \ {c} : pc'[v] = pc[v]
  /\ \A v \in Compute \ {c} :
       /\ epi'[v] = epi[v] /\ region'[v] = region[v]
       /\ out'[v] = out[v] /\ epivmq'[v] = epivmq[v]
       /\ v \in writing' <=> v \in writing
       /\ v \in loading' <=> v \in loading
  /\ \A b \in Ebar \ {EpiBar(c)} : ebar'[b] = ebar[b]

\* The levels of the other waves are theirs.
LEMMA OtherLevels ==
  ASSUME NEW v \in Compute, pc'[v] = pc[v], epi'[v] = epi[v]
  PROVE  /\ EpiLevel(v)' = EpiLevel(v) /\ Written(v)' = Written(v) /\ Stored(v)' = Stored(v)
BY DEF EpiLevel, Written, Stored

\* A wave that rests.
LEMMA Rests ==
  ASSUME NEW m, NEW v \in Compute, pc'[v] = pc[v], n'[v] = n[v], tile_idx'[v] = tile_idx[v],
         acc'[v] = acc[v], reading'[v] = reading[v],
         epi'[v] = epi[v], region'[v] = region[v], out'[v] = out[v], epivmq'[v] = epivmq[v],
         v \in writing' <=> v \in writing, v \in loading' <=> v \in loading
  PROVE  /\ Arrived(v, m)' <=> Arrived(v, m)
         /\ Behind(v, m)' <=> Behind(v, m)
         /\ ArrivedOK(v, m) => ArrivedOK(v, m)'
         /\ BehindOK(v, m) => BehindOK(v, m)'
         /\ RegionOK(v, m) => RegionOK(v, m)'
<1>1. Written(v)' = Written(v) /\ Stored(v)' = Stored(v)
  BY OtherLevels
<1>2. (Arrived(v, m)' <=> Arrived(v, m)) /\ (Behind(v, m)' <=> Behind(v, m))
  BY DEF Arrived, Behind
<1>3. StoresOnly(epivmq[v])' <=> StoresOnly(epivmq[v])
  BY DEF StoresOnly
<1>4. PrefetchedFor(epivmq[v], TileAt(m - 1), epi[v])'
        <=> PrefetchedFor(epivmq[v], TileAt(m - 1), epi[v])
  BY DEF PrefetchedFor
<1>5. ArrivedOK(v, m) => ArrivedOK(v, m)'
  BY <1>2, <1>3 DEF ArrivedOK
<1>6. BehindOK(v, m) => BehindOK(v, m)'
  BY <1>1, <1>2, <1>3, <1>4 DEF BehindOK
<1>7. RegionOK(v, m) => RegionOK(v, m)'
  BY <1>1 DEF RegionOK
<1> QED BY <1>2, <1>5, <1>6, <1>7

\* A wave with work left, or at the end of its work, is behind.
LEMMA IsBehind ==
  ASSUME NEW m \in Nat, Between(m), NEW w \in Waves, pc[w] \notin {"entry", "exit"}
  PROVE  /\ Behind(w, m) /\ m > 0 /\ m - 1 \in Nat /\ tile_idx[w] = TileAt(m - 1)
         /\ pc[w] \in EndPoints(w)
<1>1. ~Arrived(w, m)
  BY DEF Arrived, TileEntry
<1> QED BY <1>1 DEF Between, Behind

\* A step of one compute wave that keeps what the invariant says of it and of
\* its warp group.
LEMMA OneRestless ==
  ASSUME BlockTypes, NEW m \in Nat, Between(m), NEW c \in Compute, OthersRest(c),
         epi' \in [Compute -> 0 .. EpiLoop - 1],
         Behind(c, m)', BehindOK(c, m)', RegionOK(c, m)', TeamBarrierOK(c)'
  PROVE  Between(m)'
<1>0. /\ \A v \in Compute : v \in Waves /\ v \notin Producer
      /\ \A p \in Producer : p \in Waves
      /\ epi \in [Compute -> 0 .. EpiLoop - 1]
  BY Groups DEF BlockTypes
<1>1. ASSUME NEW v \in Compute, v # c
      PROVE  /\ Arrived(v, m)' \/ Behind(v, m)'
             /\ ArrivedOK(v, m)' /\ BehindOK(v, m)' /\ RegionOK(v, m)'
  <2>1. /\ pc'[v] = pc[v] /\ n'[v] = n[v] /\ tile_idx'[v] = tile_idx[v]
        /\ acc'[v] = acc[v] /\ reading'[v] = reading[v]
        /\ epi'[v] = epi[v] /\ region'[v] = region[v] /\ out'[v] = out[v]
        /\ epivmq'[v] = epivmq[v]
        /\ v \in writing' <=> v \in writing
        /\ v \in loading' <=> v \in loading
    BY <1>0, <1>1 DEF OthersRest
  <2>2. /\ Arrived(v, m) \/ Behind(v, m)
        /\ ArrivedOK(v, m) /\ BehindOK(v, m) /\ RegionOK(v, m)
    BY <1>0 DEF Between
  <2> QED BY <2>1, <2>2, Rests
<1>2. ASSUME NEW p \in Producer
      PROVE  /\ Arrived(p, m)' \/ Behind(p, m)'
             /\ vmq'[p] = <<>> /\ (Arrived(p, m)' => coffset'[p] = 0)
  <2>1. /\ pc'[p] = pc[p] /\ n'[p] = n[p] /\ tile_idx'[p] = tile_idx[p]
        /\ vmq'[p] = vmq[p] /\ coffset'[p] = coffset[p]
    BY <1>0, Groups DEF OthersRest
  <2>2. (Arrived(p, m)' <=> Arrived(p, m)) /\ (Behind(p, m)' <=> Behind(p, m))
    BY <2>1 DEF Arrived, Behind
  <2> QED BY <1>0, <2>1, <2>2 DEF Between
<1>3. ASSUME NEW v \in Compute PROVE TeamBarrierOK(v)'
  <2>1. CASE v \in Team(c)
    <3>1. Team(v) = Team(c) /\ EpiBar(v) = EpiBar(c)
      BY <2>1, Teams
    <3>2. TeamLevels(v)' = TeamLevels(c)'
      BY <3>1 DEF TeamLevels
    <3> QED BY <3>1, <3>2 DEF TeamBarrierOK
  <2>2. CASE v \notin Team(c)
    <3>1. Team(v) # Team(c) /\ EpiBar(v) # EpiBar(c) /\ EpiBar(v) \in Ebar
      BY <2>2, Teams
    <3>2. ebar'[EpiBar(v)] = ebar[EpiBar(v)]
      BY <3>1 DEF OthersRest
    <3>3. \A u \in Team(v) : u # c /\ u \in Compute
      BY <3>1, Teams
    <3>4. \A u \in Team(v) : pc'[u] = pc[u] /\ epi'[u] = epi[u]
      BY <1>0, <3>3 DEF OthersRest
    <3>5. \A u \in Team(v) : EpiLevel(u)' = EpiLevel(u)
      BY <3>3, <3>4, OtherLevels
    <3>6. \A u \in AheadOf(TeamLevels(v)) : u \in Team(v)
      BY DEF AheadOf, TeamLevels
    <3>7. TeamBarrierOK(v)
      BY DEF Between
    <3> QED BY <1>0, <3>2, <3>4, <3>5, <3>6, <3>7, TeamSame
  <2> QED BY <2>1, <2>2
<1>4. \A b \in Ebar \ {"load_sh", "load_pr_major"} : ebar'[b] = FreeSlot
  <2>1. EpiBar(c) \in {"load_sh", "load_pr_major"}
    BY Teams
  <2> QED BY <2>1 DEF OthersRest, Between
<1>5. \A w \in Waves : Arrived(w, m)' \/ Behind(w, m)'
  BY <1>1, <1>2, Groups
<1>6. ArrivedOK(c, m)'
  <2>1. ~Arrived(c, m)'
    BY <1>0 DEF Behind, Arrived, TileEntry, EndPoints, EpiWork
  <2> QED BY <2>1 DEF ArrivedOK
<1>7. \A v \in Compute : ArrivedOK(v, m)' /\ BehindOK(v, m)' /\ RegionOK(v, m)' /\ reading'[v] = {}
  BY <1>1, <1>6 DEF OthersRest, Between
<1> QED BY <1>2, <1>3, <1>4, <1>5, <1>7 DEF Between

(***************************************************************************)
(* The operands of a part.                                                 *)
(***************************************************************************)
LoadsOf(t, i) == [h \in 1 .. OperandIssue |-> OperandLoad(t, i, h)]

\* The loads of a part's operands.
LEMMA LoadsOfType ==
  ASSUME NEW t \in Nat, NEW i \in Nat
  PROVE  /\ LoadsOf(t, i) \in Seq(OpType) /\ Len(LoadsOf(t, i)) = OperandIssue
         /\ \A h \in 1 .. OperandIssue : LoadsOf(t, i)[h] = OperandLoad(t, i, h)
         /\ \A c : tile_idx[c] = t => OperandLoads(c, i) = LoadsOf(t, i)
<1>1. OperandIssue \in Nat /\ NumPrefetch \in {1, 2}
  BY BufferNumbers
<1>2. i % NumPrefetch \in Int
  BY <1>1
<1>3. \A h \in 1 .. OperandIssue : OperandLoad(t, i, h) \in OpType
  BY <1>1, <1>2 DEF OperandLoad, OpType, Part
<1>4. LoadsOf(t, i) \in [1 .. OperandIssue -> OpType]
  BY <1>3 DEF LoadsOf
<1>5. LoadsOf(t, i) \in Seq(OpType) /\ Len(LoadsOf(t, i)) = OperandIssue
  BY <1>1, <1>4
<1>6. \A c : tile_idx[c] = t => OperandLoads(c, i) = LoadsOf(t, i)
  BY DEF LoadsOf, OperandLoads, OperandLoad
<1> QED BY <1>5, <1>6 DEF LoadsOf

\* A wave's operations, and then others.
LEMMA OpsAppended ==
  ASSUME NEW a \in Seq(OpType), NEW b \in Seq(OpType)
  PROVE  /\ a \o b \in Seq(OpType) /\ Len(a \o b) = Len(a) + Len(b)
         /\ Len(a) \in Nat /\ Len(b) \in Nat
         /\ \A j \in 1 .. Len(a) : (a \o b)[j] = a[j]
         /\ \A j \in 1 .. Len(b) : (a \o b)[Len(a) + j] = b[j]
<1>1. /\ a \o b \in Seq(OpType) /\ Len(a \o b) = Len(a) + Len(b)
      /\ \A j \in 1 .. Len(a) + Len(b) :
           (a \o b)[j] = IF j <= Len(a) THEN a[j] ELSE b[j - Len(a)]
  BY ConcatProperties
<1>2. Len(a) \in Nat /\ Len(b) \in Nat
  BY LenProperties
<1>3. ASSUME NEW j \in 1 .. Len(a) PROVE (a \o b)[j] = a[j]
  <2>1. j \in 1 .. Len(a) + Len(b) /\ j <= Len(a)
    BY <1>2
  <2> QED BY <1>1, <2>1
<1>4. ASSUME NEW j \in 1 .. Len(b) PROVE (a \o b)[Len(a) + j] = b[j]
  <2>1. Len(a) + j \in 1 .. Len(a) + Len(b) /\ ~(Len(a) + j <= Len(a))
    BY <1>2
  <2>2. (Len(a) + j) - Len(a) = j
    BY <1>2
  <2> QED BY <1>1, <2>1, <2>2
<1> QED BY <1>1, <1>2, <1>3, <1>4

\* A part's loads, behind stores, and those of the next part.
OwnOps(f, t, i) ==
  /\ Len(f) <= OperandIssue + 1
  /\ \A j \in 1 .. Len(f) :
       f[j].buffer = <<-1, 0>> \/ \E h \in 1 .. OperandIssue : f[j] = OperandLoad(t, i, h)
  /\ \A h \in 1 .. OperandIssue : \E j \in 1 .. Len(f) : f[j] = OperandLoad(t, i, h)
NextLoads(t, i) == IF i < EpiLoop - 1 THEN LoadsOf(t, i + 1) ELSE <<>>

LEMMA MadeForPart ==
  ASSUME NEW t \in Nat, NEW i \in 0 .. EpiLoop - 1, NEW f \in Seq(OpType), OwnOps(f, t, i)
  PROVE  /\ f \o NextLoads(t, i) \in Seq(OpType)
         /\ PrefetchedFor(f \o NextLoads(t, i), t, i)
<1> DEFINE b == NextLoads(t, i)
           q == f \o b
           ahead == LoadsAhead(i)
<1>0. EpiLoop \in Nat \ {0} /\ OperandIssue \in Nat
  BY OutputNumbers, BufferNumbers
<1>1. b \in Seq(OpType) /\ Len(b) = ahead /\ \A h \in 1 .. ahead : b[h] = OperandLoad(t, i + 1, h)
  <2>1. CASE i < EpiLoop - 1
    BY <2>1, LoadsOfType DEF NextLoads, LoadsAhead
  <2>2. CASE ~(i < EpiLoop - 1)
    BY <2>2, EmptySeq DEF NextLoads, LoadsAhead
  <2> QED BY <2>1, <2>2
<1> HIDE DEF b
<1>2. /\ q \in Seq(OpType) /\ Len(q) = Len(f) + Len(b) /\ Len(f) \in Nat /\ Len(b) \in Nat
      /\ \A j \in 1 .. Len(f) : q[j] = f[j]
      /\ \A j \in 1 .. Len(b) : q[Len(f) + j] = b[j]
  BY <1>1, OpsAppended
<1> HIDE DEF q, ahead
<1>3. Len(q) - ahead = Len(f)
  BY <1>1, <1>2
<1>4. Len(f) \in 0 .. OperandIssue + 1
  BY <1>0, <1>2 DEF OwnOps
<1>5. \A h \in 1 .. ahead : q[Len(f) + h] = OperandLoad(t, i + 1, h)
  BY <1>1, <1>2
<1>6. \A j \in 1 .. Len(f) :
        q[j].buffer = <<-1, 0>> \/ \E h \in 1 .. OperandIssue : q[j] = OperandLoad(t, i, h)
  BY <1>2 DEF OwnOps
<1>7. \A h \in 1 .. OperandIssue : \E j \in 1 .. Len(f) : q[j] = OperandLoad(t, i, h)
  BY <1>2 DEF OwnOps
<1>8. PrefetchedFor(q, t, i)
  BY <1>3, <1>4, <1>5, <1>6, <1>7 DEF PrefetchedFor, ahead
<1> QED BY <1>2, <1>8 DEF q, b

\* The first prefetch.
LEMMA FirstPrefetch ==
  ASSUME NEW c, tile_idx[c] \in Nat, NEW q \in Seq(OpType), StoresOnly(q)
  PROVE  /\ q \o Prefetch(c) \in Seq(OpType)
         /\ PrefetchedFor(q \o Prefetch(c), tile_idx[c], 0)
<1> DEFINE t == tile_idx[c]
           l == LoadsOf(t, 0)
           f == q \o l
<1>0. EpiLoop \in Nat \ {0} /\ OperandIssue \in Nat
  BY OutputNumbers, BufferNumbers
<1>1. /\ l \in Seq(OpType) /\ Len(l) = OperandIssue /\ OperandLoads(c, 0) = l
      /\ \A h \in 1 .. OperandIssue : l[h] = OperandLoad(t, 0, h)
  BY LoadsOfType
<1>2. /\ LoadsOf(t, 1) \in Seq(OpType) /\ OperandLoads(c, 1) = LoadsOf(t, 1)
  BY LoadsOfType
<1>3. t \in Nat /\ tile_idx[c] = t
  OBVIOUS
<1> HIDE DEF t, l
<1>4. /\ f \in Seq(OpType) /\ Len(f) = Len(q) + OperandIssue /\ Len(q) \in Nat
      /\ \A j \in 1 .. Len(q) : f[j] = q[j]
      /\ \A j \in 1 .. OperandIssue : f[Len(q) + j] = l[j]
  BY <1>1, OpsAppended
<1> HIDE DEF f
<1>5. OwnOps(f, t, 0)
  <2>1. Len(f) <= OperandIssue + 1
    BY <1>0, <1>4 DEF StoresOnly
  <2>2. ASSUME NEW j \in 1 .. Len(f)
        PROVE  f[j].buffer = <<-1, 0>> \/ \E h \in 1 .. OperandIssue : f[j] = OperandLoad(t, 0, h)
    <3>1. CASE j <= Len(q)
      BY <1>4, <3>1 DEF StoresOnly
    <3>2. CASE j > Len(q)
      <4>1. j - Len(q) \in 1 .. OperandIssue /\ Len(q) + (j - Len(q)) = j
        BY <1>0, <1>4, <3>2
      <4>2. f[j] = l[j - Len(q)]
        BY <1>4, <4>1
      <4> QED BY <1>1, <4>1, <4>2
    <3> QED BY <1>4, <3>1, <3>2
  <2>3. ASSUME NEW h \in 1 .. OperandIssue
        PROVE  \E j \in 1 .. Len(f) : f[j] = OperandLoad(t, 0, h)
    <3>1. Len(q) + h \in 1 .. Len(f)
      BY <1>0, <1>4
    <3> QED BY <1>1, <1>4, <3>1
  <2> QED BY <2>1, <2>2, <2>3 DEF OwnOps
<1>6. q \o Prefetch(c) = f \o NextLoads(t, 0)
  <2>1. CASE NumPrefetch = 1
    <3>1. EpiLoop = 1
      BY <2>1, BufferNumbers
    <3>2. NextLoads(t, 0) = <<>>
      BY <3>1 DEF NextLoads
    <3>3. f \o <<>> = f
      BY <1>4, ConcatEmptySeq
    <3> QED BY <1>1, <2>1, <3>2, <3>3 DEF Prefetch, f
  <2>2. CASE NumPrefetch # 1
    <3>1. EpiLoop >= 2
      BY <2>2, BufferNumbers
    <3>2. NextLoads(t, 0) = LoadsOf(t, 1)
      BY <1>0, <3>1 DEF NextLoads
    <3>3. (q \o l) \o LoadsOf(t, 1) = q \o (l \o LoadsOf(t, 1))
      BY <1>1, <1>2, ConcatAssociative
    <3> QED BY <1>1, <1>2, <2>2, <3>2, <3>3 DEF Prefetch, f
  <2> QED BY <2>1, <2>2
<1>7. 0 \in 0 .. EpiLoop - 1
  BY <1>0
<1>8. /\ f \o NextLoads(t, 0) \in Seq(OpType)
      /\ PrefetchedFor(f \o NextLoads(t, 0), t, 0)
  BY <1>3, <1>4, <1>5, <1>7, MadeForPart
<1> QED BY <1>6, <1>8 DEF t

\* The fence for a part lets its loads complete, and what is older.
LEMMA FenceIs ==
  ASSUME NEW c, epivmq[c] \in Seq(OpType), NEW t, NEW i \in 0 .. EpiLoop - 1,
         PrefetchedFor(epivmq[c], t, i)
  PROVE  /\ FenceLands(c, i) = Len(epivmq[c]) - LoadsAhead(i)
         /\ FenceLands(c, i) \in 0 .. OperandIssue + 1
         /\ LoadsAhead(i) \in Nat
<1>1. Len(epivmq[c]) \in Nat
  BY LenProperties
<1>2. waitcnt_operand(i) = LoadsAhead(i) /\ LoadsAhead(i) \in Nat
  BY BufferNumbers
<1>3. Len(epivmq[c]) - LoadsAhead(i) \in 0 .. OperandIssue + 1
  BY DEF PrefetchedFor
<1> QED BY <1>1, <1>2, <1>3 DEF FenceLands

\* The first k operations of a wave fill a piece of a buffer for one part.
FillsOnly(c, k, b, part) ==
  /\ \E j \in 1 .. k : epivmq[c][j].buffer = b
  /\ \A j \in 1 .. k : epivmq[c][j].buffer = b => epivmq[c][j].part = part

\* What the buffers hold: parts.
LEMMA BuffersType ==
  ASSUME NEW c \in Compute, epivmq[c] \in Seq(OpType), operand[c] \in [Buffer -> PartType],
         NEW k \in 0 .. Len(epivmq[c])
  PROVE  /\ BuffersAfter(c, k) \in [Buffer -> PartType]
         /\ \A b \in Buffer : \A part : FillsOnly(c, k, b, part) => BuffersAfter(c, k)[b] = part
<1> DEFINE q == epivmq[c]
           F(b) == {j \in 1 .. k : q[j].buffer = b}
           last(b) == CHOOSE j \in F(b) : \A h \in F(b) : h <= j
<1>1. Len(q) \in Nat /\ k \in Nat /\ \A j \in 1 .. k : q[j] \in OpType
  <2>1. Len(q) \in Nat
    BY LenProperties
  <2>2. \A j \in 1 .. k : j \in 1 .. Len(q)
    BY <2>1
  <2> QED BY <2>1, <2>2, ElementOfSeq
<1>2. ASSUME NEW b, F(b) # {} PROVE last(b) \in F(b)
  <2>1. F(b) \subseteq 0 .. k
    BY <1>1
  <2>2. \E j \in F(b) : \A h \in F(b) : h <= j
    BY <1>1, <1>2, <2>1, GreatestOf
  <2> QED BY <2>2
<1>3. \A b \in Buffer :
        BuffersAfter(c, k)[b] = IF F(b) = {} THEN operand[c][b] ELSE q[last(b)].part
  BY DEF BuffersAfter
<1>4. \A j \in 1 .. k : q[j].part \in PartType
  BY <1>1 DEF OpType, PartType
<1>5. ASSUME NEW b \in Buffer, F(b) # {} PROVE last(b) \in 1 .. k /\ q[last(b)].buffer = b
  BY <1>2, <1>5
<1>6. \A b \in Buffer : BuffersAfter(c, k)[b] \in PartType
  <2> TAKE b \in Buffer
  <2>1. operand[c][b] \in PartType
    OBVIOUS
  <2>2. F(b) # {} => q[last(b)].part \in PartType
    BY <1>4, <1>5
  <2> HIDE DEF F, last, q
  <2> QED BY <1>3, <2>1, <2>2
<1>7. BuffersAfter(c, k) \in [Buffer -> PartType]
  <2>1. BuffersAfter(c, k) = [b \in Buffer |-> BuffersAfter(c, k)[b]]
    BY DEF BuffersAfter
  <2> QED BY <1>6, <2>1
<1>8. ASSUME NEW b \in Buffer, NEW part, FillsOnly(c, k, b, part)
      PROVE  BuffersAfter(c, k)[b] = part
  <2>1. F(b) # {}
    BY <1>8 DEF FillsOnly
  <2>2. q[last(b)].part = part
    BY <1>5, <1>8, <2>1 DEF FillsOnly
  <2> HIDE DEF F, last, q
  <2> QED BY <1>3, <2>1, <2>2
<1> QED BY <1>7, <1>8

\* A wave whose fence for a part has let it go on finds the part's operands
\* in their buffer, whatever else has completed.
LEMMA OperandsArrive ==
  ASSUME NEW c \in Compute, epivmq[c] \in Seq(OpType), operand[c] \in [Buffer -> PartType],
         NEW t \in Nat, NEW i \in 0 .. EpiLoop - 1, PrefetchedFor(epivmq[c], t, i),
         NEW k \in FenceLands(c, i) .. Len(epivmq[c])
  PROVE  /\ BuffersAfter(c, k) \in [Buffer -> PartType]
         /\ OperandIssue > 0 => OperandIn(BuffersAfter(c, k), i) = Part(t, i)
         /\ OperandIn(BuffersAfter(c, k), i) \in PartType
<1> DEFINE q == epivmq[c]
           own == FenceLands(c, i)
           at(h) == <<i % NumPrefetch, h>>
<1>1. /\ own = Len(q) - LoadsAhead(i) /\ own \in Nat /\ LoadsAhead(i) \in Nat
      /\ OperandIssue \in Nat /\ Len(q) \in Nat
  <2>1. /\ FenceLands(c, i) = Len(epivmq[c]) - LoadsAhead(i)
        /\ FenceLands(c, i) \in 0 .. OperandIssue + 1 /\ LoadsAhead(i) \in Nat
    BY FenceIs
  <2>2. OperandIssue \in Nat
    BY BufferNumbers
  <2>3. Len(q) \in Nat
    BY LenProperties
  <2> QED BY <2>1, <2>2, <2>3
<1>2. k \in 0 .. Len(q) /\ own <= k /\ k \in Nat
  BY <1>1
<1>3. i % NumPrefetch \in 0 .. NumPrefetch - 1
  BY BufferNumbers
<1>4. /\ BuffersAfter(c, k) \in [Buffer -> PartType]
      /\ \A b \in Buffer : \A part : FillsOnly(c, k, b, part) => BuffersAfter(c, k)[b] = part
  BY <1>2, BuffersType
<1>5. /\ \A h \in 1 .. LoadsAhead(i) : q[own + h] = OperandLoad(t, i + 1, h)
      /\ \A j \in 1 .. own :
           q[j].buffer = <<-1, 0>> \/ \E h \in 1 .. OperandIssue : q[j] = OperandLoad(t, i, h)
      /\ \A h \in 1 .. OperandIssue : \E j \in 1 .. own : q[j] = OperandLoad(t, i, h)
  BY <1>1 DEF PrefetchedFor
<1> HIDE DEF own
<1>6. ASSUME NEW h \in 1 .. OperandIssue
      PROVE  BuffersAfter(c, k)[at(h)] = Part(t, i)
  <2>1. at(h) \in Buffer
    BY <1>3 DEF Buffer
  <2>2. \E j \in 1 .. k : q[j].buffer = at(h)
    <3>1. PICK j \in 1 .. own : q[j] = OperandLoad(t, i, h)
      BY <1>5
    <3>2. j \in 1 .. k
      BY <1>1, <1>2
    <3> QED BY <3>1, <3>2 DEF OperandLoad
  <2>3. ASSUME NEW j \in 1 .. k, q[j].buffer = at(h)
        PROVE  q[j].part = Part(t, i)
    <3>1. CASE j <= own
      <4>1. j \in 1 .. own
        BY <1>1, <3>1
      <4>2. q[j].buffer # <<-1, 0>>
        BY <1>3, <2>3
      <4>3. PICK g \in 1 .. OperandIssue : q[j] = OperandLoad(t, i, g)
        BY <1>5, <4>1, <4>2
      <4> QED BY <4>3 DEF OperandLoad
    <3>2. CASE j > own
      <4>1. j - own \in 1 .. LoadsAhead(i) /\ own + (j - own) = j
        <5>1. j \in Nat /\ j >= 1 /\ j <= k
          BY <1>2
        <5>2. k <= own + LoadsAhead(i)
          BY <1>1, <1>2
        <5>3. own \in Nat /\ LoadsAhead(i) \in Nat
          BY <1>1
        <5> HIDE DEF q
        <5>4. j - own \in 1 .. LoadsAhead(i)
          BY <1>2, <3>2, <5>1, <5>2, <5>3
        <5>5. own + (j - own) = j
          BY <5>1, <5>3
        <5> QED BY <5>4, <5>5
      <4>2. q[j] = OperandLoad(t, i + 1, j - own)
        BY <1>5, <4>1
      <4>3. i < EpiLoop - 1
        BY <1>1, <4>1 DEF LoadsAhead
      <4>4. q[j].buffer # at(h)
        BY <4>2, <4>3, BufferNumbers DEF OperandLoad
      <4> QED BY <2>3, <4>4
    <3> QED BY <1>1, <3>1, <3>2
  <2>4. FillsOnly(c, k, at(h), Part(t, i))
    BY <2>2, <2>3 DEF FillsOnly
  <2> QED BY <1>4, <2>1, <2>4
<1>7. CASE OperandIssue > 0
  <2> DEFINE S == {BuffersAfter(c, k)[at(h)] : h \in 1 .. OperandIssue}
  <2>1. \A y \in S : y = Part(t, i)
    BY <1>6
  <2>2. S # {}
    <3>1. 1 \in 1 .. OperandIssue
      BY <1>1, <1>7
    <3>2. BuffersAfter(c, k)[at(1)] \in S
      BY <3>1
    <3> QED BY <3>2
  <2>3. OperandIn(BuffersAfter(c, k), i) = TheOne(S)
    BY DEF OperandIn
  <2> HIDE DEF S
  <2>4. TheOne(S) = Part(t, i)
    <3>1. S = {Part(t, i)}
      BY <2>1, <2>2
    <3> QED BY <3>1, TheOneOf
  <2>5. Part(t, i) \in PartType
    BY OutputNumbers DEF Part, PartType
  <2> QED BY <1>4, <2>3, <2>4, <2>5
<1>8. CASE OperandIssue = 0
  <2>1. 1 .. OperandIssue = {}
    BY <1>8
  <2>2. OperandIn(BuffersAfter(c, k), i) = NoPart
    BY <2>1 DEF OperandIn, TheOne, NoTile, NoPart
  <2> QED BY <1>4, <1>8, <2>2 DEF PartType
<1> QED BY <1>1, <1>7, <1>8

\* The wave's operations after a store.
AfterStore(c, i) ==
  SubSeq(epivmq[c], FenceLands(c, i) + 1, Len(epivmq[c]))
    \o Store(Part(tile_idx[c], i)) \o LoadAhead(c, i)

\* Before the last part they are prefetched for the next one; after the last
\* there is only the store.
LEMMA StoreAndLoad ==
  ASSUME NEW c \in Compute, epivmq[c] \in Seq(OpType), tile_idx[c] \in Nat,
         NEW i \in 0 .. EpiLoop - 1, PrefetchedFor(epivmq[c], tile_idx[c], i)
  PROVE  /\ AfterStore(c, i) \in Seq(OpType)
         /\ i < EpiLoop - 1 => PrefetchedFor(AfterStore(c, i), tile_idx[c], i + 1)
         /\ ~(i < EpiLoop - 1) => StoresOnly(AfterStore(c, i))
<1> DEFINE q == epivmq[c]
           t == tile_idx[c]
           own == FenceLands(c, i)
           ahead == LoadsAhead(i)
           left == SubSeq(q, own + 1, Len(q))
           store == Store(Part(t, i))
           f == left \o store
<1>0. /\ EpiLoop \in Nat \ {0} /\ OperandIssue \in Nat /\ i \in Nat
      /\ (NumPrefetch = 1 /\ EpiLoop = 1) \/ NumPrefetch = 2
  BY OutputNumbers, BufferNumbers
<1>1. own = Len(q) - ahead /\ own \in 0 .. OperandIssue + 1 /\ ahead \in Nat /\ Len(q) \in Nat
  BY FenceIs, LenProperties
<1>2. /\ left \in Seq(OpType) /\ Len(left) = ahead
      /\ \A j \in 1 .. ahead : left[j] = q[own + j]
  <2>1. \A j \in own + 1 .. Len(q) : q[j] \in OpType
    <3>1. \A j \in own + 1 .. Len(q) : j \in 1 .. Len(q)
      BY <1>1
    <3> QED BY <3>1, ElementOfSeq
  <2>2. own + 1 \in Int /\ Len(q) \in Int
    BY <1>1
  <2> HIDE DEF q, own, ahead
  <2>3. /\ left \in Seq(OpType)
        /\ Len(left) = IF own + 1 <= Len(q) THEN Len(q) - (own + 1) + 1 ELSE 0
        /\ \A j \in 1 .. Len(q) - (own + 1) + 1 : left[j] = q[own + 1 + j - 1]
    BY <2>1, <2>2, SubSeqProperties
  <2>4. Len(q) - (own + 1) + 1 = ahead
    BY <1>1
  <2>5. \A j \in 1 .. ahead : own + 1 + j - 1 = own + j
    BY <1>1
  <2>6. Len(left) = ahead
    BY <1>1, <2>3
  <2> HIDE DEF left
  <2> QED BY <2>3, <2>4, <2>5, <2>6
<1>3. /\ store \in Seq(OpType) /\ Len(store) = 1
      /\ store[1] = [buffer |-> <<-1, 0>>, part |-> Part(t, i)]
  BY <1>0 DEF Store, OpType, Part
<1>4. \A h \in 1 .. ahead : q[own + h] = OperandLoad(t, i + 1, h)
  BY <1>1 DEF PrefetchedFor
<1>5. t \in Nat /\ tile_idx[c] = t
  OBVIOUS
<1>6. AfterStore(c, i) = f \o LoadAhead(c, i)
  BY DEF AfterStore
<1> HIDE DEF q, t, own, left, store
<1>7. /\ f \in Seq(OpType) /\ Len(f) = ahead + 1
      /\ \A j \in 1 .. ahead : f[j] = left[j]
      /\ f[ahead + 1] = store[1]
  <2>1. /\ f \in Seq(OpType) /\ Len(f) = Len(left) + Len(store)
        /\ \A j \in 1 .. Len(left) : f[j] = left[j]
        /\ \A j \in 1 .. Len(store) : f[Len(left) + j] = store[j]
    BY <1>2, <1>3, OpsAppended
  <2>2. 1 \in 1 .. Len(store)
    BY <1>3
  <2> HIDE DEF f
  <2> QED BY <1>2, <1>3, <2>1, <2>2
<1> HIDE DEF f
<1>8. CASE i < EpiLoop - 1
  <2>1. i + 1 \in 0 .. EpiLoop - 1 /\ i + 1 \in Nat /\ NumPrefetch = 2 /\ ahead = OperandIssue
    BY <1>0, <1>8 DEF LoadsAhead
  <2>2. LoadAhead(c, i) = NextLoads(t, i + 1)
    <3>1. OperandLoads(c, i + 2) = LoadsOf(t, i + 2)
      BY <1>0, <1>5, LoadsOfType
    <3>2. i + 1 + 1 = i + 2 /\ (i < EpiLoop - 2 <=> i + 1 < EpiLoop - 1)
      BY <1>0
    <3> QED BY <2>1, <3>1, <3>2 DEF LoadAhead, NextLoads
  <2>3. OwnOps(f, t, i + 1)
    <3>1. Len(f) = OperandIssue + 1
      BY <1>7, <2>1
    <3>2. \A h \in 1 .. OperandIssue : f[h] = OperandLoad(t, i + 1, h) /\ h \in 1 .. Len(f)
      BY <1>0, <1>2, <1>4, <1>7, <2>1, <3>1
    <3>3. f[OperandIssue + 1].buffer = <<-1, 0>>
      BY <1>3, <1>7, <2>1
    <3>4. \A j \in 1 .. Len(f) : j \in 1 .. OperandIssue \/ j = OperandIssue + 1
      BY <1>0, <3>1
    <3>5. Len(f) <= OperandIssue + 1
      BY <1>0, <3>1
    <3> QED BY <3>2, <3>3, <3>4, <3>5 DEF OwnOps
  <2>4. /\ f \o NextLoads(t, i + 1) \in Seq(OpType)
        /\ PrefetchedFor(f \o NextLoads(t, i + 1), t, i + 1)
    BY <1>5, <1>7, <2>1, <2>3, MadeForPart
  <2> QED BY <1>5, <1>6, <1>8, <2>2, <2>4
<1>9. CASE ~(i < EpiLoop - 1)
  <2>1. ahead = 0 /\ LoadAhead(c, i) = <<>>
    BY <1>0, <1>9 DEF LoadsAhead, LoadAhead
  <2>2. AfterStore(c, i) = f
    BY <1>6, <1>7, <2>1, ConcatEmptySeq
  <2>3. StoresOnly(f)
    <3>1. Len(f) = 1 /\ f[1] = store[1]
      BY <1>7, <2>1
    <3>2. f[1].buffer = <<-1, 0>>
      BY <1>3, <3>1
    <3>3. \A j \in 1 .. 1 : j = 1
      OBVIOUS
    <3> QED BY <3>1, <3>2, <3>3 DEF StoresOnly
  <2> QED BY <1>7, <1>9, <2>2, <2>3
<1> QED BY <1>8, <1>9

(***************************************************************************)
(* The region of a warp group.                                             *)
(***************************************************************************)
\* While a wave reads its region back, every wave of the group has written its
\* part of it, and none the next one.
LEMMA RegionComplete ==
  ASSUME BlockTypes, NEW m \in Nat, Between(m), NEW c \in Compute, At(c, "epi_store")
  PROVE  Shuffled(c) = Part(TileAt(m - 1), epi[c])
<1>0. /\ c \in Waves /\ pc[c] = "epi_store" /\ epi \in [Compute -> 0 .. EpiLoop - 1]
      /\ \A b \in Ebar : c \notin ebar[b].waiting
      /\ TeamBarrierOK(c) /\ EpiLoop \in Nat \ {0}
  BY Groups, OutputNumbers DEF BlockTypes, Between, At
<1>1. m > 0
  BY <1>0, IsBehind
<1>2. epi[c] \in Nat /\ EpiLevel(c) = 2 * (epi[c] + 1)
  BY <1>0 DEF EpiLevel, Written
<1>3. ASSUME NEW v \in Team(c)
      PROVE  region[v] = Part(TileAt(m - 1), epi[c]) /\ v \notin writing
  <2>1. /\ EpiLevel(c) <= EpiLevel(v) /\ EpiLevel(v) <= EpiLevel(c) + 1
        /\ EpiLevel(v) = EpiLevel(c) + 1 => pc[v] \in {"epi_write", "epi_read"}
    BY <1>0, TeamUnstalled
  <2>2. v \in Compute /\ RegionOK(v, m)
    BY Teams DEF Between
  <2>3. Written(v) \in Nat /\ EpiLevel(v) \in Nat
    BY <1>0, <2>2, LevelsOfTeams
  <2>4. Written(v) = epi[c] + 1 /\ pc[v] # "epi_guard_read"
    <3>1. CASE EpiLevel(v) = EpiLevel(c)
      BY <1>2, <2>3, <3>1 DEF EpiLevel
    <3>2. CASE EpiLevel(v) = EpiLevel(c) + 1
      BY <1>2, <2>1, <2>3, <3>2 DEF EpiLevel
    <3> QED BY <1>2, <2>1, <2>3, <3>1, <3>2
  <2>5. Written(v) - 1 = epi[c] /\ Written(v) > 0
    BY <1>2, <2>4
  <2> QED BY <1>1, <2>2, <2>4, <2>5 DEF RegionOK
<1>4. Team(c) \intersect writing = {}
  BY <1>3
<1> DEFINE S == {region[v] : v \in Team(c)}
<1>5. Shuffled(c) = TheOne(S)
  BY <1>4 DEF Shuffled
<1>6. region[c] \in S
  BY Teams
<1>7. S = {Part(TileAt(m - 1), epi[c])}
  BY <1>3, <1>6
<1> HIDE DEF S
<1> QED BY <1>5, <1>7, TheOneOf

\* No wave writes to the region while another one reads it.
LEMMA RegionsApart ==
  ASSUME BlockTypes, NEW m \in Nat, Between(m)
  PROVE  NoRegionRace
<1> SUFFICES ASSUME NEW c \in writing, NEW d \in loading, Team(c) = Team(d) PROVE FALSE
  BY DEF NoRegionRace
<1>0. /\ c \in Compute /\ d \in Compute /\ epi \in [Compute -> 0 .. EpiLoop - 1]
      /\ EpiLoop \in Nat
  BY OutputNumbers DEF BlockTypes
<1>1. pc[c] = "epi_guard_read" /\ pc[d] = "epi_store"
  BY <1>0 DEF Between, RegionOK
<1>2. epi[c] \in Nat /\ epi[d] \in Nat
  BY <1>0
<1>3. EpiLevel(c) = 2 * epi[c] + 1 /\ EpiLevel(d) = 2 * (epi[d] + 1)
  BY <1>1, <1>2 DEF EpiLevel, Written
<1> DEFINE f == TeamLevels(c)
<1>4. c \in Team(c) /\ d \in Team(c)
  BY <1>0, Teams
<1>5. /\ DOMAIN f = Team(c) /\ f[c] = EpiLevel(c) /\ f[d] = EpiLevel(d)
  BY <1>0, <1>4, LevelsOfTeams
<1>6. Close(f) /\ \A v \in AheadOf(f) : pc[v] \in {"epi_write", "epi_read"}
  BY <1>0 DEF Between, TeamBarrierOK
<1> HIDE DEF f
<1>7. c \notin AheadOf(f) /\ d \notin AheadOf(f)
  BY <1>1, <1>6
<1>8. ~(f[d] < f[c]) /\ ~(f[c] < f[d])
  BY <1>4, <1>5, <1>7 DEF AheadOf
<1> QED BY <1>2, <1>3, <1>5, <1>8

(***************************************************************************)
(* A step of the epilogue.                                                 *)
(***************************************************************************)
\* A wave in its epilogue, or at the end of its pipeline.
LEMMA EpilogueOf ==
  ASSUME BlockTypes, NEW m \in Nat, Between(m), NEW c \in Compute,
         NEW point \in EpiWork \union {"done", "epi_end"}, At(c, point)
  PROVE  /\ c \in Waves /\ m > 0 /\ m - 1 \in Nat /\ tile_idx[c] = TileAt(m - 1)
         /\ pc[c] = point /\ Behind(c, m) /\ BehindOK(c, m) /\ RegionOK(c, m)
         /\ TeamBarrierOK(c) /\ c \notin AheadOf(TeamLevels(c))
         /\ \A b \in Ebar : c \notin ebar[b].waiting
         /\ epi \in [Compute -> 0 .. EpiLoop - 1] /\ epi[c] \in 0 .. EpiLoop - 1
         /\ EpiLoop \in Nat \ {0} /\ tile_idx[c] \in Nat
<1>1. c \in Waves /\ pc[c] = point /\ epi \in [Compute -> 0 .. EpiLoop - 1]
  BY Groups DEF At, BlockTypes
<1>2. pc[c] \notin {"entry", "exit"}
  BY <1>1 DEF EpiWork
<1>3. \A b \in Ebar : c \notin ebar[b].waiting
  BY DEF At
<1>4. TeamBarrierOK(c) /\ BehindOK(c, m) /\ RegionOK(c, m)
  BY DEF Between
<1>5. c \notin AheadOf(TeamLevels(c))
  BY <1>1, <1>3, <1>4, TeamUnstalled
<1>6. Behind(c, m) /\ m > 0 /\ m - 1 \in Nat /\ tile_idx[c] = TileAt(m - 1)
  BY <1>1, <1>2, IsBehind
<1>7. TileAt(m - 1) \in Nat
  BY <1>6, TileNumbers
<1> QED BY <1>1, <1>3, <1>4, <1>5, <1>6, <1>7, OutputNumbers

\* What the steps of the epilogue keep well-formed.
LEMMA EpilogueTypes ==
  ASSUME BlockTypes, NEW c \in Compute, UNCHANGEDpipeline, UNCHANGED ebar \/ EpiSync(c),
         NEW point \in EpiPoint, Goto(c, point),
         epi' \in [Compute -> 0 .. EpiLoop - 1], region' \in [Compute -> PartType],
         writing' \subseteq Compute, loading' \subseteq Compute,
         out' \in [Compute -> Seq([part : PartType, operand : PartType])],
         epivmq' \in [Compute -> Seq(OpType)], operand' \in [Compute -> [Buffer -> PartType]]
  PROVE  /\ BlockTypes'
         /\ pc'[c] = point /\ \A v \in Waves \ {c} : pc'[v] = pc[v]
         /\ \A b \in Ebar \ {EpiBar(c)} : ebar'[b] = ebar[b]
<1>0. c \in Waves /\ pc \in [Waves -> Point \union EpiPoint] /\ ebar \in [Ebar -> EbarSlot]
  BY Groups DEF BlockTypes
<1>1. /\ pc' \in [Waves -> Point \union EpiPoint]
      /\ pc'[c] = point /\ \A v \in Waves \ {c} : pc'[v] = pc[v]
  BY <1>0 DEF Goto
<1>2. ebar' \in [Ebar -> EbarSlot] /\ \A b \in Ebar \ {EpiBar(c)} : ebar'[b] = ebar[b]
  <2>1. EpiBar(c) \in Ebar
    BY Teams
  <2>2. CASE UNCHANGED ebar
    BY <1>0, <2>2
  <2>3. CASE EpiSync(c)
    <3>1. SubWGSize \in Nat /\ {c} \in SUBSET Waves /\ ebar[EpiBar(c)] \in EbarSlot
      BY <1>0, <2>1, StagesAssumption
    <3>2. Arrival(ebar[EpiBar(c)], SubWGSize, {c}) \in EbarSlot
      BY <3>1, ArrivalType
    <3>3. ebar' = [ebar EXCEPT ![EpiBar(c)] = Arrival(ebar[EpiBar(c)], SubWGSize, {c})]
      BY <2>3 DEF EpiSync, EbarSync
    <3> HIDE DEF EpiBar
    <3> QED BY <1>0, <2>1, <3>2, <3>3
  <2> QED BY <2>2, <2>3
<1>3. UNCHANGED <<n, tile_idx, coffset, vmq, lds, reading, acc>>
  BY DEF UNCHANGEDpipeline
<1>4. BlockTypes'
  BY <1>1, <1>2, <1>3 DEF BlockTypes
<1> QED BY <1>1, <1>2, <1>4

\* The barrier of the warp group after a step of one of its waves.
LEMMA TeamGoesOn ==
  ASSUME BlockTypes, NEW c \in Compute, OthersRest(c), TeamBarrierOK(c),
         \A b \in Ebar : c \notin ebar[b].waiting,
         epi' \in [Compute -> 0 .. EpiLoop - 1],
         \/ /\ EpiSync(c) /\ EpiLevel(c)' = EpiLevel(c) + 1
            /\ pc'[c] \in {"epi_write", "epi_read"}
         \/ UNCHANGED ebar /\ EpiLevel(c)' = EpiLevel(c)
  PROVE  TeamBarrierOK(c)'
<1>1. ebar \in [Ebar -> EbarSlot] /\ epi \in [Compute -> 0 .. EpiLoop - 1]
  BY DEF BlockTypes
<1>2. \A v \in Team(c) \ {c} : v \in Waves /\ v \in Compute
  BY Teams, Groups
<1>3. \A v \in Team(c) \ {c} : pc'[v] = pc[v] /\ epi'[v] = epi[v]
  BY <1>2 DEF OthersRest
<1>4. \A v \in Team(c) \ {c} : EpiLevel(v)' = EpiLevel(v)
  BY <1>2, <1>3, OtherLevels
<1>5. CASE EpiSync(c) /\ EpiLevel(c)' = EpiLevel(c) + 1 /\ pc'[c] \in {"epi_write", "epi_read"}
  BY <1>1, <1>3, <1>4, <1>5, TeamUsed
<1>6. CASE UNCHANGED ebar /\ EpiLevel(c)' = EpiLevel(c)
  <2>1. c \notin AheadOf(TeamLevels(c))
    BY <1>1, TeamUnstalled
  <2>2. \A v \in AheadOf(TeamLevels(c)) : v \in Team(c) \ {c}
    BY <2>1 DEF AheadOf, TeamLevels
  <2>3. ebar'[EpiBar(c)] = ebar[EpiBar(c)] /\ \A v \in Team(c) : EpiLevel(v)' = EpiLevel(v)
    BY <1>4, <1>6
  <2>4. \A v \in AheadOf(TeamLevels(c)) : pc'[v] = pc[v]
    BY <1>3, <2>2
  <2> QED BY <1>1, <2>3, <2>4, TeamSame
<1> QED BY <1>5, <1>6

\* The guard before the write.
LEMMA GuardWriteKeeps ==
  ASSUME BlockTypes, NEW m \in Nat, Between(m), NEW c \in Compute, GuardWrite(c)
  PROVE  BlockTypes' /\ Between(m)' /\ UNCHANGED out
<1> DEFINE t == TileAt(m - 1)
<1>1. PICK point \in {"done", "epi_next"} : At(c, point)
  BY DEF GuardWrite
<1>2. /\ c \in Waves /\ m > 0 /\ m - 1 \in Nat /\ tile_idx[c] = t
      /\ pc[c] = point /\ Behind(c, m) /\ BehindOK(c, m) /\ RegionOK(c, m)
      /\ TeamBarrierOK(c) /\ \A b \in Ebar : c \notin ebar[b].waiting
      /\ epi \in [Compute -> 0 .. EpiLoop - 1] /\ epi[c] \in 0 .. EpiLoop - 1
      /\ EpiLoop \in Nat \ {0} /\ t \in Nat
  BY <1>1, EpilogueOf DEF EpiWork
<1>3. /\ UNCHANGEDpipeline /\ EpiSync(c) /\ Goto(c, "epi_write")
      /\ UNCHANGED <<epi, region, writing, out, operand>>
      /\ loading' = loading \ {c}
  BY DEF GuardWrite
<1>4. epivmq \in [Compute -> Seq(OpType)]
  BY DEF BlockTypes
<1>5. /\ epivmq' \in [Compute -> Seq(OpType)]
      /\ \A v \in Compute \ {c} : epivmq'[v] = epivmq[v]
      /\ PrefetchedFor(epivmq'[c], t, epi[c])
  <2>1. CASE point = "done"
    <3>1. epivmq' = [epivmq EXCEPT ![c] = @ \o Prefetch(c)]
      BY <1>1, <1>2, <2>1 DEF GuardWrite, At
    <3>2. epi[c] = 0 /\ StoresOnly(epivmq[c]) /\ epivmq[c] \in Seq(OpType)
      BY <1>2, <1>4, <2>1 DEF BehindOK
    <3>3. /\ epivmq[c] \o Prefetch(c) \in Seq(OpType)
          /\ PrefetchedFor(epivmq[c] \o Prefetch(c), tile_idx[c], 0)
      <4> DEFINE q == epivmq[c]
      <4>1. q \in Seq(OpType) /\ StoresOnly(q) /\ tile_idx[c] \in Nat
        BY <1>2, <3>2
      <4> HIDE DEF q
      <4>2. q \o Prefetch(c) \in Seq(OpType) /\ PrefetchedFor(q \o Prefetch(c), tile_idx[c], 0)
        BY <4>1, FirstPrefetch
      <4> QED BY <4>2 DEF q
    <3> QED BY <1>2, <1>4, <3>1, <3>2, <3>3
  <2>2. CASE point = "epi_next"
    <3>1. epivmq' = epivmq
      BY <1>1, <1>2, <2>2 DEF GuardWrite, At
    <3> QED BY <1>2, <1>4, <2>2, <3>1 DEF BehindOK, EpiWork
  <2> QED BY <2>1, <2>2
<1>6. /\ BlockTypes'
      /\ pc'[c] = "epi_write" /\ \A v \in Waves \ {c} : pc'[v] = pc[v]
      /\ \A b \in Ebar \ {EpiBar(c)} : ebar'[b] = ebar[b]
  <2>1. "epi_write" \in EpiPoint
    BY DEF EpiPoint
  <2>2. /\ epi' \in [Compute -> 0 .. EpiLoop - 1] /\ region' \in [Compute -> PartType]
        /\ writing' \subseteq Compute /\ loading' \subseteq Compute
        /\ out' \in [Compute -> Seq([part : PartType, operand : PartType])]
        /\ operand' \in [Compute -> [Buffer -> PartType]]
    BY <1>3 DEF BlockTypes
  <2> QED BY <1>3, <1>5, <2>1, <2>2, EpilogueTypes
<1>7. OthersRest(c)
  BY <1>3, <1>5, <1>6 DEF OthersRest, UNCHANGEDpipeline
<1>8. Behind(c, m)'
  BY <1>2, <1>3, <1>6 DEF Behind, UNCHANGEDpipeline, EndPoints, EpiWork
<1>9. Written(c)' = Written(c) /\ Written(c) = epi[c] /\ Stored(c)' = Stored(c)
  BY <1>1, <1>2, <1>3, <1>6 DEF Written, Stored
<1>10. BehindOK(c, m)'
  BY <1>2, <1>3, <1>5, <1>6, <1>9 DEF BehindOK, UNCHANGEDpipeline
<1>11. RegionOK(c, m)'
  BY <1>1, <1>2, <1>3, <1>6, <1>9 DEF RegionOK
<1>12. epi' \in [Compute -> 0 .. EpiLoop - 1]
  BY <1>2, <1>3
<1>13. TeamBarrierOK(c)'
  <2>1. EpiLevel(c)' = EpiLevel(c) + 1
    BY <1>1, <1>2, <1>6, <1>9 DEF EpiLevel
  <2> QED BY <1>2, <1>3, <1>6, <1>7, <1>12, <2>1, TeamGoesOn
<1> QED BY <1>3, <1>6, <1>7, <1>8, <1>10, <1>11, <1>12, <1>13, OneRestless

\* The write to the region.
LEMMA WriteRegionKeeps ==
  ASSUME BlockTypes, NEW m \in Nat, Between(m), NEW c \in Compute, WriteRegion(c)
  PROVE  BlockTypes' /\ Between(m)' /\ UNCHANGED out
<1> DEFINE t == TileAt(m - 1)
<1>1. At(c, "epi_write") /\ "epi_write" \in EpiWork
  BY DEF WriteRegion, EpiWork
<1>2. /\ c \in Waves /\ m > 0 /\ m - 1 \in Nat /\ tile_idx[c] = t
      /\ pc[c] = "epi_write" /\ Behind(c, m) /\ BehindOK(c, m) /\ RegionOK(c, m)
      /\ TeamBarrierOK(c) /\ \A b \in Ebar : c \notin ebar[b].waiting
      /\ epi \in [Compute -> 0 .. EpiLoop - 1]
  BY <1>1, EpilogueOf
<1>3. /\ UNCHANGEDpipeline /\ UNCHANGED ebar /\ Goto(c, "epi_guard_read")
      /\ UNCHANGED <<epi, region, loading, out, epivmq, operand>>
      /\ writing' = writing \union {c}
  BY DEF WriteRegion
<1>4. /\ BlockTypes'
      /\ pc'[c] = "epi_guard_read" /\ \A v \in Waves \ {c} : pc'[v] = pc[v]
      /\ \A b \in Ebar \ {EpiBar(c)} : ebar'[b] = ebar[b]
  <2>1. "epi_guard_read" \in EpiPoint
    BY DEF EpiPoint
  <2>2. /\ epi' \in [Compute -> 0 .. EpiLoop - 1] /\ region' \in [Compute -> PartType]
        /\ writing' \subseteq Compute /\ loading' \subseteq Compute
        /\ out' \in [Compute -> Seq([part : PartType, operand : PartType])]
        /\ epivmq' \in [Compute -> Seq(OpType)] /\ operand' \in [Compute -> [Buffer -> PartType]]
    BY <1>3 DEF BlockTypes
  <2> QED BY <1>3, <2>1, <2>2, EpilogueTypes
<1>5. OthersRest(c)
  BY <1>3, <1>4 DEF OthersRest, UNCHANGEDpipeline
<1>6. Behind(c, m)'
  BY <1>2, <1>3, <1>4 DEF Behind, UNCHANGEDpipeline, EndPoints, EpiWork
<1>7. Written(c)' = Written(c) /\ Stored(c)' = Stored(c)
  BY <1>2, <1>3, <1>4 DEF Written, Stored
<1>8. BehindOK(c, m)'
  <2>1. PrefetchedFor(epivmq[c], t, epi[c])'
    BY <1>1, <1>2, <1>3 DEF BehindOK, PrefetchedFor
  <2> QED BY <1>2, <1>3, <1>4, <1>7, <2>1 DEF BehindOK, UNCHANGEDpipeline
<1>9. RegionOK(c, m)'
  BY <1>2, <1>3, <1>4, <1>7 DEF RegionOK
<1>10. epi' \in [Compute -> 0 .. EpiLoop - 1]
  BY <1>2, <1>3
<1>11. TeamBarrierOK(c)'
  <2>1. EpiLevel(c)' = EpiLevel(c)
    BY <1>2, <1>4, <1>7 DEF EpiLevel
  <2> QED BY <1>2, <1>3, <1>5, <1>10, <2>1, TeamGoesOn
<1> QED BY <1>3, <1>4, <1>5, <1>6, <1>8, <1>9, <1>10, <1>11, OneRestless

\* The guard before the read.
LEMMA GuardReadKeeps ==
  ASSUME BlockTypes, NEW m \in Nat, Between(m), NEW c \in Compute, GuardRead(c)
  PROVE  BlockTypes' /\ Between(m)' /\ UNCHANGED out
<1> DEFINE t == TileAt(m - 1)
<1>1. At(c, "epi_guard_read") /\ "epi_guard_read" \in EpiWork
  BY DEF GuardRead, EpiWork
<1>2. /\ c \in Waves /\ m > 0 /\ m - 1 \in Nat /\ tile_idx[c] = t
      /\ pc[c] = "epi_guard_read" /\ Behind(c, m) /\ BehindOK(c, m) /\ RegionOK(c, m)
      /\ TeamBarrierOK(c) /\ \A b \in Ebar : c \notin ebar[b].waiting
      /\ epi \in [Compute -> 0 .. EpiLoop - 1] /\ epi[c] \in 0 .. EpiLoop - 1
      /\ EpiLoop \in Nat \ {0} /\ t \in Nat
  BY <1>1, EpilogueOf
<1>3. /\ UNCHANGEDpipeline /\ EpiSync(c) /\ Goto(c, "epi_read")
      /\ UNCHANGED <<epi, loading, out, epivmq, operand>>
      /\ writing' = writing \ {c}
      /\ region' = [region EXCEPT ![c] = Part(t, epi[c])]
  BY <1>2 DEF GuardRead
<1>4. /\ region' \in [Compute -> PartType] /\ region'[c] = Part(t, epi[c])
      /\ \A v \in Compute \ {c} : region'[v] = region[v]
  <2>1. Part(t, epi[c]) \in PartType /\ region \in [Compute -> PartType]
    BY <1>2 DEF Part, PartType, BlockTypes
  <2> QED BY <1>3, <2>1
<1>5. /\ BlockTypes'
      /\ pc'[c] = "epi_read" /\ \A v \in Waves \ {c} : pc'[v] = pc[v]
      /\ \A b \in Ebar \ {EpiBar(c)} : ebar'[b] = ebar[b]
  <2>1. "epi_read" \in EpiPoint
    BY DEF EpiPoint
  <2>2. /\ epi' \in [Compute -> 0 .. EpiLoop - 1]
        /\ writing' \subseteq Compute /\ loading' \subseteq Compute
        /\ out' \in [Compute -> Seq([part : PartType, operand : PartType])]
        /\ epivmq' \in [Compute -> Seq(OpType)] /\ operand' \in [Compute -> [Buffer -> PartType]]
    BY <1>3 DEF BlockTypes
  <2> QED BY <1>3, <1>4, <2>1, <2>2, EpilogueTypes
<1>6. OthersRest(c)
  BY <1>3, <1>4, <1>5 DEF OthersRest, UNCHANGEDpipeline
<1>7. Behind(c, m)'
  BY <1>2, <1>3, <1>5 DEF Behind, UNCHANGEDpipeline, EndPoints, EpiWork
<1>8. Written(c)' = epi[c] + 1 /\ Written(c) = epi[c] /\ Stored(c)' = Stored(c)
  BY <1>2, <1>3, <1>5 DEF Written, Stored
<1>9. BehindOK(c, m)'
  <2>1. PrefetchedFor(epivmq[c], t, epi[c])'
    BY <1>1, <1>2, <1>3 DEF BehindOK, PrefetchedFor
  <2> QED BY <1>2, <1>3, <1>5, <1>8, <2>1 DEF BehindOK, UNCHANGEDpipeline
<1>10. RegionOK(c, m)'
  <2>1. (epi[c] + 1) - 1 = epi[c]
    BY <1>2
  <2> QED BY <1>2, <1>3, <1>4, <1>5, <1>8, <2>1 DEF RegionOK
<1>11. epi' \in [Compute -> 0 .. EpiLoop - 1]
  BY <1>2, <1>3
<1>12. TeamBarrierOK(c)'
  <2>1. EpiLevel(c)' = EpiLevel(c) + 1
    BY <1>2, <1>5, <1>8 DEF EpiLevel
  <2> QED BY <1>2, <1>3, <1>5, <1>6, <1>11, <2>1, TeamGoesOn
<1> QED BY <1>3, <1>5, <1>6, <1>7, <1>9, <1>10, <1>11, <1>12, OneRestless

\* The read of the region.
LEMMA ReadRegionKeeps ==
  ASSUME BlockTypes, NEW m \in Nat, Between(m), NEW c \in Compute, ReadRegion(c)
  PROVE  BlockTypes' /\ Between(m)' /\ UNCHANGED out
<1> DEFINE t == TileAt(m - 1)
<1>1. At(c, "epi_read") /\ "epi_read" \in EpiWork
  BY DEF ReadRegion, EpiWork
<1>2. /\ c \in Waves /\ m > 0 /\ m - 1 \in Nat /\ tile_idx[c] = t
      /\ pc[c] = "epi_read" /\ Behind(c, m) /\ BehindOK(c, m) /\ RegionOK(c, m)
      /\ TeamBarrierOK(c) /\ \A b \in Ebar : c \notin ebar[b].waiting
      /\ epi \in [Compute -> 0 .. EpiLoop - 1]
  BY <1>1, EpilogueOf
<1>3. /\ UNCHANGEDpipeline /\ UNCHANGED ebar /\ Goto(c, "epi_store")
      /\ UNCHANGED <<epi, region, writing, out, epivmq, operand>>
      /\ loading' = loading \union {c}
  BY DEF ReadRegion
<1>4. /\ BlockTypes'
      /\ pc'[c] = "epi_store" /\ \A v \in Waves \ {c} : pc'[v] = pc[v]
      /\ \A b \in Ebar \ {EpiBar(c)} : ebar'[b] = ebar[b]
  <2>1. "epi_store" \in EpiPoint
    BY DEF EpiPoint
  <2>2. /\ epi' \in [Compute -> 0 .. EpiLoop - 1] /\ region' \in [Compute -> PartType]
        /\ writing' \subseteq Compute /\ loading' \subseteq Compute
        /\ out' \in [Compute -> Seq([part : PartType, operand : PartType])]
        /\ epivmq' \in [Compute -> Seq(OpType)] /\ operand' \in [Compute -> [Buffer -> PartType]]
    BY <1>3 DEF BlockTypes
  <2> QED BY <1>3, <2>1, <2>2, EpilogueTypes
<1>5. OthersRest(c)
  BY <1>3, <1>4 DEF OthersRest, UNCHANGEDpipeline
<1>6. Behind(c, m)'
  BY <1>2, <1>3, <1>4 DEF Behind, UNCHANGEDpipeline, EndPoints, EpiWork
<1>7. Written(c)' = Written(c) /\ Stored(c)' = Stored(c)
  BY <1>2, <1>3, <1>4 DEF Written, Stored
<1>8. BehindOK(c, m)'
  <2>1. PrefetchedFor(epivmq[c], t, epi[c])'
    BY <1>1, <1>2, <1>3 DEF BehindOK, PrefetchedFor
  <2> QED BY <1>2, <1>3, <1>4, <1>7, <2>1 DEF BehindOK, UNCHANGEDpipeline
<1>9. RegionOK(c, m)'
  BY <1>2, <1>3, <1>4, <1>7 DEF RegionOK
<1>10. epi' \in [Compute -> 0 .. EpiLoop - 1]
  BY <1>2, <1>3
<1>11. TeamBarrierOK(c)'
  <2>1. EpiLevel(c)' = EpiLevel(c)
    BY <1>2, <1>4, <1>7 DEF EpiLevel
  <2> QED BY <1>2, <1>3, <1>5, <1>10, <2>1, TeamGoesOn
<1> QED BY <1>3, <1>4, <1>5, <1>6, <1>8, <1>9, <1>10, <1>11, OneRestless

\* The store of a part.
LEMMA StoreOutKeeps ==
  ASSUME BlockTypes, OutputInOrder, OperandsOfPart,
         NEW m \in Nat, Between(m), NEW c \in Compute, StoreOut(c)
  PROVE  BlockTypes' /\ Between(m)' /\ OutputInOrder' /\ OperandsOfPart'
<1> DEFINE t == TileAt(m - 1)
           i == epi[c]
           q == epivmq[c]
           last == ~(i < EpiLoop - 1)
<1>1. At(c, "epi_store") /\ "epi_store" \in EpiWork
  BY DEF StoreOut, EpiWork
<1>2. /\ c \in Waves /\ m > 0 /\ m - 1 \in Nat /\ tile_idx[c] = t
      /\ pc[c] = "epi_store" /\ Behind(c, m) /\ BehindOK(c, m) /\ RegionOK(c, m)
      /\ TeamBarrierOK(c) /\ \A b \in Ebar : c \notin ebar[b].waiting
      /\ epi \in [Compute -> 0 .. EpiLoop - 1] /\ i \in 0 .. EpiLoop - 1
      /\ EpiLoop \in Nat \ {0} /\ t \in Nat
  BY <1>1, EpilogueOf
<1>3. /\ q \in Seq(OpType) /\ operand[c] \in [Buffer -> PartType]
      /\ PrefetchedFor(q, t, i) /\ acc[c] = FirstTiles(t, NumIter)
      /\ Len(out[c]) = EpiLoop * (m - 1) + i
      /\ epivmq \in [Compute -> Seq(OpType)] /\ operand \in [Compute -> [Buffer -> PartType]]
      /\ out \in [Compute -> Seq([part : PartType, operand : PartType])]
  BY <1>1, <1>2 DEF BehindOK, BlockTypes, Stored
<1>4. Shuffled(c) = Part(t, i)
  BY <1>1, RegionComplete
<1>5. PICK k \in FenceLands(c, i) .. Len(q) :
        out' = [out EXCEPT ![c] = Append(@,
          [part |-> Shuffled(c), operand |-> OperandIn(BuffersAfter(c, k), i)])]
  BY DEF StoreOut
<1> DEFINE new == [part |-> Part(t, i), operand |-> OperandIn(BuffersAfter(c, k), i)]
<1>6. /\ OperandIssue > 0 => OperandIn(BuffersAfter(c, k), i) = Part(t, i)
      /\ OperandIn(BuffersAfter(c, k), i) \in PartType
  <2>1. i \in 0 .. EpiLoop - 1 /\ k \in FenceLands(c, i) .. Len(q) /\ t \in Nat
    BY <1>2, <1>5
  <2>2. /\ epivmq[c] \in Seq(OpType) /\ operand[c] \in [Buffer -> PartType]
        /\ PrefetchedFor(epivmq[c], t, i)
    BY <1>3
  <2> HIDE DEF i, t
  <2> QED BY <2>1, <2>2, OperandsArrive
<1>7. /\ operand' = [operand EXCEPT ![c] = BuffersAfter(c, FenceLands(c, i))]
      /\ epivmq' = [epivmq EXCEPT ![c] = AfterStore(c, i)]
      /\ UNCHANGEDpipeline /\ UNCHANGED <<ebar, region, writing>>
      /\ loading' = loading \ {c}
      /\ ~last => epi' = [epi EXCEPT ![c] = i + 1] /\ Goto(c, "epi_next")
      /\ last => epi' = [epi EXCEPT ![c] = 0] /\ Goto(c, "epi_end")
  BY DEF StoreOut, AfterStore, MoreParts
<1>8. /\ AfterStore(c, i) \in Seq(OpType)
      /\ ~last => PrefetchedFor(AfterStore(c, i), t, i + 1)
      /\ last => StoresOnly(AfterStore(c, i))
  <2>1. PrefetchedFor(epivmq[c], tile_idx[c], i) /\ tile_idx[c] \in Nat
    BY <1>2, <1>3
  <2>2. /\ AfterStore(c, i) \in Seq(OpType)
        /\ i < EpiLoop - 1 => PrefetchedFor(AfterStore(c, i), tile_idx[c], i + 1)
        /\ ~(i < EpiLoop - 1) => StoresOnly(AfterStore(c, i))
    BY <1>2, <1>3, <2>1, StoreAndLoad
  <2> QED BY <1>2, <2>2
<1>9. BuffersAfter(c, FenceLands(c, i)) \in [Buffer -> PartType]
  <2>1. FenceLands(c, i) \in FenceLands(c, i) .. Len(q)
    <3>1. /\ FenceLands(c, i) = Len(q) - LoadsAhead(i)
          /\ FenceLands(c, i) \in 0 .. OperandIssue + 1 /\ LoadsAhead(i) \in Nat
      BY <1>2, <1>3, FenceIs
    <3>2. Len(q) \in Nat
      BY <1>3, LenProperties
    <3> HIDE DEF q, i
    <3> QED BY <3>1, <3>2
  <2> QED BY <1>2, <1>3, <2>1, OperandsArrive
<1>10. new \in [part : PartType, operand : PartType]
  BY <1>2, <1>6 DEF Part, PartType
<1>11. /\ out' = [out EXCEPT ![c] = Append(out[c], new)]
       /\ new.part = Part(t, i) /\ (OperandIssue > 0 => new.operand = Part(t, i))
  BY <1>4, <1>5, <1>6
<1> HIDE DEF new
<1>12. /\ epi' \in [Compute -> 0 .. EpiLoop - 1] /\ \A v \in Compute \ {c} : epi'[v] = epi[v]
       /\ ~last => epi'[c] = i + 1
       /\ last => epi'[c] = 0 /\ i = EpiLoop - 1
  BY <1>2, <1>7
<1>13. /\ epivmq' \in [Compute -> Seq(OpType)] /\ epivmq'[c] = AfterStore(c, i)
       /\ \A v \in Compute \ {c} : epivmq'[v] = epivmq[v]
       /\ operand' \in [Compute -> [Buffer -> PartType]]
  BY <1>3, <1>7, <1>8, <1>9
<1>14. /\ out' \in [Compute -> Seq([part : PartType, operand : PartType])]
       /\ out'[c] = Append(out[c], new) /\ Len(out'[c]) = Len(out[c]) + 1
       /\ out[c] \in Seq([part : PartType, operand : PartType])
       /\ \A v \in Compute \ {c} : out'[v] = out[v]
  <2> DEFINE R == [part : PartType, operand : PartType]
  <2>1. out \in [Compute -> Seq(R)] /\ new \in R /\ out[c] \in Seq(R)
    BY <1>3, <1>10
  <2> HIDE DEF R
  <2>2. Append(out[c], new) \in Seq(R) /\ Len(Append(out[c], new)) = Len(out[c]) + 1
    BY <2>1, AppendProperties
  <2>3. /\ out' \in [Compute -> Seq(R)] /\ out'[c] = Append(out[c], new)
        /\ \A v \in Compute \ {c} : out'[v] = out[v]
    BY <1>11, <2>1, <2>2
  <2> QED BY <2>1, <2>2, <2>3 DEF R
<1>15. Goto(c, IF last THEN "epi_end" ELSE "epi_next")
  BY <1>7
<1>16. /\ BlockTypes'
       /\ pc'[c] = (IF last THEN "epi_end" ELSE "epi_next")
       /\ \A v \in Waves \ {c} : pc'[v] = pc[v]
       /\ \A b \in Ebar \ {EpiBar(c)} : ebar'[b] = ebar[b]
  <2>1. (IF last THEN "epi_end" ELSE "epi_next") \in EpiPoint
    BY DEF EpiPoint
  <2>2. /\ region' \in [Compute -> PartType]
        /\ writing' \subseteq Compute /\ loading' \subseteq Compute
    BY <1>7 DEF BlockTypes
  <2> QED BY <1>7, <1>12, <1>13, <1>14, <1>15, <2>1, <2>2, EpilogueTypes
<1>17. OthersRest(c)
  BY <1>7, <1>12, <1>13, <1>14, <1>16 DEF OthersRest, UNCHANGEDpipeline
<1>18. Behind(c, m)'
  BY <1>2, <1>7, <1>16 DEF Behind, UNCHANGEDpipeline, EndPoints, EpiWork
<1>19. Written(c)' = i + 1 /\ Written(c) = i + 1 /\ Stored(c)' = i + 1
  BY <1>2, <1>12, <1>16 DEF Written, Stored
<1>20. BehindOK(c, m)'
  <2>1. acc'[c] = FirstTiles(t, NumIter)
    BY <1>3, <1>7 DEF UNCHANGEDpipeline
  <2>2. Len(out'[c]) = EpiLoop * (m - 1) + (i + 1)
    <3>1. EpiLoop * (m - 1) \in Nat
      BY <1>2, OutputNumbers
    <3> QED BY <1>2, <1>3, <1>14, <3>1
  <2>3. CASE last
    <3>1. pc'[c] = "epi_end" /\ epi'[c] = 0 /\ StoresOnly(epivmq'[c])
      BY <1>8, <1>12, <1>13, <1>16, <2>3
    <3> HIDE DEF i
    <3> QED BY <1>19, <2>1, <2>2, <3>1 DEF BehindOK, EpiWork, StoresOnly
  <2>4. CASE ~last
    <3>1. pc'[c] = "epi_next" /\ epi'[c] = i + 1 /\ PrefetchedFor(epivmq'[c], t, epi'[c]) /\ i + 1 > 0
      BY <1>2, <1>8, <1>12, <1>13, <1>16, <2>4
    <3>2. PrefetchedFor(epivmq[c], t, epi[c])'
      BY <3>1 DEF PrefetchedFor
    <3> HIDE DEF i
    <3> QED BY <1>19, <2>1, <2>2, <3>1, <3>2 DEF BehindOK, EpiWork
  <2> QED BY <2>3, <2>4
<1>21. RegionOK(c, m)'
  BY <1>2, <1>7, <1>16, <1>19 DEF RegionOK
<1>22. TeamBarrierOK(c)'
  <2>1. EpiLevel(c)' = EpiLevel(c)
    BY <1>2, <1>16, <1>19 DEF EpiLevel
  <2> QED BY <1>2, <1>7, <1>12, <1>17, <2>1, TeamGoesOn
<1>23. Between(m)'
  BY <1>12, <1>16, <1>17, <1>18, <1>20, <1>21, <1>22, OneRestless
<1>24. ASSUME NEW v \in Compute, NEW j \in DOMAIN out'[v]
       PROVE  /\ out'[v][j].part = PartOf(j)
              /\ OperandIssue > 0 => out'[v][j].operand = PartOf(j)
  <2>1. CASE v # c \/ j \in DOMAIN out[c]
    <3>1. j \in DOMAIN out[v] /\ out'[v][j] = out[v][j]
      <4>1. CASE v # c
        BY <1>14, <1>24, <4>1
      <4>2. CASE v = c /\ j \in DOMAIN out[c]
        BY <1>14, <4>2
      <4> QED BY <2>1, <4>1, <4>2
    <3> QED BY <3>1 DEF OutputInOrder, OperandsOfPart
  <2>2. CASE v = c /\ j \notin DOMAIN out[c]
    <3>1. j = Len(out[c]) + 1 /\ out'[v][j] = new
      BY <1>14, <1>24, <2>2
    <3>2. PartOf(j) = Part(t, i)
      <4>1. j = EpiLoop * (m - 1) + i + 1
        BY <1>3, <3>1
      <4> QED BY <1>2, <4>1, OutputNumbers
    <3> QED BY <1>11, <3>1, <3>2
  <2> QED BY <2>1, <2>2
<1>25. OutputInOrder' /\ OperandsOfPart'
  BY <1>24 DEF OutputInOrder, OperandsOfPart
<1> QED BY <1>16, <1>23, <1>25

(***************************************************************************)
(* From one tile to the next.                                              *)
(***************************************************************************)
\* A wave goes on to the block's next tile, or leaves.
LEMMA NextTileKeeps ==
  ASSUME BlockTypes, NEW m \in Nat, Between(m), NEW w \in Waves, NextTile(w)
  PROVE  BlockTypes' /\ Between(m)' /\ UNCHANGED out
<1> DEFINE t == TileAt(m)
<1>0. /\ \A v \in Compute : v \in Waves /\ v \notin Producer
      /\ \A p \in Producer : p \in Waves
      /\ \A v \in Waves : v \in Compute \/ v \in Producer
      /\ pc \in [Waves -> Point \union EpiPoint] /\ n \in [Waves -> Nat]
      /\ tile_idx \in [Waves -> Nat] /\ coffset \in [Producer -> Nat]
      /\ acc \in [Compute -> Seq(TileType)] /\ epi \in [Compute -> 0 .. EpiLoop - 1]
      /\ GridDim \in Nat
  BY Groups, TileNumbers DEF BlockTypes
<1>1. /\ pc[w] = EndOfTile(w) /\ \A b \in Ebar : w \notin ebar[b].waiting
  BY DEF NextTile, At
<1>2. /\ Behind(w, m) /\ m > 0 /\ m - 1 \in Nat /\ tile_idx[w] = TileAt(m - 1)
      /\ t = TileAt(m - 1) + GridDim /\ t \in Nat
  <2>1. pc[w] \notin {"entry", "exit"}
    BY <1>1 DEF EndOfTile
  <2> QED BY <2>1, IsBehind, TileNumbers
<1> HIDE DEF t
<1>3. /\ tile_idx' = [tile_idx EXCEPT ![w] = t] /\ pc' = [pc EXCEPT ![w] = TileEntry(w, t)]
      /\ n' = [n EXCEPT ![w] = 0] /\ FreshWindows(w)
      /\ acc' = [c \in Compute |-> IF c = w THEN <<>> ELSE acc[c]]
      /\ UNCHANGED <<vmq, lds, reading, ebar, epi, region, writing, loading, out, epivmq, operand>>
  BY <1>2 DEF NextTile, Goto, epiVars
<1>4. TileEntry(w, t) \in {"entry", "exit"}
  BY DEF TileEntry
<1>5. /\ pc' \in [Waves -> Point \union EpiPoint] /\ n' \in [Waves -> Nat]
      /\ tile_idx' \in [Waves -> Nat] /\ coffset' \in [Producer -> Nat]
      /\ acc' \in [Compute -> Seq(TileType)]
  <2>1. {"entry", "exit"} \subseteq Point \union EpiPoint
    BY DEF Point, EpiPoint
  <2>2. <<>> \in Seq(TileType)
    BY EmptySeq
  <2>3. acc' \in [Compute -> Seq(TileType)]
    BY <1>0, <1>3, <2>2
  <2> QED BY <1>0, <1>2, <1>3, <1>4, <2>1, <2>3 DEF FreshWindows
<1>6. BlockTypes'
  BY <1>3, <1>5 DEF BlockTypes
<1>7. /\ pc'[w] = TileEntry(w, t) /\ n'[w] = 0 /\ tile_idx'[w] = t
      /\ \A v \in Waves \ {w} : pc'[v] = pc[v] /\ n'[v] = n[v] /\ tile_idx'[v] = tile_idx[v]
      /\ \A c \in Compute \ {w} : acc'[c] = acc[c]
      /\ w \in Compute => acc'[w] = <<>>
      /\ \A p \in Producer \ {w} : coffset'[p] = coffset[p]
      /\ w \in Producer => coffset'[w] = 0
  BY <1>0, <1>3 DEF FreshWindows
<1>8. Arrived(w, m)' /\ ~Behind(w, m)'
  <2>1. Arrived(w, m)'
    BY <1>7 DEF Arrived, t
  <2>2. "entry" \notin EndPoints(w) /\ "exit" \notin EndPoints(w)
    BY DEF EndPoints, EpiWork
  <2> QED BY <1>4, <1>7, <2>1, <2>2 DEF Behind
<1>9. ASSUME NEW c \in Compute, c # w
      PROVE  /\ Arrived(c, m)' \/ Behind(c, m)'
             /\ ArrivedOK(c, m)' /\ BehindOK(c, m)' /\ RegionOK(c, m)'
  <2>1. /\ Arrived(c, m) \/ Behind(c, m)
        /\ ArrivedOK(c, m) /\ BehindOK(c, m) /\ RegionOK(c, m)
    BY <1>0 DEF Between
  <2>2. /\ pc'[c] = pc[c] /\ n'[c] = n[c] /\ tile_idx'[c] = tile_idx[c] /\ acc'[c] = acc[c]
        /\ reading'[c] = reading[c] /\ epi'[c] = epi[c] /\ region'[c] = region[c]
        /\ out'[c] = out[c] /\ epivmq'[c] = epivmq[c]
        /\ c \in writing' <=> c \in writing
        /\ c \in loading' <=> c \in loading
    BY <1>0, <1>3, <1>7, <1>9
  <2> QED BY <2>1, <2>2, Rests
<1>10. ASSUME w \in Compute
       PROVE  ArrivedOK(w, m)' /\ BehindOK(w, m)' /\ RegionOK(w, m)' /\ EpiLevel(w)' = EpiLevel(w)
  <2>1. pc[w] = "epi_end" /\ BehindOK(w, m) /\ RegionOK(w, m)
    BY <1>0, <1>1, <1>10 DEF EndOfTile, Between
  <2>2. Written(w)' = Written(w)
    BY <1>4, <1>7, <2>1 DEF Written
  <2>3. epi[w] = 0 /\ StoresOnly(epivmq[w]) /\ Len(out[w]) = EpiLoop * (m - 1) + EpiLoop
    BY <1>2, <2>1 DEF BehindOK, Stored
  <2>4. EpiLoop * m = EpiLoop * (m - 1) + EpiLoop
    BY <1>2, OutputNumbers
  <2>5. epi'[w] = 0 /\ StoresOnly(epivmq'[w]) /\ Len(out'[w]) = EpiLoop * m /\ acc'[w] = <<>>
    BY <1>3, <1>7, <1>10, <2>3, <2>4
  <2>6. ArrivedOK(w, m)'
    BY <2>5 DEF ArrivedOK, StoresOnly
  <2>7. BehindOK(w, m)'
    BY <1>8 DEF BehindOK
  <2>8. RegionOK(w, m)'
    BY <1>3, <2>1, <2>2 DEF RegionOK
  <2>9. EpiLevel(w)' = EpiLevel(w)
    BY <1>4, <1>7, <2>1, <2>2 DEF EpiLevel
  <2> QED BY <2>6, <2>7, <2>8, <2>9
<1>11. \A v \in Compute : EpiLevel(v)' = EpiLevel(v)
  <2> TAKE v \in Compute
  <2>1. CASE v = w
    BY <1>10, <2>1
  <2>2. CASE v # w
    BY <1>0, <1>3, <1>7, <2>2, OtherLevels
  <2> QED BY <2>1, <2>2
<1>12. ASSUME NEW c \in Compute PROVE TeamBarrierOK(c)'
  <2>1. TeamBarrierOK(c)
    BY DEF Between
  <2>2. \A v \in AheadOf(TeamLevels(c)) : v \in Team(c) /\ v \in Waves
    BY <1>0, Teams DEF AheadOf, TeamLevels
  <2>3. w \notin AheadOf(TeamLevels(c))
    <3> SUFFICES ASSUME w \in AheadOf(TeamLevels(c)) PROVE FALSE
      OBVIOUS
    <3>1. w \in Compute /\ c \in Team(w) /\ Team(w) = Team(c) /\ TeamBarrierOK(w)
      BY <2>1, <2>2, Teams, TeamsShare
    <3>2. TeamLevels(w) = TeamLevels(c)
      BY <3>1 DEF TeamLevels
    <3> QED BY <1>0, <1>1, <3>1, <3>2, TeamUnstalled
  <2>4. \A v \in AheadOf(TeamLevels(c)) : pc'[v] = pc[v]
    BY <1>7, <2>2, <2>3
  <2>5. \A v \in Team(c) : EpiLevel(v)' = EpiLevel(v)
    BY <1>11, Teams
  <2>6. ebar'[EpiBar(c)] = ebar[EpiBar(c)] /\ epi' \in [Compute -> 0 .. EpiLoop - 1]
    BY <1>0, <1>3
  <2> QED BY <1>0, <2>1, <2>4, <2>5, <2>6, TeamSame
<1>13. ASSUME NEW p \in Producer
       PROVE  /\ Arrived(p, m)' \/ Behind(p, m)'
              /\ vmq'[p] = <<>> /\ (Arrived(p, m)' => coffset'[p] = 0)
  <2>1. vmq'[p] = <<>>
    BY <1>3 DEF Between
  <2>2. CASE p = w
    BY <1>7, <1>8, <2>1, <2>2
  <2>3. CASE p # w
    <3>1. (Arrived(p, m)' <=> Arrived(p, m)) /\ (Behind(p, m)' <=> Behind(p, m))
      BY <1>0, <1>7, <2>3 DEF Arrived, Behind
    <3> QED BY <1>0, <1>7, <2>1, <2>3, <3>1 DEF Between
  <2> QED BY <2>2, <2>3
<1>14. \A c \in Compute : ArrivedOK(c, m)' /\ BehindOK(c, m)' /\ RegionOK(c, m)' /\ reading'[c] = {}
  BY <1>3, <1>9, <1>10 DEF Between
<1>15. \A v \in Waves : Arrived(v, m)' \/ Behind(v, m)'
  BY <1>0, <1>8, <1>9, <1>13
<1>16. \A b \in Ebar \ {"load_sh", "load_pr_major"} : ebar'[b] = FreeSlot
  BY <1>3 DEF Between
<1>17. Between(m)'
  BY <1>12, <1>13, <1>14, <1>15, <1>16 DEF Between
<1> QED BY <1>3, <1>6, <1>17

\* Waves of a warp group that all have used the barrier equally often.
LEMMA TeamIsEven ==
  ASSUME epi \in [Compute -> 0 .. EpiLoop - 1], NEW c \in Compute,
         \A v \in Compute : EpiLevel(v) = EpiLevel(c)
  PROVE  /\ SlotFor(TeamLevels(c), Team(c)) = FreeSlot
         /\ ebar[EpiBar(c)] = FreeSlot => TeamBarrierOK(c)
<1>1. /\ TeamLevels(c) \in [Team(c) -> Nat]
      /\ \A v \in Team(c) : TeamLevels(c)[v] = EpiLevel(v)
  BY LevelsOfTeams
<1>2. \A v \in Team(c) : TeamLevels(c)[v] = EpiLevel(c)
  BY <1>1, Teams
<1> DEFINE f == TeamLevels(c)
           P == Team(c)
<1>3. f \in [P -> Nat] /\ \A v, u \in P : f[v] = f[u]
  BY <1>1, <1>2
<1>4. ebar[EpiBar(c)] = SlotFor(f, P) /\ Close(f)
      /\ (\A v \in AheadOf(f) : pc[v] \in {"epi_write", "epi_read"}) => TeamBarrierOK(c)
  BY DEF TeamBarrierOK
<1> HIDE DEF f, P
<1>5. AheadOf(f) = {} /\ Close(f) /\ SlotFor(f, P) = FreeSlot
  BY <1>3, EvenSlot
<1> QED BY <1>4, <1>5 DEF f, P

\* The work group starts before its first tile.
LEMMA BetweenInit == PInit => BlockTypes /\ Between(0) /\ OutputInOrder /\ OperandsOfPart
<1> SUFFICES ASSUME PInit PROVE BlockTypes /\ Between(0) /\ OutputInOrder /\ OperandsOfPart
  OBVIOUS
<1> DEFINE t == TileAt(0)
           start == TileEntry(<<"producer", 1>>, t)
<1>0. /\ \A v \in Compute : v \in Waves /\ v \notin Producer
      /\ \A p \in Producer : p \in Waves
      /\ EpiLoop \in Nat \ {0} /\ EpiLoop * 0 = 0 /\ BlockId \in Nat /\ t = BlockId
  BY Groups, OutputNumbers, TileNumbers
<1>1. /\ \A w : TileEntry(w, t) = start
      /\ start \in {"entry", "exit"}
      /\ start = IF BlockId < NumTiles THEN "entry" ELSE "exit"
  BY <1>0 DEF TileEntry
<1> HIDE DEF start
<1>2. /\ pc = [w \in Waves |-> start] /\ n = [w \in Waves |-> 0]
      /\ tile_idx = [w \in Waves |-> BlockId] /\ coffset = [p \in Producer |-> 0]
      /\ StagesInit /\ acc = [c \in Compute |-> <<>>] /\ ebar = [b \in Ebar |-> FreeSlot]
      /\ epi = [c \in Compute |-> 0] /\ region = [c \in Compute |-> NoPart]
      /\ writing = {} /\ loading = {} /\ out = [c \in Compute |-> <<>>]
      /\ epivmq = [c \in Compute |-> <<>>]
      /\ operand = [c \in Compute |-> [b \in Buffer |-> NoPart]]
  BY <1>1 DEF PInit, StartOf
<1>3. start \in Point \union EpiPoint
  BY <1>1 DEF Point, EpiPoint
<1>4. FreeSlot \in EbarSlot
  BY DEF FreeSlot, EbarSlot
<1>5. \A S : <<>> \in Seq(S)
  OBVIOUS
<1>6. BlockTypes
  <2>1. /\ pc \in [Waves -> Point \union EpiPoint] /\ n \in [Waves -> Nat]
        /\ tile_idx \in [Waves -> Nat] /\ coffset \in [Producer -> Nat]
    BY <1>0, <1>2, <1>3
  <2>2. /\ vmq \in [Producer -> Seq(LoadType)] /\ lds \in [Slot -> [Producer -> TileType]]
        /\ reading \in [Compute -> SUBSET Slot] /\ acc \in [Compute -> Seq(TileType)]
        /\ ebar \in [Ebar -> EbarSlot]
    BY <1>2, <1>4, <1>5 DEF StagesInit, TileType
  <2>3. /\ epi \in [Compute -> 0 .. EpiLoop - 1] /\ region \in [Compute -> PartType]
        /\ writing \subseteq Compute /\ loading \subseteq Compute
        /\ operand \in [Compute -> [Buffer -> PartType]]
    BY <1>0, <1>2 DEF PartType
  <2>4. /\ out \in [Compute -> Seq([part : PartType, operand : PartType])]
        /\ epivmq \in [Compute -> Seq(OpType)]
    BY <1>2, <1>5
  <2> QED BY <2>1, <2>2, <2>3, <2>4 DEF BlockTypes
<1>7. \A w \in Waves : Arrived(w, 0)
  BY <1>0, <1>1, <1>2 DEF Arrived
<1>8. \A p \in Producer : vmq[p] = <<>> /\ coffset[p] = 0
  BY <1>2 DEF StagesInit
<1>9. ASSUME NEW c \in Compute
      PROVE  ArrivedOK(c, 0) /\ BehindOK(c, 0) /\ RegionOK(c, 0) /\ reading[c] = {}
  <2>1. ArrivedOK(c, 0)
    BY <1>0, <1>2 DEF ArrivedOK, StoresOnly
  <2>2. BehindOK(c, 0)
    BY DEF BehindOK, Behind
  <2>3. RegionOK(c, 0)
    BY <1>2 DEF RegionOK
  <2> QED BY <1>2, <2>1, <2>2, <2>3 DEF StagesInit
<1>10. ASSUME NEW c \in Compute PROVE TeamBarrierOK(c)
  <2>1. \A v \in Compute : EpiLevel(v) = 2 * EpiLoop
    BY <1>0, <1>1, <1>2 DEF EpiLevel, Written
  <2>2. ebar[EpiBar(c)] = FreeSlot
    BY <1>2, Teams
  <2>3. epi \in [Compute -> 0 .. EpiLoop - 1]
    BY <1>6 DEF BlockTypes
  <2> QED BY <2>1, <2>2, <2>3, TeamIsEven
<1>11. Between(0)
  BY <1>2, <1>7, <1>8, <1>9, <1>10 DEF Between
<1>12. OutputInOrder /\ OperandsOfPart
  BY <1>2 DEF OutputInOrder, OperandsOfPart
<1> QED BY <1>6, <1>11, <1>12

\* The wave's epilogue rests during the pipeline of a tile.
EpilogueRests(m) ==
  /\ writing = {} /\ loading = {}
  /\ \A c \in Compute : epi[c] = 0 /\ Len(out[c]) = EpiLoop * m /\ StoresOnly(epivmq[c])

\* The pipeline leaves the barriers and LDS to the epilogue.
LEMMA LeavesToEpilogue ==
  ASSUME BlockTypes', NEW m \in Nat, Leaving(TileAt(m))', EpilogueRests(m)'
  PROVE  Between(m + 1)'
<1> DEFINE t == TileAt(m)
           m1 == m + 1
<1>0. /\ \A v \in Compute : v \in Waves /\ v \notin Producer
      /\ \A p \in Producer : p \in Waves
      /\ m1 \in Nat /\ m1 > 0 /\ m1 - 1 = m
      /\ epi' \in [Compute -> 0 .. EpiLoop - 1] /\ EpiLoop \in Nat
  BY Groups, OutputNumbers DEF BlockTypes
<1>1. /\ \A w \in Waves : pc'[w] = "done" /\ tile_idx'[w] = t
      /\ \A p \in Producer : vmq'[p] = <<>>
      /\ \A c \in Compute : reading'[c] = {} /\ acc'[c] = FirstTiles(t, NumIter)
      /\ \A b \in Ebar : ebar'[b] = FreeSlot
  BY DEF Leaving
<1>2. /\ writing' = {} /\ loading' = {}
      /\ \A c \in Compute : epi'[c] = 0 /\ Len(out'[c]) = EpiLoop * m /\ StoresOnly(epivmq[c])'
  BY DEF EpilogueRests
<1> HIDE DEF m1
<1>3. \A w \in Waves : Behind(w, m1)' /\ ~Arrived(w, m1)'
  BY <1>0, <1>1 DEF Behind, EndPoints, EpiWork, Arrived, TileEntry
<1>4. ASSUME NEW c \in Compute
      PROVE  ArrivedOK(c, m1)' /\ BehindOK(c, m1)' /\ RegionOK(c, m1)'
  <2>1. pc'[c] = "done" /\ epi'[c] = 0
    BY <1>0, <1>1, <1>2
  <2>2. Written(c)' = 0 /\ Stored(c)' = 0
    BY <2>1 DEF Written, Stored
  <2>3. ArrivedOK(c, m1)'
    BY <1>0, <1>3 DEF ArrivedOK
  <2>4. Len(out'[c]) = EpiLoop * (m1 - 1) + 0
    <3>1. EpiLoop * m \in Nat
      BY OutputNumbers
    <3> QED BY <1>0, <1>2, <3>1
  <2>5. acc'[c] = FirstTiles(TileAt(m1 - 1), NumIter)
    BY <1>0, <1>1
  <2>6. BehindOK(c, m1)'
    BY <1>2, <2>1, <2>2, <2>4, <2>5 DEF BehindOK, EpiWork
  <2>7. RegionOK(c, m1)'
    BY <1>2, <2>2 DEF RegionOK
  <2> QED BY <2>3, <2>6, <2>7
<1>5. ASSUME NEW c \in Compute PROVE TeamBarrierOK(c)'
  <2>1. \A v \in Compute : EpiLevel(v)' = 0
    BY <1>0, <1>1, <1>2 DEF EpiLevel, Written
  <2>2. /\ TeamLevels(c)' \in [Team(c) -> Nat]
        /\ \A v \in Team(c) : TeamLevels(c)'[v] = EpiLevel(v)'
    BY <1>0, LevelsAfterStep
  <2>3. \A v \in Team(c) : TeamLevels(c)'[v] = 0
    BY <2>1, <2>2, Teams
  <2>4. ebar'[EpiBar(c)] = FreeSlot
    BY <1>1, Teams
  <2> DEFINE f == TeamLevels(c)'
             P == Team(c)
  <2>5. f \in [P -> Nat] /\ \A v, u \in P : f[v] = f[u]
    BY <2>2, <2>3
  <2>6. ebar'[EpiBar(c)] = SlotFor(f, P) /\ Close(f)
        /\ (\A v \in AheadOf(f) : pc'[v] \in {"epi_write", "epi_read"}) => TeamBarrierOK(c)'
    BY DEF TeamBarrierOK
  <2> HIDE DEF f, P
  <2>7. AheadOf(f) = {} /\ Close(f) /\ SlotFor(f, P) = FreeSlot
    BY <2>5, EvenSlot
  <2> QED BY <2>4, <2>6, <2>7
<1>6. \A p \in Producer : vmq'[p] = <<>> /\ (Arrived(p, m1)' => coffset'[p] = 0)
  BY <1>0, <1>1, <1>3
<1>7. Between(m1)'
  BY <1>1, <1>3, <1>4, <1>5, <1>6 DEF Between
<1> QED BY <1>7 DEF m1

(***************************************************************************)
(* A step of the pipeline.                                                 *)
(***************************************************************************)
\* The epilogue's variables rest in it.
LEMMA PipelineTypes ==
  ASSUME BlockTypes, TypeInv', UNCHANGED epiVars
  PROVE  BlockTypes'
<1>1. /\ pc' \in [Waves -> Point] /\ n' \in [Waves -> Nat] /\ tile_idx' \in [Waves -> Nat]
      /\ coffset' \in [Producer -> Nat] /\ vmq' \in [Producer -> Seq(LoadType)]
      /\ lds' \in [Slot -> [Producer -> TileType]] /\ reading' \in [Compute -> SUBSET Slot]
      /\ acc' \in [Compute -> Seq(TileType)] /\ ebar' \in [Ebar -> EbarSlot]
  BY DEF TypeInv, TypeOK, LoadType, TileType, EbarSlot
<1>2. pc' \in [Waves -> Point \union EpiPoint]
  BY <1>1
<1> QED BY <1>1, <1>2 DEF BlockTypes, epiVars

\* When all waves have arrived at the tile, the pipeline finds LDS and the
\* barriers as at the start of the kernel.
LEMMA AllArrived ==
  ASSUME BlockTypes, NEW m \in Nat, Between(m), \A w \in Waves : pc[w] = "entry"
  PROVE  TypeInv /\ Entering(TileAt(m)) /\ EpilogueRests(m)
<1>0. /\ \A c \in Compute : c \in Waves
      /\ \A p \in Producer : p \in Waves
      /\ epi \in [Compute -> 0 .. EpiLoop - 1] /\ EpiLoop \in Nat
      /\ writing \subseteq Compute /\ loading \subseteq Compute
  BY Groups, OutputNumbers DEF BlockTypes
<1>1. \A w \in Waves : Arrived(w, m)
  BY DEF Between, Behind, EndPoints, EpiWork
<1>2. \A w \in Waves : pc[w] = "entry" /\ n[w] = 0 /\ tile_idx[w] = TileAt(m)
  BY <1>1 DEF Arrived
<1>3. \A p \in Producer : coffset[p] = 0 /\ vmq[p] = <<>>
  BY <1>0, <1>1 DEF Between
<1>4. \A c \in Compute :
        /\ reading[c] = {} /\ acc[c] = <<>>
        /\ epi[c] = 0 /\ Len(out[c]) = EpiLoop * m /\ StoresOnly(epivmq[c])
  BY <1>0, <1>1 DEF Between, ArrivedOK
<1>5. writing = {} /\ loading = {}
  BY <1>0 DEF Between, RegionOK
<1>6. ASSUME NEW c \in Compute PROVE ebar[EpiBar(c)] = FreeSlot
  <2>1. \A v \in Compute : EpiLevel(v) = EpiLevel(c)
    BY <1>0 DEF EpiLevel, Written
  <2>2. SlotFor(TeamLevels(c), Team(c)) = FreeSlot
    BY <1>0, <2>1, TeamIsEven
  <2> QED BY <2>2 DEF Between, TeamBarrierOK
<1>7. \A b \in Ebar : ebar[b] = FreeSlot
  <2>1. /\ <<"major", 1>> \in Major /\ <<"minor", 1>> \in Minor
        /\ <<"major", 1>> \in Compute /\ <<"minor", 1>> \in Compute
        /\ <<"minor", 1>> \notin Major
    BY StagesAssumption, Groups DEF Major, Minor, Wave
  <2>2. EpiBar(<<"major", 1>>) = "load_sh" /\ EpiBar(<<"minor", 1>>) = "load_pr_major"
    BY <2>1 DEF EpiBar
  <2>3. ebar["load_sh"] = FreeSlot /\ ebar["load_pr_major"] = FreeSlot
    BY <1>6, <2>1, <2>2
  <2>4. \A b \in Ebar \ {"load_sh", "load_pr_major"} : ebar[b] = FreeSlot
    BY DEF Between
  <2> QED BY <2>3, <2>4
<1>8. TypeInv
  <2>1. pc \in [Waves -> Point]
    BY <1>2 DEF BlockTypes, Point
  <2>2. InitialStages
    BY <1>0, <1>2 DEF InitialStages
  <2> QED BY <2>1, <2>2 DEF TypeInv, TypeOK, BlockTypes, LoadType, TileType, EbarSlot
<1>9. Entering(TileAt(m))
  BY <1>2, <1>3, <1>4, <1>7 DEF Entering
<1>10. EpilogueRests(m)
  BY <1>4, <1>5 DEF EpilogueRests
<1> QED BY <1>8, <1>9, <1>10

\* Between the pipelines only the work group barrier can let the waves into
\* the next one, and only when all have arrived.
LEMMA OnlyEntry ==
  ASSUME BlockTypes, NEW m \in Nat, Between(m), PipelineStep
  PROVE  WgSync /\ \A w \in Waves : pc[w] = "entry"
<1>1. \A w \in Waves :
        pc[w] \in EpiWork \union {"entry", "exit", "done", "epi_end"}
  BY DEF Between, Arrived, TileEntry, Behind, EndPoints
<1>2. \A p \in Producer : p \in Waves /\ vmq[p] = <<>>
  BY Groups DEF Between
<1>3. \A c \in Compute : c \in Waves
  BY Groups
<1>4. \A p \in Producer : ~(ProducerStep(p) \/ Land(p))
  BY <1>1, <1>2 DEF EpiWork, ProducerStep, IssueInitial, NotifyFirstSh,
     NotifyFirstPrMajor, NotifyPrMinor, AwaitFreeSh, AwaitFreePrMajor, IssueShPrMajor,
     AwaitFreePrMinor, IssuePrMinor, NotifySh, NotifyPrMajor, At, Land, LandOldest
<1>5. \A c \in Compute : ~(MajorStep(c) \/ MinorStep(c))
  BY <1>1, <1>3 DEF EpiWork, MajorStep, MinorStep, AwaitSh, AwaitPrMajor, ReadMajor,
     AwaitPrMinor, ReadMinor, FenceAndFreeSh, FreePrivate, At
<1>6. WgSync
  BY <1>4, <1>5, Groups DEF PipelineStep
<1>7. \A w \in Waves : pc[w] = "entry"
  BY <1>1, <1>6 DEF WgSync, EpiWork
<1> QED BY <1>6, <1>7

\* They go into the pipeline.
LEMMA EntersTile ==
  ASSUME BlockTypes, NEW m \in Nat, Between(m), PipelineStep, UNCHANGED epiVars
  PROVE  BlockTypes' /\ InPipeline(m)'
<1>1. WgSync /\ \A w \in Waves : pc[w] = "entry"
  BY OnlyEntry
<1>2. TypeInv /\ Entering(TileAt(m)) /\ EpilogueRests(m)
  BY <1>1, AllArrived
<1>3. TypeInv'
  BY <1>2, TypeNext DEF Next
<1>4. Iterating(TileAt(m), 0)'
  BY <1>1, <1>2, Enters
<1>5. 0 \in 0 .. NumIter - 1
  BY LoopNumbers DEF LoopShape
<1>6. EpilogueRests(m)'
  BY <1>2 DEF EpilogueRests, StoresOnly, epiVars
<1>7. BlockTypes'
  BY <1>3, PipelineTypes
<1> QED BY <1>3, <1>4, <1>5, <1>6, <1>7 DEF InPipeline, EpilogueRests

\* They go on in it, or leave it.
LEMMA PipelineGoesOn ==
  ASSUME BlockTypes, NEW m \in Nat, InPipeline(m), PipelineStep, UNCHANGED epiVars
  PROVE  BlockTypes' /\ (InPipeline(m)' \/ Between(m + 1)')
<1>1. TypeInv' /\ BlockTypes'
  <2>1. TypeInv'
    BY TypeNext DEF Next, InPipeline
  <2> QED BY <2>1, PipelineTypes
<1>2. EpilogueRests(m)'
  BY DEF InPipeline, EpilogueRests, StoresOnly, epiVars
<1>3. PICK k \in 0 .. NumIter - 1 : Iterating(TileAt(m), k)
  BY DEF InPipeline
<1>4. Leaving(TileAt(m))' \/ \E j \in 0 .. NumIter - 1 : Iterating(TileAt(m), j)'
  BY <1>3, IterationStep DEF InPipeline
<1>5. CASE Leaving(TileAt(m))'
  BY <1>1, <1>2, <1>5, LeavesToEpilogue
<1>6. CASE \E j \in 0 .. NumIter - 1 : Iterating(TileAt(m), j)'
  BY <1>1, <1>2, <1>6 DEF InPipeline, EpilogueRests
<1> QED BY <1>1, <1>4, <1>5, <1>6

\* In the pipeline no wave is in its epilogue, nor goes on to the next tile.
LEMMA OnlyPipeline ==
  ASSUME NEW m \in Nat, InPipeline(m)
  PROVE  /\ \A w \in Waves : pc[w] \in ProgramPoint(w)
         /\ \A c \in Compute : ~EpilogueStep(c)
         /\ \A w \in Waves : ~NextTile(w)
<1>1. \A w \in Waves : pc[w] \in ProgramPoint(w)
  BY DEF InPipeline, Iterating, Walking, PointOK
<1>2. \A w \in Waves : pc[w] \notin EpiWork \union {"done", "epi_end", "exit"}
  BY <1>1 DEF ProgramPoint, EpiWork
<1>3. \A c \in Compute : c \in Waves
  BY Groups
<1> QED BY <1>1, <1>2, <1>3 DEF EpilogueStep, GuardWrite, WriteRegion, GuardRead, ReadRegion,
        StoreOut, NextTile, EndOfTile, At, EpiWork

\* The block waits.
LEMMA BetweenStays ==
  ASSUME NEW m \in Nat, BlockTypes, Between(m), UNCHANGED pvars
  PROVE  Between(m)'
<1>0. /\ \A c \in Compute : c \in Waves
      /\ \A p \in Producer : p \in Waves
      /\ epi \in [Compute -> 0 .. EpiLoop - 1]
  BY Groups DEF BlockTypes
<1>1. /\ UNCHANGED <<pc, n, tile_idx, coffset, vmq, lds, reading, acc, ebar>>
      /\ UNCHANGED <<epi, region, writing, loading, out, epivmq, operand>>
  BY DEF pvars, vars, epiVars
<1>2. \A w \in Waves : (Arrived(w, m)' <=> Arrived(w, m)) /\ (Behind(w, m)' <=> Behind(w, m))
  BY <1>1 DEF Arrived, Behind
<1>3. ASSUME NEW c \in Compute PROVE ArrivedOK(c, m)' /\ BehindOK(c, m)' /\ RegionOK(c, m)'
  <2>1. ArrivedOK(c, m) /\ BehindOK(c, m) /\ RegionOK(c, m)
    BY DEF Between
  <2>2. /\ pc'[c] = pc[c] /\ n'[c] = n[c] /\ tile_idx'[c] = tile_idx[c] /\ acc'[c] = acc[c]
        /\ reading'[c] = reading[c] /\ epi'[c] = epi[c] /\ region'[c] = region[c]
        /\ out'[c] = out[c] /\ epivmq'[c] = epivmq[c]
        /\ c \in writing' <=> c \in writing
        /\ c \in loading' <=> c \in loading
    BY <1>1
  <2> QED BY <2>1, <2>2, Rests
<1>4. ASSUME NEW c \in Compute PROVE TeamBarrierOK(c)'
  <2>1. TeamBarrierOK(c) /\ ebar'[EpiBar(c)] = ebar[EpiBar(c)]
    BY <1>1 DEF Between
  <2>2. \A v \in Team(c) : EpiLevel(v)' = EpiLevel(v)
    BY <1>1 DEF EpiLevel, Written
  <2>3. \A v \in AheadOf(TeamLevels(c)) : pc'[v] = pc[v]
    BY <1>1
  <2>4. epi' \in [Compute -> 0 .. EpiLoop - 1]
    BY <1>0, <1>1
  <2> QED BY <1>0, <2>1, <2>2, <2>3, <2>4, TeamSame
<1> QED BY <1>0, <1>1, <1>2, <1>3, <1>4 DEF Between

\* So it does in the pipeline.
LEMMA PipelineStays ==
  ASSUME NEW m \in Nat, InPipeline(m), UNCHANGED pvars
  PROVE  InPipeline(m)'
<1>1. UNCHANGED vars /\ UNCHANGED <<epi, writing, loading, out, epivmq>>
  BY DEF pvars, epiVars
<1>2. TypeInv'
  BY <1>1, TypeNext DEF InPipeline
<1>3. \E k \in 0 .. NumIter - 1 : Iterating(TileAt(m), k)'
  BY <1>1, IterationStays DEF InPipeline
<1> QED BY <1>1, <1>2, <1>3 DEF InPipeline, StoresOnly

\* What does not depend on the phase of the tile loop.
LEMMA BlockStays ==
  ASSUME BlockTypes, UNCHANGED pvars
  PROVE  BlockTypes'
BY DEF BlockTypes, pvars, vars, epiVars

\* What has been stored stays right.
LEMMA OutputStays ==
  ASSUME OutputInOrder, OperandsOfPart, UNCHANGED out
  PROVE  OutputInOrder' /\ OperandsOfPart'
BY DEF OutputInOrder, OperandsOfPart

\* The invariant of the block holds at the start, and every step keeps it.
LEMMA BlockInit == PInit => BlockInv
BY BetweenInit DEF BlockInv

LEMMA BlockNext == BlockInv /\ [PNext]_pvars => BlockInv'
<1> SUFFICES ASSUME BlockInv, [PNext]_pvars PROVE BlockInv'
  OBVIOUS
<1>0. BlockTypes /\ OutputInOrder /\ OperandsOfPart
  BY DEF BlockInv
<1>1. PICK m \in Nat : Between(m) \/ InPipeline(m)
  BY DEF BlockInv
<1>2. CASE UNCHANGED pvars
  <2>1. UNCHANGED out
    BY <1>2 DEF pvars, epiVars
  <2> QED BY <1>0, <1>1, <1>2, <2>1, BetweenStays, PipelineStays, BlockStays, OutputStays
          DEF BlockInv
<1>3. CASE PipelineStep /\ UNCHANGED epiVars
  <2>1. UNCHANGED out
    BY <1>3 DEF epiVars
  <2>2. OutputInOrder' /\ OperandsOfPart'
    BY <1>0, <2>1, OutputStays
  <2>3. m + 1 \in Nat
    BY <1>1
  <2>4. BlockTypes' /\ (InPipeline(m)' \/ Between(m + 1)')
    BY <1>0, <1>1, <1>3, EntersTile, PipelineGoesOn
  <2> QED BY <2>2, <2>3, <2>4 DEF BlockInv
<1>4. ASSUME NEW c \in Compute, EpilogueStep(c) PROVE BlockInv'
  <2>1. Between(m)
    BY <1>1, <1>4, OnlyPipeline
  <2>2. CASE StoreOut(c)
    BY <1>0, <2>1, <2>2, StoreOutKeeps DEF BlockInv
  <2>3. CASE ~StoreOut(c)
    <3>1. BlockTypes' /\ Between(m)' /\ UNCHANGED out
      BY <1>0, <1>4, <2>1, <2>3, GuardWriteKeeps, WriteRegionKeeps, GuardReadKeeps,
         ReadRegionKeeps DEF EpilogueStep
    <3> QED BY <1>0, <3>1, OutputStays DEF BlockInv
  <2> QED BY <2>2, <2>3
<1>5. ASSUME NEW w \in Waves, NextTile(w) PROVE BlockInv'
  <2>1. Between(m)
    BY <1>1, <1>5, OnlyPipeline
  <2>2. BlockTypes' /\ Between(m)' /\ UNCHANGED out
    BY <1>0, <1>5, <2>1, NextTileKeeps
  <2> QED BY <1>0, <2>2, OutputStays DEF BlockInv
<1> QED BY <1>2, <1>3, <1>4, <1>5 DEF PNext, Exited

\* The work group is always in the pipeline of one of the block's tiles, or
\* between two of them, with everything that entails.
THEOREM BlockInvariant == PSpec => []BlockInv
BY BlockInit, BlockNext, PTL DEF PSpec

(***************************************************************************)
(* What it says.                                                           *)
(***************************************************************************)
\* A compute wave's operations in flight are those of two parts at most.
LEMMA OpsInFlight ==
  ASSUME BlockInv, NEW c \in Compute
  PROVE  Len(epivmq[c]) <= NumPrefetch * OperandIssue + EpiLoop
<1>0. /\ epivmq[c] \in Seq(OpType) /\ epi[c] \in 0 .. EpiLoop - 1
      /\ EpiLoop \in Nat \ {0} /\ OperandIssue \in Nat /\ c \in Waves
  BY OutputNumbers, BufferNumbers, Groups DEF BlockInv, BlockTypes
<1>1. Len(epivmq[c]) \in Nat
  BY <1>0, LenProperties
<1>2. /\ NumPrefetch * OperandIssue \in Nat
      /\ \/ NumPrefetch * OperandIssue = OperandIssue /\ EpiLoop = 1
         \/ NumPrefetch * OperandIssue = OperandIssue + OperandIssue
  BY <1>0, BufferNumbers
<1>3. StoresOnly(epivmq[c]) \/ \E t : PrefetchedFor(epivmq[c], t, epi[c])
  <2>1. PICK m \in Nat : Between(m) \/ InPipeline(m)
    BY DEF BlockInv
  <2>2. CASE InPipeline(m)
    BY <2>2 DEF InPipeline
  <2>3. CASE Between(m)
    <3>1. /\ Arrived(c, m) => StoresOnly(epivmq[c])
          /\ Behind(c, m) => /\ pc[c] \in {"done", "epi_end"} => StoresOnly(epivmq[c])
                             /\ pc[c] \in EpiWork => PrefetchedFor(epivmq[c], TileAt(m - 1), epi[c])
      BY <2>3 DEF Between, ArrivedOK, BehindOK
    <3>2. Arrived(c, m) \/ Behind(c, m)
      BY <1>0, <2>3 DEF Between
    <3>3. Behind(c, m) => pc[c] \in {"done", "epi_end"} \/ pc[c] \in EpiWork
      BY DEF Behind, EndPoints
    <3> QED BY <3>1, <3>2, <3>3
  <2> QED BY <2>1, <2>2, <2>3
<1>4. CASE StoresOnly(epivmq[c])
  BY <1>0, <1>1, <1>2, <1>4 DEF StoresOnly
<1>5. ASSUME NEW t, PrefetchedFor(epivmq[c], t, epi[c])
      PROVE  Len(epivmq[c]) <= NumPrefetch * OperandIssue + EpiLoop
  <2>1. Len(epivmq[c]) - LoadsAhead(epi[c]) \in 0 .. OperandIssue + 1
    BY <1>5 DEF PrefetchedFor
  <2>2. /\ LoadsAhead(epi[c]) \in {0, OperandIssue}
        /\ EpiLoop = 1 => LoadsAhead(epi[c]) = 0
    BY <1>0 DEF LoadsAhead
  <2> QED BY <1>0, <1>1, <1>2, <2>1, <2>2
<1> QED BY <1>3, <1>4, <1>5

\* Every variable of the persistent kernel keeps its type; in particular a
\* wave's vector memory operations in flight are bounded.
THEOREM BlockTypeCorrect == PSpec => []PTypeOK
<1>1. BlockInv => PTypeOK
  BY OpsInFlight DEF BlockInv, BlockTypes, PTypeOK, PartType
<1> QED BY <1>1, BlockInvariant, PTL

\* The pipeline and the epilogue hand LDS to each other: while a wave accesses
\* its warp group's region, no load and no read of a stage is in flight.
THEOREM LdsHandedOver == PSpec => []LdsHandover
<1>1. BlockInv => LdsHandover
  BY DEF BlockInv, LdsHandover, Between, InPipeline
<1> QED BY <1>1, BlockInvariant, PTL

\* No wave writes to a region that is still being read, whatever the waves of
\* the warp group have done between its barriers.
THEOREM RegionsHandedOver == PSpec => []NoRegionRace
<1>1. BlockInv => NoRegionRace
  <2> SUFFICES ASSUME BlockInv PROVE NoRegionRace
    OBVIOUS
  <2>1. PICK m \in Nat : Between(m) \/ InPipeline(m)
    BY DEF BlockInv
  <2>2. InPipeline(m) => NoRegionRace
    BY DEF InPipeline, NoRegionRace
  <2> QED BY <2>1, <2>2, RegionsApart DEF BlockInv
<1> QED BY <1>1, BlockInvariant, PTL

\* Between the pipelines a barrier slot counts a warp group's epilogue.
LEMMA SlotsBetween ==
  ASSUME BlockTypes, NEW m \in Nat, Between(m), NEW b \in Ebar, NEW w \in ebar[b].waiting
  PROVE  ebar[b].expected = SubWGSize /\ pc[w] \in EpiPoint
<1>1. b \in {"load_sh", "load_pr_major"}
  BY DEF Between, FreeSlot
<1>2. PICK c \in Compute : EpiBar(c) = b
  <2>1. /\ <<"major", 1>> \in Major /\ <<"minor", 1>> \in Compute
        /\ <<"major", 1>> \in Compute /\ <<"minor", 1>> \notin Major
    BY StagesAssumption, Groups DEF Major, Minor, Wave
  <2> QED BY <1>1, <2>1 DEF EpiBar
<1>3. /\ ebar[b] = SlotFor(TeamLevels(c), Team(c))
      /\ \A v \in AheadOf(TeamLevels(c)) : pc[v] \in {"epi_write", "epi_read"}
  BY <1>2 DEF Between, TeamBarrierOK
<1>4. DOMAIN TeamLevels(c) = Team(c) /\ Cardinality(Team(c)) = SubWGSize
  BY Teams DEF TeamLevels
<1>5. AheadOf(TeamLevels(c)) # {} /\ w \in AheadOf(TeamLevels(c))
  BY <1>3 DEF SlotFor, FreeSlot
<1>6. ebar[b].expected = SubWGSize
  BY <1>3, <1>4, <1>5 DEF SlotFor
<1> QED BY <1>3, <1>5, <1>6 DEF EpiPoint

\* The waves that wait at a barrier slot wait for the same number of arrivals:
\* the epilogue joins no phase of the pipeline, nor the reverse.
THEOREM SlotsShared == PSpec => []SlotsAgree
<1>1. BlockInv => SlotsAgree
  <2> SUFFICES ASSUME BlockInv, NEW b \in Ebar, NEW w \in ebar[b].waiting
               PROVE  ebar[b].expected = IF pc[w] \in EpiPoint THEN SubWGSize ELSE WvCnt(b)
    BY DEF SlotsAgree
  <2>1. PICK m \in Nat : Between(m) \/ InPipeline(m)
    BY DEF BlockInv
  <2>2. CASE Between(m)
    BY <2>2, SlotsBetween DEF BlockInv
  <2>3. CASE InPipeline(m)
    <3>1. BarrierOK(b)
      BY <2>3 DEF InPipeline, Iterating, Walking
    <3> DEFINE f == Levels(b)
    <3>2. AheadOf(Levels(b)) # {} /\ w \in UserWaves(b)
      <4>1. ebar[b] = SlotFor(f, SyncWaves(b)) /\ DOMAIN f = UserWaves(b)
        BY <3>1 DEF BarrierOK, Levels
      <4> HIDE DEF f
      <4>2. AheadOf(f) # {} /\ w \in AheadOf(f)
        BY <4>1 DEF SlotFor, FreeSlot
      <4> QED BY <4>1, <4>2 DEF AheadOf, f
    <3>3. ebar[b].expected = Cardinality(UserWaves(b))
      BY <3>1, <3>2 DEF BarrierOK, SlotFor, Levels
    <3>4. w \in Waves /\ Cardinality(UserWaves(b)) = WvCnt(b)
      BY <3>2, Users
    <3>5. pc[w] \notin EpiPoint
      BY <2>3, <3>4, OnlyPipeline DEF ProgramPoint, EpiPoint
    <3> QED BY <3>3, <3>4, <3>5
  <2> QED BY <2>1, <2>2, <2>3
<1> QED BY <1>1, BlockInvariant, PTL

\* What a wave stores are the parts of the block's tiles, in order, read back
\* from a region that its whole warp group had written.
THEOREM PartsInOrder == PSpec => []OutputInOrder
<1>1. BlockInv => OutputInOrder
  BY DEF BlockInv
<1> QED BY <1>1, BlockInvariant, PTL

\* What it adds to a part are that part's bias and residual: the fence waits
\* for its loads, and the prefetch of the next part does not overwrite them.
THEOREM OperandsMatch == PSpec => []OperandsOfPart
<1>1. BlockInv => OperandsOfPart
  BY DEF BlockInv
<1> QED BY <1>1, BlockInvariant, PTL

\* A wave in its epilogue has summed the K tiles of its own output tile, each
\* once and in order, if the K loop has a main round besides its tail.
THEOREM SumsOwnTile == NumLoop > LoopUnroll => (PSpec => []SumIsOfTile)
<1> SUFFICES ASSUME NumLoop > LoopUnroll PROVE PSpec => []SumIsOfTile
  OBVIOUS
<1>1. NumIter = NumLoop
  BY LoopNumbers DEF LoopShape
<1>2. BlockInv => SumIsOfTile
  <2> SUFFICES ASSUME BlockInv, NEW c \in Compute, pc[c] \in EpiPoint \ {"exit"}
               PROVE  acc[c] = [k \in 1 .. NumLoop |-> Tile(tile_idx[c], k - 1)]
    BY DEF SumIsOfTile
  <2>1. PICK m \in Nat : Between(m) \/ InPipeline(m)
    BY DEF BlockInv
  <2>2. c \in Waves
    BY Groups
  <2>3. ~InPipeline(m)
    BY <2>2, OnlyPipeline DEF ProgramPoint, EpiPoint
  <2>4. pc[c] \notin {"entry", "exit"}
    BY DEF EpiPoint
  <2>5. Behind(c, m) /\ tile_idx[c] = TileAt(m - 1)
    BY <2>1, <2>2, <2>3, <2>4, IsBehind
  <2>6. acc[c] = FirstTiles(TileAt(m - 1), NumIter)
    BY <2>1, <2>3, <2>5 DEF Between, BehindOK
  <2> QED BY <1>1, <2>5, <2>6 DEF FirstTiles
<1> QED BY <1>2, BlockInvariant, PTL


\* Neither does a load of one tile's pipeline overtake a read of another's: the
\* stages are handed over from tile to tile, too.
THEOREM StagesHandedOverInBlock == PSpec => []NoLdsRace
<1>1. BlockInv => NoLdsRace
  <2> SUFFICES ASSUME BlockInv PROVE NoLdsRace
    OBVIOUS
  <2>1. PICK m \in Nat : Between(m) \/ InPipeline(m)
    BY DEF BlockInv
  <2>2. CASE Between(m)
    BY <2>2 DEF Between, NoLdsRace
  <2>3. CASE InPipeline(m)
    <3>1. PhaseInv(TileAt(m))
      BY <2>3 DEF InPipeline, PhaseInv
    <3> QED BY <3>1, PhaseReads
  <2> QED BY <2>1, <2>2, <2>3
<1> QED BY <1>1, BlockInvariant, PTL
=============================================================================
