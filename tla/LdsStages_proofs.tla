-------------------------- MODULE LdsStages_proofs --------------------------
(***************************************************************************)
(* What a producer wave's loads in flight tell about the LDS ring.         *)
(*                                                                         *)
(* The loads in flight are a tail of the sequence that the wave issues: K  *)
(* tile after K tile, operand after operand.  So a fence that leaves a     *)
(* number of loads in flight says which K tiles have landed.  The lemmas   *)
(* hold for every number of stages and load instructions, and for every    *)
(* order of the operands in a K tile.                                      *)
(***************************************************************************)
EXTENDS LdsStages, SequenceTheorems, TLAPS

(***************************************************************************)
(* Division with remainder by a variable divisor.                          *)
(***************************************************************************)
\* A number is divisor times quotient plus remainder.
LEMMA DivMod ==
  ASSUME NEW a \in Nat, NEW d \in Nat \ {0}
  PROVE  /\ a \div d \in Nat /\ a % d \in 0 .. d - 1
         /\ a = d * (a \div d) + (a % d)
<1>1. a \div d \in Nat /\ a % d \in 0 .. d - 1
  OBVIOUS
<1>2. a = d * (a \div d) + (a % d)
  BY Z3
<1> QED BY <1>1, <1>2

\* Quotient and remainder are unique.
LEMMA DivModUnique ==
  ASSUME NEW d \in Nat \ {0}, NEW q \in Nat, NEW r \in 0 .. d - 1
  PROVE  (d * q + r) \div d = q /\ (d * q + r) % d = r
OBVIOUS

\* Adding the divisor keeps the remainder.
LEMMA PlusMod ==
  ASSUME NEW a \in Nat, NEW d \in Nat \ {0}
  PROVE  (a + d) % d = a % d
<1> DEFINE q == a \div d
           r == a % d
<1>1. q \in Nat /\ r \in 0 .. d - 1 /\ a = d * q + r
  BY DivMod
<1> HIDE DEF q, r
<1>2. a + d = d * (q + 1) + r
  BY <1>1
<1>3. (d * (q + 1) + r) % d = r
  BY <1>1, DivModUnique
<1> QED BY <1>2, <1>3 DEF r

\* A number below the divisor is its own remainder.
LEMMA SmallMod ==
  ASSUME NEW d \in Nat \ {0}, NEW a \in 0 .. d - 1
  PROVE  a % d = a
OBVIOUS

\* A remainder of a number is below the divisor and not above the number.
LEMMA ModRange ==
  ASSUME NEW d \in Nat \ {0}, NEW a \in Nat
  PROVE  a % d \in 0 .. d - 1 /\ a % d <= a
OBVIOUS

\* Two numbers less than d apart with the same remainder are equal.
LEMMA SameResidue ==
  ASSUME NEW a \in Nat, NEW b \in Nat, NEW d \in Nat \ {0},
         a % d = b % d, b <= a, a < b + d
  PROVE  a = b
<1> DEFINE qa == a \div d
           qb == b \div d
           r == b % d
<1>1. /\ qa \in Nat /\ a = d * qa + r
      /\ qb \in Nat /\ b = d * qb + r /\ r \in 0 .. d - 1
  BY DivMod
<1> HIDE DEF qa, qb, r
<1>2. qa > qb => d * qa >= d * qb + d
  BY <1>1
<1>3. qb > qa => d * qb >= d * qa + d
  BY <1>1
<1> QED BY <1>1, <1>2, <1>3

\* A product with a positive factor keeps the order.
LEMMA ProductOrder ==
  ASSUME NEW d \in Nat \ {0}, NEW a \in Int, NEW b \in Int
  PROVE  /\ a < b <=> a * d < b * d
         /\ a <= b <=> a * d <= b * d
<1>1. a < b => a * d < b * d
  OBVIOUS
<1>2. b < a => b * d < a * d
  OBVIOUS
<1> QED BY <1>1, <1>2

(***************************************************************************)
(* The queue of a producer wave.                                           *)
(***************************************************************************)
LoadType == [slot : Slot, tile : Nat \X Nat]
TileType == {NoTile} \union (Nat \X Nat)

\* an instruction that loads operand o of K tile b, with st stages
LoadOf(o, b, t, st) == [slot |-> <<o, b % st>>, tile |-> Tile(t, b)]

\* the k-th instruction issued is not behind operand o of K tile b, where
\* end[o] instructions of a K tile are issued up to the last one of operand o
InPlace(k, o, b, end) == k <= b * TileIssueCnt + end[o]

\* The loads of q are of the K tiles from lo up to top, by operand; with
\* "issued" instructions issued in all, each is at a place in the sequence
\* that is not behind its operand of its K tile.
Ordered(q, issued, t, lo, top, st, end) ==
  \A j \in 1 .. Len(q) : \E o \in Operand, b \in Nat :
    /\ q[j] = LoadOf(o, b, t, st)
    /\ lo[o] <= b /\ b <= top[o]
    /\ InPlace(issued - Len(q) + j, o, b, end)

OnTheWay(q, slot) == \E j \in 1 .. Len(q) : q[j].slot = slot

\* The last K tiles issued for an operand are in their slots or on the way.
Filled(q, l, p, t, top, st) ==
  \A o \in Operand, b \in Nat :
    top[o] - st < b /\ b <= top[o] =>
      OnTheWay(q, <<o, b % st>>) \/ l[<<o, b % st>>][p] = Tile(t, b)

\* all of it
Queue(q, l, p, t, issued, lo, top, st, end) ==
  /\ q \in Seq(LoadType)
  /\ Ordered(q, issued, t, lo, top, st, end)
  /\ Filled(q, l, p, t, top, st)

(***************************************************************************)
(* Waves, operands and slots.                                              *)
(***************************************************************************)
\* The warp groups have no wave in common.
LEMMA Groups ==
  /\ Waves = Producer \union Compute /\ Compute = Major \union Minor
  /\ \A w \in Compute : w \notin Producer
  /\ \A w \in Minor : w \notin Major
BY DEF Waves, Compute, Producer, Major, Minor, Wave

\* There is a producer wave.
LEMMA SomeProducer == <<"producer", 1>> \in Producer
BY StagesAssumption DEF Producer, Wave

\* Operands and instructions of a K tile.
LEMMA Counts ==
  /\ \A o \in Operand : IssueCnt[o] \in Nat \ {0}
  /\ TileIssueCnt \in Nat \ {0}
  /\ TileIssueCnt = IssueCnt["sh"] + IssueCnt["pr_major"] + IssueCnt["pr_minor"]
  /\ {"sh", "pr_major", "pr_minor"} = Operand
<1>1. \A o \in Operand : IssueCnt[o] \in Nat \ {0}
  BY StagesAssumption
<1>2. "sh" \in Operand /\ "pr_major" \in Operand /\ "pr_minor" \in Operand
  BY DEF Operand
<1> QED BY <1>1, <1>2 DEF TileIssueCnt, Operand

\* The slots of the stages.
LEMMA SlotOf ==
  ASSUME NEW o \in Operand, NEW b \in Nat, NEW st \in 1 .. NumLdsStages
  PROVE  <<o, b % st>> \in Slot
<1>1. st \in Nat \ {0} /\ NumLdsStages \in Nat
  BY StagesAssumption
<1>2. b % st \in 0 .. st - 1
  BY <1>1, ModRange
<1> QED BY <1>1, <1>2 DEF Slot, Stage

(***************************************************************************)
(* Issuing loads.                                                          *)
(***************************************************************************)
\* q2 is q with cnt times e behind it.
Extended(q2, q, e, cnt) ==
  /\ q2 \in Seq(LoadType) /\ Len(q) \in Nat /\ Len(q2) \in Nat /\ cnt \in Nat \ {0}
  /\ Len(q2) = Len(q) + cnt
  /\ \A j \in 1 .. Len(q) : q2[j] = q[j]
  /\ \A j \in 1 .. Len(q2) : ~(j <= Len(q)) => q2[j] = e

\* The loads of an operand: one per instruction, all alike.
LEMMA LoadsIntoType ==
  ASSUME NEW o \in Operand, NEW stage \in Stage, NEW tile \in Nat \X Nat
  PROVE  /\ LoadsInto(o, stage, tile) \in Seq(LoadType)
         /\ Len(LoadsInto(o, stage, tile)) = IssueCnt[o]
         /\ \A j \in 1 .. IssueCnt[o] :
              LoadsInto(o, stage, tile)[j] = [slot |-> <<o, stage>>, tile |-> tile]
<1> DEFINE l == LoadsInto(o, stage, tile)
           e == [slot |-> <<o, stage>>, tile |-> tile]
           cnt == IssueCnt[o]
<1>1. cnt \in Nat \ {0}
  BY Counts
<1>2. e \in LoadType
  BY DEF LoadType, Slot
<1>3. l = [j \in 1 .. cnt |-> e]
  BY DEF LoadsInto
<1> HIDE DEF l, e, cnt
<1>4. l \in [1 .. cnt -> LoadType] /\ \A j \in 1 .. cnt : l[j] = e
  BY <1>2, <1>3
<1>5. l \in Seq(LoadType)
  BY <1>1, <1>4, SeqDef
<1>6. Len(l) = cnt
  BY <1>1, <1>4
<1> QED BY <1>4, <1>5, <1>6 DEF l, e, cnt

\* The queue after the loads of an operand.
LEMMA Appended ==
  ASSUME NEW q \in Seq(LoadType), NEW o \in Operand, NEW stage \in Stage,
         NEW tile \in Nat \X Nat
  PROVE  Extended(q \o LoadsInto(o, stage, tile), q, [slot |-> <<o, stage>>, tile |-> tile],
                  IssueCnt[o])
<1> DEFINE l == LoadsInto(o, stage, tile)
           e == [slot |-> <<o, stage>>, tile |-> tile]
           cnt == IssueCnt[o]
<1>1. cnt \in Nat \ {0}
  BY Counts
<1>4. l \in Seq(LoadType) /\ Len(l) = cnt /\ \A j \in 1 .. cnt : l[j] = e
  BY LoadsIntoType
<1> HIDE DEF l, e, cnt
<1>7. /\ q \o l \in Seq(LoadType) /\ Len(q \o l) = Len(q) + cnt /\ Len(q) \in Nat
      /\ \A j \in 1 .. Len(q) + cnt :
           (q \o l)[j] = IF j <= Len(q) THEN q[j] ELSE l[j - Len(q)]
  <2>1. l \in Seq(LoadType) /\ Len(l) = cnt
    BY <1>4
  <2>2. /\ q \o l \in Seq(LoadType) /\ Len(q \o l) = Len(q) + Len(l)
        /\ \A j \in 1 .. Len(q) + Len(l) :
             (q \o l)[j] = IF j <= Len(q) THEN q[j] ELSE l[j - Len(q)]
    BY <2>1, ConcatProperties
  <2> QED BY <2>1, <2>2, LenProperties
<1>8. \A j \in 1 .. Len(q) + cnt : ~(j <= Len(q)) => j - Len(q) \in 1 .. cnt
  BY <1>1, <1>7
<1>9. 1 .. Len(q) \subseteq 1 .. Len(q) + cnt /\ \A j \in 1 .. Len(q) : j <= Len(q)
  BY <1>1, <1>7
<1>10. Extended(q \o l, q, e, cnt)
  BY <1>1, <1>4, <1>7, <1>8, <1>9 DEF Extended
<1> QED BY <1>10 DEF l, e, cnt

\* The queue after the loads of operand o of K tile b.
Loaded(q, o, b, t, st) == q \o LoadsInto(o, b % st, Tile(t, b))

\* What the queue is then.
LEMMA LoadedQueue ==
  ASSUME NEW q \in Seq(LoadType), NEW t \in Nat, NEW st \in 1 .. NumLdsStages,
         NEW o \in Operand, NEW b \in Nat
  PROVE  Extended(Loaded(q, o, b, t, st), q, LoadOf(o, b, t, st), IssueCnt[o])
<1>1. b % st \in Stage /\ Tile(t, b) \in Nat \X Nat
  <2>1. st \in Nat \ {0} /\ NumLdsStages \in Nat
    BY StagesAssumption
  <2>2. b % st \in 0 .. st - 1
    BY <2>1, ModRange
  <2> QED BY <2>1, <2>2 DEF Stage, Tile
<1> QED BY <1>1, Appended DEF Loaded, LoadOf

\* An instruction before one of operand o of K tile b is not behind it, either.
LEMMA EarlierInPlace ==
  ASSUME NEW k \in Int, NEW k2 \in Int, NEW o \in Operand, NEW b \in Nat,
         NEW end \in [Operand -> Int], k <= k2, InPlace(k2, o, b, end)
  PROVE  InPlace(k, o, b, end)
<1>1. b * TileIssueCnt + end[o] \in Int
  BY Counts
<1> QED BY <1>1 DEF InPlace

\* Counted from its end, a sequence that c more elements follow keeps its places.
LEMMA Places ==
  ASSUME NEW i \in Int, NEW i2, NEW a \in Nat, NEW a2 \in Nat, NEW c \in Nat,
         i2 = i + c, a2 = a + c, NEW j \in 1 .. a2
  PROVE  /\ i2 - a2 + j = i - a + j
         /\ i2 - a2 + j \in Int /\ i2 - a2 + j <= i2
OBVIOUS

\* The loads of an operand keep the queue in order.
LEMMA OrderedLoads ==
  ASSUME NEW q \in Seq(LoadType), NEW t \in Nat, NEW st \in 1 .. NumLdsStages,
         NEW lo \in [Operand -> Int], NEW end \in [Operand -> Int], NEW top \in [Operand -> Int], NEW issued \in Int,
         NEW o \in Operand, NEW b \in Nat,
         Ordered(q, issued, t, lo, top, st, end), lo[o] <= b,
         NEW cnt, cnt = IssueCnt[o], NEW issued2 \in Int, issued2 = issued + cnt, InPlace(issued2, o, b, end),
         NEW q2, q2 = Loaded(q, o, b, t, st),
         NEW top2 \in [Operand -> Int], top2[o] = b, \A x \in Operand : top[x] <= top2[x]
  PROVE  Ordered(q2, issued2, t, lo, top2, st, end)
<1>0. Extended(q2, q, LoadOf(o, b, t, st), cnt)
  BY LoadedQueue
<1>1. /\ Len(q) \in Nat /\ Len(q2) \in Nat /\ Len(q2) = Len(q) + cnt
      /\ \A j \in 1 .. Len(q) : q2[j] = q[j]
      /\ \A j \in 1 .. Len(q2) : ~(j <= Len(q)) => q2[j] = LoadOf(o, b, t, st)
  BY <1>0 DEF Extended
<1>2. cnt \in Nat
  BY <1>0 DEF Extended
<1> SUFFICES ASSUME NEW j \in 1 .. Len(q2)
             PROVE  \E x \in Operand, y \in Nat :
                      /\ q2[j] = LoadOf(x, y, t, st)
                      /\ lo[x] <= y /\ y <= top2[x]
                      /\ InPlace(issued2 - Len(q2) + j, x, y, end)
  BY DEF Ordered
<1>3. CASE j <= Len(q)
  <2>1. j \in 1 .. Len(q) /\ q2[j] = q[j]
    BY <1>1, <1>3
  <2>2. PICK x \in Operand, y \in Nat :
          /\ q[j] = LoadOf(x, y, t, st) /\ lo[x] <= y /\ y <= top[x]
          /\ InPlace(issued - Len(q) + j, x, y, end)
    BY <2>1 DEF Ordered
  <2>3. issued2 - Len(q2) + j = issued - Len(q) + j
    BY <1>1, <1>2, Places, SMTT(30)
  <2>4. y <= top2[x]
    BY <2>2
  <2> QED BY <2>1, <2>2, <2>3, <2>4
<1>4. CASE ~(j <= Len(q))
  <2>1. q2[j] = LoadOf(o, b, t, st)
    BY <1>1, <1>4
  <2>2. issued2 - Len(q2) + j \in Int /\ issued2 - Len(q2) + j <= issued2
    BY <1>1, <1>2, Places, SMTT(30)
  <2>3. InPlace(issued2 - Len(q2) + j, o, b, end)
    BY <2>2, EarlierInPlace
  <2> QED BY <2>1, <2>3
<1> QED BY <1>3, <1>4

\* After the loads of an operand, its last K tiles are in their slots or on the
\* way, as before.
LEMMA FilledLoads ==
  ASSUME NEW q \in Seq(LoadType), NEW l, NEW p, NEW t \in Nat, NEW st \in 1 .. NumLdsStages,
         NEW top \in [Operand -> Int], NEW o \in Operand, NEW b \in Nat,
         Filled(q, l, p, t, top, st), top[o] = b - 1,
         NEW q2, q2 = Loaded(q, o, b, t, st),
         NEW top2 \in [Operand -> Int], top2[o] = b,
         \A x \in Operand : x # o => top2[x] = top[x]
  PROVE  Filled(q2, l, p, t, top2, st)
<1> DEFINE cnt == IssueCnt[o]
<1>0. Extended(q2, q, LoadOf(o, b, t, st), cnt)
  BY LoadedQueue
<1> HIDE DEF cnt
<1>1. /\ Len(q) \in Nat /\ Len(q2) \in Nat /\ Len(q2) = Len(q) + cnt
      /\ \A j \in 1 .. Len(q) : q2[j] = q[j]
      /\ \A j \in 1 .. Len(q2) : ~(j <= Len(q)) => q2[j] = LoadOf(o, b, t, st)
  BY <1>0 DEF Extended
<1>2. cnt \in Nat \ {0}
  BY <1>0 DEF Extended
<1>3. \A slot : OnTheWay(q, slot) => OnTheWay(q2, slot)
  BY <1>1, <1>2 DEF OnTheWay
<1>4. OnTheWay(q2, <<o, b % st>>)
  <2>1. Len(q2) \in 1 .. Len(q2) /\ ~(Len(q2) <= Len(q))
    BY <1>1, <1>2
  <2>2. q2[Len(q2)] = LoadOf(o, b, t, st)
    BY <1>1, <2>1
  <2> QED BY <2>1, <2>2 DEF OnTheWay, LoadOf
<1> SUFFICES ASSUME NEW x \in Operand, NEW y \in Nat, top2[x] - st < y, y <= top2[x]
             PROVE  OnTheWay(q2, <<x, y % st>>) \/ l[<<x, y % st>>][p] = Tile(t, y)
  BY DEF Filled
<1>5. CASE x = o /\ y = b
  BY <1>4, <1>5
<1>6. CASE ~(x = o /\ y = b)
  <2>1. st \in Nat
    BY StagesAssumption
  <2>2. top[x] - st < y /\ y <= top[x]
    BY <1>6, <2>1
  <2> QED BY <1>3, <2>2 DEF Filled
<1> QED BY <1>5, <1>6

\* Issuing an operand of the next K tile.
LEMMA IssueLoads ==
  ASSUME NEW q, NEW l, NEW p, NEW t \in Nat, NEW st \in 1 .. NumLdsStages,
         NEW lo \in [Operand -> Int], NEW end \in [Operand -> Int], NEW top \in [Operand -> Int], NEW issued \in Int,
         NEW o \in Operand, NEW b \in Nat,
         Queue(q, l, p, t, issued, lo, top, st, end), top[o] = b - 1, lo[o] <= b,
         NEW issued2, issued2 = issued + IssueCnt[o], InPlace(issued2, o, b, end),
         NEW top2 \in [Operand -> Int], top2[o] = b,
         \A x \in Operand : x # o => top2[x] = top[x]
  PROVE  Queue(Loaded(q, o, b, t, st), l, p, t, issued2, lo, top2, st, end)
<1> DEFINE q2 == Loaded(q, o, b, t, st)
<1>1. q \in Seq(LoadType) /\ Ordered(q, issued, t, lo, top, st, end) /\ Filled(q, l, p, t, top, st)
  BY DEF Queue
<1>2. q2 \in Seq(LoadType)
  BY <1>1, LoadedQueue DEF Extended
<1>3. \A x \in Operand : top[x] <= top2[x]
  OBVIOUS
<1>4. issued2 \in Int
  BY Counts
<1>5. Ordered(q2, issued2, t, lo, top2, st, end)
  <2> HIDE DEF q2
  <2> DEFINE cnt == IssueCnt[o]
  <2>1. q2 = Loaded(q, o, b, t, st)
    BY DEF q2
  <2>2. cnt = IssueCnt[o] /\ issued2 = issued + cnt
    OBVIOUS
  <2> HIDE DEF cnt
  <2> QED BY <1>1, <1>3, <1>4, <2>1, <2>2, OrderedLoads
<1>6. Filled(q2, l, p, t, top2, st)
  BY <1>1, FilledLoads
<1> QED BY <1>2, <1>5, <1>6 DEF Queue

\* Operand after operand, or together.
SameLoads(q, x, y, z) == ((q \o x) \o y) \o z = q \o ((x \o y) \o z)

\* It is the same.
LEMMA LoadsInOrder ==
  ASSUME NEW q \in Seq(LoadType), NEW x \in Seq(LoadType), NEW y \in Seq(LoadType),
         NEW z \in Seq(LoadType)
  PROVE  SameLoads(q, x, y, z)
<1>1. q \o x \in Seq(LoadType) /\ x \o y \in Seq(LoadType)
  BY ConcatProperties
<1>2. (q \o x) \o y = q \o (x \o y)
  BY ConcatAssociative
<1>3. (q \o (x \o y)) \o z = q \o ((x \o y) \o z)
  BY <1>1, ConcatAssociative
<1> QED BY <1>2, <1>3 DEF SameLoads

(***************************************************************************)
(* Waiting for loads, and loads that land.                                 *)
(***************************************************************************)
\* A fence that leaves at most cnt loads in flight: they are of the K tiles
\* from m on.
LEMMA FenceTells ==
  ASSUME NEW q \in Seq(LoadType), NEW t, NEW st, NEW lo \in [Operand -> Int],
         NEW top \in [Operand -> Int], NEW end \in [Operand -> Int],
         NEW issued \in Int, NEW cnt \in Int, NEW m \in [Operand -> Int],
         Ordered(q, issued, t, lo, top, st, end), Len(q) <= cnt,
         \A o \in Operand : (m[o] - 1) * TileIssueCnt + end[o] <= issued - cnt
  PROVE  Ordered(q, issued, t, m, top, st, end)
<1> SUFFICES ASSUME NEW j \in 1 .. Len(q)
             PROVE  \E o \in Operand, b \in Nat :
                      /\ q[j] = LoadOf(o, b, t, st) /\ m[o] <= b /\ b <= top[o]
                      /\ InPlace(issued - Len(q) + j, o, b, end)
  BY DEF Ordered
<1>1. PICK o \in Operand, b \in Nat :
        /\ q[j] = LoadOf(o, b, t, st) /\ b <= top[o]
        /\ InPlace(issued - Len(q) + j, o, b, end)
  BY DEF Ordered
<1>2. (m[o] - 1) * TileIssueCnt < b * TileIssueCnt
  <2>1. Len(q) \in Nat /\ j >= 1 /\ TileIssueCnt \in Nat
    BY Counts
  <2> DEFINE x == (m[o] - 1) * TileIssueCnt
             y == b * TileIssueCnt
  <2>2. x \in Int /\ y \in Int /\ end[o] \in Int
    BY <2>1
  <2>3. issued - Len(q) + j <= y + end[o] /\ x + end[o] <= issued - cnt
    BY <1>1 DEF InPlace
  <2> HIDE DEF x, y
  <2>4. x < y
    BY <2>1, <2>2, <2>3
  <2> QED BY <2>4 DEF x, y
<1>3. m[o] - 1 < b
  <2>1. m[o] - 1 \in Int
    OBVIOUS
  <2> QED BY <1>2, <2>1, Counts, ProductOrder
<1> QED BY <1>1, <1>3

\* The LDS after wave p's load h.
Landed(l, p, h) == [l EXCEPT ![h.slot][p] = h.tile]

\* A landing load changes its own slot, of its own wave, only.
LEMMA LandedSlots ==
  ASSUME NEW l \in [Slot -> [Producer -> TileType]], NEW p \in Producer, NEW h \in LoadType
  PROVE  /\ Landed(l, p, h) \in [Slot -> [Producer -> TileType]]
         /\ Landed(l, p, h)[h.slot][p] = h.tile
         /\ \A s \in Slot, p2 \in Producer :
              ~(s = h.slot /\ p2 = p) => Landed(l, p, h)[s][p2] = l[s][p2]
<1> DEFINE s == h.slot
           e == h.tile
<1>1. s \in Slot /\ e \in TileType
  BY DEF LoadType, TileType
<1>2. Landed(l, p, h) = [l EXCEPT ![s][p] = e]
  BY DEF Landed
<1> HIDE DEF s, e
<1>3. /\ [l EXCEPT ![s][p] = e] \in [Slot -> [Producer -> TileType]]
      /\ [l EXCEPT ![s][p] = e][s][p] = e
      /\ \A s2 \in Slot, p2 \in Producer :
           ~(s2 = s /\ p2 = p) => [l EXCEPT ![s][p] = e][s2][p2] = l[s2][p2]
  BY <1>1
<1> QED BY <1>2, <1>3 DEF s, e

\* The oldest load lands: its slot has its K tile, which is the last one issued
\* to the slot.
LEMMA LandOne ==
  ASSUME NEW q \in Seq(LoadType), q # <<>>, NEW p \in Producer, NEW t \in Nat,
         NEW l \in [Slot -> [Producer -> TileType]],
         NEW st \in 1 .. NumLdsStages, NEW lo \in [Operand -> Int], NEW top \in [Operand -> Int],
         NEW end,
         NEW issued \in Int,
         Ordered(q, issued, t, lo, top, st, end), Filled(q, l, p, t, top, st),
         \A o \in Operand : top[o] < lo[o] + st,
         NEW l2, l2 = Landed(l, p, Head(q))
  PROVE  /\ Tail(q) \in Seq(LoadType)
         /\ l2 \in [Slot -> [Producer -> TileType]]
         /\ \A s \in Slot, p2 \in Producer : p2 # p => l2[s][p2] = l[s][p2]
         /\ Ordered(Tail(q), issued, t, lo, top, st, end)
         /\ Filled(Tail(q), l2, p, t, top, st)
<1> DEFINE r  == Tail(q)
           h  == Head(q)
<1>0. st \in Nat \ {0}
  BY StagesAssumption
<1>1. /\ r \in Seq(LoadType) /\ Len(r) = Len(q) - 1 /\ Len(q) \in Nat \ {0}
      /\ h = q[1] /\ h \in LoadType
      /\ \A j \in 1 .. Len(r) : r[j] = q[j + 1]
      /\ l2 = Landed(l, p, h)
  OBVIOUS
<1> HIDE DEF r, h
<1>2. h.slot \in Slot /\ h.tile \in Nat \X Nat
  BY <1>1 DEF LoadType
<1>3. /\ l2 \in [Slot -> [Producer -> TileType]]
      /\ l2[h.slot][p] = h.tile
      /\ \A s \in Slot, p2 \in Producer :
           ~(s = h.slot /\ p2 = p) => l2[s][p2] = l[s][p2]
  <2>1. h \in LoadType
    BY <1>1
  <2>2. /\ Landed(l, p, h) \in [Slot -> [Producer -> TileType]]
        /\ Landed(l, p, h)[h.slot][p] = h.tile
        /\ \A s \in Slot, p2 \in Producer :
             ~(s = h.slot /\ p2 = p) => Landed(l, p, h)[s][p2] = l[s][p2]
    BY <2>1, LandedSlots
  <2>3. l2 = Landed(l, p, h)
    BY <1>1
  <2> QED BY <2>2, <2>3, Zenon
<1>4. Ordered(r, issued, t, lo, top, st, end)
  <2> SUFFICES ASSUME NEW j \in 1 .. Len(r)
               PROVE  \E o \in Operand, b \in Nat :
                        /\ r[j] = LoadOf(o, b, t, st) /\ lo[o] <= b /\ b <= top[o]
                        /\ InPlace(issued - Len(r) + j, o, b, end)
    BY DEF Ordered
  <2>1. j + 1 \in 1 .. Len(q) /\ r[j] = q[j + 1]
        /\ issued - Len(r) + j = issued - Len(q) + (j + 1)
    BY <1>1
  <2> QED BY <2>1 DEF Ordered
<1>5. PICK o \in Operand, b \in Nat : h = LoadOf(o, b, t, st) /\ lo[o] <= b /\ b <= top[o]
  <2>1. 1 \in 1 .. Len(q)
    BY <1>1
  <2> QED BY <1>1, <2>1 DEF Ordered
<1>6. h.slot = <<o, b % st>> /\ h.tile = Tile(t, b)
  BY <1>5 DEF LoadOf
<1>7. Filled(r, l2, p, t, top, st)
  <2> SUFFICES ASSUME NEW x \in Operand, NEW y \in Nat, top[x] - st < y, y <= top[x],
                      ~OnTheWay(r, <<x, y % st>>)
               PROVE  l2[<<x, y % st>>][p] = Tile(t, y)
    BY DEF Filled
  <2>1. CASE <<x, y % st>> = h.slot
    <3>1. x = o /\ y % st = b % st
      BY <1>6, <2>1
    <3>2. b < y + st /\ y < b + st
      BY <1>0, <1>5, <3>1
    <3>3. y = b
      <4>1. y <= b \/ b <= y
        OBVIOUS
      <4> QED BY <1>0, <3>1, <3>2, <4>1, SameResidue
    <3> QED BY <1>3, <1>6, <2>1, <3>3
  <2>2. CASE <<x, y % st>> # h.slot
    <3>1. ~OnTheWay(q, <<x, y % st>>)
      <4> SUFFICES ASSUME NEW j \in 1 .. Len(q), q[j].slot = <<x, y % st>> PROVE FALSE
        BY DEF OnTheWay
      <4>1. j # 1
        BY <1>1, <2>2
      <4>2. j - 1 \in 1 .. Len(r) /\ r[j - 1] = q[j]
        BY <1>1, <4>1
      <4> QED BY <4>2 DEF OnTheWay
    <3>2. l[<<x, y % st>>][p] = Tile(t, y)
      BY <3>1 DEF Filled
    <3>3. <<x, y % st>> \in Slot
      <4>1. y % st \in 0 .. st - 1 /\ NumLdsStages \in Nat
        BY <1>0, ModRange, StagesAssumption
      <4> QED BY <1>0, <4>1 DEF Slot, Stage
    <3> QED BY <1>3, <2>2, <3>2, <3>3
  <2> QED BY <2>1, <2>2
<1> QED BY <1>1, <1>3, <1>4, <1>7 DEF r, h

\* A load lands: the other loads stay what they are, and so do the parts of the
\* other waves.
LandsQueue(q, l, l2, p, t, issued, lo, top, st, end) ==
  /\ Queue(Tail(q), l2, p, t, issued, lo, top, st, end)
  /\ \A s \in Slot, p2 \in Producer : p2 # p => l2[s][p2] = l[s][p2]

\* So it does if what is in flight fits in the ring.
LEMMA LandQueue ==
  ASSUME NEW q \in Seq(LoadType), q # <<>>, NEW p \in Producer, NEW t \in Nat,
         NEW l \in [Slot -> [Producer -> TileType]],
         NEW st \in 1 .. NumLdsStages, NEW lo \in [Operand -> Int], NEW top \in [Operand -> Int],
         NEW end, NEW issued \in Int,
         Queue(q, l, p, t, issued, lo, top, st, end),
         \A o \in Operand : top[o] < lo[o] + st,
         NEW l2, l2 = Landed(l, p, Head(q))
  PROVE  LandsQueue(q, l, l2, p, t, issued, lo, top, st, end)
<1>1. Ordered(q, issued, t, lo, top, st, end) /\ Filled(q, l, p, t, top, st)
  BY DEF Queue
<1>2. /\ Tail(q) \in Seq(LoadType)
      /\ Ordered(Tail(q), issued, t, lo, top, st, end)
      /\ Filled(Tail(q), l2, p, t, top, st)
  BY <1>1, LandOne
<1>3. \A s \in Slot, p2 \in Producer : p2 # p => l2[s][p2] = l[s][p2]
  <2>1. Head(q) \in LoadType
    OBVIOUS
  <2> QED BY <2>1, LandedSlots
<1> QED BY <1>2, <1>3 DEF LandsQueue, Queue

\* A slot whose K tile is older than everything in flight, and not yet
\* replaced, holds its K tile.
Holds(q, l, p, t, st, o, b) ==
  ~OnTheWay(q, <<o, b % st>>) /\ l[<<o, b % st>>][p] = Tile(t, b)

\* The queue and the slots show that.
LEMMA QueueHolds ==
  ASSUME NEW q, NEW l, NEW p, NEW t \in Nat, NEW st \in Nat \ {0}, NEW issued,
         NEW lo \in [Operand -> Int], NEW end, NEW top \in [Operand -> Int],
         Queue(q, l, p, t, issued, lo, top, st, end),
         NEW o \in Operand, NEW b \in Nat, b < lo[o], b <= top[o], top[o] < b + st
  PROVE  Holds(q, l, p, t, st, o, b)
<1>1. ~OnTheWay(q, <<o, b % st>>)
  <2> SUFFICES ASSUME NEW j \in 1 .. Len(q), q[j].slot = <<o, b % st>> PROVE FALSE
    BY DEF OnTheWay
  <2>1. PICK x \in Operand, y \in Nat : q[j] = LoadOf(x, y, t, st) /\ lo[x] <= y /\ y <= top[x]
    BY DEF Queue, Ordered
  <2>2. x = o /\ y % st = b % st
    BY <2>1 DEF LoadOf
  <2>3. b <= y /\ y < b + st /\ b # y
    BY <2>1, <2>2
  <2> QED BY <2>2, <2>3, SameResidue
<1> QED BY <1>1 DEF Queue, Filled, Holds

(***************************************************************************)
(* What a compute wave reads.                                              *)
(***************************************************************************)
\* The member of a singleton.
LEMMA TheOneOf ==
  ASSUME NEW t
  PROVE  TheOne({t}) = t
BY DEF TheOne

\* The member of a set of equals.
LEMMA SameOne ==
  ASSUME NEW S, NEW t, NEW x \in S, \A y \in S : y = t
  PROVE  TheOne(S) = t
<1>1. S = {t}
  OBVIOUS
<1> QED BY <1>1, TheOneOf

\* A load in flight is one that is on the way.
LEMMA SameFlight ==
  ASSUME NEW p \in Producer, vmq[p] \in Seq(LoadType), NEW slot
  PROVE  InFlight(p, slot) <=> OnTheWay(vmq[p], slot)
<1>1. DOMAIN vmq[p] = 1 .. Len(vmq[p])
  BY LenProperties
<1> QED BY <1>1 DEF InFlight, OnTheWay

\* A slot that every producer wave's part of a tile has landed in has the tile.
LEMMA ContentIs ==
  ASSUME NEW s, NEW tile,
         \A p \in Producer : ~InFlight(p, s) /\ lds[s][p] = tile
  PROVE  Content(s) = tile
<1>1. lds[s][<<"producer", 1>>] \in {lds[s][p] : p \in Producer}
  BY SomeProducer
<1>2. \A y \in {lds[s][p] : p \in Producer} : y = tile
  OBVIOUS
<1>3. TheOne({lds[s][p] : p \in Producer}) = tile
  BY <1>1, <1>2, SameOne
<1> QED BY <1>3 DEF Content

\* The product of a wave that reads two slots with the same tile is of it.
LEMMA ProductIs ==
  ASSUME NEW c, NEW tile, NEW s1, NEW s2, reading[c] = {s1, s2},
         Content(s1) = tile, Content(s2) = tile
  PROVE  Product(c) = tile
<1>1. /\ Content(s1) \in {Content(s) : s \in reading[c]}
      /\ \A y \in {Content(s) : s \in reading[c]} : y = tile
  OBVIOUS
<1>2. TheOne({Content(s) : s \in reading[c]}) = tile
  BY <1>1, SameOne
<1> QED BY <1>2 DEF Product
=============================================================================
