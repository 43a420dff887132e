----------------------- MODULE PersistentTiles_proofs -----------------------
(***************************************************************************)
(* No two blocks of a persistent kernel store the same tile, for every     *)
(* problem size, cluster shape, grid and number of groups.                 *)
(***************************************************************************)
EXTENDS PersistentTiles, TLAPS

(***************************************************************************)
(* Division with remainder by a variable divisor.                          *)
(***************************************************************************)
\* A number is divisor times quotient plus remainder.
LEMMA DivMod ==
  ASSUME NEW a \in Nat, NEW d \in Nat \ {0}
  PROVE  /\ a \div d \in Nat /\ a % d \in 0 .. d - 1
         /\ a = d * (a \div d) + (a % d)
<1>1. a \div d \in Nat /\ a % d \in 0 .. d - 1
  OBVIOUS
<1>2. a = d * (a \div d) + (a % d)
  BY Z3
<1> QED BY <1>1, <1>2

\* Quotient and remainder are unique.
LEMMA DivModUnique ==
  ASSUME NEW d \in Nat \ {0}, NEW q \in Nat, NEW r \in 0 .. d - 1
  PROVE  (d * q + r) \div d = q /\ (d * q + r) % d = r
OBVIOUS

\* A number is determined by its quotient and its remainder.
LEMMA SameDivMod ==
  ASSUME NEW a \in Nat, NEW b \in Nat, NEW d \in Nat \ {0},
         a \div d = b \div d, a % d = b % d
  PROVE  a = b
BY DivMod

\* Adding the divisor keeps the remainder.
LEMMA PlusMod ==
  ASSUME NEW a \in Nat, NEW d \in Nat \ {0}
  PROVE  (a + d) % d = a % d
<1> DEFINE q == a \div d
           r == a % d
<1>1. q \in Nat /\ r \in 0 .. d - 1 /\ a = d * q + r
  BY DivMod
<1> HIDE DEF q, r
<1>2. a + d = d * (q + 1) + r
  BY <1>1
<1>3. (d * (q + 1) + r) % d = r
  BY <1>1, DivModUnique
<1> QED BY <1>2, <1>3 DEF r

\* A number of d * k values has a quotient of k values.
LEMMA DivRange ==
  ASSUME NEW a \in Nat, NEW d \in Nat \ {0}, NEW k \in Nat, a < d * k
  PROVE  a \div d < k
<1> DEFINE q == a \div d
<1>1. q \in Nat /\ a >= d * q
  BY DivMod
<1> HIDE DEF q
<1>2. q >= k => d * q >= d * k
  BY <1>1
<1> QED BY <1>1, <1>2 DEF q

\* Two numbers less than d apart with the same remainder are equal.
LEMMA SameResidue ==
  ASSUME NEW a \in Nat, NEW b \in Nat, NEW d \in Nat \ {0},
         a % d = b % d, b <= a, a < b + d
  PROVE  a = b
<1> DEFINE qa == a \div d
           qb == b \div d
           r == b % d
<1>1. /\ qa \in Nat /\ a = d * qa + r
      /\ qb \in Nat /\ b = d * qb + r /\ r \in 0 .. d - 1
  BY DivMod
<1> HIDE DEF qa, qb, r
<1>2. qa > qb => d * qa >= d * qb + d
  BY <1>1
<1>3. qb > qa => d * qb >= d * qa + d
  BY <1>1
<1> QED BY <1>1, <1>2, <1>3

(***************************************************************************)
(* The partitioner maps different tile numbers to different output tiles.  *)
(***************************************************************************)
\* The lengths of the partition and of the grid are positive.
LEMMA Lengths ==
  /\ NumTiles \in Nat \ {0} /\ N00 \in Nat \ {0}
  /\ M01 \in Nat \ {0} /\ N01 \in Nat \ {0} /\ GridDim \in Nat \ {0}
<1>1. /\ M0 \in Nat \ {0} /\ N0 \in Nat \ {0} /\ M01 \in Nat \ {0}
      /\ N01 \in Nat \ {0} /\ GridDim \in Nat \ {0} /\ N0 % N01 = 0
  BY PartitionAssumption
<1>2. M0 * N0 \in Nat \ {0}
  BY <1>1
<1>3. N0 \div N01 \in Nat /\ N0 = N01 * (N0 \div N01) + (N0 % N01)
  BY <1>1, DivMod
<1>4. N0 \div N01 # 0
  BY <1>1, <1>3
<1> QED BY <1>1, <1>2, <1>3, <1>4 DEF NumTiles, N00

\* The digits of a number determine it.
LEMMA DigitsInjective ==
  ASSUME NEW a \in Nat, NEW b \in Nat, Digits(a) = Digits(b)
  PROVE  a = b
<1> DEFINE a3 == a \div N01
           a2 == a3 \div M01
           b3 == b \div N01
           b2 == b3 \div M01
<1>1. /\ a % N01 = b % N01 /\ a3 % M01 = b3 % M01
      /\ a2 % N00 = b2 % N00 /\ a2 \div N00 = b2 \div N00
  BY DEF Digits
<1>2. a3 \in Nat /\ b3 \in Nat
  BY Lengths, DivMod
<1>3. a2 \in Nat /\ b2 \in Nat
  BY <1>2, Lengths, DivMod
<1> HIDE DEF a3, a2, b3, b2
<1>4. a2 = b2
  BY <1>1, <1>3, Lengths, SameDivMod
<1>5. a3 = b3
  BY <1>1, <1>2, <1>4, Lengths, SameDivMod DEF a2, b2
<1> QED BY <1>1, <1>5, Lengths, SameDivMod DEF a3, b3

\* Every digit of a tile number is below its length.
LEMMA DigitsType ==
  ASSUME NEW a \in Nat
  PROVE  /\ Digits(a).n01 \in 0 .. N01 - 1 /\ Digits(a).m01 \in 0 .. M01 - 1
         /\ Digits(a).n00 \in 0 .. N00 - 1 /\ Digits(a).m00 \in Nat
<1> DEFINE a3 == a \div N01
           a2 == a3 \div M01
<1>1. a3 \in Nat
  BY Lengths, DivMod
<1>2. a2 \in Nat
  BY <1>1, Lengths, DivMod
<1>3. a % N01 \in 0 .. N01 - 1 /\ a3 % M01 \in 0 .. M01 - 1
  BY <1>1, Lengths, DivMod
<1>4. a2 % N00 \in 0 .. N00 - 1 /\ a2 \div N00 \in Nat
  BY <1>2, Lengths, DivMod
<1> QED BY <1>3, <1>4 DEF Digits

\* A coordinate determines the two digits it was put together from.
LEMMA UnmergeInjective ==
  ASSUME NEW len \in Nat \ {0}, NEW h \in Nat, NEW i \in Nat,
         NEW l \in 0 .. len - 1, NEW m \in 0 .. len - 1,
         Unmerge(h, l, len) = Unmerge(i, m, len)
  PROVE  h = i /\ l = m
<1>1. len * h + l = len * i + m
  BY DEF Unmerge
<1>2. (len * h + l) \div len = h /\ (len * i + m) \div len = i
  BY DivModUnique
<1>3. (len * h + l) % len = l /\ (len * i + m) % len = m
  BY DivModUnique
<1> QED BY <1>1, <1>2, <1>3

\* The partitioner is injective on the numbers of the tile loop.
LEMMA OutputTileInjective ==
  ASSUME NEW a \in Nat, NEW b \in Nat, a < NumTiles, b < NumTiles,
         GetOutputTileIndex(a) = GetOutputTileIndex(b)
  PROVE  a = b
<1>1. a % NumTiles = a /\ b % NumTiles = b
  BY Lengths
<1> DEFINE da == Digits(a)
           db == Digits(b)
<1>2. /\ Unmerge(da.m00, da.m01, M01) = Unmerge(db.m00, db.m01, M01)
      /\ Unmerge(da.n00, da.n01, N01) = Unmerge(db.n00, db.n01, N01)
  BY <1>1 DEF GetOutputTileIndex
<1>3. /\ da.n01 \in 0 .. N01 - 1 /\ da.m01 \in 0 .. M01 - 1
      /\ da.n00 \in Nat /\ da.m00 \in Nat
      /\ db.n01 \in 0 .. N01 - 1 /\ db.m01 \in 0 .. M01 - 1
      /\ db.n00 \in Nat /\ db.m00 \in Nat
  BY DigitsType, Lengths
<1>4. da.m00 = db.m00 /\ da.m01 = db.m01 /\ da.n00 = db.n00 /\ da.n01 = db.n01
  <2> HIDE DEF da, db
  <2> QED BY <1>2, <1>3, Lengths, UnmergeInjective
<1>5. Digits(a) = Digits(b)
  BY <1>4 DEF Digits
<1> QED BY <1>5, DigitsInjective

(***************************************************************************)
(* Uniqueness: the blocks are at tiles of their own residues, and what is  *)
(* written comes from earlier tiles of some block.                         *)
(***************************************************************************)
OwnTile(b, i) == i \in Nat /\ i % GridDim = b
Stored(b, i)  == <<GroupOf(b), GetOutputTileIndex(i)>>

InOwnTiles == /\ tile_idx \in [Block -> Nat]
              /\ \A b \in Block : OwnTile(b, tile_idx[b])
WrittenBefore ==
  \A x \in written : \E b \in Block, i \in Nat :
    OwnTile(b, i) /\ i < tile_idx[b] /\ i < NumTiles /\ x = Stored(b, i)

UniqueInv == InOwnTiles /\ WrittenBefore

\* At the start every block is at its own number and nothing is written.
LEMMA UniqueInit == Init => UniqueInv
<1> SUFFICES ASSUME Init PROVE UniqueInv
  OBVIOUS
<1>1. \A b \in Block : b \in Nat /\ b % GridDim = b
  BY Lengths DEF Block
<1> QED BY <1>1 DEF Init, UniqueInv, InOwnTiles, WrittenBefore, OwnTile

\* A block's loop stays in its residue class.
LEMMA OwnTilesStep ==
  ASSUME InOwnTiles, NEW b \in Block, ComputeTile(b)
  PROVE  /\ InOwnTiles'
         /\ tile_idx'[b] = tile_idx[b] + GridDim
         /\ \A c \in Block \ {b} : tile_idx'[c] = tile_idx[c]
<1>1. /\ tile_idx' = [tile_idx EXCEPT ![b] = tile_idx[b] + GridDim]
      /\ tile_idx \in [Block -> Nat]
  BY DEF ComputeTile, InOwnTiles
<1>2. tile_idx[b] + GridDim \in Nat /\ (tile_idx[b] + GridDim) % GridDim = b
  <2>1. tile_idx[b] \in Nat /\ tile_idx[b] % GridDim = b
    BY DEF InOwnTiles, OwnTile
  <2>2. GridDim \in Nat \ {0}
    BY Lengths
  <2>3. (tile_idx[b] + GridDim) % GridDim = tile_idx[b] % GridDim
    BY <2>1, <2>2, PlusMod
  <2> QED BY <2>1, <2>2, <2>3
<1> HIDE DEF Block
<1> QED BY <1>1, <1>2 DEF InOwnTiles, OwnTile

\* A block writes the tile it is at and goes on to the next of its own.
LEMMA UniqueNext == UniqueInv /\ [Next]_vars => UniqueInv'
<1> SUFFICES ASSUME UniqueInv, [Next]_vars PROVE UniqueInv'
  OBVIOUS
<1>1. CASE UNCHANGED vars
  BY <1>1 DEF vars, UniqueInv, InOwnTiles, WrittenBefore, OwnTile, Stored
<1>2. ASSUME NEW b \in Block, ComputeTile(b) PROVE UniqueInv'
  <2>1. /\ InOwnTiles' /\ tile_idx'[b] = tile_idx[b] + GridDim
        /\ \A c \in Block \ {b} : tile_idx'[c] = tile_idx[c]
    BY <1>2, OwnTilesStep DEF UniqueInv
  <2>2. tile_idx[b] < NumTiles /\ written' = written \union {Stored(b, tile_idx[b])}
    BY <1>2 DEF ComputeTile, Target, Stored
  <2>3. /\ OwnTile(b, tile_idx[b]) /\ tile_idx[b] \in Nat
        /\ \A c \in Block : tile_idx[c] \in Nat
    BY DEF UniqueInv, InOwnTiles
  <2>4. \A c \in Block, i \in Nat : i < tile_idx[c] => i < tile_idx'[c]
    BY <2>1, <2>3, Lengths
  <2>5. tile_idx[b] < tile_idx'[b]
    BY <2>1, <2>3, Lengths
  <2>6. WrittenBefore'
    <3> SUFFICES ASSUME NEW x \in written'
                 PROVE  \E c \in Block, i \in Nat :
                          OwnTile(c, i) /\ i < tile_idx'[c] /\ i < NumTiles
                          /\ x = Stored(c, i)
      BY DEF WrittenBefore, OwnTile, Stored
    <3>1. CASE x \in written
      BY <2>4, <3>1 DEF UniqueInv, WrittenBefore
    <3>2. CASE x = Stored(b, tile_idx[b])
      BY <2>2, <2>3, <2>5, <3>2
    <3> QED BY <2>2, <3>1, <3>2
  <2> QED BY <2>1, <2>6 DEF UniqueInv
<1>3. CASE Finished
  BY <1>1, <1>3 DEF Finished
<1> QED BY <1>1, <1>2, <1>3 DEF Next

\* No output tile is stored twice, whatever the problem, the clusters, the
\* grid and the groups are.
THEOREM TilesAreUnique == Spec => []NoTileTwice
<1>1. UniqueInv => NoTileTwice
  <2> SUFFICES ASSUME UniqueInv, NEW b \in Block, tile_idx[b] < NumTiles
               PROVE  /\ Target(b) \notin written
                      /\ \A c \in Block \ {b} :
                           tile_idx[c] < NumTiles => Target(c) # Target(b)
    BY DEF NoTileTwice
  <2>1. \A c \in Block : OwnTile(c, tile_idx[c]) /\ tile_idx[c] \in Nat
    BY DEF UniqueInv, InOwnTiles
  <2>2. \A c \in Block, i \in Nat :
          i < NumTiles /\ OwnTile(c, i) /\ Stored(c, i) = Target(b)
            => i = tile_idx[b] /\ c = b
    <3> SUFFICES ASSUME NEW c \in Block, NEW i \in Nat, i < NumTiles,
                        OwnTile(c, i), Stored(c, i) = Target(b)
                 PROVE  i = tile_idx[b] /\ c = b
      OBVIOUS
    <3>1. GetOutputTileIndex(i) = GetOutputTileIndex(tile_idx[b])
      BY DEF Stored, Target
    <3>2. i = tile_idx[b]
      BY <2>1, <3>1, OutputTileInjective
    <3> QED BY <2>1, <3>2 DEF OwnTile
  <2>3. Target(b) \notin written
    <3> SUFFICES ASSUME Target(b) \in written PROVE FALSE
      OBVIOUS
    <3>1. PICK c \in Block, i \in Nat :
            OwnTile(c, i) /\ i < tile_idx[c] /\ i < NumTiles /\ Target(b) = Stored(c, i)
      BY DEF UniqueInv, WrittenBefore
    <3>2. i = tile_idx[b] /\ c = b
      BY <2>2, <3>1
    <3> QED BY <2>1, <3>1, <3>2
  <2>4. ASSUME NEW c \in Block \ {b}, tile_idx[c] < NumTiles, Target(c) = Target(b)
        PROVE  FALSE
    <3>1. Stored(c, tile_idx[c]) = Target(b)
      BY <2>4 DEF Stored, Target
    <3> QED BY <2>1, <2>2, <2>4, <3>1
  <2> QED BY <2>3, <2>4
<1> QED BY <1>1, UniqueInit, UniqueNext, PTL DEF Spec

(***************************************************************************)
(* Completeness: without groups, every output tile is some block's.        *)
(***************************************************************************)
\* Two digits below their lengths make a number below the product.
LEMMA Pack ==
  ASSUME NEW len \in Nat \ {0}, NEW H \in Nat, NEW h \in Nat, NEW l \in 0 .. len - 1,
         h < H
  PROVE  len * h + l \in Nat /\ len * h + l < len * H
<1>1. len * h + l \in Nat /\ len * h + l < len * (h + 1)
  OBVIOUS
<1>2. len * (h + 1) <= len * H
  OBVIOUS
<1> QED BY <1>1, <1>2

\* The partitioner reaches every output tile.
LEMMA OutputTileSurjective ==
  ASSUME NEW m \in 0 .. M0 - 1, NEW k \in 0 .. N0 - 1
  PROVE  \E i \in Nat : i < NumTiles /\ GetOutputTileIndex(i) = <<m, k>>
<1> DEFINE M00 == M0 \div M01
           mh == m \div M01
           ml == m % M01
           nh == k \div N01
           nl == k % N01
           x2 == N00 * mh + nh
           x3 == M01 * x2 + ml
           i  == N01 * x3 + nl
<1>1. /\ M0 \in Nat \ {0} /\ N0 \in Nat \ {0} /\ M0 % M01 = 0 /\ N0 % N01 = 0
      /\ m \in Nat /\ k \in Nat /\ m < M0 /\ k < N0
  BY PartitionAssumption
<1>2. /\ M00 \in Nat /\ M0 = M01 * M00
      /\ N00 \in Nat \ {0} /\ N0 = N01 * N00
  BY <1>1, Lengths, DivMod DEF N00
<1>3. /\ mh \in Nat /\ ml \in 0 .. M01 - 1 /\ m = M01 * mh + ml
      /\ nh \in Nat /\ nl \in 0 .. N01 - 1 /\ k = N01 * nh + nl
  BY <1>1, Lengths, DivMod
<1>4. mh < M00 /\ nh < N00
  BY <1>1, <1>2, Lengths, DivRange
<1> HIDE DEF M00, mh, ml, nh, nl
<1>5. x2 \in Nat /\ x2 < N00 * M00
  <2>1. nh \in 0 .. N00 - 1
    BY <1>2, <1>3, <1>4
  <2> QED BY <1>2, <1>3, <1>4, <2>1, Pack
<1>6. x2 % N00 = nh /\ x2 \div N00 = mh
  <2>1. nh \in 0 .. N00 - 1
    BY <1>2, <1>3, <1>4
  <2> QED BY <1>2, <1>3, <2>1, DivModUnique
<1> HIDE DEF x2
<1>7. N00 * M00 \in Nat
  BY <1>2
<1>8. x3 \in Nat /\ x3 < M01 * (N00 * M00)
  BY <1>3, <1>5, <1>7, Lengths, Pack
<1>9. x3 % M01 = ml /\ x3 \div M01 = x2
  BY <1>3, <1>5, Lengths, DivModUnique
<1> HIDE DEF x3
<1>10. M01 * (N00 * M00) \in Nat
  BY <1>7, Lengths
<1>11. i \in Nat /\ i < N01 * (M01 * (N00 * M00))
  BY <1>3, <1>8, <1>10, Lengths, Pack
<1>12. i % N01 = nl /\ i \div N01 = x3
  BY <1>3, <1>8, Lengths, DivModUnique
<1> HIDE DEF i
<1>13. N01 * (M01 * (N00 * M00)) = (M01 * M00) * (N01 * N00)
  BY <1>2, Lengths
<1>14. i < NumTiles
  BY <1>2, <1>11, <1>13 DEF NumTiles
<1>15. i % NumTiles = i
  BY <1>11, <1>14, Lengths
<1>16. Digits(i) = [n01 |-> nl, m01 |-> ml, n00 |-> nh, m00 |-> mh]
  BY <1>6, <1>9, <1>12 DEF Digits
<1>17. Unmerge(mh, ml, M01) = m /\ Unmerge(nh, nl, N01) = k
  BY <1>2, <1>3, Lengths DEF Unmerge
<1>18. GetOutputTileIndex(i) = <<m, k>>
  BY <1>15, <1>16, <1>17 DEF GetOutputTileIndex
<1> QED BY <1>11, <1>14, <1>18

\* What a block has passed is written.
Covered ==
  \A b \in Block, i \in Nat :
    OwnTile(b, i) /\ i < NumTiles /\ i < tile_idx[b] => Stored(b, i) \in written

CoverInv == InOwnTiles /\ Covered

\* A step leaves behind only the tile that it has written.
LEMMA CoverNext == CoverInv /\ [Next]_vars => CoverInv'
<1> SUFFICES ASSUME CoverInv, [Next]_vars PROVE CoverInv'
  OBVIOUS
<1>1. CASE UNCHANGED vars
  BY <1>1 DEF vars, CoverInv, InOwnTiles, Covered, OwnTile, Stored
<1>2. ASSUME NEW b \in Block, ComputeTile(b) PROVE CoverInv'
  <2>1. /\ InOwnTiles' /\ tile_idx'[b] = tile_idx[b] + GridDim
        /\ \A c \in Block \ {b} : tile_idx'[c] = tile_idx[c]
    BY <1>2, OwnTilesStep DEF CoverInv
  <2>2. written' = written \union {Stored(b, tile_idx[b])}
    BY <1>2 DEF ComputeTile, Target, Stored
  <2>3. OwnTile(b, tile_idx[b])
    BY DEF CoverInv, InOwnTiles
  <2>4. ASSUME NEW c \in Block, NEW i \in Nat, OwnTile(c, i), i < NumTiles,
               i < tile_idx'[c]
        PROVE  Stored(c, i) \in written'
    <3>1. CASE i < tile_idx[c]
      BY <2>2, <2>4, <3>1 DEF CoverInv, Covered
    <3>2. CASE ~(i < tile_idx[c])
      <4>1. c = b
        BY <2>1, <2>4, <3>2
      <4>2. tile_idx[b] \in Nat /\ i >= tile_idx[b] /\ i < tile_idx[b] + GridDim
            /\ i % GridDim = tile_idx[b] % GridDim
        BY <2>1, <2>3, <2>4, <3>2, <4>1 DEF OwnTile
      <4>3. i = tile_idx[b]
        BY <4>2, Lengths, SameResidue
      <4> QED BY <2>2, <4>1, <4>3
    <3> QED BY <3>1, <3>2
  <2>5. Covered'
    BY <2>4 DEF Covered, OwnTile, Stored
  <2> QED BY <2>1, <2>5 DEF CoverInv
<1>3. CASE Finished
  BY <1>1, <1>3 DEF Finished
<1> QED BY <1>1, <1>2, <1>3 DEF Next

\* At the start a block has no tile behind it.
LEMMA CoverInit == Init => CoverInv
<1> SUFFICES ASSUME Init PROVE CoverInv
  OBVIOUS
<1>1. InOwnTiles
  BY UniqueInit DEF UniqueInv
<1>2. \A i \in Nat : i < GridDim => i % GridDim = i
  BY Lengths
<1>3. ASSUME NEW b \in Block, NEW i \in Nat, OwnTile(b, i), i < tile_idx[b]
      PROVE  FALSE
  <2>1. tile_idx[b] = b /\ b \in Nat /\ b < GridDim
    BY Lengths DEF Init, Block
  <2>2. i % GridDim = i /\ i % GridDim = b
    BY <1>2, <1>3, <2>1, Lengths DEF OwnTile
  <2> QED BY <1>3, <2>1, <2>2
<1> QED BY <1>1, <1>3 DEF CoverInv, Covered

\* Without groups, the grid that has finished has stored every output tile.
\* (With groups it has not: see the run that shows it.)
THEOREM TilesAreComplete ==
  ASSUME NumGroup = 1
  PROVE  Spec => []AllTilesWritten
<1>1. CoverInv => AllTilesWritten
  <2> SUFFICES ASSUME CoverInv, \A b \in Block : tile_idx[b] >= NumTiles,
                      NEW m \in 0 .. M0 - 1, NEW k \in 0 .. N0 - 1
               PROVE  <<0, <<m, k>>>> \in written
    BY DEF AllTilesWritten, Output
  <2>1. PICK i \in Nat : i < NumTiles /\ GetOutputTileIndex(i) = <<m, k>>
    BY OutputTileSurjective
  <2> DEFINE b == i % GridDim
  <2>2. b \in 0 .. GridDim - 1
    BY <2>1, Lengths, DivMod
  <2>3. b \in Block /\ OwnTile(b, i)
    BY <2>2 DEF Block, OwnTile
  <2>4. i < tile_idx[b]
    BY <2>1, <2>3, Lengths DEF CoverInv, InOwnTiles
  <2>5. Stored(b, i) \in written
    BY <2>1, <2>3, <2>4 DEF CoverInv, Covered
  <2>6. GroupOf(b) = 0
    <3>1. GridDim \div 1 = GridDim /\ b \div GridDim = 0
      BY <2>2, Lengths
    <3> QED BY <3>1 DEF GroupOf
  <2> QED BY <2>1, <2>5, <2>6 DEF Stored
<1> QED BY <1>1, CoverInit, CoverNext, PTL DEF Spec

(***************************************************************************)
(* Bounds: the loop counters, and the coordinates that are stored to.      *)
(***************************************************************************)
\* A coordinate put together from digits stays below the product of lengths.
LEMMA UnmergeRange ==
  ASSUME NEW len \in Nat \ {0}, NEW k \in Nat, NEW h \in 0 .. k - 1,
         NEW l \in 0 .. len - 1
  PROVE  Unmerge(h, l, len) \in 0 .. len * k - 1
<1>1. len * h \in Nat /\ len * k \in Nat /\ h * len = len * h
  OBVIOUS
<1>2. len * h + len <= len * k
  <2>1. h + 1 <= k /\ len * (h + 1) = len * h + len
    OBVIOUS
  <2>2. \A x \in Nat : x <= k => len * x <= len * k
    OBVIOUS
  <2> QED BY <2>1, <2>2
<1> HIDE DEF Unmerge
<1>3. Unmerge(h, l, len) = len * h + l
  BY <1>1 DEF Unmerge
<1> QED BY <1>1, <1>2, <1>3

\* The tile number is reduced to the output's: every number gives a tile of
\* the output matrix, whatever the cluster shape.
LEMMA OutputTileInRange ==
  ASSUME NEW i \in Nat
  PROVE  GetOutputTileIndex(i) \in (0 .. M0 - 1) \X (0 .. N0 - 1)
<1> DEFINE a == i % NumTiles
           a3 == a \div N01
           a2 == a3 \div M01
           m == M0 \div M01
           d == Digits(a)
<1>1. a \in Nat /\ a < NumTiles
  BY Lengths, DivMod
<1>2. m \in Nat /\ M0 = M01 * m /\ N0 = N01 * N00
  BY PartitionAssumption, DivMod DEF N00
<1> HIDE DEF a, m
<1>3. NumTiles = N01 * (M01 * (N00 * m))
  BY <1>2, Lengths DEF NumTiles
<1>4. N00 * m \in Nat /\ M01 * (N00 * m) \in Nat
  BY <1>2, Lengths
<1>5. a3 \in Nat /\ a3 < M01 * (N00 * m)
  BY <1>1, <1>3, <1>4, Lengths, DivMod, DivRange
<1> HIDE DEF a3
<1>6. a2 \in Nat /\ a2 < N00 * m
  BY <1>4, <1>5, Lengths, DivMod, DivRange
<1> HIDE DEF a2
<1>7. d.m00 = a2 \div N00
  BY DEF Digits, a2, a3
<1>8. d.m00 \in 0 .. m - 1
  <2>1. a2 \div N00 \in Nat /\ a2 \div N00 < m
    BY <1>2, <1>6, Lengths, DivMod, DivRange
  <2> QED BY <1>2, <1>7, <2>1
<1>9. d.n01 \in 0 .. N01 - 1 /\ d.m01 \in 0 .. M01 - 1 /\ d.n00 \in 0 .. N00 - 1
  BY <1>1, DigitsType
<1> HIDE DEF d
<1>10. Unmerge(d.m00, d.m01, M01) \in 0 .. M01 * m - 1
  BY <1>2, <1>8, <1>9, Lengths, UnmergeRange
<1>11. Unmerge(d.n00, d.n01, N01) \in 0 .. N01 * N00 - 1
  BY <1>9, Lengths, UnmergeRange
<1> QED BY <1>2, <1>10, <1>11 DEF GetOutputTileIndex, a, d

\* What is stored lies in the output matrix.
InMatrix == \A x \in written : x[2] \in (0 .. M0 - 1) \X (0 .. N0 - 1)

BoundInv == InOwnTiles /\ TypeOK /\ InMatrix

\* No group has taken a tile.
LEMMA BoundInit == Init => BoundInv
<1> SUFFICES ASSUME Init PROVE BoundInv
  OBVIOUS
<1>1. InOwnTiles
  BY UniqueInit DEF UniqueInv
<1>2. \A b \in Block : b \in 0 .. NumTiles + GridDim - 1
  BY Lengths DEF Block
<1> QED BY <1>1, <1>2 DEF BoundInv, TypeOK, InMatrix, Init

\* A loop that is entered below the end leaves it by less than the grid.
LEMMA BoundNext == BoundInv /\ [Next]_vars => BoundInv'
<1> SUFFICES ASSUME BoundInv, [Next]_vars PROVE BoundInv'
  OBVIOUS
<1>1. CASE UNCHANGED vars
  BY <1>1 DEF vars, BoundInv, InOwnTiles, OwnTile, TypeOK, InMatrix
<1>2. ASSUME NEW b \in Block, ComputeTile(b) PROVE BoundInv'
  <2>1. /\ InOwnTiles' /\ tile_idx'[b] = tile_idx[b] + GridDim
        /\ \A c \in Block \ {b} : tile_idx'[c] = tile_idx[c]
    BY <1>2, OwnTilesStep DEF BoundInv
  <2>2. /\ tile_idx[b] < NumTiles /\ tile_idx[b] \in Nat
        /\ written' = written \union {Target(b)}
    BY <1>2 DEF ComputeTile, BoundInv, InOwnTiles
  <2>3. tile_idx' \in [Block -> 0 .. NumTiles + GridDim - 1]
    <3>1. \A c \in Block : tile_idx'[c] \in 0 .. NumTiles + GridDim - 1
      BY <2>1, <2>2, Lengths DEF BoundInv, TypeOK
    <3>2. tile_idx' \in [Block -> Nat]
      BY <2>1 DEF InOwnTiles
    <3> QED BY <3>1, <3>2
  <2>4. GetOutputTileIndex(tile_idx[b]) \in (0 .. M0 - 1) \X (0 .. N0 - 1)
    BY <2>2, OutputTileInRange
  <2>5. GroupOf(b) \in Nat
    <3>1. b \in Nat /\ GridDim \in Nat /\ NumGroup \in Nat \ {0} /\ GridDim >= NumGroup
      BY PartitionAssumption DEF Block
    <3>2. GridDim \div NumGroup \in Nat /\ GridDim \div NumGroup # 0
      <4> DEFINE q == GridDim \div NumGroup
                 s == GridDim % NumGroup
      <4>1. /\ q \in Nat /\ s \in 0 .. NumGroup - 1
            /\ GridDim = NumGroup * q + s
        BY <3>1, DivMod
      <4> HIDE DEF q, s
      <4>2. q # 0
        BY <3>1, <4>1
      <4> QED BY <4>1, <4>2 DEF q
    <3> QED BY <3>1, <3>2, DivMod DEF GroupOf
  <2>6. /\ Target(b) \in Nat \X (Nat \X Nat)
        /\ Target(b)[2] \in (0 .. M0 - 1) \X (0 .. N0 - 1)
    BY <2>4, <2>5 DEF Target
  <2>7. TypeOK' /\ InMatrix'
    BY <2>2, <2>3, <2>6 DEF BoundInv, TypeOK, InMatrix
  <2> QED BY <2>1, <2>7 DEF BoundInv
<1>3. CASE Finished
  BY <1>1, <1>3 DEF Finished
<1> QED BY <1>1, <1>2, <1>3 DEF Next

\* The loop counters run past the last tile by less than one grid, so the
\* 32-bit counters of the kernel need no more than NumTiles + GridDim.
THEOREM CountersAreBounded == Spec => []TypeOK
BY BoundInit, BoundNext, PTL DEF Spec, BoundInv

\* Every store goes to a tile of the output matrix: no block leaves it, for
\* any problem size, cluster shape and grid.
THEOREM StoresStayInMatrix == Spec => []InMatrix
BY BoundInit, BoundNext, PTL DEF Spec, BoundInv
=============================================================================
