-------------------------- MODULE MoeSorting_proofs --------------------------
(***************************************************************************)
(* What the launches of a sort share, and where its kernels write, with    *)
(* several kernels and with one block: for every problem, grid, block,     *)
(* width of a row, size of LDS and number of launches.                     *)
(*                                                                         *)
(* The mesh.  The pairs of a token and a topk_id are dealt to the blocks.  *)
(* In the first launch the semaphore counts the blocks that have entered   *)
(* theirs, and all blocks with pairs are among the first WGCounts ones.    *)
(* After it the semaphore stands open - nobody resets it - but the mesh is *)
(* that of the same problem, and is entered again with what it already     *)
(* holds.                                                                  *)
(*                                                                         *)
(* The scans.  The code's scans over a wave, over lane groups and over a   *)
(* block, round after round, are prefix sums.                              *)
(*                                                                         *)
(* The buffers.  The lists of all experts, padded to units, fit into what  *)
(* the host allocates.  P2 and P23 place them one after the other, from    *)
(* counts that are right, and what a kernel writes of a list stays between *)
(* its start and its end.  A single block gets to the same places with     *)
(* counters in LDS that its waves share, in one round or in several: that  *)
(* is most of what follows.                                                *)
(***************************************************************************)
EXTENDS MoeSorting, FiniteSetTheorems, TLAPS, WellFoundedInduction

(***************************************************************************)
(* Division with remainder by a variable divisor.                          *)
(***************************************************************************)
\* A number is divisor times quotient plus remainder.
LEMMA DivMod ==
  ASSUME NEW a \in Nat, NEW d \in Nat \ {0}
  PROVE  /\ a \div d \in Nat /\ a % d \in 0 .. d - 1
         /\ a = d * (a \div d) + (a % d)
<1>1. a \div d \in Nat /\ a % d \in 0 .. d - 1
  OBVIOUS
<1>2. a = d * (a \div d) + (a % d)
  BY Z3
<1> QED BY <1>1, <1>2

\* Quotient and remainder are unique.
LEMMA DivModUnique ==
  ASSUME NEW d \in Nat \ {0}, NEW q \in Nat, NEW r \in 0 .. d - 1
  PROVE  (d * q + r) \div d = q /\ (d * q + r) % d = r
OBVIOUS

\* A number of d * k values has a quotient of k values.
LEMMA DivRange ==
  ASSUME NEW a \in Nat, NEW d \in Nat \ {0}, NEW k \in Nat, a < d * k
  PROVE  a \div d < k
<1> DEFINE q == a \div d
<1>1. q \in Nat /\ a >= d * q
  BY DivMod
<1> HIDE DEF q
<1>2. q >= k => d * q >= d * k
  BY <1>1
<1> QED BY <1>1, <1>2 DEF q

\* A remainder of a number is below the divisor and not above the number.
LEMMA ModRange ==
  ASSUME NEW d \in Nat \ {0}, NEW a \in Nat
  PROVE  a % d \in 0 .. d - 1 /\ a % d <= a
OBVIOUS

\* A product with a positive factor keeps the order.
LEMMA ProductOrder ==
  ASSUME NEW d \in Nat \ {0}, NEW a \in Int, NEW b \in Int
  PROVE  /\ a < b <=> a * d < b * d
         /\ a <= b <=> a * d <= b * d
<1>1. a < b => a * d < b * d
  OBVIOUS
<1>2. b < a => b * d < a * d
  OBVIOUS
<1> QED BY <1>1, <1>2

(***************************************************************************)
(* Induction over the natural numbers, on sets.                            *)
(***************************************************************************)
NatLess == OpToRel(<, Nat)

\* A set of natural numbers that is not empty has a least element.
LEMMA LeastOf ==
  ASSUME NEW S, S \subseteq Nat, S # {}
  PROVE  \E m \in S : \A k \in S : m <= k
<1>1. IsWellFoundedOn(NatLess, Nat)
  BY NatLessThanWellFounded DEF NatLess
<1> HIDE DEF NatLess
<1>2. PICK m \in S : \A k \in S : ~(<<k, m>> \in NatLess)
  BY <1>1, WFMin
<1>3. \A k \in S : k < m => <<k, m>> \in NatLess
  BY DEF NatLess, OpToRel
<1>4. \A k \in S : ~(k < m)
  BY <1>2, <1>3
<1> QED BY <1>4

\* A set that has 0, and with each number the next, has all numbers.
LEMMA SetInduction ==
  ASSUME NEW S, 0 \in S, \A k \in Nat : k \in S => k + 1 \in S
  PROVE  Nat \subseteq S
<1> SUFFICES ASSUME Nat \ S # {}
             PROVE  FALSE
  OBVIOUS
<1>1. PICK m \in Nat \ S : \A k \in Nat \ S : m <= k
  BY LeastOf
<1>2. m # 0 /\ m - 1 \in Nat /\ m - 1 \in S
  BY <1>1
<1> QED BY <1>1, <1>2

(***************************************************************************)
(* The inductive invariant.                                                *)
(***************************************************************************)
MpPaths == {<<"P0", "P1", "P2", "P3">>, <<"P0", "P1", "P23">>, <<"P01", "P23">>}
Grid == 0..(GridSize - 1)

LaunchOK ==
  /\ input \in Inputs
  /\ path \in MpPaths \union {<<>>}
  /\ sorts \in Nat
  /\ stage \in 1..(Len(path) + 1)
  /\ DOMAIN at = IF stage \in DOMAIN path THEN Blocks(Kernel) ELSE {}
  /\ DOMAIN mesh = Experts \X (0..(MeshStride - 1))

\* the first kernel of the first launch runs
First == path # <<>> /\ sorts = 0 /\ stage = 1

\* a block has entered its pairs
HasEntered(b) == First => at[b] # "start"

MeshOK ==
  path # <<>> =>
    \A t \in Tokens, k \in 0..(Topk - 1) :
      (\E b \in Grid : <<t, k>> \in PairsOf(b) /\ HasEntered(b))
        => mesh[<<input.ids[t][k], t>>] = k + 1

\* the blocks that the semaphore has counted
Counted == {b \in 0..(WGCounts - 1) : at[b] \in {"wait", "done"}}

SemOK ==
  path = <<"P01", "P23">> =>
    /\ sem \in Nat
    /\ IF First THEN sem = Cardinality(Counted) ELSE sem >= WGCounts

MpInv == LaunchOK /\ MeshOK /\ SemOK

(***************************************************************************)
(* The problem.                                                            *)
(***************************************************************************)
\* What the host hands over.
LEMMA Problem ==
  ASSUME input \in Inputs
  PROVE  /\ input.tokens \in Nat \ {0} /\ input.experts \in Nat \ {0}
         /\ Topk \in Nat \ {0} /\ BlockThreads \in Nat \ {0} /\ GridSize \in Nat \ {0}
         /\ \A t \in Tokens, k \in 0..(Topk - 1) : input.ids[t][k] \in Experts
         /\ \A t \in Tokens : \A k, l \in 0..(Topk - 1) :
              input.ids[t][k] = input.ids[t][l] => k = l
<1>1. BlockThreads \in Nat \ {0}
  BY WaveScanAssumption DEF BlockThreads, WarpSize
<1> QED BY <1>1, InputsAssumption, SortAssumption, MpAssumption DEF Tokens, Experts

\* A multiple of d next to x is not below it.
LEMMA CeilMultiple ==
  ASSUME NEW x \in Nat, NEW d \in Nat \ {0}
  PROVE  IntegerDivideCeil(x, d) \in Nat /\ x <= IntegerDivideCeil(x, d) * d
<1> DEFINE q == (x + d - 1) \div d
           r == (x + d - 1) % d
<1>1. x + d - 1 \in Nat
  OBVIOUS
<1>2. q \in Nat /\ r \in 0 .. d - 1 /\ x + d - 1 = d * q + r
  BY <1>1, DivMod
<1> HIDE DEF q, r
<1>3. x <= q * d
  BY <1>2
<1> QED BY <1>2, <1>3 DEF IntegerDivideCeil, q

\* The quotient of a number below x is below that of x, rounded up.
LEMMA CeilAbove ==
  ASSUME NEW x \in Nat, NEW d \in Nat \ {0}, NEW y \in 0..(x - 1)
  PROVE  y \div d \in Nat /\ y \div d < IntegerDivideCeil(x, d)
<1>1. IntegerDivideCeil(x, d) \in Nat /\ x <= IntegerDivideCeil(x, d) * d
  BY CeilMultiple
<1> DEFINE q == IntegerDivideCeil(x, d)
<1> HIDE DEF q
<1>2. y \in Nat /\ y < d * q
  BY <1>1 DEF q
<1>3. y \div d < q
  BY <1>1, <1>2, DivRange DEF q
<1>4. y \div d \in Nat
  BY <1>2, DivMod
<1> QED BY <1>3, <1>4 DEF q

\* Every pair is somebody's; in P01, that of one of the first WGCounts blocks.
LEMMA PairsDealt ==
  ASSUME input \in Inputs, NEW t \in Tokens, NEW k \in 0..(Topk - 1)
  PROVE  /\ \E b \in Grid : <<t, k>> \in PairsOf(b)
         /\ path = <<"P01", "P23">> =>
              \E b \in 0..(WGCounts - 1) : <<t, k>> \in PairsOf(b)
<1> DEFINE x == t * Topk + k
           tile == TopkTile
           y == x \div tile
           z == y \div BlockThreads
<1>1. /\ input.tokens \in Nat \ {0} /\ Topk \in Nat \ {0} /\ BlockThreads \in Nat \ {0}
      /\ GridSize \in Nat \ {0} /\ t \in 0..(input.tokens - 1)
  BY Problem DEF Tokens
<1>2. x \in Nat /\ x \div Topk = t /\ x % Topk = k
  <2>1. t \in Nat /\ x = Topk * t + k
    BY <1>1
  <2>2. (Topk * t + k) \div Topk = t /\ (Topk * t + k) % Topk = k
    BY <1>1, <2>1, DivModUnique
  <2>3. x \in Nat
    BY <1>1
  <2> HIDE DEF x
  <2> QED BY <2>1, <2>2, <2>3
<1>3. x < input.tokens * Topk
  <2>1. t + 1 <= input.tokens /\ (t + 1) * Topk <= input.tokens * Topk
    BY <1>1, ProductOrder
  <2> QED BY <1>1, <2>1
<1>4. /\ tile \in Nat \ {0} /\ TotalElem \in Nat /\ TotalElem * tile = input.tokens * Topk
      /\ path = <<"P01", "P23">> => tile = 1 /\ TotalElem = input.tokens * Topk
  <2>1. input.tokens * Topk \in Nat
    BY <1>1
  <2>2. tile \in {1, 4} /\ (tile = 4 => (input.tokens * Topk) % 4 = 0)
        /\ (path = <<"P01", "P23">> => tile = 1)
    BY DEF TopkTile, Packed
  <2> DEFINE e == input.tokens * Topk
  <2>3. TotalElem = e \div tile
    BY DEF TotalElem
  <2> HIDE DEF e, tile
  <2>4. e \div tile \in Nat /\ (e \div tile) * tile = e /\ (tile = 1 => e \div tile = e)
    BY <2>1, <2>2 DEF e
  <2> QED BY <2>2, <2>3, <2>4 DEF e
<1> HIDE DEF x, tile
<1>5. y \in Nat /\ z \in Nat
  BY <1>1, <1>2, <1>4, DivMod
<1>6. x \in 0..(TotalElem * tile - 1)
  BY <1>1, <1>2, <1>3, <1>4
<1>7. \A b : z % GridSize = b => <<t, k>> \in PairsOf(b)
  BY <1>2, <1>6 DEF PairsOf, tile
<1> HIDE DEF z, y
<1>8. z % GridSize \in Grid
  BY <1>1, <1>5 DEF Grid
<1>9. ASSUME path = <<"P01", "P23">> PROVE z % GridSize \in 0..(WGCounts - 1)
  <2> DEFINE total == IntegerDivideCeil(TotalElem, BlockThreads)
  <2>1. z < total /\ total \in Nat
    <3>1. y = x
      BY <1>2, <1>4, <1>9 DEF y
    <3>2. x \in 0..(TotalElem - 1) /\ TotalElem \in Nat
      BY <1>4, <1>6, <1>9
    <3> QED BY <1>1, <3>1, <3>2, CeilAbove, CeilMultiple DEF z
  <2> HIDE DEF total
  <2>2. WGCounts \in {total, GridSize}
    BY <1>1, <2>1 DEF WGCounts, Min, total
  <2>3. z % GridSize <= z /\ z % GridSize < GridSize /\ z % GridSize \in Nat
    <3>1. GridSize \in Nat \ {0} /\ z \in Nat
      BY <1>1, <1>5
    <3>2. z % GridSize \in 0 .. GridSize - 1 /\ z % GridSize <= z
      BY <3>1, ModRange
    <3> QED BY <3>1, <3>2
  <2> QED BY <1>1, <1>5, <2>1, <2>2, <2>3
<1> QED BY <1>7, <1>8, <1>9

\* There are WGCounts blocks to count.
LEMMA CountsType ==
  ASSUME input \in Inputs, path = <<"P01", "P23">>
  PROVE  WGCounts \in Nat /\ 0..(WGCounts - 1) \subseteq Grid
<1>1. /\ input.tokens \in Nat \ {0} /\ Topk \in Nat \ {0} /\ BlockThreads \in Nat \ {0}
      /\ GridSize \in Nat \ {0}
  BY Problem
<1>2. TotalElem = (input.tokens * Topk) \div 1
  BY DEF TotalElem, TopkTile, Packed
<1>3. TotalElem \in Nat
  BY <1>1, <1>2
<1> DEFINE total == IntegerDivideCeil(TotalElem, BlockThreads)
<1>4. total \in Nat
  BY <1>1, <1>3, CeilMultiple
<1> HIDE DEF total
<1>5. WGCounts \in {total, GridSize} /\ WGCounts <= GridSize
  BY <1>1, <1>4 DEF WGCounts, Min, total
<1> QED BY <1>1, <1>4, <1>5 DEF Grid

(***************************************************************************)
(* The mesh.                                                               *)
(***************************************************************************)
\* A pair's place in the mesh.
LEMMA CellOf ==
  ASSUME LaunchOK, NEW t \in Tokens, NEW k \in 0..(Topk - 1)
  PROVE  <<input.ids[t][k], t>> \in DOMAIN mesh
<1>1. input.ids[t][k] \in Experts /\ input.tokens \in Nat
  BY Problem DEF LaunchOK
<1>2. MeshChunk \in Nat \ {0}
  BY MpAssumption
<1>3. IntegerDivideCeil(input.tokens, MeshChunk) \in Nat
      /\ input.tokens <= IntegerDivideCeil(input.tokens, MeshChunk) * MeshChunk
  BY <1>1, <1>2, CeilMultiple
<1>4. MeshStride \in Int /\ input.tokens <= MeshStride
  BY <1>1, <1>2, <1>3 DEF MeshStride
<1>5. t \in 0..(MeshStride - 1)
  BY <1>1, <1>4 DEF Tokens
<1> QED BY <1>1, <1>5 DEF LaunchOK

\* A block enters its own pairs, and leaves the others.
LEMMA Entering ==
  ASSUME LaunchOK, NEW b, NEW t \in Tokens, NEW k \in 0..(Topk - 1)
  PROVE  LET cell == <<input.ids[t][k], t>>
         IN  MeshWith(b)[cell] = IF <<t, k>> \in PairsOf(b) THEN k + 1 ELSE mesh[cell]
<1> DEFINE e == input.ids[t][k]
           S == {l \in 0..(Topk - 1) : <<t, l>> \in PairsOf(b) /\ input.ids[t][l] = e}
<1>1. MeshWith(b)[<<e, t>>] = IF S = {} THEN mesh[<<e, t>>] ELSE (CHOOSE l \in S : TRUE) + 1
  <2> DEFINE in(x, u) == {l \in 0..(Topk - 1) : <<u, l>> \in PairsOf(b) /\ input.ids[u][l] = x}
             one(T) == (CHOOSE l \in T : TRUE) + 1
             value(c) == IF in(c[1], c[2]) = {} THEN mesh[c] ELSE one(in(c[1], c[2]))
  <2>1. MeshWith(b) = [c \in DOMAIN mesh |-> value(c)]
    BY DEF MeshWith
  <2>2. value(<<e, t>>) = IF in(e, t) = {} THEN mesh[<<e, t>>] ELSE one(in(e, t))
    <3> HIDE DEF in, one
    <3> QED OBVIOUS
  <2>3. MeshWith(b)[<<e, t>>] = value(<<e, t>>)
    <3> HIDE DEF value
    <3> QED BY <2>1, CellOf
  <2> HIDE DEF value
  <2> QED BY <2>2, <2>3
<1>2. \A l \in 0..(Topk - 1) : input.ids[t][l] = e => l = k
  BY Problem DEF LaunchOK
<1>3. S = IF <<t, k>> \in PairsOf(b) THEN {k} ELSE {}
  BY <1>2
<1>4. (CHOOSE l \in {k} : TRUE) = k
  OBVIOUS
<1> HIDE DEF S, e
<1>5. MeshWith(b)[<<e, t>>] = IF <<t, k>> \in PairsOf(b) THEN k + 1 ELSE mesh[<<e, t>>]
  BY <1>1, <1>3, <1>4
<1> QED BY <1>5 DEF e

\* A block of the first kernel enters its pairs, the first time or again.
LEMMA EnterPairs ==
  ASSUME MpInv, NEW b \in DOMAIN at, path # <<>>, mesh' = MeshWith(b),
         UNCHANGED <<input, path, stage, sorts>>,
         NEW point, point # "start", at' = [at EXCEPT ![b] = point]
  PROVE  MeshOK' /\ DOMAIN mesh' = DOMAIN mesh
<1>1. DOMAIN mesh' = DOMAIN mesh
  BY DEF MeshWith
<1>2. ASSUME NEW t \in Tokens, NEW k \in 0..(Topk - 1), NEW c \in Grid,
             <<t, k>> \in PairsOf(c), HasEntered(c)'
      PROVE  mesh'[<<input.ids[t][k], t>>] = k + 1
  <2>1. CASE <<t, k>> \in PairsOf(b)
    BY <2>1, Entering DEF MpInv
  <2>2. CASE <<t, k>> \notin PairsOf(b)
    <3>1. c # b
      BY <1>2, <2>2
    <3>2. at'[c] = at[c]
      BY <3>1
    <3>3. HasEntered(c)
      BY <1>2, <3>2 DEF HasEntered, First
    <3>4. mesh[<<input.ids[t][k], t>>] = k + 1
      BY <1>2, <3>3 DEF MpInv, MeshOK
    <3> QED BY <2>2, <3>4, Entering DEF MpInv
  <2> QED BY <2>1, <2>2
<1>3. Tokens' = Tokens /\ input' = input /\ \A c : PairsOf(c)' = PairsOf(c)
  BY DEF Tokens, PairsOf, TotalElem, TopkTile, Packed
<1>4. MeshOK'
  BY <1>2, <1>3 DEF MeshOK
<1> QED BY <1>1, <1>4

\* What a step that leaves the mesh alone keeps of it.
LEMMA MeshStays ==
  ASSUME MpInv, UNCHANGED <<input, path, mesh>>,
         \A b \in Grid : HasEntered(b)' => HasEntered(b)
  PROVE  MeshOK' /\ DOMAIN mesh' = DOMAIN mesh
<1>1. Tokens' = Tokens /\ \A c : PairsOf(c)' = PairsOf(c)
  BY DEF Tokens, PairsOf, TotalElem, TopkTile, Packed
<1>2. MeshOK'
  BY <1>1 DEF MpInv, MeshOK
<1> QED BY <1>2

\* The mesh is complete once every block has entered its pairs.
LEMMA CompleteIfEntered ==
  ASSUME MpInv, path # <<>>, \A b \in Grid : HasEntered(b)
  PROVE  MeshComplete
BY PairsDealt DEF MpInv, LaunchOK, MeshOK, MeshComplete

\* In P01 the semaphore tells it.
LEMMA CompleteIfOpen ==
  ASSUME MpInv, path = <<"P01", "P23">>, sem >= WGCounts
  PROVE  MeshComplete
<1>1. input \in Inputs /\ path # <<>> /\ sem \in Nat
  BY DEF MpInv, LaunchOK, SemOK
<1>2. WGCounts \in Nat /\ 0..(WGCounts - 1) \subseteq Grid
  BY <1>1, CountsType
<1>3. CASE ~First
  BY <1>1, <1>3, CompleteIfEntered DEF HasEntered
<1>4. CASE First
  <2>1. sem = Cardinality(Counted)
    BY <1>4 DEF MpInv, SemOK
  <2>2. IsFiniteSet(0..(WGCounts - 1)) /\ Cardinality(0..(WGCounts - 1)) = WGCounts
    BY <1>2, FS_Interval
  <2>3. Counted \subseteq 0..(WGCounts - 1)
    BY DEF Counted
  <2>4. Counted = 0..(WGCounts - 1)
    <3> DEFINE I == 0..(WGCounts - 1)
    <3>1. IsFiniteSet(I) /\ Counted \in SUBSET I
      BY <2>2, <2>3
    <3>2. Cardinality(Counted) <= Cardinality(I) /\ Cardinality(I) = WGCounts
      <4> HIDE DEF I
      <4> QED BY <2>2, <3>1, FS_Subset DEF I
    <3>3. Cardinality(I) = Cardinality(Counted)
      BY <1>1, <1>2, <2>1, <3>2
    <3> HIDE DEF I
    <3>4. I = Counted
      BY <3>1, <3>3, FS_Subset
    <3> QED BY <3>4 DEF I
  <2>5. \A b \in 0..(WGCounts - 1) : at[b] \in {"wait", "done"}
    BY <2>4 DEF Counted
  <2>6. \A b \in 0..(WGCounts - 1) : HasEntered(b) /\ b \in Grid
    BY <1>2, <2>5 DEF HasEntered
  <2> QED BY <1>1, <2>6, PairsDealt DEF MpInv, MeshOK, MeshComplete
<1> QED BY <1>3, <1>4

(***************************************************************************)
(* The steps.                                                              *)
(***************************************************************************)
\* The kernels of a path, and which of them work on the mesh.
LEMMA KernelOf ==
  ASSUME path \in MpPaths \union {<<>>}, stage \in 1..(Len(path) + 1)
  PROVE  /\ First => stage \in DOMAIN path
         /\ stage \notin DOMAIN path => stage = Len(path) + 1
         /\ stage \in DOMAIN path =>
              /\ path # <<>> /\ stage + 1 \in 1..(Len(path) + 1)
              /\ stage = 1 => Kernel \in {"P0", "P01"}
              /\ Kernel \in {"P0", "P01"} => stage = 1
              /\ Kernel = "P01" <=> path = <<"P01", "P23">> /\ stage = 1
         /\ path # <<>> => Len(path) > 1
<1>1. CASE path = <<>>
  BY <1>1 DEF First
<1>2. CASE path = <<"P0", "P1", "P2", "P3">>
  <2>1. Len(path) = 4 /\ DOMAIN path = 1..4
    BY <1>2
  <2>2. path[1] = "P0" /\ path[2] = "P1" /\ path[3] = "P2" /\ path[4] = "P3"
    BY <1>2
  <2>3. stage \in {1, 2, 3, 4, 5} /\ path # <<>> /\ path # <<"P01", "P23">>
    BY <1>2, <2>1
  <2> QED BY <2>1, <2>2, <2>3 DEF First, Kernel
<1>3. CASE path = <<"P0", "P1", "P23">>
  <2>1. Len(path) = 3 /\ DOMAIN path = 1..3
    BY <1>3
  <2>2. path[1] = "P0" /\ path[2] = "P1" /\ path[3] = "P23"
    BY <1>3
  <2>3. stage \in {1, 2, 3, 4} /\ path # <<>> /\ path # <<"P01", "P23">>
    BY <1>3, <2>1
  <2> QED BY <2>1, <2>2, <2>3 DEF First, Kernel
<1>4. CASE path = <<"P01", "P23">>
  <2>1. Len(path) = 2 /\ DOMAIN path = 1..2
    BY <1>4
  <2>2. path[1] = "P01" /\ path[2] = "P23"
    BY <1>4
  <2>3. stage \in {1, 2, 3} /\ path # <<>>
    BY <1>4, <2>1
  <2> QED BY <1>4, <2>1, <2>2, <2>3 DEF First, Kernel
<1> QED BY <1>1, <1>2, <1>3, <1>4 DEF MpPaths

\* What of the invariant no step of a block or a wave touches.
LEMMA LaunchStays ==
  ASSUME MpInv, UNCHANGED <<input, path, stage, sorts>>,
         DOMAIN at' = DOMAIN at, DOMAIN mesh' = DOMAIN mesh
  PROVE  LaunchOK' /\ First' = First /\ WGCounts' = WGCounts
<1>1. /\ Experts' = Experts /\ MeshStride' = MeshStride /\ Kernel' = Kernel
      /\ \A k : Blocks(k)' = Blocks(k)
  BY DEF Experts, MeshStride, Kernel, Blocks
<1>2. First' = First /\ WGCounts' = WGCounts
  BY DEF First, WGCounts, TotalElem, TopkTile, Packed
<1> QED BY <1>1, <1>2 DEF MpInv, LaunchOK

\* A step of a block of a kernel that leaves the mesh alone.
LEMMA LaterKernels ==
  ASSUME MpInv, NEW b, P1(b) \/ P2(b) \/ P3(b) \/ P23(b), UNCHANGED sorts
  PROVE  MpInv'
<1>1. /\ UNCHANGED <<input, path, stage, mesh, sem>> /\ stage \in DOMAIN path
      /\ Kernel \notin {"P0", "P01"} /\ DOMAIN at' = DOMAIN at
  BY DEF P1, P2, P3, P23, Running, Finish
<1>2. ~First
  BY <1>1, KernelOf DEF MpInv, LaunchOK, First
<1>3. LaunchOK' /\ ~First' /\ WGCounts' = WGCounts
  BY <1>1, <1>2, LaunchStays
<1>4. MeshOK'
  BY <1>1, <1>2, <1>3, MeshStays DEF HasEntered
<1>5. SemOK'
  BY <1>1, <1>2, <1>3 DEF MpInv, SemOK
<1> QED BY <1>3, <1>4, <1>5 DEF MpInv

\* A block of P0.
LEMMA MeshKernel ==
  ASSUME MpInv, NEW b \in DOMAIN at, P0(b), UNCHANGED sorts
  PROVE  MpInv'
<1>1. /\ UNCHANGED <<input, path, stage, sem>> /\ stage \in DOMAIN path /\ Kernel = "P0"
      /\ mesh' = MeshWith(b) /\ at' = [at EXCEPT ![b] = "done"]
  BY DEF P0, Running, Finish
<1>2. path # <<>> /\ path # <<"P01", "P23">>
  BY <1>1, KernelOf DEF MpInv, LaunchOK
<1>3. MeshOK' /\ DOMAIN mesh' = DOMAIN mesh
  BY <1>1, <1>2, EnterPairs
<1>4. LaunchOK'
  BY <1>1, <1>3, LaunchStays
<1>5. SemOK'
  BY <1>1, <1>2 DEF SemOK
<1> QED BY <1>3, <1>4, <1>5 DEF MpInv

\* The blocks of P01.
LEMMA BarrierKernel ==
  ASSUME MpInv, NEW b \in DOMAIN at, P01Mesh(b) \/ P01Inc(b) \/ P01Count(b), UNCHANGED sorts
  PROVE  MpInv'
<1>1. PICK point :
        /\ UNCHANGED <<input, path, stage>> /\ stage \in DOMAIN path /\ Kernel = "P01"
        /\ at' = [at EXCEPT ![b] = point]
        /\ \/ /\ point = "inc" /\ at[b] = "start" /\ mesh' = MeshWith(b) /\ UNCHANGED sem
           \/ /\ point \in {"wait", "done"} /\ at[b] = "inc" /\ UNCHANGED mesh
              /\ sem' = IF b < WGCounts THEN sem + 1 ELSE sem
           \/ /\ point = "done" /\ at[b] = "wait" /\ UNCHANGED <<mesh, sem>>
  BY DEF P01Mesh, P01Inc, P01Count, Running, Finish
<1>2. /\ path = <<"P01", "P23">> /\ path # <<>> /\ stage = 1
      /\ input \in Inputs /\ DOMAIN at = Grid
  BY <1>1, KernelOf DEF MpInv, LaunchOK, Blocks, Grid
<1>3. WGCounts \in Nat /\ 0..(WGCounts - 1) \subseteq Grid
  BY <1>2, CountsType
<1>4. MeshOK' /\ DOMAIN mesh' = DOMAIN mesh
  <2>1. CASE mesh' = MeshWith(b)
    BY <1>1, <1>2, <2>1, EnterPairs
  <2>2. CASE UNCHANGED mesh /\ at[b] # "start"
    <3>1. \A c \in Grid : HasEntered(c)' => HasEntered(c)
      BY <1>1, <1>2, <2>2 DEF HasEntered, First
    <3> QED BY <1>1, <2>2, <3>1, MeshStays
  <2> QED BY <1>1, <2>1, <2>2
<1>5. LaunchOK' /\ First' = First /\ WGCounts' = WGCounts
  BY <1>1, <1>4, LaunchStays
<1>6. SemOK'
  <2>1. sem \in Nat /\ IF First THEN sem = Cardinality(Counted) ELSE sem >= WGCounts
    BY <1>2 DEF MpInv, SemOK
  <2>2. sem' \in Nat /\ sem' >= sem
    BY <1>1, <2>1
  <2>3. CASE ~First
    BY <1>3, <1>5, <2>1, <2>2, <2>3 DEF SemOK
  <2>4. CASE First
    <3>1. Counted' = {c \in 0..(WGCounts - 1) : at'[c] \in {"wait", "done"}}
      BY <1>5 DEF Counted
    <3>2. b \in Nat /\ b \in DOMAIN at
      BY <1>2 DEF Grid
    <3>3. IsFiniteSet(Counted)
      <4> DEFINE I == 0..(WGCounts - 1)
      <4>1. IsFiniteSet(I) /\ Counted \in SUBSET I
        BY <1>3, FS_Interval DEF Counted
      <4> HIDE DEF I
      <4> QED BY <4>1, FS_Subset
    <3>4. CASE at[b] = "inc" /\ b < WGCounts
      <4>1. b \notin Counted /\ Counted' = Counted \union {b} /\ sem' = sem + 1
        BY <1>1, <1>2, <1>3, <3>1, <3>2, <3>4 DEF Counted
      <4>2. Cardinality(Counted \union {b}) = Cardinality(Counted) + 1
        BY <3>3, <4>1, FS_AddElement
      <4>3. sem' = Cardinality(Counted')
        BY <2>1, <2>4, <4>1, <4>2
      <4> QED BY <1>5, <2>2, <2>4, <4>3 DEF SemOK
    <3>5. CASE ~(at[b] = "inc" /\ b < WGCounts)
      <4>1. Counted' = Counted /\ sem' = sem
        <5>1. at[b] \in {"wait", "done"} => point \in {"wait", "done"}
          BY <1>1
        <5>2. point \in {"wait", "done"} /\ b < WGCounts => at[b] \in {"wait", "done"}
          BY <1>1, <3>5
        <5>3. \A c \in 0..(WGCounts - 1) :
                at'[c] \in {"wait", "done"} <=> at[c] \in {"wait", "done"}
          BY <1>1, <1>2, <1>3, <5>1, <5>2
        <5>4. sem' = sem
          BY <1>1, <3>5
        <5> QED BY <3>1, <5>3, <5>4 DEF Counted
      <4> QED BY <1>5, <2>1, <2>2, <2>4, <4>1 DEF SemOK
    <3> QED BY <3>4, <3>5
  <2> QED BY <2>3, <2>4
<1> QED BY <1>4, <1>5, <1>6 DEF MpInv

\* When nobody is on the way to the semaphore, it has counted all.
LEMMA AllCounted ==
  ASSUME MpInv, path = <<"P01", "P23">>, First,
         \A b \in DOMAIN at : at[b] \in {"wait", "done"}
  PROVE  sem >= WGCounts
<1>1. input \in Inputs /\ stage \in DOMAIN path /\ Kernel = "P01" /\ DOMAIN at = Grid
  BY KernelOf DEF MpInv, LaunchOK, First, Blocks, Grid
<1>2. WGCounts \in Nat /\ 0..(WGCounts - 1) \subseteq Grid
  BY <1>1, CountsType
<1>3. Counted = 0..(WGCounts - 1)
  BY <1>1, <1>2 DEF Counted
<1>4. Cardinality(0..(WGCounts - 1)) = WGCounts
  BY <1>2, FS_Interval
<1> QED BY <1>2, <1>3, <1>4 DEF MpInv, SemOK

\* The next kernel of the stream.
LEMMA NextKernelInv ==
  ASSUME MpInv, NextKernel, UNCHANGED sorts
  PROVE  MpInv'
<1>1. /\ UNCHANGED <<input, path, mesh, sem>> /\ stage \in DOMAIN path
      /\ stage' = stage + 1 /\ at' = StartOfKernel(stage + 1)
      /\ \A b \in DOMAIN at : at[b] = "done"
  BY DEF NextKernel
<1>2. /\ stage \in Nat /\ stage' \in 1..(Len(path) + 1) /\ path # <<>>
      /\ stage = 1 => Kernel \in {"P0", "P01"}
  BY <1>1, KernelOf DEF MpInv, LaunchOK
<1>3. ~First'
  BY <1>1, <1>2 DEF First, MpInv, LaunchOK
<1>4. LaunchOK'
  <2>1. DOMAIN at' = IF stage' \in DOMAIN path THEN Blocks(path[stage']) ELSE {}
    BY <1>1 DEF StartOfKernel, Nothing
  <2>2. Kernel' = path[stage'] /\ \A k : Blocks(k)' = Blocks(k)
    BY <1>1 DEF Kernel, Blocks, Experts, ZeroBlocks
  <2>3. Experts' = Experts /\ MeshStride' = MeshStride
    BY <1>1 DEF Experts, MeshStride
  <2> QED BY <1>1, <1>2, <2>1, <2>2, <2>3 DEF MpInv, LaunchOK
<1>5. MeshOK'
  <2>1. \A b \in Grid : HasEntered(b)
    <3>1. First => DOMAIN at = Grid
      BY <1>1, <1>2 DEF First, MpInv, LaunchOK, Blocks, Grid
    <3> QED BY <1>1, <3>1 DEF HasEntered
  <2> QED BY <1>1, <2>1, MeshStays
<1>6. SemOK'
  <2>1. path = <<"P01", "P23">> => sem \in Nat /\ sem >= WGCounts
    BY <1>1, AllCounted DEF MpInv, SemOK
  <2>2. WGCounts' = WGCounts
    BY <1>1 DEF WGCounts, TotalElem, TopkTile, Packed
  <2> QED BY <1>1, <1>3, <2>1, <2>2 DEF SemOK
<1> QED BY <1>4, <1>5, <1>6 DEF MpInv

\* The next launch: with the workspace as it is.
LEMMA AgainInv ==
  ASSUME MpInv, Again
  PROVE  MpInv'
<1>1. /\ UNCHANGED <<input, path, mesh, sem>> /\ sorts' = sorts + 1
      /\ (stage' = 1 /\ at' = StartOfKernel(1)) \/ UNCHANGED <<stage, at>>
      /\ path # <<>> => stage = Len(path) + 1
  BY DEF Again, Finished
<1>2. sorts \in Nat /\ path \in MpPaths \union {<<>>} /\ stage \in 1..(Len(path) + 1)
  BY DEF MpInv, LaunchOK
<1>3. Len(path) \in Nat
  BY <1>2 DEF MpPaths
<1>4. ~First' /\ ~First
  BY <1>1, <1>2, KernelOf DEF First
<1>5. LaunchOK'
  <2>1. DOMAIN at' = IF stage' \in DOMAIN path THEN Blocks(path[stage']) ELSE {}
    BY <1>1 DEF StartOfKernel, Nothing, MpInv, LaunchOK, Kernel
  <2>2. Kernel' = path[stage'] /\ \A k : Blocks(k)' = Blocks(k)
    BY <1>1 DEF Kernel, Blocks, Experts, ZeroBlocks
  <2>3. Experts' = Experts /\ MeshStride' = MeshStride
    BY <1>1 DEF Experts, MeshStride
  <2>4. stage' \in 1..(Len(path) + 1)
    BY <1>1, <1>2, <1>3
  <2> QED BY <1>1, <1>2, <2>1, <2>2, <2>3, <2>4 DEF MpInv, LaunchOK
<1>6. MeshOK'
  BY <1>1, <1>4, MeshStays DEF HasEntered
<1>7. SemOK'
  <2>1. WGCounts' = WGCounts
    BY <1>1 DEF WGCounts, TotalElem, TopkTile, Packed
  <2> QED BY <1>1, <1>4, <2>1 DEF MpInv, SemOK
<1> QED BY <1>5, <1>6, <1>7 DEF MpInv

(***************************************************************************)
(* The theorems.                                                           *)
(***************************************************************************)
\* The workspace is empty at first.
LEMMA MpInit == Init => MpInv
<1> SUFFICES ASSUME Init PROVE MpInv
  OBVIOUS
<1>1. /\ input \in Inputs /\ sorts = 0 /\ stage = 1 /\ sem = 0 /\ at = StartOfKernel(1)
      /\ mesh = [et \in Experts \X (0..(MeshStride - 1)) |-> 0]
  BY DEF Init, Workspace
<1>2. path \in MpPaths \union {<<>>}
  BY DEF Init, Paths, MpPaths
<1>3. Len(path) \in Nat
  BY <1>2 DEF MpPaths
<1>4. LaunchOK
  <2>1. DOMAIN at = IF stage \in DOMAIN path THEN Blocks(Kernel) ELSE {}
    BY <1>1 DEF StartOfKernel, Nothing, Kernel
  <2> QED BY <1>1, <1>2, <1>3, <2>1 DEF LaunchOK
<1>5. \A b \in DOMAIN at : at[b] = "start"
  BY <1>1 DEF StartOfKernel, Nothing
<1>6. path # <<>> => First /\ DOMAIN at = Grid
  <2>1. path # <<>> => First /\ Kernel \in {"P0", "P01"} /\ stage \in DOMAIN path
    BY <1>1, <1>2, <1>4, KernelOf DEF First, LaunchOK
  <2> QED BY <1>4, <2>1 DEF LaunchOK, Blocks, Grid
<1>7. MeshOK
  BY <1>5, <1>6 DEF MeshOK, HasEntered
<1>8. SemOK
  <2> SUFFICES ASSUME path = <<"P01", "P23">> PROVE sem = Cardinality(Counted) /\ First
    BY <1>1 DEF SemOK
  <2>1. WGCounts \in Nat /\ 0..(WGCounts - 1) \subseteq Grid
    BY <1>1, CountsType
  <2>2. Counted = {}
    BY <1>5, <1>6, <2>1 DEF Counted
  <2> QED BY <1>1, <1>6, <2>2, FS_EmptySet
<1> QED BY <1>4, <1>7, <1>8 DEF MpInv

\* Every step preserves the invariant, one case per action.
LEMMA MpStep == MpInv /\ [Next]_vars => MpInv'
<1> SUFFICES ASSUME MpInv, [Next]_vars PROVE MpInv'
  OBVIOUS
<1>1. ASSUME UNCHANGED <<input, mpVars, sorts>> PROVE MpInv'
  <2>1. UNCHANGED <<input, path, stage, at, mesh, sem, sorts>>
    BY <1>1 DEF mpVars
  <2>2. LaunchOK' /\ First' = First /\ WGCounts' = WGCounts
    BY <2>1, LaunchStays
  <2>3. MeshOK'
    BY <2>1, <2>2, MeshStays DEF HasEntered
  <2>4. SemOK'
    BY <2>1, <2>2 DEF MpInv, SemOK, Counted
  <2> QED BY <2>2, <2>3, <2>4 DEF MpInv
<1>2. CASE UNCHANGED vars
  BY <1>1, <1>2 DEF vars
<1>3. CASE MpNext /\ UNCHANGED sorts
  BY <1>3, LaterKernels, MeshKernel, BarrierKernel, NextKernelInv DEF MpNext
<1>4. CASE ExNext /\ UNCHANGED <<mpVars, sorts>>
  BY <1>1, <1>4 DEF ExNext
<1>5. CASE Again
  BY <1>5, AgainInv
<1>6. CASE Terminated
  BY <1>2, <1>6 DEF Terminated
<1> QED BY <1>2, <1>3, <1>4, <1>5, <1>6 DEF Next

\* The invariant holds in every reachable state.
LEMMA MpInvariance == Spec => []MpInv
BY MpInit, MpStep, PTL DEF Spec

\* Blocks that wait at the semaphore of P01 never wait for nobody: when no
\* block is on the way to it, it stands at the count they wait for, in the
\* first launch and in those that find it as the launch before left it.
THEOREM SemaphoreAlwaysOpens == Spec => []SemaphoreOpens
<1>1. MpInv => SemaphoreOpens
  <2> SUFFICES ASSUME MpInv, path # <<>>, Head(path) = "P01",
                      \A b \in DOMAIN at : at[b] \in {"wait", "done"}
               PROVE  sem >= WGCounts
    BY DEF SemaphoreOpens
  <2>1. path = <<"P01", "P23">>
    BY DEF MpInv, LaunchOK, MpPaths
  <2>2. CASE First
    BY <2>1, <2>2, AllCounted
  <2>3. CASE ~First
    BY <2>1, <2>3 DEF MpInv, SemOK
  <2> QED BY <2>2, <2>3
<1> QED BY <1>1, MpInvariance, PTL

\* No kernel counts an expert's tokens before every block has entered its
\* pairs into the mesh: the stream orders P1 behind P0, and in P01 no block
\* passes the semaphore too early, in this launch or the next.
THEOREM CountsAfterMesh == Spec => CountsCompleteMesh
<1> DEFINE A == (stage \in DOMAIN path /\ Kernel \in {"P1", "P01"}
                   /\ expert_cumsum' # expert_cumsum) => MeshComplete
<1>1. MpInv /\ [Next]_vars => [A]_vars
  <2> SUFFICES ASSUME MpInv, [Next]_vars, stage \in DOMAIN path, Kernel \in {"P1", "P01"},
                      expert_cumsum' # expert_cumsum
               PROVE  MeshComplete
    OBVIOUS
  <2>1. (\E b : P1(b) \/ P2(b) \/ P3(b) \/ P23(b)) \/ (\E b : P01Count(b))
    BY DEF Next, vars, mpVars, MpNext, P0, P01Mesh, P01Inc, NextKernel, ExNext, Again, Terminated
  <2>2. path # <<>> /\ (Kernel = "P01" => path = <<"P01", "P23">>)
        /\ (Kernel = "P1" => ~First)
    BY KernelOf DEF MpInv, LaunchOK, First
  <2>3. CASE Kernel = "P1"
    BY <2>2, <2>3, CompleteIfEntered DEF HasEntered
  <2>4. CASE Kernel = "P01"
    <3>1. sem >= WGCounts
      BY <2>1, <2>4 DEF P1, P2, P3, P23, P01Count, Running
    <3> QED BY <2>2, <2>4, <3>1, CompleteIfOpen
  <2> QED BY <2>3, <2>4
<1>2. [][Next]_vars /\ []MpInv => [][A]_vars
  BY <1>1, PTL
<1> QED BY <1>2, MpInvariance, PTL DEF Spec, CountsCompleteMesh

(***************************************************************************)
(* One block.  Its waves are never further apart than a piece that ends    *)
(* without a barrier lets them be.                                         *)
(***************************************************************************)
Pieces == {"clear", "load", "count", "scan", "ids", "clear2", "load2", "fill", "pad", "done"}

\* pieces that end without a barrier, and the end
NoBarrier == {"ids", "pad", "done"}

\* no barrier between what two waves do
Adjacent(p, q) ==
  p = q \/ {p, q} \subseteq {"ids", PieceAfterIds} \/ {p, q} \subseteq {"pad", "done"}

WavesInv ==
  /\ input \in Inputs
  /\ pc \in [Waves -> Pieces] /\ waiting \in [Waves -> BOOLEAN]
  /\ path # <<>> => \A w \in Waves : pc[w] = "done"
  /\ \A w \in Waves : waiting[w] => pc[w] \notin NoBarrier
  /\ \A v, w \in Waves : Adjacent(pc[v], pc[w]) /\ i_token[v] = i_token[w]
  /\ DOMAIN smem_cumsum = 0..input.experts

\* experts for the lane groups of one wave: 8 of them in the code
GroupsPerWave == WarpSize \div LaneGroup

\* the problems that one block sorts in one round have no more
FewIfOneRound ==
  \A in \in Inputs : in.tokens <= SubTokens(in.tokens, in.experts) => in.experts <= GroupsPerWave

OneRoundSmall == SubTokenOneShot => input.experts <= GroupsPerWave

\* A wave that waits at a barrier has not moved.
LEMMA ArriveInv ==
  ASSUME WavesInv, NEW w \in Waves, NEW p, p \notin NoBarrier, At(w, p), Arrive(w),
         UNCHANGED <<input, sub_tokens, path>>, DOMAIN smem_cumsum' = DOMAIN smem_cumsum
  PROVE  WavesInv'
<1>1. /\ waiting' = [waiting EXCEPT ![w] = TRUE] /\ UNCHANGED <<pc, i_token>> /\ pc[w] = p
  BY DEF At, Arrive
<1>2. PieceAfterIds' = PieceAfterIds
  BY DEF PieceAfterIds, SubTokenOneShot
<1> QED BY <1>1, <1>2 DEF WavesInv, Adjacent

\* A wave goes on without a barrier.
LEMMA GoToInv ==
  ASSUME WavesInv, path = <<>>, NEW w \in Waves, NEW p, NEW q, At(w, p), GoTo(w, q),
         (p = "ids" /\ q = PieceAfterIds) \/ (p = "pad" /\ q = "done"),
         UNCHANGED <<input, sub_tokens, path, smem_cumsum>>
  PROVE  WavesInv'
<1>1. /\ pc' = [pc EXCEPT ![w] = q] /\ UNCHANGED <<waiting, i_token>>
      /\ pc[w] = p /\ ~waiting[w]
  BY DEF At, GoTo
<1>2. PieceAfterIds' = PieceAfterIds /\ PieceAfterIds \in {"fill", "clear2"}
  BY DEF PieceAfterIds, SubTokenOneShot
<1>3. pc' \in [Waves -> Pieces]
  BY <1>1, <1>2 DEF WavesInv, Pieces
<1>4. \A v \in Waves : waiting'[v] => pc'[v] \notin NoBarrier
  BY <1>1 DEF WavesInv
<1>5. \A v \in Waves : Adjacent(pc[v], p) /\ Adjacent(p, pc[v])
  BY <1>1 DEF WavesInv
<1>6. \A v \in Waves : Adjacent(pc[v], q) /\ Adjacent(q, pc[v])
  BY <1>2, <1>5 DEF Adjacent
<1>7. \A u, v \in Waves : Adjacent(pc'[u], pc'[v])
  BY <1>1, <1>6 DEF WavesInv, Adjacent
<1> QED BY <1>1, <1>2, <1>3, <1>4, <1>7 DEF WavesInv, Adjacent

\* At a barrier all waves stand at the same piece, and go on alike.
LEMMA SyncInv ==
  ASSUME WavesInv, path = <<>>, Syncthreads, UNCHANGED <<input, sub_tokens, path>>
  PROVE  WavesInv'
<1>1. /\ \A w \in Waves : waiting[w]
      /\ pc' = [w \in Waves |-> AfterBarrier(w)] /\ i_token' = [w \in Waves |-> RoundAfter(w)]
      /\ waiting' = [w \in Waves |-> FALSE] /\ UNCHANGED smem_cumsum
  BY DEF Syncthreads
<1>2. \A v, w \in Waves : pc[v] = pc[w] /\ i_token[v] = i_token[w]
  BY <1>1 DEF WavesInv, Adjacent, NoBarrier
<1>3. \A v, w \in Waves : AfterBarrier(v) = AfterBarrier(w) /\ RoundAfter(v) = RoundAfter(w)
  BY <1>2 DEF AfterBarrier, RoundAfter, MoreRounds
<1>4. \A w \in Waves : AfterBarrier(w) \in Pieces
  <2> SUFFICES ASSUME NEW w \in Waves PROVE AfterBarrier(w) \in Pieces
    OBVIOUS
  <2>1. pc[w] \in {"clear", "load", "count", "scan", "clear2", "load2", "fill"}
    BY <1>1 DEF WavesInv, NoBarrier, Pieces
  <2> QED BY <2>1 DEF AfterBarrier, Pieces
<1> QED BY <1>1, <1>3, <1>4 DEF WavesInv, Adjacent

\* What a step of the block does to it.
LEMMA BlockStep ==
  ASSUME WavesInv, path = <<>>, ExNext, UNCHANGED mpVars
  PROVE  WavesInv'
<1>1. UNCHANGED <<input, sub_tokens, path>>
  BY DEF ExNext, mpVars
<1>2. ASSUME NEW w \in Waves, NEW point \in {"clear", "clear2"}, Clear(w, point) PROVE WavesInv'
  BY <1>1, <1>2, ArriveInv DEF Clear, NoBarrier
<1>3. ASSUME NEW w \in Waves, Load(w) PROVE WavesInv'
  BY <1>1, <1>3, ArriveInv DEF Load, NoBarrier
<1>4. ASSUME NEW w \in Waves, Load2(w) PROVE WavesInv'
  BY <1>1, <1>4, ArriveInv DEF Load2, NoBarrier
<1>5. ASSUME NEW w \in Waves, Count(w) PROVE WavesInv'
  <2>1. At(w, "count") /\ Arrive(w) /\ DOMAIN smem_cumsum' = DOMAIN smem_cumsum
    BY <1>5 DEF Count
  <2> QED BY <1>1, <2>1, ArriveInv DEF NoBarrier
<1>6. ASSUME NEW w \in Waves, Scan(w) PROVE WavesInv'
  <2>1. At(w, "scan") /\ Arrive(w) /\ DOMAIN smem_cumsum' = DOMAIN smem_cumsum
    BY <1>6 DEF Scan
  <2> QED BY <1>1, <2>1, ArriveInv DEF NoBarrier
<1>7. ASSUME NEW w \in Waves, Ids(w) PROVE WavesInv'
  BY <1>1, <1>7, GoToInv DEF Ids
<1>8. ASSUME NEW w \in Waves, Fill(w) PROVE WavesInv'
  <2>1. At(w, "fill") /\ Arrive(w) /\ DOMAIN smem_cumsum' = DOMAIN smem_cumsum
    BY <1>8 DEF Fill, UpdatedAt
  <2> QED BY <1>1, <2>1, ArriveInv DEF NoBarrier
<1>9. ASSUME NEW w \in Waves, Pad(w) PROVE WavesInv'
  BY <1>1, <1>9, GoToInv DEF Pad, smemVars
<1>10. ASSUME ClearMoeBuf PROVE WavesInv'
  <2>1. UNCHANGED <<pc, waiting, i_token, smem_cumsum>>
    BY <1>10 DEF ClearMoeBuf
  <2> QED BY <1>1, <2>1 DEF WavesInv, Adjacent, PieceAfterIds, SubTokenOneShot
<1> QED BY <1>1, <1>2, <1>3, <1>4, <1>5, <1>6, <1>7, <1>8, <1>9, <1>10, SyncInv DEF ExNext

\* Every step preserves it, and a problem that is sorted in one round is small.
LEMMA WavesStep == WavesInv /\ [Next]_vars => WavesInv'
<1> SUFFICES ASSUME WavesInv, [Next]_vars PROVE WavesInv'
  OBVIOUS
<1>1. ASSUME UNCHANGED <<input, path, exVars>> PROVE WavesInv'
  BY <1>1 DEF WavesInv, Adjacent, PieceAfterIds, SubTokenOneShot, exVars
<1>2. CASE UNCHANGED vars
  BY <1>1, <1>2 DEF vars, mpVars
<1>3. CASE MpNext /\ UNCHANGED <<exVars, sorts>>
  <2>1. UNCHANGED <<input, path>>
    BY <1>3 DEF MpNext, P0, P1, P01Mesh, P01Inc, P01Count, P2, P3, P23, NextKernel
  <2> QED BY <1>1, <1>3, <2>1
<1>4. CASE ExNext /\ path = <<>> /\ UNCHANGED <<mpVars, sorts>>
  BY <1>4, BlockStep
<1>5. CASE Again
  <2>1. /\ UNCHANGED <<input, path, sub_tokens, smem_cumsum, waiting, i_token>>
        /\ pc' = pc \/ pc' = StartOfBlock
        /\ \A w \in Waves : pc[w] = "done"
    BY <1>5 DEF Again, Finished, smemVars, WavesInv
  <2>2. \A w \in Waves : ~waiting[w]
    BY <2>1 DEF WavesInv, NoBarrier
  <2>3. pc' = [w \in Waves |-> IF path = <<>> THEN "clear" ELSE "done"] \/ pc' = pc
    BY <2>1 DEF StartOfBlock
  <2> QED BY <2>1, <2>2, <2>3 DEF WavesInv, Adjacent, Pieces
<1>6. CASE Terminated
  BY <1>2, <1>6 DEF Terminated
<1> QED BY <1>2, <1>3, <1>4, <1>5, <1>6 DEF Next

\* A launch starts all waves at the first piece.
LEMMA WavesInit == Init => WavesInv
BY DEF Init, WavesInv, StartOfBlock, Pieces, NoBarrier, Adjacent

\* How many rounds a block takes, no step changes.
LEMMA RoundsStay == Init /\ FewIfOneRound => OneRoundSmall
BY DEF Init, FewIfOneRound, OneRoundSmall, SubTokenOneShot

LEMMA RoundsStep == OneRoundSmall /\ [Next]_vars => OneRoundSmall'
<1>1. [Next]_vars => UNCHANGED <<input, sub_tokens>>
  BY DEF Next, vars, exVars, MpNext, P0, P1, P01Mesh, P01Inc, P01Count, P2, P3, P23, NextKernel,
         ExNext, Again, Terminated
<1> QED BY <1>1 DEF OneRoundSmall, SubTokenOneShot

\* The lane groups of a wave, and its threads.
LEMMA WaveSizes ==
  /\ GroupsPerWave = 8 /\ GroupsPerWave <= WarpSize /\ WarpSize \in Nat \ {0}
  /\ BlockThreads = NumWaves * WarpSize /\ NumWaves \in Nat \ {0}
  /\ GroupsPerBlock \in Nat \ {0}
<1>1. Row \in {2, 4, 8, 16} /\ NumWaves \in Nat \ {0}
  BY WaveScanAssumption
<1>2. LaneGroup \in {1, 2, 4, 8} /\ WarpSize = 8 * LaneGroup
  BY <1>1 DEF LaneGroup, WarpSize
<1>3. GroupsPerWave = 8
  BY <1>2 DEF GroupsPerWave
<1>4. GroupsPerBlock = NumWaves * 8
  <2>1. GroupsPerBlock = (NumWaves * (8 * LaneGroup)) \div LaneGroup
    BY <1>2 DEF GroupsPerBlock, BlockThreads
  <2> QED BY <1>1, <1>2, <2>1
<1> QED BY <1>1, <1>2, <1>3, <1>4 DEF BlockThreads

\* In one round, with few experts, the first wave has them all.
LEMMA FirstWaveHasAll ==
  ASSUME input \in Inputs, input.experts <= GroupsPerWave, NEW w \in Waves, w # 0
  PROVE  GroupExpertsOf(w) = {} /\ ThreadExpertsOf(w) = {}
<1>1. w \in Nat \ {0} /\ input.experts \in Nat \ {0}
  BY WaveSizes, Problem DEF Waves
<1>2. ASSUME NEW e \in Experts PROVE e \notin GroupExpertsOf(w) /\ e \notin ThreadExpertsOf(w)
  <2>1. e \in Nat /\ e < GroupsPerWave /\ e < WarpSize
    BY <1>1, WaveSizes DEF Experts
  <2>2. e % GroupsPerBlock \in Nat /\ e % GroupsPerBlock <= e
    <3>1. e \in Nat /\ GroupsPerBlock \in Nat \ {0}
      BY <2>1, WaveSizes
    <3>2. e % GroupsPerBlock \in 0 .. GroupsPerBlock - 1 /\ e % GroupsPerBlock <= e
      BY <3>1, ModRange
    <3> QED BY <3>1, <3>2
  <2>3. (e % GroupsPerBlock) \div 8 = 0
    BY <2>1, <2>2, WaveSizes
  <2>4. e \notin GroupExpertsOf(w)
    BY <1>1, <2>3, WaveSizes DEF GroupExpertsOf, GroupsPerWave
  <2>5. BlockThreads \in Nat \ {0} /\ e % BlockThreads \in Nat /\ e % BlockThreads <= e
    <3>1. BlockThreads \in Nat \ {0}
      BY WaveScanAssumption DEF BlockThreads, WarpSize
    <3>2. e % BlockThreads \in 0 .. BlockThreads - 1 /\ e % BlockThreads <= e
      BY <2>1, <3>1, ModRange
    <3> QED BY <3>1, <3>2
  <2>6. 1 * WarpSize <= w * WarpSize
    BY <1>1, WaveSizes, ProductOrder
  <2>7. w * WarpSize \in Nat
    BY <1>1, WaveSizes
  <2> DEFINE t == w * WarpSize
             r == e % BlockThreads
  <2> HIDE DEF t, r
  <2>8. r \notin t..(t + WarpSize - 1)
    BY <2>1, <2>5, <2>6, <2>7, WaveSizes DEF t, r
  <2>9. e \notin ThreadExpertsOf(w)
    BY <2>8 DEF ThreadExpertsOf, ThreadsOf, t, r
  <2> QED BY <2>4, <2>9
<1> QED BY <1>2 DEF GroupExpertsOf, ThreadExpertsOf

\* While a wave reads where its lists start, no wave moves them: none is past
\* the next barrier, and the wave that fills the lists already, as one round
\* lets it, fills none that another wave reads.
LEMMA StartsStay ==
  ASSUME WavesInv, OneRoundSmall, [Next]_vars, NEW w \in Waves, At(w, "ids"),
         NEW x \in ThreadExpertsOf(w)
  PROVE  smem_cumsum'[x] = smem_cumsum[x] /\ smem_cumsum'[x + 1] = smem_cumsum[x + 1]
<1>1. ASSUME NEW v \in Waves, NEW p \in Pieces, At(v, p)
      PROVE  p = "ids" \/ p = PieceAfterIds
  BY <1>1 DEF WavesInv, At, Adjacent
<1>2. PieceAfterIds \in {"fill", "clear2"} /\ (PieceAfterIds = "fill" => SubTokenOneShot)
  BY DEF PieceAfterIds
<1>3. CASE UNCHANGED smem_cumsum
  BY <1>3
<1>4. CASE \E v \in Waves : Count(v) \/ Scan(v)
  BY <1>1, <1>2, <1>4 DEF Count, Scan, Pieces
<1>5. ASSUME NEW v \in Waves, Fill(v)
      PROVE  smem_cumsum'[x] = smem_cumsum[x] /\ smem_cumsum'[x + 1] = smem_cumsum[x + 1]
  <2>1. At(v, "fill") /\ "fill" \in Pieces
    BY <1>5 DEF Fill, Pieces
  <2>2. input.experts <= GroupsPerWave /\ input \in Inputs
    BY <1>1, <1>2, <2>1 DEF OneRoundSmall, WavesInv
  <2>3. w = 0
    BY <2>2, FirstWaveHasAll
  <2>4. v # 0
    BY <2>1, <2>3 DEF At
  <2>5. FillExpertsOf(v) = {}
    BY <2>2, <2>4, FirstWaveHasAll DEF FillExpertsOf
  <2>6. \A y \in DOMAIN smem_cumsum : smem_cumsum'[y] = smem_cumsum[y]
    BY <1>5, <2>5 DEF Fill, UpdatedAt
  <2>7. x \in 0..input.experts /\ x + 1 \in 0..input.experts
    BY <2>2, Problem DEF ThreadExpertsOf, Experts
  <2> QED BY <2>6, <2>7 DEF WavesInv
<1>6. \/ UNCHANGED smem_cumsum
      \/ \E v \in Waves : Count(v) \/ Scan(v) \/ Fill(v)
  BY DEF Next, vars, exVars, smemVars, ExNext, Clear, Load, Load2, Ids, Pad, Syncthreads,
         ClearMoeBuf, Again, Terminated
<1> QED BY <1>3, <1>4, <1>5, <1>6

\* Waves read where an expert's list starts before another wave moves it: in
\* rounds a barrier is between, and in one round none is needed as long as
\* the experts are those of the lane groups of one wave.  With more, the
\* kernel fills lists while other waves still read them.
THEOREM StartsKeptForReaders == FewIfOneRound /\ Spec => StartsHoldStill
<1> DEFINE A == \A w \in Waves : At(w, "ids") =>
                  \A x \in ThreadExpertsOf(w) : smem_cumsum'[x] = smem_cumsum[x]
                                                /\ smem_cumsum'[x + 1] = smem_cumsum[x + 1]
<1>1. WavesInv /\ OneRoundSmall /\ [Next]_vars => [A]_vars
  BY StartsStay
<1>2. FewIfOneRound /\ Spec => [](WavesInv /\ OneRoundSmall)
  BY WavesInit, WavesStep, RoundsStay, RoundsStep, PTL DEF Spec
<1>3. [][Next]_vars /\ [](WavesInv /\ OneRoundSmall) => [][A]_vars
  BY <1>1, PTL
<1> QED BY <1>2, <1>3, PTL DEF Spec, StartsHoldStill

(***************************************************************************)
(* Sums.  P is the running sum of those f[i] below n with i in S.          *)
(***************************************************************************)
RunningIn(P, f, n, S) ==
  /\ P \in [0..n -> Int] /\ P[0] = 0
  /\ \A i \in 0..(n - 1) : P[i + 1] = P[i] + IF i \in S THEN f[i] ELSE 0

Runs(P, f, n) ==
  /\ P \in [0..n -> Int] /\ P[0] = 0
  /\ \A i \in 0..(n - 1) : P[i + 1] = P[i] + f[i]

\* Integers have a running sum.
LEMMA RunningSum ==
  ASSUME NEW n \in Nat, NEW f, \A i \in 0..(n - 1) : f[i] \in Int, NEW S
  PROVE  \E P : RunningIn(P, f, n, S)
<1> DEFINE g(i) == IF i \in S THEN f[i] ELSE 0
           To(P, k) == /\ P \in [0..n -> Int] /\ P[0] = 0
                       /\ \A i \in 0..(n - 1) : i < k => P[i + 1] = P[i] + g(i)
           K == {k \in Nat : \E P : To(P, k)}
<1>1. \A i \in 0..(n - 1) : g(i) \in Int
  OBVIOUS
<1> HIDE DEF g
<1>2. 0 \in K
  <2>1. To([i \in 0..n |-> 0], 0)
    OBVIOUS
  <2> QED BY <2>1
<1>3. ASSUME NEW k \in Nat, k \in K PROVE k + 1 \in K
  <2>1. PICK P : To(P, k)
    BY <1>3
  <2> DEFINE R == [i \in 0..n |-> IF i = k + 1 THEN P[k] + g(k) ELSE P[i]]
  <2>2. R \in [0..n -> Int]
    BY <1>1, <2>1
  <2>3. ASSUME NEW i \in 0..(n - 1), i < k + 1 PROVE R[i + 1] = R[i] + g(i)
    <3>1. i + 1 \in 0..n /\ i \in 0..n /\ i # k + 1
      BY <2>3
    <3>2. CASE i = k
      BY <3>1, <3>2
    <3>3. CASE i < k
      <4>1. i + 1 # k + 1 /\ R[i + 1] = P[i + 1] /\ R[i] = P[i]
        BY <3>1, <3>3
      <4>2. P[i + 1] = P[i] + g(i)
        BY <2>1, <3>3
      <4> HIDE DEF R
      <4> QED BY <4>1, <4>2
    <3> QED BY <2>3, <3>2, <3>3
  <2>4. To(R, k + 1)
    BY <2>1, <2>2, <2>3
  <2> HIDE DEF R, To
  <2> QED BY <2>4
<1> HIDE DEF K
<1>4. n \in K
  BY <1>2, <1>3, SetInduction
<1> QED BY <1>4 DEF K, RunningIn, g

\* There is one.
LEMMA RunningOnce ==
  ASSUME NEW n \in Nat, NEW f, NEW S, NEW P, NEW Q,
         RunningIn(P, f, n, S), RunningIn(Q, f, n, S)
  PROVE  \A i \in 0..n : P[i] = Q[i]
<1> DEFINE K == {k \in Nat : k \in 0..n => P[k] = Q[k]}
<1>1. 0 \in K
  BY DEF RunningIn
<1>2. ASSUME NEW k \in Nat, k \in K PROVE k + 1 \in K
  BY <1>2 DEF RunningIn
<1> HIDE DEF K
<1>3. Nat \subseteq K
  BY <1>1, <1>2, SetInduction
<1> QED BY <1>3 DEF K

\* One summand less.
LEMMA RunningWithout ==
  ASSUME NEW n \in Nat, NEW f, \A i \in 0..(n - 1) : f[i] \in Int,
         NEW S, NEW x \in S, x \in 0..(n - 1), NEW P, NEW Q,
         RunningIn(P, f, n, S), RunningIn(Q, f, n, S \ {x})
  PROVE  P[n] = f[x] + Q[n]
<1> DEFINE K == {k \in Nat : k \in 0..n => P[k] = Q[k] + IF k > x THEN f[x] ELSE 0}
<1>1. 0 \in K
  BY DEF RunningIn
<1>2. ASSUME NEW k \in Nat, k \in K PROVE k + 1 \in K
  <2>1. CASE k + 1 \notin 0..n
    BY <2>1
  <2>2. CASE k + 1 \in 0..n
    <3>1. k \in 0..(n - 1) /\ k \in 0..n /\ P[k] \in Int /\ Q[k] \in Int
      BY <2>2 DEF RunningIn
    <3>2. /\ P[k + 1] = P[k] + IF k \in S THEN f[k] ELSE 0
          /\ Q[k + 1] = Q[k] + IF k \in S \ {x} THEN f[k] ELSE 0
      BY <3>1 DEF RunningIn
    <3>3. P[k] = Q[k] + IF k > x THEN f[x] ELSE 0
      BY <1>2, <3>1
    <3>4. P[k + 1] = Q[k + 1] + IF k + 1 > x THEN f[x] ELSE 0
      BY <3>1, <3>2, <3>3
    <3> QED BY <3>4
  <2> QED BY <2>1, <2>2
<1> HIDE DEF K
<1>3. Nat \subseteq K
  BY <1>1, <1>2, SetInduction
<1>4. n \in K
  BY <1>3
<1> QED BY <1>4 DEF K, RunningIn

\* SumFunctionOnSet ends where the running sum does.
LEMMA SumIs ==
  ASSUME NEW n \in Nat, NEW f, \A i \in 0..(n - 1) : f[i] \in Int,
         NEW P, Runs(P, f, n)
  PROVE  SumFunctionOnSet(f, 0..(n - 1)) = P[n]
<1> DEFINE I == 0..(n - 1)
           sum(s) == CHOOSE R : RunningIn(R, f, n, s)
           ch(s) == CHOOSE x \in s : TRUE
           body(g, s) == IF s = {} THEN 0 ELSE f[ch(s)] + g[s \ {ch(s)}]
           total == [s \in SUBSET I |-> sum(s)[n]]
           Iter(g) == g = [s \in SUBSET I |-> body(g, s)]
           iter == CHOOSE g : Iter(g)
<1>1. ASSUME NEW s \in SUBSET I PROVE RunningIn(sum(s), f, n, s)
  BY RunningSum
<1>2. ASSUME NEW s \in SUBSET I PROVE total[s] = body(total, s)
  <2> DEFINE x == ch(s)
  <2>1. CASE s = {}
    <3> DEFINE z == [i \in 0..n |-> 0]
    <3>1. RunningIn(z, f, n, s)
      BY <2>1 DEF RunningIn
    <3>2. z[n] = 0
      OBVIOUS
    <3> HIDE DEF z
    <3>3. sum(s)[n] = z[n]
      <4> DEFINE R == sum(s)
      <4>1. RunningIn(R, f, n, s)
        BY <1>1
      <4> HIDE DEF R
      <4> QED BY <3>1, <4>1, RunningOnce DEF R
    <3> QED BY <2>1, <3>2, <3>3
  <2>2. CASE s # {}
    <3>1. x \in s /\ s \ {x} \in SUBSET I
      BY <2>2
    <3> HIDE DEF x
    <3>2. sum(s)[n] = f[x] + sum(s \ {x})[n]
      <4> DEFINE R == sum(s)
                 T == sum(s \ {x})
      <4>1. RunningIn(R, f, n, s) /\ RunningIn(T, f, n, s \ {x})
        BY <1>1, <3>1
      <4> HIDE DEF R, T
      <4>2. R[n] = f[x] + T[n]
        BY <3>1, <4>1, RunningWithout
      <4> QED BY <4>2 DEF R, T
    <3>3. total[s] = sum(s)[n] /\ total[s \ {x}] = sum(s \ {x})[n]
      BY <3>1
    <3>4. total[s] = f[x] + total[s \ {x}]
      <4> HIDE DEF total, sum
      <4> QED BY <3>2, <3>3
    <3> HIDE DEF total, sum
    <3> QED BY <2>2, <3>4 DEF x
  <2> QED BY <2>1, <2>2
<1>3. Iter(total)
  <2>1. total = [s \in SUBSET I |-> total[s]]
    OBVIOUS
  <2> HIDE DEF total, body
  <2> QED BY <1>2, <2>1
<1>4. Iter(iter)
  <2> HIDE DEF Iter
  <2> QED BY <1>3
<1>5. ASSUME NEW s \in SUBSET I PROVE iter[s] = body(iter, s)
  <2> HIDE DEF iter, body
  <2> QED BY <1>4
<1>6. \A s \in SUBSET I : iter[s] = total[s]
  <2> DEFINE S == {k \in Nat : \A s \in SUBSET I : Cardinality(s) = k => iter[s] = total[s]}
  <2>1. IsFiniteSet(I)
    BY FS_Interval
  <2>2. ASSUME NEW s \in SUBSET I PROVE IsFiniteSet(s) /\ Cardinality(s) \in Nat
    BY <2>1, FS_Subset, FS_CardinalityType
  <2>3. 0 \in S
    <3> SUFFICES ASSUME NEW s \in SUBSET I, Cardinality(s) = 0 PROVE iter[s] = total[s]
      OBVIOUS
    <3>1. s = {}
      BY <2>2, FS_EmptySet
    <3>2. iter[s] = body(iter, s) /\ total[s] = body(total, s)
      BY <1>2, <1>5
    <3> HIDE DEF iter, total
    <3> QED BY <3>1, <3>2
  <2>4. ASSUME NEW k \in Nat, k \in S PROVE k + 1 \in S
    <3> SUFFICES ASSUME NEW s \in SUBSET I, Cardinality(s) = k + 1 PROVE iter[s] = total[s]
      <4> HIDE DEF iter, total, I
      <4> QED OBVIOUS
    <3> DEFINE x == ch(s)
    <3>1. s # {}
      BY FS_EmptySet
    <3>2. x \in s /\ s \ {x} \in SUBSET I
      BY <3>1
    <3>3. Cardinality(s \ {x}) = k
      <4> HIDE DEF x
      <4>1. Cardinality(s \ {x}) = Cardinality(s) - 1
        BY <2>2, <3>2, FS_RemoveElement
      <4> QED BY <4>1
    <3>4. iter[s \ {x}] = total[s \ {x}]
      <4> HIDE DEF iter, total, x, I
      <4> QED BY <2>4, <3>2, <3>3
    <3>5. iter[s] = body(iter, s) /\ total[s] = body(total, s)
      BY <1>2, <1>5
    <3> HIDE DEF iter, total
    <3> QED BY <3>1, <3>4, <3>5
  <2> HIDE DEF S
  <2>5. Nat \subseteq S
    BY <2>3, <2>4, SetInduction
  <2> HIDE DEF iter, total
  <2> QED BY <2>2, <2>5 DEF S
<1>7. SumFunctionOnSet(f, I) = iter[I]
  BY DEF SumFunctionOnSet, FoldFunctionOnSet, MapThenFoldSet
<1>8. total[I] = P[n]
  <2> DEFINE R == sum(I)
  <2>1. RunningIn(R, f, n, I)
    BY <1>1
  <2>2. RunningIn(P, f, n, I)
    BY DEF Runs, RunningIn
  <2> HIDE DEF R
  <2>3. R[n] = P[n]
    BY <2>1, <2>2, RunningOnce
  <2> QED BY <2>3 DEF R
<1> HIDE DEF iter, total
<1> QED BY <1>6, <1>7, <1>8

\* Every function on a range has a running sum.
LEMMA RunsExist ==
  ASSUME NEW n \in Nat, NEW f, \A i \in 0..(n - 1) : f[i] \in Int
  PROVE  \E P : Runs(P, f, n)
<1>1. PICK P : RunningIn(P, f, n, 0..(n - 1))
  BY RunningSum
<1>2. Runs(P, f, n)
  BY <1>1 DEF RunningIn, Runs
<1> QED BY <1>2

(***************************************************************************)
(* A wave.                                                                 *)
(***************************************************************************)
\* The sizes of a row, of a wave and of a block.
LEMMA RowSizes ==
  /\ Row \in {2, 4, 8, 16} /\ LaneGroup \in {1, 2, 4, 8} /\ Row = 2 * LaneGroup
  /\ WarpSize = 4 * Row /\ WarpSize \in Nat \ {0}
  /\ NumWaves \in Nat \ {0} /\ BlockThreads = NumWaves * WarpSize /\ BlockThreads \in Nat \ {0}
BY WaveScanAssumption DEF LaneGroup, WarpSize, BlockThreads

\* A lane's place in its row.
LEMMA LaneInRow ==
  ASSUME NEW l \in Lanes
  PROVE  /\ l \in Nat /\ l < WarpSize
         /\ l % Row \in 0..(Row - 1) /\ RowOf(l) = l - (l % Row) /\ RowOf(l) \in Nat
         /\ RowOf(l) \in {0, Row, 2 * Row, 3 * Row}
<1>1. l \in Nat /\ l < WarpSize /\ Row \in Nat \ {0} /\ WarpSize = 4 * Row
  BY RowSizes DEF Lanes
<1> DEFINE q == l \div Row
           r == l % Row
<1>2. q \in Nat /\ r \in 0..(Row - 1) /\ l = Row * q + r
  BY <1>1, DivMod
<1>3. q < 4
  BY <1>1, DivRange
<1> HIDE DEF q, r
<1>4. q \in {0, 1, 2, 3}
  BY <1>2, <1>3
<1>5. q * Row = l - r /\ q * Row \in {0, Row, 2 * Row, 3 * Row}
  BY <1>1, <1>2, <1>4
<1>6. RowOf(l) = q * Row
  BY DEF RowOf, q
<1>7. q * Row \in Nat /\ l % Row = r
  BY <1>1, <1>4 DEF r
<1>8. RowOf(l) = l - r /\ RowOf(l) \in Nat /\ RowOf(l) \in {0, Row, 2 * Row, 3 * Row}
  <2> DEFINE m == q * Row
  <2>1. m = l - r /\ m \in {0, Row, 2 * Row, 3 * Row} /\ m \in Nat /\ RowOf(l) = m
    BY <1>5, <1>6, <1>7
  <2> HIDE DEF m
  <2> QED BY <2>1
<1>9. l % Row \in 0..(Row - 1)
  BY <1>2 DEF r
<1>10. RowOf(l) = l - (l % Row)
  BY <1>8 DEF r
<1> QED BY <1>1, <1>8, <1>9, <1>10

\* The lanes of a row that come before.
LEMMA LaneBefore ==
  ASSUME NEW l \in Lanes, NEW s \in Nat, s <= l % Row
  PROVE  l - s \in Lanes /\ (l - s) % Row = (l % Row) - s /\ RowOf(l - s) = RowOf(l)
<1>1. l \in Nat /\ Row \in Nat \ {0} /\ l % Row \in 0..(Row - 1)
  BY LaneInRow, RowSizes
<1> DEFINE q == l \div Row
           r == l % Row
<1>2. q \in Nat /\ r \in 0..(Row - 1) /\ l = Row * q + r
  BY <1>1, DivMod
<1> HIDE DEF q, r
<1>3. r - s \in 0..(Row - 1) /\ l - s = Row * q + (r - s)
  BY <1>1, <1>2 DEF r
<1>4. (l - s) \div Row = q /\ (l - s) % Row = r - s
  <2> DEFINE t == r - s
  <2>1. (Row * q + t) \div Row = q /\ (Row * q + t) % Row = t
    <3> HIDE DEF t
    <3> QED BY <1>1, <1>2, <1>3, DivModUnique DEF t
  <2> QED BY <1>3, <2>1
<1>5. l - s \in Lanes
  <2>1. Row * q \in Nat
    BY <1>1, <1>2
  <2>2. s <= r /\ l - s \in Nat /\ l - s <= l
    BY <1>1, <1>2, <2>1 DEF r
  <2> QED BY <2>2, LaneInRow, RowSizes DEF Lanes
<1> QED BY <1>4, <1>5 DEF q, r, RowOf

\* v holds the sums of the last s lanes of a row.
Window(v, P, s) ==
  /\ v \in [Lanes -> Int]
  /\ \A l \in Lanes : v[l] = P[l + 1] - IF s <= l % Row THEN P[l + 1 - s] ELSE P[RowOf(l)]

\* Holding a value changes nothing.
LEMMA HeldIs == \A v : Held(v) = v
BY DEF Held

\* A shift doubles them.
LEMMA ShiftDoubles ==
  ASSUME NEW P \in [0..WarpSize -> Int], NEW s \in Nat \ {0}, NEW v, Window(v, P, s)
  PROVE  Window(RowShr(v, s), P, 2 * s)
<1> DEFINE u == [l \in Lanes |-> v[l] + IF l % Row >= s THEN v[l - s] ELSE 0]
<1>1. RowShr(v, s) = u
  BY HeldIs DEF RowShr
<1>2. ASSUME NEW l \in Lanes
      PROVE  /\ u[l] \in Int
             /\ u[l] = P[l + 1] - IF 2 * s <= l % Row THEN P[l + 1 - 2 * s] ELSE P[RowOf(l)]
  <2>1. /\ l \in Nat /\ l < WarpSize /\ l % Row \in 0..(Row - 1) /\ RowOf(l) = l - (l % Row)
        /\ RowOf(l) \in Nat /\ Row \in Nat \ {0} /\ WarpSize \in Nat /\ v[l] \in Int
    BY LaneInRow, RowSizes DEF Window
  <2>2. CASE l % Row < s
    <3>1. u[l] = v[l] /\ v[l] = P[l + 1] - P[RowOf(l)]
      BY <2>1, <2>2 DEF Window
    <3> HIDE DEF u
    <3> QED BY <2>1, <2>2, <3>1
  <2>3. CASE s <= l % Row
    <3>1. l - s \in Lanes /\ (l - s) % Row = (l % Row) - s /\ RowOf(l - s) = RowOf(l)
      BY <2>3, LaneBefore
    <3>2. u[l] = v[l] + v[l - s] /\ v[l] = P[l + 1] - P[l + 1 - s]
      BY <2>1, <2>3 DEF Window
    <3>3. /\ v[l - s] = P[l - s + 1]
                         - IF s <= (l - s) % Row THEN P[l - s + 1 - s] ELSE P[RowOf(l - s)]
          /\ v[l - s] \in Int
      <4> DEFINE k == l - s
      <4>1. k \in Lanes
        BY <3>1
      <4> HIDE DEF k
      <4>2. v[k] = P[k + 1] - (IF s <= k % Row THEN P[k + 1 - s] ELSE P[RowOf(k)]) /\ v[k] \in Int
        BY <4>1 DEF Window
      <4> QED BY <4>2 DEF k
    <3> DEFINE a == P[l + 1]
               b == P[l + 1 - s]
               c == P[l + 1 - 2 * s]
               d == P[RowOf(l)]
    <3>4. l + 1 \in 0..WarpSize /\ l + 1 - s \in 0..WarpSize /\ RowOf(l) \in 0..WarpSize
          /\ l - s + 1 = l + 1 - s /\ l - s + 1 - s = l + 1 - 2 * s
          /\ (2 * s <= l % Row => l + 1 - 2 * s \in 0..WarpSize)
      BY <2>1, <2>3
    <3>5. a \in Int /\ b \in Int /\ d \in Int /\ (2 * s <= l % Row => c \in Int)
      BY <3>4
    <3>6. v[l - s] = b - IF s <= (l % Row) - s THEN c ELSE d
      <4>1. /\ (l - s) % Row = (l % Row) - s /\ P[RowOf(l - s)] = d /\ P[l - s + 1] = b
            /\ P[l - s + 1 - s] = c
        BY <3>1, <3>4
      <4> HIDE DEF b, c, d
      <4> QED BY <3>3, <4>1
    <3>7. v[l] = a - b
      BY <3>2
    <3>8. s <= (l % Row) - s <=> 2 * s <= l % Row
      BY <2>1
    <3> HIDE DEF u, a, b, c, d
    <3>9. u[l] = a - IF 2 * s <= l % Row THEN c ELSE d
      BY <3>2, <3>5, <3>6, <3>7, <3>8
    <3>10. u[l] \in Int
      BY <3>5, <3>9
    <3> QED BY <3>9, <3>10 DEF a, b, c, d
  <2> QED BY <2>1, <2>2, <2>3
<1> HIDE DEF u
<1>3. u \in [Lanes -> Int]
  BY <1>2 DEF u
<1> QED BY <1>1, <1>2, <1>3 DEF Window

\* A lane by itself.
LEMMA FirstWindow ==
  ASSUME NEW v, NEW P, \A l \in Lanes : v[l] \in Int, v = [l \in Lanes |-> v[l]], Runs(P, v, WarpSize)
  PROVE  Window(v, P, 1)
<1>1. ASSUME NEW l \in Lanes
      PROVE  v[l] = P[l + 1] - IF 1 <= l % Row THEN P[l + 1 - 1] ELSE P[RowOf(l)]
  <2>1. l \in 0..(WarpSize - 1) /\ l \in Nat /\ WarpSize \in Nat /\ l % Row \in Nat
        /\ RowOf(l) = l - (l % Row)
    BY LaneInRow, RowSizes DEF Lanes
  <2>2. P[l + 1] = P[l] + v[l] /\ P[l] \in Int /\ P[l + 1] \in Int
    <3>1. l \in 0..WarpSize /\ l + 1 \in 0..WarpSize
      BY <2>1
    <3> QED BY <2>1, <3>1 DEF Runs
  <2>3. l + 1 - 1 = l /\ (~(1 <= l % Row) => RowOf(l) = l)
    <3> DEFINE r == l % Row
    <3>1. l \in Nat /\ r \in 0..(Row - 1) /\ RowOf(l) = l - r
      <4>1. l \in Nat /\ l % Row \in 0..(Row - 1) /\ RowOf(l) = l - (l % Row)
        BY LaneInRow
      <4> QED BY <4>1
    <3>2. Row \in Nat
      BY RowSizes
    <3> HIDE DEF r
    <3>3. l + 1 - 1 = l /\ (~(1 <= r) => RowOf(l) = l)
      BY <3>1, <3>2
    <3> QED BY <3>3 DEF r
  <2>4. v[l] = P[l + 1] - P[l]
    BY <2>1, <2>2
  <2> QED BY <2>3, <2>4
<1>2. v \in [Lanes -> Int]
  OBVIOUS
<1> QED BY <1>1, <1>2 DEF Window

\* All shifts below a width.
LEMMA ShiftsMade ==
  ASSUME NEW v, NEW P \in [0..WarpSize -> Int], Window(v, P, 1), NEW width \in {1, 2, 4, 8, 16}
  PROVE  Window(RowCumsum(v, width), P, width)
<1> DEFINE v1 == ShrBelow(v, 1, width)
           v2 == ShrBelow(v1, 2, width)
           v4 == ShrBelow(v2, 4, width)
           v8 == ShrBelow(v4, 8, width)
           m(k) == IF width < k THEN width ELSE k
<1>1. Window(v1, P, m(2))
  BY ShiftDoubles DEF ShrBelow
<1> HIDE DEF v1
<1>2. Window(v2, P, m(4))
  BY <1>1, ShiftDoubles DEF ShrBelow
<1> HIDE DEF v2
<1>3. Window(v4, P, m(8))
  BY <1>2, ShiftDoubles DEF ShrBelow
<1> HIDE DEF v4
<1>4. Window(v8, P, m(16))
  BY <1>3, ShiftDoubles DEF ShrBelow
<1>5. m(16) = width /\ RowCumsum(v, width) = v8
  BY DEF RowCumsum, v1, v2, v4
<1> HIDE DEF v8, m
<1> QED BY <1>4, <1>5

\* The prefix sums of a wave.
LEMMA WavePrefix ==
  ASSUME NEW v, NEW P, \A l \in Lanes : v[l] \in Int, v = [l \in Lanes |-> v[l]], Runs(P, v, WarpSize)
  PROVE  /\ WaveCumsum(v) = [l \in Lanes |-> P[l + 1]]
         /\ GroupCumsum(v) = [l \in Lanes |-> P[l + 1] - P[(l \div LaneGroup) * LaneGroup]]
<1>1. P \in [0..WarpSize -> Int] /\ P[0] = 0 /\ Window(v, P, 1)
  BY FirstWindow DEF Runs
<1>2. /\ Row \in {2, 4, 8, 16} /\ LaneGroup \in {1, 2, 4, 8} /\ Row = 2 * LaneGroup
      /\ WarpSize = 4 * Row
  BY RowSizes
<1>3. WaveCumsum(v) = [l \in Lanes |-> P[l + 1]]
  <2> DEFINE rows == RowCumsum(v, Row)
             pairs == [l \in Lanes |-> rows[l] + IF l >= Row THEN rows[RowOf(l) - 1] ELSE 0]
  <2>1. Window(rows, P, Row)
    BY <1>1, <1>2, ShiftsMade
  <2>2. WaveCumsum(v) = [l \in Lanes |->
                           pairs[l] + IF l >= 2 * Row THEN pairs[RowOf(l) - (Row + 1)] ELSE 0]
    BY HeldIs DEF WaveCumsum
  <2> HIDE DEF rows
  <2>3. ASSUME NEW l \in Lanes PROVE rows[l] = P[l + 1] - P[RowOf(l)]
    <3>1. ~(Row <= l % Row)
      BY <1>2, LaneInRow
    <3> QED BY <2>1, <3>1 DEF Window
  <2>4. ASSUME NEW l \in Lanes
        PROVE  pairs[l] = P[l + 1] - IF l >= Row THEN P[RowOf(l) - Row] ELSE P[0]
    <3>1. /\ l \in Nat /\ l < WarpSize /\ l % Row \in 0..(Row - 1) /\ RowOf(l) = l - (l % Row)
          /\ RowOf(l) \in {0, Row, 2 * Row, 3 * Row}
      BY LaneInRow
    <3>2. CASE l < Row
      <4>1. RowOf(l) = 0 /\ pairs[l] = rows[l]
        <5>1. RowOf(l) = 0
          <6> DEFINE R == RowOf(l)
                     r == l % Row
          <6>1. R \in {0, Row, 2 * Row, 3 * Row} /\ R = l - r /\ r \in 0..(Row - 1)
            BY <3>1
          <6> HIDE DEF R, r
          <6>2. R = 0
            BY <1>2, <3>1, <3>2, <6>1
          <6> QED BY <6>2 DEF R
        <5>2. rows[l] \in Int /\ ~(l >= Row)
          BY <1>2, <2>1, <3>1, <3>2 DEF Window
        <5>3. pairs[l] = rows[l] + 0
          BY <5>2
        <5> QED BY <5>1, <5>2, <5>3
      <4> HIDE DEF pairs
      <4> QED BY <2>3, <4>1, <3>2, <1>2, <3>1
    <3>3. CASE l >= Row
      <4> DEFINE k == RowOf(l) - 1
      <4>1. k \in Lanes /\ k + 1 = RowOf(l) /\ RowOf(k) = RowOf(l) - Row
        <5>1. RowOf(l) \in {Row, 2 * Row, 3 * Row}
          BY <1>2, <3>1, <3>3
        <5>2. k \in Lanes
          BY <1>2, <5>1 DEF Lanes
        <5>3. RowOf(k) = RowOf(l) - Row
          BY <1>2, <5>1 DEF RowOf
        <5> QED BY <1>2, <5>1, <5>2, <5>3
      <4>2. pairs[l] = rows[l] + rows[k]
        BY <3>3
      <4> HIDE DEF k, pairs
      <4>3. rows[k] = P[RowOf(l)] - P[RowOf(l) - Row] /\ rows[l] = P[l + 1] - P[RowOf(l)]
        BY <2>3, <4>1
      <4>4. l + 1 \in 0..WarpSize /\ RowOf(l) \in 0..WarpSize /\ RowOf(l) - Row \in 0..WarpSize
        <5> DEFINE R == RowOf(l)
                   r == l % Row
        <5>1. R \in {0, Row, 2 * Row, 3 * Row} /\ R = l - r /\ r \in 0..(Row - 1)
          BY <3>1
        <5> HIDE DEF R, r
        <5>2. l + 1 \in 0..WarpSize /\ R \in 0..WarpSize /\ R - Row \in 0..WarpSize
          <6>1. l \in Nat /\ l < WarpSize
            BY <3>1
          <6> QED BY <1>2, <3>3, <5>1, <6>1
        <5> QED BY <5>2 DEF R
      <4>5. P[l + 1] \in Int /\ P[RowOf(l)] \in Int /\ P[RowOf(l) - Row] \in Int
        BY <1>1, <4>4
      <4> QED BY <3>3, <4>2, <4>3, <4>5
    <3> QED BY <1>2, <3>1, <3>2, <3>3
  <2>5. ASSUME NEW l \in Lanes
        PROVE  pairs[l] + (IF l >= 2 * Row THEN pairs[RowOf(l) - (Row + 1)] ELSE 0) = P[l + 1]
    <3>1. /\ l \in Nat /\ l < WarpSize /\ l % Row \in 0..(Row - 1) /\ RowOf(l) = l - (l % Row)
          /\ RowOf(l) \in {0, Row, 2 * Row, 3 * Row}
      BY LaneInRow
    <3> DEFINE k == RowOf(l) - (Row + 1)
    <3> HIDE DEF pairs
    <3>2. P[l + 1] \in Int
      BY <1>1, <1>2, <3>1
    <3>3. CASE l < Row
      BY <1>1, <1>2, <2>4, <3>1, <3>2, <3>3
    <3>4. CASE l >= Row /\ l < 2 * Row
      <4>1. RowOf(l) - Row = 0
        BY <1>2, <3>1, <3>4
      <4>2. pairs[l] = P[l + 1] - P[0]
        BY <2>4, <3>4, <4>1
      <4> QED BY <1>1, <1>2, <3>1, <3>2, <3>4, <4>2
    <3>5. CASE l >= 2 * Row
      <4>1. RowOf(l) \in {2 * Row, 3 * Row}
        BY <1>2, <3>1, <3>5
      <4>2. k \in Lanes /\ k + 1 = RowOf(l) - Row
        BY <1>2, <4>1 DEF Lanes
      <4>3. IF k >= Row THEN RowOf(k) - Row = 0 ELSE TRUE
        <5>1. RowOf(k) = RowOf(l) - 2 * Row
          BY <1>2, <4>1 DEF RowOf
        <5> QED BY <1>2, <4>1, <5>1
      <4> HIDE DEF k
      <4>4. pairs[k] = P[RowOf(l) - Row] - P[0]
        BY <2>4, <4>2, <4>3
      <4>5. pairs[l] = P[l + 1] - P[RowOf(l) - Row]
        BY <1>2, <2>4, <3>5, <3>1
      <4>6. P[RowOf(l) - Row] \in Int
        BY <1>1, <1>2, <4>1
      <4> QED BY <1>1, <3>2, <3>5, <4>4, <4>5, <4>6 DEF k
    <3> QED BY <1>2, <3>1, <3>3, <3>4, <3>5
  <2> HIDE DEF pairs
  <2> QED BY <2>2, <2>5
<1>4. GroupCumsum(v) = [l \in Lanes |-> P[l + 1] - P[(l \div LaneGroup) * LaneGroup]]
  <2> DEFINE row == RowShr(RowCumsum(v, LaneGroup), LaneGroup)
  <2>1. Window(row, P, Row)
    <3>1. Window(RowCumsum(v, LaneGroup), P, LaneGroup)
      BY <1>1, <1>2, ShiftsMade
    <3>2. LaneGroup \in Nat \ {0} /\ 2 * LaneGroup = Row
      BY <1>2
    <3> QED BY <1>1, <3>1, <3>2, ShiftDoubles
  <2>2. GroupCumsum(v) = [l \in Lanes |->
          row[l] - IF (l \div LaneGroup) % 2 = 0 THEN 0 ELSE row[RowOf(l) + LaneGroup - 1]]
    BY DEF GroupCumsum
  <2> HIDE DEF row
  <2>3. ASSUME NEW l \in Lanes PROVE row[l] = P[l + 1] - P[RowOf(l)] /\ row[l] \in Int
    <3>1. ~(Row <= l % Row)
      BY <1>2, LaneInRow
    <3> QED BY <2>1, <3>1 DEF Window
  <2>4. ASSUME NEW l \in Lanes
        PROVE  row[l] - (IF (l \div LaneGroup) % 2 = 0 THEN 0 ELSE row[RowOf(l) + LaneGroup - 1])
                 = P[l + 1] - P[(l \div LaneGroup) * LaneGroup]
    <3>1. /\ l \in Nat /\ l < WarpSize /\ l % Row \in 0..(Row - 1) /\ RowOf(l) = l - (l % Row)
          /\ RowOf(l) \in {0, Row, 2 * Row, 3 * Row}
      BY LaneInRow
    <3>2. (l \div LaneGroup) * LaneGroup = IF (l \div LaneGroup) % 2 = 0 THEN RowOf(l)
                                          ELSE RowOf(l) + LaneGroup
      <4> DEFINE q == l \div Row
                 r == l % Row
      <4>1. l \in Nat /\ Row \in Nat \ {0} /\ LaneGroup \in Nat \ {0} /\ Row = 2 * LaneGroup
        BY <1>2 DEF Lanes
      <4>2. q \in Nat /\ r \in 0..(Row - 1) /\ l = Row * q + r /\ RowOf(l) = q * Row
        BY <4>1, DivMod DEF RowOf
      <4> HIDE DEF q, r
      <4>3. CASE r < LaneGroup
        <5>1. l = LaneGroup * (2 * q) + r /\ 2 * q \in Nat /\ r \in 0..(LaneGroup - 1)
          BY <4>1, <4>2, <4>3
        <5>2. l \div LaneGroup = 2 * q
          BY <4>1, <5>1, DivModUnique
        <5> QED BY <4>1, <4>2, <5>2
      <4>4. CASE r >= LaneGroup
        <5> DEFINE t == r - LaneGroup
        <5>1. l = LaneGroup * (2 * q + 1) + t /\ 2 * q + 1 \in Nat /\ t \in 0..(LaneGroup - 1)
          BY <4>1, <4>2, <4>4
        <5> HIDE DEF t
        <5>2. l \div LaneGroup = 2 * q + 1
          BY <4>1, <5>1, DivModUnique
        <5>3. (2 * q + 1) % 2 = 1
          BY <4>2
        <5>4. (2 * q + 1) * LaneGroup = q * Row + LaneGroup
          BY <4>1, <4>2
        <5> QED BY <4>2, <5>2, <5>3, <5>4
      <4> QED BY <4>1, <4>2, <4>3, <4>4
    <3>3. CASE (l \div LaneGroup) % 2 = 0
      BY <2>3, <3>2, <3>3
    <3>4. CASE (l \div LaneGroup) % 2 # 0
      <4> DEFINE k == RowOf(l) + LaneGroup - 1
      <4>1. k \in Lanes /\ k + 1 = RowOf(l) + LaneGroup /\ RowOf(k) = RowOf(l)
        <5>1. k \in Lanes /\ k + 1 = RowOf(l) + LaneGroup
          <6> DEFINE R == RowOf(l)
          <6>1. R \in {0, Row, 2 * Row, 3 * Row}
            BY <3>1
          <6> HIDE DEF R
          <6>2. R + LaneGroup - 1 \in 0..(WarpSize - 1) /\ R + LaneGroup - 1 + 1 = R + LaneGroup
            BY <1>2, <6>1
          <6> QED BY <6>2 DEF R, Lanes
        <5>2. RowOf(k) = RowOf(l)
          BY <1>2, <3>1 DEF RowOf
        <5> QED BY <5>1, <5>2
      <4> HIDE DEF k
      <4>2. row[k] = P[RowOf(l) + LaneGroup] - P[RowOf(l)] /\ row[l] = P[l + 1] - P[RowOf(l)]
        BY <2>3, <4>1
      <4>3. P[RowOf(l)] \in Int /\ P[RowOf(l) + LaneGroup] \in Int /\ P[l + 1] \in Int
        <5> DEFINE R == RowOf(l)
        <5>1. R \in {0, Row, 2 * Row, 3 * Row}
          BY <3>1
        <5> HIDE DEF R
        <5>2. R \in 0..WarpSize /\ R + LaneGroup \in 0..WarpSize /\ l + 1 \in 0..WarpSize
          <6>1. l \in Nat /\ l < WarpSize
            BY <3>1
          <6> QED BY <1>2, <5>1, <6>1
        <5> QED BY <1>1, <5>2 DEF R
      <4>4. row[l] - row[k] = P[l + 1] - P[RowOf(l) + LaneGroup]
        BY <4>2, <4>3
      <4> QED BY <3>2, <3>4, <4>4 DEF k
    <3> QED BY <3>3, <3>4
  <2> QED BY <2>2, <2>4
<1> QED BY <1>3, <1>4

\* v holds the sums of whole tiles of s lanes.
Tile(v, P, s) ==
  /\ v \in [Lanes -> Int]
  /\ \A l \in Lanes : v[l] = P[(l \div s) * s + s] - P[(l \div s) * s]

\* A stage of the butterfly doubles them.
LEMMA FoldDoubles ==
  ASSUME NEW P \in [0..WarpSize -> Int], NEW s \in Nat \ {0}, NEW n \in Nat \ {0},
         WarpSize = n * (2 * s), NEW v, Tile(v, P, s)
  PROVE  Tile(Fold(v, s), P, 2 * s)
<1> DEFINE u == [l \in Lanes |-> v[l] + v[Partner(l, s)]]
<1>1. Fold(v, s) = u
  <2>1. s < WarpSize
    <3>1. 1 * (2 * s) <= n * (2 * s)
      BY ProductOrder
    <3> QED BY <3>1
  <2> QED BY <2>1, HeldIs DEF Fold
<1>2. ASSUME NEW l \in Lanes
      PROVE  /\ u[l] \in Int
             /\ u[l] = P[(l \div (2 * s)) * (2 * s) + 2 * s] - P[(l \div (2 * s)) * (2 * s)]
  <2> DEFINE d == 2 * s
             q == l \div d
             r == l % d
             a == q * d
  <2>1. l \in Nat /\ l < WarpSize /\ d \in Nat \ {0} /\ d = 2 * s
    BY RowSizes DEF Lanes
  <2>2. q \in Nat /\ r \in 0..(d - 1) /\ l = d * q + r
    BY <2>1, DivMod
  <2>3. q < n
    <3>1. l < d * n
      BY <2>1
    <3> QED BY <2>1, <3>1, DivRange
  <2> HIDE DEF q, r
  <2>4. a \in Nat /\ a + d <= WarpSize /\ l = a + r
    <3>1. (q + 1) * d <= n * d
      BY <2>1, <2>2, <2>3, ProductOrder
    <3> QED BY <2>1, <2>2, <3>1
  <2>5. P[a] \in Int /\ P[a + s] \in Int /\ P[a + d] \in Int
    <3>1. a \in 0..WarpSize /\ a + s \in 0..WarpSize /\ a + d \in 0..WarpSize
      BY <2>1, <2>4
    <3> QED BY <3>1
  <2>6. a = (2 * q) * s /\ a + s = (2 * q + 1) * s
    BY <2>1, <2>2
  <2>7. ASSUME NEW m \in Lanes, NEW k \in {0, 1}, NEW t \in 0..(s - 1), m = a + (k * s) + t
        PROVE  m \div s = 2 * q + k /\ v[m] = P[a + (k * s) + s] - P[a + (k * s)]
    <3>1. m = s * (2 * q + k) + t /\ 2 * q + k \in Nat
      BY <2>2, <2>6, <2>7
    <3>2. m \div s = 2 * q + k
      BY <3>1, DivModUnique
    <3>3. (2 * q + k) * s = a + (k * s)
      BY <2>2, <2>6
    <3>4. v[m] = P[(2 * q + k) * s + s] - P[(2 * q + k) * s]
      BY <3>2 DEF Tile
    <3> HIDE DEF a
    <3> QED BY <3>2, <3>3, <3>4
  <2> HIDE DEF a, d
  <2>8. CASE r < s
    <3>1. l + s \in Lanes
      BY <2>1, <2>2, <2>4, <2>8 DEF Lanes
    <3>2. l \div s = 2 * q /\ v[l] = P[a + s] - P[a]
      <4>1. l = a + 0 * s + r /\ r \in 0..(s - 1) /\ a + 0 * s = a /\ 2 * q + 0 = 2 * q
        BY <2>2, <2>4, <2>8
      <4>2. l \div s = 2 * q + 0 /\ v[l] = P[a + 0 * s + s] - P[a + 0 * s]
        BY <2>7, <4>1
      <4> QED BY <4>1, <4>2
    <3>3. v[l + s] = P[a + d] - P[a + s]
      <4>1. l + s = a + 1 * s + r /\ r \in 0..(s - 1) /\ a + 1 * s = a + s /\ a + s + s = a + d
        BY <2>1, <2>2, <2>4, <2>8
      <4> DEFINE m == l + s
      <4> HIDE DEF m
      <4>2. v[m] = P[a + 1 * s + s] - P[a + 1 * s]
        BY <2>7, <3>1, <4>1 DEF m
      <4> QED BY <4>1, <4>2 DEF m
    <3>4. (2 * q) % 2 = 0
      BY <2>2
    <3>5. u[l] = v[l] + v[l + s]
      BY <3>2, <3>4 DEF Partner
    <3> HIDE DEF u
    <3>6. u[l] \in Int /\ u[l] = P[a + d] - P[a]
      BY <2>5, <3>2, <3>3, <3>5
    <3> QED BY <3>6 DEF a, q, d
  <2>9. CASE r >= s
    <3>1. l - s \in Lanes
      BY <2>1, <2>2, <2>4, <2>9 DEF Lanes
    <3>2. l \div s = 2 * q + 1 /\ v[l] = P[a + d] - P[a + s]
      <4>1. /\ l = a + 1 * s + (r - s) /\ r - s \in 0..(s - 1) /\ a + 1 * s = a + s
            /\ a + s + s = a + d
        BY <2>1, <2>2, <2>4, <2>9
      <4>2. l \div s = 2 * q + 1 /\ v[l] = P[a + 1 * s + s] - P[a + 1 * s]
        BY <2>7, <4>1
      <4> QED BY <4>1, <4>2
    <3>3. v[l - s] = P[a + s] - P[a]
      <4>1. l - s = a + 0 * s + (r - s) /\ r - s \in 0..(s - 1) /\ a + 0 * s = a
        BY <2>1, <2>2, <2>4, <2>9
      <4> DEFINE m == l - s
      <4> HIDE DEF m
      <4>2. v[m] = P[a + 0 * s + s] - P[a + 0 * s]
        BY <2>7, <3>1, <4>1 DEF m
      <4> QED BY <4>1, <4>2 DEF m
    <3>4. (2 * q + 1) % 2 = 1
      BY <2>2
    <3>5. u[l] = v[l] + v[l - s]
      BY <3>2, <3>4 DEF Partner
    <3> HIDE DEF u
    <3>6. u[l] \in Int /\ u[l] = P[a + d] - P[a]
      BY <2>5, <3>2, <3>3, <3>5
    <3> QED BY <3>6 DEF a, q, d
  <2> QED BY <2>1, <2>2, <2>8, <2>9
<1> HIDE DEF u
<1>3. u \in [Lanes -> Int]
  BY <1>2 DEF u
<1> QED BY <1>1, <1>2, <1>3 DEF Tile

\* The stages that the code makes.
LEMMA FoldStage ==
  ASSUME NEW P \in [0..WarpSize -> Int], NEW s \in {1, 2, 4, 8, 16, 32}, NEW v, Tile(v, P, s),
         NEW d, d = 2 * s
  PROVE  IF s < WarpSize THEN Tile(Fold(v, s), P, d) ELSE Fold(v, s) = v
<1>1. CASE s < WarpSize
  <2> DEFINE n == WarpSize \div (2 * s)
  <2>1. WarpSize \in {8, 16, 32, 64}
    BY RowSizes
  <2>2. n \in Nat \ {0} /\ WarpSize = n * (2 * s)
    <3>1. CASE s = 1
      BY <2>1, <3>1
    <3>2. CASE s = 2
      BY <2>1, <3>2
    <3>3. CASE s = 4
      BY <2>1, <3>3
    <3>4. CASE s = 8
      BY <1>1, <2>1, <3>4
    <3>5. CASE s = 16
      BY <1>1, <2>1, <3>5
    <3>6. CASE s = 32
      BY <1>1, <2>1, <3>6
    <3> QED BY <3>1, <3>2, <3>3, <3>4, <3>5, <3>6
  <2> HIDE DEF n
  <2>3. Tile(Fold(v, s), P, 2 * s)
    <3>1. s \in Nat \ {0}
      OBVIOUS
    <3> QED BY <2>2, <3>1, FoldDoubles
  <2> QED BY <1>1, <2>3
<1>2. CASE ~(s < WarpSize)
  BY <1>2 DEF Fold
<1> QED BY <1>1, <1>2

\* The sum of a wave.
LEMMA WaveTotal ==
  ASSUME NEW v, NEW P, \A l \in Lanes : v[l] \in Int, v = [l \in Lanes |-> v[l]], Runs(P, v, WarpSize)
  PROVE  WaveReduce(v)[0] = P[WarpSize]
<1> DEFINE v2 == Fold(v, 1)
           v4 == Fold(v2, 2)
           v8 == Fold(v4, 4)
           v16 == Fold(v8, 8)
           v32 == Fold(v16, 16)
           v64 == Fold(v32, 32)
<1>1. P \in [0..WarpSize -> Int] /\ P[0] = 0
  BY DEF Runs
<1>2. WarpSize \in {8, 16, 32, 64}
  BY RowSizes
<1>3. Tile(v, P, 1)
  <2>1. v \in [Lanes -> Int]
    OBVIOUS
  <2>2. ASSUME NEW l \in Lanes PROVE v[l] = P[(l \div 1) * 1 + 1] - P[(l \div 1) * 1]
    <3>1. l \in 0..(WarpSize - 1) /\ l \div 1 = l /\ l * 1 = l /\ l \in 0..WarpSize
          /\ l + 1 \in 0..WarpSize
      BY <1>2 DEF Lanes
    <3>2. P[l + 1] = P[l] + v[l] /\ P[l] \in Int /\ P[l + 1] \in Int
      BY <3>1 DEF Runs
    <3> QED BY <3>1, <3>2
  <2> QED BY <2>1, <2>2 DEF Tile
<1>4. Tile(v2, P, 2)
  <2>1. 1 < WarpSize /\ 2 = 2 * 1
    BY <1>2
  <2> HIDE DEF v2
  <2> QED BY <1>1, <1>3, <2>1, FoldStage DEF v2
<1> HIDE DEF v2
<1>5. Tile(v4, P, 4)
  <2>1. 2 < WarpSize /\ 4 = 2 * 2
    BY <1>2
  <2> HIDE DEF v4
  <2> QED BY <1>1, <1>4, <2>1, FoldStage DEF v4
<1> HIDE DEF v4
<1>6. Tile(v8, P, 8)
  <2>1. 4 < WarpSize /\ 8 = 2 * 4
    BY <1>2
  <2> HIDE DEF v8
  <2> QED BY <1>1, <1>5, <2>1, FoldStage DEF v8
<1> HIDE DEF v8
<1>7. IF 8 < WarpSize THEN Tile(v16, P, 16) ELSE v16 = v8
  <2>1. CASE 8 < WarpSize
    <3>1. Tile(v8, P, 8) /\ 16 = 2 * 8
      BY <1>2, <2>1, <1>6
    <3> HIDE DEF v16
    <3> QED BY <1>1, <2>1, <3>1, FoldStage DEF v16
  <2>2. CASE ~(8 < WarpSize)
    BY <2>2 DEF Fold
  <2> QED BY <2>1, <2>2
<1> HIDE DEF v16
<1>8. IF 16 < WarpSize THEN Tile(v32, P, 32) ELSE v32 = v16
  <2>1. CASE 16 < WarpSize
    <3>1. Tile(v16, P, 16) /\ 32 = 2 * 16
      BY <1>2, <2>1, <1>7
    <3> HIDE DEF v32
    <3> QED BY <1>1, <2>1, <3>1, FoldStage DEF v32
  <2>2. CASE ~(16 < WarpSize)
    BY <2>2 DEF Fold
  <2> QED BY <2>1, <2>2
<1> HIDE DEF v32
<1>9. IF 32 < WarpSize THEN Tile(v64, P, 64) ELSE v64 = v32
  <2>1. CASE 32 < WarpSize
    <3>1. Tile(v32, P, 32) /\ 64 = 2 * 32
      BY <1>2, <2>1, <1>8
    <3> HIDE DEF v64
    <3> QED BY <1>1, <2>1, <3>1, FoldStage DEF v64
  <2>2. CASE ~(32 < WarpSize)
    BY <2>2 DEF Fold
  <2> QED BY <2>1, <2>2
<1> HIDE DEF v64
<1>10. WaveReduce(v) = v64
  BY DEF WaveReduce, v2, v4, v8, v16, v32, v64
<1>11. Tile(v64, P, WarpSize)
  BY <1>2, <1>6, <1>7, <1>8, <1>9
<1>12. 0 \in Lanes /\ (0 \div WarpSize) * WarpSize = 0
  BY <1>2 DEF Lanes
<1>13. v64[0] = P[0 + WarpSize] - P[0]
  BY <1>11, <1>12 DEF Tile
<1>14. P[WarpSize] \in Int /\ 0 + WarpSize = WarpSize
  BY <1>1, <1>2
<1> QED BY <1>1, <1>10, <1>13, <1>14

\* The running sum of n items, and its end after them.
Capped(P, n, i) == P[IF i < n THEN i ELSE n]

\* It goes on by the items below n, and then stays.
LEMMA CappedSteps ==
  ASSUME NEW n \in Nat, NEW f, \A i \in 0..(n - 1) : f[i] \in Int, NEW P, Runs(P, f, n),
         NEW i \in Nat
  PROVE  /\ Capped(P, n, i) \in Int
         /\ Capped(P, n, i + 1) = Capped(P, n, i) + IF i < n THEN f[i] ELSE 0
         /\ i <= n => Capped(P, n, i) = P[i]
<1>1. CASE i < n
  <2>1. i \in 0..(n - 1) /\ i \in 0..n
    BY <1>1
  <2>2. P[i] \in Int /\ P[i + 1] = P[i] + f[i]
    BY <2>1 DEF Runs
  <2>3. Capped(P, n, i) = P[i]
    BY <1>1 DEF Capped
  <2>4. Capped(P, n, i + 1) = P[i + 1]
    <3>1. CASE i + 1 < n
      BY <3>1 DEF Capped
    <3>2. CASE i + 1 = n
      BY <3>2 DEF Capped
    <3> QED BY <1>1, <3>1, <3>2
  <2> QED BY <1>1, <2>2, <2>3, <2>4
<1>2. CASE ~(i < n)
  <2>1. P[n] \in Int
    BY DEF Runs
  <2>2. Capped(P, n, i) = P[n] /\ Capped(P, n, i + 1) = P[n]
    BY <1>2 DEF Capped
  <2>3. i <= n => i = n
    BY <1>2
  <2> QED BY <1>2, <2>1, <2>2, <2>3
<1> QED BY <1>1, <1>2

\* What a wave makes of the items from b on.
LEMMA WaveOf ==
  ASSUME NEW n \in Nat, NEW f, \A i \in 0..(n - 1) : f[i] \in Int, NEW P, Runs(P, f, n),
         NEW b \in Nat, NEW v, v = [l \in Lanes |-> IF b + l < n THEN f[b + l] ELSE 0]
  PROVE  /\ WaveCumsum(v) = [l \in Lanes |-> Capped(P, n, b + l + 1) - Capped(P, n, b)]
         /\ WaveReduce(v)[0] = Capped(P, n, b + WarpSize) - Capped(P, n, b)
<1> DEFINE Q == [l \in 0..WarpSize |-> Capped(P, n, b + l) - Capped(P, n, b)]
<1>1. WarpSize \in Nat \ {0}
  BY RowSizes
<1>2. \A i \in Nat : Capped(P, n, i) \in Int
  BY CappedSteps
<1>3. Runs(Q, v, WarpSize)
  <2>1. Q \in [0..WarpSize -> Int]
    BY <1>1, <1>2
  <2>2. Q[0] = 0
    BY <1>1, <1>2
  <2>3. ASSUME NEW l \in 0..(WarpSize - 1) PROVE Q[l + 1] = Q[l] + v[l]
    <3>1. l \in Lanes /\ l \in 0..WarpSize /\ l + 1 \in 0..WarpSize /\ b + l \in Nat
          /\ b + (l + 1) = (b + l) + 1
      BY <1>1 DEF Lanes
    <3>2. Capped(P, n, (b + l) + 1) = Capped(P, n, b + l) + v[l]
      <4>1. v[l] = IF b + l < n THEN f[b + l] ELSE 0
        BY <3>1
      <4> QED BY <3>1, <4>1, CappedSteps
    <3>3. Q[l + 1] = Capped(P, n, (b + l) + 1) - Capped(P, n, b)
          /\ Q[l] = Capped(P, n, b + l) - Capped(P, n, b)
      BY <3>1
    <3>4. v[l] \in Int
      BY <3>1
    <3>5. Capped(P, n, b) \in Int /\ Capped(P, n, b + l) \in Int
      BY <1>2, <3>1
    <3> HIDE DEF Q
    <3> QED BY <3>2, <3>3, <3>4, <3>5
  <2> HIDE DEF Q
  <2> QED BY <2>1, <2>2, <2>3 DEF Runs
<1>4. \A l \in Lanes : v[l] \in Int
  BY DEF Lanes
<1>5. v = [l \in Lanes |-> v[l]]
  OBVIOUS
<1>6. /\ \A l \in Lanes : Q[l + 1] = Capped(P, n, b + l + 1) - Capped(P, n, b)
      /\ Q[WarpSize] = Capped(P, n, b + WarpSize) - Capped(P, n, b)
  <2>1. WarpSize \in 0..WarpSize
    BY <1>1
  <2>2. ASSUME NEW l \in Lanes PROVE Q[l + 1] = Capped(P, n, b + l + 1) - Capped(P, n, b)
    <3>1. l + 1 \in 0..WarpSize /\ b + (l + 1) = b + l + 1
      BY <1>1 DEF Lanes
    <3> QED BY <3>1
  <2> QED BY <2>1, <2>2
<1> HIDE DEF Q
<1>7. WaveCumsum(v) = [l \in Lanes |-> Q[l + 1]] /\ WaveReduce(v)[0] = Q[WarpSize]
  BY <1>3, <1>4, <1>5, WavePrefix, WaveTotal
<1> QED BY <1>6, <1>7

\* Differences add up to the difference of the ends.
LEMMA Telescope ==
  ASSUME NEW n \in Nat, NEW g, \A i \in 0..n : g[i] \in Int,
         NEW f, \A i \in 0..(n - 1) : f[i] = g[i + 1] - g[i]
  PROVE  SumFunctionOnSet(f, 0..(n - 1)) = g[n] - g[0]
<1> DEFINE P == [i \in 0..n |-> g[i] - g[0]]
<1>1. \A i \in 0..(n - 1) : f[i] \in Int
  OBVIOUS
<1>2. Runs(P, f, n)
  <2>1. P \in [0..n -> Int] /\ P[0] = 0
    OBVIOUS
  <2>2. ASSUME NEW i \in 0..(n - 1) PROVE P[i + 1] = P[i] + f[i]
    <3>1. P[i + 1] = g[i + 1] - g[0] /\ P[i] = g[i] - g[0] /\ g[0] \in Int /\ g[i] \in Int
          /\ g[i + 1] \in Int
      OBVIOUS
    <3> HIDE DEF P
    <3> QED BY <3>1
  <2> HIDE DEF P
  <2> QED BY <2>1, <2>2 DEF Runs
<1>3. P[n] = g[n] - g[0]
  OBVIOUS
<1> HIDE DEF P
<1> QED BY <1>1, <1>2, <1>3, SumIs

\* Rounds, waves and lanes count the items.
LEMMA PlaceOf ==
  ASSUME NEW n \in Nat, NEW waves \in Nat \ {0}, NEW i \in 0..(n - 1)
  PROVE  LET round == waves * WarpSize
             r == i \div round
             w == (i % round) \div WarpSize
             l == i % WarpSize
         IN  /\ round \in Nat \ {0} /\ r \in Nat /\ r < (n + round - 1) \div round
             /\ w \in 0..(waves - 1) /\ l \in Lanes
             /\ i = r * round + w * WarpSize + l
<1> DEFINE round == waves * WarpSize
           r == i \div round
           z == i % round
           w == z \div WarpSize
           l == z % WarpSize
<1>1. WarpSize \in Nat \ {0}
  BY RowSizes
<1>2. round \in Nat \ {0} /\ i \in Nat
  BY <1>1
<1>3. r \in Nat /\ z \in 0..(round - 1) /\ i = round * r + z
  <2> HIDE DEF round
  <2> QED BY <1>2, DivMod
<1>4. r < (n + round - 1) \div round
  <2> HIDE DEF round
  <2> QED BY <1>2, CeilAbove DEF IntegerDivideCeil
<1> HIDE DEF r, z
<1>5. w \in Nat /\ l \in 0..(WarpSize - 1) /\ z = WarpSize * w + l
  <2>1. z \in Nat
    <3> HIDE DEF round
    <3> QED BY <1>2, <1>3
  <2> QED BY <1>1, <2>1, DivMod
<1>6. w < waves
  <2>1. z \in Nat /\ z < WarpSize * waves
    BY <1>1, <1>3
  <2> QED BY <1>1, <2>1, DivRange
<1> HIDE DEF w, l
<1>7. i = r * round + w * WarpSize + l
  <2>1. i = r * round + z
    BY <1>2, <1>3
  <2>2. r * round \in Nat
    BY <1>2, <1>3
  <2> HIDE DEF round
  <2> QED BY <1>1, <1>5, <2>1, <2>2
<1>8. i % WarpSize = l
  <2> DEFINE q == r * waves + w
  <2>1. q \in Nat /\ i = WarpSize * q + l
    BY <1>1, <1>3, <1>5, <1>7
  <2> HIDE DEF q
  <2> QED BY <1>1, <1>5, <2>1, DivModUnique
<1> QED BY <1>2, <1>3, <1>4, <1>5, <1>6, <1>7, <1>8 DEF r, z, w, Lanes

\* The prefix sums of a block.
LEMMA BlockPrefix ==
  ASSUME NEW n \in Nat, NEW f, \A i \in 0..(n - 1) : f[i] \in Int, NEW P, Runs(P, f, n),
         NEW waves \in Nat \ {0}
  PROVE  BlockCumsum(f, n, waves) = [i \in 0..(n - 1) |-> P[i + 1]]
<1> DEFINE W == WarpSize
           round == waves * W
           rounds == (n + round - 1) \div round
           item(r, w, l) == r * round + w * W + l
           v(rw) == [l \in Lanes |-> IF item(rw[1], rw[2], l) < n
                                     THEN f[item(rw[1], rw[2], l)] ELSE 0]
           of == Held([rw \in (0..(rounds - 1)) \X (0..(waves - 1)) |->
                         Held(WaveCumsum(v(rw)))])
           ends1(r) == [u \in 0..(waves - 1) |-> of[<<r, u>>][W - 1]]
           sumAt(r, w, l) == of[<<r, w>>][l] + SumFunctionOnSet(ends1(r), 0..(w - 1))
           ends == Held([r \in 0..(rounds - 1) |-> sumAt(r, waves - 1, W - 1)])
           C(i) == Capped(P, n, i)
<1>1. W \in Nat \ {0} /\ round \in Nat \ {0} /\ rounds \in Nat
  <2>1. W \in Nat \ {0}
    BY RowSizes
  <2>2. round \in Nat \ {0}
    BY <2>1
  <2>3. rounds \in Nat
    <3> HIDE DEF round
    <3> QED BY <2>2, CeilMultiple DEF IntegerDivideCeil
  <2> QED BY <2>1, <2>2, <2>3
<1>2. \A i \in Nat : C(i) \in Int
  BY CappedSteps
<1>3. ASSUME NEW r \in 0..(rounds - 1), NEW w \in 0..(waves - 1)
      PROVE  of[<<r, w>>] = [l \in Lanes |-> C(r * round + w * W + l + 1) - C(r * round + w * W)]
  <2> DEFINE b == r * round + w * W
             x == v(<<r, w>>)
  <2>1. b \in Nat
    <3>1. r * round \in Nat /\ w * W \in Nat
      <4> HIDE DEF round
      <4> QED BY <1>1
    <3> HIDE DEF round
    <3> QED BY <3>1
  <2>2. x = [l \in Lanes |-> IF b + l < n THEN f[b + l] ELSE 0]
    OBVIOUS
  <2>3. of[<<r, w>>] = WaveCumsum(x)
    <3> HIDE DEF v, rounds
    <3>1. of = [rw \in (0..(rounds - 1)) \X (0..(waves - 1)) |-> Held(WaveCumsum(v(rw)))]
      BY HeldIs
    <3> HIDE DEF of
    <3>2. of[<<r, w>>] = Held(WaveCumsum(v(<<r, w>>)))
      BY <3>1
    <3> QED BY <3>2, HeldIs
  <2> HIDE DEF x, of, b
  <2>4. WaveCumsum(x) = [l \in Lanes |-> C(b + l + 1) - C(b)]
    BY <2>1, <2>2, WaveOf
  <2> QED BY <2>3, <2>4 DEF b
<1>4. /\ ends = [r \in 0..(rounds - 1) |-> sumAt(r, waves - 1, W - 1)]
      /\ BlockCumsum(f, n, waves) = [i \in 0..(n - 1) |->
        SumFunctionOnSet(ends, 0..(i \div round - 1)) + sumAt(i \div round, (i % round) \div W, i % W)]
  <2>1. ends = [r \in 0..(rounds - 1) |-> sumAt(r, waves - 1, W - 1)]
    BY HeldIs
  <2>2. BlockCumsum(f, n, waves) = Held([i \in 0..(n - 1) |->
        SumFunctionOnSet(ends, 0..(i \div round - 1)) + sumAt(i \div round, (i % round) \div W, i % W)])
    BY DEF BlockCumsum
  <2> QED BY <2>1, <2>2, HeldIs
<1> HIDE DEF of
<1>5. ASSUME NEW r \in 0..(rounds - 1), NEW w \in 0..waves
      PROVE  SumFunctionOnSet(ends1(r), 0..(w - 1)) = C(r * round + w * W) - C(r * round)
  <2> DEFINE g == [u \in 0..waves |-> C(r * round + u * W)]
             e == ends1(r)
  <2>1. r * round \in Nat
    <3> HIDE DEF round
    <3> QED BY <1>1
  <2>2. \A u \in Nat : r * round + u * W \in Nat
    <3> DEFINE b == r * round
    <3> HIDE DEF b
    <3>1. b \in Nat
      BY <2>1 DEF b
    <3>2. \A u \in Nat : b + u * W \in Nat
      BY <1>1, <3>1
    <3> QED BY <3>2 DEF b
  <2>3. \A u \in 0..waves : g[u] \in Int
    <3> HIDE DEF C, round
    <3> QED BY <1>2, <2>2
  <2>4. ASSUME NEW u \in 0..(w - 1) PROVE e[u] = g[u + 1] - g[u]
    <3>1. u \in 0..(waves - 1) /\ W - 1 \in Lanes
      BY <1>1 DEF Lanes
    <3>2. of[<<r, u>>][W - 1] = C(r * round + u * W + (W - 1) + 1) - C(r * round + u * W)
      <4> HIDE DEF C
      <4> QED BY <1>3, <3>1
    <3>3. r * round + u * W + (W - 1) + 1 = r * round + (u + 1) * W
      <4> DEFINE b == r * round
      <4>1. b \in Nat
        BY <2>1
      <4> HIDE DEF b
      <4>2. b + u * W + (W - 1) + 1 = b + (u + 1) * W
        BY <1>1, <4>1
      <4> QED BY <4>2 DEF b
    <3>4. e[u] = of[<<r, u>>][W - 1] /\ g[u + 1] = C(r * round + (u + 1) * W)
          /\ g[u] = C(r * round + u * W)
      <4>1. u \in 0..waves /\ u + 1 \in 0..waves
        BY <3>1
      <4> HIDE DEF C
      <4> QED BY <3>1, <4>1
    <3> HIDE DEF e, g, C, round
    <3> QED BY <3>2, <3>3, <3>4
  <2>5. g[w] = C(r * round + w * W) /\ g[0] = C(r * round)
    <3>1. 0 \in 0..waves /\ r * round + 0 * W = r * round
      <4> DEFINE b == r * round
      <4>1. b \in Nat
        BY <2>1
      <4> HIDE DEF b
      <4>2. 0 \in 0..waves /\ b + 0 * W = b
        BY <1>1, <4>1
      <4> QED BY <4>2 DEF b
    <3> HIDE DEF C
    <3> QED BY <3>1
  <2>6. \A u \in 0..w : g[u] \in Int
    <3> HIDE DEF g
    <3> QED BY <2>3
  <2> HIDE DEF g, e
  <2>7. SumFunctionOnSet(e, 0..(w - 1)) = g[w] - g[0]
    BY <2>4, <2>6, Telescope
  <2> HIDE DEF C
  <2> QED BY <2>5, <2>7 DEF e
<1>6. ASSUME NEW r \in 0..(rounds - 1), NEW w \in 0..(waves - 1), NEW l \in Lanes
      PROVE  sumAt(r, w, l) = C(r * round + w * W + l + 1) - C(r * round)
  <2>1. of[<<r, w>>][l] = C(r * round + w * W + l + 1) - C(r * round + w * W)
    <3> HIDE DEF C
    <3> QED BY <1>3
  <2>2. SumFunctionOnSet(ends1(r), 0..(w - 1)) = C(r * round + w * W) - C(r * round)
    <3>1. w \in 0..waves
      OBVIOUS
    <3> HIDE DEF C, ends1
    <3> QED BY <1>5, <3>1
  <2>3. r * round \in Nat /\ r * round + w * W \in Nat /\ r * round + w * W + l + 1 \in Nat
    <3> DEFINE b == r * round
    <3>1. b \in Nat
      <4> HIDE DEF round
      <4> QED BY <1>1
    <3> HIDE DEF b
    <3>2. w * W \in Nat /\ l \in Nat
      BY <1>1 DEF Lanes
    <3>3. b + w * W \in Nat /\ b + w * W + l + 1 \in Nat
      BY <3>1, <3>2
    <3> QED BY <3>1, <3>3 DEF b
  <2>4. C(r * round) \in Int /\ C(r * round + w * W) \in Int /\ C(r * round + w * W + l + 1) \in Int
    <3> HIDE DEF C, round
    <3> QED BY <1>2, <2>3
  <2> HIDE DEF C, ends1, round
  <2> QED BY <2>1, <2>2, <2>4
<1> HIDE DEF sumAt, ends
<1>7. ASSUME NEW r \in 0..(rounds - 1)
      PROVE  SumFunctionOnSet(ends, 0..(r - 1)) = C(r * round)
  <2> DEFINE g == [u \in 0..rounds |-> C(u * round)]
  <2>1. \A u \in Nat : u * round \in Nat
    <3> HIDE DEF round
    <3> QED BY <1>1
  <2>2. \A u \in 0..r : g[u] \in Int
    <3>1. \A u \in 0..r : u \in 0..rounds /\ u \in Nat
      <4> HIDE DEF rounds
      <4> QED BY <1>1
    <3> HIDE DEF C, round, rounds
    <3> QED BY <1>2, <2>1, <3>1
  <2>3. ASSUME NEW u \in 0..(r - 1) PROVE ends[u] = g[u + 1] - g[u]
    <3>1. u \in 0..(rounds - 1) /\ u + 1 \in 0..rounds /\ u \in 0..rounds /\ u \in Nat
      <4> HIDE DEF rounds
      <4> QED BY <1>1
    <3>2. waves - 1 \in 0..(waves - 1) /\ W - 1 \in Lanes
      BY <1>1 DEF Lanes
    <3>3. ends[u] = C(u * round + (waves - 1) * W + (W - 1) + 1) - C(u * round)
      <4>1. ends[u] = sumAt(u, waves - 1, W - 1)
        <5> HIDE DEF round, rounds
        <5> QED BY <1>4, <3>1
      <4> HIDE DEF C, round, rounds
      <4> QED BY <1>6, <3>1, <3>2, <4>1
    <3>4. u * round + (waves - 1) * W + (W - 1) + 1 = (u + 1) * round
      <4>1. (waves - 1) * W + (W - 1) + 1 = round
        BY <1>1
      <4>2. (u + 1) * round = u * round + round /\ u * round \in Nat /\ (waves - 1) * W \in Int
        <5> HIDE DEF round
        <5> QED BY <1>1, <3>1, <2>1
      <4> DEFINE a == u * round
                 c == (waves - 1) * W
      <4> HIDE DEF a, c
      <4>3. a + c + (W - 1) + 1 = a + (c + (W - 1) + 1)
        BY <1>1, <4>2 DEF a, c
      <4> QED BY <4>1, <4>2, <4>3 DEF a, c
    <3>5. g[u + 1] = C((u + 1) * round) /\ g[u] = C(u * round)
      <4> HIDE DEF C, round, rounds
      <4> QED BY <3>1
    <3> HIDE DEF C, round, rounds, g, ends
    <3> QED BY <3>3, <3>4, <3>5
  <2>4. g[r] = C(r * round) /\ g[0] = 0
    <3>1. 0 * round = 0 /\ C(0) = P[0] /\ P[0] = 0
      <4>1. C(0) = P[0] /\ P[0] = 0
        <5>1. 0 \in Nat /\ 0 <= n
          OBVIOUS
        <5>2. C(0) = P[0]
          BY <5>1, CappedSteps
        <5> QED BY <5>2 DEF Runs
      <4>2. 0 * round = 0
        <5> HIDE DEF round
        <5> QED BY <1>1
      <4> QED BY <4>1, <4>2
    <3>2. r \in 0..rounds /\ 0 \in 0..rounds
      <4> HIDE DEF rounds
      <4> QED BY <1>1
    <3> HIDE DEF C, round, rounds
    <3> QED BY <3>1, <3>2
  <2>5. C(r * round) \in Int /\ r \in Nat
    <3> HIDE DEF C, round, rounds
    <3> QED BY <1>2, <2>1
  <2> HIDE DEF g, ends
  <2>6. SumFunctionOnSet(ends, 0..(r - 1)) = g[r] - g[0]
    BY <2>2, <2>3, <2>5, Telescope
  <2> HIDE DEF C
  <2> QED BY <2>4, <2>5, <2>6
<1>8. ASSUME NEW i \in 0..(n - 1)
      PROVE  SumFunctionOnSet(ends, 0..(i \div round - 1))
               + sumAt(i \div round, (i % round) \div W, i % W) = P[i + 1]
  <2> DEFINE r == i \div round
             w == (i % round) \div W
             l == i % W
  <2>1. /\ r \in 0..(rounds - 1) /\ w \in 0..(waves - 1) /\ l \in Lanes
        /\ i = r * round + w * W + l
    <3>1. /\ r \in Nat /\ r < rounds /\ w \in 0..(waves - 1) /\ l \in Lanes
          /\ i = r * round + w * W + l
      BY PlaceOf
    <3> HIDE DEF r, w, l, rounds
    <3> QED BY <1>1, <3>1
  <2> HIDE DEF r, w, l
  <2>2. SumFunctionOnSet(ends, 0..(r - 1)) = C(r * round)
    <3> HIDE DEF C, ends, round, rounds
    <3> QED BY <1>7, <2>1
  <2>3. sumAt(r, w, l) = C(i + 1) - C(r * round)
    <3> HIDE DEF C, round, rounds
    <3> QED BY <1>6, <2>1
  <2>4. C(i + 1) = P[i + 1] /\ C(i + 1) \in Int
    BY CappedSteps
  <2>5. C(r * round) \in Int
    <3>1. r * round \in Nat
      <4> HIDE DEF round, rounds
      <4> QED BY <1>1, <2>1
    <3> HIDE DEF C, round
    <3> QED BY <1>2, <3>1
  <2>6. SumFunctionOnSet(ends, 0..(r - 1)) + sumAt(r, w, l) = P[i + 1]
    <3> HIDE DEF C, ends
    <3> QED BY <2>2, <2>3, <2>4, <2>5
  <2> QED BY <2>6 DEF r, w, l
<1> HIDE DEF ends
<1> QED BY <1>4, <1>8

\* The sum of a block.
LEMMA BlockTotal ==
  ASSUME NEW n \in Nat, NEW f, \A i \in 0..(n - 1) : f[i] \in Int, NEW P, Runs(P, f, n)
  PROVE  BlockSum(f, n) = P[n]
<1> DEFINE W == WarpSize
           rounds == (n + BlockThreads - 1) \div BlockThreads
           count == rounds * NumWaves
           turns == 0..(count - 1)
           item(g, l) == g * W + l
           v(g) == [l \in Lanes |-> IF item(g, l) < n THEN f[item(g, l)] ELSE 0]
           sums == [g \in turns |-> WaveReduce(v(g))[0]]
           C(i) == Capped(P, n, i)
           to == [g \in 0..count |-> C(g * W)]
<1>1. /\ W \in Nat \ {0} /\ NumWaves \in Nat \ {0} /\ BlockThreads = NumWaves * W
      /\ BlockThreads \in Nat \ {0}
  BY RowSizes
<1>2. rounds \in Nat /\ n <= rounds * BlockThreads
  BY <1>1, CeilMultiple DEF IntegerDivideCeil
<1> HIDE DEF rounds
<1>3. count \in Nat /\ count * W \in Nat /\ n <= count * W
  <2>1. count * W = rounds * BlockThreads /\ rounds * BlockThreads \in Nat
    BY <1>1, <1>2
  <2> QED BY <1>1, <1>2, <2>1
<1> HIDE DEF count
<1>4. BlockSum(f, n) = SumFunctionOnSet(sums, turns)
  BY DEF BlockSum, rounds, count
<1>5. \A u \in Nat : u * W \in Nat /\ C(u * W) \in Int
  <2>1. \A u \in Nat : u * W \in Nat
    BY <1>1
  <2> QED BY <2>1, CappedSteps
<1>6. ASSUME NEW g \in 0..(count - 1) PROVE sums[g] = to[g + 1] - to[g]
  <2> DEFINE x == v(g)
             b == g * W
  <2>1. b \in Nat
    BY <1>1
  <2>2. sums[g] = WaveReduce(x)[0]
    <3> HIDE DEF v
    <3> QED OBVIOUS
  <2>3. x = [l \in Lanes |-> IF b + l < n THEN f[b + l] ELSE 0]
    OBVIOUS
  <2>4. g \in 0..count /\ g + 1 \in 0..count
    BY <1>3
  <2>5. to[g + 1] = C((g + 1) * W) /\ to[g] = C(g * W)
    <3> HIDE DEF C
    <3> QED BY <2>4
  <2>6. (g + 1) * W = b + W
    BY <1>1
  <2> HIDE DEF b, x
  <2>7. WaveReduce(x)[0] = C(b + W) - C(b)
    BY <2>1, <2>3, WaveOf
  <2> HIDE DEF to, C, sums
  <2> QED BY <2>2, <2>5, <2>6, <2>7 DEF b
<1>7. \A u \in 0..count : to[u] \in Int
  <2>1. \A u \in 0..count : to[u] = C(u * W) /\ u \in Nat
    BY <1>3
  <2> HIDE DEF to, C
  <2> QED BY <1>5, <2>1
<1>8. to[count] = P[n] /\ to[0] = 0
  <2>1. C(0) = P[0] /\ P[0] = 0
    <3>1. 0 \in Nat /\ 0 <= n
      OBVIOUS
    <3>2. C(0) = P[0]
      BY <3>1, CappedSteps
    <3> QED BY <3>2 DEF Runs
  <2>2. C(count * W) = P[n]
    BY <1>3 DEF Capped
  <2>3. 0 * W = 0 /\ 0 \in 0..count /\ count \in 0..count
    BY <1>1, <1>3
  <2>4. to[count] = C(count * W) /\ to[0] = C(0 * W)
    <3> HIDE DEF C
    <3> QED BY <2>3
  <2> HIDE DEF C, to
  <2> QED BY <2>1, <2>2, <2>3, <2>4
<1> HIDE DEF to, sums
<1>9. SumFunctionOnSet(sums, turns) = to[count] - to[0]
  BY <1>3, <1>6, <1>7, Telescope
<1>10. P[n] \in Int
  BY DEF Runs
<1> QED BY <1>4, <1>8, <1>9, <1>10

(***************************************************************************)
(* What the scans compute, for every width of a row and number of waves.   *)
(***************************************************************************)
\* P lists the sums of the first items of f, and the code's scans of a wave, of
\* lane groups and of a block end with them: wave_cumsum with a prefix sum in
\* every lane, in groups of 8 with that of the group, wave_reduce and
\* BlockReduce with the total, and the rounds over a block with the prefix sum
\* of every item.
THEOREM ScansArePrefixSums ==
  /\ \A v, P : v \in [Lanes -> Int] /\ Runs(P, v, WarpSize) =>
       /\ WaveCumsum(v) = [l \in Lanes |-> P[l + 1]]
       /\ GroupCumsum(v) = [l \in Lanes |-> P[l + 1] - P[(l \div LaneGroup) * LaneGroup]]
       /\ WaveReduce(v)[0] = P[WarpSize]
  /\ \A n \in Nat : \A f, P : (\A i \in 0..(n - 1) : f[i] \in Int) /\ Runs(P, f, n) =>
       /\ BlockSum(f, n) = P[n]
       /\ \A waves \in Nat \ {0} :
            BlockCumsum(f, n, waves) = [i \in 0..(n - 1) |-> P[i + 1]]
<1>1. ASSUME NEW v, NEW P, v \in [Lanes -> Int], Runs(P, v, WarpSize)
      PROVE  /\ WaveCumsum(v) = [l \in Lanes |-> P[l + 1]]
             /\ GroupCumsum(v) = [l \in Lanes |-> P[l + 1] - P[(l \div LaneGroup) * LaneGroup]]
             /\ WaveReduce(v)[0] = P[WarpSize]
  <2>1. v = [l \in Lanes |-> v[l]] /\ \A l \in Lanes : v[l] \in Int
    BY <1>1
  <2> QED BY <1>1, <2>1, WavePrefix, WaveTotal
<1>2. ASSUME NEW n \in Nat, NEW f, NEW P, \A i \in 0..(n - 1) : f[i] \in Int, Runs(P, f, n)
      PROVE  /\ BlockSum(f, n) = P[n]
             /\ \A waves \in Nat \ {0} :
                  BlockCumsum(f, n, waves) = [i \in 0..(n - 1) |-> P[i + 1]]
  BY <1>2, BlockTotal, BlockPrefix
<1> QED BY <1>1, <1>2

(***************************************************************************)
(* What the lists need.                                                    *)
(***************************************************************************)
TopkIds == 0..(Topk - 1)

\* the pairs of the tokens below m that name expert e, and how many
PairsNaming(e, m) ==
  {tk \in Tokens \X TopkIds : tk[1] < m /\ input.ids[tk[1]][tk[2]] = e}
Named(e, m) == Cardinality(PairsNaming(e, m))
Names(t, e) == t \in Tokens /\ \E k \in TopkIds : input.ids[t][k] = e

\* tokens of an expert, and the units of its list
TokensOf(e) == Named(e, input.tokens)
ListUnits(e) ==
  IF Enabled(e) THEN Max({IntegerDivideCeil(TokensOf(e), UnitSize), LeastUnits}) ELSE 0

\* the unit where each list starts
UnitStart == CHOOSE P : Runs(P, [e \in Experts |-> ListUnits(e)], input.experts)

\* The pairs of a token and a topk_id, and how many there are.
LEMMA PairsFinite ==
  ASSUME input \in Inputs
  PROVE  /\ IsFiniteSet(Tokens \X TopkIds)
         /\ Cardinality(Tokens \X TopkIds) = input.tokens * Topk
         /\ IsFiniteSet(TopkIds) /\ Cardinality(TopkIds) = Topk
<1>1. input.tokens \in Nat \ {0} /\ Topk \in Nat \ {0}
  BY Problem
<1>2. IsFiniteSet(Tokens) /\ Cardinality(Tokens) = input.tokens
  <2> DEFINE n == input.tokens
  <2>1. n \in Nat \ {0}
    BY <1>1
  <2> HIDE DEF n
  <2>2. IsFiniteSet(0..(n - 1)) /\ Cardinality(0..(n - 1)) = n
    BY <2>1, FS_Interval
  <2> QED BY <2>2 DEF Tokens, n
<1>3. IsFiniteSet(TopkIds) /\ Cardinality(TopkIds) = Topk
  BY <1>1, FS_Interval DEF TopkIds
<1> QED BY <1>2, <1>3, FS_Product

\* A token names an expert once, or not at all.
LEMMA NamedStep ==
  ASSUME input \in Inputs, NEW e, NEW m \in Nat
  PROVE  /\ Named(e, m) \in Nat /\ Named(e, 0) = 0
         /\ Named(e, m + 1) = Named(e, m) + IF Names(m, e) THEN 1 ELSE 0
<1>1. \A n : IsFiniteSet(PairsNaming(e, n)) /\ Named(e, n) \in Nat
  <2>1. \A n : PairsNaming(e, n) \in SUBSET (Tokens \X TopkIds)
    BY DEF PairsNaming
  <2> QED BY <2>1, PairsFinite, FS_Subset, FS_CardinalityType DEF Named
<1>2. Named(e, 0) = 0
  <2>1. input.tokens \in Nat
    BY Problem
  <2>2. PairsNaming(e, 0) = {}
    BY <2>1 DEF PairsNaming, Tokens
  <2> QED BY <2>2, FS_EmptySet DEF Named
<1>3. CASE ~Names(m, e)
  <2>1. \A tk \in Tokens \X TopkIds : tk[1] \in Int
    BY DEF Tokens
  <2>2. PairsNaming(e, m + 1) = PairsNaming(e, m)
    BY <1>3, <2>1 DEF PairsNaming, Names, Tokens
  <2> QED BY <1>1, <1>2, <1>3, <2>2 DEF Named
<1>4. CASE Names(m, e)
  <2>1. PICK k \in TopkIds : input.ids[m][k] = e
    BY <1>4 DEF Names
  <2>2. m \in Tokens /\ \A j \in TopkIds : input.ids[m][j] = e => j = k
    BY <1>4, <2>1, Problem DEF Names, TopkIds
  <2>3. PairsNaming(e, m + 1) = PairsNaming(e, m) \union {<<m, k>>}
    <3>1. ASSUME NEW tk \in Tokens \X TopkIds
          PROVE  tk \in PairsNaming(e, m + 1) <=> tk \in PairsNaming(e, m) \/ tk = <<m, k>>
      <4>1. tk = <<tk[1], tk[2]>> /\ tk[1] \in Tokens /\ tk[2] \in TopkIds /\ tk[1] \in Int
        BY DEF Tokens
      <4> QED BY <2>1, <2>2, <4>1 DEF PairsNaming
    <3>2. <<m, k>> \in Tokens \X TopkIds
      BY <2>2
    <3> QED BY <3>1, <3>2 DEF PairsNaming
  <2>4. <<m, k>> \notin PairsNaming(e, m)
    BY DEF PairsNaming
  <2>5. Named(e, m + 1) = Named(e, m) + 1
    BY <1>1, <2>3, <2>4, FS_AddElement DEF Named
  <2> QED BY <1>1, <1>2, <1>4, <2>5
<1> QED BY <1>3, <1>4

\* More tokens name more, up to all of them.
LEMMA NamedUpTo ==
  ASSUME input \in Inputs, NEW e, NEW m \in Nat, NEW n \in Nat, m <= n
  PROVE  /\ Named(e, m) <= Named(e, n) /\ Named(e, n) <= TokensOf(e)
         /\ n >= input.tokens => Named(e, n) = TokensOf(e)
         /\ Named(e, m) <= m
<1>1. \A k : IsFiniteSet(PairsNaming(e, k))
  <2>1. \A k : PairsNaming(e, k) \in SUBSET (Tokens \X TopkIds)
    BY DEF PairsNaming
  <2> QED BY <2>1, PairsFinite, FS_Subset
<1>2. \A tk \in Tokens \X TopkIds : tk[1] \in Int /\ tk[1] < input.tokens
  BY Problem DEF Tokens
<1>3. input.tokens \in Nat
  BY Problem
<1>4. PairsNaming(e, m) \in SUBSET PairsNaming(e, n)
  BY <1>2 DEF PairsNaming
<1>5. PairsNaming(e, n) \in SUBSET PairsNaming(e, input.tokens)
  BY <1>2 DEF PairsNaming
<1>6. n >= input.tokens => PairsNaming(e, n) = PairsNaming(e, input.tokens)
  BY <1>2, <1>3 DEF PairsNaming
<1>7. Named(e, m) <= m
  <2> DEFINE S == {k \in Nat : Named(e, k) <= k}
  <2>1. 0 \in S
    BY NamedStep
  <2>2. ASSUME NEW k \in Nat, k \in S PROVE k + 1 \in S
    <3>1. Named(e, k) \in Nat /\ Named(e, k + 1) = Named(e, k) + IF Names(k, e) THEN 1 ELSE 0
      BY NamedStep
    <3> QED BY <2>2, <3>1
  <2> HIDE DEF S
  <2>3. Nat \subseteq S
    BY <2>1, <2>2, SetInduction
  <2> QED BY <2>3 DEF S
<1> QED BY <1>1, <1>4, <1>5, <1>6, <1>7, FS_Subset DEF Named, TokensOf

\* A quotient rounded up is less than one above.
LEMMA CeilBelow ==
  ASSUME NEW x \in Nat, NEW d \in Nat \ {0}
  PROVE  IntegerDivideCeil(x, d) * d <= x + d - 1 /\ (x > 0 => IntegerDivideCeil(x, d) > 0)
<1> DEFINE q == (x + d - 1) \div d
           r == (x + d - 1) % d
<1>1. x + d - 1 \in Nat
  OBVIOUS
<1>2. q \in Nat /\ r \in 0 .. d - 1 /\ x + d - 1 = d * q + r
  BY <1>1, DivMod
<1> HIDE DEF q, r
<1>3. q * d <= x + d - 1
  BY <1>2
<1>4. x > 0 => q > 0
  <2> SUFFICES ASSUME x > 0, q = 0 PROVE FALSE
    BY <1>2
  <2>1. d * q = 0
    OBVIOUS
  <2> QED BY <1>2, <2>1
<1> QED BY <1>3, <1>4 DEF IntegerDivideCeil, q

\* The units of a list hold its tokens, and are few.
LEMMA ListUnitsFit ==
  ASSUME input \in Inputs, NEW e \in Experts
  PROVE  /\ TokensOf(e) \in Nat /\ ListUnits(e) \in Nat /\ LeastUnits \in {0, 1}
         /\ Enabled(e) => TokensOf(e) <= UnitSize * ListUnits(e)
                          /\ IntegerDivideCeil(TokensOf(e), UnitSize) <= ListUnits(e)
         /\ UnitSize * ListUnits(e) + (IF TokensOf(e) > 0 THEN 1 ELSE 0) <= TokensOf(e) + UnitSize
<1> DEFINE c == TokensOf(e)
           q == IntegerDivideCeil(c, UnitSize)
<1>1. c \in Nat /\ UnitSize \in Nat \ {0} /\ LeastUnits \in {0, 1}
  <2>1. input.tokens \in Nat
    BY Problem
  <2> QED BY <2>1, NamedStep, SortAssumption DEF TokensOf, LeastUnits
<1>2. /\ q \in Nat /\ c <= q * UnitSize /\ q * UnitSize <= c + UnitSize - 1
      /\ (c > 0 => q > 0)
  BY <1>1, CeilMultiple, CeilBelow
<1> HIDE DEF c, q
<1>3. Max({q, LeastUnits}) \in {q, LeastUnits} /\ Max({q, LeastUnits}) >= q
      /\ Max({q, LeastUnits}) >= LeastUnits
  <2>1. \E x \in {q, LeastUnits} : \A y \in {q, LeastUnits} : x >= y
    BY <1>1, <1>2
  <2> QED BY <2>1 DEF Max
<1>4. CASE Enabled(e)
  <2> DEFINE u == Max({q, LeastUnits})
  <2>1. u \in {q, LeastUnits} /\ u >= q /\ u \in Nat
    BY <1>1, <1>2, <1>3
  <2>2. ListUnits(e) = u
    BY <1>4 DEF ListUnits, q, c
  <2> HIDE DEF u
  <2>3. q * UnitSize <= u * UnitSize /\ UnitSize * u = u * UnitSize
    BY <1>1, <1>2, <2>1, ProductOrder
  <2>4. c <= UnitSize * u
    BY <1>1, <1>2, <2>1, <2>3
  <2>5. UnitSize * u + (IF c > 0 THEN 1 ELSE 0) <= c + UnitSize
    <3>1. CASE u = q
      BY <1>1, <1>2, <2>3, <3>1
    <3>2. CASE u # q
      <4>1. q = 0 /\ u = 1
        BY <1>1, <1>2, <2>1, <3>2
      <4>2. c = 0
        BY <1>1, <1>2, <4>1
      <4> QED BY <1>1, <4>1, <4>2
    <3> QED BY <3>1, <3>2
  <2> QED BY <1>1, <1>4, <2>1, <2>2, <2>4, <2>5 DEF c, q
<1>5. CASE ~Enabled(e)
  <2>1. ListUnits(e) = 0 /\ UnitSize * 0 = 0
    BY <1>1, <1>5 DEF ListUnits
  <2> QED BY <1>1, <1>5, <2>1 DEF c
<1> QED BY <1>4, <1>5

\* Each list starts where the one before ends.
LEMMA ListsInOrder ==
  ASSUME input \in Inputs
  PROVE  /\ Runs(UnitStart, [e \in Experts |-> ListUnits(e)], input.experts)
         /\ \A x \in 0..input.experts : UnitStart[x] \in Nat
         /\ \A e \in Experts : UnitStart[e + 1] = UnitStart[e] + ListUnits(e)
         /\ \A x, y \in 0..input.experts : x <= y => UnitStart[x] <= UnitStart[y]
<1> DEFINE n == input.experts
           f == [e \in Experts |-> ListUnits(e)]
<1>1. n \in Nat /\ Experts = 0..(n - 1)
  BY Problem DEF Experts
<1>2. \A e \in 0..(n - 1) : f[e] \in Nat /\ f[e] = ListUnits(e)
  BY <1>1, ListUnitsFit
<1>3. Runs(UnitStart, f, n)
  <2>1. \A e \in 0..(n - 1) : f[e] \in Int
    BY <1>2
  <2> HIDE DEF f, n
  <2>2. \E P : Runs(P, f, n)
    BY <1>1, <2>1, RunsExist
  <2> QED BY <2>2 DEF UnitStart, f, n
<1> HIDE DEF f, n
<1>4. /\ UnitStart \in [0..n -> Int] /\ UnitStart[0] = 0
      /\ \A e \in 0..(n - 1) : UnitStart[e + 1] = UnitStart[e] + f[e]
  BY <1>3 DEF Runs
<1> DEFINE S == {k \in Nat : k \in 0..n =>
                   UnitStart[k] \in Nat /\ \A x \in 0..k : UnitStart[x] <= UnitStart[k]}
<1>5. 0 \in S
  BY <1>4
<1>6. ASSUME NEW k \in Nat, k \in S PROVE k + 1 \in S
  <2> SUFFICES ASSUME k + 1 \in 0..n
               PROVE  UnitStart[k + 1] \in Nat
                     /\ \A x \in 0..(k + 1) : UnitStart[x] <= UnitStart[k + 1]
    OBVIOUS
  <2>1. k \in 0..n /\ k \in 0..(n - 1)
    BY <1>1
  <2>2. UnitStart[k] \in Nat /\ \A x \in 0..k : UnitStart[x] <= UnitStart[k]
    BY <1>6, <2>1
  <2>3. UnitStart[k + 1] = UnitStart[k] + f[k] /\ f[k] \in Nat
    BY <1>2, <1>4, <2>1
  <2>4. ASSUME NEW x \in 0..(k + 1) PROVE UnitStart[x] <= UnitStart[k + 1]
    <3>1. CASE x = k + 1
      BY <2>2, <2>3, <3>1
    <3>2. CASE x # k + 1
      <4>1. x \in 0..k /\ x \in 0..n
        BY <1>1, <3>2, <2>1
      <4>2. UnitStart[x] \in Int /\ UnitStart[x] <= UnitStart[k]
        BY <1>4, <2>2, <4>1
      <4> QED BY <2>2, <2>3, <4>2
    <3> QED BY <3>1, <3>2
  <2> QED BY <2>2, <2>3, <2>4
<1> HIDE DEF S
<1>7. Nat \subseteq S
  BY <1>5, <1>6, SetInduction
<1>8. \A k \in 0..n : UnitStart[k] \in Nat /\ \A x \in 0..k : UnitStart[x] <= UnitStart[k]
  BY <1>7 DEF S
<1>9. \A x, y \in 0..n : x <= y => UnitStart[x] <= UnitStart[y]
  BY <1>8
<1> QED BY <1>1, <1>2, <1>3, <1>4, <1>8, <1>9 DEF f, n

(***************************************************************************)
(* The buffers are long enough.  Padding takes less than a unit of every   *)
(* list; a token names Topk experts, so that as many lists are not empty,  *)
(* and those take a unit less one at most: the host allocates Topk less.   *)
(***************************************************************************)
LEMMA ListsFit ==
  ASSUME input \in Inputs
  PROVE  /\ UnitSize * UnitStart[input.experts] <= MaxOutputIds
         /\ MaxOutputIds \in Nat /\ MaxOutputIds \div UnitSize \in Nat
         /\ MaxOutputIds = UnitSize * (MaxOutputIds \div UnitSize)
<1> DEFINE n == input.experts
           all == input.tokens * Topk
           Below(k) == {tk \in Tokens \X TopkIds : input.ids[tk[1]][tk[2]] < k}
           Used(k) == {e \in 0..(k - 1) : TokensOf(e) > 0}
           A(k) == Cardinality(Below(k))
           B(k) == Cardinality(Used(k))
           Fits(k) == UnitSize * UnitStart[k] + B(k) <= A(k) + k * UnitSize
<1>1. /\ n \in Nat \ {0} /\ Experts = 0..(n - 1) /\ UnitSize \in Nat \ {0}
      /\ Topk \in Nat \ {0} /\ input.tokens \in Nat \ {0} /\ all \in Nat
  <2>1. /\ n \in Nat \ {0} /\ Experts = 0..(n - 1) /\ UnitSize \in Nat \ {0}
        /\ Topk \in Nat \ {0} /\ input.tokens \in Nat \ {0}
    BY Problem, SortAssumption DEF Experts
  <2> QED BY <2>1
<1>2. \A tk \in Tokens \X TopkIds : input.ids[tk[1]][tk[2]] \in Experts
  BY Problem DEF TopkIds
<1>3. \A k : IsFiniteSet(Below(k)) /\ A(k) \in Nat /\ A(k) <= all
  <2>1. \A k : Below(k) \in SUBSET (Tokens \X TopkIds)
    OBVIOUS
  <2> HIDE DEF Below
  <2> QED BY <2>1, PairsFinite, FS_Subset, FS_CardinalityType
<1>4. \A k \in Nat : IsFiniteSet(Used(k)) /\ B(k) \in Nat
  <2>1. \A k \in Nat : Used(k) \in SUBSET (0..(k - 1)) /\ IsFiniteSet(0..(k - 1))
    BY FS_Interval
  <2> HIDE DEF Used
  <2> QED BY <2>1, FS_Subset, FS_CardinalityType
<1> HIDE DEF n, all
<1>5. ASSUME NEW k \in 0..(n - 1) PROVE A(k + 1) = A(k) + TokensOf(k)
  <2> DEFINE N == PairsNaming(k, input.tokens)
  <2>1. Below(k + 1) = Below(k) \union N /\ Below(k) \cap N = {}
    <3>1. ASSUME NEW tk \in Tokens \X TopkIds
          PROVE  /\ tk \in N <=> input.ids[tk[1]][tk[2]] = k
                 /\ input.ids[tk[1]][tk[2]] \in Int
      <4>1. tk[1] < input.tokens /\ input.ids[tk[1]][tk[2]] \in 0..(n - 1)
        BY <1>1, <1>2 DEF Tokens
      <4> QED BY <4>1 DEF PairsNaming
    <3>2. N \subseteq Tokens \X TopkIds
      BY DEF PairsNaming
    <3> HIDE DEF N
    <3>3. \A tk \in Tokens \X TopkIds :
            /\ tk \in Below(k + 1) <=> tk \in Below(k) \/ tk \in N
            /\ ~(tk \in Below(k) /\ tk \in N)
      BY <3>1
    <3>4. Below(k) \subseteq Tokens \X TopkIds /\ Below(k + 1) \subseteq Tokens \X TopkIds
      OBVIOUS
    <3> HIDE DEF Below
    <3> QED BY <3>2, <3>3, <3>4
  <2>2. IsFiniteSet(N)
    <3>1. N \in SUBSET (Tokens \X TopkIds)
      BY DEF PairsNaming
    <3> HIDE DEF N
    <3> QED BY <3>1, PairsFinite, FS_Subset
  <2>3. Cardinality(N) = TokensOf(k) /\ Cardinality(N) \in Nat
    BY <2>2, FS_CardinalityType DEF TokensOf, Named
  <2> HIDE DEF Below, N
  <2>4. A(k + 1) = A(k) + Cardinality(N) - Cardinality({})
    BY <1>3, <2>1, <2>2, FS_Union
  <2> QED BY <1>3, <2>3, <2>4, FS_EmptySet
<1>6. ASSUME NEW k \in 0..(n - 1)
      PROVE  B(k + 1) = B(k) + IF TokensOf(k) > 0 THEN 1 ELSE 0
  <2>1. Used(k + 1) = IF TokensOf(k) > 0 THEN Used(k) \union {k} ELSE Used(k)
    <3>1. \A e : e \in 0..(k + 1 - 1) <=> e \in 0..(k - 1) \/ e = k
      OBVIOUS
    <3> QED BY <3>1
  <2>2. k \notin Used(k) /\ k \in Nat
    OBVIOUS
  <2> HIDE DEF Used
  <2> QED BY <1>4, <2>1, <2>2, FS_AddElement
<1> DEFINE S == {k \in Nat : k \in 0..n => Fits(k)}
<1>7. 0 \in S
  <2>1. UnitStart[0] = 0
    BY ListsInOrder DEF Runs
  <2>2. Used(0) = {}
    OBVIOUS
  <2>3. B(0) = 0 /\ A(0) \in Nat
    <3> HIDE DEF Used
    <3> QED BY <1>3, <2>2, FS_EmptySet
  <2> HIDE DEF A, B
  <2> QED BY <1>1, <2>1, <2>3
<1>8. ASSUME NEW k \in Nat, k \in S PROVE k + 1 \in S
  <2> SUFFICES ASSUME k + 1 \in 0..n PROVE Fits(k + 1)
    <3> HIDE DEF Fits
    <3> QED OBVIOUS
  <2>1. k \in 0..(n - 1) /\ k \in 0..n /\ k \in Experts
    BY <1>1
  <2> DEFINE u == UnitStart[k]
             l == ListUnits(k)
             c == TokensOf(k)
             some == IF c > 0 THEN 1 ELSE 0
  <2>2. u \in Nat /\ UnitStart[k + 1] = u + l /\ l \in Nat /\ c \in Nat
        /\ UnitSize * l + some <= c + UnitSize
    BY <2>1, ListsInOrder, ListUnitsFit DEF n
  <2>3. UnitSize * u + B(k) <= A(k) + k * UnitSize
    BY <1>8, <2>1
  <2>4. A(k + 1) = A(k) + c /\ B(k + 1) = B(k) + some /\ A(k) \in Nat /\ B(k) \in Nat
    <3> HIDE DEF A, B
    <3> QED BY <1>3, <1>4, <1>5, <1>6, <2>1
  <2> HIDE DEF A, B, u, l, c
  <2>5. UnitSize * (u + l) = UnitSize * u + UnitSize * l
        /\ (k + 1) * UnitSize = k * UnitSize + UnitSize
        /\ UnitSize * u \in Nat /\ UnitSize * l \in Nat /\ k * UnitSize \in Nat
    BY <1>1, <2>2
  <2> DEFINE uu == UnitSize * u
             ul == UnitSize * l
             uk == k * UnitSize
  <2>6. uu + ul + (B(k) + some) <= A(k) + c + (uk + UnitSize)
    <3>1. /\ uu \in Nat /\ ul \in Nat /\ uk \in Nat /\ uu + B(k) <= A(k) + uk
          /\ ul + some <= c + UnitSize /\ some \in Nat /\ c \in Nat /\ UnitSize \in Nat
          /\ A(k) \in Nat /\ B(k) \in Nat
      BY <1>1, <2>2, <2>3, <2>4, <2>5
    <3> HIDE DEF uu, ul, uk, some
    <3> QED BY <3>1
  <2> QED BY <2>2, <2>4, <2>5, <2>6
<1> HIDE DEF S
<1>9. Fits(n)
  <2>1. n \in S
    BY <1>1, <1>7, <1>8, SetInduction
  <2> HIDE DEF Fits
  <2> QED BY <1>1, <2>1 DEF S
<1>10. B(n) >= Topk
  <2> SUFFICES ASSUME B(n) < Topk PROVE FALSE
    <3> HIDE DEF B, Used
    <3>1. n \in Nat /\ Topk \in Nat
      BY <1>1
    <3>2. B(n) \in Nat
      BY <1>4, <3>1
    <3> QED BY <3>1, <3>2
  <2> DEFINE f == input.ids[0]
  <2>1. 0 \in Tokens
    BY <1>1 DEF Tokens
  <2>2. ASSUME NEW k \in TopkIds PROVE f[k] \in Used(n)
    <3>1. Names(0, f[k])
      BY <2>1 DEF Names
    <3>2. Named(f[k], 1) = 1
      <4>1. Named(f[k], 0) = 0 /\ Named(f[k], 0 + 1) = Named(f[k], 0) + 1
        BY <3>1, NamedStep
      <4> QED BY <4>1
    <3>3. TokensOf(f[k]) >= 1 /\ TokensOf(f[k]) \in Nat
      <4>1. input.tokens \in Nat
        BY <1>1
      <4> QED BY <3>2, <4>1, NamedUpTo, NamedStep DEF TokensOf
    <3>4. f[k] \in 0..(n - 1)
      BY <1>1, <2>1, Problem DEF TopkIds
    <3> QED BY <3>3, <3>4
  <2>3. IsFiniteSet(TopkIds) /\ Cardinality(TopkIds) = Topk
    BY PairsFinite
  <2> DEFINE g == [k \in TopkIds |-> f[k]]
  <2>4. g \in [TopkIds -> Used(n)]
    <3> HIDE DEF Used, f
    <3> QED BY <2>2
  <2> HIDE DEF g, Used
  <2>5. PICK k \in TopkIds, j \in TopkIds : k # j /\ g[k] = g[j]
    BY <1>1, <1>4, <2>3, <2>4, FS_PigeonHole
  <2>6. input.ids[0][k] = input.ids[0][j]
    BY <2>5 DEF g
  <2> QED BY <2>1, <2>5, <2>6, Problem DEF TopkIds
<1> DEFINE M == Topk * input.tokens + input.experts * UnitSize - Topk
           q == IntegerDivideCeil(M, UnitSize)
<1>11. M = all + n * UnitSize - Topk /\ M \in Nat
  <2>1. Topk * input.tokens = all /\ n * UnitSize \in Nat /\ Topk <= all
    <3>1. 1 * Topk <= input.tokens * Topk
      BY <1>1, ProductOrder
    <3> QED BY <1>1, <3>1 DEF all
  <2> QED BY <1>1, <2>1 DEF n
<1>12. UnitSize * UnitStart[n] <= M
  <2>1. UnitStart[n] \in Nat /\ n \in Nat
    BY <1>1, ListsInOrder DEF n
  <2>2. UnitSize * UnitStart[n] \in Nat /\ n * UnitSize \in Nat
    BY <1>1, <2>1
  <2>3. A(n) <= all /\ A(n) \in Nat /\ B(n) \in Nat
    <3> HIDE DEF A, B
    <3> QED BY <1>1, <1>3, <1>4
  <2> HIDE DEF A, B, M
  <2> QED BY <1>1, <1>9, <1>10, <1>11, <2>2, <2>3
<1>13. q \in Nat /\ M <= q * UnitSize /\ MaxOutputIds = q * UnitSize
  <2>1. MaxOutputIds = q * UnitSize
    BY DEF MaxOutputIds
  <2> HIDE DEF M
  <2> QED BY <1>1, <1>11, <2>1, CeilMultiple
<1> HIDE DEF M, q
<1>14. MaxOutputIds \div UnitSize = q
  <2>1. 0 \in 0 .. UnitSize - 1 /\ UnitSize * q + 0 = q * UnitSize
    BY <1>1, <1>13
  <2> QED BY <1>1, <1>13, <2>1, DivModUnique
<1>15. UnitSize * UnitStart[n] \in Nat /\ q * UnitSize \in Nat /\ q * UnitSize = UnitSize * q
  BY <1>1, <1>13, ListsInOrder DEF n
<1> DEFINE a == UnitSize * UnitStart[n]
           b == q * UnitSize
<1>16. a <= b /\ b \in Nat /\ MaxOutputIds = b
  <2>1. a \in Nat /\ b \in Nat /\ a <= M /\ M <= b /\ MaxOutputIds = b
    BY <1>12, <1>13, <1>15
  <2> HIDE DEF a, b
  <2> QED BY <1>11, <2>1
<1>17. MaxOutputIds = UnitSize * (MaxOutputIds \div UnitSize)
  BY <1>13, <1>14, <1>15
<1> HIDE DEF b
<1> QED BY <1>13, <1>14, <1>16, <1>17 DEF n

(***************************************************************************)
(* The multi-phase sort.  Once the mesh is complete, and shows nothing     *)
(* else, what the kernels sum up are the tokens that name an expert.       *)
(***************************************************************************)
\* the row of an expert in the mesh shows its tokens
RowShows(e) == \A t \in 0..(MeshStride - 1) : mesh[<<e, t>>] # 0 <=> Names(t, e)

\* Tokens of an expert in a row, from one on.
LEMMA NamedFrom ==
  ASSUME input \in Inputs, NEW e, NEW b \in Nat, NEW j \in Nat
  PROVE  Cardinality({i \in 0..(j - 1) : Names(b + i, e)}) = Named(e, b + j) - Named(e, b)
<1> DEFINE T(n) == {i \in 0..(n - 1) : Names(b + i, e)}
           S == {n \in Nat : Cardinality(T(n)) = Named(e, b + n) - Named(e, b)}
<1>1. \A n \in Nat : Named(e, n) \in Nat
  BY NamedStep
<1>2. 0 \in S
  <2>1. T(0) = {} /\ b + 0 = b
    OBVIOUS
  <2> HIDE DEF T
  <2> QED BY <1>1, <2>1, FS_EmptySet
<1>3. ASSUME NEW n \in Nat, n \in S PROVE n + 1 \in S
  <2>1. T(n + 1) = IF Names(b + n, e) THEN T(n) \union {n} ELSE T(n)
    <3>1. \A i : i \in 0..(n + 1 - 1) <=> i \in 0..(n - 1) \/ i = n
      OBVIOUS
    <3> HIDE DEF Names
    <3> QED BY <3>1
  <2>2. n \notin T(n)
    OBVIOUS
  <2>3. IsFiniteSet(T(n)) /\ Cardinality(T(n)) \in Nat
    <3>1. T(n) \in SUBSET (0..(n - 1)) /\ IsFiniteSet(0..(n - 1))
      BY FS_Interval
    <3> HIDE DEF T
    <3> QED BY <3>1, FS_Subset, FS_CardinalityType
  <2>4. b + n \in Nat /\ b + (n + 1) = (b + n) + 1
    OBVIOUS
  <2>5. Named(e, (b + n) + 1) = Named(e, b + n) + IF Names(b + n, e) THEN 1 ELSE 0
    BY <2>4, NamedStep
  <2> HIDE DEF T
  <2>6. Cardinality(T(n + 1)) = Cardinality(T(n)) + IF Names(b + n, e) THEN 1 ELSE 0
    BY <2>1, <2>2, <2>3, FS_AddElement
  <2>7. Named(e, b + n) \in Nat /\ Named(e, b) \in Nat
    BY <1>1, <2>4
  <2> QED BY <1>3, <2>3, <2>4, <2>5, <2>6, <2>7
<1> HIDE DEF S
<1>4. j \in S
  BY <1>2, <1>3, SetInduction
<1> QED BY <1>4 DEF S

\* The mesh is made of whole packs.
LEMMA MeshSizes ==
  ASSUME input \in Inputs
  PROVE  /\ MeshTile \in Nat \ {0} /\ MeshStride \in Nat /\ input.tokens <= MeshStride
         /\ MeshStride \div MeshTile \in Nat
         /\ MeshStride = (MeshStride \div MeshTile) * MeshTile
         /\ IntegerDivideCeil(input.tokens, MeshTile) \in Nat
         /\ input.tokens <= IntegerDivideCeil(input.tokens, MeshTile) * MeshTile
         /\ IntegerDivideCeil(input.tokens, MeshTile) * MeshTile <= MeshStride
<1> DEFINE n == input.tokens
           c == IntegerDivideCeil(n, MeshChunk)
           d == MeshTile
           q == IntegerDivideCeil(n, d)
<1>1. n \in Nat \ {0} /\ MeshChunk \in Nat \ {0} /\ Pack \in Nat \ {0} /\ MeshChunk % Pack = 0
  BY Problem, MpAssumption
<1>2. d \in Nat \ {0} /\ d \in {1, Pack}
  BY <1>1 DEF MeshTile
<1>3. PICK m \in Nat : MeshChunk = d * m
  <2>1. MeshChunk \div d \in Nat /\ MeshChunk = d * (MeshChunk \div d) + (MeshChunk % d)
    BY <1>1, <1>2, DivMod
  <2>2. MeshChunk % d = 0
    <3>1. CASE d = Pack
      BY <1>1, <3>1
    <3>2. CASE d = 1
      <4>1. MeshChunk % 1 = 0
        BY <1>1
      <4> QED BY <3>2, <4>1
    <3> QED BY <1>2, <3>1, <3>2
  <2> HIDE DEF d
  <2>3. MeshChunk = d * (MeshChunk \div d)
    BY <1>1, <1>2, <2>1, <2>2
  <2> QED BY <2>1, <2>3
<1>4. c \in Nat /\ n <= c * MeshChunk /\ MeshStride = c * MeshChunk
  <2>1. c \in Nat /\ n <= c * MeshChunk
    BY <1>1, CeilMultiple
  <2> QED BY <2>1 DEF MeshStride
<1> HIDE DEF c, d, n
<1>5. c * m \in Nat /\ MeshStride = d * (c * m) + 0 /\ MeshStride = (c * m) * d
      /\ MeshStride \in Nat
  BY <1>2, <1>3, <1>4
<1>6. MeshStride \div d = c * m
  <2> DEFINE k == c * m
  <2>1. k \in Nat /\ 0 \in 0 .. d - 1 /\ MeshStride = d * k + 0
    BY <1>2, <1>5
  <2> HIDE DEF k
  <2>2. MeshStride \div d = k
    BY <1>2, <2>1, DivModUnique
  <2> QED BY <2>2 DEF k
<1>7. q \in Nat /\ n <= q * d /\ q * d <= n + d - 1
  BY <1>1, <1>2, CeilMultiple, CeilBelow
<1> HIDE DEF q
<1>8. q * d <= MeshStride
  <2> DEFINE k == c * m
  <2>1. k \in Nat /\ MeshStride = k * d
    BY <1>5
  <2> HIDE DEF k
  <2>2. q * d < (k + 1) * d
    <3>1. q * d \in Nat /\ k * d \in Nat /\ (k + 1) * d = k * d + d
      BY <1>2, <1>7, <2>1
    <3> QED BY <1>1, <1>2, <1>4, <1>7, <2>1, <3>1
  <2>3. q < k + 1
    BY <1>2, <1>7, <2>1, <2>2, ProductOrder
  <2>4. q <= k
    BY <1>7, <2>1, <2>3
  <2>5. q * d <= k * d
    BY <1>2, <1>7, <2>1, <2>4, ProductOrder
  <2> QED BY <2>1, <2>5
<1> QED BY <1>1, <1>2, <1>4, <1>5, <1>6, <1>7, <1>8 DEF n, d, q

\* Tokens in the first words of a pack.
LEMMA InPack ==
  ASSUME input \in Inputs, NEW e, RowShows(e), NEW p \in Nat, NEW j \in Nat,
         p * MeshTile + j <= MeshStride
  PROVE  /\ Quantify(0..(j - 1), LAMBDA i : mesh[<<e, p * MeshTile + i>>] # 0)
              = Named(e, p * MeshTile + j) - Named(e, p * MeshTile)
         /\ p * MeshTile \in Nat /\ Named(e, p * MeshTile) \in Nat
         /\ Named(e, p * MeshTile + j) \in Nat
<1> DEFINE b == p * MeshTile
<1>1. b \in Nat /\ MeshStride \in Nat
  BY MeshSizes
<1> HIDE DEF b
<1>2. {i \in 0..(j - 1) : mesh[<<e, b + i>>] # 0} = {i \in 0..(j - 1) : Names(b + i, e)}
  <2>1. ASSUME NEW i \in 0..(j - 1) PROVE mesh[<<e, b + i>>] # 0 <=> Names(b + i, e)
    <3>1. b + i \in 0..(MeshStride - 1)
      BY <1>1 DEF b
    <3> QED BY <3>1 DEF RowShows
  <2> QED BY <2>1
<1>3. Cardinality({i \in 0..(j - 1) : mesh[<<e, b + i>>] # 0}) = Named(e, b + j) - Named(e, b)
  BY <1>1, <1>2, NamedFrom
<1>4. Quantify(0..(j - 1), LAMBDA i : mesh[<<e, p * MeshTile + i>>] # 0)
        = Cardinality({i \in 0..(j - 1) : mesh[<<e, b + i>>] # 0})
  BY DEF Quantify, b
<1>5. Named(e, b) \in Nat /\ Named(e, b + j) \in Nat
  BY <1>1, NamedStep
<1> QED BY <1>1, <1>3, <1>4, <1>5 DEF b

\* P1 and P01 count the tokens of an expert.
LEMMA CountIsTokens ==
  ASSUME input \in Inputs, NEW e, RowShows(e)
  PROVE  CountOf(e) = TokensOf(e)
<1> DEFINE d == MeshTile
           packs == MeshStride \div d
           shown(p) == Quantify(0..(d - 1), LAMBDA j : mesh[<<e, p * d + j>>] # 0)
           f == [p \in 0..(packs - 1) |-> shown(p)]
           P == [p \in 0..packs |-> Named(e, p * d)]
<1>1. d \in Nat \ {0} /\ packs \in Nat /\ MeshStride = packs * d /\ input.tokens <= MeshStride
      /\ input.tokens \in Nat
  BY MeshSizes, Problem
<1>2. CountOf(e) = BlockSum(f, packs)
  BY DEF CountOf
<1>3. ASSUME NEW p \in 0..(packs - 1)
      PROVE  f[p] = Named(e, (p + 1) * d) - Named(e, p * d) /\ f[p] \in Int
  <2>1. p \in Nat /\ p * d + d = (p + 1) * d /\ (p + 1) * d <= MeshStride
    <3>1. (p + 1) * d <= packs * d
      BY <1>1, ProductOrder
    <3> QED BY <1>1, <3>1
  <2>2. shown(p) = Named(e, p * d + d) - Named(e, p * d) /\ Named(e, p * d) \in Nat
        /\ Named(e, p * d + d) \in Nat
    <3>1. p * d + d <= MeshStride /\ d \in Nat
      BY <1>1, <2>1
    <3> QED BY <2>1, <3>1, InPack
  <2>3. f[p] = shown(p)
    <3> HIDE DEF shown, packs
    <3> QED OBVIOUS
  <2> HIDE DEF f, shown
  <2> QED BY <2>1, <2>2, <2>3
<1> HIDE DEF f, packs, d
<1>4. \A p \in Nat : p * d \in Nat /\ Named(e, p * d) \in Nat
  BY <1>1, NamedStep
<1>5. Runs(P, f, packs)
  <2>1. P \in [0..packs -> Int]
    BY <1>1, <1>4
  <2>2. P[0] = 0
    <3>1. 0 * d = 0 /\ 0 \in Nat
      BY <1>1
    <3>2. Named(e, 0) = 0
      BY <3>1, NamedStep
    <3> QED BY <1>1, <3>1, <3>2
  <2>3. ASSUME NEW p \in 0..(packs - 1) PROVE P[p + 1] = P[p] + f[p]
    <3>1. P[p + 1] = Named(e, (p + 1) * d) /\ P[p] = Named(e, p * d)
      BY <1>1
    <3>2. Named(e, (p + 1) * d) \in Nat /\ Named(e, p * d) \in Nat
      <4>1. p \in Nat /\ p + 1 \in Nat
        BY <1>1
      <4> HIDE DEF P
      <4> QED BY <1>4, <4>1
    <3> HIDE DEF P
    <3> QED BY <1>3, <3>1, <3>2
  <2> HIDE DEF P
  <2> QED BY <2>1, <2>2, <2>3 DEF Runs
<1>6. P[packs] = TokensOf(e)
  <2>1. P[packs] = Named(e, packs * d) /\ packs * d \in Nat /\ packs * d >= input.tokens
    BY <1>1, <1>4
  <2> HIDE DEF P
  <2> QED BY <1>1, <2>1, NamedUpTo
<1> HIDE DEF P
<1>7. BlockSum(f, packs) = P[packs]
  BY <1>1, <1>3, <1>5, BlockTotal
<1> QED BY <1>2, <1>6, <1>7

\* a buffer has a word
Holds(buffer, x, v) == x \in DOMAIN buffer /\ buffer[x] = v

\* The list of an expert is written where it starts, up to its end: its tokens
\* in their order, and then the padding.
LEMMA ListInPlace ==
  ASSUME input \in Inputs, NEW e, RowShows(e), NEW s \in Int, NEW end \in Int,
         s + TokensOf(e) <= end
  PROVE  /\ DOMAIN ListWrites(e, s, end) \subseteq s..(end - 1)
         /\ \A t \in Tokens : Names(t, e) =>
              Holds(ListWrites(e, s, end), s + Named(e, t), Entry(t, mesh[<<e, t>>] - 1))
         /\ \A x \in (s + TokensOf(e))..(end - 1) : Holds(ListWrites(e, s, end), x, PadEntry)
<1> DEFINE d == MeshTile
           packs == IntegerDivideCeil(input.tokens, d)
           inPack(p, j) == Quantify(0..(j - 1), LAMBDA i : mesh[<<e, p * d + i>>] # 0)
           f == [p \in 0..(packs - 1) |-> inPack(p, d)]
           P == [p \in 0..packs |-> Named(e, p * d)]
           upTo == BlockCumsum(f, packs, NumWaves)
           listed == {t \in Tokens : mesh[<<e, t>>] # 0}
           value(t) == s + (upTo[t \div d] - inPack(t \div d, d)) + inPack(t \div d, t % d)
           position == Held([t \in listed |-> value(t)])
           padding == (s + upTo[packs - 1])..(end - 1)
<1>1. /\ d \in Nat \ {0} /\ packs \in Nat /\ input.tokens <= packs * d /\ packs * d <= MeshStride
      /\ input.tokens \in Nat \ {0} /\ NumWaves \in Nat \ {0} /\ MeshStride \in Nat
  BY MeshSizes, Problem, WaveScanAssumption
<1>2. ListWrites(e, s, end) =
        [x \in Range(position) \union padding |->
           IF x \in padding THEN PadEntry
           ELSE LET t == CHOOSE u \in listed : position[u] = x
                IN Entry(t, mesh[<<e, t>>] - 1)]
  BY DEF ListWrites
<1> HIDE DEF packs, d
<1>3. ASSUME NEW p \in 0..(packs - 1), NEW j \in 0..d
      PROVE  /\ inPack(p, j) = Named(e, p * d + j) - Named(e, p * d)
             /\ Named(e, p * d + j) \in Nat /\ Named(e, p * d) \in Nat
             /\ p * d + d = (p + 1) * d
  <2>1. p \in Nat /\ j \in Nat /\ p * d + d = (p + 1) * d /\ p * d \in Nat
    BY <1>1
  <2>2. p * d + j <= MeshStride
    <3>1. (p + 1) * d <= packs * d
      BY <1>1, <2>1, ProductOrder
    <3>2. packs * d \in Nat /\ (p + 1) * d \in Nat
      BY <1>1, <2>1
    <3> DEFINE a == p * d
               b == packs * d
    <3>3. a \in Nat /\ a + d <= b /\ b <= MeshStride /\ b \in Nat
      BY <1>1, <2>1, <3>1, <3>2
    <3> HIDE DEF a, b
    <3>4. a + j <= MeshStride
      BY <1>1, <3>3
    <3> QED BY <3>4 DEF a
  <2> QED BY <2>1, <2>2, InPack DEF d
<1> HIDE DEF inPack
<1>4. \A p \in Nat : p * d \in Nat /\ Named(e, p * d) \in Nat
  BY <1>1, NamedStep
<1>5. ASSUME NEW p \in 0..(packs - 1)
      PROVE  f[p] = Named(e, (p + 1) * d) - Named(e, p * d) /\ f[p] \in Int
  <2>1. d \in 0..d
    BY <1>1
  <2>2. f[p] = inPack(p, d)
    OBVIOUS
  <2> HIDE DEF f
  <2> QED BY <1>3, <2>1, <2>2
<1> HIDE DEF f
<1>6. Runs(P, f, packs)
  <2>1. P \in [0..packs -> Int]
    BY <1>1, <1>4
  <2>2. P[0] = 0
    <3>1. 0 * d = 0 /\ 0 \in Nat
      BY <1>1
    <3>2. Named(e, 0) = 0
      BY <3>1, NamedStep
    <3> QED BY <1>1, <3>1, <3>2
  <2>3. ASSUME NEW p \in 0..(packs - 1) PROVE P[p + 1] = P[p] + f[p]
    <3>1. P[p + 1] = Named(e, (p + 1) * d) /\ P[p] = Named(e, p * d)
      BY <1>1
    <3>2. Named(e, (p + 1) * d) \in Nat /\ Named(e, p * d) \in Nat
      <4>1. p \in Nat /\ p + 1 \in Nat
        BY <1>1
      <4> HIDE DEF P
      <4> QED BY <1>4, <4>1
    <3> HIDE DEF P
    <3> QED BY <1>5, <3>1, <3>2
  <2> HIDE DEF P
  <2> QED BY <2>1, <2>2, <2>3 DEF Runs
<1>7. \A p \in 0..(packs - 1) : upTo[p] = Named(e, (p + 1) * d)
  <2>1. \A p \in 0..(packs - 1) : P[p + 1] = Named(e, (p + 1) * d)
    BY <1>1
  <2> HIDE DEF P
  <2>2. upTo = [p \in 0..(packs - 1) |-> P[p + 1]]
    <3>1. packs \in Nat /\ NumWaves \in Nat \ {0} /\ \A p \in 0..(packs - 1) : f[p] \in Int
      BY <1>1, <1>5
    <3>2. BlockCumsum(f, packs, NumWaves) = [p \in 0..(packs - 1) |-> P[p + 1]]
      BY <1>6, <3>1, BlockPrefix
    <3> QED BY <3>2
  <2> HIDE DEF upTo
  <2> QED BY <2>1, <2>2
<1> HIDE DEF upTo, P
<1>8. upTo[packs - 1] = TokensOf(e) /\ TokensOf(e) \in Nat
  <2>1. packs > 0
    <3>1. packs # 0
      <4> SUFFICES ASSUME packs = 0 PROVE FALSE
        OBVIOUS
      <4>1. 0 * d = 0
        BY <1>1
      <4> QED BY <1>1, <4>1
    <3> QED BY <1>1, <3>1
  <2>2. packs - 1 \in 0..(packs - 1) /\ (packs - 1) + 1 = packs
    BY <1>1, <2>1
  <2>3. upTo[packs - 1] = Named(e, packs * d) /\ packs * d \in Nat
    BY <1>1, <1>4, <1>7, <2>2
  <2> QED BY <1>1, <2>3, NamedUpTo, NamedStep DEF TokensOf
<1>9. ASSUME NEW t \in listed
      PROVE  /\ value(t) \in s..(end - 1) /\ value(t) < s + TokensOf(e)
             /\ value(t) = s + Named(e, t)
  <2> DEFINE p == t \div d
             j == t % d
  <2>1. t \in Nat /\ t < input.tokens /\ t \in 0..(MeshStride - 1)
    BY <1>1, MeshSizes DEF Tokens
  <2>2. p \in Nat /\ j \in 0..(d - 1) /\ t = d * p + j
    BY <1>1, <2>1, DivMod
  <2>3. p < packs
    <3>1. t < d * packs
      BY <1>1, <2>1
    <3> QED BY <1>1, <2>1, <3>1, DivRange
  <2> HIDE DEF p, j
  <2>4. p \in 0..(packs - 1) /\ j \in 0..d /\ d \in 0..d /\ p * d + j = t
    BY <1>1, <2>2, <2>3
  <2>5. /\ inPack(p, j) = Named(e, p * d + j) - Named(e, p * d)
        /\ inPack(p, d) = Named(e, p * d + d) - Named(e, p * d)
        /\ Named(e, p * d + d) \in Nat /\ Named(e, p * d) \in Nat /\ Named(e, p * d + j) \in Nat
        /\ upTo[p] = Named(e, p * d + d)
    BY <1>3, <1>7, <2>4
  <2>6. s + (upTo[p] - inPack(p, d)) + inPack(p, j) = s + Named(e, t) /\ Named(e, t) \in Nat
    BY <2>4, <2>5
  <2>7. Named(e, t) + 1 <= TokensOf(e)
    <3>1. mesh[<<e, t>>] # 0
      OBVIOUS
    <3>2. Names(t, e)
      BY <2>1, <3>1 DEF RowShows
    <3>3. Named(e, t + 1) = Named(e, t) + 1
      BY <2>1, <3>2, NamedStep
    <3>4. Named(e, t + 1) <= TokensOf(e)
      <4>1. t + 1 \in Nat /\ t + 1 <= t + 1
        BY <2>1
      <4> QED BY <4>1, NamedUpTo
    <3> QED BY <3>3, <3>4
  <2>8. value(t) = s + Named(e, t)
    BY <2>6 DEF p, j
  <2> HIDE DEF value
  <2> QED BY <1>8, <2>6, <2>7, <2>8
<1>10. position = [t \in listed |-> value(t)] /\ DOMAIN position = listed
  BY HeldIs
<1>11. Range(position) \subseteq s..(end - 1)
  <2> HIDE DEF position, value, listed
  <2>1. Range(position) = {position[t] : t \in DOMAIN position}
    BY DEF Range
  <2> QED BY <1>9, <1>10, <2>1
<1>12. padding = (s + TokensOf(e))..(end - 1)
  BY <1>8
<1> HIDE DEF padding
<1>13. padding \subseteq s..(end - 1)
  BY <1>8, <1>12
<1>14. ASSUME NEW t \in listed, NEW u \in listed, value(t) = value(u) PROVE t = u
  <2>1. /\ value(t) = s + Named(e, t) /\ value(u) = s + Named(e, u)
        /\ t \in Nat /\ u \in Nat /\ Names(t, e) /\ Names(u, e)
    <3>1. t \in 0..(MeshStride - 1) /\ u \in 0..(MeshStride - 1)
      BY <1>1, MeshSizes DEF Tokens
    <3> HIDE DEF value
    <3> QED BY <1>9, <3>1 DEF RowShows
  <2> HIDE DEF value
  <2>2. Named(e, t) \in Nat /\ Named(e, u) \in Nat
    BY <2>1, NamedStep
  <2> DEFINE a == Named(e, t)
             b == Named(e, u)
  <2>3. s + a = s + b /\ a \in Nat /\ b \in Nat
    BY <1>14, <2>1, <2>2
  <2>4. a = b
    <3> HIDE DEF a, b
    <3> QED BY <2>3
  <2>5. t < u => Named(e, t) + 1 <= Named(e, u)
    BY <2>1, NamedStep, NamedUpTo
  <2>6. u < t => Named(e, u) + 1 <= Named(e, t)
    BY <2>1, NamedStep, NamedUpTo
  <2> QED BY <2>1, <2>2, <2>4, <2>5, <2>6
<1>15. ASSUME NEW t \in Tokens, Names(t, e)
       PROVE  Holds(ListWrites(e, s, end), s + Named(e, t), Entry(t, mesh[<<e, t>>] - 1))
  <2> DEFINE x == s + Named(e, t)
             u == CHOOSE v \in listed : position[v] = x
  <2>1. t \in listed
    <3>1. t \in 0..(MeshStride - 1)
      BY <1>1, MeshSizes DEF Tokens
    <3> QED BY <1>15, <3>1 DEF RowShows
  <2>2. value(t) = x /\ x < s + TokensOf(e) /\ x \in Int /\ position[t] = x
    <3> HIDE DEF value, position
    <3> QED BY <1>9, <1>10, <2>1
  <2>3. x \in Range(position)
    <3> HIDE DEF position, listed, x
    <3> QED BY <1>10, <2>1, <2>2 DEF Range
  <2>4. x \notin padding
    <3> HIDE DEF x
    <3> QED BY <1>8, <1>12, <2>2
  <2>5. u \in listed /\ position[u] = x
    <3> HIDE DEF position, listed, x
    <3> QED BY <2>1, <2>2
  <2>6. u = t
    <3>1. value(u) = x
      <4> HIDE DEF value, position, u, listed
      <4> QED BY <1>10, <2>5
    <3> HIDE DEF value, u, listed, x, position
    <3> QED BY <1>14, <2>1, <2>2, <2>5, <3>1
  <2>7. ListWrites(e, s, end)[x] = Entry(u, mesh[<<e, u>>] - 1)
        /\ x \in DOMAIN ListWrites(e, s, end)
    <3> HIDE DEF position, listed, x
    <3> QED BY <1>2, <2>3, <2>4
  <2> HIDE DEF u, x
  <2> QED BY <2>6, <2>7 DEF Holds, x
<1>16. ASSUME NEW x \in (s + TokensOf(e))..(end - 1)
       PROVE  Holds(ListWrites(e, s, end), x, PadEntry)
  <2>1. x \in padding
    BY <1>12
  <2> HIDE DEF position, listed
  <2> QED BY <1>2, <2>1 DEF Holds
<1>17. DOMAIN ListWrites(e, s, end) \subseteq s..(end - 1)
  <2> HIDE DEF position, listed
  <2> QED BY <1>2, <1>11, <1>13
<1> QED BY <1>15, <1>16, <1>17

(***************************************************************************)
(* The starts.                                                             *)
(***************************************************************************)
\* the experts of this device are counted
Tallied == \A e \in Experts : Enabled(e) => expert_cumsum[e] = TokensOf(e)

\* the units of the threads that have no expert: P2 and P23 add them to the total
IdleUnits == IF input.masking \/ LeastUnits = 0 THEN 0 ELSE NumPositions - input.experts

\* where P2 and P23 place the list of an expert, and the end of the last one
Placed(x) == UnitSize * (UnitStart[x] + IF x = input.experts THEN IdleUnits ELSE 0)

\* every thread has an expert, or experts without tokens are skipped or masked
NoIdleUnits ==
  SkipExpertsWithZeroTokens \/ \A in \in Inputs : in.masking \/ in.experts % BlockThreads = 0

\* The threads go through all experts, in whole rounds.
LEMMA ThreadsCover ==
  ASSUME input \in Inputs
  PROVE  NumPositions \in Nat /\ input.experts <= NumPositions /\ IdleUnits \in Nat
<1>1. input.experts \in Nat /\ BlockThreads \in Nat \ {0}
  BY Problem
<1> DEFINE n == input.experts
           q == IntegerDivideCeil(n, BlockThreads)
<1>2. q \in Nat /\ n <= q * BlockThreads
  BY <1>1, CeilMultiple
<1>3. NumPositions = q * BlockThreads
  BY DEF NumPositions
<1> HIDE DEF n, q
<1>4. NumPositions \in Nat /\ n <= NumPositions /\ n \in Nat
  BY <1>1, <1>2, <1>3 DEF n
<1>5. NumPositions - n \in Nat
  BY <1>4
<1> QED BY <1>4, <1>5 DEF IdleUnits, n

\* No thread is without an expert when whole rounds have one.
LEMMA NoneIdle ==
  ASSUME input \in Inputs, NoIdleUnits
  PROVE  IdleUnits = 0
<1>1. CASE SkipExpertsWithZeroTokens \/ input.masking
  BY <1>1 DEF IdleUnits, LeastUnits
<1>2. CASE input.experts % BlockThreads = 0
  <2> DEFINE n == input.experts
             t == BlockThreads
             q == IntegerDivideCeil(n, t)
             k == n \div t
  <2>1. n \in Nat /\ t \in Nat \ {0} /\ n % t = 0
    BY <1>2, Problem
  <2>2. k \in Nat /\ n = t * k + (n % t)
    <3> HIDE DEF n, t
    <3> QED BY <2>1, DivMod
  <2>3. q \in Nat /\ n <= q * t /\ q * t <= n + t - 1
    <3> HIDE DEF n, t
    <3> QED BY <2>1, CeilMultiple, CeilBelow
  <2>4. NumPositions = q * t
    BY DEF NumPositions
  <2> HIDE DEF n, t, q, k
  <2>5. n = t * k
    BY <2>1, <2>2
  <2>6. q < k + 1
    <3> SUFFICES ASSUME k + 1 <= q PROVE FALSE
      BY <2>2, <2>3
    <3>1. (k + 1) * t <= q * t /\ (k + 1) * t = t * k + t
      BY <2>1, <2>2, <2>3
    <3>2. t * k \in Nat /\ q * t \in Nat
      BY <2>1, <2>2, <2>3
    <3> QED BY <2>1, <2>3, <2>5, <3>1, <3>2
  <2>7. k < q + 1
    <3> SUFFICES ASSUME q + 1 <= k PROVE FALSE
      BY <2>2, <2>3
    <3>1. (q + 1) * t <= k * t /\ (q + 1) * t = q * t + t /\ k * t = t * k
      BY <2>1, <2>2, <2>3
    <3>2. t * k \in Nat /\ q * t \in Nat
      BY <2>1, <2>2, <2>3
    <3> QED BY <2>1, <2>3, <2>5, <3>1, <3>2
  <2>8. q = k
    BY <2>2, <2>3, <2>6, <2>7
  <2>9. NumPositions - n = 0
    BY <2>1, <2>2, <2>4, <2>5, <2>8
  <2> QED BY <2>9 DEF IdleUnits, n
<1> QED BY <1>1, <1>2 DEF NoIdleUnits

\* P2 and P23 find where the lists start, and add the idle threads to the total.
LEMMA StartsFound ==
  ASSUME input \in Inputs, Tallied
  PROVE  /\ \A e \in Experts : UnitsUpTo[e] = UnitStart[e + 1]
         /\ \A e \in Experts : PaddedUnitsOf(e) = ListUnits(e)
         /\ Starts = [x \in 0..input.experts |-> Placed(x)]
<1> DEFINE n == input.experts
           m == NumPositions
           c == IF input.masking THEN 0 ELSE LeastUnits
           f == [p \in 0..(m - 1) |-> PaddedUnitsAt(p)]
           P == [x \in 0..m |-> IF x <= n THEN UnitStart[x] ELSE UnitStart[n] + c * (x - n)]
<1>1. n \in Nat \ {0} /\ Experts = 0..(n - 1) /\ NumWaves \in Nat \ {0} /\ m \in Nat /\ n <= m
  BY Problem, ThreadsCover, WaveScanAssumption DEF Experts
<1>2. ASSUME NEW e \in Experts PROVE PaddedUnitsOf(e) = ListUnits(e)
  BY DEF Tallied, PaddedUnitsOf, UnitsOf, ListUnits
<1>3. c \in {0, 1} /\ IdleUnits = c * (m - n)
  BY <1>1 DEF LeastUnits, IdleUnits
<1>4. UnitsUpTo = BlockCumsum(f, m, NumWaves)
  BY DEF UnitsUpTo
<1>5. Starts = [x \in 0..n |->
        UnitSize * IF x = n THEN UnitsUpTo[m - 1] ELSE UnitsUpTo[x] - PaddedUnitsOf(x)]
  BY DEF Starts
<1>6. ASSUME NEW x \in 0..n PROVE UnitStart[x] \in Nat
  BY <1>6, ListsInOrder
<1>7. ASSUME NEW e \in Experts PROVE UnitStart[e + 1] = UnitStart[e] + ListUnits(e)
                                     /\ ListUnits(e) \in Nat
  BY <1>7, ListsInOrder, ListUnitsFit
<1>8. \A p \in 0..(m - 1) : f[p] = IF p < n THEN ListUnits(p) ELSE c
  <2> SUFFICES ASSUME NEW p \in 0..(m - 1) PROVE f[p] = IF p < n THEN ListUnits(p) ELSE c
    OBVIOUS
  <2>1. p \in Experts <=> p < n
    BY <1>1
  <2> QED BY <1>2, <2>1 DEF PaddedUnitsAt
<1>9. UnitStart[0] = 0
  BY ListsInOrder DEF Runs
<1>10. Placed(n) = UnitSize * (UnitStart[n] + IdleUnits)
       /\ \A x \in 0..n : x # n => Placed(x) = UnitSize * UnitStart[x]
  <2>1. \A x \in 0..n : UnitStart[x] + 0 = UnitStart[x]
    BY <1>6
  <2> QED BY <2>1 DEF Placed
<1> HIDE DEF n, m, c, f
<1>11. \A p \in 0..(m - 1) : f[p] \in Int
  BY <1>1, <1>3, <1>7, <1>8
<1>12. Runs(P, f, m)
  <2>1. n \in 0..n /\ 0 \in 0..m /\ 0 <= n
    BY <1>1
  <2>2. P[0] = 0
    BY <1>9, <2>1
  <2>3. ASSUME NEW x \in 0..m
        PROVE  (IF x <= n THEN UnitStart[x] ELSE UnitStart[n] + c * (x - n)) \in Int
    BY <1>1, <1>3, <1>6, <2>1
  <2>4. ASSUME NEW p \in 0..(m - 1) PROVE P[p + 1] = P[p] + f[p]
    <3>1. p \in 0..m /\ p + 1 \in 0..m
      BY <1>1
    <3>2. CASE p < n
      <4>1. p \in Experts /\ p <= n /\ p + 1 <= n
        BY <1>1, <3>2
      <4>2. P[p] = UnitStart[p] /\ P[p + 1] = UnitStart[p + 1] /\ f[p] = ListUnits(p)
        BY <1>8, <3>1, <3>2, <4>1
      <4> QED BY <1>7, <4>1, <4>2
    <3>3. CASE p = n
      <4>1. P[p] = UnitStart[n] /\ P[p + 1] = UnitStart[n] + c * (p + 1 - n) /\ f[p] = c
        BY <1>1, <1>8, <3>1, <3>3
      <4>2. c * (p + 1 - n) = c
        BY <1>1, <1>3, <3>3
      <4> QED BY <4>1, <4>2
    <3>4. CASE p > n
      <4> DEFINE q == p + 1
      <4>1. /\ p \in Nat /\ q \in Nat /\ q = p + 1 /\ p \in 0..m /\ q \in 0..m
            /\ ~(p <= n) /\ ~(q <= n) /\ ~(p < n)
        BY <1>1, <3>1, <3>4
      <4>2. \A x \in 0..m : ~(x <= n) => P[x] = UnitStart[n] + c * (x - n)
        OBVIOUS
      <4> HIDE DEF P, q
      <4>3. P[p] = UnitStart[n] + c * (p - n) /\ P[q] = UnitStart[n] + c * (q - n)
        BY <4>1, <4>2
      <4>4. f[p] = c /\ UnitStart[n] \in Nat
        BY <1>6, <1>8, <2>1, <4>1
      <4>5. c * (q - n) = c * (p - n) + c /\ c * (p - n) \in Int
        BY <1>1, <1>3, <4>1
      <4>6. P[q] = P[p] + f[p]
        BY <1>3, <4>3, <4>4, <4>5
      <4> QED BY <4>6 DEF q
    <3> QED BY <1>1, <3>2, <3>3, <3>4
  <2> QED BY <2>2, <2>3, <2>4 DEF Runs
<1>13. UnitsUpTo = [i \in 0..(m - 1) |-> P[i + 1]]
  <2> HIDE DEF P
  <2> QED BY <1>1, <1>4, <1>11, <1>12, BlockPrefix
<1>14. ASSUME NEW e \in Experts PROVE UnitsUpTo[e] = UnitStart[e + 1]
  <2>1. e \in 0..(m - 1) /\ e + 1 \in 0..m /\ e + 1 <= n
    BY <1>1
  <2> QED BY <1>13, <2>1
<1>15. UnitsUpTo[m - 1] = UnitStart[n] + IdleUnits
  <2>1. m - 1 \in 0..(m - 1) /\ (m - 1) + 1 = m /\ m \in 0..m /\ n \in 0..n
    BY <1>1
  <2>2. UnitsUpTo[m - 1] = P[m]
    <3> HIDE DEF P
    <3> QED BY <1>13, <2>1
  <2>3. UnitStart[n] \in Nat
    BY <1>6, <2>1
  <2>4. CASE m <= n
    <3>1. m = n /\ IdleUnits = 0
      BY <1>1, <1>3, <2>4
    <3> QED BY <2>1, <2>2, <2>3, <2>4, <3>1
  <2>5. CASE ~(m <= n)
    BY <1>3, <2>1, <2>2, <2>5
  <2> QED BY <2>4, <2>5
<1>16. ASSUME NEW x \in 0..n
       PROVE  UnitSize * (IF x = n THEN UnitsUpTo[m - 1] ELSE UnitsUpTo[x] - PaddedUnitsOf(x))
              = Placed(x)
  <2>1. CASE x = n
    BY <1>10, <1>15, <2>1
  <2>2. CASE x # n
    <3>1. x \in Experts
      BY <1>1, <2>2
    <3>2. UnitsUpTo[x] - PaddedUnitsOf(x) = UnitStart[x]
      BY <1>2, <1>6, <1>7, <1>14, <3>1
    <3> QED BY <1>10, <2>2, <3>2
  <2> QED BY <2>1, <2>2
<1>17. Starts = [x \in 0..n |-> Placed(x)]
  BY <1>5, <1>16
<1> QED BY <1>2, <1>14, <1>17 DEF n

\* The list of an expert starts where the lists before it end; the last one ends
\* there too when no thread is idle.
LEMMA ListPlaced ==
  ASSUME input \in Inputs, NEW x \in 0..input.experts, x # input.experts \/ IdleUnits = 0
  PROVE  Placed(x) = UnitSize * UnitStart[x]
<1>1. UnitStart[x] \in Nat
  BY ListsInOrder
<1>2. UnitStart[x] + 0 = UnitStart[x]
  BY <1>1
<1> QED BY <1>2 DEF Placed

\* The ids of experts are written up to the last unit.
LEMMA IdsInPlace ==
  ASSUME input \in Inputs, Tallied
  PROVE  DOMAIN ExpertIdWrites \subseteq 0..(UnitStart[input.experts] - 1)
<1> DEFINE first(e) == UnitsUpTo[e] - PaddedUnitsOf(e)
           units(e) == IF Enabled(e) THEN first(e)..(first(e) + UnitsOf(e) - 1) ELSE {}
<1>1. DOMAIN ExpertIdWrites = UNION {units(e) : e \in Experts}
  BY DEF ExpertIdWrites
<1>2. ASSUME NEW e \in Experts PROVE units(e) \subseteq 0..(UnitStart[input.experts] - 1)
  <2> DEFINE n == input.experts
  <2>1. n \in Nat \ {0} /\ Experts = 0..(n - 1)
    BY Problem DEF Experts
  <2>2. /\ UnitStart[e + 1] = UnitStart[e] + ListUnits(e) /\ UnitStart[e] \in Nat
        /\ ListUnits(e) \in Nat /\ UnitStart[e + 1] <= UnitStart[n] /\ UnitStart[n] \in Nat
    <3>1. e + 1 \in 0..n /\ n \in 0..n /\ e + 1 <= n /\ e \in 0..n
      BY <2>1
    <3> QED BY <3>1, ListsInOrder, ListUnitsFit
  <2>3. first(e) = UnitStart[e]
    <3>1. UnitsUpTo[e] = UnitStart[e + 1] /\ PaddedUnitsOf(e) = ListUnits(e)
      BY StartsFound
    <3> QED BY <2>2, <3>1
  <2>4. Enabled(e) => UnitsOf(e) <= ListUnits(e) /\ UnitsOf(e) \in Nat
    <3>1. Enabled(e) => UnitsOf(e) = IntegerDivideCeil(TokensOf(e), UnitSize)
      BY DEF Tallied, UnitsOf
    <3>2. IntegerDivideCeil(TokensOf(e), UnitSize) \in Nat
      BY ListUnitsFit, CeilMultiple, SortAssumption
    <3> QED BY <3>1, <3>2, ListUnitsFit
  <2> HIDE DEF first, n
  <2>5. CASE Enabled(e)
    BY <2>2, <2>3, <2>4, <2>5 DEF n
  <2>6. CASE ~Enabled(e)
    BY <2>6
  <2> QED BY <2>5, <2>6
<1> HIDE DEF units
<1> QED BY <1>1, <1>2

(***************************************************************************)
(* The tables that the kernels hand to each other.                         *)
(***************************************************************************)
\* the mesh shows nothing that no token names
MeshSound ==
  \A et \in DOMAIN mesh : mesh[et] \in 0..Topk /\ (mesh[et] # 0 => Names(et[2], et[1]))

\* an expert's tokens have been counted in this launch, by P1 or P01
CountedIn(e) ==
  \/ stage > 2
  \/ stage = 2 /\ (Kernel = "P1" => at[e] = "done")
  \/ stage = 1 /\ Kernel = "P01" /\ at[e % GridSize] = "done"

\* P2 has replaced the counts by the starts
StartsStored == Len(path) = 4 /\ (stage > 3 \/ (stage = 3 /\ at[0] = "done"))

MostTokens == Max({MaxOutputIds, input.tokens})

SumsInv ==
  /\ DOMAIN expert_cumsum = 0..input.experts
  /\ \A e \in Experts : expert_cumsum[e] \in 0..MostTokens
  /\ ~StartsStored =>
       \A e \in Experts : Enabled(e) /\ CountedIn(e) => expert_cumsum[e] = TokensOf(e)
  /\ StartsStored =>
       \A x \in 0..input.experts : expert_cumsum[x] = Placed(x)

BuffersFit == IdleUnits = 0 => InBuffers

TablesInv == path # <<>> => MeshSound /\ SumsInv /\ BuffersFit

\* What depends on the problem only.
LEMMA SameProblem ==
  ASSUME UNCHANGED input
  PROVE  /\ Tokens' = Tokens /\ Experts' = Experts /\ UnitStart' = UnitStart
         /\ \A e : Enabled(e)' = Enabled(e) /\ TokensOf(e)' = TokensOf(e)
         /\ \A t, e : Names(t, e)' = Names(t, e)
         /\ \A e, m : Named(e, m)' = Named(e, m)
         /\ \A e : ListUnits(e)' = ListUnits(e)
         /\ MaxOutputIds' = MaxOutputIds /\ MostTokens' = MostTokens
<1>1. Tokens' = Tokens /\ Experts' = Experts
  BY DEF Tokens, Experts
<1>2. \A e : Enabled(e)' = Enabled(e)
  BY DEF Enabled
<1>3. \A e, m : Named(e, m)' = Named(e, m)
  BY <1>1 DEF Named, PairsNaming
<1>4. \A e : TokensOf(e)' = TokensOf(e)
  BY <1>3 DEF TokensOf
<1>5. \A t, e : Names(t, e)' = Names(t, e)
  BY <1>1 DEF Names
<1>6. \A e : ListUnits(e)' = ListUnits(e)
  BY <1>2, <1>4 DEF ListUnits
<1>7. UnitStart' = UnitStart
  BY <1>1, <1>6 DEF UnitStart
<1>8. MaxOutputIds' = MaxOutputIds
  BY DEF MaxOutputIds
<1>9. MostTokens' = MostTokens
  BY <1>8 DEF MostTokens
<1> QED BY <1>1, <1>2, <1>3, <1>4, <1>5, <1>6, <1>7, <1>8, <1>9

\* And with it the places of the lists.
LEMMA SamePlaces ==
  ASSUME UNCHANGED input
  PROVE  IdleUnits' = IdleUnits /\ \A x : Placed(x)' = Placed(x)
<1>1. IdleUnits' = IdleUnits
  BY DEF IdleUnits, NumPositions
<1> QED BY <1>1, SameProblem DEF Placed

\* The bound of the sums is at least the number of tokens, and of the ids.
LEMMA MostTokensBound ==
  ASSUME input \in Inputs
  PROVE  MostTokens \in Nat /\ input.tokens <= MostTokens /\ MaxOutputIds <= MostTokens
<1>1. input.tokens \in Nat /\ MaxOutputIds \in Nat
  BY Problem, ListsFit
<1> DEFINE a == input.tokens
           b == MaxOutputIds
<1>2. \E x \in {b, a} : \A y \in {b, a} : x >= y
  <2> HIDE DEF a, b
  <2> QED BY <1>1 DEF a, b
<1> HIDE DEF a, b
<1>3. Max({b, a}) \in {b, a} /\ Max({b, a}) >= a /\ Max({b, a}) >= b
  BY <1>2 DEF Max
<1> QED BY <1>1, <1>3 DEF MostTokens, a, b

\* A complete mesh shows the tokens of an expert.
LEMMA MeshShows ==
  ASSUME LaunchOK, MeshSound, MeshComplete, NEW e \in Experts
  PROVE  RowShows(e)
<1>1. ASSUME NEW t \in 0..(MeshStride - 1), mesh[<<e, t>>] # 0 PROVE Names(t, e)
  <2>1. <<e, t>> \in DOMAIN mesh
    BY DEF LaunchOK
  <2>2. Names(<<e, t>>[2], <<e, t>>[1])
    BY <1>1, <2>1 DEF MeshSound
  <2> QED BY <2>2
<1>2. ASSUME NEW t \in 0..(MeshStride - 1), Names(t, e) PROVE mesh[<<e, t>>] # 0
  <2>1. PICK k \in TopkIds : input.ids[t][k] = e
    BY <1>2 DEF Names
  <2>2. mesh[<<e, t>>] = k + 1
    BY <1>2, <2>1 DEF MeshComplete, Names, TopkIds
  <2> QED BY <2>1, <2>2 DEF TopkIds
<1> QED BY <1>1, <1>2 DEF RowShows

\* A block of P0 or P01 enters nothing else.
LEMMA EntersSound ==
  ASSUME LaunchOK, MeshSound, NEW b, mesh' = MeshWith(b), UNCHANGED input
  PROVE  MeshSound'
<1> DEFINE in(e, t) == {k \in 0..(Topk - 1) : <<t, k>> \in PairsOf(b) /\ input.ids[t][k] = e}
           one(T) == CHOOSE k \in T : TRUE
<1>1. MeshWith(b) = [et \in DOMAIN mesh |->
        IF in(et[1], et[2]) = {} THEN mesh[et] ELSE one(in(et[1], et[2])) + 1]
  BY DEF MeshWith
<1>2. ASSUME NEW et \in DOMAIN mesh
      PROVE  mesh'[et] \in 0..Topk /\ (mesh'[et] # 0 => Names(et[2], et[1]))
  <2> DEFINE e == et[1]
             t == et[2]
             T == in(e, t)
  <2>1. CASE T = {}
    BY <1>1, <2>1 DEF MeshSound
  <2>2. CASE T # {}
    <3>1. one(T) \in T
      BY <2>2
    <3>2. mesh'[et] = one(T) + 1
      BY <1>1, <2>2
    <3> DEFINE k == one(T)
    <3>3. k \in 0..(Topk - 1) /\ <<t, k>> \in PairsOf(b) /\ input.ids[t][k] = e
      BY <3>1
    <3> HIDE DEF k
    <3>4. t \in Tokens
      <4>1. PICK x \in 0..(TotalElem * TopkTile - 1) : t = x \div Topk
        BY <3>3 DEF PairsOf
      <4>2. TotalElem * TopkTile <= input.tokens * Topk /\ TotalElem * TopkTile \in Int
            /\ Topk \in Nat \ {0} /\ input.tokens \in Nat
        <5> DEFINE n == input.tokens * Topk
        <5>1. Topk \in Nat \ {0} /\ input.tokens \in Nat /\ n \in Nat
          BY Problem DEF LaunchOK
        <5>2. TopkTile \in {1, 4}
          BY DEF TopkTile
        <5> HIDE DEF n
        <5>3. TotalElem = n \div TopkTile
          BY DEF TotalElem, n
        <5>4. (n \div TopkTile) * TopkTile <= n /\ (n \div TopkTile) * TopkTile \in Int
          BY <5>1, <5>2
        <5> QED BY <5>1, <5>3, <5>4 DEF n
      <4>3. x \in Nat /\ x < Topk * input.tokens
        <5>1. x \in Nat /\ x < TotalElem * TopkTile
          BY <4>2
        <5>2. input.tokens * Topk = Topk * input.tokens /\ Topk * input.tokens \in Nat
          BY <4>2
        <5> DEFINE a == TotalElem * TopkTile
                   c == Topk * input.tokens
        <5>3. x < a /\ a <= c /\ a \in Int /\ c \in Nat
          BY <4>2, <5>1, <5>2
        <5> HIDE DEF a, c
        <5>4. x < c
          BY <5>1, <5>3
        <5> QED BY <5>1, <5>4 DEF c
      <4>4. x \div Topk < input.tokens /\ x \div Topk \in Nat
        BY <4>2, <4>3, DivRange, DivMod
      <4> QED BY <4>1, <4>2, <4>4 DEF Tokens
    <3>5. Topk \in Nat
      BY SortAssumption
    <3>6. Names(t, e)
      BY <3>3, <3>4 DEF Names, TopkIds
    <3>7. k + 1 \in 0..Topk
      BY <3>3, <3>5
    <3>8. mesh'[et] = k + 1
      BY <3>2 DEF k
    <3> QED BY <3>6, <3>7, <3>8
  <2> QED BY <2>1, <2>2
<1>3. DOMAIN mesh' = DOMAIN mesh
  BY DEF MeshWith
<1> QED BY <1>2, <1>3, SameProblem DEF MeshSound

OutOK == DOMAIN out = {"sorted", "expert_ids", "total", "counts", "positions", "cleared"}

\* Words written inside the buffers.
LEMMA StoredInside ==
  ASSUME NEW w, NEW b, NEW S, DOMAIN w \subseteq S, DOMAIN b \subseteq S
  PROVE  DOMAIN Stored(w, b) \subseteq S
BY DEF Stored

\* Which kernel runs when.
LEMMA StageOf ==
  ASSUME path \in MpPaths, stage \in 1..(Len(path) + 1)
  PROVE  /\ Len(path) \in {2, 3, 4} /\ (stage \in DOMAIN path <=> stage <= Len(path))
         /\ stage \in DOMAIN path =>
              /\ Kernel \in {"P0", "P01"} => stage = 1
              /\ Kernel = "P01" <=> stage = 1 /\ Len(path) = 2
              /\ Kernel = "P1" <=> stage = 2 /\ Len(path) \in {3, 4}
              /\ Kernel = "P2" => stage = 3 /\ Len(path) = 4
              /\ Kernel = "P3" => stage = 4 /\ Len(path) = 4
              /\ Kernel = "P23" => stage = Len(path) /\ Len(path) \in {2, 3}
              /\ Kernel = "P01" => path = <<"P01", "P23">>
<1>1. CASE path = <<"P0", "P1", "P2", "P3">>
  <2>1. Len(path) = 4 /\ DOMAIN path = 1..4
    BY <1>1
  <2>2. path[1] = "P0" /\ path[2] = "P1" /\ path[3] = "P2" /\ path[4] = "P3"
    BY <1>1
  <2>3. stage \in {1, 2, 3, 4, 5}
    BY <2>1
  <2> QED BY <2>1, <2>2, <2>3 DEF Kernel
<1>2. CASE path = <<"P0", "P1", "P23">>
  <2>1. Len(path) = 3 /\ DOMAIN path = 1..3
    BY <1>2
  <2>2. path[1] = "P0" /\ path[2] = "P1" /\ path[3] = "P23"
    BY <1>2
  <2>3. stage \in {1, 2, 3, 4}
    BY <2>1
  <2> QED BY <2>1, <2>2, <2>3 DEF Kernel
<1>3. CASE path = <<"P01", "P23">>
  <2>1. Len(path) = 2 /\ DOMAIN path = 1..2
    BY <1>3
  <2>2. path[1] = "P01" /\ path[2] = "P23"
    BY <1>3
  <2>3. stage \in {1, 2, 3}
    BY <2>1
  <2> QED BY <1>3, <2>1, <2>2, <2>3 DEF Kernel
<1> QED BY <1>1, <1>2, <1>3 DEF MpPaths

\* The sums survive when no expert comes to be counted.
LEMMA SumsStay ==
  ASSUME SumsInv, UNCHANGED <<input, path, expert_cumsum>>, (StartsStored' <=> StartsStored),
         ~StartsStored => \A e \in Experts : CountedIn(e)' => CountedIn(e)
  PROVE  SumsInv'
BY SameProblem, SamePlaces DEF SumsInv

\* A step that leaves the outputs alone keeps them in their buffers.
LEMMA BuffersStay ==
  ASSUME InBuffers, UNCHANGED <<input, out>>
  PROVE  InBuffers'
BY SameProblem DEF InBuffers

\* Also when they fit only without idle threads.
LEMMA FitStays ==
  ASSUME BuffersFit, UNCHANGED <<input, out>>
  PROVE  BuffersFit'
BY SamePlaces, BuffersStay DEF BuffersFit

\* Blocks of P0 and P01 before they count.
LEMMA MeshTables ==
  ASSUME MpInv, TablesInv, NEW b \in DOMAIN at, P0(b) \/ P01Mesh(b) \/ P01Inc(b)
  PROVE  TablesInv'
<1> SUFFICES ASSUME path # <<>> PROVE MeshSound' /\ SumsInv' /\ BuffersFit'
  BY DEF TablesInv, P0, P01Mesh, P01Inc
<1>1. /\ UNCHANGED <<input, path, stage, expert_cumsum, out>> /\ stage \in DOMAIN path
      /\ Kernel \in {"P0", "P01"} /\ Kernel' = Kernel
      /\ UNCHANGED mesh \/ mesh' = MeshWith(b)
      /\ at' = [at EXCEPT ![b] = at'[b]]
      /\ at'[b] = "done" /\ Kernel = "P01" => b >= input.experts
  <2>1. CASE P0(b)
    <3>1. /\ UNCHANGED <<input, path, stage, expert_cumsum, out>> /\ stage \in DOMAIN path
          /\ Kernel = "P0" /\ mesh' = MeshWith(b) /\ at' = [at EXCEPT ![b] = "done"]
      BY <2>1 DEF P0, Running, Finish
    <3>2. Kernel' = Kernel
      BY <3>1 DEF Kernel
    <3> QED BY <3>1, <3>2
  <2>2. CASE P01Mesh(b)
    <3>1. /\ UNCHANGED <<input, path, stage, expert_cumsum, out>> /\ stage \in DOMAIN path
          /\ Kernel = "P01" /\ mesh' = MeshWith(b) /\ at' = [at EXCEPT ![b] = "inc"]
      BY <2>2 DEF P01Mesh, Running
    <3>2. Kernel' = Kernel
      BY <3>1 DEF Kernel
    <3> QED BY <3>1, <3>2
  <2>3. CASE P01Inc(b)
    <3> DEFINE point == IF b >= input.experts THEN "done" ELSE "wait"
    <3>1. /\ UNCHANGED <<input, path, stage, expert_cumsum, out, mesh>> /\ stage \in DOMAIN path
          /\ Kernel = "P01" /\ at' = [at EXCEPT ![b] = point]
      BY <2>3 DEF P01Inc, Running
    <3>2. Kernel' = Kernel
      BY <3>1 DEF Kernel
    <3>3. point = "done" => b >= input.experts
      OBVIOUS
    <3> HIDE DEF point
    <3> QED BY <3>1, <3>2, <3>3
  <2> QED BY <2>1, <2>2, <2>3
<1>2. path \in MpPaths /\ stage \in 1..(Len(path) + 1) /\ input \in Inputs
  BY DEF MpInv, LaunchOK
<1>3. stage = 1 /\ MeshSound /\ SumsInv /\ BuffersFit
  BY <1>1, <1>2, StageOf DEF TablesInv
<1>4. MeshSound'
  <2>1. UNCHANGED mesh => MeshSound'
    BY <1>1, <1>3, SameProblem DEF MeshSound
  <2> QED BY <1>1, <1>3, <2>1, EntersSound DEF MpInv
<1>5. ~StartsStored /\ ~StartsStored'
  BY <1>1, <1>3 DEF StartsStored
<1>6. ASSUME NEW e \in Experts, CountedIn(e)' PROVE CountedIn(e)
  <2>1. Kernel = "P01" /\ at'[e % GridSize] = "done"
    BY <1>1, <1>3, <1>6 DEF CountedIn
  <2>2. e % GridSize < input.experts
    <3>1. e \in Nat /\ e < input.experts /\ GridSize \in Nat \ {0} /\ input.experts \in Nat
      BY <1>2, Problem DEF Experts
    <3>2. e % GridSize \in 0..(GridSize - 1) /\ e % GridSize <= e
      BY <3>1, ModRange
    <3> QED BY <3>1, <3>2
  <2>3. b = e % GridSize => at'[e % GridSize] # "done"
    <3>1. input.experts \in Nat /\ b \in Int
      BY <1>1, <1>2, <1>3, Problem DEF MpInv, LaunchOK, Blocks
    <3> DEFINE x == e % GridSize
    <3> HIDE DEF x
    <3> QED BY <1>1, <2>1, <2>2, <3>1 DEF x
  <2>4. at[e % GridSize] = "done"
    <3> DEFINE x == e % GridSize
    <3>1. e \in Nat /\ GridSize \in Nat \ {0}
      BY <1>2, Problem DEF Experts
    <3>2. x \in 0..(GridSize - 1)
      BY <3>1, ModRange
    <3> HIDE DEF x
    <3>3. x \in DOMAIN at
      BY <1>1, <2>1, <3>2 DEF MpInv, LaunchOK, Blocks
    <3>4. x # b /\ at'[x] = "done"
      BY <2>1, <2>3 DEF x
    <3> QED BY <1>1, <3>3, <3>4 DEF x
  <2> QED BY <1>3, <2>1, <2>4 DEF CountedIn
<1>7. SumsInv'
  <2>1. UNCHANGED <<input, path, expert_cumsum>> /\ SumsInv
    BY <1>1, <1>3
  <2>2. \A e \in Experts : CountedIn(e)' => CountedIn(e)
    BY <1>6
  <2> QED BY <1>5, <2>1, <2>2, SumsStay
<1> QED BY <1>1, <1>3, <1>4, <1>7, FitStays

\* P1 and P01 count.
LEMMA CountTables ==
  ASSUME MpInv, TablesInv, OutOK, NEW b \in DOMAIN at, P1(b) \/ P01Count(b)
  PROVE  TablesInv'
<1> SUFFICES ASSUME path # <<>> PROVE MeshSound' /\ SumsInv' /\ BuffersFit'
  BY DEF TablesInv, P1, P01Count
<1> DEFINE mine(e) == Enabled(e) /\ (IF Kernel = "P1" THEN e = b ELSE e % GridSize = b)
<1>1. path \in MpPaths /\ stage \in 1..(Len(path) + 1) /\ input \in Inputs /\ LaunchOK
  BY DEF MpInv, LaunchOK
<1>2. /\ UNCHANGED <<input, path, stage, mesh>> /\ stage \in DOMAIN path
      /\ Kernel \in {"P1", "P01"} /\ Kernel' = Kernel
      /\ at' = [at EXCEPT ![b] = "done"]
  BY DEF P1, P01Count, Running, Finish, Kernel
<1>3. MeshSound /\ SumsInv /\ BuffersFit
  BY DEF TablesInv
<1>4. Kernel = "P1" => b \in Experts
  BY <1>2 DEF MpInv, LaunchOK, Blocks
<1>5. DOMAIN expert_cumsum = 0..input.experts /\ Experts \subseteq DOMAIN expert_cumsum
  <2>1. input.experts \in Nat
    BY <1>1, Problem
  <2> QED BY <1>3, <2>1 DEF SumsInv, Experts
<1>6. /\ DOMAIN expert_cumsum' = DOMAIN expert_cumsum
      /\ \A e \in Experts : expert_cumsum'[e] = IF mine(e) THEN CountOf(e) ELSE expert_cumsum[e]
  <2>1. CASE P1(b)
    <3>1. Kernel = "P1"
      BY <2>1 DEF P1, Running
    <3>2. CASE Enabled(b)
      <4>1. expert_cumsum' = [expert_cumsum EXCEPT ![b] = CountOf(b)]
        BY <2>1, <3>2 DEF P1
      <4> QED BY <1>4, <1>5, <3>1, <3>2, <4>1
    <3>3. CASE ~Enabled(b)
      <4>1. expert_cumsum' = expert_cumsum
        BY <2>1, <3>3 DEF P1
      <4> QED BY <3>1, <3>3, <4>1
    <3> QED BY <3>2, <3>3
  <2>2. CASE P01Count(b)
    <3>1. Kernel = "P01"
      BY <2>2 DEF P01Count, Running
    <3>2. expert_cumsum' = [e \in DOMAIN expert_cumsum |->
            IF e \in ExpertsOf(b) /\ Enabled(e) THEN CountOf(e) ELSE expert_cumsum[e]]
      BY <2>2 DEF P01Count
    <3> QED BY <1>5, <3>1, <3>2 DEF ExpertsOf
  <2> QED BY <2>1, <2>2
<1>7. MeshComplete
  <2>1. CASE Kernel = "P1"
    <3>1. stage = 2
      BY <1>1, <1>2, <2>1, StageOf
    <3> QED BY <3>1, CompleteIfEntered DEF HasEntered, First
  <2>2. CASE Kernel = "P01"
    <3>1. path = <<"P01", "P23">>
      BY <1>1, <1>2, <2>2, StageOf
    <3>2. sem >= WGCounts
      BY <2>2 DEF P1, P01Count, Running
    <3> QED BY <3>1, <3>2, CompleteIfOpen
  <2> QED BY <1>2, <2>1, <2>2
<1>8. \A e \in Experts : CountOf(e) = TokensOf(e) /\ TokensOf(e) \in 0..MostTokens
  <2>1. input.tokens \in Nat
    BY <1>1, Problem
  <2>2. \A e \in Experts : CountOf(e) = TokensOf(e)
    BY <1>1, <1>3, <1>7, MeshShows, CountIsTokens
  <2>3. \A e : TokensOf(e) \in Nat /\ TokensOf(e) <= input.tokens
    BY <1>1, <2>1, NamedStep, NamedUpTo DEF TokensOf
  <2> QED BY <1>1, <2>1, <2>2, <2>3, MostTokensBound
<1>9. ~StartsStored /\ ~StartsStored'
  <2>1. stage \in {1, 2}
    BY <1>1, <1>2, StageOf
  <2> QED BY <1>2, <2>1 DEF StartsStored
<1>10. ASSUME NEW e \in Experts, Enabled(e), CountedIn(e)'
       PROVE  expert_cumsum'[e] = TokensOf(e)
  <2>1. CASE mine(e)
    BY <1>6, <1>8, <2>1
  <2>2. CASE ~mine(e)
    <3>1. CountedIn(e)
      <4>1. CASE Kernel = "P1"
        <5>1. stage = 2 /\ e # b
          BY <1>1, <1>2, <1>10, <2>2, <4>1, StageOf
        <5> QED BY <1>2, <1>10, <4>1, <5>1 DEF CountedIn
      <4>2. CASE Kernel = "P01"
        <5>1. stage = 1 /\ e % GridSize # b
          BY <1>1, <1>2, <1>10, <2>2, <4>2, StageOf
        <5>2. at'[e % GridSize] = "done"
          BY <1>2, <1>10, <4>2, <5>1 DEF CountedIn
        <5>3. at[e % GridSize] = "done"
          <6> DEFINE x == e % GridSize
          <6> HIDE DEF x
          <6>1. at'[x] = "done" /\ x # b
            BY <5>1, <5>2 DEF x
          <6>2. at[x] = at'[x]
            BY <1>2, <6>1
          <6> QED BY <6>1, <6>2 DEF x
        <5> QED BY <4>2, <5>1, <5>3 DEF CountedIn
      <4> QED BY <1>2, <4>1, <4>2
    <3> QED BY <1>3, <1>6, <1>9, <1>10, <2>2, <3>1 DEF SumsInv
  <2> QED BY <2>1, <2>2
<1> HIDE DEF mine
<1>11. SumsInv'
  <2>1. \A e \in Experts : expert_cumsum'[e] \in 0..MostTokens
    BY <1>3, <1>6, <1>8 DEF SumsInv
  <2>2. DOMAIN expert_cumsum' = 0..input.experts
    BY <1>5, <1>6
  <2> QED BY <1>2, <1>9, <1>10, <2>1, <2>2, SameProblem, SamePlaces DEF SumsInv
<1>12. MeshSound'
  BY <1>2, <1>3, SameProblem DEF MeshSound
<1>13. BuffersFit'
  <2>1. out'.sorted = out.sorted /\ out'.expert_ids = out.expert_ids
    BY DEF P1, P01Count, OutOK
  <2> QED BY <1>2, <1>3, <2>1, SameProblem, SamePlaces DEF BuffersFit, InBuffers
<1> QED BY <1>11, <1>12, <1>13

\* A list ends before the next one starts, inside the buffer.
LEMMA ListWithin ==
  ASSUME input \in Inputs, NEW e \in Experts
  PROVE  /\ UnitSize * UnitStart[e] \in Nat /\ UnitSize * UnitStart[e + 1] \in Nat
         /\ UnitStart[e] \in Nat /\ UnitStart[e + 1] \in Nat /\ UnitStart[e] <= UnitStart[e + 1]
         /\ UnitSize * UnitStart[e] <= UnitSize * UnitStart[e + 1]
         /\ UnitSize * UnitStart[e + 1] <= UnitSize * UnitStart[input.experts]
         /\ UnitSize * UnitStart[input.experts] \in Nat
         /\ Enabled(e) =>
              UnitSize * UnitStart[e] + TokensOf(e) <= UnitSize * UnitStart[e + 1]
<1> DEFINE n == input.experts
           a == UnitStart[e]
           b == UnitStart[e + 1]
           c == UnitStart[n]
           u == ListUnits(e)
           t == TokensOf(e)
<1>1. n \in Nat \ {0} /\ Experts = 0..(n - 1) /\ UnitSize \in Nat \ {0}
  BY Problem, SortAssumption DEF Experts
<1>2. e \in 0..n /\ e + 1 \in 0..n /\ n \in 0..n /\ e + 1 <= n
  BY <1>1
<1>3. a \in Nat /\ b \in Nat /\ c \in Nat /\ b = a + u /\ b <= c
  BY <1>2, ListsInOrder
<1>4. t \in Nat /\ u \in Nat /\ (Enabled(e) => t <= UnitSize * u)
  BY ListUnitsFit
<1> HIDE DEF a, b, c, u, t
<1>5. UnitSize * b = UnitSize * a + UnitSize * u /\ UnitSize * a \in Nat /\ UnitSize * u \in Nat
      /\ UnitSize * b \in Nat /\ UnitSize * c \in Nat
  BY <1>1, <1>3, <1>4
<1>6. UnitSize * b <= UnitSize * c
  <2>1. b * UnitSize <= c * UnitSize
    BY <1>1, <1>3, ProductOrder
  <2> QED BY <1>1, <1>3, <2>1
<1>7. UnitSize * a <= UnitSize * b /\ (Enabled(e) => UnitSize * a + t <= UnitSize * b) /\ a <= b
  BY <1>3, <1>4, <1>5
<1> QED BY <1>3, <1>5, <1>6, <1>7 DEF a, b, c, t, n

\* A list is written inside the buffer.
LEMMA ListInBuffer ==
  ASSUME input \in Inputs, NEW e \in Experts, Enabled(e), RowShows(e)
  PROVE  DOMAIN ListWrites(e, UnitSize * UnitStart[e], UnitSize * UnitStart[e + 1])
           \subseteq 0..(MaxOutputIds - 1)
<1> DEFINE s == UnitSize * UnitStart[e]
           end == UnitSize * UnitStart[e + 1]
<1>1. s \in Int /\ end \in Int /\ s + TokensOf(e) <= end /\ s >= 0 /\ end <= MaxOutputIds
      /\ MaxOutputIds \in Int
  <2> DEFINE m == UnitSize * UnitStart[input.experts]
             q == MaxOutputIds
  <2>1. s \in Nat /\ end \in Nat /\ s + TokensOf(e) <= end /\ end <= m /\ m \in Nat
    BY ListWithin
  <2>2. m <= q /\ q \in Nat
    BY ListsFit
  <2> HIDE DEF s, end, m, q
  <2>3. s \in Int /\ end \in Int /\ s >= 0 /\ end <= q /\ q \in Int
    BY <2>1, <2>2
  <2> QED BY <2>1, <2>3 DEF q
<1> HIDE DEF s, end
<1>2. DOMAIN ListWrites(e, s, end) \subseteq s..(end - 1)
  BY <1>1, ListInPlace
<1> DEFINE q == MaxOutputIds
<1>3. s..(end - 1) \subseteq 0..(q - 1)
  <2>1. s \in Int /\ end \in Int /\ s >= 0 /\ end <= q /\ q \in Int
    BY <1>1
  <2> HIDE DEF q
  <2> QED BY <2>1
<1> QED BY <1>2, <1>3 DEF s, end

\* The units of all lists are inside theirs.
LEMMA UnitsInBuffer ==
  ASSUME input \in Inputs
  PROVE  UnitStart[input.experts] <= MaxOutputIds \div UnitSize
<1> DEFINE a == UnitStart[input.experts]
           b == MaxOutputIds \div UnitSize
<1>1. UnitSize * a <= UnitSize * b /\ b \in Nat
  BY ListsFit
<1>2. a \in Nat /\ UnitSize \in Nat \ {0}
  <2>1. input.experts \in 0..input.experts
    BY Problem
  <2> QED BY <2>1, ListsInOrder, SortAssumption
<1> HIDE DEF a, b
<1>3. a <= b
  <2> SUFFICES ASSUME b + 1 <= a PROVE FALSE
    BY <1>1, <1>2
  <2>1. (b + 1) * UnitSize <= a * UnitSize
    BY <1>1, <1>2, ProductOrder
  <2>2. (b + 1) * UnitSize = UnitSize * b + UnitSize /\ a * UnitSize = UnitSize * a
        /\ UnitSize * b \in Nat
    BY <1>1, <1>2
  <2> QED BY <1>1, <1>2, <2>1, <2>2
<1> QED BY <1>3 DEF a, b

\* The ids that P2 and P23 write are those of units of the buffer.
LEMMA IdsInBuffer ==
  ASSUME input \in Inputs, Tallied
  PROVE  DOMAIN ExpertIdWrites \subseteq 0..(MaxOutputIds \div UnitSize - 1)
<1> DEFINE a == UnitStart[input.experts]
           b == MaxOutputIds \div UnitSize
<1>1. a <= b /\ b \in Nat
  BY UnitsInBuffer, ListsFit
<1>2. a \in Nat
  <2>1. input.experts \in 0..input.experts
    BY Problem
  <2> QED BY <2>1, ListsInOrder
<1>3. DOMAIN ExpertIdWrites \subseteq 0..(a - 1)
  BY IdsInPlace
<1>4. 0..(a - 1) \subseteq 0..(b - 1)
  <2> HIDE DEF a, b
  <2> QED BY <1>1, <1>2
<1> QED BY <1>3, <1>4 DEF b

\* After the first kernel every row shows its tokens.
LEMMA RowsShown ==
  ASSUME MpInv, TablesInv, path # <<>>, stage # 1
  PROVE  \A e \in Experts : RowShows(e)
<1>1. MeshComplete
  BY CompleteIfEntered DEF HasEntered, First
<1> QED BY <1>1, MeshShows DEF TablesInv, MpInv

\* P2 replaces the counts by the starts.
LEMMA StartTables ==
  ASSUME MpInv, TablesInv, OutOK, NEW b \in DOMAIN at, P2(b)
  PROVE  TablesInv'
<1> SUFFICES ASSUME path # <<>> PROVE MeshSound' /\ SumsInv' /\ BuffersFit'
  BY DEF TablesInv, P2
<1>1. path \in MpPaths /\ stage \in 1..(Len(path) + 1) /\ input \in Inputs
  BY DEF MpInv, LaunchOK
<1>2. /\ UNCHANGED <<input, path, stage, mesh>> /\ stage \in DOMAIN path
      /\ Kernel = "P2" /\ at[b] = "start" /\ at' = [at EXCEPT ![b] = "done"]
  BY DEF P2, Running, Finish
<1>3. MeshSound /\ SumsInv /\ BuffersFit /\ stage = 3 /\ Len(path) = 4
  BY <1>1, <1>2, StageOf DEF TablesInv
<1>4. MeshSound'
  BY <1>2, <1>3, SameProblem DEF MeshSound
<1>5. b \in Nat /\ 0 \in DOMAIN at
  <2>1. DOMAIN at = 0..ZeroBlocks
    BY <1>2 DEF MpInv, LaunchOK, Blocks
  <2> DEFINE z == ZeroBlocks
  <2>2. b \in 0..z /\ z \in Nat
    BY <1>1, <2>1, Problem, SortAssumption, CeilMultiple DEF ZeroBlocks
  <2> HIDE DEF z
  <2>3. b \in Nat /\ 0 \in 0..z
    BY <2>2
  <2> QED BY <2>1, <2>3 DEF z
<1>6. CASE b > 0
  <2>1. UNCHANGED expert_cumsum /\ ClearBuffer(b - 1)
    BY <1>6 DEF P2
  <2>2. StartsStored' <=> StartsStored
    <3>1. at'[0] = at[0]
      BY <1>2, <1>5, <1>6
    <3> QED BY <1>2, <1>3, <3>1 DEF StartsStored
  <2>3. \A e \in Experts : CountedIn(e)
    BY <1>3 DEF CountedIn
  <2>4. UNCHANGED <<input, path, expert_cumsum>>
    BY <1>2, <2>1
  <2>5. SumsInv'
    BY <1>3, <2>2, <2>3, <2>4, SumsStay
  <2>6. out'.sorted = out.sorted /\ out'.expert_ids = out.expert_ids
    BY <2>1 DEF ClearBuffer, OutOK
  <2>7. BuffersFit'
    BY <1>2, <1>3, <2>6, SameProblem, SamePlaces DEF BuffersFit, InBuffers
  <2> QED BY <1>4, <2>5, <2>7
<1>7. CASE ~(b > 0)
  <2>1. b = 0
    BY <1>5, <1>7
  <2>2. /\ expert_cumsum' = Starts
        /\ out' = [out EXCEPT !.expert_ids = Stored(ExpertIdWrites, @),
                              !.total = Starts[input.experts]]
    BY <1>7 DEF P2
  <2>3. Tallied
    <3>1. ~StartsStored
      BY <1>2, <1>3, <2>1 DEF StartsStored
    <3>2. \A e \in Experts : CountedIn(e)
      BY <1>3 DEF CountedIn
    <3> QED BY <1>3, <3>1, <3>2 DEF SumsInv, Tallied
  <2>4. Starts = [x \in 0..input.experts |-> Placed(x)]
    BY <1>1, <2>3, StartsFound
  <2>5. StartsStored'
    BY <1>2, <1>3, <1>5, <2>1 DEF StartsStored
  <2>6. SumsInv'
    <3>1. DOMAIN expert_cumsum' = 0..input.experts
          /\ \A x \in 0..input.experts : expert_cumsum'[x] = Placed(x)
      BY <2>2, <2>4
    <3>2. ASSUME NEW e \in Experts PROVE expert_cumsum'[e] \in 0..MostTokens
      <4> DEFINE s == UnitSize * UnitStart[e]
                 end == UnitSize * UnitStart[e + 1]
                 m == UnitSize * UnitStart[input.experts]
                 q == MaxOutputIds
                 r == MostTokens
      <4>1. s \in Nat /\ end \in Nat /\ m \in Nat /\ s <= end /\ end <= m
        BY <1>1, ListWithin
      <4>2. m <= q /\ q \in Nat /\ q <= r /\ r \in Nat
        BY <1>1, ListsFit, MostTokensBound
      <4>3. expert_cumsum'[e] = s
        <5>1. e \in 0..input.experts /\ e # input.experts
          BY <1>1, Problem DEF Experts
        <5> QED BY <1>1, <3>1, <5>1, ListPlaced
      <4> HIDE DEF s, end, m, q, r
      <4>4. s \in 0..r
        BY <4>1, <4>2
      <4> QED BY <4>3, <4>4 DEF r
    <3> QED BY <1>2, <2>5, <3>1, <3>2, SameProblem, SamePlaces DEF SumsInv
  <2>7. BuffersFit'
    <3> SUFFICES ASSUME IdleUnits = 0 PROVE InBuffers'
      BY <1>2, SameProblem, SamePlaces DEF BuffersFit
    <3>1. out'.sorted = out.sorted /\ out'.expert_ids = Stored(ExpertIdWrites, out.expert_ids)
      BY <2>2 DEF OutOK
    <3>2. DOMAIN out'.expert_ids \subseteq 0..(MaxOutputIds \div UnitSize - 1)
      <4> DEFINE S == 0..(MaxOutputIds \div UnitSize - 1)
      <4>1. DOMAIN ExpertIdWrites \subseteq S
        BY <1>1, <2>3, IdsInBuffer
      <4>2. DOMAIN out.expert_ids \subseteq S
        BY <1>3 DEF BuffersFit, InBuffers
      <4> HIDE DEF S
      <4>3. DOMAIN out'.expert_ids \subseteq S
        BY <3>1, <4>1, <4>2, StoredInside
      <4> QED BY <4>3 DEF S
    <3> QED BY <1>2, <1>3, <3>1, <3>2, SameProblem, SamePlaces DEF BuffersFit, InBuffers
  <2> QED BY <1>4, <2>6, <2>7
<1> QED BY <1>6, <1>7

\* P3 and P23 write the lists, inside the buffers unless threads are idle.
LEMMA ListFits ==
  ASSUME MpInv, TablesInv, OutOK, path # <<>>, NEW b \in DOMAIN at, P3(b) \/ P23(b), IdleUnits = 0
  PROVE  InBuffers'
<1> DEFINE s == UnitSize * UnitStart[b]
           end == UnitSize * UnitStart[b + 1]
<1>1. path \in MpPaths /\ stage \in 1..(Len(path) + 1) /\ input \in Inputs
  BY DEF MpInv, LaunchOK
<1>2. UNCHANGED <<input, path, stage, mesh, expert_cumsum>> /\ Kernel \in {"P3", "P23"}
      /\ stage \in DOMAIN path
  BY DEF P3, P23, Running
<1>3. MeshSound /\ SumsInv /\ InBuffers
  BY DEF TablesInv, BuffersFit
<1>4. /\ Kernel = "P3" => stage = 4 /\ Len(path) = 4
      /\ Kernel = "P23" => stage = Len(path) /\ Len(path) \in {2, 3}
  BY <1>1, <1>2, StageOf
<1>5. StartsStored <=> Kernel = "P3"
  <2>1. Kernel = "P3" => StartsStored
    BY <1>4 DEF StartsStored
  <2>2. Kernel = "P23" => Len(path) # 4
    <3> DEFINE n == Len(path)
    <3>1. Kernel = "P23" => n \in {2, 3}
      BY <1>4
    <3> HIDE DEF n
    <3> QED BY <3>1 DEF n
  <2> QED BY <1>2, <2>1, <2>2 DEF StartsStored
<1>6. Kernel = "P23" => \A e \in Experts : CountedIn(e)
  BY <1>4 DEF CountedIn
<1>7. \A e \in Experts : RowShows(e)
  <2> DEFINE n == Len(path)
  <2>1. stage = 4 \/ (stage = n /\ n \in {2, 3})
    BY <1>2, <1>4
  <2> HIDE DEF n
  <2>2. stage # 1
    BY <2>1
  <2> QED BY <2>2, RowsShown
<1>8. b \in Experts /\ Enabled(b) => DOMAIN ListWrites(b, s, end) \subseteq 0..(MaxOutputIds - 1)
  BY <1>1, <1>7, ListInBuffer
<1> HIDE DEF s, end
<1>9. InBuffers /\ DOMAIN out.sorted \subseteq 0..(MaxOutputIds - 1)
      /\ DOMAIN out.expert_ids \subseteq 0..(MaxOutputIds \div UnitSize - 1)
  BY <1>3 DEF BuffersFit, InBuffers
<1>10. b \in Experts => b \in 0..input.experts /\ b + 1 \in 0..input.experts
  <2>1. input.experts \in Nat
    BY <1>1, Problem
  <2> QED BY <2>1 DEF Experts
<1>11. CASE P3(b)
  <2>1. Kernel = "P3" /\ b \in Experts
    BY <1>11 DEF P3, Running, MpInv, LaunchOK, Blocks
  <2>2. expert_cumsum[b] = s /\ expert_cumsum[b + 1] = end
    BY <1>1, <1>3, <1>5, <1>10, <2>1, ListPlaced DEF SumsInv, s, end
  <2>3. out' = IF Skipped(b, s, end) THEN out
               ELSE [out EXCEPT !.sorted = Stored(ListWrites(b, s, end), @)]
    BY <1>11, <2>2 DEF P3
  <2>4. CASE Skipped(b, s, end)
    BY <1>2, <1>9, <2>3, <2>4, BuffersStay
  <2>5. CASE ~Skipped(b, s, end)
    <3>1. Enabled(b)
      BY <2>5 DEF Skipped
    <3>2. out'.expert_ids = out.expert_ids
          /\ out'.sorted = Stored(ListWrites(b, s, end), out.sorted)
      BY <2>3, <2>5 DEF OutOK
    <3>3. DOMAIN out'.sorted \subseteq 0..(MaxOutputIds - 1)
      BY <1>8, <1>9, <2>1, <3>1, <3>2, StoredInside
    <3>4. InBuffers'
      BY <1>2, <1>9, <3>2, <3>3, SameProblem DEF InBuffers
    <3> QED BY <3>4
  <2> QED BY <2>4, <2>5
<1>12. CASE P23(b)
  <2>1. Kernel = "P23"
    BY <1>12 DEF P23, Running
  <2>2. CASE b >= input.experts
    <3>1. ClearBuffer(b - input.experts)
      BY <1>12, <2>2 DEF P23
    <3>2. out'.sorted = out.sorted /\ out'.expert_ids = out.expert_ids
      BY <3>1 DEF ClearBuffer, OutOK
    <3>3. InBuffers'
      BY <1>2, <1>9, <3>2, SameProblem DEF InBuffers
    <3> QED BY <3>3
  <2>3. CASE ~(b >= input.experts)
    <3>1. b \in Experts
      <4>1. DOMAIN at = 0..(input.experts + ZeroBlocks - 1) /\ input.experts \in Nat
        BY <1>1, <1>2, <2>1, Problem DEF MpInv, LaunchOK, Blocks
      <4> DEFINE z == input.experts + ZeroBlocks - 1
      <4>2. b \in 0..z
        BY <4>1
      <4> HIDE DEF z
      <4>3. b \in Nat
        BY <4>2
      <4> QED BY <2>3, <4>1, <4>3 DEF Experts
    <3>2. Tallied
      <4>1. \A e \in Experts : CountedIn(e)
        BY <1>6, <2>1
      <4> QED BY <1>3, <1>5, <2>1, <4>1 DEF SumsInv, Tallied
    <3>3. Starts[b] = s /\ Starts[b + 1] = end
      <4>1. Starts = [x \in 0..input.experts |-> Placed(x)]
        BY <1>1, <3>2, StartsFound
      <4> QED BY <1>1, <1>10, <3>1, <4>1, ListPlaced DEF s, end
    <3> DEFINE skip == Skipped(b, s, end)
               ids == IF b = 0 THEN Stored(ExpertIdWrites, out.expert_ids) ELSE out.expert_ids
               list == IF skip THEN out.sorted ELSE Stored(ListWrites(b, s, end), out.sorted)
    <3>4. out'.expert_ids = ids /\ out'.sorted = list
      BY <1>12, <2>3, <3>3 DEF P23, OutOK
    <3>5. DOMAIN ids \subseteq 0..(MaxOutputIds \div UnitSize - 1)
      <4> DEFINE S == 0..(MaxOutputIds \div UnitSize - 1)
      <4>1. DOMAIN ExpertIdWrites \subseteq S
        BY <1>1, <3>2, IdsInBuffer
      <4>2. DOMAIN out.expert_ids \subseteq S
        BY <1>9
      <4> HIDE DEF S
      <4>3. DOMAIN ids \subseteq S
        BY <4>1, <4>2, StoredInside
      <4> QED BY <4>3 DEF S
    <3>6. DOMAIN list \subseteq 0..(MaxOutputIds - 1)
      <4>1. ~skip => Enabled(b)
        BY DEF Skipped
      <4> QED BY <1>8, <1>9, <3>1, <4>1, StoredInside
    <3> HIDE DEF ids, list
    <3>7. InBuffers'
      BY <1>2, <3>4, <3>5, <3>6, SameProblem DEF InBuffers
    <3> QED BY <3>7
  <2> QED BY <2>2, <2>3
<1> QED BY <1>11, <1>12

\* P3 and P23 leave the other tables alone.
LEMMA ListTables ==
  ASSUME MpInv, TablesInv, OutOK, NEW b \in DOMAIN at, P3(b) \/ P23(b)
  PROVE  TablesInv'
<1> SUFFICES ASSUME path # <<>> PROVE MeshSound' /\ SumsInv' /\ BuffersFit'
  BY DEF TablesInv, P3, P23
<1>1. path \in MpPaths /\ stage \in 1..(Len(path) + 1) /\ input \in Inputs
  BY DEF MpInv, LaunchOK
<1>2. /\ UNCHANGED <<input, path, stage, mesh, expert_cumsum>> /\ stage \in DOMAIN path
      /\ Kernel \in {"P3", "P23"} /\ at' = [at EXCEPT ![b] = "done"]
  BY DEF P3, P23, Running, Finish
<1>3. /\ MeshSound /\ SumsInv
      /\ Kernel = "P3" => stage = 4 /\ Len(path) = 4
      /\ Kernel = "P23" => stage = Len(path) /\ Len(path) \in {2, 3}
  BY <1>1, <1>2, StageOf DEF TablesInv
<1>4. MeshSound'
  BY <1>2, <1>3, SameProblem DEF MeshSound
<1>5. (StartsStored' <=> StartsStored) /\ (StartsStored <=> Kernel = "P3")
  <2>1. CASE Kernel = "P3"
    BY <1>2, <1>3, <2>1 DEF StartsStored
  <2>2. CASE Kernel = "P23"
    <3>1. Len(path) # 4
      <4> DEFINE n == Len(path)
      <4>1. n \in {2, 3}
        BY <1>3, <2>2
      <4> HIDE DEF n
      <4>2. n # 4
        BY <4>1
      <4> QED BY <4>2 DEF n
    <3> QED BY <1>2, <2>2, <3>1 DEF StartsStored
  <2> QED BY <1>2, <2>1, <2>2
<1>6. SumsInv'
  <2>1. \A e \in Experts : CountedIn(e)
    <3>1. stage \in {2, 3, 4} /\ Kernel # "P1"
      BY <1>2, <1>3
    <3> QED BY <3>1 DEF CountedIn
  <2>2. UNCHANGED <<input, path, expert_cumsum>>
    BY <1>2
  <2> QED BY <1>3, <1>5, <2>1, <2>2, SumsStay
<1>7. BuffersFit'
  <2> SUFFICES ASSUME IdleUnits = 0 PROVE InBuffers'
    BY <1>2, SamePlaces DEF BuffersFit
  <2> QED BY ListFits
<1> QED BY <1>4, <1>6, <1>7

\* The next kernel finds what the one before has counted.
LEMMA NextTables ==
  ASSUME MpInv, TablesInv, NextKernel
  PROVE  TablesInv'
<1> SUFFICES ASSUME path # <<>> PROVE MeshSound' /\ SumsInv' /\ BuffersFit'
  BY DEF TablesInv, NextKernel
<1>1. path \in MpPaths /\ stage \in 1..(Len(path) + 1) /\ input \in Inputs
  BY DEF MpInv, LaunchOK
<1>2. /\ UNCHANGED <<input, path, mesh, expert_cumsum, out>> /\ stage \in DOMAIN path
      /\ stage' = stage + 1 /\ at' = StartOfKernel(stage + 1)
      /\ \A b \in DOMAIN at : at[b] = "done"
  BY DEF NextKernel
<1>3. MeshSound /\ SumsInv /\ BuffersFit
  BY DEF TablesInv
<1>4. MeshSound'
  BY <1>2, <1>3, SameProblem DEF MeshSound
<1>5. BuffersFit'
  BY <1>2, <1>3, FitStays
<1>6. Len(path) \in {2, 3, 4} /\ stage \in 1..Len(path) /\ stage <= Len(path)
  BY <1>1, <1>2, StageOf
<1>7. stage + 1 \in DOMAIN path => \A b \in DOMAIN at' : at'[b] = "start"
  BY <1>2 DEF StartOfKernel
<1>8. (StartsStored' <=> StartsStored)
  <2>1. CASE Len(path) # 4
    BY <1>2, <2>1 DEF StartsStored
  <2>2. CASE Len(path) = 4 /\ stage = 1
    BY <1>2, <2>2 DEF StartsStored
  <2>3. CASE Len(path) = 4 /\ stage = 2
    <3>1. stage + 1 \in DOMAIN path /\ path[3] = "P2"
      BY <1>1, <2>3 DEF MpPaths
    <3>2. at' = [b \in 0..ZeroBlocks |-> "start"]
      BY <1>2, <2>3, <3>1 DEF StartOfKernel, Blocks
    <3>3. ZeroBlocks \in Nat
      BY <1>1, Problem, SortAssumption, CeilMultiple DEF ZeroBlocks
    <3>4. 0 \in 0..ZeroBlocks
      BY <3>3
    <3>5. at'[0] = "start"
      BY <3>2, <3>4
    <3> QED BY <1>2, <2>3, <3>5 DEF StartsStored
  <2>4. CASE Len(path) = 4 /\ stage = 3
    <3>1. Kernel = "P2"
      BY <1>1, <2>4 DEF MpPaths, Kernel
    <3>2. DOMAIN at = 0..ZeroBlocks
      BY <1>2, <3>1 DEF MpInv, LaunchOK, Blocks
    <3>3. ZeroBlocks \in Nat
      BY <1>1, Problem, SortAssumption, CeilMultiple DEF ZeroBlocks
    <3>4. 0 \in 0..ZeroBlocks
      BY <3>3
    <3>5. at[0] = "done"
      BY <1>2, <3>2, <3>4
    <3> QED BY <1>2, <2>4, <3>5 DEF StartsStored
  <2>5. CASE Len(path) = 4 /\ stage = 4
    BY <1>2, <2>5 DEF StartsStored
  <2>6. Len(path) = 4 => stage \in {1, 2, 3, 4}
    <3> DEFINE n == Len(path)
    <3>1. stage \in 1..n
      BY <1>6
    <3> HIDE DEF n
    <3>2. n = 4 => stage \in {1, 2, 3, 4}
      BY <3>1
    <3> QED BY <3>2 DEF n
  <2> QED BY <2>1, <2>2, <2>3, <2>4, <2>5, <2>6
<1>9. ASSUME NEW e \in Experts, CountedIn(e)' PROVE CountedIn(e)
  <2>1. CASE stage = 1
    <3>1. stage' = 2 /\ (Kernel' = "P1" => at'[e] = "done")
      BY <1>2, <1>9, <2>1 DEF CountedIn
    <3>2. Kernel' = path[2] /\ 2 \in DOMAIN path
      BY <1>1, <1>2, <2>1 DEF Kernel, MpPaths
    <3>3. Kernel' # "P1"
      <4> SUFFICES ASSUME path[2] = "P1" PROVE FALSE
        BY <3>2
      <4>1. at' = [b \in Experts |-> "start"]
        BY <1>2, <2>1, <3>2 DEF StartOfKernel, Blocks
      <4> QED BY <3>1, <3>2, <4>1
    <3>4. path = <<"P01", "P23">> /\ Kernel = "P01"
      BY <1>1, <2>1, <3>2, <3>3 DEF MpPaths, Kernel
    <3>5. at[e % GridSize] = "done"
      <4>1. e \in Nat /\ GridSize \in Nat \ {0}
        BY <1>1, Problem DEF Experts
      <4>2. e % GridSize \in 0..(GridSize - 1)
        BY <4>1, ModRange
      <4>3. DOMAIN at = 0..(GridSize - 1)
        BY <1>2, <3>4 DEF MpInv, LaunchOK, Blocks
      <4> QED BY <1>2, <4>2, <4>3
    <3> QED BY <2>1, <3>4, <3>5 DEF CountedIn
  <2>2. CASE stage = 2
    <3>1. Kernel = "P1" => DOMAIN at = Experts
      BY <1>2 DEF MpInv, LaunchOK, Blocks
    <3> QED BY <1>2, <2>2, <3>1 DEF CountedIn
  <2>3. CASE stage > 2
    BY <2>3 DEF CountedIn
  <2> QED BY <1>6, <2>1, <2>2, <2>3
<1>10. SumsInv'
  <2>1. UNCHANGED <<input, path, expert_cumsum>>
    BY <1>2
  <2> QED BY <1>3, <1>8, <1>9, <2>1, SumsStay
<1> QED BY <1>4, <1>5, <1>10

\* The next launch starts to count again.
LEMMA AgainTables ==
  ASSUME MpInv, TablesInv, Again
  PROVE  TablesInv'
<1> SUFFICES ASSUME path # <<>> PROVE MeshSound' /\ SumsInv' /\ BuffersFit'
  BY DEF TablesInv, Again
<1>1. path \in MpPaths /\ stage = Len(path) + 1 /\ input \in Inputs
  BY DEF MpInv, LaunchOK, Again, Finished
<1>2. /\ UNCHANGED <<input, path, mesh, expert_cumsum, out>>
      /\ (stage' = 1 /\ at' = StartOfKernel(1)) \/ UNCHANGED <<stage, at>>
  BY DEF Again
<1>3. MeshSound /\ SumsInv /\ BuffersFit
  BY DEF TablesInv
<1>4. MeshSound' /\ BuffersFit'
  BY <1>2, <1>3, SameProblem, FitStays DEF MeshSound
<1>5. CASE stage' = 1 /\ at' = StartOfKernel(1)
  <2>1. ~StartsStored'
    BY <1>5 DEF StartsStored
  <2>2. \A e \in Experts : ~CountedIn(e)'
    <3>1. Kernel' = path[1] /\ 1 \in DOMAIN path
      BY <1>1, <1>2, <1>5 DEF Kernel, MpPaths
    <3> SUFFICES ASSUME NEW e \in Experts, path[1] = "P01", at'[e % GridSize] = "done"
                 PROVE  FALSE
      BY <1>5, <3>1 DEF CountedIn
    <3>2. at' = [b \in 0..(GridSize - 1) |-> "start"]
      BY <1>5, <3>1 DEF StartOfKernel, Blocks
    <3>3. e \in Nat /\ GridSize \in Nat \ {0}
      BY <1>1, Problem DEF Experts
    <3>4. e % GridSize \in 0..(GridSize - 1)
      BY <3>3, ModRange
    <3> QED BY <3>2, <3>4
  <2> QED BY <1>2, <1>3, <1>4, <2>1, <2>2, SameProblem, SamePlaces DEF SumsInv
<1>6. CASE UNCHANGED <<stage, at>>
  <2>1. StartsStored' <=> StartsStored
    BY <1>2, <1>6 DEF StartsStored
  <2>2. \A e \in Experts : CountedIn(e)' => CountedIn(e)
    <3>1. Kernel' = Kernel
      BY <1>2, <1>6 DEF Kernel
    <3> QED BY <1>6, <3>1 DEF CountedIn
  <2>3. UNCHANGED <<input, path, expert_cumsum>>
    BY <1>2
  <2>4. SumsInv'
    BY <1>3, <2>1, <2>2, <2>3, SumsStay
  <2> QED BY <1>4, <2>4
<1> QED BY <1>2, <1>5, <1>6

\* The host allocates empty tables.
LEMMA TablesInit == Init => TablesInv /\ OutOK
<1> SUFFICES ASSUME Init PROVE TablesInv /\ OutOK
  OBVIOUS
<1>1. OutOK
  BY DEF Init, FreshOut, OutOK
<1>2. SUFFICES ASSUME path # <<>> PROVE MeshSound /\ SumsInv /\ BuffersFit
  BY <1>1 DEF TablesInv
<1>3. /\ input \in Inputs /\ stage = 1 /\ at = StartOfKernel(1) /\ path \in MpPaths
      /\ mesh = [et \in Experts \X (0..(MeshStride - 1)) |-> 0]
      /\ expert_cumsum = [e \in 0..input.experts |-> 0]
      /\ DOMAIN out.sorted = {} /\ DOMAIN out.expert_ids = {}
  BY <1>2 DEF Init, Workspace, Paths, MpPaths, FreshOut, Nothing
<1>4. MeshSound
  BY <1>3, SortAssumption DEF MeshSound
<1>5. BuffersFit
  BY <1>3 DEF BuffersFit, InBuffers
<1>6. ~StartsStored
  BY <1>3 DEF StartsStored
<1>7. \A e \in Experts : ~CountedIn(e)
  <2>1. Kernel = path[1] /\ 1 \in DOMAIN path
    BY <1>3 DEF Kernel, MpPaths
  <2> SUFFICES ASSUME NEW e \in Experts, path[1] = "P01", at[e % GridSize] = "done"
               PROVE  FALSE
    BY <1>3, <2>1 DEF CountedIn
  <2>2. at = [b \in 0..(GridSize - 1) |-> "start"]
    BY <1>3, <2>1 DEF StartOfKernel, Blocks
  <2>3. e \in Nat /\ GridSize \in Nat \ {0}
    BY <1>3, Problem DEF Experts
  <2>4. e % GridSize \in 0..(GridSize - 1)
    BY <2>3, ModRange
  <2> QED BY <2>2, <2>4
<1>8. SumsInv
  <2>1. MostTokens \in Nat /\ Experts \subseteq 0..input.experts
    <3>1. input.experts \in Nat
      BY <1>3, Problem
    <3> QED BY <1>3, <3>1, MostTokensBound DEF Experts
  <2>2. 0 \in 0..MostTokens
    BY <2>1
  <2> QED BY <1>3, <1>6, <1>7, <2>1, <2>2 DEF SumsInv
<1> QED BY <1>4, <1>5, <1>8

\* The outputs stay the six buffers.
LEMMA OutStep == OutOK /\ [Next]_vars => OutOK'
<1> SUFFICES ASSUME OutOK, [Next]_vars, out' # out PROVE OutOK'
  BY DEF OutOK
<1>1. CASE MpNext
  <2>1. PICK b \in DOMAIN at : P1(b) \/ P2(b) \/ P3(b) \/ P23(b)
    BY <1>1 DEF MpNext, P0, P01Mesh, P01Inc, P01Count, NextKernel
  <2> QED BY <2>1 DEF P1, P2, P3, P23, ClearBuffer, OutOK
<1>2. CASE ExNext
  <2>1. (\E w \in Waves : Count(w) \/ Scan(w) \/ Ids(w) \/ Fill(w) \/ Pad(w)) \/ ClearMoeBuf
    BY <1>2 DEF ExNext, Syncthreads
  <2> QED BY <2>1 DEF Count, Scan, Ids, Fill, Pad, ClearMoeBuf, OutOK
<1> QED BY <1>1, <1>2 DEF Next, Again, Terminated, vars

\* Every step of the multi-phase sort keeps the tables, one case per action.
LEMMA TablesStep == MpInv /\ TablesInv /\ OutOK /\ [Next]_vars => TablesInv'
<1> SUFFICES ASSUME MpInv, TablesInv, OutOK, [Next]_vars PROVE TablesInv'
  OBVIOUS
<1>1. CASE MpNext
  BY <1>1, MeshTables, CountTables, StartTables, ListTables, NextTables DEF MpNext
<1>2. CASE ExNext /\ path = <<>> /\ UNCHANGED mpVars
  BY <1>2 DEF mpVars, TablesInv
<1>3. CASE Again
  BY <1>3, AgainTables
<1>4. CASE UNCHANGED vars
  <2>1. UNCHANGED <<input, out, path, stage, at, mesh, expert_cumsum>>
    BY <1>4 DEF vars, mpVars
  <2>2. Kernel' = Kernel
    BY <2>1 DEF Kernel
  <2> SUFFICES ASSUME path # <<>> PROVE MeshSound' /\ SumsInv' /\ BuffersFit'
    BY <2>1 DEF TablesInv
  <2>3. MeshSound /\ SumsInv /\ BuffersFit
    BY DEF TablesInv
  <2>4. MeshSound' /\ BuffersFit'
    BY <2>1, <2>3, SameProblem, FitStays DEF MeshSound
  <2>5. (StartsStored' <=> StartsStored) /\ \A e \in Experts : CountedIn(e)' => CountedIn(e)
    BY <2>1, <2>2 DEF StartsStored, CountedIn
  <2>6. UNCHANGED <<input, path, expert_cumsum>>
    BY <2>1
  <2>7. SumsInv'
    BY <2>3, <2>5, <2>6, SumsStay
  <2> QED BY <2>4, <2>7
<1> QED BY <1>1, <1>2, <1>3, <1>4 DEF Next, Terminated

\* The tables hold in every reachable state.
LEMMA TablesInvariance == Spec => [](MpInv /\ TablesInv /\ OutOK)
<1>1. Init => MpInv /\ TablesInv /\ OutOK
  BY MpInit, TablesInit
<1>2. MpInv /\ TablesInv /\ OutOK /\ [Next]_vars => (MpInv /\ TablesInv /\ OutOK)'
  BY MpStep, TablesStep, OutStep
<1> QED BY <1>1, <1>2, PTL DEF Spec

(***************************************************************************)
(* One block: its sizes.                                                   *)
(***************************************************************************)
\* The rows of LDS are whole turns of the lane groups, at least one.
LEMMA RowsOfTokens ==
  ASSUME NEW in \in Inputs
  PROVE  /\ SubTokens(in.tokens, in.experts) \in Nat \ {0}
         /\ SubTokens(in.tokens, in.experts) % LaneGroup = 0
<1> DEFINE t == in.tokens
           cols == in.experts + 1
           g == LaneGroup
           occ == IF LdsWords \div 2 < (2 + g) * cols THEN 1 ELSE 2
           words == LdsWords \div occ
           rows == words \div cols - 2
           unrolls == IntegerDivideCeil(Min({rows, t}), g)
           S == {b \in {1, 2, 4, 8} : b <= unrolls}
           highest == Max(S)
           u == unrolls - (unrolls % highest)
<1>1. /\ t \in Nat \ {0} /\ cols \in Nat \ {0} /\ LdsWords \in Nat /\ LdsWords >= (2 + g) * cols
      /\ g \in {1, 2, 4, 8}
  BY InputsAssumption, HostAssumption, RowSizes
<1>2. SubTokens(t, in.experts) = u * g
  BY DEF SubTokens
<1> HIDE DEF t, cols, g
<1>3. words \in Nat /\ words >= (2 + g) * cols
  BY <1>1
<1> HIDE DEF words
<1>4. rows \in Nat \ {0}
  <2> DEFINE q == words \div cols
  <2>1. q \in Nat /\ words < cols * (q + 1)
    <3>1. q \in Nat /\ words % cols \in 0..(cols - 1) /\ words = cols * q + (words % cols)
      BY <1>1, <1>3, DivMod
    <3> DEFINE r == words % cols
    <3>2. r \in 0..(cols - 1) /\ words = cols * q + r
      BY <3>1
    <3> HIDE DEF q, r
    <3>3. cols * (q + 1) = cols * q + cols
      BY <1>1, <3>1
    <3> QED BY <1>1, <1>3, <3>1, <3>2, <3>3
  <2> HIDE DEF q
  <2>2. q >= 2 + g
    <3> SUFFICES ASSUME q + 1 <= 2 + g PROVE FALSE
      BY <1>1, <2>1
    <3>1. (q + 1) * cols <= (2 + g) * cols
      BY <1>1, <2>1, ProductOrder
    <3> QED BY <1>1, <1>3, <2>1, <3>1
  <2>3. q - 2 \in Nat \ {0}
    BY <1>1, <2>1, <2>2
  <2> QED BY <2>3 DEF q
<1> HIDE DEF rows
<1>5. unrolls \in Nat \ {0}
  <2>1. Min({rows, t}) \in Nat \ {0}
    <3>1. \E x \in {rows, t} : \A y \in {rows, t} : x <= y
      BY <1>1, <1>4
    <3>2. Min({rows, t}) \in {rows, t}
      BY <3>1 DEF Min
    <3> QED BY <1>1, <1>4, <3>2
  <2> DEFINE m == Min({rows, t})
  <2> HIDE DEF m
  <2>2. IntegerDivideCeil(m, g) \in Nat /\ m <= IntegerDivideCeil(m, g) * g
    BY <1>1, <2>1, CeilMultiple DEF m
  <2> DEFINE c == IntegerDivideCeil(m, g)
  <2>3. c \in Nat /\ m <= c * g
    BY <2>2
  <2> HIDE DEF c
  <2>4. c # 0
    BY <1>1, <2>1, <2>3 DEF m
  <2> QED BY <2>3, <2>4 DEF c, m
<1> HIDE DEF unrolls
<1>6. highest \in {1, 2, 4, 8} /\ highest <= unrolls
  <2>1. \E x \in S : \A y \in S : x >= y
    BY <1>5
  <2>2. highest \in S
    <3> HIDE DEF S
    <3> QED BY <2>1 DEF Max
  <2> QED BY <2>2
<1> HIDE DEF highest, S
<1>7. u \in Nat \ {0}
  BY <1>5, <1>6
<1> HIDE DEF u
<1>8. u * g \in Nat \ {0} /\ (u * g) % g = 0
  BY <1>1, <1>7
<1> QED BY <1>2, <1>8 DEF t, g

\* Which wave has what.
LEMMA WaveHas ==
  ASSUME NEW x \in Nat
  PROVE  \E w \in Waves : x % BlockThreads \in ThreadsOf(w)
<1> DEFINE r == x % BlockThreads
           w == r \div WarpSize
<1>1. /\ WarpSize \in Nat \ {0} /\ NumWaves \in Nat \ {0} /\ BlockThreads \in Nat \ {0}
      /\ BlockThreads = NumWaves * WarpSize
  BY RowSizes
<1>2. r \in 0..(BlockThreads - 1)
  BY <1>1, ModRange
<1> HIDE DEF r
<1>3. r \in Nat /\ r < WarpSize * NumWaves
  BY <1>1, <1>2
<1>4. w \in Nat /\ w < NumWaves
  BY <1>1, <1>3, DivMod, DivRange
<1>5. r % WarpSize \in 0..(WarpSize - 1) /\ r = WarpSize * w + (r % WarpSize)
  BY <1>1, <1>3, DivMod
<1> DEFINE k == r % WarpSize
<1>6. k \in 0..(WarpSize - 1) /\ r = WarpSize * w + k
  BY <1>5
<1> HIDE DEF w, k
<1>7. r \in (w * WarpSize)..(w * WarpSize + WarpSize - 1)
  <2> DEFINE a == w * WarpSize
  <2>1. r = a + k /\ a \in Nat
    BY <1>1, <1>4, <1>6
  <2> HIDE DEF a
  <2>2. r \in a..(a + WarpSize - 1)
    BY <1>1, <1>6, <2>1
  <2> QED BY <2>2 DEF a
<1>8. w \in Waves
  BY <1>1, <1>4 DEF Waves
<1> QED BY <1>7, <1>8 DEF ThreadsOf, r

\* Every expert is one of some wave's, as a row of a lane group and of a thread.
LEMMA WavesCover ==
  ASSUME input \in Inputs
  PROVE  /\ \A e \in Experts : \E w \in Waves : e \in GroupExpertsOf(w)
         /\ \A e \in Experts : \E w \in Waves : e \in ThreadExpertsOf(w)
<1>1. /\ WarpSize \in Nat \ {0} /\ NumWaves \in Nat \ {0} /\ BlockThreads = NumWaves * WarpSize
      /\ LaneGroup \in {1, 2, 4, 8} /\ WarpSize = 8 * LaneGroup
  BY RowSizes
<1>2. WarpSize \div LaneGroup = 8 /\ GroupsPerBlock = 8 * NumWaves
  <2>1. WarpSize \div LaneGroup = 8
    BY <1>1
  <2>2. BlockThreads = LaneGroup * (8 * NumWaves)
    BY <1>1
  <2>3. BlockThreads \div LaneGroup = 8 * NumWaves
    BY <1>1, <2>2
  <2> QED BY <2>1, <2>3 DEF GroupsPerBlock
<1>3. ASSUME NEW e \in Experts
      PROVE  /\ \E w \in Waves : e \in GroupExpertsOf(w)
             /\ \E w \in Waves : e \in ThreadExpertsOf(w)
  <2>1. e \in Nat
    BY Problem DEF Experts
  <2> DEFINE r == e % GroupsPerBlock
             w == r \div 8
  <2>2. r \in Nat /\ r < 8 * NumWaves
    <3>1. e % GroupsPerBlock \in 0..(GroupsPerBlock - 1) /\ GroupsPerBlock \in Nat
      BY <1>1, <1>2, <2>1, ModRange
    <3> QED BY <1>2, <3>1
  <2> HIDE DEF r
  <2>3. w \in Nat /\ w < NumWaves
    BY <1>1, <2>2, DivMod, DivRange
  <2>4. w \in Waves /\ (e % GroupsPerBlock) \div (WarpSize \div LaneGroup) = w
    BY <1>1, <1>2, <2>3 DEF Waves, r
  <2>5. e \in GroupExpertsOf(w)
    BY <2>4 DEF GroupExpertsOf
  <2>6. \E v \in Waves : e \in ThreadExpertsOf(v)
    BY <2>1, WaveHas DEF ThreadExpertsOf
  <2> QED BY <2>4, <2>5, <2>6
<1> QED BY <1>3

\* k items of f from a on are those of h from b on
Alike(f, a, h, b, k) == \A j \in 0..(k - 1) : f[a + j] = h[b + j] /\ f[a + j] \in Int

\* Running sums of the same items grow alike.
LEMMA RunsAgree ==
  ASSUME NEW n \in Nat, NEW m \in Nat, NEW f, NEW h, NEW P, NEW R, Runs(P, f, n), Runs(R, h, m),
         NEW a \in Nat, NEW b \in Nat, NEW k \in Nat, a + k <= n, b + k <= m,
         Alike(f, a, h, b, k)
  PROVE  \A j \in 0..k : P[a + j] - P[a] = R[b + j] - R[b]
<1> DEFINE S == {j \in Nat : j <= k => P[a + j] - P[a] = R[b + j] - R[b]}
<1>1. \A j \in 0..k : P[a + j] \in Int /\ R[b + j] \in Int
  <2>1. \A j \in 0..k : a + j \in 0..n /\ b + j \in 0..m
    OBVIOUS
  <2> QED BY <2>1 DEF Runs
<1>2. 0 \in S
  <2>1. a + 0 = a /\ b + 0 = b /\ a \in 0..n /\ b \in 0..m
    OBVIOUS
  <2>2. P[a] \in Int /\ R[b] \in Int
    BY <2>1 DEF Runs
  <2> QED BY <2>1, <2>2
<1>3. ASSUME NEW j \in Nat, j \in S PROVE j + 1 \in S
  <2> SUFFICES ASSUME j + 1 <= k PROVE P[a + (j + 1)] - P[a] = R[b + (j + 1)] - R[b]
    OBVIOUS
  <2>1. j \in 0..(k - 1) /\ a + j \in 0..(n - 1) /\ b + j \in 0..(m - 1) /\ j \in 0..k
        /\ a + (j + 1) = (a + j) + 1 /\ b + (j + 1) = (b + j) + 1 /\ 0 \in 0..k
    OBVIOUS
  <2>2. P[(a + j) + 1] = P[a + j] + f[a + j] /\ R[(b + j) + 1] = R[b + j] + h[b + j]
    BY <2>1 DEF Runs
  <2>3. P[a + j] - P[a] = R[b + j] - R[b]
    BY <1>3, <2>1
  <2>4. f[a + j] = h[b + j] /\ f[a + j] \in Int
    BY <2>1 DEF Alike
  <2>5. P[a + j] \in Int /\ R[b + j] \in Int
    BY <1>1, <2>1
  <2>6. P[a] \in Int /\ R[b] \in Int
    <3>1. a \in 0..n /\ b \in 0..m
      OBVIOUS
    <3> QED BY <3>1 DEF Runs
  <2> QED BY <2>1, <2>2, <2>3, <2>4, <2>5, <2>6
<1> HIDE DEF S
<1>4. Nat \subseteq S
  BY <1>2, <1>3, SetInduction
<1> QED BY <1>4 DEF S

\* An expert's lane group: in which turn, at which lanes.
LEMMA LanesOfExpert ==
  ASSUME input \in Inputs, NEW w \in Waves, NEW e \in GroupExpertsOf(w), NEW j \in 0..(LaneGroup - 1)
  PROVE  LET lane0 == ((e % GroupsPerBlock) * LaneGroup) % WarpSize
             turn == e \div GroupsPerBlock
         IN /\ turn \in 0..((input.experts - 1) \div GroupsPerBlock)
            /\ lane0 \in Nat /\ lane0 + j \in Lanes /\ lane0 + LaneGroup <= WarpSize
            /\ ((lane0 + j) \div LaneGroup) * LaneGroup = lane0 /\ (lane0 + j) % LaneGroup = j
            /\ (w * WarpSize + (lane0 + j)) \div LaneGroup + turn * GroupsPerBlock = e
<1> DEFINE G == GroupsPerBlock
           g == LaneGroup
           turn == e \div G
           x == e % G
           lane0 == (x * g) % WarpSize
           k == x % 8
<1>1. /\ WarpSize \in Nat \ {0} /\ NumWaves \in Nat \ {0} /\ BlockThreads = NumWaves * WarpSize
      /\ g \in {1, 2, 4, 8} /\ WarpSize = 8 * g
  BY RowSizes
<1>2. WarpSize \div g = 8 /\ G = 8 * NumWaves
  <2>1. WarpSize \div g = 8
    BY <1>1
  <2>2. BlockThreads = g * (8 * NumWaves)
    BY <1>1
  <2>3. BlockThreads \div g = 8 * NumWaves
    BY <1>1, <2>2
  <2> QED BY <2>1, <2>3 DEF GroupsPerBlock
<1>3. e \in Nat /\ e <= input.experts - 1 /\ input.experts - 1 \in Nat /\ x \div 8 = w /\ w \in Nat
  <2>1. e \in Experts /\ x \div (WarpSize \div g) = w
    BY DEF GroupExpertsOf
  <2>2. input.experts \in Nat \ {0}
    BY Problem
  <2> QED BY <1>2, <2>1, <2>2 DEF Experts, Waves
<1>4. G \in Nat \ {0}
  BY <1>1, <1>2
<1> HIDE DEF G, g
<1>5. turn \in Nat /\ x \in Nat /\ e = G * turn + x
  <2>1. e \div G \in Nat /\ e % G \in 0..(G - 1) /\ e = G * (e \div G) + (e % G)
    BY <1>3, <1>4, DivMod
  <2> QED BY <2>1
<1>6. turn <= (input.experts - 1) \div G
  <2> DEFINE y == input.experts - 1
             d == y \div G
  <2>1. y \in Nat /\ e <= y
    BY <1>3
  <2> HIDE DEF y
  <2>2. d \in Nat /\ y % G \in 0..(G - 1) /\ y = G * d + (y % G)
    BY <1>4, <2>1, DivMod
  <2>3. e < G * (d + 1)
    <3> DEFINE r == y % G
    <3>1. d \in Nat /\ r \in 0..(G - 1) /\ y = G * d + r
      BY <2>2
    <3> HIDE DEF d, r
    <3>2. G * (d + 1) = G * d + G
      BY <1>4, <3>1
    <3> QED BY <1>3, <1>4, <2>1, <3>1, <3>2
  <2> HIDE DEF d
  <2>4. turn < d + 1
    <3>1. d + 1 \in Nat /\ e \in Nat /\ G \in Nat \ {0}
      BY <1>3, <1>4, <2>2
    <3> DEFINE c == d + 1
    <3>2. c \in Nat /\ e < G * c
      BY <2>3, <3>1
    <3> HIDE DEF c
    <3>3. e \div G < c
      BY <3>1, <3>2, DivRange
    <3> QED BY <3>3 DEF c
  <2> HIDE DEF turn
  <2>5. turn <= d
    BY <1>5, <2>2, <2>4
  <2> QED BY <2>5 DEF d, y
<1>7. turn \in 0..((input.experts - 1) \div G)
  <2> DEFINE d == (input.experts - 1) \div G
  <2>1. d \in Nat
    BY <1>3, <1>4, DivMod
  <2> HIDE DEF d, turn
  <2> QED BY <1>5, <1>6, <2>1 DEF d
<1> HIDE DEF turn, x
<1>8. k \in 0..7 /\ x = 8 * w + k
  BY <1>3, <1>5
<1> HIDE DEF k
<1>9. lane0 = k * g
  <2>1. x * g = WarpSize * w + k * g /\ k * g \in 0..(WarpSize - 1)
    <3>1. x * g = WarpSize * w + k * g
      BY <1>1, <1>3, <1>8
    <3>2. k * g \in 0..(WarpSize - 1)
      BY <1>1, <1>8
    <3> QED BY <3>1, <3>2
  <2> DEFINE r == k * g
  <2>2. r \in 0..(WarpSize - 1) /\ x * g = WarpSize * w + r
    BY <2>1
  <2> HIDE DEF r
  <2>3. (WarpSize * w + r) % WarpSize = r
    BY <1>1, <1>3, <2>2, DivModUnique
  <2> QED BY <2>2, <2>3 DEF r
<1> HIDE DEF lane0
<1>10. j \in 0..(g - 1)
  BY DEF g
<1>11. /\ lane0 \in Nat /\ lane0 + j \in 0..(WarpSize - 1) /\ lane0 + g <= WarpSize
       /\ (lane0 + j) \div g = k /\ (lane0 + j) % g = j
  BY <1>1, <1>8, <1>9, <1>10
<1>12. (w * WarpSize + (lane0 + j)) \div g = x
  <2>1. w * WarpSize + (lane0 + j) = g * x + j
    <3>1. g * x = 8 * g * w + k * g
      BY <1>1, <1>3, <1>8
    <3> QED BY <1>1, <1>3, <1>8, <1>9, <1>10, <3>1
  <2>2. (g * x + j) \div g = x
    BY <1>1, <1>5, <1>10, DivModUnique
  <2> QED BY <2>1, <2>2
<1>13. (w * WarpSize + (lane0 + j)) \div g + turn * G = e
  BY <1>4, <1>5, <1>12
<1>14. ((lane0 + j) \div g) * g = lane0
  BY <1>9, <1>11
<1> QED BY <1>7, <1>11, <1>13, <1>14 DEF Lanes, lane0, turn, x, G, g

Rows == 0..(sub_tokens - 1)

\* The rows of an expert that show a token.
ShownIn(e) == [s \in Rows |-> IF smem_tokens[<<s, e>>] # 0 THEN 1 ELSE 0]

\* The lane group of an expert counts its rows, turn by turn.
LEMMA PositionsAre ==
  ASSUME input \in Inputs, sub_tokens \in Nat \ {0}, sub_tokens % LaneGroup = 0,
         NEW w \in Waves, NEW e \in FillExpertsOf(w),
         NEW P, Runs(P, ShownIn(e), sub_tokens), smem_cumsum[e] \in Int
  PROVE  /\ DOMAIN Positions(w) = Rows \X FillExpertsOf(w)
         /\ \A s \in Rows : Positions(w)[<<s, e>>] = smem_cumsum[e] + P[s + 1]
<1> DEFINE n == sub_tokens
           g == LaneGroup
           m == n \div g
           turns == 0..((input.experts - 1) \div GroupsPerBlock)
           rounds == 0..(m - 1)
           expert(turn, l) == (w * WarpSize + l) \div g + turn * GroupsPerBlock
           bit(tr, l) == LET f == expert(tr[1], l)
                             cell == <<(tr[2] * g) + (l % g), f>>
                         IN IF f \in FillExpertsOf(w) /\ smem_tokens[cell] # 0 THEN 1 ELSE 0
           vec(tr) == Held([l \in Lanes |-> bit(tr, l)])
           sums == Held([tr \in turns \X rounds |-> Held(GroupCumsum(vec(tr)))])
           lane0(f) == ((f % GroupsPerBlock) * g) % WarpSize
           sum(f, s) == sums[<<f \div GroupsPerBlock, s \div g>>][lane0(f) + (s % g)]
           before(f, s) == SumFunctionOnSet([r \in rounds |-> sum(f, (r * g) + (g - 1))],
                                            0..(s \div g - 1))
           a == lane0(e)
           q == e \div GroupsPerBlock
           F == ShownIn(e)
<1>1. Positions(w) = [c \in Rows \X FillExpertsOf(w) |->
                        smem_cumsum[c[2]] + before(c[2], c[1]) + sum(c[2], c[1])]
  BY HeldIs DEF Positions, Rows
<1>2. /\ WarpSize \in Nat \ {0} /\ g \in {1, 2, 4, 8} /\ n \in Nat \ {0}
  BY RowSizes
<1>3. m \in Nat /\ n = g * m
  <2>1. n % g = 0
    OBVIOUS
  <2> QED BY <1>2, <2>1, DivMod
<1>4. e \in GroupExpertsOf(w)
  BY DEF FillExpertsOf
<1>5. ASSUME NEW j \in 0..(g - 1)
      PROVE  /\ q \in turns /\ a \in Nat /\ a + j \in Lanes /\ a + g <= WarpSize
             /\ ((a + j) \div g) * g = a /\ (a + j) % g = j /\ expert(q, a + j) = e
  BY <1>4, LanesOfExpert
<1>6. F = [s \in Rows |-> IF smem_tokens[<<s, e>>] # 0 THEN 1 ELSE 0]
  BY DEF ShownIn
<1>7. ASSUME NEW r \in rounds, NEW j \in 0..(g - 1)
      PROVE  /\ r * g \in Nat /\ r * g + j \in Rows /\ (r * g + j) \div g = r
             /\ (r * g + j) % g = j /\ r * g + g <= n /\ r * g + g = (r + 1) * g
             /\ vec(<<q, r>>)[a + j] = F[r * g + j]
  <2>1. /\ r * g \in Nat /\ r * g + g <= n /\ r * g + g = (r + 1) * g
    <3> HIDE DEF n, m
    <3>1. r \in Nat /\ r + 1 <= m
      BY <1>3
    <3>2. (r + 1) * g <= m * g
      BY <1>2, <1>3, <3>1, ProductOrder
    <3> QED BY <1>2, <1>3, <3>1, <3>2
  <2>2. r * g + j \in Rows
    <3> DEFINE x == r * g
    <3>1. x \in Nat /\ x + g <= n
      BY <2>1
    <3> HIDE DEF x
    <3>2. x + j \in 0..(n - 1)
      BY <1>2, <3>1
    <3> QED BY <3>2 DEF Rows, x
  <2>3. (r * g + j) \div g = r /\ (r * g + j) % g = j
    <3>1. r \in Nat /\ g \in Nat \ {0}
      BY <1>2, <1>3
    <3> HIDE DEF g
    <3>2. (g * r + j) \div g = r /\ (g * r + j) % g = j
      BY <3>1, DivModUnique
    <3> QED BY <3>1, <3>2
  <2>4. vec(<<q, r>>)[a + j] = bit(<<q, r>>, a + j)
    <3>1. vec(<<q, r>>) = [l \in Lanes |-> bit(<<q, r>>, l)]
      BY HeldIs
    <3> HIDE DEF vec, bit, a
    <3> QED BY <1>5, <3>1
  <2>5. bit(<<q, r>>, a + j) = IF smem_tokens[<<r * g + j, e>>] # 0 THEN 1 ELSE 0
    <3>1. bit(<<q, r>>, a + j) =
            IF expert(q, a + j) \in FillExpertsOf(w)
               /\ smem_tokens[<<(r * g) + ((a + j) % g), expert(q, a + j)>>] # 0 THEN 1 ELSE 0
      OBVIOUS
    <3> HIDE DEF bit, expert, a, q
    <3> QED BY <1>5, <3>1
  <2> QED BY <1>6, <2>1, <2>2, <2>3, <2>4, <2>5
<1>8. ASSUME NEW r \in rounds
      PROVE  \A j \in 0..(g - 1) : sums[<<q, r>>][a + j] = P[r * g + j + 1] - P[r * g]
  <2> DEFINE V == vec(<<q, r>>)
             b == r * g
  <2>1. 0 \in 0..(g - 1)
    BY <1>2
  <2>2. q \in turns /\ a \in Nat /\ a + g <= WarpSize
    BY <1>5, <2>1
  <2>3. b \in Nat /\ b + g <= n
    BY <1>7, <2>1
  <2>4. \A j \in 0..(g - 1) : V[a + j] = F[b + j] /\ F[b + j] \in Int
    <3> SUFFICES ASSUME NEW j \in 0..(g - 1) PROVE V[a + j] = F[b + j] /\ F[b + j] \in Int
      OBVIOUS
    <3>1. V[a + j] = F[b + j] /\ b + j \in Rows
      BY <1>7
    <3> HIDE DEF V, b
    <3> QED BY <1>6, <3>1
  <2>5. V = [l \in Lanes |-> V[l]] /\ \A l \in Lanes : V[l] \in Int
    <3>1. V = [l \in Lanes |-> bit(<<q, r>>, l)]
      BY HeldIs
    <3>2. \A l \in Lanes : bit(<<q, r>>, l) \in Int
      OBVIOUS
    <3> HIDE DEF V, bit
    <3> QED BY <3>1, <3>2
  <2>6. sums[<<q, r>>] = GroupCumsum(V)
    <3> HIDE DEF vec
    <3>1. sums = [tr \in turns \X rounds |-> Held(GroupCumsum(vec(tr)))]
      BY HeldIs
    <3>2. <<q, r>> \in turns \X rounds
      BY <2>2
    <3> HIDE DEF sums, turns, rounds
    <3>3. sums[<<q, r>>] = Held(GroupCumsum(vec(<<q, r>>)))
      BY <3>1, <3>2
    <3> QED BY <3>3, HeldIs
  <2> HIDE DEF V, b, sums, F, vec, bit, expert
  <2>7. PICK R : Runs(R, V, WarpSize)
    <3>1. \A l \in 0..(WarpSize - 1) : V[l] \in Int
      BY <2>5 DEF Lanes
    <3>2. WarpSize \in Nat
      BY <1>2
    <3> QED BY <3>1, <3>2, RunsExist
  <2>8. GroupCumsum(V) = [l \in Lanes |-> R[l + 1] - R[(l \div g) * g]]
    BY <2>5, <2>7, WavePrefix
  <2>9. \A k \in 0..g : R[a + k] - R[a] = P[b + k] - P[b]
    <3>1. WarpSize \in Nat /\ n \in Nat /\ g \in Nat
      BY <1>2
    <3>2. Runs(P, F, n)
      BY DEF F
    <3> HIDE DEF a, g, n
    <3>3. Alike(V, a, F, b, g)
      BY <2>4 DEF Alike
    <3>4. /\ WarpSize \in Nat /\ n \in Nat /\ g \in Nat /\ a \in Nat /\ b \in Nat
          /\ Runs(R, V, WarpSize) /\ Runs(P, F, n) /\ a + g <= WarpSize /\ b + g <= n
      BY <2>2, <2>3, <2>7, <3>1, <3>2
    <3> QED BY <3>3, <3>4, RunsAgree
  <2> SUFFICES ASSUME NEW j \in 0..(g - 1) PROVE sums[<<q, r>>][a + j] = P[b + j + 1] - P[b]
    BY DEF b
  <2>10. a + j \in Lanes /\ ((a + j) \div g) * g = a
    BY <1>5
  <2>11. sums[<<q, r>>][a + j] = R[(a + j) + 1] - R[a]
    <3> HIDE DEF a, q, g
    <3> QED BY <2>6, <2>8, <2>10
  <2>12. j + 1 \in 0..g /\ (a + j) + 1 = a + (j + 1) /\ b + j + 1 = b + (j + 1)
    <3>1. j \in Nat /\ j + 1 <= g
      BY <1>2
    <3> HIDE DEF a, g
    <3> QED BY <2>2, <2>3, <3>1
  <2>13. R[a + (j + 1)] - R[a] = P[b + (j + 1)] - P[b]
    BY <2>9, <2>12
  <2> HIDE DEF a, q, g
  <2> QED BY <2>11, <2>12, <2>13
<1> HIDE DEF sums, F, vec, bit, expert, turns, a, q, m
<1>9. \A r \in rounds : sum(e, (r * g) + (g - 1)) = P[(r + 1) * g] - P[r * g]
  <2> SUFFICES ASSUME NEW r \in rounds
               PROVE  sum(e, (r * g) + (g - 1)) = P[(r + 1) * g] - P[r * g]
    OBVIOUS
  <2> DEFINE j == g - 1
             x == r * g
  <2>1. j \in 0..(g - 1) /\ x + j + 1 = x + g /\ x \in Nat
    <3>1. j \in 0..(g - 1) /\ g \in Nat
      BY <1>2
    <3>2. x \in Nat
      BY <1>7, <3>1
    <3> HIDE DEF x, g
    <3> QED BY <3>1, <3>2
  <2>2. (x + j) \div g = r /\ (x + j) % g = j /\ x + g = (r + 1) * g
    BY <1>7, <2>1
  <2>3. sum(e, x + j) = sums[<<q, r>>][a + j]
    <3>1. sum(e, x + j) = sums[<<e \div GroupsPerBlock, (x + j) \div g>>][lane0(e) + ((x + j) % g)]
      OBVIOUS
    <3> HIDE DEF x, j, g
    <3> QED BY <2>2, <3>1 DEF a, q
  <2>4. sums[<<q, r>>][a + j] = P[x + j + 1] - P[x]
    BY <1>8, <2>1
  <2> HIDE DEF j
  <2>5. sum(e, x + j) = P[(r + 1) * g] - P[x]
    BY <2>1, <2>2, <2>3, <2>4
  <2> QED BY <2>5 DEF x, j
<1>10. ASSUME NEW s \in Rows
       PROVE  /\ s \div g \in rounds /\ s % g \in 0..(g - 1) /\ s = (s \div g) * g + (s % g)
              /\ sum(e, s) = P[s + 1] - P[(s \div g) * g]
  <2>1. s \in Nat /\ s < g * m /\ g \in Nat \ {0}
    BY <1>2, <1>3 DEF Rows
  <2> DEFINE r == s \div g
             j == s % g
  <2>2. r \in Nat /\ j \in 0..(g - 1) /\ s = g * r + j /\ r < m
    <3> HIDE DEF g
    <3> QED BY <1>3, <2>1, DivMod, DivRange
  <2> HIDE DEF r, j
  <2>3. r \in rounds /\ s = r * g + j
    <3> HIDE DEF g
    <3> QED BY <1>3, <2>1, <2>2
  <2>4. sums[<<q, r>>][a + j] = P[r * g + j + 1] - P[r * g]
    BY <1>8, <2>2, <2>3
  <2>5. sum(e, s) = sums[<<q, r>>][a + j]
    BY DEF a, q, r, j
  <2> HIDE DEF sum
  <2>6. sum(e, s) = P[s + 1] - P[r * g]
    <3>1. P[r * g + j + 1] = P[s + 1]
      BY <2>3
    <3> QED BY <2>4, <2>5, <3>1
  <2> QED BY <2>2, <2>3, <2>6 DEF r, j
<1>11. \A r \in 0..m : r * g \in 0..n /\ P[r * g] \in Int
  <2> SUFFICES ASSUME NEW r \in 0..m PROVE r * g \in 0..n /\ P[r * g] \in Int
    OBVIOUS
  <2>1. r * g <= m * g /\ r * g \in Nat
    <3> HIDE DEF n
    <3> QED BY <1>2, <1>3, ProductOrder
  <2>2. r * g \in 0..n
    <3> DEFINE x == r * g
    <3>1. x \in Nat /\ x <= n /\ n \in Nat
      BY <1>2, <1>3, <2>1
    <3> HIDE DEF x, n
    <3> QED BY <3>1 DEF x
  <2> QED BY <2>2 DEF Runs
<1>12. ASSUME NEW s \in Rows PROVE before(e, s) = P[(s \div g) * g]
  <2> DEFINE k == s \div g
             f == [r \in rounds |-> sum(e, (r * g) + (g - 1))]
             Q == [r \in 0..k |-> P[r * g]]
  <2>1. k \in rounds
    BY <1>10
  <2>2. k \in Nat /\ 0..(k - 1) \subseteq rounds /\ 0..k \subseteq 0..m
    <3> HIDE DEF k
    <3> QED BY <1>3, <2>1
  <2>3. \A r \in 0..(k - 1) : f[r] = P[(r + 1) * g] - P[r * g]
    <3> HIDE DEF sum, k
    <3> QED BY <1>9, <2>2
  <2> HIDE DEF f, k
  <2>4. \A r \in 0..k : Q[r] = P[r * g] /\ P[r * g] \in Int
    BY <1>11, <2>2
  <2>5. Q[0] = 0
    <3>1. 0 \in 0..k /\ 0 * g = 0
      BY <1>2, <2>2
    <3>2. P[0] = 0
      BY DEF Runs
    <3> QED BY <2>4, <3>1, <3>2
  <2>6. Q \in [0..k -> Int]
    BY <2>4
  <2> HIDE DEF Q
  <2>7. \A r \in 0..(k - 1) : Q[r + 1] = Q[r] + f[r] /\ f[r] \in Int
    <3> SUFFICES ASSUME NEW r \in 0..(k - 1) PROVE Q[r + 1] = Q[r] + f[r] /\ f[r] \in Int
      OBVIOUS
    <3>1. r \in 0..k /\ r + 1 \in 0..k
      BY <2>2
    <3> DEFINE c == P[(r + 1) * g]
               d == P[r * g]
    <3>2. Q[r] = d /\ Q[r + 1] = c /\ c \in Int /\ d \in Int /\ f[r] = c - d
      BY <2>3, <2>4, <3>1
    <3> HIDE DEF c, d
    <3> QED BY <3>2
  <2>8. Runs(Q, f, k)
    BY <2>5, <2>6, <2>7 DEF Runs
  <2>9. SumFunctionOnSet(f, 0..(k - 1)) = Q[k]
    BY <2>2, <2>7, <2>8, SumIs
  <2>10. Q[k] = P[k * g]
    <3>1. k \in 0..k
      BY <2>2
    <3> QED BY <2>4, <3>1
  <2>11. before(e, s) = SumFunctionOnSet(f, 0..(k - 1))
    BY DEF f, k
  <2> HIDE DEF before
  <2> QED BY <2>9, <2>10, <2>11 DEF k
<1>13. \A s \in Rows : Positions(w)[<<s, e>>] = smem_cumsum[e] + P[s + 1]
  <2> SUFFICES ASSUME NEW s \in Rows PROVE Positions(w)[<<s, e>>] = smem_cumsum[e] + P[s + 1]
    OBVIOUS
  <2>1. Positions(w)[<<s, e>>] = smem_cumsum[e] + before(e, s) + sum(e, s)
    <3> HIDE DEF before, sum
    <3> QED BY <1>1
  <2> HIDE DEF before, sum
  <2> DEFINE x == P[(s \div g) * g]
             y == P[s + 1]
  <2>2. before(e, s) = x /\ sum(e, s) = y - x
    BY <1>10, <1>12
  <2>3. x \in Int /\ y \in Int
    <3>1. s \div g \in 0..m
      <4>1. s \div g \in rounds
        BY <1>10
      <4> QED BY <1>3, <4>1
    <3>2. s + 1 \in 0..n
      BY <1>2 DEF Rows
    <3> QED BY <1>11, <3>1, <3>2 DEF Runs
  <2> HIDE DEF x, y
  <2>4. smem_cumsum[e] + x + (y - x) = smem_cumsum[e] + y
    BY <2>3
  <2> QED BY <2>1, <2>2, <2>4 DEF y
<1>14. DOMAIN Positions(w) = Rows \X FillExpertsOf(w)
  <2> HIDE DEF before, sum
  <2> QED BY <1>1
<1> QED BY <1>13, <1>14

(***************************************************************************)
(* What the rows of a round tell.                                          *)
(***************************************************************************)
\* Rows that show tokens only show as many as there are.
LEMMA ShownFew ==
  ASSUME input \in Inputs, sub_tokens \in Nat, NEW e, NEW first \in Nat,
         \A s \in Rows : smem_tokens[<<s, e>>] # 0 => Names(first + s, e),
         NEW P, Runs(P, ShownIn(e), sub_tokens)
  PROVE  /\ \A k \in 0..sub_tokens : P[k] \in 0..(Named(e, first + k) - Named(e, first))
         /\ \A s \in Rows : smem_tokens[<<s, e>>] # 0 => P[s + 1] > 0
<1> DEFINE N(k) == Named(e, first + k)
           S == {k \in Nat : k <= sub_tokens => P[k] \in 0..(N(k) - N(0))}
<1>1. ASSUME NEW k \in Nat
      PROVE  N(k) \in Nat /\ N(k + 1) = N(k) + IF Names(first + k, e) THEN 1 ELSE 0
  <2>1. first + k \in Nat /\ first + (k + 1) = (first + k) + 1
    OBVIOUS
  <2> QED BY <2>1, NamedStep
<1>2. N(0) = Named(e, first)
  <2>1. first + 0 = first
    OBVIOUS
  <2> QED BY <2>1
<1> HIDE DEF N
<1>3. ASSUME NEW s \in Rows
      PROVE  /\ s \in Nat /\ s + 1 <= sub_tokens
             /\ P[s + 1] = P[s] + IF smem_tokens[<<s, e>>] # 0 THEN 1 ELSE 0
  BY DEF Rows, Runs, ShownIn
<1>4. 0 \in S
  <2>1. P[0] = 0 /\ N(0) \in Nat
    BY <1>1 DEF Runs
  <2> QED BY <2>1
<1>5. ASSUME NEW k \in Nat, k \in S PROVE k + 1 \in S
  <2> SUFFICES ASSUME k + 1 <= sub_tokens PROVE P[k + 1] \in 0..(N(k + 1) - N(0))
    OBVIOUS
  <2>1. k \in Rows /\ P[k] \in 0..(N(k) - N(0))
    BY <1>5 DEF Rows
  <2>2. P[k + 1] = P[k] + IF smem_tokens[<<k, e>>] # 0 THEN 1 ELSE 0
    BY <1>3, <2>1
  <2>3. smem_tokens[<<k, e>>] # 0 => Names(first + k, e)
    BY <2>1
  <2>4. /\ N(k) \in Nat /\ N(0) \in Nat
        /\ N(k + 1) = N(k) + IF Names(first + k, e) THEN 1 ELSE 0
    BY <1>1
  <2> QED BY <2>1, <2>2, <2>3, <2>4
<1>6. \A k \in 0..sub_tokens : P[k] \in 0..(N(k) - N(0))
  <2> HIDE DEF S
  <2>1. Nat \subseteq S
    BY <1>4, <1>5, SetInduction
  <2> QED BY <2>1 DEF S
<1>7. ASSUME NEW s \in Rows, smem_tokens[<<s, e>>] # 0 PROVE P[s + 1] > 0
  <2>1. s \in 0..sub_tokens /\ P[s + 1] = P[s] + 1
    BY <1>3, <1>7
  <2>2. P[s] \in 0..(N(s) - N(0)) /\ N(s) \in Nat /\ N(0) \in Nat
    BY <1>1, <1>3, <1>6, <2>1
  <2> QED BY <2>1, <2>2
<1> QED BY <1>2, <1>6, <1>7 DEF N

\* h is f, with one more on A.
OneMore(h, f, A, n) ==
  /\ A \subseteq 0..(n - 1)
  /\ \A i \in 0..(n - 1) : f[i] \in Int /\ h[i] = f[i] + IF i \in A THEN 1 ELSE 0

\* One more for each member of a set.
LEMMA SumWithOnes ==
  ASSUME NEW n \in Nat, NEW f, NEW A, NEW h, OneMore(h, f, A, n)
  PROVE  /\ SumFunctionOnSet(h, 0..(n - 1)) = SumFunctionOnSet(f, 0..(n - 1)) + Cardinality(A)
         /\ SumFunctionOnSet(f, 0..(n - 1)) \in Int
<1>0. A \subseteq 0..(n - 1) /\ \A i \in 0..(n - 1) : f[i] \in Int
      /\ h[i] = f[i] + IF i \in A THEN 1 ELSE 0
  BY DEF OneMore
<1> DEFINE T(k) == A \intersect 0..(k - 1)
           C(k) == Cardinality(T(k))
<1>1. PICK P : Runs(P, f, n)
  BY <1>0, RunsExist
<1> DEFINE Q == [k \in 0..n |-> P[k] + C(k)]
<1>2. ASSUME NEW k \in Nat
      PROVE  C(k) \in Nat /\ C(k + 1) = C(k) + IF k \in A THEN 1 ELSE 0
  <2>1. IsFiniteSet(T(k)) /\ C(k) \in Nat
    <3>1. T(k) \in SUBSET (0..(k - 1)) /\ IsFiniteSet(0..(k - 1))
      BY FS_Interval
    <3> HIDE DEF T
    <3> QED BY <3>1, FS_Subset, FS_CardinalityType
  <2>2. T(k + 1) = IF k \in A THEN T(k) \union {k} ELSE T(k)
    OBVIOUS
  <2>3. k \notin T(k)
    OBVIOUS
  <2>4. k \in A => T(k + 1) = T(k) \union {k}
    BY <2>2
  <2>5. k \notin A => T(k + 1) = T(k)
    BY <2>2
  <2> HIDE DEF T
  <2>6. k \in A => C(k + 1) = C(k) + 1
    <3>1. Cardinality(T(k) \union {k}) = Cardinality(T(k)) + 1
      BY <2>1, <2>3, FS_AddElement
    <3> QED BY <2>4, <3>1
  <2>7. k \notin A => C(k + 1) = C(k)
    BY <2>5
  <2> HIDE DEF C
  <2> QED BY <2>1, <2>6, <2>7
<1>3. C(0) = 0
  <2>1. T(0) = {}
    OBVIOUS
  <2> HIDE DEF T
  <2> QED BY <2>1, FS_EmptySet
<1>4. T(n) = A
  BY <1>0
<1> HIDE DEF T
<1>5. C(n) = Cardinality(A)
  BY <1>4
<1> HIDE DEF C
<1>6. \A k \in 0..n : P[k] \in Int /\ Q[k] = P[k] + C(k)
  BY <1>1 DEF Runs
<1>7. Runs(Q, h, n)
  <2>1. Q[0] = 0
    BY <1>1, <1>3 DEF Runs
  <2>2. Q \in [0..n -> Int]
    BY <1>2, <1>6
  <2> HIDE DEF Q
  <2>3. ASSUME NEW i \in 0..(n - 1) PROVE Q[i + 1] = Q[i] + h[i]
    <3>1. i \in Nat /\ i \in 0..n /\ i + 1 \in 0..n
      OBVIOUS
    <3>2. P[i + 1] = P[i] + f[i] /\ h[i] = f[i] + IF i \in A THEN 1 ELSE 0
      BY <1>0, <1>1 DEF Runs
    <3>3. C(i + 1) = C(i) + (IF i \in A THEN 1 ELSE 0) /\ C(i) \in Nat
      BY <1>2, <3>1
    <3>4. f[i] \in Int
      BY <1>0
    <3> QED BY <1>6, <3>1, <3>2, <3>3, <3>4
  <2> QED BY <2>1, <2>2, <2>3 DEF Runs
<1>8. n \in 0..n
  OBVIOUS
<1>9. SumFunctionOnSet(f, 0..(n - 1)) = P[n]
  BY <1>0, <1>1, SumIs
<1>10. SumFunctionOnSet(h, 0..(n - 1)) = Q[n]
  <2>1. \A i \in 0..(n - 1) : h[i] \in Int
    BY <1>0
  <2> HIDE DEF Q
  <2> QED BY <1>7, <2>1, SumIs
<1> QED BY <1>5, <1>6, <1>8, <1>9, <1>10

\* Nothing sums up to nothing.
LEMMA SumOfZeros ==
  ASSUME NEW n \in Nat, NEW f, \A i \in 0..(n - 1) : f[i] = 0
  PROVE  SumFunctionOnSet(f, 0..(n - 1)) = 0
<1> DEFINE P == [k \in 0..n |-> 0]
<1>1. Runs(P, f, n)
  BY DEF Runs
<1>2. P[n] = 0
  OBVIOUS
<1> HIDE DEF P
<1> QED BY <1>1, <1>2, SumIs

\* In one round an expert has as many tokens as rows show it.
LEMMA ShownAll ==
  ASSUME input \in Inputs, sub_tokens \in Nat, SubTokenOneShot, NEW e,
         \A s \in Rows : smem_tokens[<<s, e>>] # 0 <=> Names(s, e)
  PROVE  CountIn(e) = TokensOf(e)
<1> DEFINE n == sub_tokens
           A == {s \in Rows : Names(s, e)}
           z == [s \in Rows |-> 0]
           local_c(s) == IF SubTokenOneShot /\ smem_tokens[<<s, e>>] # 0 THEN 1
                         ELSE smem_tokens[<<s, e>>]
           h == [s \in Rows |-> local_c(s)]
<1>1. CountIn(e) = SumFunctionOnSet(h, 0..(n - 1))
  BY DEF CountIn, Rows
<1>2. \A s \in 0..(n - 1) : z[s] = 0 /\ h[s] = z[s] + IF s \in A THEN 1 ELSE 0
  <2> SUFFICES ASSUME NEW s \in 0..(n - 1)
               PROVE  z[s] = 0 /\ h[s] = z[s] + IF s \in A THEN 1 ELSE 0
    OBVIOUS
  <2>1. s \in Rows
    BY DEF Rows
  <2>2. h[s] = local_c(s) /\ z[s] = 0
    BY <2>1
  <2>3. local_c(s) = IF s \in A THEN 1 ELSE 0
    BY <2>1
  <2> HIDE DEF h, z, local_c, A
  <2> QED BY <2>2, <2>3
<1>3. A \subseteq 0..(n - 1)
  BY DEF Rows
<1>4. Cardinality(A) = TokensOf(e)
  <2>1. A = {i \in 0..(n - 1) : Names(0 + i, e)}
    BY DEF Rows
  <2>2. Cardinality({i \in 0..(n - 1) : Names(0 + i, e)}) = Named(e, 0 + n) - Named(e, 0)
    BY NamedFrom
  <2>3. n \in Nat /\ 0 + n = n /\ n <= n /\ n >= input.tokens
    BY DEF SubTokenOneShot
  <2> HIDE DEF A, n
  <2>4. Named(e, n) = TokensOf(e) /\ Named(e, 0) = 0 /\ Named(e, n) \in Nat
    BY <2>3, NamedUpTo, NamedStep
  <2>5. Named(e, 0 + n) = Named(e, n)
    BY <2>3
  <2> QED BY <2>1, <2>2, <2>4, <2>5
<1>5. OneMore(h, z, A, n)
  <2> HIDE DEF A, h, z
  <2> QED BY <1>2, <1>3 DEF OneMore
<1>6. n \in Nat
  OBVIOUS
<1> HIDE DEF A, h, z, n
<1>7. SumFunctionOnSet(z, 0..(n - 1)) = 0
  BY <1>2, <1>6, SumOfZeros
<1>8. SumFunctionOnSet(h, 0..(n - 1)) = SumFunctionOnSet(z, 0..(n - 1)) + Cardinality(A)
  BY <1>5, <1>6, SumWithOnes
<1>9. TokensOf(e) \in Nat
  BY Problem, NamedStep DEF TokensOf
<1> QED BY <1>1, <1>4, <1>7, <1>8, <1>9

(***************************************************************************)
(* One block: what LDS holds while its waves go through the pieces.        *)
(***************************************************************************)
\* where the list of expert x starts, and the last one ends
StartAt(x) == UnitSize * UnitStart[x]

\* a thread of wave v reads the k-th topk_id of a row
Reads(v, s, k) == (s * Topk + k) % BlockThreads \in ThreadsOf(v)

\* a wave that waits has read that row s of its round names e
Loaded(w, s, e) ==
  /\ i_token[w] + s \in Tokens
  /\ \E k \in TopkIds : /\ input.ids[i_token[w] + s][k] = e
                        /\ \E v \in Waves : waiting[v] /\ Reads(v, s, k)

\* the tokens that wave w has listed
ListedBy(w) ==
  IF pc[w] \in {"pad", "done"} THEN input.tokens
  ELSE IF pc[w] = "fill" /\ waiting[w] THEN i_token[w] + sub_tokens ELSE i_token[w]

InRounds == {"load", "clear2", "load2", "fill"}
AfterScan == {"ids", "clear2", "load2", "fill", "pad", "done"}

BlockOK ==
  /\ sub_tokens \in Nat \ {0} /\ sub_tokens % LaneGroup = 0
  /\ DOMAIN smem_tokens = Rows \X Experts /\ DOMAIN smem_cumdup = 0..input.experts
  /\ \A w \in Waves : i_token[w] \in Tokens
  /\ \A w \in Waves : SubTokenOneShot \/ pc[w] \notin InRounds => i_token[w] = 0

\* cells that are cleared
CellsCleared(w) ==
  pc[w] \in {"clear", "clear2"} /\ waiting[w] => \A c \in CellsOf(w) : smem_tokens[c] = 0

\* cells show only tokens of the round
CellsSound(w) ==
  pc[w] \in {"load2", "fill"} \/ (SubTokenOneShot /\ pc[w] \in {"load", "count", "scan", "ids"}) =>
    \A s \in Rows, e \in Experts : smem_tokens[<<s, e>>] # 0 => Names(i_token[w] + s, e)

\* while tokens are counted, none that is read is forgotten or counted twice
CellsCount(w) ==
  pc[w] = "load" => \A e \in Experts :
    IF SubTokenOneShot
    THEN \A s \in Rows : Loaded(w, s, e) => smem_tokens[<<s, e>>] # 0
    ELSE /\ \A s \in Rows : smem_tokens[<<s, e>>] \in Int
         /\ SumFunctionOnSet([s \in Rows |-> smem_tokens[<<s, e>>]], Rows)
              = Named(e, i_token[w]) + Cardinality({s \in Rows : Loaded(w, s, e)})

AllCountedIn(w) == pc[w] = "count" => \A e \in Experts : CountIn(e) = TokensOf(e)

CellsInv(w) == CellsCleared(w) /\ CellsSound(w) /\ CellsCount(w) /\ AllCountedIn(w)

\* what a wave has stored when it has counted
CountStored(w) ==
  /\ w = 0 => smem_cumsum[0] = 0
  /\ \A e \in GroupExpertsOf(w) : smem_cumsum[e + 1] = TokensOf(e)
  /\ input.masking => \A e \in ThreadExpertsOf(w) : smem_cumdup[e + 1] = input.mask[e]

\* the first wave replaces it by the starts, which fill moves on, once they
\* are kept
StartsMoved(w) ==
  pc[w] \in AfterScan =>
    /\ smem_cumsum[input.experts] = StartAt(input.experts)
    /\ \A e \in GroupExpertsOf(w) :
         smem_cumsum[e] \in
           StartAt(e)..(StartAt(e) + IF Enabled(e) THEN Named(e, ListedBy(w)) ELSE 0)
StartsKept(w) ==
  pc[w] \in AfterScan \ {"ids"} =>
    \A x \in ThreadExpertsOf(w) \union {input.experts} : smem_cumdup[x] \in 0..StartAt(input.experts)

StartsInv(w) ==
  /\ pc[w] = "count" /\ waiting[w] => CountStored(w)
  /\ pc[w] = "scan" /\ ~waiting[0] => CountStored(w)
  /\ pc[w] = "scan" /\ waiting[0] => \A x \in 0..input.experts : smem_cumsum[x] = StartAt(x)
  /\ StartsMoved(w) /\ StartsKept(w)

BlockSound == BlockOK /\ (\A w \in Waves : CellsInv(w) /\ StartsInv(w)) /\ InBuffers
BlockInv == path = <<>> => BlockSound

\* No two waves have a thread in common.
LEMMA ThreadsApart ==
  ASSUME NEW v \in Waves, NEW w \in Waves, NEW x, x \in ThreadsOf(v), x \in ThreadsOf(w)
  PROVE  v = w
<1> DEFINE W == WarpSize
<1>1. v \in Nat /\ w \in Nat /\ W \in Nat \ {0}
  BY RowSizes DEF Waves
<1>2. x \in (v * W)..(v * W + W - 1) /\ x \in (w * W)..(w * W + W - 1)
  BY DEF ThreadsOf
<1> HIDE DEF W
<1>3. ASSUME NEW a \in Nat, NEW b \in Nat, a + 1 <= b, x \in (a * W)..(a * W + W - 1),
             x \in (b * W)..(b * W + W - 1)
      PROVE  FALSE
  <2>1. (a + 1) * W <= b * W /\ (a + 1) * W = a * W + W
    BY <1>1, <1>3, ProductOrder
  <2> DEFINE p == a * W
             q == b * W
  <2>2. p \in Nat /\ q \in Nat /\ p + W <= q /\ x \in p..(p + W - 1) /\ x \in q..(q + W - 1)
    BY <1>1, <1>3, <2>1
  <2> HIDE DEF p, q
  <2> QED BY <1>1, <2>2
<1>4. v = w \/ v + 1 <= w \/ w + 1 <= v
  BY <1>1
<1> QED BY <1>1, <1>2, <1>3, <1>4

\* What depends on the problem and the number of rows only.
LEMMA SameBlock ==
  ASSUME UNCHANGED <<input, sub_tokens>>
  PROVE  /\ Rows' = Rows /\ SubTokenOneShot' = SubTokenOneShot
         /\ \A x : StartAt(x)' = StartAt(x)
         /\ \A w : GroupExpertsOf(w)' = GroupExpertsOf(w)
               /\ ThreadExpertsOf(w)' = ThreadExpertsOf(w)
<1>1. UnitStart' = UnitStart /\ Experts' = Experts
  BY SameProblem
<1> QED BY <1>1 DEF Rows, SubTokenOneShot, StartAt, GroupExpertsOf, ThreadExpertsOf

\* All waves are at the same piece, unless it is one of those without a
\* barrier.
LEMMA SamePiece ==
  ASSUME WavesInv, NEW v \in Waves, NEW w \in Waves
  PROVE  /\ i_token[v] = i_token[w] /\ pc[v] \in Pieces
         /\ pc[w] \in {"clear", "load", "count", "scan", "load2"} => pc[v] = pc[w]
         /\ pc[w] \in {"ids", "clear2", "fill"} => pc[v] \in {"ids", "clear2", "fill"}
         /\ pc[w] \in {"pad", "done"} => pc[v] \in {"pad", "done"}
         /\ SubTokenOneShot /\ pc[w] = "clear2" => pc[v] = "clear2"
         /\ ~SubTokenOneShot /\ pc[w] = "fill" => pc[v] = "fill"
<1>1. Adjacent(pc[v], pc[w]) /\ i_token[v] = i_token[w] /\ pc[v] \in Pieces
  BY DEF WavesInv
<1>2. PieceAfterIds = IF SubTokenOneShot THEN "fill" ELSE "clear2"
  BY DEF PieceAfterIds
<1> QED BY <1>1, <1>2 DEF Adjacent

\* A wave arrives at a barrier, and has not touched the starts.
LEMMA ArriveStarts ==
  ASSUME WavesInv, NEW w \in Waves, Arrive(w), pc[w] \notin {"count", "scan", "fill"},
         UNCHANGED <<input, sub_tokens, smem_cumsum, smem_cumdup>>,
         NEW u \in Waves, StartsInv(u)
  PROVE  StartsInv(u)'
<1>1. UNCHANGED <<pc, i_token>> /\ \A v \in Waves : v # w => waiting'[v] = waiting[v]
  BY DEF Arrive, WavesInv
<1>2. pc[u] = "count" \/ pc[u] = "scan" => pc[w] = pc[u]
  BY SamePiece
<1>3. ListedBy(u)' = ListedBy(u)
  <2>1. pc[u] = "fill" => u # w
    OBVIOUS
  <2> QED BY <1>1, <2>1 DEF ListedBy
<1>4. pc[u] \notin {"count", "scan"}
  BY <1>2
<1> QED BY <1>1, <1>3, <1>4, SameBlock, SameProblem DEF StartsInv, StartsMoved, StartsKept

\* A wave arrives at a barrier: what the block is made of stays.
LEMMA ArriveOK ==
  ASSUME BlockOK, NEW w \in Waves, Arrive(w), UNCHANGED <<input, sub_tokens>>,
         DOMAIN smem_tokens' = DOMAIN smem_tokens, DOMAIN smem_cumdup' = DOMAIN smem_cumdup
  PROVE  BlockOK'
<1>1. UNCHANGED <<pc, i_token>>
  BY DEF Arrive
<1> QED BY <1>1, SameBlock, SameProblem DEF BlockOK

\* Cells are cleared.
LEMMA ClearKeeps ==
  ASSUME WavesInv, BlockSound, NEW w \in Waves, NEW point \in {"clear", "clear2"},
         Clear(w, point), UNCHANGED <<input, sub_tokens, out>>
  PROVE  BlockSound'
<1>1. /\ pc[w] = point /\ ~waiting[w] /\ Arrive(w) /\ UNCHANGED <<smem_cumsum, smem_cumdup>>
      /\ smem_tokens' = [c \in DOMAIN smem_tokens |-> IF c \in CellsOf(w) THEN 0 ELSE smem_tokens[c]]
  BY DEF Clear, At, UpdatedAt
<1>2. UNCHANGED <<pc, i_token>> /\ \A v \in Waves : v # w => waiting'[v] = waiting[v]
  BY <1>1 DEF Arrive, WavesInv
<1>3. BlockOK'
  BY <1>1, ArriveOK DEF BlockSound
<1>4. InBuffers'
  BY BuffersStay DEF BlockSound
<1>5. \A u \in Waves : StartsInv(u)'
  BY <1>1, ArriveStarts DEF BlockSound
<1>6. ASSUME NEW u \in Waves PROVE CellsInv(u)'
  <2>1. CellsInv(u)
    BY DEF BlockSound
  <2>2. pc[u] \notin {"load", "count"}
    BY <1>1, SamePiece
  <2>3. CellsCleared(u)'
    <3>1. CellsOf(u)' = CellsOf(u) /\ CellsOf(u) \subseteq DOMAIN smem_tokens
      BY <1>1 DEF CellsOf
    <3> SUFFICES ASSUME pc[u] \in {"clear", "clear2"}, waiting'[u], NEW c \in CellsOf(u)
                 PROVE  smem_tokens'[c] = 0
      BY <1>2, <3>1 DEF CellsCleared
    <3>2. CASE u = w
      BY <1>1, <3>1, <3>2
    <3>3. CASE u # w
      <4>1. smem_tokens[c] = 0
        BY <1>2, <2>1, <3>3 DEF CellsInv, CellsCleared
      <4> QED BY <1>1, <3>1, <4>1
    <3> QED BY <3>2, <3>3
  <2>4. CellsSound(u)'
    <3> SUFFICES ASSUME CellsSound(u)!1, NEW s \in Rows, NEW e \in Experts, smem_tokens'[<<s, e>>] # 0
                 PROVE  Names(i_token[u] + s, e)
      BY <1>2, SameBlock, SameProblem DEF CellsSound
    <3>1. <<s, e>> \in DOMAIN smem_tokens
      BY DEF BlockSound, BlockOK
    <3>2. smem_tokens[<<s, e>>] # 0
      BY <1>1, <3>1
    <3> QED BY <2>1, <3>2 DEF CellsInv, CellsSound
  <2> QED BY <1>2, <2>2, <2>3, <2>4 DEF CellsInv, CellsCount, AllCountedIn
<1> QED BY <1>3, <1>4, <1>5, <1>6 DEF BlockSound

\* Clearing moe_buf touches none of it.
LEMMA ClearMoeKeeps ==
  ASSUME WavesInv, OutOK, BlockSound, ClearMoeBuf, UNCHANGED <<input, sub_tokens>>
  PROVE  BlockSound'
<1>1. /\ UNCHANGED <<pc, waiting, i_token, smem_tokens, smem_cumsum, smem_cumdup>>
      /\ out'.sorted = out.sorted /\ out'.expert_ids = out.expert_ids
  BY DEF ClearMoeBuf, OutOK
<1>2. InBuffers'
  BY <1>1, SameProblem DEF BlockSound, InBuffers
<1>3. BlockOK'
  BY <1>1, SameBlock, SameProblem DEF BlockSound, BlockOK
<1>4. ASSUME NEW u \in Waves PROVE CellsInv(u)' /\ StartsInv(u)'
  <2>1. CellsInv(u) /\ StartsInv(u)
    BY DEF BlockSound
  <2>2. ListedBy(u)' = ListedBy(u)
    BY <1>1 DEF ListedBy
  <2>3. StartsInv(u)'
    BY <1>1, <2>1, <2>2, SameBlock, SameProblem DEF StartsInv, StartsMoved, StartsKept, CountStored
  <2>4. CellsOf(u)' = CellsOf(u)
    BY <1>1 DEF CellsOf
  <2>5. \A e : CountIn(e)' = CountIn(e)
    BY <1>1, SameBlock DEF CountIn
  <2>6. \A s, e : Loaded(u, s, e)' = Loaded(u, s, e)
    BY <1>1, SameProblem DEF Loaded
  <2>7. CellsCleared(u)' /\ CellsSound(u)' /\ AllCountedIn(u)'
    BY <1>1, <2>1, <2>4, <2>5, SameBlock, SameProblem
    DEF CellsInv, CellsCleared, CellsSound, AllCountedIn
  <2>8. CellsCount(u)'
    BY <1>1, <2>1, <2>6, SameBlock, SameProblem DEF CellsInv, CellsCount
  <2> QED BY <2>3, <2>7, <2>8 DEF CellsInv
<1> QED BY <1>2, <1>3, <1>4 DEF BlockSound

\* wave w reads that row s of its round names e
ReadBy(w, s, e) ==
  /\ i_token[w] + s \in Tokens
  /\ \E k \in TopkIds : input.ids[i_token[w] + s][k] = e /\ Reads(w, s, k)

\* What a wave enters.
LEMMA EnteredCells ==
  ASSUME input \in Inputs, BlockOK, NEW w \in Waves, NEW s \in Rows, NEW e \in Experts
  PROVE  /\ ~ReadBy(w, s, e) =>
              \A b \in BOOLEAN : Entered(w, b)[<<s, e>>] = smem_tokens[<<s, e>>]
         /\ ReadBy(w, s, e) =>
              /\ Entered(w, TRUE)[<<s, e>>] = smem_tokens[<<s, e>>] + 1
              /\ Entered(w, FALSE)[<<s, e>>] # 0
              /\ Names(i_token[w] + s, e)
<1> DEFINE picks(c) == {sk \in PairsRead(w) :
                          sk[1] = c[1] /\ input.ids[i_token[w] + sk[1]][sk[2]] = c[2]}
           T == picks(<<s, e>>)
           one(S) == CHOOSE sk \in S : TRUE
<1>1. <<s, e>> \in DOMAIN smem_tokens
  BY DEF BlockOK
<1>2. \A b \in BOOLEAN :
        Entered(w, b) = [c \in DOMAIN smem_tokens |->
                           IF picks(c) = {} THEN smem_tokens[c]
                           ELSE IF b THEN smem_tokens[c] + 1 ELSE one(picks(c))[2] + 1]
  BY DEF Entered
<1>3. \A b \in BOOLEAN :
        Entered(w, b)[<<s, e>>] = IF T = {} THEN smem_tokens[<<s, e>>]
                                  ELSE IF b THEN smem_tokens[<<s, e>>] + 1 ELSE one(T)[2] + 1
  <2> HIDE DEF picks, one
  <2> QED BY <1>1, <1>2
<1>4. i_token[w] + s \in Tokens <=> i_token[w] + s < input.tokens
  <2>1. i_token[w] \in Nat /\ s \in Nat /\ input.tokens \in Nat
    BY Problem DEF BlockOK, Tokens, Rows
  <2> QED BY <2>1 DEF Tokens
<1>5. \A sk : sk \in T <=> /\ sk \in Rows \X TopkIds /\ sk[1] = s
                           /\ Reads(w, sk[1], sk[2]) /\ i_token[w] + sk[1] < input.tokens
                           /\ input.ids[i_token[w] + sk[1]][sk[2]] = e
  BY DEF PairsRead, Reads, Rows, TopkIds
<1>6. T # {} <=> ReadBy(w, s, e)
  <2>1. ASSUME NEW sk \in T PROVE ReadBy(w, s, e)
    <3>1. sk[2] \in TopkIds /\ sk[1] = s
      BY <1>5
    <3> HIDE DEF T
    <3> QED BY <1>4, <1>5, <3>1 DEF ReadBy
  <2>2. ASSUME ReadBy(w, s, e) PROVE T # {}
    <3>1. PICK k \in TopkIds : input.ids[i_token[w] + s][k] = e /\ Reads(w, s, k)
      BY <2>2 DEF ReadBy
    <3>2. <<s, k>> \in T
      <4> HIDE DEF T
      <4> QED BY <1>4, <1>5, <2>2, <3>1 DEF ReadBy
    <3> QED BY <3>2
  <2> HIDE DEF T
  <2> QED BY <2>1, <2>2
<1>7. T # {} => one(T)[2] \in Nat
  <2>1. T # {} => one(T) \in T
    OBVIOUS
  <2> HIDE DEF T, one
  <2>2. T # {} => one(T)[2] \in TopkIds
    BY <1>5, <2>1
  <2>3. TopkIds \subseteq Nat
    BY DEF TopkIds
  <2> QED BY <2>2, <2>3
<1>8. T # {} => one(T)[2] + 1 # 0
  <2> HIDE DEF T, one
  <2> QED BY <1>7
<1> HIDE DEF T, one, picks
<1>9. ReadBy(w, s, e) => Names(i_token[w] + s, e)
  BY DEF ReadBy, Names
<1>10. TRUE \in BOOLEAN /\ FALSE \in BOOLEAN
  OBVIOUS
<1>11. ~ReadBy(w, s, e) => \A b \in BOOLEAN : Entered(w, b)[<<s, e>>] = smem_tokens[<<s, e>>]
  BY <1>3, <1>6
<1>12. ReadBy(w, s, e) => Entered(w, TRUE)[<<s, e>>] = smem_tokens[<<s, e>>] + 1
  BY <1>3, <1>6, <1>10
<1>13. ReadBy(w, s, e) => Entered(w, FALSE)[<<s, e>>] = one(T)[2] + 1
  BY <1>3, <1>6, <1>10
<1> QED BY <1>6, <1>8, <1>9, <1>11, <1>12, <1>13

\* A wave that arrives has read what it reads, and no other had.
LEMMA LoadedBy ==
  ASSUME WavesInv, BlockOK, NEW w \in Waves, ~waiting[w], Arrive(w), UNCHANGED <<input, sub_tokens>>,
         NEW u \in Waves, NEW s \in Rows, NEW e \in Experts
  PROVE  /\ Loaded(u, s, e)' <=> Loaded(u, s, e) \/ ReadBy(w, s, e)
         /\ ~(Loaded(u, s, e) /\ ReadBy(w, s, e))
<1>1. /\ UNCHANGED i_token /\ waiting'[w] /\ i_token[u] = i_token[w]
      /\ \A v \in Waves : v # w => waiting'[v] = waiting[v]
  BY DEF Arrive, WavesInv
<1>2. Tokens' = Tokens /\ input' = input
  BY SameProblem
<1>3. \A v, k : Reads(v, s, k)' = Reads(v, s, k)
  BY DEF Reads
<1>4. Loaded(u, s, e)' <=> Loaded(u, s, e) \/ ReadBy(w, s, e)
  BY <1>1, <1>2, <1>3 DEF Loaded, ReadBy
<1>5. ASSUME Loaded(u, s, e), ReadBy(w, s, e) PROVE FALSE
  <2>1. PICK k \in TopkIds, v \in Waves :
          input.ids[i_token[u] + s][k] = e /\ waiting[v] /\ Reads(v, s, k)
    BY <1>5 DEF Loaded
  <2>2. PICK l \in TopkIds : input.ids[i_token[u] + s][l] = e /\ Reads(w, s, l)
    BY <1>1, <1>5 DEF ReadBy
  <2>3. k = l
    <3>1. i_token[u] + s \in Tokens
      BY <1>5 DEF Loaded
    <3> QED BY <2>1, <2>2, <3>1, Problem DEF WavesInv, TopkIds
  <2>4. v = w
    BY <2>1, <2>2, <2>3, ThreadsApart DEF Reads
  <2> QED BY <2>1, <2>4
<1> QED BY <1>4, <1>5

\* Topk_ids entered by number: all that was read shows, and nothing else.
LEMMA EnterKeepsSound ==
  ASSUME WavesInv, BlockOK, NEW w \in Waves, NEW b \in BOOLEAN, smem_tokens' = Entered(w, b),
         UNCHANGED <<input, sub_tokens, pc, i_token>>,
         NEW u \in Waves, CellsSound(u),
         SubTokenOneShot \/ pc[u] \in {"load2", "fill"} => b = FALSE
  PROVE  CellsSound(u)'
<1> SUFFICES ASSUME CellsSound(u)!1, NEW s \in Rows, NEW e \in Experts, smem_tokens'[<<s, e>>] # 0
             PROVE  Names(i_token[u] + s, e)
  BY SameBlock, SameProblem DEF CellsSound
<1>1. i_token[u] = i_token[w] /\ input \in Inputs
  BY DEF WavesInv
<1>2. CASE ReadBy(w, s, e)
  BY <1>1, <1>2, EnteredCells
<1>3. CASE ~ReadBy(w, s, e)
  <2>1. smem_tokens'[<<s, e>>] = smem_tokens[<<s, e>>]
    BY <1>1, <1>3, EnteredCells
  <2> QED BY <2>1 DEF CellsSound
<1> QED BY <1>2, <1>3

\* The second load of a round.
LEMMA Load2Keeps ==
  ASSUME WavesInv, BlockSound, NEW w \in Waves, Load2(w), UNCHANGED <<input, sub_tokens, out>>
  PROVE  BlockSound'
<1>1. /\ pc[w] = "load2" /\ ~waiting[w] /\ Arrive(w) /\ UNCHANGED <<smem_cumsum, smem_cumdup>>
      /\ smem_tokens' = Entered(w, FALSE) /\ DOMAIN smem_tokens' = DOMAIN smem_tokens
  BY DEF Load2, At, Entered
<1>2. UNCHANGED <<pc, i_token>>
  BY <1>1 DEF Arrive
<1>3. BlockOK'
  BY <1>1, ArriveOK DEF BlockSound
<1>4. InBuffers'
  BY BuffersStay DEF BlockSound
<1>5. \A u \in Waves : StartsInv(u)'
  BY <1>1, ArriveStarts DEF BlockSound
<1>6. ASSUME NEW u \in Waves PROVE CellsInv(u)'
  <2>1. pc'[u] = "load2"
    BY <1>1, <1>2, SamePiece
  <2>2. CellsSound(u)'
    BY <1>1, <1>2, EnterKeepsSound DEF BlockSound, CellsInv
  <2> QED BY <2>1, <2>2 DEF CellsInv, CellsCleared, CellsCount, AllCountedIn
<1> QED BY <1>3, <1>4, <1>5, <1>6 DEF BlockSound

\* The first one, which counts.
LEMMA LoadKeeps ==
  ASSUME WavesInv, BlockSound, NEW w \in Waves, Load(w), UNCHANGED <<input, sub_tokens, out>>
  PROVE  BlockSound'
<1>1. /\ pc[w] = "load" /\ ~waiting[w] /\ Arrive(w) /\ UNCHANGED <<smem_cumsum, smem_cumdup>>
      /\ smem_tokens' = Entered(w, ~SubTokenOneShot) /\ DOMAIN smem_tokens' = DOMAIN smem_tokens
  BY DEF Load, At, Entered
<1>2. UNCHANGED <<pc, i_token>>
  BY <1>1 DEF Arrive
<1>3. BlockOK /\ input \in Inputs /\ BlockOK'
  BY <1>1, ArriveOK DEF BlockSound, WavesInv
<1>4. InBuffers'
  BY BuffersStay DEF BlockSound
<1>5. \A u \in Waves : StartsInv(u)'
  BY <1>1, ArriveStarts DEF BlockSound
<1>6. ASSUME NEW u \in Waves PROVE CellsInv(u)'
  <2>1. pc'[u] = "load" /\ pc[u] = "load" /\ i_token[u] = i_token[w]
    BY <1>1, <1>2, SamePiece
  <2>2. CellsSound(u)'
    <3>1. (~SubTokenOneShot) \in BOOLEAN
      BY DEF SubTokenOneShot
    <3>2. CellsSound(u) /\ (SubTokenOneShot \/ pc[u] \in {"load2", "fill"} => (~SubTokenOneShot) = FALSE)
      BY <2>1 DEF BlockSound, CellsInv
    <3> QED BY <1>1, <1>2, <1>3, <3>1, <3>2, EnterKeepsSound
  <2>3. CellsCount(u)
    BY DEF BlockSound, CellsInv
  <2>4. \A s \in Rows, e \in Experts :
          /\ Loaded(u, s, e)' <=> Loaded(u, s, e) \/ ReadBy(w, s, e)
          /\ ~(Loaded(u, s, e) /\ ReadBy(w, s, e))
    BY <1>1, <1>3, LoadedBy
  <2>5. CellsCount(u)'
    <3> SUFFICES ASSUME NEW e \in Experts
                 PROVE  IF SubTokenOneShot
                        THEN \A s \in Rows : Loaded(u, s, e)' => smem_tokens'[<<s, e>>] # 0
                        ELSE /\ \A s \in Rows : smem_tokens'[<<s, e>>] \in Int
                             /\ SumFunctionOnSet([s \in Rows |-> smem_tokens'[<<s, e>>]], Rows)
                                  = Named(e, i_token[u]) + Cardinality({s \in Rows : Loaded(u, s, e)'})
      BY <1>2, SameBlock, SameProblem DEF CellsCount
    <3>1. CASE SubTokenOneShot
      <4> SUFFICES ASSUME NEW s \in Rows, Loaded(u, s, e)' PROVE smem_tokens'[<<s, e>>] # 0
        BY <3>1
      <4>1. CASE ReadBy(w, s, e)
        BY <1>1, <1>3, <3>1, <4>1, EnteredCells
      <4>2. CASE ~ReadBy(w, s, e)
        <5>1. smem_tokens'[<<s, e>>] = smem_tokens[<<s, e>>]
          BY <1>1, <1>3, <3>1, <4>2, EnteredCells
        <5> QED BY <2>1, <2>3, <2>4, <3>1, <4>2, <5>1 DEF CellsCount
      <4> QED BY <4>1, <4>2
    <3>2. CASE ~SubTokenOneShot
      <4> DEFINE A == {s \in Rows : ReadBy(w, s, e)}
                 B == {s \in Rows : Loaded(u, s, e)}
                 D == {s \in Rows : Loaded(u, s, e)'}
                 f == [s \in Rows |-> smem_tokens[<<s, e>>]]
                 h == [s \in Rows |-> smem_tokens'[<<s, e>>]]
                 n == sub_tokens
      <4>1. /\ \A s \in Rows : smem_tokens[<<s, e>>] \in Int
            /\ SumFunctionOnSet(f, Rows) = Named(e, i_token[u]) + Cardinality(B)
        BY <2>1, <2>3, <3>2 DEF CellsCount
      <4>2. \A s \in Rows :
              smem_tokens'[<<s, e>>] = smem_tokens[<<s, e>>] + IF s \in A THEN 1 ELSE 0
        <5> SUFFICES ASSUME NEW s \in Rows
                     PROVE  smem_tokens'[<<s, e>>] = smem_tokens[<<s, e>>] + IF s \in A THEN 1 ELSE 0
          OBVIOUS
        <5>1. smem_tokens' = Entered(w, TRUE)
          BY <1>1, <3>2
        <5>2. CASE ReadBy(w, s, e)
          BY <1>3, <5>1, <5>2, EnteredCells
        <5>3. CASE ~ReadBy(w, s, e)
          <6>1. smem_tokens'[<<s, e>>] = smem_tokens[<<s, e>>]
            BY <1>3, <5>1, <5>3, EnteredCells
          <6> QED BY <4>1, <5>3, <6>1
        <5> QED BY <5>2, <5>3
      <4>3. Rows = 0..(n - 1) /\ n \in Nat /\ IsFiniteSet(Rows)
        BY <1>3, FS_Interval DEF Rows, BlockOK
      <4>4. OneMore(h, f, A, n)
        <5>1. A \subseteq 0..(n - 1)
          BY <4>3
        <5>2. \A s \in Rows : f[s] \in Int /\ h[s] = f[s] + IF s \in A THEN 1 ELSE 0
          <6> HIDE DEF A
          <6> QED BY <4>1, <4>2
        <5> HIDE DEF A, f, h, n
        <5> QED BY <4>3, <5>1, <5>2 DEF OneMore
      <4>5. D = A \union B /\ A \cap B = {} /\ A \subseteq Rows /\ B \subseteq Rows
        BY <2>4
      <4> HIDE DEF A, B, D, f, h, n
      <4>6. SumFunctionOnSet(h, 0..(n - 1)) = SumFunctionOnSet(f, 0..(n - 1)) + Cardinality(A)
        BY <4>3, <4>4, SumWithOnes
      <4>7. Cardinality(D) = Cardinality(A) + Cardinality(B) /\ Cardinality(A) \in Nat
            /\ Cardinality(B) \in Nat
        <5>1. IsFiniteSet(A) /\ IsFiniteSet(B)
          BY <4>3, <4>5, FS_Subset
        <5>2. Cardinality(A) \in Nat /\ Cardinality(B) \in Nat
          BY <5>1, FS_CardinalityType
        <5>3. Cardinality(A \union B) = Cardinality(A) + Cardinality(B)
                - Cardinality(A \cap B)
          BY <5>1, FS_Union
        <5>4. Cardinality(A \cap B) = 0
          BY <4>5, FS_EmptySet
        <5> QED BY <4>5, <5>2, <5>3, <5>4
      <4>8. Named(e, i_token[u]) \in Nat
        BY <1>3, NamedStep DEF BlockOK, Tokens
      <4>9. SumFunctionOnSet(h, Rows) = Named(e, i_token[u]) + Cardinality(D)
        BY <4>1, <4>3, <4>6, <4>7, <4>8
      <4>10. \A s \in Rows : smem_tokens'[<<s, e>>] \in Int
        BY <4>1, <4>2
      <4> QED BY <3>2, <4>9, <4>10 DEF D, h
    <3> QED BY <3>1, <3>2
  <2> QED BY <2>1, <2>2, <2>5 DEF CellsInv, CellsCleared, AllCountedIn
<1> QED BY <1>3, <1>4, <1>5, <1>6 DEF BlockSound

\* A wave stores how many tokens its experts have.
LEMMA CountKeeps ==
  ASSUME WavesInv, OutOK, BlockSound, NEW w \in Waves, Count(w), UNCHANGED <<input, sub_tokens>>
  PROVE  BlockSound'
<1>1. /\ pc[w] = "count" /\ ~waiting[w] /\ Arrive(w) /\ UNCHANGED smem_tokens
      /\ smem_cumsum' = [x \in DOMAIN smem_cumsum |->
           IF x = 0 /\ w = 0 THEN 0
           ELSE IF x - 1 \in GroupExpertsOf(w) THEN CountIn(x - 1) ELSE smem_cumsum[x]]
      /\ smem_cumdup' =
           IF ~input.masking THEN smem_cumdup
           ELSE [x \in DOMAIN smem_cumdup |->
                   IF x = 0 THEN 0
                   ELSE IF x - 1 \in ThreadExpertsOf(w) THEN input.mask[x - 1] ELSE smem_cumdup[x]]
      /\ out'.sorted = out.sorted /\ out'.expert_ids = out.expert_ids
  BY DEF Count, At, OutOK
<1>2. /\ UNCHANGED <<pc, i_token>> /\ \A v \in Waves : v # w => waiting'[v] = waiting[v]
      /\ DOMAIN smem_cumdup' = DOMAIN smem_cumdup
  BY <1>1 DEF Arrive, WavesInv
<1>3. BlockOK'
  BY <1>1, <1>2, ArriveOK DEF BlockSound
<1>4. InBuffers'
  BY <1>1, SameProblem DEF BlockSound, InBuffers
<1>5. ASSUME NEW u \in Waves PROVE CellsInv(u)' /\ StartsInv(u)'
  <2>1. pc'[u] = "count" /\ pc[u] = "count"
    BY <1>1, <1>2, SamePiece
  <2>2. CellsInv(u) /\ StartsInv(u)
    BY DEF BlockSound
  <2>3. \A e : CountIn(e)' = CountIn(e)
    BY <1>1, SameBlock DEF CountIn
  <2>4. CellsInv(u)'
    <3>1. CellsSound(u)'
      BY <1>1, <1>2, <2>2, SameBlock, SameProblem DEF CellsInv, CellsSound
    <3>2. AllCountedIn(u)'
      BY <1>2, <2>2, <2>3, SameProblem DEF CellsInv, AllCountedIn
    <3> QED BY <2>1, <3>1, <3>2 DEF CellsInv, CellsCleared, CellsCount
  <2>5. waiting'[u] => CountStored(u)'
    <3> SUFFICES ASSUME waiting'[u] PROVE CountStored(u)'
      OBVIOUS
    <3>1. u # w => CountStored(u)
      BY <1>2, <2>1, <2>2 DEF StartsInv
    <3>2. \A e \in Experts : CountIn(e) = TokensOf(e)
      BY <2>1, <2>2 DEF CellsInv, AllCountedIn
    <3>3. input.experts \in Nat
      BY Problem DEF WavesInv
    <3>4. u = 0 => smem_cumsum'[0] = 0
      <4> SUFFICES ASSUME u = 0 PROVE smem_cumsum'[0] = 0
        OBVIOUS
      <4>1. 0 \in DOMAIN smem_cumsum
        BY <3>3 DEF WavesInv
      <4>2. 0 - 1 \notin GroupExpertsOf(w)
        BY <3>3 DEF GroupExpertsOf, Experts
      <4>3. w # 0 => smem_cumsum[0] = 0
        BY <3>1 DEF CountStored
      <4> QED BY <1>1, <4>1, <4>2, <4>3
    <3>5. ASSUME NEW e \in GroupExpertsOf(u) PROVE smem_cumsum'[e + 1] = TokensOf(e)
      <4>1. e \in Experts /\ e \in Nat /\ e + 1 \in DOMAIN smem_cumsum /\ (e + 1) - 1 = e
            /\ e + 1 # 0
        BY <3>3 DEF GroupExpertsOf, Experts, WavesInv
      <4> DEFINE y == e + 1
      <4>2. y - 1 = e /\ y \in DOMAIN smem_cumsum /\ y # 0
        BY <4>1
      <4> HIDE DEF y
      <4>3. smem_cumsum'[y] = IF e \in GroupExpertsOf(w) THEN CountIn(e) ELSE smem_cumsum[y]
        BY <1>1, <4>2
      <4>4. e \notin GroupExpertsOf(w) => smem_cumsum[y] = TokensOf(e)
        BY <3>1, <3>5 DEF CountStored, y
      <4> QED BY <3>2, <4>1, <4>3, <4>4 DEF y
    <3>6. ASSUME input.masking, NEW e \in ThreadExpertsOf(u) PROVE smem_cumdup'[e + 1] = input.mask[e]
      <4>1. e \in Experts /\ e \in Nat /\ e + 1 \in DOMAIN smem_cumdup /\ (e + 1) - 1 = e
            /\ e + 1 # 0
        BY <3>3 DEF ThreadExpertsOf, Experts, BlockSound, BlockOK
      <4> DEFINE y == e + 1
      <4>2. y - 1 = e /\ y \in DOMAIN smem_cumdup /\ y # 0
        BY <4>1
      <4> HIDE DEF y
      <4>3. smem_cumdup'[y] = IF e \in ThreadExpertsOf(w) THEN input.mask[e] ELSE smem_cumdup[y]
        BY <1>1, <3>6, <4>2
      <4>4. e \notin ThreadExpertsOf(w) => smem_cumdup[y] = input.mask[e]
        BY <3>1, <3>6 DEF CountStored, y
      <4> QED BY <4>3, <4>4 DEF y
    <3> QED BY <3>4, <3>5, <3>6, SameBlock, SameProblem DEF CountStored
  <2> QED BY <2>1, <2>4, <2>5 DEF StartsInv, StartsMoved, StartsKept, AfterScan
<1> QED BY <1>3, <1>4, <1>5 DEF BlockSound

\* The list of an expert, as the first wave finds it counted.
LEMMA PaddedIs ==
  ASSUME input \in Inputs, NEW e \in Experts, smem_cumsum[e + 1] = TokensOf(e),
         input.masking => smem_cumdup[e + 1] = input.mask[e]
  PROVE  PaddedTokensIn(e) = UnitSize * ListUnits(e)
<1>1. CASE ~Enabled(e)
  <2>1. ListUnits(e) = 0 /\ PaddedTokensIn(e) = 0
    BY <1>1 DEF ListUnits, PaddedTokensIn, Enabled
  <2>2. UnitSize * 0 = 0
    BY SortAssumption
  <2> QED BY <2>1, <2>2
<1>2. CASE Enabled(e)
  <2>1. UnitsIn(e) = IntegerDivideCeil(TokensOf(e), UnitSize)
    BY DEF UnitsIn
  <2>2. PaddedTokensIn(e) = UnitSize * Max({UnitsIn(e), LeastUnits})
    BY <1>2 DEF PaddedTokensIn, Enabled, LeastUnits
  <2>3. ListUnits(e) = Max({UnitsIn(e), LeastUnits})
    BY <1>2, <2>1 DEF ListUnits
  <2> QED BY <2>2, <2>3
<1> QED BY <1>1, <1>2

\* The first wave replaces the counts by the starts.
LEMMA ScanIs ==
  ASSUME WavesInv, Scan(0), \A u \in Waves : CountStored(u)
  PROVE  \A x \in 0..input.experts : smem_cumsum'[x] = StartAt(x)
<1> DEFINE n == input.experts
           f == [e \in Experts |-> PaddedTokensIn(e)]
           P == [k \in 0..n |-> StartAt(k)]
           upTo == BlockCumsum(f, n, 1)
<1>1. input \in Inputs /\ n \in Nat \ {0} /\ Experts = 0..(n - 1) /\ UnitSize \in Nat \ {0}
      /\ DOMAIN smem_cumsum = 0..n
  BY Problem, SortAssumption DEF Experts, WavesInv
<1>2. smem_cumsum' = [x \in 0..n |-> IF x = 0 THEN smem_cumsum[x] ELSE upTo[x - 1]]
  BY <1>1 DEF Scan
<1>3. ASSUME NEW e \in Experts PROVE f[e] = UnitSize * ListUnits(e)
  <2>1. smem_cumsum[e + 1] = TokensOf(e)
    BY <1>1, WavesCover DEF CountStored
  <2>2. input.masking => smem_cumdup[e + 1] = input.mask[e]
    BY <1>1, WavesCover DEF CountStored
  <2> QED BY <1>1, <2>1, <2>2, PaddedIs
<1>4. /\ UnitStart[0] = 0
      /\ \A x \in 0..n : UnitStart[x] \in Nat
      /\ \A e \in Experts : UnitStart[e + 1] = UnitStart[e] + ListUnits(e)
  <2>1. Runs(UnitStart, [e \in Experts |-> ListUnits(e)], n)
    BY <1>1, ListsInOrder
  <2>2. UnitStart[0] = 0
    BY <2>1 DEF Runs
  <2> QED BY <1>1, <2>2, ListsInOrder
<1> HIDE DEF f, n
<1>5. \A x \in 0..n : P[x] = UnitSize * UnitStart[x] /\ P[x] \in Int
  <2>1. \A x \in 0..n : P[x] = UnitSize * UnitStart[x]
    BY DEF StartAt
  <2> HIDE DEF P
  <2>2. ASSUME NEW x \in 0..n PROVE P[x] \in Int
    <3>1. UnitStart[x] \in Nat
      BY <1>4
    <3>2. UnitSize * UnitStart[x] \in Nat
      BY <1>1, <3>1
    <3> QED BY <2>1, <3>2
  <2> QED BY <2>1, <2>2
<1>6. P \in [0..n -> Int] /\ P[0] = 0
  <2>1. 0 \in 0..n /\ UnitSize * 0 = 0
    BY <1>1
  <2>2. P[0] = 0
    BY <1>4, <1>5, <2>1
  <2>3. P \in [0..n -> Int]
    BY <1>5
  <2> QED BY <2>2, <2>3
<1> HIDE DEF P
<1>7. \A e \in 0..(n - 1) : f[e] \in Int /\ P[e + 1] = P[e] + f[e]
  <2> SUFFICES ASSUME NEW e \in 0..(n - 1) PROVE f[e] \in Int /\ P[e + 1] = P[e] + f[e]
    OBVIOUS
  <2>1. e \in 0..n /\ e + 1 \in 0..n /\ e \in Experts
    BY <1>1
  <2> DEFINE a == UnitStart[e]
             l == ListUnits(e)
             d == UnitStart[e + 1]
  <2>2. a \in Nat /\ l \in Nat /\ d = a + l /\ f[e] = UnitSize * l
        /\ P[e] = UnitSize * a /\ P[e + 1] = UnitSize * d
    BY <1>1, <1>3, <1>4, <1>5, <2>1, ListUnitsFit
  <2> HIDE DEF a, l, d
  <2>3. UnitSize * (a + l) = UnitSize * a + UnitSize * l /\ UnitSize * l \in Int
    BY <1>1, <2>2
  <2> QED BY <2>2, <2>3
<1>8. Runs(P, f, n)
  BY <1>6, <1>7 DEF Runs
<1>9. upTo = [i \in 0..(n - 1) |-> P[i + 1]]
  <2>1. 1 \in Nat \ {0} /\ n \in Nat /\ \A e \in 0..(n - 1) : f[e] \in Int
    BY <1>1, <1>7
  <2> QED BY <1>8, <2>1, BlockPrefix
<1> HIDE DEF upTo
<1>10. ASSUME NEW x \in 0..n PROVE smem_cumsum'[x] = StartAt(x)
  <2>1. P[x] = StartAt(x)
    BY <1>5 DEF StartAt
  <2>2. CASE x = 0
    <3>1. smem_cumsum[0] = 0
      <4>1. 0 \in Waves
        BY RowSizes DEF Waves
      <4> QED BY <4>1 DEF CountStored
    <3> QED BY <1>2, <1>6, <2>1, <2>2, <3>1
  <2>3. CASE x # 0
    <3>1. x - 1 \in 0..(n - 1) /\ (x - 1) + 1 = x
      BY <1>1, <2>3
    <3>2. upTo[x - 1] = P[(x - 1) + 1]
      BY <1>9, <3>1
    <3> QED BY <1>2, <2>1, <2>3, <3>1, <3>2
  <2> QED BY <2>2, <2>3
<1> QED BY <1>10 DEF n

\* The first wave sums up while the others wait.
LEMMA ScanKeeps ==
  ASSUME WavesInv, OutOK, BlockSound, NEW w \in Waves, Scan(w), UNCHANGED <<input, sub_tokens>>
  PROVE  BlockSound'
<1>1. /\ pc[w] = "scan" /\ ~waiting[w] /\ Arrive(w) /\ UNCHANGED smem_tokens
      /\ DOMAIN smem_cumdup' = DOMAIN smem_cumdup
      /\ w # 0 => UNCHANGED <<smem_cumsum, smem_cumdup>>
      /\ out'.sorted = out.sorted /\ out'.expert_ids = out.expert_ids
  BY DEF Scan, At, OutOK
<1>2. /\ UNCHANGED <<pc, i_token>> /\ \A v \in Waves : v # w => waiting'[v] = waiting[v]
      /\ waiting'[w]
  BY <1>1 DEF Arrive, WavesInv
<1>3. BlockOK'
  BY <1>1, ArriveOK DEF BlockSound
<1>4. InBuffers'
  BY <1>1, SameProblem DEF BlockSound, InBuffers
<1>5. 0 \in Waves /\ \A u \in Waves : pc[u] = "scan"
  BY <1>1, SamePiece, RowSizes DEF Waves
<1>6. waiting'[0] => \A x \in 0..input.experts : smem_cumsum'[x] = StartAt(x)
  <2>1. CASE w = 0
    <3>1. \A u \in Waves : CountStored(u)
      BY <1>1, <1>5, <2>1 DEF BlockSound, StartsInv
    <3> QED BY <2>1, <3>1, ScanIs
  <2>2. CASE w # 0
    BY <1>1, <1>2, <1>5, <2>2 DEF BlockSound, StartsInv
  <2> QED BY <2>1, <2>2
<1>7. ASSUME NEW u \in Waves PROVE CellsInv(u)' /\ StartsInv(u)'
  <2>1. pc'[u] = "scan" /\ pc[u] = "scan"
    BY <1>2, <1>5
  <2>2. CellsInv(u) /\ StartsInv(u)
    BY DEF BlockSound
  <2>3. CellsSound(u)'
    BY <1>1, <1>2, <2>2, SameBlock, SameProblem DEF CellsInv, CellsSound
  <2>4. CellsInv(u)'
    BY <2>1, <2>3 DEF CellsInv, CellsCleared, CellsCount, AllCountedIn
  <2>5. ~waiting'[0] => CountStored(u)'
    <3> SUFFICES ASSUME ~waiting'[0] PROVE CountStored(u)'
      OBVIOUS
    <3>1. w # 0 /\ ~waiting[0]
      BY <1>2, <1>5
    <3>2. CountStored(u)
      BY <2>1, <2>2, <3>1 DEF StartsInv
    <3> QED BY <1>1, <3>1, <3>2, SameBlock, SameProblem DEF CountStored
  <2>6. waiting'[0] => \A x \in 0..input'.experts : smem_cumsum'[x] = StartAt(x)'
    BY <1>6, SameBlock
  <2> QED BY <2>1, <2>4, <2>5, <2>6 DEF StartsInv, StartsMoved, StartsKept, AfterScan
<1> QED BY <1>3, <1>4, <1>7 DEF BlockSound

\* No start is outside the lists, and every list is inside the buffer.
LEMMA StartsWithin ==
  ASSUME input \in Inputs
  PROVE  /\ StartAt(input.experts) \in Nat /\ StartAt(input.experts) <= MaxOutputIds
         /\ MaxOutputIds \in Nat
         /\ \A e \in Experts : /\ StartAt(e) \in Nat
                               /\ StartAt(e) <= StartAt(input.experts)
                               /\ Enabled(e) => StartAt(e) + TokensOf(e) <= StartAt(input.experts)
<1>1. StartAt(input.experts) <= MaxOutputIds /\ MaxOutputIds \in Nat
  BY ListsFit DEF StartAt
<1>2. 0 \in Experts /\ input.experts \in Nat
  BY Problem DEF Experts
<1>3. StartAt(input.experts) \in Nat
  BY <1>2, ListWithin DEF StartAt
<1>4. ASSUME NEW e \in Experts
      PROVE  /\ StartAt(e) \in Nat /\ StartAt(e) <= StartAt(input.experts)
             /\ Enabled(e) => StartAt(e) + TokensOf(e) <= StartAt(input.experts)
  <2> DEFINE a == StartAt(e)
             b == UnitSize * UnitStart[e + 1]
             c == StartAt(input.experts)
             t == TokensOf(e)
  <2>1. a \in Nat /\ b \in Nat /\ c \in Nat /\ a <= b /\ b <= c /\ (Enabled(e) => a + t <= b)
        /\ t \in Nat
    BY ListWithin, ListUnitsFit DEF StartAt
  <2> HIDE DEF a, b, c, t
  <2>2. a \in Nat /\ a <= c /\ (Enabled(e) => a + t <= c)
    BY <2>1
  <2> QED BY <2>2 DEF a, c, t
<1> QED BY <1>1, <1>3, <1>4

\* The start that a list has been moved to is inside the list.
LEMMA MovedWithin ==
  ASSUME input \in Inputs, BlockOK, NEW w \in Waves, StartsMoved(w), pc[w] \in AfterScan,
         NEW e \in GroupExpertsOf(w)
  PROVE  smem_cumsum[e] \in Nat /\ smem_cumsum[e] <= StartAt(input.experts)
         /\ StartAt(e) <= smem_cumsum[e]
<1> DEFINE a == StartAt(e)
           c == StartAt(input.experts)
           t == TokensOf(e)
           m == ListedBy(w)
           n == Named(e, m)
<1>1. e \in Experts
  BY DEF GroupExpertsOf
<1>2. m \in Nat
  <2>1. input.tokens \in Nat /\ i_token[w] \in Nat /\ sub_tokens \in Nat
    BY Problem DEF BlockOK, Tokens
  <2> QED BY <2>1 DEF ListedBy
<1>3. n \in Nat /\ n <= t
  <2> HIDE DEF m
  <2>1. m <= m
    BY <1>2
  <2>2. Named(e, m) <= TokensOf(e) /\ Named(e, m) \in Nat
    BY <1>2, <2>1, NamedUpTo, NamedStep
  <2> QED BY <2>2
<1>4. smem_cumsum[e] \in a..(a + IF Enabled(e) THEN n ELSE 0)
  BY DEF StartsMoved
<1>5. a \in Nat /\ c \in Nat /\ t \in Nat /\ a <= c /\ (Enabled(e) => a + t <= c)
  BY <1>1, StartsWithin, ListUnitsFit
<1> HIDE DEF a, c, t, m, n
<1>6. smem_cumsum[e] \in Nat /\ smem_cumsum[e] <= c /\ a <= smem_cumsum[e]
  BY <1>3, <1>4, <1>5
<1> QED BY <1>6 DEF a, c

\* While the lists are filled or their starts are read, no start is outside.
LEMMA StartsInside ==
  ASSUME WavesInv, BlockSound, NEW w \in Waves, pc[w] \in AfterScan, NEW x \in 0..input.experts
  PROVE  smem_cumsum[x] \in 0..StartAt(input.experts)
<1>1. \A v \in Waves : pc[v] \in AfterScan
  BY SamePiece DEF AfterScan
<1>2. input \in Inputs
  BY DEF WavesInv
<1>3. StartAt(input.experts) \in Nat
  BY <1>2, StartsWithin
<1>4. CASE x = input.experts
  <2>1. smem_cumsum[x] = StartAt(input.experts)
    BY <1>4 DEF BlockSound, StartsInv, StartsMoved
  <2> HIDE DEF StartAt
  <2> QED BY <1>3, <2>1
<1>5. CASE x # input.experts
  <2>1. x \in Experts
    BY <1>2, <1>5, Problem DEF Experts
  <2>2. PICK v \in Waves : x \in GroupExpertsOf(v)
    BY <1>2, <2>1, WavesCover
  <2>3. smem_cumsum[x] \in Nat /\ smem_cumsum[x] <= StartAt(input.experts)
    BY <1>1, <1>2, <2>2, MovedWithin DEF BlockSound, StartsInv
  <2> QED BY <1>3, <2>3
<1> QED BY <1>4, <1>5

\* What changes when a wave goes on without a barrier, and leaves cells alone.
LEMMA GoToCells ==
  ASSUME WavesInv, NEW w \in Waves, NEW q, q \notin {"clear", "load", "count", "load2"},
         GoTo(w, q), ~waiting[w], UNCHANGED <<input, sub_tokens, smem_tokens>>,
         q = "fill" => pc[w] = "ids" /\ SubTokenOneShot,
         q # "scan", q # "ids",
         NEW u \in Waves, CellsInv(u)
  PROVE  CellsInv(u)'
<1>1. UNCHANGED <<waiting, i_token>> /\ pc'[w] = q /\ \A v \in Waves : v # w => pc'[v] = pc[v]
  BY DEF GoTo, WavesInv
<1>2. \A e : CountIn(e)' = CountIn(e)
  BY SameBlock DEF CountIn
<1>3. \A s, e : Loaded(u, s, e)' = Loaded(u, s, e)
  BY <1>1, SameProblem DEF Loaded
<1>4. CellsOf(u)' = CellsOf(u)
  BY DEF CellsOf
<1>5. CellsCleared(u)'
  BY <1>1, <1>4 DEF CellsInv, CellsCleared
<1>6. CellsSound(u)'
  BY <1>1, SameBlock, SameProblem DEF CellsInv, CellsSound
<1>7. CellsCount(u)'
  BY <1>1, <1>3, SameBlock, SameProblem DEF CellsInv, CellsCount
<1>8. AllCountedIn(u)'
  BY <1>1, <1>2, SameProblem DEF CellsInv, AllCountedIn
<1> QED BY <1>5, <1>6, <1>7, <1>8 DEF CellsInv

\* A wave names the expert of the units of its lists, and keeps the starts.
LEMMA IdsKeeps ==
  ASSUME WavesInv, OutOK, BlockSound, NEW w \in Waves, Ids(w), UNCHANGED <<input, sub_tokens>>
  PROVE  BlockSound'
<1> DEFINE E == input.experts
<1>1. /\ pc[w] = "ids" /\ ~waiting[w] /\ GoTo(w, PieceAfterIds)
      /\ UNCHANGED <<smem_tokens, smem_cumsum>>
      /\ smem_cumdup' = [x \in DOMAIN smem_cumdup |->
           IF x \in ThreadExpertsOf(w) \union {E} THEN smem_cumsum[x] ELSE smem_cumdup[x]]
      /\ out'.sorted = out.sorted /\ out'.expert_ids = Stored(IdWrites(w), out.expert_ids)
  BY DEF Ids, At, OutOK, UpdatedAt
<1>2. /\ UNCHANGED <<waiting, i_token>> /\ pc'[w] = PieceAfterIds
      /\ \A v \in Waves : v # w => pc'[v] = pc[v]
  BY <1>1 DEF GoTo, WavesInv
<1>3. PieceAfterIds = IF SubTokenOneShot THEN "fill" ELSE "clear2"
  BY DEF PieceAfterIds
<1>4. input \in Inputs /\ BlockOK /\ pc[w] \in AfterScan
  BY <1>1 DEF BlockSound, WavesInv, AfterScan
<1>5. BlockOK'
  <2>1. SubTokenOneShot \/ pc[w] \notin InRounds
    BY <1>1 DEF InRounds
  <2>2. i_token[w] = 0
    BY <1>4, <2>1 DEF BlockOK
  <2>3. DOMAIN smem_cumdup' = DOMAIN smem_cumdup /\ DOMAIN smem_tokens' = DOMAIN smem_tokens
    BY <1>1
  <2>4. \A v \in Waves : SubTokenOneShot \/ pc'[v] \notin InRounds => i_token[v] = 0
    BY <1>2, <1>4, <2>2 DEF BlockOK
  <2> QED BY <1>2, <1>4, <2>3, <2>4, SameBlock, SameProblem DEF BlockOK
<1>6. \A x \in 0..E : smem_cumsum[x] \in 0..StartAt(E)
  BY <1>4, StartsInside
<1>7. InBuffers'
  <2> DEFINE m == MaxOutputIds \div UnitSize
             S == 0..(m - 1)
  <2>1. DOMAIN IdWrites(w) \subseteq S
    <3> DEFINE units(e) ==
                 IF input.masking /\ input.mask[e] = 0 THEN {}
                 ELSE {i \div UnitSize : i \in {j \in smem_cumsum[e]..(smem_cumsum[e + 1] - 1) :
                                                  (j - smem_cumsum[e]) % UnitSize = 0}}
    <3>1. DOMAIN IdWrites(w) = UNION {units(e) : e \in ThreadExpertsOf(w)}
      BY DEF IdWrites
    <3>2. ASSUME NEW e \in ThreadExpertsOf(w), NEW x \in units(e) PROVE x \in S
      <4>1. PICK i \in smem_cumsum[e]..(smem_cumsum[e + 1] - 1) : x = i \div UnitSize
        BY <3>2
      <4>2. e \in 0..E /\ e + 1 \in 0..E
        BY <1>4, Problem DEF ThreadExpertsOf, Experts
      <4> DEFINE c == UnitStart[E]
                 z == UnitSize * c
      <4>3. smem_cumsum[e] \in 0..z /\ smem_cumsum[e + 1] \in 0..z
        BY <1>6, <4>2 DEF StartAt
      <4>4. c \in Nat /\ c <= m /\ m \in Nat /\ UnitSize \in Nat \ {0}
        <5>1. E \in 0..E
          BY <1>4, Problem
        <5> QED BY <1>4, <5>1, UnitsInBuffer, ListsFit, ListsInOrder, SortAssumption
      <4> HIDE DEF c
      <4>5. z \in Nat
        BY <4>4
      <4> HIDE DEF z
      <4>6. i \in Nat /\ i < z
        BY <4>3, <4>5
      <4>7. i \div UnitSize < c /\ i \div UnitSize \in Nat
        <5>1. i < UnitSize * c
          BY <4>6 DEF z
        <5> QED BY <4>4, <4>6, <5>1, DivRange, DivMod
      <4> HIDE DEF m
      <4>8. i \div UnitSize \in 0..(m - 1)
        BY <4>4, <4>7
      <4> QED BY <4>1, <4>8
    <3> HIDE DEF units, S
    <3> QED BY <3>1, <3>2
  <2>2. DOMAIN out.expert_ids \subseteq S /\ DOMAIN out.sorted \subseteq 0..(MaxOutputIds - 1)
    BY DEF BlockSound, InBuffers
  <2> HIDE DEF S
  <2>3. DOMAIN out'.expert_ids \subseteq S
    BY <1>1, <2>1, <2>2, StoredInside
  <2> QED BY <1>1, <2>2, <2>3, SameProblem DEF InBuffers, S
<1>8. ASSUME NEW u \in Waves PROVE CellsInv(u)' /\ StartsInv(u)'
  <2>1. CellsInv(u) /\ StartsInv(u)
    BY DEF BlockSound
  <2>2. CellsInv(u)'
    BY <1>1, <1>3, <2>1, GoToCells
  <2>3. pc'[u] \notin {"count", "scan"}
    BY <1>1, <1>2, <1>3, SamePiece
  <2>4. ListedBy(u)' = ListedBy(u)
    BY <1>1, <1>2, <1>3 DEF ListedBy
  <2>5. StartsMoved(u)'
    <3>1. pc[u] \in AfterScan
      BY <1>1, SamePiece DEF AfterScan
    <3> QED BY <1>1, <2>1, <2>4, <3>1, SameBlock, SameProblem DEF StartsInv, StartsMoved
  <2>6. StartsKept(u)'
    <3> SUFFICES ASSUME pc'[u] \in AfterScan \ {"ids"}, NEW x \in ThreadExpertsOf(u) \union {E}
                 PROVE  smem_cumdup'[x] \in 0..StartAt(E)
      BY SameBlock DEF StartsKept
    <3>1. x \in 0..E /\ x \in DOMAIN smem_cumdup
      BY <1>4, Problem DEF ThreadExpertsOf, Experts, BlockOK
    <3>2. CASE x \in ThreadExpertsOf(w) \union {E}
      BY <1>1, <1>6, <3>1, <3>2
    <3>3. CASE x \notin ThreadExpertsOf(w) \union {E}
      <4>1. u # w
        BY <3>3
      <4>2. smem_cumdup[x] \in 0..StartAt(E)
        BY <1>2, <2>1, <4>1 DEF StartsInv, StartsKept
      <4> QED BY <1>1, <3>1, <3>3, <4>2
    <3> QED BY <3>2, <3>3
  <2> QED BY <2>2, <2>3, <2>5, <2>6 DEF StartsInv
<1> QED BY <1>5, <1>7, <1>8 DEF BlockSound

\* A wave fills up what is left of the lists.
LEMMA PadKeeps ==
  ASSUME WavesInv, OutOK, BlockSound, NEW w \in Waves, Pad(w), UNCHANGED <<input, sub_tokens>>
  PROVE  BlockSound'
<1> DEFINE E == input.experts
           writes == [x \in UNION {smem_cumsum[e]..(smem_cumdup[e + 1] - 1) :
                                     e \in ThreadExpertsOf(w)} |-> PadEntry]
<1>1. /\ pc[w] = "pad" /\ ~waiting[w] /\ GoTo(w, "done")
      /\ UNCHANGED <<smem_tokens, smem_cumsum, smem_cumdup>>
      /\ out'.sorted = Stored(writes, out.sorted) /\ out'.expert_ids = out.expert_ids
  BY DEF Pad, At, OutOK, smemVars
<1>2. /\ UNCHANGED <<waiting, i_token>> /\ pc'[w] = "done"
      /\ \A v \in Waves : v # w => pc'[v] = pc[v]
  BY <1>1 DEF GoTo, WavesInv
<1>3. input \in Inputs /\ BlockOK /\ pc[w] \in AfterScan
  BY <1>1 DEF BlockSound, WavesInv, AfterScan
<1>4. BlockOK'
  <2>1. i_token[w] = 0
    BY <1>1, <1>3 DEF BlockOK, InRounds
  <2>2. \A v \in Waves : SubTokenOneShot \/ pc'[v] \notin InRounds => i_token[v] = 0
    BY <1>2, <1>3, <2>1 DEF BlockOK
  <2> QED BY <1>1, <1>2, <1>3, <2>2, SameBlock, SameProblem DEF BlockOK
<1>5. InBuffers'
  <2> DEFINE m == MaxOutputIds
             S == 0..(m - 1)
  <2>1. DOMAIN writes \subseteq S
    <3>1. ASSUME NEW e \in ThreadExpertsOf(w), NEW x \in smem_cumsum[e]..(smem_cumdup[e + 1] - 1)
          PROVE  x \in S
      <4>1. e \in Experts /\ e \in 0..E /\ e + 1 \in 0..E
        BY <1>3, Problem DEF ThreadExpertsOf, Experts
      <4> DEFINE c == StartAt(E)
                 a == smem_cumsum[e]
                 b == smem_cumdup[e + 1]
      <4>2. a \in 0..c
        BY <1>3, <4>1, StartsInside
      <4>3. b \in 0..c
        <5>1. PICK v \in Waves : e + 1 = E \/ e + 1 \in ThreadExpertsOf(v)
          <6>1. e + 1 # E => e + 1 \in Experts
            BY <1>3, <4>1, Problem DEF Experts
          <6>2. w \in Waves
            OBVIOUS
          <6> QED BY <1>3, <6>1, <6>2, WavesCover
        <5>2. pc[v] \in AfterScan \ {"ids"}
          BY <1>1, SamePiece DEF AfterScan
        <5> QED BY <5>1, <5>2 DEF BlockSound, StartsInv, StartsKept
      <4>4. c \in Nat /\ c <= m /\ m \in Nat
        BY <1>3, StartsWithin
      <4> HIDE DEF a, b, c, m
      <4>5. x \in a..(b - 1)
        BY <3>1 DEF a, b
      <4>6. x \in 0..(m - 1)
        BY <4>2, <4>3, <4>4, <4>5
      <4> QED BY <4>6
    <3> HIDE DEF S
    <3> QED BY <3>1
  <2>2. DOMAIN out.sorted \subseteq S
    BY DEF BlockSound, InBuffers
  <2> HIDE DEF S, writes
  <2>3. DOMAIN out'.sorted \subseteq S
    BY <1>1, <2>1, <2>2, StoredInside
  <2> QED BY <1>1, <2>3, SameProblem DEF BlockSound, InBuffers, S
<1>6. ASSUME NEW u \in Waves PROVE CellsInv(u)' /\ StartsInv(u)'
  <2>1. CellsInv(u) /\ StartsInv(u)
    BY DEF BlockSound
  <2>2. CellsInv(u)'
    BY <1>1, <2>1, GoToCells
  <2>3. pc[u] \in {"pad", "done"} /\ pc'[u] \in {"pad", "done"}
    BY <1>1, <1>2, SamePiece
  <2>4. ListedBy(u)' = ListedBy(u)
    BY <2>3 DEF ListedBy
  <2> QED BY <1>1, <2>1, <2>2, <2>3, <2>4, SameBlock, SameProblem
      DEF StartsInv, StartsMoved, StartsKept, AfterScan
<1> QED BY <1>4, <1>5, <1>6 DEF BlockSound

\* Lane groups of different waves have different experts.
LEMMA GroupsApart ==
  ASSUME NEW v \in Waves, NEW w \in Waves, NEW e, e \in GroupExpertsOf(v), e \in GroupExpertsOf(w)
  PROVE  v = w
BY DEF GroupExpertsOf

\* The positions of a round are those of its rows and the wave's experts.
LEMMA PositionsDomain == \A w : DOMAIN Positions(w) = Rows \X FillExpertsOf(w)
<1> SUFFICES ASSUME NEW w PROVE DOMAIN Positions(w) = Rows \X FillExpertsOf(w)
  OBVIOUS
<1> DEFINE turns == 0..((input.experts - 1) \div GroupsPerBlock)
           rounds == 0..(sub_tokens \div LaneGroup - 1)
           expert(turn, l) == (w * WarpSize + l) \div LaneGroup + turn * GroupsPerBlock
           sums == Held([tr \in turns \X rounds |-> Held(GroupCumsum(Held([l \in Lanes |->
                     LET e == expert(tr[1], l)
                         cell == <<(tr[2] * LaneGroup) + (l % LaneGroup), e>>
                     IN IF e \in FillExpertsOf(w) /\ smem_tokens[cell] # 0 THEN 1 ELSE 0])))])
           lane0(e) == ((e % GroupsPerBlock) * LaneGroup) % WarpSize
           sum(e, s) == sums[<<e \div GroupsPerBlock, s \div LaneGroup>>]
                            [lane0(e) + (s % LaneGroup)]
           before(e, s) == SumFunctionOnSet([r \in rounds |-> sum(e, (r * LaneGroup) + (LaneGroup - 1))],
                                            0..(s \div LaneGroup - 1))
           upTo == [c \in Rows \X FillExpertsOf(w) |->
                      smem_cumsum[c[2]] + before(c[2], c[1]) + sum(c[2], c[1])]
<1>1. Positions(w) = Held(upTo)
  BY DEF Positions, Rows
<1>2. DOMAIN upTo = Rows \X FillExpertsOf(w)
  OBVIOUS
<1> HIDE DEF upTo
<1> QED BY <1>1, <1>2, HeldIs

\* Where a wave lists the tokens of one of its experts, and how far it gets.
LEMMA FilledAt ==
  ASSUME WavesInv, BlockSound, NEW w \in Waves, At(w, "fill"), NEW e \in FillExpertsOf(w)
  PROVE  /\ DOMAIN Positions(w) = Rows \X FillExpertsOf(w)
         /\ \A s \in Rows : smem_tokens[<<s, e>>] # 0 =>
              Positions(w)[<<s, e>>] - 1 \in 0..(MaxOutputIds - 1)
         /\ Positions(w)[<<sub_tokens - 1, e>>]
              \in StartAt(e)..(StartAt(e) + Named(e, i_token[w] + sub_tokens))
<1> DEFINE i == i_token[w]
           n == sub_tokens
           a == StartAt(e)
           c == smem_cumsum[e]
           N(k) == Named(e, i + k)
           t == TokensOf(e)
           m == MaxOutputIds
<1>1. /\ pc[w] = "fill" /\ ~waiting[w] /\ input \in Inputs /\ BlockOK
      /\ e \in GroupExpertsOf(w) /\ Enabled(e) /\ e \in Experts
  BY DEF At, WavesInv, BlockSound, FillExpertsOf, GroupExpertsOf
<1>2. n \in Nat \ {0} /\ n % LaneGroup = 0 /\ i \in Nat
  BY <1>1 DEF BlockOK, Tokens
<1>3. c \in a..(a + Named(e, i))
  <2>1. ListedBy(w) = i
    BY <1>1 DEF ListedBy
  <2> HIDE DEF a, i
  <2> QED BY <1>1, <2>1 DEF BlockSound, StartsInv, StartsMoved, AfterScan, a
<1>4. PICK P : Runs(P, ShownIn(e), n)
  <2> DEFINE F == ShownIn(e)
  <2>1. \A s \in 0..(n - 1) : F[s] \in Int
    BY DEF ShownIn, Rows
  <2> HIDE DEF F, n
  <2>2. \E P : Runs(P, F, n)
    BY <1>2, <2>1, RunsExist
  <2> QED BY <2>2 DEF F
<1>5. a \in Nat /\ t \in Nat /\ a + t <= m /\ m \in Nat
  <2> DEFINE z == StartAt(input.experts)
  <2>1. a \in Nat /\ t \in Nat /\ a + t <= z /\ z <= m /\ m \in Nat /\ z \in Nat
    BY <1>1, StartsWithin, ListUnitsFit
  <2> HIDE DEF a, t, z, m
  <2> QED BY <2>1
<1>6. \A k \in Nat : N(k) \in Nat /\ N(k) <= t
  <2> SUFFICES ASSUME NEW k \in Nat PROVE N(k) \in Nat /\ N(k) <= t
    OBVIOUS
  <2> DEFINE x == i + k
  <2>1. x \in Nat /\ x <= x
    BY <1>2
  <2> HIDE DEF x
  <2>2. Named(e, x) \in Nat /\ Named(e, x) <= TokensOf(e)
    BY <1>1, <2>1, NamedStep, NamedUpTo
  <2> QED BY <2>2 DEF x
<1>7. Named(e, i) \in Nat /\ Named(e, i) <= t
  <2> HIDE DEF i
  <2>1. i <= i
    BY <1>2
  <2> QED BY <1>1, <1>2, <2>1, NamedStep, NamedUpTo
<1>8. c \in Int
  <2> HIDE DEF a, c, i
  <2> QED BY <1>3, <1>5, <1>7
<1>9. /\ DOMAIN Positions(w) = Rows \X FillExpertsOf(w)
      /\ \A s \in Rows : Positions(w)[<<s, e>>] = c + P[s + 1]
  BY <1>1, <1>2, <1>4, <1>8, PositionsAre
<1>10. /\ \A k \in 0..n : P[k] \in 0..(N(k) - Named(e, i))
       /\ \A s \in Rows : smem_tokens[<<s, e>>] # 0 => P[s + 1] > 0
  <2>1. \A s \in Rows : smem_tokens[<<s, e>>] # 0 => Names(i + s, e)
    BY <1>1 DEF BlockSound, CellsInv, CellsSound
  <2>2. n \in Nat
    BY <1>2
  <2> HIDE DEF i
  <2> QED BY <1>1, <1>2, <1>4, <2>1, <2>2, ShownFew
<1> HIDE DEF a, c, t, m, N, i
<1>11. ASSUME NEW s \in Rows
       PROVE  Positions(w)[<<s, e>>] = c + P[s + 1] /\ s + 1 \in 0..n /\ s + 1 \in Nat
              /\ P[s + 1] \in 0..(N(s + 1) - Named(e, i))
  <2>1. s + 1 \in 0..n /\ s + 1 \in Nat
    BY <1>2 DEF Rows
  <2> QED BY <1>9, <1>10, <2>1
<1>12. ASSUME NEW s \in Rows, smem_tokens[<<s, e>>] # 0
       PROVE  Positions(w)[<<s, e>>] - 1 \in 0..(m - 1)
  <2> DEFINE p == P[s + 1]
             x == N(s + 1)
             y == Named(e, i)
  <2>1. p \in 0..(x - y) /\ p > 0 /\ x \in Nat /\ x <= t /\ y \in Nat /\ y <= t
        /\ c \in a..(a + y) /\ Positions(w)[<<s, e>>] = c + p
    BY <1>3, <1>6, <1>7, <1>10, <1>11, <1>12
  <2> HIDE DEF p, x, y
  <2>2. c + p - 1 \in 0..(m - 1)
    BY <1>5, <2>1
  <2> QED BY <2>1, <2>2
<1>13. Positions(w)[<<n - 1, e>>] \in a..(a + N(n))
  <2> DEFINE p == P[n]
             x == N(n)
             y == Named(e, i)
             s == n - 1
  <2>1. s \in Rows /\ s + 1 = n
    BY <1>2 DEF Rows
  <2> HIDE DEF s
  <2>2. p \in 0..(x - y) /\ x \in Nat /\ y \in Nat /\ c \in a..(a + y)
        /\ Positions(w)[<<s, e>>] = c + p
    BY <1>2, <1>3, <1>6, <1>7, <1>11, <2>1
  <2> HIDE DEF p, x, y
  <2>3. c + p \in a..(a + x)
    BY <1>5, <2>2
  <2> QED BY <2>2, <2>3 DEF s, x
<1> QED BY <1>9, <1>12, <1>13 DEF a, m, N, i

\* A wave lists the tokens of its experts.
LEMMA FillKeeps ==
  ASSUME WavesInv, OutOK, BlockSound, NEW w \in Waves, Fill(w), UNCHANGED <<input, sub_tokens>>
  PROVE  BlockSound'
<1> DEFINE F == FillExpertsOf(w)
           upTo == Positions(w)
           cells == {c \in DOMAIN upTo : smem_tokens[c] # 0}
           writes == [x \in {upTo[c] - 1 : c \in cells} |->
                        LET c == CHOOSE d \in cells : upTo[d] - 1 = x
                        IN Entry(i_token[w] + c[1], smem_tokens[c] - 1)]
<1>1. /\ At(w, "fill") /\ pc[w] = "fill" /\ ~waiting[w] /\ Arrive(w)
      /\ UNCHANGED <<smem_tokens, smem_cumdup>>
      /\ smem_cumsum' = [x \in DOMAIN smem_cumsum |->
                           IF x \in F THEN upTo[<<sub_tokens - 1, x>>] ELSE smem_cumsum[x]]
      /\ out'.sorted = Stored(writes, out.sorted) /\ out'.expert_ids = out.expert_ids
  BY DEF Fill, At, OutOK, UpdatedAt
<1>2. /\ UNCHANGED <<pc, i_token>> /\ \A v \in Waves : v # w => waiting'[v] = waiting[v]
      /\ waiting'[w]
  BY <1>1 DEF Arrive, WavesInv
<1>3. input \in Inputs /\ BlockOK /\ BlockOK'
  BY <1>1, ArriveOK DEF BlockSound, WavesInv
<1>4. ASSUME NEW e \in F
      PROVE  /\ DOMAIN upTo = Rows \X F
             /\ \A s \in Rows : smem_tokens[<<s, e>>] # 0 => upTo[<<s, e>>] - 1 \in 0..(MaxOutputIds - 1)
             /\ upTo[<<sub_tokens - 1, e>>]
                  \in StartAt(e)..(StartAt(e) + Named(e, i_token[w] + sub_tokens))
  BY <1>1, FilledAt
<1> HIDE DEF upTo
<1>5. InBuffers'
  <2> DEFINE S == 0..(MaxOutputIds - 1)
  <2>1. DOMAIN writes \subseteq S
    <3>1. ASSUME NEW c \in cells PROVE upTo[c] - 1 \in S
      <4>1. c \in DOMAIN upTo /\ smem_tokens[c] # 0
        OBVIOUS
      <4>2. DOMAIN upTo = Rows \X F
        BY PositionsDomain DEF upTo
      <4>3. PICK s \in Rows, e \in F : c = <<s, e>>
        BY <4>1, <4>2
      <4> QED BY <1>4, <4>1, <4>3
    <3>2. DOMAIN writes = {upTo[c] - 1 : c \in cells}
      OBVIOUS
    <3> HIDE DEF S, writes, cells
    <3> QED BY <3>1, <3>2
  <2>2. DOMAIN out.sorted \subseteq S
    BY DEF BlockSound, InBuffers
  <2> HIDE DEF S, writes
  <2>3. DOMAIN out'.sorted \subseteq S
    BY <1>1, <2>1, <2>2, StoredInside
  <2> QED BY <1>1, <2>3, SameProblem DEF BlockSound, InBuffers, S
<1> HIDE DEF F
<1>6. \A e \in F : e \in GroupExpertsOf(w) /\ Enabled(e)
  BY DEF F, FillExpertsOf
<1>7. ASSUME NEW u \in Waves PROVE CellsInv(u)' /\ StartsInv(u)'
  <2>1. CellsInv(u) /\ StartsInv(u)
    BY DEF BlockSound
  <2>2. pc[u] \in {"ids", "clear2", "fill"} /\ (pc[u] = "clear2" => u # w)
    BY <1>1, SamePiece
  <2>3. pc[u] # "clear2"
    <3>1. SubTokenOneShot /\ pc[u] = "clear2" => pc[w] = "clear2"
      BY SamePiece
    <3>2. ~SubTokenOneShot => pc[u] = "fill"
      BY <1>1, SamePiece
    <3> QED BY <1>1, <3>1, <3>2
  <2>4. CellsInv(u)'
    <3>1. CellsSound(u)'
      BY <1>1, <1>2, <2>1, SameBlock, SameProblem DEF CellsInv, CellsSound
    <3> QED BY <1>2, <2>2, <2>3, <3>1 DEF CellsInv, CellsCleared, CellsCount, AllCountedIn
  <2>5. StartsKept(u)'
    BY <1>1, <1>2, <2>1, SameBlock DEF StartsInv, StartsKept
  <2>6. StartsMoved(u)'
    <3>1. pc[u] \in AfterScan
      BY <2>2 DEF AfterScan
    <3>2. smem_cumsum'[input.experts] = StartAt(input.experts)
      <4>1. input.experts \notin F /\ input.experts \in DOMAIN smem_cumsum
        BY <1>3, <1>6, Problem DEF GroupExpertsOf, Experts, WavesInv
      <4> QED BY <1>1, <2>1, <3>1, <4>1 DEF StartsInv, StartsMoved
    <3>3. ASSUME NEW e \in GroupExpertsOf(u)
          PROVE  smem_cumsum'[e] \in
                   StartAt(e)..(StartAt(e) + IF Enabled(e) THEN Named(e, ListedBy(u)') ELSE 0)
      <4>1. e \in DOMAIN smem_cumsum
        BY <1>3, Problem DEF GroupExpertsOf, Experts, WavesInv
      <4>2. CASE e \in F
        <5>1. u = w
          BY <1>6, <4>2, GroupsApart
        <5>2. ListedBy(u)' = i_token[w] + sub_tokens
          BY <1>1, <1>2, <5>1 DEF ListedBy
        <5>3. smem_cumsum'[e] = upTo[<<sub_tokens - 1, e>>]
          BY <1>1, <4>1, <4>2
        <5> QED BY <1>4, <1>6, <4>2, <5>2, <5>3
      <4>3. CASE e \notin F
        <5>1. smem_cumsum'[e] = smem_cumsum[e]
          BY <1>1, <4>1, <4>3
        <5>2. smem_cumsum[e] \in
                StartAt(e)..(StartAt(e) + IF Enabled(e) THEN Named(e, ListedBy(u)) ELSE 0)
          BY <2>1, <3>1 DEF StartsInv, StartsMoved
        <5>3. CASE u = w
          <6>1. ~Enabled(e)
            BY <4>3, <5>3 DEF F, FillExpertsOf
          <6> QED BY <5>1, <5>2, <6>1
        <5>4. CASE u # w
          <6>1. ListedBy(u)' = ListedBy(u)
            BY <1>2, <1>3, <5>4 DEF ListedBy
          <6> QED BY <5>1, <5>2, <6>1
        <5> QED BY <5>3, <5>4
      <4> QED BY <4>2, <4>3
    <3> QED BY <3>2, <3>3, SameBlock, SameProblem DEF StartsMoved
  <2> QED BY <1>2, <2>2, <2>4, <2>5, <2>6 DEF StartsInv
<1> QED BY <1>3, <1>5, <1>7 DEF BlockSound

\* When all waves wait after a clearing, no cell shows anything.
LEMMA AllCleared ==
  ASSUME WavesInv, BlockSound, \A v \in Waves : waiting[v] /\ pc[v] \in {"clear", "clear2"}
  PROVE  \A s \in Rows, e \in Experts : smem_tokens[<<s, e>>] = 0
<1> SUFFICES ASSUME NEW s \in Rows, NEW e \in Experts PROVE smem_tokens[<<s, e>>] = 0
  OBVIOUS
<1> DEFINE x == s * input.experts + e
<1>1. x \in Nat
  <2>1. s \in Nat /\ e \in Nat /\ input.experts \in Nat
    BY Problem DEF WavesInv, Rows, Experts
  <2> QED BY <2>1
<1>2. PICK w \in Waves : x % BlockThreads \in ThreadsOf(w)
  BY <1>1, WaveHas
<1>3. <<s, e>> \in CellsOf(w)
  BY <1>2 DEF CellsOf, BlockSound, BlockOK
<1> QED BY <1>3 DEF BlockSound, CellsInv, CellsCleared

\* When all waves wait after a load, they have read all of the round.
LEMMA AllLoaded ==
  ASSUME WavesInv, BlockSound, \A v \in Waves : waiting[v], NEW u \in Waves, NEW e \in Experts
  PROVE  /\ \A s \in Rows : Loaded(u, s, e) <=> Names(i_token[u] + s, e)
         /\ Cardinality({s \in Rows : Loaded(u, s, e)})
              = Named(e, i_token[u] + sub_tokens) - Named(e, i_token[u])
         /\ Named(e, i_token[u] + sub_tokens) \in Nat /\ Named(e, i_token[u]) \in Nat
<1>1. input \in Inputs /\ sub_tokens \in Nat /\ i_token[u] \in Nat
  BY DEF WavesInv, BlockSound, BlockOK, Tokens
<1>2. ASSUME NEW s \in Rows PROVE Loaded(u, s, e) <=> Names(i_token[u] + s, e)
  <2>1. ASSUME NEW k \in TopkIds PROVE \E v \in Waves : waiting[v] /\ Reads(v, s, k)
    <3> DEFINE x == s * Topk + k
    <3>1. x \in Nat
      <4>1. s \in Nat /\ k \in Nat /\ Topk \in Nat
        BY SortAssumption DEF Rows, TopkIds
      <4> QED BY <4>1
    <3>2. PICK v \in Waves : x % BlockThreads \in ThreadsOf(v)
      BY <3>1, WaveHas
    <3> QED BY <3>2 DEF Reads
  <2> QED BY <2>1 DEF Loaded, Names
<1> DEFINE i == i_token[u]
           n == sub_tokens
           A == {s \in Rows : Loaded(u, s, e)}
<1>3. A = {s \in 0..(n - 1) : Names(i + s, e)}
  BY <1>2 DEF Rows
<1>4. Cardinality({s \in 0..(n - 1) : Names(i + s, e)}) = Named(e, i + n) - Named(e, i)
  BY <1>1, NamedFrom
<1>5. Named(e, i + n) \in Nat /\ Named(e, i) \in Nat
  <2>1. i \in Nat /\ i + n \in Nat
    BY <1>1
  <2> HIDE DEF i, n
  <2> DEFINE x == i + n
  <2>2. x \in Nat
    BY <2>1
  <2> HIDE DEF x
  <2>3. Named(e, x) \in Nat /\ Named(e, i) \in Nat
    BY <1>1, <2>1, <2>2, NamedStep
  <2> QED BY <2>3 DEF x
<1> QED BY <1>2, <1>3, <1>4, <1>5

\* After the last round the tokens of every expert have been counted.
LEMMA AllAreCounted ==
  ASSUME WavesInv, BlockSound, NEW u \in Waves,
         \A v \in Waves : waiting[v] /\ pc[v] = "load", ~MoreRounds(u), NEW e \in Experts
  PROVE  CountIn(e) = TokensOf(e)
<1>1. /\ input \in Inputs /\ sub_tokens \in Nat \ {0} /\ i_token[u] \in Nat
      /\ input.tokens \in Nat /\ CellsCount(u) /\ CellsSound(u)
  BY Problem DEF WavesInv, BlockSound, BlockOK, Tokens, CellsInv
<1>2. /\ \A s \in Rows : Loaded(u, s, e) <=> Names(i_token[u] + s, e)
      /\ Cardinality({s \in Rows : Loaded(u, s, e)})
           = Named(e, i_token[u] + sub_tokens) - Named(e, i_token[u])
      /\ Named(e, i_token[u] + sub_tokens) \in Nat /\ Named(e, i_token[u]) \in Nat
  BY AllLoaded
<1>3. CASE SubTokenOneShot
  <2>1. i_token[u] = 0
    BY <1>3 DEF BlockSound, BlockOK
  <2>2. \A s \in Rows : 0 + s = s
    BY <1>1 DEF Rows
  <2>3. \A s \in Rows : smem_tokens[<<s, e>>] # 0 => Names(i_token[u] + s, e)
    BY <1>1, <1>3 DEF CellsSound
  <2>4. \A s \in Rows : Loaded(u, s, e) => smem_tokens[<<s, e>>] # 0
    BY <1>1, <1>3 DEF CellsCount
  <2>5. \A s \in Rows : smem_tokens[<<s, e>>] # 0 <=> Names(s, e)
    BY <1>2, <2>1, <2>2, <2>3, <2>4
  <2>6. sub_tokens \in Nat
    BY <1>1
  <2> QED BY <1>1, <1>3, <2>5, <2>6, ShownAll
<1>4. CASE ~SubTokenOneShot
  <2>1. SumFunctionOnSet([s \in Rows |-> smem_tokens[<<s, e>>]], Rows)
          = Named(e, i_token[u]) + Cardinality({s \in Rows : Loaded(u, s, e)})
    BY <1>1, <1>4 DEF CellsCount
  <2>2. CountIn(e) = SumFunctionOnSet([s \in Rows |-> smem_tokens[<<s, e>>]], Rows)
    BY <1>4 DEF CountIn, Rows
  <2> DEFINE x == i_token[u] + sub_tokens
  <2>3. x \in Nat /\ x >= input.tokens /\ x <= x
    BY <1>1 DEF MoreRounds
  <2>4. CountIn(e) = Named(e, x)
    BY <1>2, <2>1, <2>2
  <2> HIDE DEF x
  <2>5. Named(e, x) = TokensOf(e)
    BY <1>1, <2>3, NamedUpTo
  <2> QED BY <2>4, <2>5
<1> QED BY <1>3, <1>4

\* The next round starts to count where this one has counted to.
LEMMA NextRoundCounts ==
  ASSUME WavesInv, BlockSound, NEW u \in Waves, \A v \in Waves : waiting[v],
         \/ pc[u] = "load" /\ MoreRounds(u) /\ i_token'[u] = i_token[u] + sub_tokens
         \/ pc[u] = "clear" /\ i_token'[u] = i_token[u],
         \A v \in Waves : pc[v] = pc[u],
         UNCHANGED <<input, sub_tokens, smem_tokens>>, \A v \in Waves : ~waiting'[v]
  PROVE  CellsCount(u)'
<1>1. /\ input \in Inputs /\ sub_tokens \in Nat \ {0} /\ i_token[u] \in Nat
      /\ input.tokens \in Nat /\ CellsCount(u)
  BY Problem DEF WavesInv, BlockSound, BlockOK, Tokens, CellsInv
<1>2. \A s, e : ~Loaded(u, s, e)'
  BY DEF Loaded
<1>3. Cardinality({}) = 0
  BY FS_EmptySet
<1> SUFFICES ASSUME ~SubTokenOneShot, NEW e \in Experts
             PROVE  /\ \A s \in Rows : smem_tokens[<<s, e>>] \in Int
                    /\ SumFunctionOnSet([s \in Rows |-> smem_tokens[<<s, e>>]], Rows)
                         = Named(e, i_token'[u]) + Cardinality({s \in Rows : Loaded(u, s, e)'})
  BY <1>2, SameBlock, SameProblem DEF CellsCount
<1>4. Cardinality({s \in Rows : Loaded(u, s, e)'}) = 0
  <2>1. {s \in Rows : Loaded(u, s, e)'} = {}
    BY <1>2
  <2> QED BY <1>3, <2>1
<1>5. CASE pc[u] = "load"
  <2>1. /\ \A s \in Rows : smem_tokens[<<s, e>>] \in Int
        /\ SumFunctionOnSet([s \in Rows |-> smem_tokens[<<s, e>>]], Rows)
             = Named(e, i_token[u]) + Cardinality({s \in Rows : Loaded(u, s, e)})
    BY <1>1, <1>5 DEF CellsCount
  <2> DEFINE x == i_token[u] + sub_tokens
  <2>2. /\ Cardinality({s \in Rows : Loaded(u, s, e)}) = Named(e, x) - Named(e, i_token[u])
        /\ Named(e, x) \in Nat /\ Named(e, i_token[u]) \in Nat
    BY AllLoaded
  <2>3. i_token'[u] = x
    BY <1>5
  <2> HIDE DEF x
  <2> QED BY <1>4, <2>1, <2>2, <2>3
<1>6. CASE pc[u] = "clear"
  <2>1. \A s \in Rows : smem_tokens[<<s, e>>] = 0
    BY <1>6, AllCleared
  <2>2. i_token[u] = 0 /\ i_token'[u] = 0
    BY <1>6 DEF BlockSound, BlockOK, InRounds
  <2> DEFINE f == [s \in Rows |-> smem_tokens[<<s, e>>]]
             n == sub_tokens
  <2>3. \A s \in 0..(n - 1) : f[s] = 0
    BY <2>1 DEF Rows
  <2>4. n \in Nat /\ Rows = 0..(n - 1)
    BY <1>1 DEF Rows
  <2> HIDE DEF f, n
  <2>5. SumFunctionOnSet(f, Rows) = 0
    BY <2>3, <2>4, SumOfZeros
  <2>6. Named(e, 0) = 0
    <3>1. 0 \in Nat
      OBVIOUS
    <3> QED BY <1>1, <3>1, NamedStep
  <2>7. SumFunctionOnSet(f, Rows) = Named(e, i_token'[u]) + Cardinality({s \in Rows : Loaded(u, s, e)'})
    BY <1>4, <2>2, <2>5, <2>6
  <2> QED BY <2>1, <2>7 DEF f
<1> QED BY <1>5, <1>6

\* All waves go on behind the barrier.
LEMMA SyncKeeps ==
  ASSUME WavesInv, BlockSound, Syncthreads, UNCHANGED <<input, sub_tokens>>
  PROVE  BlockSound'
<1>1. /\ \A w \in Waves : waiting[w] /\ ~waiting'[w]
      /\ pc' = [w \in Waves |-> AfterBarrier(w)] /\ i_token' = [w \in Waves |-> RoundAfter(w)]
      /\ UNCHANGED <<smem_tokens, smem_cumsum, smem_cumdup, out>>
  BY DEF Syncthreads
<1>2. InBuffers'
  BY <1>1, BuffersStay DEF BlockSound
<1>3. input \in Inputs /\ BlockOK /\ 0 \in Waves
  BY RowSizes DEF WavesInv, BlockSound, Waves
<1>4. /\ input.tokens \in Nat \ {0} /\ sub_tokens \in Nat \ {0} /\ Tokens = 0..(input.tokens - 1)
      /\ \A u \in Waves : i_token[u] \in Tokens
      /\ \A u \in Waves : SubTokenOneShot \/ pc[u] \notin InRounds => i_token[u] = 0
  BY <1>3, Problem DEF BlockOK, Tokens
<1>5. ASSUME NEW u \in Waves
      PROVE  /\ pc[u] \in {"clear", "load", "count", "scan", "clear2", "load2", "fill"}
             /\ \A v \in Waves : pc[v] = pc[u]
             /\ pc'[u] = AfterBarrier(u) /\ i_token'[u] = RoundAfter(u)
             /\ CellsInv(u) /\ StartsInv(u)
             /\ SubTokenOneShot => i_token[u] = 0 /\ ~MoreRounds(u)
  <2>1. pc[u] \in {"clear", "load", "count", "scan", "clear2", "load2", "fill"}
    BY <1>1 DEF WavesInv, NoBarrier, Pieces
  <2>2. \A v \in Waves : pc[v] = pc[u]
    BY <1>1 DEF WavesInv, Adjacent, NoBarrier
  <2>3. SubTokenOneShot => i_token[u] = 0 /\ ~MoreRounds(u)
    BY <1>4 DEF MoreRounds, SubTokenOneShot
  <2> QED BY <1>1, <2>1, <2>2, <2>3 DEF BlockSound
<1>6. ASSUME NEW u \in Waves PROVE i_token'[u] \in Tokens
  <2>1. i_token[u] \in Nat /\ (MoreRounds(u) => i_token[u] + sub_tokens \in Tokens) /\ 0 \in Tokens
    BY <1>4 DEF MoreRounds
  <2> QED BY <1>4, <1>5, <2>1 DEF RoundAfter
<1>7. BlockOK'
  <2>1. ASSUME NEW u \in Waves, SubTokenOneShot \/ pc'[u] \notin InRounds PROVE i_token'[u] = 0
    <3>1. CASE SubTokenOneShot
      BY <1>5, <3>1 DEF RoundAfter
    <3>2. CASE pc'[u] \notin InRounds
      BY <1>4, <1>5, <3>2 DEF RoundAfter, AfterBarrier, InRounds
    <3> QED BY <2>1, <3>1, <3>2
  <2> QED BY <1>1, <1>3, <1>6, <2>1, SameBlock, SameProblem DEF BlockOK
<1>8. ASSUME NEW u \in Waves PROVE CellsInv(u)'
  <2>1. CellsCleared(u)'
    BY <1>1 DEF CellsCleared
  <2>2. CellsSound(u)'
    <3> SUFFICES ASSUME pc'[u] \in {"load2", "fill"}
                          \/ (SubTokenOneShot /\ pc'[u] \in {"load", "count", "scan", "ids"}),
                        NEW s \in Rows, NEW e \in Experts, smem_tokens[<<s, e>>] # 0
                 PROVE  Names(i_token'[u] + s, e)
      BY <1>1, SameBlock, SameProblem DEF CellsSound
    <3>1. pc[u] \notin {"clear", "clear2"}
      BY <1>1, <1>5, AllCleared
    <3>2. pc[u] = "load2" \/ (SubTokenOneShot /\ pc[u] \in {"load", "count", "scan"})
      BY <1>5, <3>1 DEF AfterBarrier
    <3>3. i_token'[u] = i_token[u]
      BY <1>5, <3>2 DEF RoundAfter
    <3>4. Names(i_token[u] + s, e)
      BY <1>5, <3>2 DEF CellsInv, CellsSound
    <3> QED BY <3>3, <3>4
  <2>3. CellsCount(u)'
    <3>1. CASE pc'[u] = "load"
      <4>1. \/ pc[u] = "load" /\ MoreRounds(u) /\ i_token'[u] = i_token[u] + sub_tokens
            \/ pc[u] = "clear" /\ i_token'[u] = i_token[u]
        BY <1>5, <3>1 DEF AfterBarrier, RoundAfter
      <4> QED BY <1>1, <1>5, <4>1, NextRoundCounts
    <3>2. CASE pc'[u] # "load"
      BY <3>2 DEF CellsCount
    <3> QED BY <3>1, <3>2
  <2>4. AllCountedIn(u)'
    <3> SUFFICES ASSUME pc'[u] = "count", NEW e \in Experts PROVE CountIn(e)' = TokensOf(e)'
      BY SameProblem DEF AllCountedIn
    <3>1. pc[u] = "load" /\ ~MoreRounds(u)
      BY <1>5 DEF AfterBarrier
    <3>2. CountIn(e) = TokensOf(e)
      BY <1>1, <1>5, <3>1, AllAreCounted
    <3>3. CountIn(e)' = CountIn(e)
      BY <1>1, SameBlock DEF CountIn
    <3> QED BY <3>2, <3>3, SameProblem
  <2> QED BY <2>1, <2>2, <2>3, <2>4 DEF CellsInv
<1>9. ASSUME NEW u \in Waves PROVE StartsInv(u)'
  <2>1. pc'[u] = "scan" => CountStored(u)'
    <3> SUFFICES ASSUME pc'[u] = "scan" PROVE CountStored(u)'
      OBVIOUS
    <3>1. pc[u] = "count"
      BY <1>5 DEF AfterBarrier
    <3>2. CountStored(u)
      BY <1>1, <1>5, <3>1 DEF StartsInv
    <3> QED BY <1>1, <3>2, SameBlock, SameProblem DEF CountStored
  <2>2. pc'[u] = "scan" => ~waiting'[0]
    BY <1>1, <1>3
  <2>3. pc'[u] # "count" \/ ~waiting'[u]
    BY <1>1
  <2>4. StartsMoved(u)'
    <3> SUFFICES ASSUME pc'[u] \in AfterScan
                 PROVE  /\ smem_cumsum[input.experts] = StartAt(input.experts)
                        /\ \A e \in GroupExpertsOf(u) : smem_cumsum[e] \in
                             StartAt(e)..(StartAt(e) + IF Enabled(e) THEN Named(e, ListedBy(u)') ELSE 0)
      BY <1>1, SameBlock, SameProblem DEF StartsMoved
    <3>1. pc[u] \in {"scan", "clear2", "load2", "fill"}
      BY <1>5 DEF AfterBarrier, AfterScan
    <3>2. CASE pc[u] = "scan"
      <4>1. \A x \in 0..input.experts : smem_cumsum[x] = StartAt(x)
        BY <1>1, <1>3, <1>5, <3>2 DEF StartsInv
      <4>2. input.experts \in 0..input.experts /\ Experts \subseteq 0..input.experts
        BY <1>3, Problem DEF Experts
      <4>3. ListedBy(u)' = i_token[u] /\ i_token[u] \in Nat
        BY <1>1, <1>4, <1>5, <3>2 DEF ListedBy, AfterBarrier, RoundAfter
      <4>4. ASSUME NEW e \in GroupExpertsOf(u)
            PROVE  smem_cumsum[e] \in
                     StartAt(e)..(StartAt(e) + IF Enabled(e) THEN Named(e, ListedBy(u)') ELSE 0)
        <5> DEFINE a == StartAt(e)
                   m == Named(e, ListedBy(u)')
        <5>1. e \in Experts
          BY DEF GroupExpertsOf
        <5>2. smem_cumsum[e] = a /\ a \in Nat /\ m \in Nat
          BY <1>3, <4>1, <4>2, <4>3, <5>1, StartsWithin, NamedStep
        <5> HIDE DEF a, m
        <5>3. smem_cumsum[e] \in a..(a + IF Enabled(e) THEN m ELSE 0)
          BY <5>2
        <5> QED BY <5>3 DEF a, m
      <4> QED BY <4>1, <4>2, <4>4
    <3>3. CASE pc[u] # "scan"
      <4>1. StartsMoved(u) /\ pc[u] \in AfterScan
        BY <1>5, <3>1, <3>3 DEF StartsInv, AfterScan
      <4>2. \A e \in GroupExpertsOf(u) : Named(e, ListedBy(u)') = Named(e, ListedBy(u))
        <5>1. CASE pc[u] \in {"clear2", "load2"}
          <6>1. ListedBy(u)' = ListedBy(u)
            BY <1>1, <1>5, <5>1 DEF ListedBy, AfterBarrier, RoundAfter
          <6> QED BY <6>1
        <5>2. CASE pc[u] = "fill" /\ MoreRounds(u)
          <6>1. ListedBy(u)' = ListedBy(u)
            BY <1>1, <1>5, <5>2 DEF ListedBy, AfterBarrier, RoundAfter
          <6> QED BY <6>1
        <5>3. CASE pc[u] = "fill" /\ ~MoreRounds(u)
          <6> DEFINE x == i_token[u] + sub_tokens
          <6>1. ListedBy(u) = x /\ ListedBy(u)' = input.tokens
            BY <1>1, <1>5, <5>3 DEF ListedBy, AfterBarrier
          <6>2. x \in Nat /\ x >= input.tokens /\ x <= x
            BY <1>4, <5>3 DEF MoreRounds
          <6> HIDE DEF x
          <6>3. \A e : Named(e, x) = TokensOf(e)
            BY <1>3, <6>2, NamedUpTo
          <6> QED BY <6>1, <6>3 DEF TokensOf
        <5> QED BY <3>1, <3>3, <5>1, <5>2, <5>3
      <4> QED BY <4>1, <4>2 DEF StartsMoved
    <3> QED BY <3>2, <3>3
  <2>5. StartsKept(u)'
    <3>1. pc'[u] \in AfterScan \ {"ids"} => pc[u] \in AfterScan \ {"ids"}
      BY <1>5 DEF AfterBarrier, AfterScan
    <3> QED BY <1>1, <1>5, <3>1, SameBlock DEF StartsInv, StartsKept
  <2> QED BY <2>1, <2>2, <2>3, <2>4, <2>5 DEF StartsInv
<1> QED BY <1>2, <1>7, <1>8, <1>9 DEF BlockSound

\* A launch starts with what the one before has left.
LEMMA AgainKeeps ==
  ASSUME WavesInv, BlockSound, path = <<>>, Again
  PROVE  BlockSound'
<1>1. /\ UNCHANGED <<input, out, sub_tokens, waiting, i_token, smem_tokens, smem_cumsum, smem_cumdup>>
      /\ UNCHANGED pc \/ pc' = [w \in Waves |-> "clear"]
      /\ \A w \in Waves : pc[w] = "done"
  BY DEF Again, Finished, StartOfBlock, smemVars
<1>2. /\ \A w \in Waves : ~waiting[w] /\ i_token[w] = 0
      /\ (\A w \in Waves : pc'[w] = "done" /\ pc'[w] = pc[w]) \/ \A w \in Waves : pc'[w] = "clear"
  BY <1>1 DEF WavesInv, NoBarrier, BlockSound, BlockOK, InRounds
<1>3. BlockOK'
  BY <1>1, <1>2, SameBlock, SameProblem DEF BlockSound, BlockOK
<1>4. InBuffers'
  BY <1>1, BuffersStay DEF BlockSound
<1>5. ASSUME NEW u \in Waves PROVE CellsInv(u)' /\ StartsInv(u)'
  <2>1. CellsInv(u)'
    BY <1>1, <1>2 DEF CellsInv, CellsCleared, CellsSound, CellsCount, AllCountedIn
  <2>2. CASE pc'[u] = "clear"
    BY <2>1, <2>2 DEF StartsInv, StartsMoved, StartsKept, AfterScan
  <2>3. CASE pc'[u] = "done" /\ pc'[u] = pc[u]
    <3>1. ListedBy(u)' = ListedBy(u)
      BY <1>1, <2>3 DEF ListedBy
    <3>2. StartsInv(u)
      BY DEF BlockSound
    <3> QED BY <1>1, <2>1, <2>3, <3>1, <3>2, SameBlock, SameProblem
        DEF StartsInv, StartsMoved, StartsKept
  <2> QED BY <1>2, <2>2, <2>3
<1> QED BY <1>3, <1>4, <1>5 DEF BlockSound

\* The host starts a block on LDS nobody has written.
LEMMA BlockInit == Init => BlockInv
<1> SUFFICES ASSUME Init, path = <<>> PROVE BlockSound
  BY DEF BlockInv
<1>1. /\ input \in Inputs /\ DOMAIN out.sorted = {} /\ DOMAIN out.expert_ids = {}
      /\ sub_tokens = SubTokens(input.tokens, input.experts)
      /\ \A w \in Waves : pc[w] = "clear" /\ ~waiting[w] /\ i_token[w] = 0
      /\ DOMAIN smem_tokens = Rows \X Experts /\ DOMAIN smem_cumdup = 0..input.experts
  BY DEF Init, FreshOut, Nothing, StartOfBlock, Rows
<1>2. 0 \in Tokens
  BY <1>1, Problem DEF Tokens
<1>3. BlockOK
  BY <1>1, <1>2, RowsOfTokens DEF BlockOK
<1>4. \A w \in Waves : CellsInv(w)
  BY <1>1 DEF CellsInv, CellsCleared, CellsSound, CellsCount, AllCountedIn
<1>5. \A w \in Waves : StartsInv(w)
  BY <1>1 DEF StartsInv, StartsMoved, StartsKept, AfterScan
<1> QED BY <1>1, <1>3, <1>4, <1>5 DEF BlockSound, InBuffers

\* Nothing that the block works on changes.
LEMMA BlockStays ==
  ASSUME BlockInv, UNCHANGED <<input, out, path, exVars>>
  PROVE  BlockInv'
<1> SUFFICES ASSUME path = <<>> PROVE BlockSound'
  BY DEF BlockInv
<1>1. UNCHANGED <<sub_tokens, pc, waiting, i_token, smem_tokens, smem_cumsum, smem_cumdup>>
  BY DEF exVars
<1>2. BlockSound
  BY DEF BlockInv
<1>3. InBuffers'
  BY <1>2, BuffersStay DEF BlockSound
<1>4. BlockOK'
  BY <1>1, <1>2, SameBlock, SameProblem DEF BlockSound, BlockOK
<1>5. ASSUME NEW u \in Waves PROVE CellsInv(u)' /\ StartsInv(u)'
  <2>1. CellsInv(u) /\ StartsInv(u)
    BY <1>2 DEF BlockSound
  <2>2. ListedBy(u)' = ListedBy(u)
    BY <1>1 DEF ListedBy
  <2>3. StartsInv(u)'
    BY <1>1, <2>1, <2>2, SameBlock, SameProblem DEF StartsInv, StartsMoved, StartsKept, CountStored
  <2>4. CellsOf(u)' = CellsOf(u)
    BY <1>1 DEF CellsOf
  <2>5. \A e : CountIn(e)' = CountIn(e)
    BY <1>1, SameBlock DEF CountIn
  <2>6. \A s, e : Loaded(u, s, e)' = Loaded(u, s, e)
    BY <1>1, SameProblem DEF Loaded
  <2>7. CellsCleared(u)' /\ CellsSound(u)' /\ AllCountedIn(u)'
    BY <1>1, <2>1, <2>4, <2>5, SameBlock, SameProblem
    DEF CellsInv, CellsCleared, CellsSound, AllCountedIn
  <2>8. CellsCount(u)'
    <3>1. /\ Rows' = Rows /\ SubTokenOneShot' = SubTokenOneShot /\ Experts' = Experts
          /\ \A e, m : Named(e, m)' = Named(e, m)
      BY <1>1, SameBlock, SameProblem
    <3>2. CellsCount(u)
      BY <2>1 DEF CellsInv
    <3> QED BY <1>1, <2>6, <3>1, <3>2 DEF CellsCount
  <2> QED BY <2>3, <2>7, <2>8 DEF CellsInv
<1> QED BY <1>3, <1>4, <1>5 DEF BlockSound

\* Every step of the block keeps it, one lemma per action.
LEMMA BlockInvStep == WavesInv /\ OutOK /\ BlockInv /\ [Next]_vars => BlockInv'
<1> SUFFICES ASSUME WavesInv, OutOK, BlockInv, [Next]_vars PROVE BlockInv'
  OBVIOUS
<1> SUFFICES ASSUME path = <<>> PROVE BlockSound'
  <2>1. path' = path
    <3>1. MpNext => path' = path
      BY DEF MpNext, P0, P1, P01Mesh, P01Inc, P01Count, P2, P3, P23, NextKernel
    <3>2. UNCHANGED <<mpVars, sorts>> => path' = path
      BY DEF mpVars
    <3>3. UNCHANGED vars => path' = path
      BY DEF vars, mpVars
    <3>4. Again => path' = path
      BY DEF Again
    <3> QED BY <3>1, <3>2, <3>3, <3>4 DEF Next, Terminated
  <2> QED BY <2>1 DEF BlockInv
<1>1. BlockSound
  BY DEF BlockInv
<1>2. CASE ExNext /\ UNCHANGED mpVars
  <2>1. UNCHANGED <<input, sub_tokens>>
    BY <1>2 DEF ExNext
  <2>2. \/ \E w \in Waves :
             \/ (\E point \in {"clear", "clear2"} : Clear(w, point)) /\ UNCHANGED out
             \/ (Load(w) \/ Load2(w)) /\ UNCHANGED out
             \/ Count(w) \/ Scan(w) \/ Ids(w) \/ Fill(w) \/ Pad(w)
        \/ Syncthreads \/ ClearMoeBuf
    BY <1>2 DEF ExNext
  <2>3. ASSUME NEW w \in Waves, \E point \in {"clear", "clear2"} : Clear(w, point), UNCHANGED out
        PROVE  BlockSound'
    BY <1>1, <2>1, <2>3, ClearKeeps
  <2>4. ASSUME NEW w \in Waves, Load(w) \/ Load2(w), UNCHANGED out PROVE BlockSound'
    BY <1>1, <2>1, <2>4, LoadKeeps, Load2Keeps
  <2>5. ASSUME NEW w \in Waves, Count(w) \/ Scan(w) PROVE BlockSound'
    BY <1>1, <2>1, <2>5, CountKeeps, ScanKeeps
  <2>6. ASSUME NEW w \in Waves, Ids(w) \/ Fill(w) \/ Pad(w) PROVE BlockSound'
    BY <1>1, <2>1, <2>6, IdsKeeps, FillKeeps, PadKeeps
  <2> QED BY <1>1, <2>1, <2>2, <2>3, <2>4, <2>5, <2>6, SyncKeeps, ClearMoeKeeps
<1>3. CASE MpNext
  <2>1. stage \in DOMAIN path
    BY <1>3 DEF MpNext, P0, P1, P01Mesh, P01Inc, P01Count, P2, P3, P23, NextKernel, Running
  <2> QED BY <2>1
<1>4. CASE Again
  BY <1>1, <1>4, AgainKeeps
<1>5. CASE UNCHANGED vars
  <2>1. UNCHANGED <<input, out, path, exVars>>
    BY <1>5 DEF vars, mpVars
  <2> QED BY <2>1, BlockStays DEF BlockInv
<1> QED BY <1>2, <1>3, <1>4, <1>5 DEF Next, Terminated

\* Tables and block together.
LEMMA SortInvariance == Spec => [](MpInv /\ TablesInv /\ OutOK /\ WavesInv /\ BlockInv)
<1>1. Init => WavesInv /\ BlockInv
  BY WavesInit, BlockInit
<1>2. WavesInv /\ OutOK /\ BlockInv /\ [Next]_vars => WavesInv' /\ BlockInv'
  BY WavesStep, BlockInvStep
<1> QED BY <1>1, <1>2, TablesInvariance, PTL DEF Spec

\* The buffers hold what is written, unless threads of P2 or P23 are idle.
LEMMA WritesFit == Spec => []((path = <<>> \/ IdleUnits = 0) => WritesInBuffers)
<1>1. TablesInv /\ BlockInv => ((path = <<>> \/ IdleUnits = 0) => WritesInBuffers)
  BY DEF TablesInv, BuffersFit, BlockInv, BlockSound, WritesInBuffers
<1> QED BY <1>1, SortInvariance, PTL

\* No kernel of a sort, with one block or many, in whatever order its blocks and
\* waves run, in one round or several, writes past the end of the sorted ids or
\* of the experts of the units: the host's bound, which leaves out Topk entries
\* of the worst padding, is enough.  When experts without tokens are kept and
\* there is no mask, this needs an expert for every thread: each thread of P2 and
\* P23 that has none lengthens the last list by a unit.
THEOREM SortWritesInBuffers ==
  ASSUME NoIdleUnits
  PROVE  Spec => []WritesInBuffers
<1>1. MpInv /\ path # <<>> => IdleUnits = 0
  BY NoneIdle DEF MpInv, LaunchOK
<1>2. MpInv /\ ((path = <<>> \/ IdleUnits = 0) => WritesInBuffers) => WritesInBuffers
  BY <1>1
<1> QED BY <1>2, WritesFit, SortInvariance, PTL

\* One block writes inside the buffers for every problem: it takes the total from
\* the lane of the last expert, whatever the lanes after that one add.
THEOREM OneBlockWritesInBuffers == Spec => [](path = <<>> => WritesInBuffers)
<1>1. ((path = <<>> \/ IdleUnits = 0) => WritesInBuffers) => (path = <<>> => WritesInBuffers)
  OBVIOUS
<1> QED BY <1>1, WritesFit, PTL

(***************************************************************************)
(* The types of the words.                                                 *)
(***************************************************************************)
\* the blocks that are past the semaphore's increment
Passed == {b \in Grid : at[b] \in {"wait", "done"}}

\* the semaphore has been incremented once per block and launch, at most
SemBound ==
  /\ sem \in 0..(NumSorts * GridSize)
  /\ stage = 1 => sem <= sorts * GridSize + Cardinality(Passed)
  /\ stage > 1 /\ sorts < NumSorts => sem <= sorts * GridSize + GridSize

LaunchInv ==
  /\ sorts \in 0..NumSorts
  /\ stage \in DOMAIN path => sorts < NumSorts
  /\ path = <<>> => \A et \in DOMAIN mesh : mesh[et] = 0
  /\ path # <<>> => \A w \in Waves : i_token[w] = 0
  /\ IF path = <<"P01", "P23">> THEN SemBound ELSE sem = 0

\* What the launches of all sorts add up to.
LEMMA LaunchProducts ==
  /\ GridSize \in Nat \ {0} /\ NumSorts \in Nat \ {0}
  /\ NumSorts * GridSize \in Nat
  /\ \A n \in Nat : n * GridSize \in Nat /\ (n + 1) * GridSize = n * GridSize + GridSize
  /\ \A n \in Nat : n < NumSorts => n * GridSize + GridSize <= NumSorts * GridSize
<1>1. GridSize \in Nat \ {0} /\ NumSorts \in Nat \ {0}
  BY MpAssumption, HostAssumption
<1>2. NumSorts * GridSize \in Nat
  BY <1>1
<1>3. \A n \in Nat : n * GridSize \in Nat /\ (n + 1) * GridSize = n * GridSize + GridSize
  BY <1>1
<1>4. ASSUME NEW n \in Nat, n < NumSorts
      PROVE  n * GridSize + GridSize <= NumSorts * GridSize
  <2>1. n + 1 <= NumSorts /\ n + 1 \in Nat
    BY <1>1, <1>4
  <2>2. (n + 1) * GridSize <= NumSorts * GridSize
    BY <1>1, <2>1, ProductOrder
  <2> QED BY <1>3, <2>2
<1> QED BY <1>1, <1>2, <1>3, <1>4

\* The blocks of a launch.
LEMMA SomeBlocks ==
  ASSUME NEW S \in SUBSET Grid
  PROVE  IsFiniteSet(S) /\ Cardinality(S) \in Nat /\ Cardinality(S) <= GridSize
<1>1. GridSize \in Nat \ {0}
  BY LaunchProducts
<1>2. IsFiniteSet(Grid) /\ Cardinality(Grid) = GridSize
  BY <1>1, FS_Interval DEF Grid
<1> QED BY <1>2, FS_Subset, FS_CardinalityType

\* Those past the semaphore.
LEMMA PassedSize ==
  IsFiniteSet(Passed) /\ Cardinality(Passed) \in Nat /\ Cardinality(Passed) <= GridSize
<1>1. Passed \in SUBSET Grid
  BY DEF Passed
<1> QED BY <1>1, SomeBlocks

\* A sort starts with an empty workspace.
LEMMA LaunchInit == Init => LaunchInv
<1> SUFFICES ASSUME Init PROVE LaunchInv
  OBVIOUS
<1>1. /\ sorts = 0 /\ stage = 1 /\ sem = 0 /\ \A w \in Waves : i_token[w] = 0
      /\ mesh = [et \in Experts \X (0..(MeshStride - 1)) |-> 0]
  BY DEF Init, Workspace
<1>2. SemBound
  <2>1. 0 * GridSize = 0
    BY LaunchProducts
  <2> QED BY <1>1, <2>1, LaunchProducts, PassedSize DEF SemBound
<1> QED BY <1>1, <1>2, LaunchProducts DEF LaunchInv

\* Nothing that counts launches changes.
LEMMA LaunchStill ==
  ASSUME LaunchInv, UNCHANGED <<path, stage, sorts, sem, at>>,
         path = <<>> => mesh' = mesh, path # <<>> => i_token' = i_token
  PROVE  LaunchInv'
BY DEF LaunchInv, SemBound, Passed

\* A block of a kernel without a semaphore finishes.
LEMMA LaunchFinish ==
  ASSUME MpInv, LaunchInv, NEW b, P0(b) \/ P1(b) \/ P2(b) \/ P3(b) \/ P23(b),
         UNCHANGED <<sorts, i_token>>
  PROVE  LaunchInv'
<1>1. /\ UNCHANGED <<path, stage, sem>> /\ stage \in DOMAIN path
      /\ Kernel \in {"P0", "P1", "P2", "P3", "P23"}
  BY DEF P0, P1, P2, P3, P23, Running
<1>2. path # <<>> /\ (path = <<"P01", "P23">> => stage # 1) /\ stage \in Nat
  BY <1>1, KernelOf DEF MpInv, LaunchOK
<1> QED BY <1>1, <1>2 DEF LaunchInv, SemBound

\* A block of P01: the increment is the one way past it.
LEMMA LaunchBarrier ==
  ASSUME MpInv, LaunchInv, NEW b \in DOMAIN at, P01Mesh(b) \/ P01Inc(b) \/ P01Count(b),
         UNCHANGED <<sorts, i_token>>
  PROVE  LaunchInv'
<1>1. PICK point :
        /\ UNCHANGED <<path, stage>> /\ stage \in DOMAIN path /\ Kernel = "P01"
        /\ at' = [at EXCEPT ![b] = point]
        /\ \/ point = "inc" /\ at[b] = "start" /\ UNCHANGED sem
           \/ point \in {"wait", "done"} /\ at[b] = "inc" /\ sem' \in {sem, sem + 1}
           \/ point = "done" /\ at[b] = "wait" /\ UNCHANGED sem
  BY DEF P01Mesh, P01Inc, P01Count, Running, Finish
<1>2. path = <<"P01", "P23">> /\ path # <<>> /\ stage = 1 /\ DOMAIN at = Grid
  BY <1>1, KernelOf DEF MpInv, LaunchOK, Blocks, Grid
<1>3. sorts \in Nat /\ sorts < NumSorts /\ SemBound
  BY <1>1, <1>2, LaunchProducts DEF LaunchInv
<1>4. sem \in Nat /\ sem <= sorts * GridSize + Cardinality(Passed)
  BY <1>2, <1>3, LaunchProducts DEF SemBound
<1>5. sem' \in Nat /\ sem' <= sorts * GridSize + Cardinality(Passed')
  <2>1. CASE at[b] = "inc"
    <3>1. b \notin Passed /\ Passed' = Passed \union {b}
      BY <1>1, <1>2, <2>1 DEF Passed
    <3>2. Cardinality(Passed') = Cardinality(Passed) + 1
      BY <3>1, PassedSize, FS_AddElement
    <3>3. sem' \in {sem, sem + 1}
      BY <1>1
    <3> HIDE DEF Passed
    <3> QED BY <1>3, <1>4, <3>2, <3>3, PassedSize, LaunchProducts
  <2>2. CASE at[b] # "inc"
    <3>1. sem' = sem /\ Passed' = Passed
      BY <1>1, <1>2, <2>2 DEF Passed
    <3> QED BY <1>4, <3>1
  <2> QED BY <2>1, <2>2
<1>6. sem' <= NumSorts * GridSize
  <2>1. Passed' \in SUBSET Grid
    BY DEF Passed, Grid
  <2>2. Cardinality(Passed') \in Nat /\ Cardinality(Passed') <= GridSize
    BY <2>1, SomeBlocks
  <2> QED BY <1>3, <1>5, <2>2, LaunchProducts
<1>7. SemBound'
  BY <1>1, <1>2, <1>5, <1>6, LaunchProducts DEF SemBound
<1> QED BY <1>1, <1>2, <1>7 DEF LaunchInv

\* The next kernel.
LEMMA LaunchNext ==
  ASSUME MpInv, LaunchInv, NextKernel, UNCHANGED <<sorts, i_token>>
  PROVE  LaunchInv'
<1>1. UNCHANGED <<path, sem>> /\ stage \in DOMAIN path /\ stage' = stage + 1
  BY DEF NextKernel
<1>2. path # <<>> /\ stage \in Nat /\ stage \in 1..(Len(path) + 1)
  BY <1>1, KernelOf DEF MpInv, LaunchOK
<1>3. sorts \in Nat /\ sorts < NumSorts
  BY <1>1, LaunchProducts DEF LaunchInv
<1>4. ASSUME path = <<"P01", "P23">> PROVE SemBound'
  <2>1. SemBound
    BY <1>4 DEF LaunchInv
  <2>2. sem <= sorts * GridSize + GridSize
    BY <1>2, <1>3, <2>1, PassedSize, LaunchProducts DEF SemBound
  <2> QED BY <1>1, <1>2, <2>1, <2>2 DEF SemBound
<1> QED BY <1>1, <1>2, <1>3, <1>4 DEF LaunchInv

\* The next launch: no block is past the semaphore, which stays as it is.
LEMMA LaunchAgain ==
  ASSUME MpInv, LaunchInv, Again
  PROVE  LaunchInv'
<1>1. /\ UNCHANGED <<path, mesh, sem, i_token>> /\ sorts < NumSorts /\ sorts' = sorts + 1
      /\ path # <<>> => stage = Len(path) + 1
      /\ IF sorts + 1 = NumSorts THEN UNCHANGED <<stage, at>>
         ELSE stage' = 1 /\ at' = StartOfKernel(1)
  BY DEF Again, Finished
<1>2. sorts \in Nat /\ sorts' \in 0..NumSorts /\ (sorts + 1 # NumSorts => sorts' < NumSorts)
  BY <1>1, LaunchProducts DEF LaunchInv
<1>3. stage' \in DOMAIN path => sorts' < NumSorts
  <2>1. stage \notin DOMAIN path
    <3>1. path \in MpPaths \union {<<>>} /\ stage \in 1..(Len(path) + 1)
      BY DEF MpInv, LaunchOK
    <3>2. Len(path) \in Nat /\ DOMAIN path = 1..Len(path)
      BY <3>1 DEF MpPaths
    <3> QED BY <1>1, <3>1, <3>2
  <2> QED BY <1>1, <1>2, <2>1
<1>4. ASSUME path = <<"P01", "P23">> PROVE SemBound'
  <2>1. SemBound /\ stage = 3
    BY <1>1, <1>4 DEF LaunchInv
  <2>2. sem \in Nat /\ sem <= sorts * GridSize + GridSize /\ sem <= NumSorts * GridSize
    BY <1>1, <2>1, LaunchProducts DEF SemBound
  <2>3. sorts' * GridSize = sorts * GridSize + GridSize
    BY <1>1, <1>2, LaunchProducts
  <2>4. CASE sorts + 1 = NumSorts
    <3>1. stage' = 3 /\ ~(sorts' < NumSorts)
      BY <1>1, <1>2, <2>1, <2>4, LaunchProducts
    <3> QED BY <1>1, <2>1, <2>2, <3>1 DEF SemBound
  <2>5. CASE sorts + 1 # NumSorts
    <3>1. stage' = 1 /\ Cardinality(Passed') \in Nat
      <4>1. Passed' \in SUBSET Grid
        BY DEF Passed, Grid
      <4> QED BY <1>1, <2>5, <4>1, SomeBlocks
    <3> QED BY <1>1, <1>2, <2>1, <2>2, <2>3, <3>1, LaunchProducts DEF SemBound
  <2> QED BY <2>4, <2>5
<1> QED BY <1>1, <1>2, <1>3, <1>4 DEF LaunchInv

\* Every step keeps it, one lemma per action.
LEMMA LaunchStep == MpInv /\ LaunchInv /\ [Next]_vars => LaunchInv'
<1> SUFFICES ASSUME MpInv, LaunchInv, [Next]_vars PROVE LaunchInv'
  OBVIOUS
<1>1. CASE MpNext /\ UNCHANGED <<exVars, sorts>>
  <2>1. UNCHANGED <<sorts, i_token>>
    BY <1>1 DEF exVars
  <2> QED BY <1>1, <2>1, LaunchFinish, LaunchBarrier, LaunchNext DEF MpNext
<1>2. CASE ExNext /\ path = <<>> /\ UNCHANGED <<mpVars, sorts>>
  <2>1. UNCHANGED <<path, stage, sorts, sem, at, mesh>>
    BY <1>2 DEF mpVars
  <2> QED BY <1>2, <2>1, LaunchStill
<1>3. CASE Again
  BY <1>3, LaunchAgain
<1>4. CASE UNCHANGED vars
  <2>1. UNCHANGED <<path, stage, sorts, sem, at, mesh, i_token>>
    BY <1>4 DEF vars, mpVars, exVars
  <2> QED BY <2>1, LaunchStill
<1> QED BY <1>1, <1>2, <1>3, <1>4 DEF Next, Terminated

\* The words that kernels and launches hand to each other stay in range: an
\* entry of the mesh names a topk_id, what is summed up for an expert does not
\* pass the end of the sorted ids or the number of tokens, the semaphore that
\* nobody resets gets one increment per block and launch, at most, and the
\* rounds of a wave start at a token.
THEOREM SortTypes == Spec => []TypeOK
<1>1. MpInv /\ TablesInv /\ BlockInv /\ LaunchInv => TypeOK
  <2> SUFFICES ASSUME MpInv, TablesInv, BlockInv, LaunchInv PROVE TypeOK
    OBVIOUS
  <2>1. stage \in 1..(Len(path) + 1) /\ sorts \in 0..NumSorts /\ input \in Inputs
    BY DEF MpInv, LaunchOK, LaunchInv
  <2>2. Topk \in Nat \ {0} /\ input.tokens \in Nat \ {0} /\ 0 \in Tokens
    BY <2>1, Problem DEF Tokens
  <2>3. ASSUME NEW et \in DOMAIN mesh PROVE mesh[et] \in 0..Topk
    <3>1. CASE path = <<>>
      BY <2>2, <3>1 DEF LaunchInv
    <3>2. CASE path # <<>>
      BY <3>2 DEF TablesInv, MeshSound
    <3> QED BY <3>1, <3>2
  <2>4. \A e \in Experts : path # <<>> => expert_cumsum[e] \in 0..Max({MaxOutputIds, input.tokens})
    BY DEF TablesInv, SumsInv, MostTokens
  <2>5. sem \in 0..(NumSorts * GridSize)
    BY LaunchProducts DEF LaunchInv, SemBound
  <2>6. ASSUME NEW w \in Waves PROVE i_token[w] \in 0..(input.tokens - 1)
    BY <2>2 DEF BlockInv, BlockSound, BlockOK, LaunchInv, Tokens
  <2> QED BY <2>1, <2>3, <2>4, <2>5, <2>6 DEF TypeOK
<1>2. Spec => [](MpInv /\ LaunchInv)
  BY MpInit, MpStep, LaunchInit, LaunchStep, PTL DEF Spec
<1> QED BY <1>1, <1>2, SortInvariance, PTL
==============================================================================
