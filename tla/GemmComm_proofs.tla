--------------------------- MODULE GemmComm_proofs ---------------------------
(***************************************************************************)
(* Safety of the two-rank GEMM of GemmComm, for every grid, every number   *)
(* of tiles and every sequence of launches.                                *)
(***************************************************************************)
EXTENDS GemmComm, TLAPS

(***************************************************************************)
(* Division with remainder by a variable divisor.                          *)
(***************************************************************************)
\* A number is divisor times quotient plus remainder.
LEMMA DivMod ==
  ASSUME NEW a \in Nat, NEW d \in Nat \ {0}
  PROVE  /\ a \div d \in Nat /\ a % d \in 0 .. d - 1
         /\ a = d * (a \div d) + (a % d)
<1>1. a \div d \in Nat /\ a % d \in 0 .. d - 1
  OBVIOUS
<1>2. a = d * (a \div d) + (a % d)
  BY Z3
<1> QED BY <1>1, <1>2

\* Quotient and remainder are unique.
LEMMA DivModUnique ==
  ASSUME NEW d \in Nat \ {0}, NEW q \in Nat, NEW r \in 0 .. d - 1
  PROVE  (d * q + r) \div d = q /\ (d * q + r) % d = r
OBVIOUS

\* Adding the divisor keeps the remainder.
LEMMA PlusMod ==
  ASSUME NEW a \in Nat, NEW d \in Nat \ {0}
  PROVE  (a + d) % d = a % d
<1> DEFINE q == a \div d
           r == a % d
<1>1. q \in Nat /\ r \in 0 .. d - 1 /\ a = d * q + r
  BY DivMod
<1> HIDE DEF q, r
<1>2. a + d = d * (q + 1) + r
  BY <1>1
<1>3. (d * (q + 1) + r) % d = r
  BY <1>1, DivModUnique
<1> QED BY <1>2, <1>3 DEF r

\* A number below the divisor is its own remainder.
LEMMA SmallMod ==
  ASSUME NEW d \in Nat \ {0}, NEW a \in 0 .. d - 1
  PROVE  a % d = a
OBVIOUS

\* A remainder of a number is below the divisor and not above the number.
LEMMA ModRange ==
  ASSUME NEW d \in Nat \ {0}, NEW a \in Nat
  PROVE  a % d \in 0 .. d - 1 /\ a % d <= a
OBVIOUS

\* Two numbers less than d apart with the same remainder are equal.
LEMMA SameResidue ==
  ASSUME NEW a \in Nat, NEW b \in Nat, NEW d \in Nat \ {0},
         a % d = b % d, b <= a, a < b + d
  PROVE  a = b
<1> DEFINE qa == a \div d
           qb == b \div d
           r == b % d
<1>1. /\ qa \in Nat /\ a = d * qa + r
      /\ qb \in Nat /\ b = d * qb + r /\ r \in 0 .. d - 1
  BY DivMod
<1> HIDE DEF qa, qb, r
<1>2. qa > qb => d * qa >= d * qb + d
  BY <1>1
<1>3. qb > qa => d * qb >= d * qa + d
  BY <1>1
<1> QED BY <1>1, <1>2, <1>3

(***************************************************************************)
(* The inductive invariant.                                                *)
(***************************************************************************)

\* The hosts are in the same section between two collectives, and only in the
\* first may one of them be an epoch ahead: it has prepared, the other not.
Before == {"prepare", "barrier"}
During == {"launch", "kernel", "worst"}
HostsInStep ==
  \/ \A r \in Rank : host[r] \in Before
  \/ \A r \in Rank : host[r] \in During
  \/ \A r \in Rank : host[r] = "check"
  \/ \A r \in Rank : host[r] = "abort"
  \/ \A r \in Rank : host[r] = "done"
EpochsInStep ==
  \A r \in Rank :
    /\ host[r] = "prepare" => epoch[r] < MaxEpoch
    /\ host[Peer(r)] # "prepare" /\ host[r] # "prepare" => epoch[r] = epoch[Peer(r)]
    /\ host[Peer(r)] = "prepare" /\ host[r] = "prepare" => epoch[r] = epoch[Peer(r)]
    /\ host[Peer(r)] # "prepare" /\ host[r] = "prepare" => epoch[r] + 1 = epoch[Peer(r)]

\* CTAs run only while their host waits for the kernel, on a tile that exists.
Working == CtaPoint \ {"idle", "exit"}
OnTile  == {"compute", "fence", "flag", "await_produced",
            "signal", "quiet", "await_peer", "reduce"}
CtasInKernel ==
  \A r \in Rank, c \in CTA :
    /\ cta[r][c] \in Working => host[r] = "kernel"
    /\ cta[r][c] \in OnTile => tile[r][c] \in Tile
    /\ cta[r][c] = "finish" => c \in 0 .. Compute - 1

\* No flag is from the future.
FlagsBounded ==
  \A r \in Rank, t \in Tile :
    /\ produced[r][t] <= epoch[r]
    /\ remote_ready[Peer(r)][t] <= epoch[r]
    /\ \A s \in signals[Peer(r)] : s.epoch <= epoch[r]

\* The chain of announcements, each no earlier than what it announces: the
\* stores are done, they are at the peer, the tile is produced, the peer knows.
Current(r, t) == partial[r][t] = epoch[r] /\ peer_partial[r][t] = epoch[r]
Announced ==
  \A r \in Rank, t \in Tile :
    /\ produced[r][t] = epoch[r] => Current(r, t)
    /\ remote_ready[Peer(r)][t] = epoch[r] => Current(r, t)
    /\ \A s \in signals[Peer(r)] :
         s.tile = t /\ s.epoch = epoch[r] => Current(r, t)

\* What a CTA knows of its tile from the steps it has made.
CtaKnows ==
  \A r \in Rank, c \in CTA :
    LET t == tile[r][c]
    IN  /\ cta[r][c] = "fence" => partial[r][t] = epoch[r]
        /\ cta[r][c] = "flag" => Current(r, t)
        /\ cta[r][c] \in {"signal", "quiet", "await_peer", "reduce"} =>
             Current(r, t)
        /\ cta[r][c] = "reduce" => Current(Peer(r), t)

Inv == TypeOK /\ HostsInStep /\ EpochsInStep /\ CtasInKernel
       /\ FlagsBounded /\ Announced /\ CtaKnows /\ OutputCorrect

(***************************************************************************)
(* Ranks, tiles and CTAs.                                                  *)
(***************************************************************************)
\* The peer of a rank is the other rank.
LEMMA PeerProps ==
  \A r \in Rank : /\ Peer(r) \in Rank /\ Peer(r) # r /\ Peer(Peer(r)) = r
                  /\ \A q \in Rank : q = r \/ q = Peer(r)
BY DEF Rank, Peer

\* Tiles and CTAs are natural numbers.
LEMMA TileProps == Tile \subseteq Nat /\ CTA \subseteq Nat
BY GridAssumption DEF Tile, CTA

\* A launched CTA's loop starts and goes on at a natural number.
LEMMA StrideType ==
  ASSUME NEW r \in Rank, NEW c \in CTA
  PROVE  FirstTile(r, c) \in Nat /\ Stride(r, c) \in Nat \ {0}
<1>1. c \in Nat /\ Compute \in Nat \ {0} /\ Comm \in Nat \ {0}
  BY TileProps, GridAssumption
<1> QED BY <1>1 DEF FirstTile, Stride, IsComputeCTA

\* What the loop test decides: a body is entered for existing tiles only.
LEMMA LoopTestType ==
  ASSUME NEW r \in Rank, NEW c \in CTA, NEW t \in Nat
  PROVE  /\ LoopTest(r, c, t) \in {"compute", "exit", "finish", "await_produced"}
         /\ LoopTest(r, c, t) \in {"compute", "await_produced"} => t \in Tile
         /\ LoopTest(r, c, t) = "finish" => c \in 0 .. Compute - 1
<1>1. c \in Nat /\ Compute \in Nat /\ Total \in Nat
  BY TileProps, GridAssumption
<1>2. t < Total => t \in Tile
  BY <1>1 DEF Tile
<1>3. c < Compute => c \in 0 .. Compute - 1
  BY <1>1
<1> QED BY <1>2, <1>3 DEF LoopTest, IsComputeCTA

\* Between the host's barrier and the end of the launch both ranks are in the
\* same epoch.
LEMMA SameEpoch ==
  ASSUME Inv, NEW r \in Rank, host[r] \in During
  PROVE  epoch[Peer(r)] = epoch[r] /\ host[Peer(r)] \in During
BY PeerProps DEF Inv, HostsInStep, EpochsInStep, Before, During

(***************************************************************************)
(* Steps of a CTA.  None touches the hosts and the epochs.                 *)
(***************************************************************************)
\* A step that leaves the hosts alone keeps them in step.
LEMMA HostsUnchanged ==
  ASSUME Inv, UNCHANGED hostVars
  PROVE  HostsInStep' /\ EpochsInStep'
BY DEF Inv, hostVars, HostsInStep, EpochsInStep

\* A CTA that goes on with the same tile.
LEMMA GoCtaStep ==
  ASSUME Inv, NEW r \in Rank, NEW c \in CTA, cta[r][c] \in OnTile,
         NEW point \in OnTile, GoCta(r, c, point), UNCHANGED <<hostVars, tile>>
  PROVE  /\ cta' \in [Rank -> [CTA -> CtaPoint]]
         /\ CtasInKernel'
BY DEF Inv, TypeOK, CtasInKernel, GoCta, OnTile, Working, CtaPoint, hostVars

\* A CTA that goes on to the next tile of its loop.
LEMMA NextRoundStep ==
  ASSUME Inv, NEW r \in Rank, NEW c \in CTA, cta[r][c] \in OnTile,
         NextRound(r, c), UNCHANGED hostVars
  PROVE  /\ cta' \in [Rank -> [CTA -> CtaPoint]]
         /\ tile' \in [Rank -> [CTA -> Nat]]
         /\ CtasInKernel'
         /\ cta'[r][c] \in {"compute", "exit", "finish", "await_produced"}
<1> DEFINE next == tile[r][c] + Stride(r, c)
<1>1. next \in Nat
  BY StrideType DEF Inv, TypeOK
<1>2. /\ cta' = [cta EXCEPT ![r][c] = LoopTest(r, c, next)]
      /\ tile' = [tile EXCEPT ![r][c] = next]
  BY DEF NextRound, GoCta
<1> HIDE DEF next
<1>3. host[r] = "kernel"
  BY DEF Inv, CtasInKernel, OnTile, Working, CtaPoint
<1>4. /\ LoopTest(r, c, next) \in {"compute", "exit", "finish", "await_produced"}
      /\ LoopTest(r, c, next) \in {"compute", "await_produced"} => next \in Tile
      /\ LoopTest(r, c, next) = "finish" => c \in 0 .. Compute - 1
  BY <1>1, LoopTestType
<1>5. /\ cta \in [Rank -> [CTA -> CtaPoint]] /\ tile \in [Rank -> [CTA -> Nat]]
  BY DEF Inv, TypeOK
<1>6. /\ cta' \in [Rank -> [CTA -> CtaPoint]]
      /\ tile' \in [Rank -> [CTA -> Nat]]
      /\ cta'[r][c] = LoopTest(r, c, next) /\ tile'[r][c] = next
      /\ \A q \in Rank, d \in CTA :
           ~(q = r /\ d = c) => cta'[q][d] = cta[q][d] /\ tile'[q][d] = tile[q][d]
  BY <1>1, <1>2, <1>4, <1>5 DEF CtaPoint
<1>7. CtasInKernel'
  BY <1>3, <1>4, <1>6 DEF Inv, CtasInKernel, hostVars, OnTile, Working, CtaPoint
<1> QED BY <1>4, <1>6, <1>7

\* compute_tile writes the result of this epoch: a tile already announced keeps
\* its value.
LEMMA ComputeTileInv ==
  ASSUME Inv, NEW r \in Rank, NEW c \in CTA, ComputeTile(r, c)
  PROVE  Inv'
<1> DEFINE t == tile[r][c]
<1>1. cta[r][c] = "compute" /\ t \in Tile /\ epoch[r] \in Nat
  BY DEF ComputeTile, Inv, TypeOK, CtasInKernel, OnTile
<1>2. /\ cta' \in [Rank -> [CTA -> CtaPoint]] /\ CtasInKernel'
  BY <1>1, GoCtaStep DEF ComputeTile, OnTile
<1>3. partial' = [partial EXCEPT ![r][t] = epoch[r]]
  BY DEF ComputeTile
<1>4. partial \in [Rank -> [Tile -> Nat]]
  BY DEF Inv, TypeOK
<1> HIDE DEF t
<1>5. /\ partial' \in [Rank -> [Tile -> Nat]]
      /\ partial'[r][t] = epoch[r]
      /\ \A q \in Rank, u \in Tile :
           partial'[q][u] = partial[q][u] \/ partial'[q][u] = epoch[q]
  BY <1>1, <1>3, <1>4
<1>6. TypeOK'
  BY <1>2, <1>5 DEF Inv, TypeOK, ComputeTile, hostVars, flags
<1>7. HostsInStep' /\ EpochsInStep'
  BY HostsUnchanged DEF ComputeTile
<1>8. FlagsBounded' /\ OutputCorrect'
  BY DEF Inv, FlagsBounded, OutputCorrect, ComputeTile, hostVars, flags
<1>9. \A q \in Rank, u \in Tile : Current(q, u) => Current(q, u)'
  BY <1>5 DEF Current, ComputeTile, hostVars
<1>10. Announced'
  BY <1>9 DEF Inv, Announced, ComputeTile, hostVars, flags
<1>11. CtaKnows'
  <2>1. \A q \in Rank, d \in CTA :
          \/ cta'[q][d] = cta[q][d]
          \/ q = r /\ d = c /\ cta'[q][d] = "fence"
    BY DEF ComputeTile, GoCta, Inv, TypeOK
  <2>2. \A q \in Rank, d \in CTA :
          cta[q][d] \in OnTile => tile[q][d] \in Tile
    BY DEF Inv, CtasInKernel
  <2> QED BY <1>5, <1>9, <2>1, <2>2, PeerProps
          DEF Inv, CtaKnows, ComputeTile, hostVars, OnTile, t
<1> QED BY <1>2, <1>6, <1>7, <1>8, <1>10, <1>11 DEF Inv

\* After the system fence the peer sees what the rank has computed.
LEMMA FenceSystemInv ==
  ASSUME Inv, NEW r \in Rank, NEW c \in CTA, FenceSystem(r, c)
  PROVE  Inv'
<1> DEFINE t == tile[r][c]
<1>1. cta[r][c] = "fence" /\ t \in Tile /\ epoch[r] \in Nat
      /\ partial[r][t] = epoch[r]
  BY DEF FenceSystem, Inv, TypeOK, CtasInKernel, CtaKnows, OnTile
<1>2. /\ cta' \in [Rank -> [CTA -> CtaPoint]] /\ CtasInKernel'
  BY <1>1, GoCtaStep DEF FenceSystem, OnTile
<1>3. peer_partial' = [peer_partial EXCEPT ![r][t] = epoch[r]]
  BY <1>1 DEF FenceSystem
<1>4. peer_partial \in [Rank -> [Tile -> Nat]]
  BY DEF Inv, TypeOK
<1> HIDE DEF t
<1>5. /\ peer_partial' \in [Rank -> [Tile -> Nat]]
      /\ peer_partial'[r][t] = epoch[r]
      /\ \A q \in Rank, u \in Tile :
           \/ peer_partial'[q][u] = peer_partial[q][u]
           \/ peer_partial'[q][u] = epoch[q]
  BY <1>1, <1>3, <1>4
<1>6. TypeOK'
  BY <1>2, <1>5 DEF Inv, TypeOK, FenceSystem, hostVars, flags
<1>7. HostsInStep' /\ EpochsInStep'
  BY HostsUnchanged DEF FenceSystem
<1>8. FlagsBounded' /\ OutputCorrect'
  BY DEF Inv, FlagsBounded, OutputCorrect, FenceSystem, hostVars, flags
<1>9. /\ \A q \in Rank, u \in Tile : Current(q, u) => Current(q, u)'
      /\ Current(r, t)'
  BY <1>1, <1>5 DEF Current, FenceSystem, hostVars, t
<1>10. Announced'
  BY <1>9 DEF Inv, Announced, FenceSystem, hostVars, flags
<1>11. CtaKnows'
  <2>1. \A q \in Rank, d \in CTA :
          \/ cta'[q][d] = cta[q][d]
          \/ q = r /\ d = c /\ cta'[q][d] = "flag"
    BY DEF FenceSystem, GoCta, Inv, TypeOK
  <2>2. \A q \in Rank, d \in CTA :
          cta[q][d] \in OnTile => tile[q][d] \in Tile
    BY DEF Inv, CtasInKernel
  <2> QED BY <1>9, <2>1, <2>2, PeerProps
          DEF Inv, CtaKnows, FenceSystem, hostVars, OnTile, t
<1> QED BY <1>2, <1>6, <1>7, <1>8, <1>10, <1>11 DEF Inv

\* A step of CTA c that leaves the data alone, after which it is where it has
\* to know nothing, or knows what it needs.
LEMMA CtaKnowsStep ==
  ASSUME Inv, NEW r \in Rank, NEW c \in CTA,
         UNCHANGED <<hostVars, partial, peer_partial>>,
         \A q \in Rank, d \in CTA : ~(q = r /\ d = c) =>
            cta'[q][d] = cta[q][d] /\ tile'[q][d] = tile[q][d],
         cta'[r][c] \notin {"fence", "flag"},
         cta'[r][c] \in {"signal", "quiet", "await_peer", "reduce"} =>
            Current(r, tile'[r][c]),
         cta'[r][c] = "reduce" => Current(Peer(r), tile'[r][c])
  PROVE  CtaKnows'
BY DEF Inv, CtaKnows, Current, hostVars

\* The flag is set by a CTA that knows the tile to be visible on both ranks.
LEMMA PublishTileInv ==
  ASSUME Inv, NEW r \in Rank, NEW c \in CTA, PublishTile(r, c)
  PROVE  Inv'
<1> DEFINE t == tile[r][c]
<1>1. cta[r][c] = "flag" /\ t \in Tile /\ epoch[r] \in Nat /\ Current(r, t)
  BY DEF PublishTile, Inv, TypeOK, CtasInKernel, CtaKnows, OnTile
<1>2. /\ cta' \in [Rank -> [CTA -> CtaPoint]] /\ CtasInKernel'
      /\ tile' \in [Rank -> [CTA -> Nat]]
      /\ \/ cta'[r][c] = "signal" /\ tile' = tile
         \/ cta'[r][c] \in {"compute", "exit", "finish", "await_produced"}
  <2>1. CASE mode(r) = 0
    <3>1. GoCta(r, c, "signal") /\ UNCHANGED <<hostVars, tile>>
      BY <2>1 DEF PublishTile
    <3>2. cta' \in [Rank -> [CTA -> CtaPoint]] /\ CtasInKernel'
      BY <1>1, <3>1, GoCtaStep DEF OnTile
    <3> QED BY <3>1, <3>2 DEF GoCta, Inv, TypeOK
  <2>2. CASE mode(r) # 0
    <3>1. NextRound(r, c) /\ UNCHANGED hostVars
      BY <2>2 DEF PublishTile
    <3> QED BY <1>1, <3>1, NextRoundStep DEF OnTile
  <2> QED BY <2>1, <2>2
<1>3. produced' = [produced EXCEPT ![r][t] = epoch[r]]
  BY DEF PublishTile
<1>4. produced \in [Rank -> [Tile -> Nat]]
  BY DEF Inv, TypeOK
<1>5. UNCHANGED <<hostVars, partial, peer_partial, output, finished,
                  remote_ready, signals>>
  BY DEF PublishTile, data
<1>6. \A q \in Rank, d \in CTA : ~(q = r /\ d = c) =>
         cta'[q][d] = cta[q][d] /\ tile'[q][d] = tile[q][d]
  BY DEF PublishTile, NextRound, GoCta, Inv, TypeOK
<1> HIDE DEF t
<1>7. /\ produced' \in [Rank -> [Tile -> Nat]]
      /\ \A q \in Rank, u \in Tile :
           ~(q = r /\ u = t) => produced'[q][u] = produced[q][u]
      /\ produced'[r][t] = epoch[r]
  BY <1>1, <1>3, <1>4
<1>8. TypeOK'
  BY <1>2, <1>5, <1>7 DEF Inv, TypeOK, hostVars
<1>9. HostsInStep' /\ EpochsInStep'
  BY <1>5, HostsUnchanged
<1>10. FlagsBounded' /\ OutputCorrect'
  BY <1>1, <1>5, <1>7 DEF Inv, FlagsBounded, OutputCorrect, hostVars
<1>11. Announced'
  BY <1>1, <1>5, <1>7 DEF Inv, Announced, Current, hostVars
<1>12. CtaKnows'
  BY <1>1, <1>2, <1>5, <1>6, CtaKnowsStep DEF t
<1> QED BY <1>2, <1>8, <1>9, <1>10, <1>11, <1>12 DEF Inv

\* The flag of a compute CTA announces nothing that Inv depends on.
LEMMA PublishFinishedInv ==
  ASSUME Inv, NEW r \in Rank, NEW c \in CTA, PublishFinished(r, c)
  PROVE  Inv'
<1>1. cta[r][c] = "finish" /\ c \in 0 .. Compute - 1 /\ epoch[r] \in Nat
  BY DEF PublishFinished, Inv, TypeOK, CtasInKernel
<1>2. UNCHANGED <<hostVars, tile, partial, peer_partial, output, produced,
                  remote_ready, signals>>
  BY DEF PublishFinished, data
<1>3. /\ cta' = [cta EXCEPT ![r][c] = "exit"]
      /\ finished' = [finished EXCEPT ![r][c] = epoch[r]]
  BY DEF PublishFinished, GoCta
<1>4. TypeOK'
  BY <1>1, <1>2, <1>3 DEF Inv, TypeOK, CtaPoint, hostVars
<1>5. HostsInStep' /\ EpochsInStep'
  BY <1>2, HostsUnchanged
<1>6. CtasInKernel'
  BY <1>1, <1>2, <1>3 DEF Inv, TypeOK, CtasInKernel, Working, OnTile, hostVars
<1>7. FlagsBounded' /\ OutputCorrect' /\ Announced'
  BY <1>2 DEF Inv, FlagsBounded, OutputCorrect, Announced, Current, hostVars
<1>8. CtaKnows'
  BY <1>2, <1>3, CtaKnowsStep DEF Inv, TypeOK
<1> QED BY <1>4, <1>5, <1>6, <1>7, <1>8 DEF Inv

\* The steps before the reduction: the CTA leaves data and "produced" alone,
\* and goes on with its tile.
LEMMA AnnouncementStep ==
  ASSUME Inv, NEW r \in Rank, NEW c \in CTA, cta[r][c] \in OnTile,
         NEW point \in {"signal", "quiet", "await_peer", "reduce"},
         GoCta(r, c, point),
         UNCHANGED <<hostVars, tile, data, produced, finished>>,
         Current(r, tile[r][c]),
         point = "reduce" => Current(Peer(r), tile[r][c])
  PROVE  /\ cta' \in [Rank -> [CTA -> CtaPoint]]
         /\ HostsInStep' /\ EpochsInStep' /\ CtasInKernel'
         /\ CtaKnows' /\ OutputCorrect'
<1>1. /\ cta' \in [Rank -> [CTA -> CtaPoint]] /\ CtasInKernel'
  BY GoCtaStep DEF OnTile
<1>2. HostsInStep' /\ EpochsInStep'
  BY HostsUnchanged
<1>3. cta' = [cta EXCEPT ![r][c] = point] /\ cta \in [Rank -> [CTA -> CtaPoint]]
  BY DEF GoCta, Inv, TypeOK
<1>4. CtaKnows'
  BY <1>3, CtaKnowsStep DEF data
<1>5. OutputCorrect'
  BY DEF Inv, OutputCorrect, hostVars, data
<1> QED BY <1>1, <1>2, <1>4, <1>5

\* A CTA that enters its loop knows nothing about its tile yet.
LEMMA EnterLoopInv ==
  ASSUME Inv, NEW r \in Rank, NEW c \in CTA,
         cta[r][c] \in {"queued", "await_finished"},
         GoCta(r, c, LoopTest(r, c, tile[r][c])),
         UNCHANGED <<hostVars, tile, data, flags>>
  PROVE  Inv'
<1> DEFINE point == LoopTest(r, c, tile[r][c])
<1>1. /\ cta' = [cta EXCEPT ![r][c] = point]
      /\ cta \in [Rank -> [CTA -> CtaPoint]] /\ tile[r][c] \in Nat
      /\ UNCHANGED <<hostVars, tile, data, flags>>
      /\ cta[r][c] \in {"queued", "await_finished"}
  BY DEF GoCta, Inv, TypeOK
<1>2. /\ point \in {"compute", "exit", "finish", "await_produced"}
      /\ point \in {"compute", "await_produced"} => tile[r][c] \in Tile
      /\ point = "finish" => c \in 0 .. Compute - 1
  BY <1>1, LoopTestType
<1> HIDE DEF point
<1>3. /\ cta' \in [Rank -> [CTA -> CtaPoint]]
      /\ cta'[r][c] = point
      /\ \A q \in Rank, d \in CTA : ~(q = r /\ d = c) => cta'[q][d] = cta[q][d]
  BY <1>1, <1>2 DEF CtaPoint
<1>4. TypeOK'
  BY <1>1, <1>3 DEF Inv, TypeOK, hostVars, data, flags
<1>5. HostsInStep' /\ EpochsInStep'
  BY <1>1, HostsUnchanged
<1>6. CtasInKernel'
  BY <1>1, <1>2, <1>3 DEF Inv, CtasInKernel, Working, OnTile, CtaPoint, hostVars
<1>7. FlagsBounded' /\ OutputCorrect' /\ Announced'
  BY <1>1 DEF Inv, FlagsBounded, OutputCorrect, Announced, Current, hostVars,
     data, flags
<1>8. CtaKnows'
  BY <1>1, <1>2, <1>3, CtaKnowsStep DEF data
<1> QED BY <1>4, <1>5, <1>6, <1>7, <1>8 DEF Inv

\* A CTA that has become resident.
LEMMA DispatchInv ==
  ASSUME Inv, NEW r \in Rank, NEW c \in CTA, Dispatch(r, c)
  PROVE  Inv'
BY EnterLoopInv DEF Dispatch

\* The wait for the compute CTAs.
LEMMA AwaitFinishedInv ==
  ASSUME Inv, NEW r \in Rank, NEW c \in CTA, AwaitFinished(r, c)
  PROVE  Inv'
BY EnterLoopInv DEF AwaitFinished

\* The wait for the tile: the flag is of this epoch, so the tile is visible.
LEMMA AwaitProducedInv ==
  ASSUME Inv, NEW r \in Rank, NEW c \in CTA, AwaitProduced(r, c)
  PROVE  Inv'
<1>1. /\ cta[r][c] \in OnTile /\ tile[r][c] \in Tile
      /\ GoCta(r, c, "signal")
      /\ UNCHANGED <<hostVars, tile, data, flags>>
  BY DEF AwaitProduced, wait_local, Inv, CtasInKernel, OnTile
<1>2. produced[r][tile[r][c]] = epoch[r]
  <2>1. produced[r][tile[r][c]] \in Nat /\ epoch[r] \in Nat
    BY <1>1 DEF Inv, TypeOK
  <2>2. produced[r][tile[r][c]] <= epoch[r]
    BY <1>1 DEF Inv, FlagsBounded
  <2> QED BY <2>1, <2>2 DEF AwaitProduced, wait_local
<1>3. Current(r, tile[r][c])
  BY <1>1, <1>2 DEF Inv, Announced
<1>4. /\ cta' \in [Rank -> [CTA -> CtaPoint]]
      /\ HostsInStep' /\ EpochsInStep' /\ CtasInKernel'
      /\ CtaKnows' /\ OutputCorrect'
  BY <1>1, <1>3, AnnouncementStep DEF flags
<1>5. TypeOK' /\ FlagsBounded' /\ Announced'
  BY <1>1, <1>4 DEF Inv, TypeOK, FlagsBounded, Announced, Current, hostVars,
     data, flags
<1> QED BY <1>4, <1>5 DEF Inv

\* A signal is sent by a CTA that knows its tile to be visible.
LEMMA SignalPeerInv ==
  ASSUME Inv, NEW r \in Rank, NEW c \in CTA, SignalPeer(r, c)
  PROVE  Inv'
<1> DEFINE s == [tile |-> tile[r][c], epoch |-> epoch[r]]
<1>1. /\ cta[r][c] \in OnTile /\ tile[r][c] \in Tile /\ epoch[r] \in Nat
      /\ GoCta(r, c, "quiet") /\ Current(r, tile[r][c])
      /\ UNCHANGED <<hostVars, tile, data, produced, finished, remote_ready>>
      /\ signals' = [signals EXCEPT ![Peer(r)] = @ \union {s}]
  BY DEF SignalPeer, Inv, TypeOK, CtasInKernel, CtaKnows, OnTile
<1>2. /\ cta' \in [Rank -> [CTA -> CtaPoint]]
      /\ HostsInStep' /\ EpochsInStep' /\ CtasInKernel'
      /\ CtaKnows' /\ OutputCorrect'
  BY <1>1, AnnouncementStep
<1>3. /\ s \in Signal /\ s.tile = tile[r][c] /\ s.epoch = epoch[r]
      /\ signals \in [Rank -> SUBSET Signal]
  BY <1>1 DEF Signal, Inv, TypeOK
<1> HIDE DEF s
<1>4. /\ signals' \in [Rank -> SUBSET Signal]
      /\ signals'[Peer(r)] = signals[Peer(r)] \union {s}
      /\ signals'[r] = signals[r]
  BY <1>1, <1>3, PeerProps
<1>5. TypeOK'
  BY <1>1, <1>2, <1>4 DEF Inv, TypeOK, hostVars, data
<1>6. \A q \in Rank : \A x \in signals'[Peer(q)] :
        x \in signals[Peer(q)] \/ (x = s /\ q = r)
  BY <1>4, PeerProps
<1>7. FlagsBounded'
  BY <1>1, <1>3, <1>6 DEF Inv, FlagsBounded, hostVars
<1>8. Announced'
  BY <1>1, <1>3, <1>6 DEF Inv, Announced, Current, hostVars, data
<1> QED BY <1>2, <1>5, <1>7, <1>8 DEF Inv

\* Waiting for the delivery of the own signal changes no data.
LEMMA QuietInv ==
  ASSUME Inv, NEW r \in Rank, NEW c \in CTA, Quiet(r, c)
  PROVE  Inv'
<1>1. /\ cta[r][c] \in OnTile /\ tile[r][c] \in Tile
      /\ GoCta(r, c, "await_peer") /\ Current(r, tile[r][c])
      /\ UNCHANGED <<hostVars, tile, data, flags>>
  BY DEF Quiet, Inv, CtasInKernel, CtaKnows, OnTile
<1>2. /\ cta' \in [Rank -> [CTA -> CtaPoint]]
      /\ HostsInStep' /\ EpochsInStep' /\ CtasInKernel'
      /\ CtaKnows' /\ OutputCorrect'
  BY <1>1, AnnouncementStep DEF flags
<1>3. TypeOK' /\ FlagsBounded' /\ Announced'
  BY <1>1, <1>2 DEF Inv, TypeOK, FlagsBounded, Announced, Current, hostVars,
     data, flags
<1> QED BY <1>2, <1>3 DEF Inv

\* The peer's notice is of this epoch, not of an older or a newer one.
LEMMA AwaitPeerInv ==
  ASSUME Inv, NEW r \in Rank, NEW c \in CTA, AwaitPeer(r, c)
  PROVE  Inv'
<1> DEFINE t == tile[r][c]
<1>1. /\ cta[r][c] \in OnTile /\ t \in Tile /\ host[r] = "kernel"
      /\ GoCta(r, c, "reduce") /\ Current(r, t)
      /\ UNCHANGED <<hostVars, tile, data, flags>>
      /\ remote_ready[r][t] >= epoch[r]
  BY DEF AwaitPeer, wait_local, Inv, CtasInKernel, CtaKnows, OnTile, Working, CtaPoint
<1>2. epoch[Peer(r)] = epoch[r]
  BY <1>1, SameEpoch DEF During
<1>3. remote_ready[r][t] <= epoch[Peer(r)]
  BY <1>1, PeerProps DEF Inv, FlagsBounded
<1>4. remote_ready[r][t] \in Nat /\ epoch[r] \in Nat
  BY <1>1 DEF Inv, TypeOK
<1>5. remote_ready[Peer(Peer(r))][t] = epoch[Peer(r)]
  BY <1>1, <1>2, <1>3, <1>4, PeerProps
<1>6. Current(Peer(r), t)
  BY <1>1, <1>5, PeerProps DEF Inv, Announced
<1>7. /\ cta' \in [Rank -> [CTA -> CtaPoint]]
      /\ HostsInStep' /\ EpochsInStep' /\ CtasInKernel'
      /\ CtaKnows' /\ OutputCorrect'
  BY <1>1, <1>6, AnnouncementStep DEF flags
<1>8. TypeOK' /\ FlagsBounded' /\ Announced'
  BY <1>1, <1>7 DEF Inv, TypeOK, FlagsBounded, Announced, Current, hostVars,
     data, flags
<1> QED BY <1>7, <1>8 DEF Inv

\* The sum is of two results of this epoch.
LEMMA ReduceInv ==
  ASSUME Inv, NEW r \in Rank, NEW c \in CTA, Reduce(r, c)
  PROVE  Inv'
<1> DEFINE t == tile[r][c]
<1>1. /\ cta[r][c] \in OnTile /\ t \in Tile /\ host[r] = "kernel"
      /\ NextRound(r, c) /\ Current(r, t) /\ Current(Peer(r), t)
      /\ UNCHANGED <<hostVars, partial, peer_partial, flags>>
      /\ output' = [output EXCEPT ![r][t] =
                      <<partial[r][t], peer_partial[Peer(r)][t]>>]
  BY DEF Reduce, Inv, CtasInKernel, CtaKnows, OnTile, Working, CtaPoint
<1>2. epoch[Peer(r)] = epoch[r] /\ epoch[r] \in Nat
  BY <1>1, SameEpoch DEF During, Inv, TypeOK
<1>3. <<partial[r][t], peer_partial[Peer(r)][t]>> = <<epoch[r], epoch[r]>>
  BY <1>1, <1>2 DEF Current
<1>4. /\ cta' \in [Rank -> [CTA -> CtaPoint]]
      /\ tile' \in [Rank -> [CTA -> Nat]]
      /\ CtasInKernel'
      /\ cta'[r][c] \in {"compute", "exit", "finish", "await_produced"}
  BY <1>1, NextRoundStep
<1>5. \A q \in Rank, d \in CTA : ~(q = r /\ d = c) =>
         cta'[q][d] = cta[q][d] /\ tile'[q][d] = tile[q][d]
  BY <1>1 DEF NextRound, GoCta, Inv, TypeOK
<1> HIDE DEF t
<1>6. /\ output' \in [Rank -> [Tile -> Nat \X Nat]]
      /\ \A q \in Rank, u \in Tile :
           output'[q][u] = output[q][u] \/ output'[q][u] = <<epoch[q], epoch[q]>>
  BY <1>1, <1>2, <1>3 DEF Inv, TypeOK
<1>7. TypeOK'
  BY <1>1, <1>4, <1>6 DEF Inv, TypeOK, hostVars, flags
<1>8. HostsInStep' /\ EpochsInStep'
  BY <1>1, HostsUnchanged
<1>9. OutputCorrect'
  BY <1>1, <1>6 DEF Inv, OutputCorrect, hostVars
<1>10. FlagsBounded' /\ Announced'
  BY <1>1 DEF Inv, FlagsBounded, Announced, Current, hostVars, flags
<1>11. CtaKnows'
  BY <1>1, <1>4, <1>5, CtaKnowsStep
<1> QED BY <1>4, <1>7, <1>8, <1>9, <1>10, <1>11 DEF Inv

(***************************************************************************)
(* Memory and interconnect.                                                *)
(***************************************************************************)
\* A store that reaches the peer early is of the tile under computation: for an
\* announced tile there is nothing left to drain.
LEMMA DrainInv ==
  ASSUME Inv, NEW r \in Rank, NEW t \in Tile, Drain(r, t)
  PROVE  Inv'
<1>1. /\ UNCHANGED <<host, epoch, cta, tile, partial, output, produced,
                     finished, remote_ready, signals>>
      /\ peer_partial' = [peer_partial EXCEPT ![r][t] = partial[r][t]]
      /\ peer_partial \in [Rank -> [Tile -> Nat]] /\ partial[r][t] \in Nat
  BY DEF Drain, hostVars, ctaVars, flags, Inv, TypeOK
<1>2. /\ peer_partial' \in [Rank -> [Tile -> Nat]]
      /\ \A q \in Rank, u \in Tile :
           \/ peer_partial'[q][u] = peer_partial[q][u]
           \/ peer_partial'[q][u] = partial[q][u]
  BY <1>1
<1>3. \A q \in Rank, u \in Tile : Current(q, u) => Current(q, u)'
  BY <1>1, <1>2 DEF Current
<1>4. TypeOK'
  BY <1>1, <1>2 DEF Inv, TypeOK
<1>5. HostsInStep' /\ EpochsInStep' /\ CtasInKernel' /\ FlagsBounded' /\ OutputCorrect'
  BY <1>1 DEF Inv, HostsInStep, EpochsInStep, CtasInKernel, FlagsBounded, OutputCorrect
<1>6. Announced'
  BY <1>1, <1>3 DEF Inv, Announced
<1>7. CtaKnows'
  <2>1. \A q \in Rank, d \in CTA :
          cta[q][d] \in OnTile => tile[q][d] \in Tile
    BY DEF Inv, CtasInKernel
  <2> QED BY <1>1, <1>3, <2>1, PeerProps DEF Inv, CtaKnows, OnTile
<1> QED BY <1>4, <1>5, <1>6, <1>7 DEF Inv

\* A delivered signal takes what it announces to the flag.
LEMMA DeliverInv ==
  ASSUME Inv, NEW r \in Rank, Deliver(r)
  PROVE  Inv'
<1>1. PICK s \in signals[r] :
        /\ remote_ready' = [remote_ready EXCEPT ![r][s.tile] = s.epoch]
        /\ signals' = [signals EXCEPT ![r] = @ \ {s}]
        /\ UNCHANGED <<hostVars, ctaVars, data, produced, finished>>
  BY DEF Deliver
<1>2. /\ s.tile \in Tile /\ s.epoch \in Nat
      /\ remote_ready \in [Rank -> [Tile -> Nat]]
      /\ signals \in [Rank -> SUBSET Signal]
  BY DEF Inv, TypeOK, Signal
<1>3. /\ remote_ready' \in [Rank -> [Tile -> Nat]]
      /\ remote_ready'[r][s.tile] = s.epoch
      /\ \A q \in Rank, u \in Tile :
           ~(q = r /\ u = s.tile) => remote_ready'[q][u] = remote_ready[q][u]
      /\ signals' \in [Rank -> SUBSET Signal]
      /\ \A q \in Rank : signals'[q] \subseteq signals[q]
  BY <1>1, <1>2
<1>4. TypeOK'
  BY <1>1, <1>3 DEF Inv, TypeOK, hostVars, ctaVars, data
<1>5. HostsInStep' /\ EpochsInStep' /\ CtasInKernel' /\ CtaKnows' /\ OutputCorrect'
  BY <1>1 DEF Inv, HostsInStep, EpochsInStep, CtasInKernel, CtaKnows, Current,
     OutputCorrect, hostVars, ctaVars, data
<1>6. s.epoch <= epoch[Peer(r)]
      /\ (s.epoch = epoch[Peer(r)] => Current(Peer(r), s.tile))
  BY <1>2, PeerProps DEF Inv, FlagsBounded, Announced
<1>7. FlagsBounded'
  BY <1>1, <1>3, <1>6, PeerProps DEF Inv, FlagsBounded, hostVars
<1>8. Announced'
  BY <1>1, <1>3, <1>6, PeerProps DEF Inv, Announced, Current, hostVars, data
<1> QED BY <1>4, <1>5, <1>7, <1>8 DEF Inv

(***************************************************************************)
(* Steps of the hosts.                                                     *)
(***************************************************************************)

\* The buffers are filled while no kernel runs on either rank, and every flag
\* is then of an older epoch.
LEMMA PrepareInv ==
  ASSUME Inv, NEW r \in Rank, Prepare(r)
  PROVE  Inv'
<1>1. /\ host[r] = "prepare" /\ epoch[r] < MaxEpoch
      /\ UNCHANGED <<cta, tile, produced, finished, remote_ready, signals>>
      /\ host' = [host EXCEPT ![r] = "barrier"]
      /\ epoch' = [epoch EXCEPT ![r] = epoch[r] + 1]
      /\ partial' = [partial EXCEPT ![r] = Filled]
      /\ peer_partial' = [peer_partial EXCEPT ![r] = Filled]
      /\ output' = [output EXCEPT ![r] = [t \in Tile |-> <<0, 0>>]]
  BY DEF Prepare, GoHost, ctaVars, flags, Inv, EpochsInStep
<1>2. \A q \in Rank : host[q] \in Before /\ epoch[q] \in Nat
  <2>1. \A q \in Rank : epoch[q] \in Nat
    BY GridAssumption DEF Inv, TypeOK
  <2>2. \A q \in Rank : host[q] \in Before
    BY <1>1 DEF Inv, HostsInStep, During
  <2> QED BY <2>1, <2>2
<1>3. Filled \in [Tile -> Nat] /\ [t \in Tile |-> <<0, 0>>] \in [Tile -> Nat \X Nat]
  BY DEF Filled
<1>4. epoch[r] + 1 \in 0 .. MaxEpoch /\ "barrier" \in HostPoint
  BY <1>1, <1>2, GridAssumption DEF HostPoint
<1>5. TypeOK'
  BY <1>1, <1>3, <1>4 DEF Inv, TypeOK
<1>6. /\ host'[r] = "barrier" /\ epoch'[r] = epoch[r] + 1
      /\ host'[Peer(r)] = host[Peer(r)] /\ epoch'[Peer(r)] = epoch[Peer(r)]
  BY <1>1, PeerProps DEF Inv, TypeOK
<1>7. HostsInStep'
  BY <1>2, <1>6, PeerProps DEF HostsInStep, Before
<1>8. EpochsInStep'
  <2>1. /\ host[Peer(r)] = "prepare" =>
             epoch[Peer(r)] = epoch[r] /\ epoch[Peer(r)] < MaxEpoch
        /\ host[Peer(r)] # "prepare" => epoch[r] + 1 = epoch[Peer(r)]
    BY <1>1, PeerProps DEF Inv, EpochsInStep
  <2>2. \A q \in Rank : (q = r /\ Peer(q) = Peer(r)) \/ (q = Peer(r) /\ Peer(q) = r)
    BY PeerProps
  <2> QED BY <1>6, <2>1, <2>2 DEF EpochsInStep
<1>9. \A q \in Rank, c \in CTA : cta[q][c] \notin Working
  BY <1>2 DEF Inv, CtasInKernel, Before
<1>10. CtasInKernel'
  BY <1>1, <1>9 DEF CtasInKernel, OnTile, Working, CtaPoint
<1>11. CtaKnows'
  BY <1>1, <1>9 DEF CtaKnows, Working, CtaPoint
<1>12. \A q \in Rank : epoch'[q] >= epoch[q] /\ epoch[q] \in Nat /\ epoch'[q] \in Nat
  BY <1>2, <1>6, PeerProps
<1>13. FlagsBounded'
  <2>1. \A q \in Rank, t \in Tile :
          /\ produced[q][t] \in Nat /\ remote_ready[Peer(q)][t] \in Nat
          /\ \A s \in signals[Peer(q)] : s.epoch \in Nat
    BY PeerProps DEF Inv, TypeOK, Signal
  <2> QED BY <1>1, <1>12, <2>1 DEF Inv, FlagsBounded
<1>14. Announced'
  <2>1. /\ partial'[Peer(r)] = partial[Peer(r)]
        /\ peer_partial'[Peer(r)] = peer_partial[Peer(r)]
    BY <1>1, PeerProps DEF Inv, TypeOK
  <2>2. \A t \in Tile : Current(Peer(r), t) => Current(Peer(r), t)'
    BY <1>6, <2>1, PeerProps DEF Current
  <2>3. \A t \in Tile :
          /\ produced[r][t] # epoch'[r]
          /\ remote_ready[Peer(r)][t] # epoch'[r]
          /\ \A s \in signals[Peer(r)] : s.epoch # epoch'[r]
    <3>1. \A t \in Tile :
            /\ produced[r][t] \in Nat /\ remote_ready[Peer(r)][t] \in Nat
            /\ \A s \in signals[Peer(r)] : s.epoch \in Nat
      BY PeerProps DEF Inv, TypeOK, Signal
    <3> QED BY <1>2, <1>6, <3>1 DEF Inv, FlagsBounded
  <2>4. \A q \in Rank : q = r \/ q = Peer(r)
    BY PeerProps
  <2> QED BY <1>1, <1>6, <2>2, <2>3, <2>4, PeerProps DEF Inv, Announced
<1>15. OutputCorrect'
  BY <1>1, <1>6, PeerProps DEF Inv, TypeOK, OutputCorrect
<1> QED BY <1>5, <1>7, <1>8, <1>10, <1>11, <1>13, <1>14, <1>15 DEF Inv

\* A host that goes on within the section between two collectives.
LEMMA DuringStep ==
  ASSUME Inv, NEW r \in Rank, host[r] \in During, NEW point \in During,
         GoHost(r, point), UNCHANGED epoch
  PROVE  /\ host' \in [Rank -> HostPoint]
         /\ HostsInStep' /\ EpochsInStep'
         /\ host'[r] = point /\ host'[Peer(r)] = host[Peer(r)]
<1>1. host[Peer(r)] \in During /\ epoch[Peer(r)] = epoch[r]
  BY SameEpoch
<1>2. /\ host' \in [Rank -> HostPoint]
      /\ host'[r] = point /\ host'[Peer(r)] = host[Peer(r)]
  BY PeerProps DEF GoHost, Inv, TypeOK, During, HostPoint
<1>3. \A q \in Rank : host'[q] \in During /\ epoch'[Peer(q)] = epoch'[q]
  BY <1>1, <1>2, PeerProps
<1>4. \A q \in Rank : host'[q] # "prepare"
  BY <1>3 DEF During
<1>5. HostsInStep'
  BY <1>3 DEF HostsInStep
<1>6. EpochsInStep'
  BY <1>3, <1>4, PeerProps DEF EpochsInStep
<1> QED BY <1>2, <1>5, <1>6

\* A launch starts the CTAs, which know nothing yet, on existing tiles.
LEMMA LaunchRolesInv ==
  ASSUME Inv, NEW r \in Rank, LaunchRoles(r)
  PROVE  Inv'
<1>1. /\ host[r] = "launch"
      /\ cta' = [cta EXCEPT ![r] = [c \in CTA |-> Entry(r, c)]]
      /\ tile' = [tile EXCEPT ![r] = [c \in CTA |-> FirstTile(r, c)]]
      /\ GoHost(r, "kernel")
      /\ UNCHANGED <<epoch, data, flags>>
  BY DEF LaunchRoles
<1>2. /\ host' \in [Rank -> HostPoint]
      /\ HostsInStep' /\ EpochsInStep'
      /\ host'[r] = "kernel" /\ host'[Peer(r)] = host[Peer(r)]
  BY <1>1, DuringStep DEF During
<1>3. \A c \in CTA :
        /\ FirstTile(r, c) \in Nat
        /\ Entry(r, c) \in {"queued", "compute", "exit", "finish",
                            "await_finished", "await_produced"}
        /\ Entry(r, c) \in {"compute", "await_produced"} => FirstTile(r, c) \in Tile
        /\ Entry(r, c) = "finish" => c \in 0 .. Compute - 1
  BY StrideType, LoopTestType DEF Entry
<1>4. /\ cta' \in [Rank -> [CTA -> CtaPoint]] /\ tile' \in [Rank -> [CTA -> Nat]]
      /\ \A c \in CTA : cta'[r][c] = Entry(r, c) /\ tile'[r][c] = FirstTile(r, c)
      /\ cta'[Peer(r)] = cta[Peer(r)] /\ tile'[Peer(r)] = tile[Peer(r)]
  BY <1>1, <1>3, PeerProps DEF Inv, TypeOK, CtaPoint
<1>5. TypeOK'
  BY <1>1, <1>2, <1>4 DEF Inv, TypeOK, data, flags
<1>6. CtasInKernel'
  <2>1. \A c \in CTA :
          /\ cta'[r][c] \in OnTile => tile'[r][c] \in Tile
          /\ cta'[r][c] = "finish" => c \in 0 .. Compute - 1
    BY <1>3, <1>4 DEF OnTile
  <2>2. \A c \in CTA :
          /\ cta[Peer(r)][c] \in Working => host[Peer(r)] = "kernel"
          /\ cta[Peer(r)][c] \in OnTile => tile[Peer(r)][c] \in Tile
          /\ cta[Peer(r)][c] = "finish" => c \in 0 .. Compute - 1
    BY PeerProps DEF Inv, CtasInKernel
  <2> QED BY <1>2, <1>4, <2>1, <2>2, PeerProps DEF CtasInKernel
<1>7. FlagsBounded' /\ Announced' /\ OutputCorrect'
  BY <1>1 DEF Inv, FlagsBounded, Announced, Current, OutputCorrect, data, flags
<1>8. CtaKnows'
  BY <1>1, <1>3, <1>4, PeerProps DEF Inv, CtaKnows, Current, data
<1> QED BY <1>2, <1>5, <1>6, <1>7, <1>8 DEF Inv

\* The library adds the results of this epoch.
LEMMA LaunchLibraryInv ==
  ASSUME Inv, NEW r \in Rank, LaunchLibrary(r)
  PROVE  Inv'
<1>1. /\ host[r] = "launch"
      /\ output' = [output EXCEPT ![r] = [t \in Tile |-> <<epoch[r], epoch[r]>>]]
      /\ GoHost(r, "kernel")
      /\ UNCHANGED <<epoch, cta, tile, partial, peer_partial, produced, finished,
                     remote_ready, signals>>
  BY DEF LaunchLibrary, ctaVars, flags
<1>2. /\ host' \in [Rank -> HostPoint]
      /\ HostsInStep' /\ EpochsInStep'
      /\ host'[r] = "kernel" /\ host'[Peer(r)] = host[Peer(r)]
  BY <1>1, DuringStep DEF During
<1>3. TypeOK' /\ OutputCorrect'
  <2>1. epoch[r] \in Nat /\ output \in [Rank -> [Tile -> Nat \X Nat]]
    BY GridAssumption DEF Inv, TypeOK
  <2>2. [t \in Tile |-> <<epoch[r], epoch[r]>>] \in [Tile -> Nat \X Nat]
    BY <2>1
  <2>3. /\ output' \in [Rank -> [Tile -> Nat \X Nat]]
        /\ \A q \in Rank, t \in Tile :
             output'[q][t] = output[q][t] \/ output'[q][t] = <<epoch[q], epoch[q]>>
    BY <1>1, <2>1, <2>2
  <2>4. TypeOK'
    BY <1>1, <1>2, <2>3 DEF Inv, TypeOK
  <2>5. OutputCorrect'
    BY <1>1, <2>3 DEF Inv, OutputCorrect
  <2> QED BY <2>4, <2>5
<1>4. CtasInKernel'
  BY <1>1, <1>2, PeerProps DEF Inv, CtasInKernel
<1>5. FlagsBounded' /\ Announced' /\ CtaKnows'
  BY <1>1 DEF Inv, FlagsBounded, Announced, CtaKnows, Current
<1> QED BY <1>2, <1>3, <1>4, <1>5 DEF Inv

\* A launch that has ended leaves no CTA working.
LEMMA KernelDoneInv ==
  ASSUME Inv, NEW r \in Rank, KernelDone(r)
  PROVE  Inv'
<1>1. /\ host[r] = "kernel"
      /\ \A c \in CTA : cta[r][c] \notin Working
      /\ GoHost(r, "worst")
      /\ UNCHANGED <<epoch, ctaVars, data, flags>>
  BY DEF KernelDone, Working
<1>2. /\ host' \in [Rank -> HostPoint]
      /\ HostsInStep' /\ EpochsInStep'
      /\ host'[r] = "worst" /\ host'[Peer(r)] = host[Peer(r)]
  BY <1>1, DuringStep DEF During
<1>3. TypeOK'
  BY <1>1, <1>2 DEF Inv, TypeOK, ctaVars, data, flags
<1>4. CtasInKernel'
  BY <1>1, <1>2, PeerProps DEF Inv, CtasInKernel, ctaVars
<1>5. FlagsBounded' /\ Announced' /\ CtaKnows' /\ OutputCorrect'
  BY <1>1 DEF Inv, FlagsBounded, Announced, CtaKnows, Current, OutputCorrect,
     ctaVars, data, flags
<1> QED BY <1>2, <1>3, <1>4, <1>5 DEF Inv

\* A collective takes both hosts to the next section, when no CTA runs.
LEMMA CollectiveInv ==
  ASSUME Inv, NEW from \in {"barrier", "worst", "check"},
         NEW to \in {"launch", "check", "abort", "done", "prepare"},
         to = "prepare" => from = "check" /\ epoch[0] # MaxEpoch,
         Collective(from, to)
  PROVE  Inv'
<1>1. /\ \A r \in Rank : host[r] = from
      /\ host' = [r \in Rank |-> to]
      /\ UNCHANGED <<epoch, ctaVars, data, flags>>
  BY DEF Collective
<1>2. \A r \in Rank : epoch[Peer(r)] = epoch[r] /\ epoch[r] \in 0 .. MaxEpoch
  BY <1>1, PeerProps DEF Inv, EpochsInStep, TypeOK
<1>3. to = "prepare" => \A r \in Rank : epoch[r] < MaxEpoch
  BY <1>2, GridAssumption, PeerProps DEF Rank
<1>4. TypeOK'
  BY <1>1 DEF Inv, TypeOK, HostPoint, ctaVars, data, flags
<1>5. HostsInStep'
  BY <1>1 DEF HostsInStep, Before, During
<1>6. EpochsInStep'
  BY <1>1, <1>2, <1>3, PeerProps DEF EpochsInStep
<1>7. CtasInKernel'
  BY <1>1 DEF Inv, CtasInKernel, ctaVars
<1>8. FlagsBounded' /\ Announced' /\ CtaKnows' /\ OutputCorrect'
  BY <1>1 DEF Inv, FlagsBounded, Announced, CtaKnows, Current, OutputCorrect,
     ctaVars, data, flags
<1> QED BY <1>4, <1>5, <1>6, <1>7, <1>8 DEF Inv

(***************************************************************************)
(* The theorems.                                                           *)
(***************************************************************************)
\* The initial states satisfy the invariant.
LEMMA InitInv == Init => Inv
<1> SUFFICES ASSUME Init PROVE Inv
  OBVIOUS
<1>1. TypeOK
  BY GridAssumption DEF Init, TypeOK, HostPoint, CtaPoint, Filled
<1>2. HostsInStep /\ EpochsInStep
  BY GridAssumption, PeerProps DEF Init, HostsInStep, EpochsInStep, Before
<1>3. CtasInKernel /\ CtaKnows
  BY DEF Init, CtasInKernel, CtaKnows, Working, OnTile, CtaPoint
<1>4. FlagsBounded /\ Announced /\ OutputCorrect
  BY PeerProps DEF Init, FlagsBounded, Announced, Current, OutputCorrect, Filled
<1> QED BY <1>1, <1>2, <1>3, <1>4 DEF Inv

\* Every step preserves the invariant, one case per action.
LEMMA NextInv == Inv /\ [Next]_vars => Inv'
<1> SUFFICES ASSUME Inv, [Next]_vars PROVE Inv'
  OBVIOUS
<1>1. CASE UNCHANGED vars
  BY <1>1 DEF vars, hostVars, ctaVars, data, flags, Inv, TypeOK, HostsInStep,
     EpochsInStep, CtasInKernel, FlagsBounded, Announced, CtaKnows, Current,
     OutputCorrect
<1>2. ASSUME NEW r \in Rank, HostStep(r) PROVE Inv'
  BY <1>2, PrepareInv, LaunchRolesInv, LaunchLibraryInv, KernelDoneInv DEF HostStep
<1>3. ASSUME NEW r \in Rank, NEW c \in CTA, CtaStep(r, c) PROVE Inv'
  BY <1>3, DispatchInv, ComputeTileInv, FenceSystemInv, PublishTileInv, PublishFinishedInv,
     AwaitFinishedInv, AwaitProducedInv, SignalPeerInv, QuietInv, AwaitPeerInv,
     ReduceInv DEF CtaStep
<1>4. ASSUME NEW r \in Rank, Deliver(r) PROVE Inv'
  BY <1>4, DeliverInv
<1>5. ASSUME NEW r \in Rank, NEW t \in Tile, Drain(r, t) PROVE Inv'
  BY <1>5, DrainInv
<1>6. CASE MPIBarrier
  BY <1>6, CollectiveInv DEF MPIBarrier
<1>7. CASE AllreduceWorst
  BY <1>7, CollectiveInv DEF AllreduceWorst
<1>8. CASE AllreduceErrors
  BY <1>8, CollectiveInv DEF AllreduceErrors
<1>9. CASE Finished
  BY <1>1, <1>9 DEF Finished
<1> QED BY <1>1, <1>2, <1>3, <1>4, <1>5, <1>6, <1>7, <1>8, <1>9 DEF Next

\* The invariant holds in every reachable state.
LEMMA Invariance == Spec => []Inv
BY InitInv, NextInv, PTL DEF Spec

\* Whatever a CTA writes to the output is the sum of both ranks' partial
\* results of the current epoch, however CTAs, signals, stores and the two
\* hosts interleave.
THEOREM OutputIsCorrect == Spec => []OutputCorrect
BY Invariance, PTL DEF Inv

\* A flag of the current epoch is set only when the peer sees the data.
THEOREM NoticesAreVisible == Spec => []NoticeMeansVisible
<1>1. Inv => NoticeMeansVisible
  <2> SUFFICES ASSUME Inv, NEW r \in Rank, NEW t \in Tile
               PROVE  /\ produced[r][t] >= epoch[r] =>
                           partial[r][t] = epoch[r] /\ peer_partial[r][t] = epoch[r]
                      /\ remote_ready[Peer(r)][t] >= epoch[r] =>
                           peer_partial[r][t] = epoch[r]
    BY DEF NoticeMeansVisible
  <2>1. /\ produced[r][t] \in Nat /\ remote_ready[Peer(r)][t] \in Nat
        /\ epoch[r] \in Nat
    BY PeerProps DEF Inv, TypeOK
  <2> QED BY <2>1 DEF Inv, FlagsBounded, Announced, Current
<1> QED BY <1>1, Invariance, PTL

\* Nobody changes what a reduction reads: the hosts have not gone on, a tile
\* is not computed again to another result, and its stores have drained.
THEOREM ReducedIsStable == Spec => StableWhileReduced
<1>1. ASSUME Inv, [Next]_vars, NEW t \in Tile, Reducing(t), NEW q \in Rank
      PROVE  partial'[q][t] = partial[q][t] /\ peer_partial'[q][t] = peer_partial[q][t]
  <2>1. PICK r \in Rank, c \in CTA : cta[r][c] = "reduce" /\ tile[r][c] = t
    BY <1>1 DEF Reducing
  <2>2. Current(q, t)
    BY <1>1, <2>1, PeerProps DEF Inv, CtaKnows
  <2>3. \A u \in Rank : host[u] \in During
    <3>1. host[r] = "kernel"
      BY <1>1, <2>1 DEF Inv, CtasInKernel, Working, CtaPoint
    <3> QED BY <1>1, <3>1, PeerProps, SameEpoch DEF During
  <2>4. /\ partial \in [Rank -> [Tile -> Nat]]
        /\ peer_partial \in [Rank -> [Tile -> Nat]]
    BY <1>1 DEF Inv, TypeOK
  <2>5. CASE UNCHANGED <<partial, peer_partial>>
    BY <2>5
  <2>6. ASSUME NEW u \in Rank, NEW d \in CTA, ComputeTile(u, d)
        PROVE  partial'[q][t] = partial[q][t] /\ peer_partial'[q][t] = peer_partial[q][t]
    <3>1. partial' = [partial EXCEPT ![u][tile[u][d]] = epoch[u]]
          /\ peer_partial' = peer_partial
      BY <2>6 DEF ComputeTile
    <3> QED BY <2>2, <2>4, <3>1 DEF Current
  <2>7. ASSUME NEW u \in Rank, NEW d \in CTA, FenceSystem(u, d)
        PROVE  partial'[q][t] = partial[q][t] /\ peer_partial'[q][t] = peer_partial[q][t]
    <3>1. peer_partial' = [peer_partial EXCEPT ![u][tile[u][d]] = partial[u][tile[u][d]]]
          /\ partial' = partial
      BY <2>7 DEF FenceSystem
    <3> QED BY <2>2, <2>4, <3>1 DEF Current
  <2>8. ASSUME NEW u \in Rank, NEW v \in Tile, Drain(u, v)
        PROVE  partial'[q][t] = partial[q][t] /\ peer_partial'[q][t] = peer_partial[q][t]
    <3>1. peer_partial' = [peer_partial EXCEPT ![u][v] = partial[u][v]]
          /\ partial' = partial
      BY <2>8 DEF Drain
    <3> QED BY <2>2, <2>4, <3>1 DEF Current
  <2>9. ASSUME NEW u \in Rank, HostStep(u) PROVE UNCHANGED <<partial, peer_partial>>
    BY <2>3, <2>9 DEF HostStep, Prepare, LaunchRoles, LaunchLibrary, KernelDone,
       data, During
  <2>10. ASSUME NEW u \in Rank, NEW d \in CTA, CtaStep(u, d),
                ~ComputeTile(u, d), ~FenceSystem(u, d)
         PROVE  UNCHANGED <<partial, peer_partial>>
    BY <2>10 DEF CtaStep, Dispatch, PublishTile, PublishFinished, AwaitFinished,
       AwaitProduced, SignalPeer, Quiet, AwaitPeer, Reduce, data
  <2>11. (\E u \in Rank : Deliver(u)) \/ MPIBarrier \/ AllreduceWorst
         \/ AllreduceErrors \/ Finished \/ UNCHANGED vars
           => UNCHANGED <<partial, peer_partial>>
    BY DEF Deliver, MPIBarrier, AllreduceWorst, AllreduceErrors, Collective,
       Finished, vars, data
  <2> QED BY <1>1, <2>5, <2>6, <2>7, <2>8, <2>9, <2>10, <2>11 DEF Next
<1>2. Inv /\ [Next]_vars =>
        [\A t \in Tile : Reducing(t) =>
           \A r \in Rank : partial'[r][t] = partial[r][t]
                           /\ peer_partial'[r][t] = peer_partial[r][t]]_vars
  BY <1>1
<1> QED BY <1>2, Invariance, PTL DEF Spec, StableWhileReduced

(***************************************************************************)
(* How the CTAs of a launch of GemmComm divide the tiles among them: no    *)
(* tile has two owners, and when the launch has ended every tile is done.  *)
(* For every grid, every number of tiles and every sequence of launches.   *)
(*                                                                         *)
(* A CTA's loop goes through the tiles that leave the number of the CTA    *)
(* within its role as remainder of the role's number of CTAs.  So the      *)
(* loops of two CTAs of a role never meet, and a tile's remainder names    *)
(* the CTA that must have done it.                                         *)
(***************************************************************************)

(***************************************************************************)
(* The inductive invariant, on top of Inv.                                 *)
(***************************************************************************)
\* The host waits for CTAs, not for the library.
InKernel(r) == host[r] = "kernel" /\ mode(r) # -1

\* The tile numbers that a CTA's loop goes through, and what it has done to
\* each when it goes on.
Own(r, c, t) == t % Stride(r, c) = FirstTile(r, c)
Reduces(r, c) == mode(r) = 0 \/ ~IsComputeCTA(c)
Done(r, c, t) ==
  IF Reduces(r, c) THEN output[r][t] = <<epoch[r], epoch[r]>>
  ELSE partial[r][t] = epoch[r]

\* Where a CTA may be in its role; it ends when its loop has.
ComputePoint == {"compute", "fence", "flag"}
ReducePoint  == {"signal", "quiet", "await_peer", "reduce"}
InRole(r, c) ==
  /\ cta[r][c] # "idle"
  /\ cta[r][c] \in ComputePoint => mode(r) = 0 \/ IsComputeCTA(c)
  /\ cta[r][c] \in ReducePoint => Reduces(r, c)
  /\ cta[r][c] = "await_produced" => mode(r) # 0 /\ ~IsComputeCTA(c)
  /\ cta[r][c] = "await_finished" => mode(r) = 1 /\ ~IsComputeCTA(c)
  /\ cta[r][c] = "finish" => tile[r][c] >= Total
  /\ cta[r][c] = "exit" =>
       tile[r][c] >= Total \/ (mode(r) \in {3, 6} /\ ~IsComputeCTA(c))

Covered(r, c) ==
  /\ Own(r, c, tile[r][c])
  /\ \A t \in Tile : Own(r, c, t) /\ t < tile[r][c] => Done(r, c, t)

\* No host has seen an error, nor will it: its kernel is done with all tiles.
NoErrors ==
  \A r \in Rank :
    /\ host[r] = "kernel" /\ mode(r) = -1 =>
         ~Errors(r) /\ \A c \in CTA : cta[r][c] \in {"idle", "exit"}
    /\ host[r] \in {"worst", "check"} => ~Errors(r)
    /\ host[r] # "abort"

CoverInv ==
  /\ Inv
  /\ \A r \in Rank, c \in CTA : InKernel(r) => InRole(r, c) /\ Covered(r, c)
  /\ NoErrors

(***************************************************************************)
(* The loops of a launch.                                                  *)
(***************************************************************************)
\* A CTA starts below its stride.
LEMMA FirstBelowStride ==
  ASSUME NEW r \in Rank, NEW c \in CTA
  PROVE  /\ Stride(r, c) \in Nat \ {0}
         /\ FirstTile(r, c) \in 0 .. Stride(r, c) - 1
<1>1. c \in 0 .. Compute + Comm - 1 /\ Compute \in Nat \ {0} /\ Comm \in Nat \ {0}
  BY GridAssumption DEF CTA
<1> QED BY <1>1 DEF FirstTile, Stride, IsComputeCTA

\* A CTA's first tile is its own, and it has none before it.
LEMMA FirstOwn ==
  ASSUME NEW r \in Rank, NEW c \in CTA
  PROVE  /\ Own(r, c, FirstTile(r, c))
         /\ \A t \in Tile : Own(r, c, t) => ~(t < FirstTile(r, c))
<1>1. /\ Stride(r, c) \in Nat \ {0}
      /\ FirstTile(r, c) \in 0 .. Stride(r, c) - 1
  BY FirstBelowStride
<1>2. Own(r, c, FirstTile(r, c))
  BY <1>1, SmallMod DEF Own
<1>3. ASSUME NEW t \in Tile, Own(r, c, t), t < FirstTile(r, c) PROVE FALSE
  <2>1. t \in Nat
    BY TileProps
  <2> QED BY <1>1, <1>3, <2>1, ModRange DEF Own
<1> QED BY <1>2, <1>3

\* A tile that the loop has passed is the one just left or an earlier one.
LEMMA NextOwn ==
  ASSUME NEW r \in Rank, NEW c \in CTA, NEW a \in Nat, Own(r, c, a)
  PROVE  /\ Own(r, c, a + Stride(r, c))
         /\ \A t \in Tile : Own(r, c, t) /\ t < a + Stride(r, c) => t = a \/ t < a
<1>1. Stride(r, c) \in Nat \ {0} /\ Tile \subseteq Nat
  BY FirstBelowStride, TileProps
<1>2. Own(r, c, a + Stride(r, c))
  BY <1>1, PlusMod DEF Own
<1>3. ASSUME NEW t \in Tile, Own(r, c, t), t < a + Stride(r, c), ~(t < a)
      PROVE  t = a
  <2>1. t \in Nat /\ a <= t /\ t % Stride(r, c) = a % Stride(r, c)
    BY <1>1, <1>3 DEF Own
  <2> QED BY <1>1, <1>3, <2>1, SameResidue
<1> QED BY <1>2, <1>3

\* The role of a CTA, and the tiles it owns, depend on the epoch only.
LEMMA SameLaunch ==
  ASSUME UNCHANGED hostVars, NEW r \in Rank, NEW c \in CTA
  PROVE  /\ mode(r)' = mode(r) /\ InKernel(r)' = InKernel(r)
         /\ Stride(r, c)' = Stride(r, c) /\ FirstTile(r, c)' = FirstTile(r, c)
         /\ Reduces(r, c)' = Reduces(r, c)
         /\ \A t : Own(r, c, t)' = Own(r, c, t)
BY DEF hostVars, mode, InKernel, Stride, FirstTile, IsComputeCTA, Reduces, Own

(***************************************************************************)
(* Steps that leave the hosts alone.                                       *)
(***************************************************************************)
\* Results of this epoch stay.
ResultsStay ==
  \A q \in Rank, t \in Tile :
    /\ partial[q][t] = epoch[q] => partial'[q][t] = epoch[q]
    /\ output[q][t] = <<epoch[q], epoch[q]>> => output'[q][t] = <<epoch[q], epoch[q]>>

\* Then no error appears, and what was done is.
LEMMA NoErrorsStay ==
  ASSUME CoverInv, UNCHANGED hostVars, ResultsStay,
         \A r \in Rank, c \in CTA :
           ~InKernel(r) /\ cta[r][c] \in {"idle", "exit"} => cta'[r][c] = cta[r][c]
  PROVE  /\ NoErrors'
         /\ \A r \in Rank, c \in CTA, t \in Tile : Done(r, c, t) => Done(r, c, t)'
<1>1. \A r \in Rank : ~Errors(r) => ~Errors(r)'
  BY DEF Errors, ResultsStay, hostVars, mode
<1>2. \A r \in Rank, c \in CTA, t \in Tile : Done(r, c, t) => Done(r, c, t)'
  BY SameLaunch DEF Done, ResultsStay, hostVars
<1>3. NoErrors'
  BY <1>1 DEF CoverInv, NoErrors, InKernel, hostVars, mode
<1> QED BY <1>2, <1>3

\* A step that moves no CTA, and keeps the results.
LEMMA NobodyMoves ==
  ASSUME CoverInv, Inv', UNCHANGED <<hostVars, ctaVars>>, ResultsStay
  PROVE  CoverInv'
<1>1. NoErrors' /\ \A r \in Rank, c \in CTA, t \in Tile : Done(r, c, t) => Done(r, c, t)'
  BY NoErrorsStay DEF ctaVars
<1>2. ASSUME NEW r \in Rank, NEW c \in CTA, InKernel(r)'
      PROVE  InRole(r, c)' /\ Covered(r, c)'
  <2>1. InRole(r, c) /\ Covered(r, c)
    BY <1>2, SameLaunch DEF CoverInv
  <2>2. InRole(r, c)'
    BY <2>1, SameLaunch DEF InRole, ctaVars, hostVars, IsComputeCTA, mode, Reduces
  <2>3. Covered(r, c)'
    BY <1>1, <2>1, SameLaunch DEF Covered, ctaVars
  <2> QED BY <2>2, <2>3
<1> QED BY <1>1, <1>2 DEF CoverInv

\* A step of one CTA, which stays on its tile or is done with it.
LEMMA CtaMoves ==
  ASSUME CoverInv, Inv', NEW r \in Rank, NEW c \in CTA,
         InKernel(r), UNCHANGED hostVars, ResultsStay,
         \A q \in Rank, d \in CTA : ~(q = r /\ d = c) =>
            cta'[q][d] = cta[q][d] /\ tile'[q][d] = tile[q][d],
         \/ tile'[r][c] = tile[r][c]
         \/ \E a \in Tile : /\ a = tile[r][c] /\ tile'[r][c] = a + Stride(r, c)
                           /\ Done(r, c, a)',
         InRole(r, c)'
  PROVE  CoverInv'
<1>1. NoErrors' /\ \A q \in Rank, d \in CTA, t \in Tile : Done(q, d, t) => Done(q, d, t)'
  BY NoErrorsStay
<1>2. Covered(r, c)'
  <2>1. Covered(r, c) /\ tile[r][c] \in Nat
    BY DEF CoverInv, Inv, TypeOK
  <2>2. CASE tile'[r][c] = tile[r][c]
    BY <1>1, <2>1, <2>2, SameLaunch DEF Covered
  <2>3. ASSUME NEW a \in Tile, a = tile[r][c], tile'[r][c] = a + Stride(r, c),
               Done(r, c, a)'
        PROVE  Covered(r, c)'
    <3>1. /\ Own(r, c, tile'[r][c])
          /\ \A t \in Tile : Own(r, c, t) /\ t < tile'[r][c] => t = a \/ t < a
      BY <2>1, <2>3, NextOwn DEF Covered
    <3>2. /\ Own(r, c, tile[r][c])'
          /\ \A t \in Tile : Own(r, c, t)' => Own(r, c, t)
      BY <3>1, SameLaunch
    <3>3. \A t \in Tile : Own(r, c, t) /\ t < a => Done(r, c, t)'
      BY <1>1, <2>1, <2>3 DEF Covered
    <3> QED BY <2>3, <3>1, <3>2, <3>3 DEF Covered
  <2> QED BY <2>2, <2>3
<1>3. ASSUME NEW q \in Rank, NEW d \in CTA, InKernel(q)', ~(q = r /\ d = c)
      PROVE  InRole(q, d)' /\ Covered(q, d)'
  <2>1. InRole(q, d) /\ Covered(q, d)
    BY <1>3, SameLaunch DEF CoverInv
  <2>2. InRole(q, d)'
    BY <1>3, <2>1, SameLaunch DEF InRole, hostVars, IsComputeCTA, mode, Reduces
  <2>3. Covered(q, d)'
    BY <1>1, <1>3, <2>1, SameLaunch DEF Covered
  <2> QED BY <2>2, <2>3
<1> QED BY <1>1, <1>2, <1>3 DEF CoverInv

\* A CTA that makes a step runs, and not for the library.
LEMMA StepInKernel ==
  ASSUME CoverInv, NEW r \in Rank, NEW c \in CTA, cta[r][c] \in Working
  PROVE  /\ InKernel(r) /\ InRole(r, c) /\ Covered(r, c) /\ tile[r][c] \in Nat
         /\ cta[r][c] \in OnTile => tile[r][c] \in Tile
BY DEF CoverInv, Inv, TypeOK, CtasInKernel, NoErrors, InKernel, Working

\* Where a CTA gets by a loop test, it may be.
LEMMA LoopRole ==
  ASSUME UNCHANGED hostVars, NEW r \in Rank, NEW c \in CTA, NEW a \in Nat,
         tile'[r][c] = a, cta'[r][c] = LoopTest(r, c, a)
  PROVE  InRole(r, c)'
<1>1. Total \in Nat
  BY GridAssumption
<1>2. /\ LoopTest(r, c, a) \in {"compute", "exit", "finish", "await_produced"}
      /\ LoopTest(r, c, a) = "compute" => mode(r) = 0 \/ IsComputeCTA(c)
      /\ LoopTest(r, c, a) = "await_produced" => mode(r) # 0 /\ ~IsComputeCTA(c)
      /\ LoopTest(r, c, a) \in {"finish", "exit"} => a >= Total
  BY <1>1 DEF LoopTest
<1>3. mode(r)' = mode(r) /\ IsComputeCTA(c)' = IsComputeCTA(c)
  BY SameLaunch DEF IsComputeCTA
<1> HIDE DEF mode, IsComputeCTA
<1> QED BY <1>2, <1>3 DEF InRole, ComputePoint, ReducePoint

\* A CTA that changes its point only, to one that its role has.
LEMMA SameTile ==
  ASSUME CoverInv, Inv', NEW r \in Rank, NEW c \in CTA, cta[r][c] \in Working,
         NEW point, GoCta(r, c, point), UNCHANGED <<hostVars, tile>>, ResultsStay,
         (cta'[r][c] = point /\ tile'[r][c] = tile[r][c]) => InRole(r, c)'
  PROVE  CoverInv'
<1>1. InKernel(r)
  BY StepInKernel
<1>2. /\ cta'[r][c] = point /\ tile'[r][c] = tile[r][c]
      /\ \A q \in Rank, d \in CTA : ~(q = r /\ d = c) =>
           cta'[q][d] = cta[q][d] /\ tile'[q][d] = tile[q][d]
  BY DEF GoCta, CoverInv, Inv, TypeOK
<1> QED BY <1>1, <1>2, CtaMoves

\* A CTA that is done with its tile and goes on to the next.
LEMMA NextTile ==
  ASSUME CoverInv, Inv', NEW r \in Rank, NEW c \in CTA, cta[r][c] \in OnTile,
         NextRound(r, c), UNCHANGED hostVars, ResultsStay,
         \A a \in Tile : a = tile[r][c] => Done(r, c, a)'
  PROVE  CoverInv'
<1>1. /\ InKernel(r) /\ tile[r][c] \in Tile /\ tile[r][c] \in Nat
  BY StepInKernel DEF OnTile, Working, CtaPoint
<1>2. Stride(r, c) \in Nat
  BY FirstBelowStride
<1>3. /\ tile'[r][c] = tile[r][c] + Stride(r, c)
      /\ cta'[r][c] = LoopTest(r, c, tile'[r][c])
      /\ tile'[r][c] \in Nat
      /\ \A q \in Rank, d \in CTA : ~(q = r /\ d = c) =>
           cta'[q][d] = cta[q][d] /\ tile'[q][d] = tile[q][d]
  <2> DEFINE next == tile[r][c] + Stride(r, c)
  <2>1. /\ tile' = [tile EXCEPT ![r][c] = next]
        /\ cta' = [cta EXCEPT ![r][c] = LoopTest(r, c, next)]
    BY DEF NextRound, GoCta
  <2>2. next \in Nat
    BY <1>1, <1>2
  <2>3. cta \in [Rank -> [CTA -> CtaPoint]] /\ tile \in [Rank -> [CTA -> Nat]]
    BY DEF CoverInv, Inv, TypeOK
  <2> HIDE DEF next
  <2>4. /\ tile'[r][c] = next /\ cta'[r][c] = LoopTest(r, c, next)
        /\ \A q \in Rank, d \in CTA : ~(q = r /\ d = c) =>
             cta'[q][d] = cta[q][d] /\ tile'[q][d] = tile[q][d]
    BY <2>1, <2>3
  <2> QED BY <2>2, <2>4 DEF next
<1>4. InRole(r, c)'
  BY <1>3, LoopRole
<1>5. \E a \in Tile : /\ a = tile[r][c] /\ tile'[r][c] = a + Stride(r, c)
                      /\ Done(r, c, a)'
  BY <1>1, <1>3
<1> QED BY <1>1, <1>3, <1>4, <1>5, CtaMoves

\* A CTA that enters its loop, as it becomes resident or after its wait.
LEMMA EnterLoopCover ==
  ASSUME CoverInv, Inv', NEW r \in Rank, NEW c \in CTA, cta[r][c] \in Working,
         GoCta(r, c, LoopTest(r, c, tile[r][c])),
         UNCHANGED <<hostVars, tile, data, flags>>
  PROVE  CoverInv'
<1>1. ResultsStay
  BY DEF ResultsStay, data
<1>2. tile[r][c] \in Nat
  BY StepInKernel
<1>3. cta'[r][c] = LoopTest(r, c, tile[r][c]) /\ tile'[r][c] = tile[r][c]
        => InRole(r, c)'
  BY <1>2, LoopRole
<1> QED BY <1>1, <1>3, SameTile

\* A tile is computed, or computed again with the same result.
LEMMA ComputeTileCover ==
  ASSUME CoverInv, Inv', NEW r \in Rank, NEW c \in CTA, ComputeTile(r, c)
  PROVE  CoverInv'
<1>1. /\ cta[r][c] = "compute" /\ cta[r][c] \in Working
      /\ GoCta(r, c, "fence") /\ UNCHANGED <<hostVars, tile, output>>
      /\ partial' = [partial EXCEPT ![r][tile[r][c]] = epoch[r]]
      /\ partial \in [Rank -> [Tile -> Nat]]
  BY DEF ComputeTile, Working, CtaPoint, CoverInv, Inv, TypeOK
<1>2. ResultsStay
  BY <1>1 DEF ResultsStay
<1>3. InRole(r, c)
  BY <1>1, StepInKernel
<1>4. cta'[r][c] = "fence" => InRole(r, c)'
  BY <1>1, <1>3, SameLaunch DEF InRole, IsComputeCTA, ComputePoint, ReducePoint
<1> QED BY <1>1, <1>2, <1>4, SameTile

\* The system fence moves the CTA within its role.
LEMMA FenceSystemCover ==
  ASSUME CoverInv, Inv', NEW r \in Rank, NEW c \in CTA, FenceSystem(r, c)
  PROVE  CoverInv'
<1>1. /\ cta[r][c] = "fence" /\ cta[r][c] \in Working
      /\ GoCta(r, c, "flag") /\ UNCHANGED <<hostVars, tile, partial, output>>
  BY DEF FenceSystem, Working, CtaPoint
<1>2. ResultsStay
  BY <1>1 DEF ResultsStay
<1>3. InRole(r, c)
  BY <1>1, StepInKernel
<1>4. cta'[r][c] = "flag" => InRole(r, c)'
  BY <1>1, <1>3, SameLaunch DEF InRole, IsComputeCTA, ComputePoint, ReducePoint
<1> QED BY <1>1, <1>2, <1>4, SameTile

\* A compute CTA is done with a tile when it has published it; in the serial
\* mode it goes on to reduce it.
LEMMA PublishTileCover ==
  ASSUME CoverInv, Inv', NEW r \in Rank, NEW c \in CTA, PublishTile(r, c)
  PROVE  CoverInv'
<1>1. /\ cta[r][c] = "flag" /\ cta[r][c] \in Working /\ cta[r][c] \in OnTile
      /\ UNCHANGED <<hostVars, partial, output>>
      /\ IF mode(r) = 0 THEN GoCta(r, c, "signal") /\ UNCHANGED tile
         ELSE NextRound(r, c)
  BY DEF PublishTile, Working, OnTile, CtaPoint, data
<1>2. ResultsStay
  BY <1>1 DEF ResultsStay
<1>3. InRole(r, c) /\ tile[r][c] \in Tile
  BY <1>1, StepInKernel
<1>4. CASE mode(r) = 0
  <2>1. cta'[r][c] = "signal" => InRole(r, c)'
    BY <1>1, <1>3, <1>4, SameLaunch DEF InRole, Reduces, ComputePoint, ReducePoint
  <2> QED BY <1>1, <1>2, <1>4, <2>1, SameTile
<1>5. CASE mode(r) # 0
  <2>1. ~Reduces(r, c)
    BY <1>1, <1>3, <1>5 DEF InRole, Reduces, ComputePoint
  <2>2. partial[r][tile[r][c]] = epoch[r]
    BY <1>1 DEF CoverInv, Inv, CtaKnows, Current
  <2>3. \A a \in Tile : a = tile[r][c] => Done(r, c, a)'
    BY <1>1, <2>1, <2>2, SameLaunch DEF Done, hostVars
  <2> QED BY <1>1, <1>2, <1>5, <2>3, NextTile
<1> QED BY <1>4, <1>5

\* The last flag of a compute CTA: its loop has ended.
LEMMA PublishFinishedCover ==
  ASSUME CoverInv, Inv', NEW r \in Rank, NEW c \in CTA, PublishFinished(r, c)
  PROVE  CoverInv'
<1>1. /\ cta[r][c] = "finish" /\ cta[r][c] \in Working
      /\ GoCta(r, c, "exit") /\ UNCHANGED <<hostVars, tile, partial, output>>
  BY DEF PublishFinished, Working, CtaPoint, data
<1>2. ResultsStay
  BY <1>1 DEF ResultsStay
<1>3. InRole(r, c)
  BY <1>1, StepInKernel
<1>4. cta'[r][c] = "exit" => InRole(r, c)'
  BY <1>1, <1>3, SameLaunch DEF InRole, ComputePoint, ReducePoint
<1> QED BY <1>1, <1>2, <1>4, SameTile

\* The steps before the reduction stay in the role.
LEMMA AnnouncementCover ==
  ASSUME CoverInv, Inv', NEW r \in Rank, NEW c \in CTA,
         cta[r][c] \in {"await_produced", "signal", "quiet", "await_peer"},
         NEW point \in ReducePoint, GoCta(r, c, point),
         UNCHANGED <<hostVars, tile, data>>
  PROVE  CoverInv'
<1>1. cta[r][c] \in Working
  BY DEF Working, CtaPoint
<1>2. ResultsStay
  BY DEF ResultsStay, data
<1>3. InRole(r, c)
  BY <1>1, StepInKernel
<1>4. Reduces(r, c)
  BY <1>3 DEF InRole, Reduces, ReducePoint
<1>5. cta'[r][c] = point => InRole(r, c)'
  BY <1>4, SameLaunch DEF InRole, ComputePoint, ReducePoint
<1> QED BY <1>1, <1>2, <1>5, SameTile

\* A tile is reduced when its sum is written.
LEMMA ReduceCover ==
  ASSUME CoverInv, Inv', NEW r \in Rank, NEW c \in CTA, Reduce(r, c)
  PROVE  CoverInv'
<1> DEFINE t == tile[r][c]
<1>1. /\ cta[r][c] = "reduce" /\ cta[r][c] \in Working /\ cta[r][c] \in OnTile
      /\ NextRound(r, c) /\ UNCHANGED <<hostVars, partial>>
      /\ output' = [output EXCEPT ![r][t] = <<partial[r][t], peer_partial[Peer(r)][t]>>]
      /\ output \in [Rank -> [Tile -> Nat \X Nat]]
  BY DEF Reduce, Working, OnTile, CtaPoint, CoverInv, Inv, TypeOK
<1>2. /\ host[r] = "kernel" /\ InRole(r, c) /\ t \in Tile
  BY <1>1, StepInKernel DEF InKernel
<1>3. <<partial[r][t], peer_partial[Peer(r)][t]>> = <<epoch[r], epoch[r]>>
  <2>1. Current(r, t) /\ Current(Peer(r), t)
    BY <1>1 DEF CoverInv, Inv, CtaKnows
  <2>2. epoch[Peer(r)] = epoch[r]
    BY <1>2, SameEpoch DEF CoverInv, During
  <2> QED BY <2>1, <2>2 DEF Current
<1>4. Reduces(r, c)
  BY <1>1, <1>2 DEF InRole, ReducePoint
<1> HIDE DEF t
<1>5. output' = [output EXCEPT ![r][t] = <<epoch[r], epoch[r]>>]
  BY <1>1, <1>3
<1>6. ResultsStay
  BY <1>1, <1>5 DEF ResultsStay
<1>7. \A a \in Tile : a = tile[r][c] => Done(r, c, a)'
  BY <1>1, <1>2, <1>4, <1>5, SameLaunch DEF Done, t, hostVars
<1> QED BY <1>1, <1>6, <1>7, NextTile

\* Every step of a CTA preserves the invariant.
LEMMA CtaStepCover ==
  ASSUME CoverInv, Inv', NEW r \in Rank, NEW c \in CTA, CtaStep(r, c)
  PROVE  CoverInv'
<1>1. CASE Dispatch(r, c)
  BY <1>1, EnterLoopCover DEF Dispatch, Working, CtaPoint
<1>2. CASE AwaitFinished(r, c)
  BY <1>2, EnterLoopCover DEF AwaitFinished, Working, CtaPoint
<1>3. CASE AwaitProduced(r, c)
  BY <1>3, AnnouncementCover DEF AwaitProduced, ReducePoint
<1>4. CASE SignalPeer(r, c)
  BY <1>4, AnnouncementCover DEF SignalPeer, ReducePoint
<1>5. CASE Quiet(r, c)
  BY <1>5, AnnouncementCover DEF Quiet, ReducePoint
<1>6. CASE AwaitPeer(r, c)
  BY <1>6, AnnouncementCover DEF AwaitPeer, ReducePoint
<1> QED BY <1>1, <1>2, <1>3, <1>4, <1>5, <1>6, ComputeTileCover, FenceSystemCover,
        PublishTileCover, PublishFinishedCover, ReduceCover DEF CtaStep

\* Stores that drain and signals that arrive are no results.
LEMMA MemoryCover ==
  ASSUME CoverInv, Inv', NEW r \in Rank, Deliver(r) \/ \E t \in Tile : Drain(r, t)
  PROVE  CoverInv'
<1>1. UNCHANGED <<hostVars, ctaVars, partial, output>>
  BY DEF Deliver, Drain, data
<1>2. ResultsStay
  BY <1>1 DEF ResultsStay
<1> QED BY <1>1, <1>2, NobodyMoves

(***************************************************************************)
(* Steps of the hosts.                                                     *)
(***************************************************************************)
\* The tile whose remainder is a CTA's first tile is the CTA's own: every tile
\* has a CTA that computes it and, in a mode that reduces, one that reduces it.
LEMMA EveryTileOwned ==
  ASSUME NEW r \in Rank, NEW t \in Tile
  PROVE  /\ \E c \in CTA : Own(r, c, t) /\ Reduces(r, c)
         /\ mode(r) # 0 => \E c \in CTA : Own(r, c, t) /\ ~Reduces(r, c)
<1>1. t \in Nat /\ Compute \in Nat \ {0} /\ Comm \in Nat \ {0}
  BY TileProps, GridAssumption
<1>2. CASE mode(r) = 0
  <2>1. t % (Compute + Comm) \in 0 .. Compute + Comm - 1
    BY <1>1, ModRange
  <2> QED BY <1>2, <2>1 DEF Own, Reduces, Stride, FirstTile, CTA
<1>3. CASE mode(r) # 0
  <2>1. t % Compute \in 0 .. Compute - 1 /\ t % Comm \in 0 .. Comm - 1
    BY <1>1, ModRange
  <2>2. \E c \in CTA : Own(r, c, t) /\ ~Reduces(r, c)
    <3> DEFINE c == t % Compute
    <3>1. c \in 0 .. Compute - 1
      BY <2>1
    <3> HIDE DEF c
    <3>2. c \in CTA /\ c < Compute
      BY <1>1, <3>1 DEF CTA
    <3>3. Own(r, c, t) /\ ~Reduces(r, c)
      BY <1>3, <3>2 DEF Own, Reduces, Stride, FirstTile, IsComputeCTA, c
    <3> QED BY <3>2, <3>3
  <2>3. \E c \in CTA : Own(r, c, t) /\ Reduces(r, c)
    <3> DEFINE m == t % Comm
               c == Compute + m
    <3>0. m \in 0 .. Comm - 1
      BY <2>1
    <3> HIDE DEF m
    <3>1. c \in CTA /\ ~(c < Compute) /\ c - Compute = m
      BY <1>1, <3>0 DEF CTA
    <3> HIDE DEF c
    <3>2. Own(r, c, t) /\ Reduces(r, c)
      BY <1>3, <3>1 DEF Own, Reduces, Stride, FirstTile, IsComputeCTA, m
    <3> QED BY <3>1, <3>2
  <2> QED BY <2>2, <2>3
<1> QED BY <1>2, <1>3

\* When all CTAs have returned, each tile's owner is done with it.
LEMMA AllReturned ==
  ASSUME CoverInv, NEW r \in Rank, InKernel(r),
         \A c \in CTA : cta[r][c] \in {"idle", "exit"}
  PROVE  ~Errors(r)
<1>1. ASSUME NEW c \in CTA, NEW t \in Tile, Own(r, c, t),
             mode(r) \in {3, 6} => IsComputeCTA(c)
      PROVE  Done(r, c, t)
  <2>1. InRole(r, c) /\ Covered(r, c) /\ tile[r][c] \in Nat
    BY DEF CoverInv, Inv, TypeOK
  <2>2. tile[r][c] >= Total
    BY <1>1, <2>1 DEF InRole
  <2>3. t < tile[r][c]
    BY <2>1, <2>2, GridAssumption DEF Tile
  <2> QED BY <1>1, <2>1, <2>3 DEF Covered
<1>2. ASSUME NEW t \in Tile, mode(r) \in {3, 6} PROVE partial[r][t] = epoch[r]
  <2>1. PICK c \in CTA : Own(r, c, t) /\ ~Reduces(r, c)
    BY <1>2, EveryTileOwned
  <2>2. IsComputeCTA(c)
    BY <2>1 DEF Reduces
  <2> QED BY <1>1, <2>1, <2>2 DEF Done
<1>3. ASSUME NEW t \in Tile, mode(r) \notin {3, 6}
      PROVE  output[r][t] = <<epoch[r], epoch[r]>>
  <2>1. PICK c \in CTA : Own(r, c, t) /\ Reduces(r, c)
    BY EveryTileOwned
  <2> QED BY <1>1, <1>3, <2>1 DEF Done
<1> QED BY <1>2, <1>3 DEF Errors

\* A step of host r that changes no data of the other rank, and no CTA of it.
LEMMA OtherRank ==
  ASSUME CoverInv, Inv', NEW r \in Rank,
         \A q \in Rank : q # r =>
           /\ host'[q] = host[q] /\ epoch'[q] = epoch[q]
           /\ cta'[q] = cta[q] /\ tile'[q] = tile[q]
           /\ partial'[q] = partial[q] /\ output'[q] = output[q],
         \A c \in CTA : InKernel(r)' => InRole(r, c)' /\ Covered(r, c)',
         host'[r] = "kernel" /\ mode(r)' = -1 =>
           ~Errors(r)' /\ \A c \in CTA : cta'[r][c] \in {"idle", "exit"},
         host'[r] \in {"worst", "check"} => ~Errors(r)',
         host'[r] # "abort"
  PROVE  CoverInv'
<1>1. ASSUME NEW q \in Rank, q # r
      PROVE  /\ host'[q] = host[q] /\ mode(q)' = mode(q) /\ cta'[q] = cta[q]
             /\ Errors(q)' = Errors(q)
             /\ \A c \in CTA : InKernel(q)' =>
                  InKernel(q) /\ InRole(q, c)' = InRole(q, c)
                              /\ Covered(q, c)' = Covered(q, c)
  <2>1. /\ host'[q] = host[q] /\ epoch'[q] = epoch[q]
        /\ cta'[q] = cta[q] /\ tile'[q] = tile[q]
        /\ partial'[q] = partial[q] /\ output'[q] = output[q]
    BY <1>1
  <2>2. mode(q)' = mode(q)
    BY <2>1 DEF mode
  <2>3. Errors(q)' = Errors(q)
    BY <2>1, <2>2 DEF Errors
  <2>4. ASSUME NEW c \in CTA
        PROVE  /\ InKernel(q)' = InKernel(q) /\ InRole(q, c)' = InRole(q, c)
               /\ Covered(q, c)' = Covered(q, c)
    BY <2>1, <2>2 DEF InKernel, InRole, Reduces, IsComputeCTA, Covered, Own, Done,
       Stride, FirstTile
  <2> QED BY <2>1, <2>2, <2>3, <2>4
<1>2. NoErrors'
  BY <1>1 DEF CoverInv, NoErrors
<1>3. \A q \in Rank, c \in CTA : InKernel(q)' => InRole(q, c)' /\ Covered(q, c)'
  BY <1>1 DEF CoverInv
<1> QED BY <1>2, <1>3 DEF CoverInv

\* A launch starts every CTA on the first tile of its loop.
LEMMA LaunchRolesCover ==
  ASSUME CoverInv, Inv', NEW r \in Rank, LaunchRoles(r)
  PROVE  CoverInv'
<1>1. /\ mode(r) # -1 /\ UNCHANGED <<epoch, partial, output>>
      /\ host' = [host EXCEPT ![r] = "kernel"]
      /\ cta' = [cta EXCEPT ![r] = [c \in CTA |-> Entry(r, c)]]
      /\ tile' = [tile EXCEPT ![r] = [c \in CTA |-> FirstTile(r, c)]]
  BY DEF LaunchRoles, GoHost, data
<1>2. \A q \in Rank : q # r =>
        /\ host'[q] = host[q] /\ epoch'[q] = epoch[q]
        /\ cta'[q] = cta[q] /\ tile'[q] = tile[q]
        /\ partial'[q] = partial[q] /\ output'[q] = output[q]
  BY <1>1 DEF CoverInv, Inv, TypeOK
<1>3. host'[r] = "kernel" /\ mode(r)' = mode(r)
  BY <1>1 DEF CoverInv, Inv, TypeOK, mode
<1>4. ASSUME NEW c \in CTA PROVE InRole(r, c)' /\ Covered(r, c)'
  <2>1. /\ cta'[r][c] = Entry(r, c) /\ tile'[r][c] = FirstTile(r, c)
        /\ FirstTile(r, c)' = FirstTile(r, c)
        /\ Reduces(r, c)' = Reduces(r, c) /\ IsComputeCTA(c)' = IsComputeCTA(c)
    BY <1>1, <1>3 DEF CoverInv, Inv, TypeOK, FirstTile, Reduces, IsComputeCTA
  <2>2. Covered(r, c)'
    <3>1. \A t : Own(r, c, t)' = Own(r, c, t)
      BY <1>3, <2>1 DEF Own, Stride, IsComputeCTA
    <3> QED BY <2>1, <3>1, FirstOwn DEF Covered
  <2>3. InRole(r, c)'
    <3>1. FirstTile(r, c) \in Nat /\ Total \in Nat
      BY StrideType, GridAssumption
    <3>2. /\ Entry(r, c) \in {"queued", "compute", "exit", "finish",
                              "await_finished", "await_produced"}
          /\ Entry(r, c) = "compute" => mode(r) = 0 \/ IsComputeCTA(c)
          /\ Entry(r, c) = "await_produced" => mode(r) # 0 /\ ~IsComputeCTA(c)
          /\ Entry(r, c) = "await_finished" => mode(r) = 1 /\ ~IsComputeCTA(c)
          /\ Entry(r, c) \in {"finish", "exit"} =>
               \/ FirstTile(r, c) >= Total
               \/ Entry(r, c) = "exit" /\ mode(r) \in {3, 6} /\ ~IsComputeCTA(c)
      BY <3>1 DEF Entry, LoopTest
    <3> HIDE DEF Entry, FirstTile, mode, IsComputeCTA, Reduces
    <3> QED BY <1>3, <2>1, <3>2 DEF InRole, ComputePoint, ReducePoint
  <2> QED BY <2>2, <2>3
<1> QED BY <1>1, <1>2, <1>3, <1>4, OtherRank

\* The library leaves the right sums.
LEMMA LaunchLibraryCover ==
  ASSUME CoverInv, Inv', NEW r \in Rank, LaunchLibrary(r)
  PROVE  CoverInv'
<1>1. /\ host[r] = "launch" /\ mode(r) = -1 /\ UNCHANGED <<epoch, cta, tile, partial>>
      /\ host' = [host EXCEPT ![r] = "kernel"]
      /\ output' = [output EXCEPT ![r] = [t \in Tile |-> <<epoch[r], epoch[r]>>]]
  BY DEF LaunchLibrary, GoHost, ctaVars
<1>2. \A q \in Rank : q # r =>
        /\ host'[q] = host[q] /\ epoch'[q] = epoch[q]
        /\ cta'[q] = cta[q] /\ tile'[q] = tile[q]
        /\ partial'[q] = partial[q] /\ output'[q] = output[q]
  BY <1>1 DEF CoverInv, Inv, TypeOK
<1>3. /\ host'[r] = "kernel" /\ mode(r)' = -1
      /\ \A t \in Tile : output'[r][t] = <<epoch'[r], epoch'[r]>>
  BY <1>1 DEF CoverInv, Inv, TypeOK, mode
<1>4. ~Errors(r)'
  BY <1>3 DEF Errors
<1>5. \A c \in CTA : cta'[r][c] \in {"idle", "exit"}
  BY <1>1 DEF CoverInv, Inv, TypeOK, CtasInKernel, Working
<1> QED BY <1>2, <1>3, <1>4, <1>5, OtherRank DEF InKernel

\* The host that fills its buffers has no kernel.
LEMMA PrepareCover ==
  ASSUME CoverInv, Inv', NEW r \in Rank, Prepare(r)
  PROVE  CoverInv'
<1>1. /\ UNCHANGED <<cta, tile>>
      /\ host' = [host EXCEPT ![r] = "barrier"]
      /\ epoch' = [epoch EXCEPT ![r] = @ + 1]
      /\ partial' = [partial EXCEPT ![r] = Filled]
      /\ output' = [output EXCEPT ![r] = [t \in Tile |-> <<0, 0>>]]
  BY DEF Prepare, GoHost, ctaVars
<1>2. \A q \in Rank : q # r =>
        /\ host'[q] = host[q] /\ epoch'[q] = epoch[q]
        /\ cta'[q] = cta[q] /\ tile'[q] = tile[q]
        /\ partial'[q] = partial[q] /\ output'[q] = output[q]
  BY <1>1 DEF CoverInv, Inv, TypeOK
<1>3. host'[r] = "barrier"
  BY <1>1 DEF CoverInv, Inv, TypeOK
<1> QED BY <1>2, <1>3, OtherRank DEF InKernel

\* The host that has seen its launch end will find no error.
LEMMA KernelDoneCover ==
  ASSUME CoverInv, Inv', NEW r \in Rank, KernelDone(r)
  PROVE  CoverInv'
<1>1. /\ host[r] = "kernel" /\ \A c \in CTA : cta[r][c] \in {"idle", "exit"}
      /\ UNCHANGED <<epoch, cta, tile, partial, output>>
      /\ host' = [host EXCEPT ![r] = "worst"]
  BY DEF KernelDone, GoHost, ctaVars, data
<1>2. \A q \in Rank : q # r =>
        /\ host'[q] = host[q] /\ epoch'[q] = epoch[q]
        /\ cta'[q] = cta[q] /\ tile'[q] = tile[q]
        /\ partial'[q] = partial[q] /\ output'[q] = output[q]
  BY <1>1 DEF CoverInv, Inv, TypeOK
<1>3. host'[r] = "worst"
  BY <1>1 DEF CoverInv, Inv, TypeOK
<1>4. ~Errors(r)
  <2>1. CASE mode(r) = -1
    BY <1>1, <2>1 DEF CoverInv, NoErrors
  <2>2. CASE mode(r) # -1
    BY <1>1, <2>2, AllReturned DEF InKernel
  <2> QED BY <2>1, <2>2
<1>5. ~Errors(r)'
  BY <1>1, <1>4 DEF Errors, mode
<1> QED BY <1>2, <1>3, <1>5, OtherRank DEF InKernel

\* A collective takes the hosts away from a kernel, or from a check that has
\* found nothing.
LEMMA CollectiveCover ==
  ASSUME CoverInv, Inv', NEW from, NEW to, Collective(from, to),
         to \notin {"kernel", "worst", "abort"}, to = "check" => from = "worst"
  PROVE  CoverInv'
<1>1. /\ \A q \in Rank : host[q] = from /\ host'[q] = to
      /\ UNCHANGED <<epoch, partial, output>>
  BY DEF Collective, data
<1>2. NoErrors'
  <2>1. \A q \in Rank : Errors(q)' = Errors(q)
    BY <1>1 DEF Errors, mode
  <2>2. to = "check" => \A q \in Rank : ~Errors(q)
    BY <1>1 DEF CoverInv, NoErrors
  <2> QED BY <1>1, <2>1, <2>2 DEF NoErrors
<1> QED BY <1>1, <1>2 DEF CoverInv, InKernel

\* The initial states satisfy the invariant.
LEMMA InitCover == Init => CoverInv
<1> SUFFICES ASSUME Init PROVE CoverInv
  OBVIOUS
<1>1. \A r \in Rank : host[r] = "prepare"
  BY DEF Init
<1>2. Inv
  BY InitInv
<1> QED BY <1>1, <1>2 DEF CoverInv, NoErrors, InKernel

\* Every step preserves the invariant, one case per action.
LEMMA NextCover == CoverInv /\ [Next]_vars => CoverInv'
<1> SUFFICES ASSUME CoverInv, [Next]_vars PROVE CoverInv'
  OBVIOUS
<1> Inv'
  BY NextInv DEF CoverInv
<1>1. CASE UNCHANGED vars
  <2>1. UNCHANGED <<hostVars, ctaVars>> /\ ResultsStay
    BY <1>1 DEF vars, data, ResultsStay
  <2> QED BY <2>1, NobodyMoves
<1>2. ASSUME NEW r \in Rank, HostStep(r) PROVE CoverInv'
  BY <1>2, PrepareCover, LaunchRolesCover, LaunchLibraryCover, KernelDoneCover
     DEF HostStep
<1>3. ASSUME NEW r \in Rank, NEW c \in CTA, CtaStep(r, c) PROVE CoverInv'
  BY <1>3, CtaStepCover
<1>4. ASSUME NEW r \in Rank, Deliver(r) \/ \E t \in Tile : Drain(r, t) PROVE CoverInv'
  BY <1>4, MemoryCover
<1>5. CASE MPIBarrier
  BY <1>5, CollectiveCover DEF MPIBarrier
<1>6. CASE AllreduceWorst
  BY <1>6, CollectiveCover DEF AllreduceWorst
<1>7. CASE AllreduceErrors
  <2>1. \A r \in Rank : host[r] = "check"
    BY <1>7 DEF AllreduceErrors, Collective
  <2>2. \A r \in Rank : ~Errors(r)
    BY <2>1 DEF CoverInv, NoErrors
  <2>3. Collective("check", "done") \/ Collective("check", "prepare")
    BY <1>7, <2>2 DEF AllreduceErrors
  <2> QED BY <2>3, CollectiveCover
<1>8. CASE Finished
  BY <1>1, <1>8 DEF Finished
<1> QED BY <1>1, <1>2, <1>3, <1>4, <1>5, <1>6, <1>7, <1>8 DEF Next

\* The invariant holds in every reachable state.
LEMMA CoverInvariance == Spec => []CoverInv
BY InitCover, NextCover, PTL DEF Spec

(***************************************************************************)
(* The theorems.                                                           *)
(***************************************************************************)
\* Two CTAs of one role never have the same tile: their loops keep different
\* remainders, also when one of them is rounds ahead.
LEMMA OwnersDiffer ==
  ASSUME NEW r \in Rank, NEW c \in CTA, NEW d \in CTA, c # d,
         mode(r) = 0 \/ (IsComputeCTA(c) <=> IsComputeCTA(d)),
         NEW t \in Nat
  PROVE  ~(Own(r, c, t) /\ Own(r, d, t))
<1>1. c \in Nat /\ d \in Nat /\ Compute \in Nat
  BY TileProps, GridAssumption
<1>2. FirstTile(r, c) # FirstTile(r, d) /\ Stride(r, c) = Stride(r, d)
  BY <1>1 DEF FirstTile, Stride
<1> QED BY <1>2 DEF Own

\* No two CTAs of a rank compute, or reduce, the same tile at the same time,
\* in any mode and for any split of the grid between the roles.
THEOREM OneOwnerEach == Spec => []OneOwner
<1>1. ASSUME CoverInv, NEW points, points \in {ComputePoint, ReducePoint},
             NEW r \in Rank, NEW c \in CTA, NEW d \in CTA, c # d,
             cta[r][c] \in points, cta[r][d] \in points
      PROVE  tile[r][c] # tile[r][d]
  <2>1. cta[r][c] \in Working /\ cta[r][d] \in Working
    BY <1>1 DEF Working, CtaPoint, ComputePoint, ReducePoint
  <2>2. /\ InRole(r, c) /\ Covered(r, c) /\ tile[r][c] \in Nat
        /\ InRole(r, d) /\ Covered(r, d)
    BY <1>1, <2>1, StepInKernel
  <2>3. mode(r) = 0 \/ (IsComputeCTA(c) <=> IsComputeCTA(d))
    BY <1>1, <2>2 DEF InRole, Reduces
  <2> QED BY <1>1, <2>2, <2>3, OwnersDiffer DEF Covered
<1>2. CoverInv => OneOwner
  BY <1>1 DEF OneOwner, Exclusive, ComputePoint, ReducePoint
<1> QED BY <1>2, CoverInvariance, PTL

\* Each launch computes, and in a mode that communicates also reduces, every
\* tile before its kernels have returned: no comparison aborts the run.
THEOREM RunNeverAborts == Spec => []NeverAborts
<1>1. CoverInv => NeverAborts
  BY DEF CoverInv, NoErrors, NeverAborts
<1> QED BY <1>1, CoverInvariance, PTL

\* The variables of the two ranks, hosts and kernels keep their types: the
\* epochs stay within the launches the host makes, and every flag and signal
\* names an existing tile.
THEOREM TypesOfRanks == Spec => []TypeOK
BY Invariance, PTL DEF Inv
=============================================================================
