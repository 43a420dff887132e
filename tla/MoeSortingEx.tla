--------------------------- MODULE MoeSortingEx ---------------------------
(***************************************************************************)
(* moe_align_block_size_kernel_ex of moe_sorting_kernel.hpp: the sort by   *)
(* one block, whose waves share LDS and meet at __syncthreads.  Tokens are *)
(* taken sub_tokens at a time; if one round is enough the kernel is the    *)
(* SubTokenOneShot variant.                                                *)
(*                                                                         *)
(* A step is what one wave does between two barriers, except where the     *)
(* order inside it matters: the waves have no barrier between ids and fill *)
(* in the one-shot variant.  The lanes of a wave run in lockstep.          *)
(***************************************************************************)
EXTENDS MoeSortReference, WaveScan

VARIABLES
  sub_tokens,   \* rows of smem_tokens
  pc,           \* of each wave: the piece of the kernel that is next
  waiting,      \* it has done that piece and waits at a barrier
  i_token,      \* of each wave: first token of its round
  smem_tokens, smem_cumsum, smem_cumdup

exVars == <<sub_tokens, pc, waiting, i_token, smem_tokens, smem_cumsum, smem_cumdup>>
smemVars == <<smem_tokens, smem_cumsum, smem_cumdup>>

SubTokenOneShot == input.tokens <= sub_tokens

\* the threads of a wave, and the experts that its lane groups take in turn
ThreadsOf(w) == (w * WarpSize)..(w * WarpSize + WarpSize - 1)
GroupsPerBlock == BlockThreads \div LaneGroup
GroupExpertsOf(w) == {e \in Experts : (e % GroupsPerBlock) \div (WarpSize \div LaneGroup) = w}
ThreadExpertsOf(w) == {e \in Experts : e % BlockThreads \in ThreadsOf(w)}

\* one word of LDS a thread
UpdatedAt(f, S, value(_)) == [x \in DOMAIN f |-> IF x \in S THEN value(x) ELSE f[x]]

\* wave w ends a piece at a barrier, or goes on without one
Arrive(w) == waiting' = [waiting EXCEPT ![w] = TRUE] /\ UNCHANGED <<pc, i_token>>
GoTo(w, point) == pc' = [pc EXCEPT ![w] = point] /\ UNCHANGED <<waiting, i_token>>

At(w, point) == pc[w] = point /\ ~waiting[w]

-----------------------------------------------------------------------------
(* Counting                                                                *)

CellsOf(w) ==
  {c \in DOMAIN smem_tokens : (c[1] * input.experts + c[2]) % BlockThreads \in ThreadsOf(w)}

\* both the first clearing and the one of each round
Clear(w, point) ==
  /\ At(w, point)
  /\ smem_tokens' = UpdatedAt(smem_tokens, CellsOf(w), LAMBDA c : 0)
  /\ Arrive(w)
  /\ UNCHANGED <<smem_cumsum, smem_cumdup>>

\* topk_ids that wave w reads for the round at i_token: <<row, topk_id>>
PairsRead(w) ==
  {sk \in (0..(sub_tokens - 1)) \X (0..(Topk - 1)) :
     /\ (sk[1] * Topk + sk[2]) % BlockThreads \in ThreadsOf(w)
     /\ i_token[w] + sk[1] < input.tokens}

\* smem_tokens with those entered: the topk_id, or one more token counted
Entered(w, counting) ==
  LET picks(c) == {sk \in PairsRead(w) :
                     sk[1] = c[1] /\ input.ids[i_token[w] + sk[1]][sk[2]] = c[2]}
  IN [c \in DOMAIN smem_tokens |->
        IF picks(c) = {} THEN smem_tokens[c]
        ELSE IF counting THEN smem_tokens[c] + 1
        ELSE (CHOOSE sk \in picks(c) : TRUE)[2] + 1]

Load(w) ==
  /\ At(w, "load")
  /\ smem_tokens' = Entered(w, ~SubTokenOneShot)
  /\ Arrive(w)
  /\ UNCHANGED <<smem_cumsum, smem_cumdup>>

CountIn(e) ==
  LET local_c(s) == IF SubTokenOneShot /\ smem_tokens[<<s, e>>] # 0 THEN 1
                    ELSE smem_tokens[<<s, e>>]
  IN SumFunctionOnSet([s \in 0..(sub_tokens - 1) |-> local_c(s)], 0..(sub_tokens - 1))

Count(w) ==
  /\ At(w, "count")
  /\ smem_cumsum' = [x \in DOMAIN smem_cumsum |->
       IF x = 0 /\ w = 0 THEN 0
       ELSE IF x - 1 \in GroupExpertsOf(w) THEN CountIn(x - 1) ELSE smem_cumsum[x]]
  /\ out' = [out EXCEPT !.counts = Stored([e \in GroupExpertsOf(w) |-> CountIn(e)], @)]
  /\ smem_cumdup' =
       IF ~input.masking THEN smem_cumdup
       ELSE [x \in DOMAIN smem_cumdup |->
               IF x = 0 THEN 0
               ELSE IF x - 1 \in ThreadExpertsOf(w) THEN input.mask[x - 1] ELSE smem_cumdup[x]]
  /\ Arrive(w)
  /\ UNCHANGED smem_tokens

-----------------------------------------------------------------------------
(* Sums: only the first wave works                                         *)

UnitsIn(e) == IntegerDivideCeil(smem_cumsum[e + 1], UnitSize)
PaddedTokensIn(e) ==
  IF input.masking /\ smem_cumdup[e + 1] = 0 THEN 0
  ELSE UnitSize * Max({UnitsIn(e), IF SkipExpertsWithZeroTokens THEN 0 ELSE 1})

Scan(w) ==
  /\ At(w, "scan")
  /\ IF w # 0 THEN UNCHANGED <<smem_cumsum, smem_cumdup, out>>
     ELSE LET upTo == BlockCumsum([e \in Experts |-> PaddedTokensIn(e)], input.experts, 1)
              maskUpTo == BlockCumsum([e \in Experts |-> smem_cumdup[e + 1]], input.experts, 1)
          IN /\ smem_cumsum' = [x \in DOMAIN smem_cumsum |-> IF x = 0 THEN smem_cumsum[x]
                                                             ELSE upTo[x - 1]]
             /\ smem_cumdup' = IF ~input.masking THEN smem_cumdup
                               ELSE [x \in DOMAIN smem_cumdup |-> IF x = 0 THEN smem_cumdup[x]
                                                                  ELSE maskUpTo[x - 1]]
             /\ out' = [out EXCEPT !.total = upTo[input.experts - 1]]
  /\ Arrive(w)
  /\ UNCHANGED smem_tokens

-----------------------------------------------------------------------------
(* The expert of every unit; cumdup keeps the starts that fill will move   *)

IdWrites(w) ==
  LET units(e) ==
        IF input.masking /\ input.mask[e] = 0 THEN {}
        ELSE {i \div UnitSize : i \in {j \in smem_cumsum[e]..(smem_cumsum[e + 1] - 1) :
                                         (j - smem_cumsum[e]) % UnitSize = 0}}
  IN [u \in UNION {units(e) : e \in ThreadExpertsOf(w)} |->
        LET e == CHOOSE f \in ThreadExpertsOf(w) : u \in units(f)
        IN IF input.masking THEN smem_cumdup[e] ELSE e]

PieceAfterIds_NoClear == "fill"
PieceAfterIds == IF SubTokenOneShot THEN "fill" ELSE "clear2"

Ids(w) ==
  /\ At(w, "ids")
  /\ out' = [out EXCEPT !.expert_ids = Stored(IdWrites(w), @)]
  /\ smem_cumdup' = UpdatedAt(smem_cumdup, ThreadExpertsOf(w) \union {input.experts},
                              LAMBDA x : smem_cumsum[x])
  /\ GoTo(w, PieceAfterIds)
  /\ UNCHANGED <<smem_tokens, smem_cumsum>>

-----------------------------------------------------------------------------
(* The lists: each round clears and loads its rows again, then fills       *)

Load2(w) ==
  /\ At(w, "load2")
  /\ smem_tokens' = Entered(w, FALSE)
  /\ Arrive(w)
  /\ UNCHANGED <<smem_cumsum, smem_cumdup>>

FillExpertsOf(w) == {e \in GroupExpertsOf(w) : Enabled(e)}

(* Position in the list of an expert after row s of the round: the lane    *)
(* group of the expert takes LaneGroup rows at a time, and adds up.        *)
Positions(w) ==
  LET turns == 0..((input.experts - 1) \div GroupsPerBlock)
      rounds == 0..(sub_tokens \div LaneGroup - 1)
      expert(turn, l) == (w * WarpSize + l) \div LaneGroup + turn * GroupsPerBlock
      sums == Held([tr \in turns \X rounds |-> Held(GroupCumsum(Held([l \in Lanes |->
                LET e == expert(tr[1], l)
                    cell == <<(tr[2] * LaneGroup) + (l % LaneGroup), e>>
                IN IF e \in FillExpertsOf(w) /\ smem_tokens[cell] # 0 THEN 1 ELSE 0])))])
      lane0(e) == ((e % GroupsPerBlock) * LaneGroup) % WarpSize
      sum(e, s) == sums[<<e \div GroupsPerBlock, s \div LaneGroup>>]
                       [lane0(e) + (s % LaneGroup)]
      before(e, s) == SumFunctionOnSet([r \in rounds |-> sum(e, (r * LaneGroup) + (LaneGroup - 1))],
                                       0..(s \div LaneGroup - 1))
  IN Held([c \in (0..(sub_tokens - 1)) \X FillExpertsOf(w) |->
             smem_cumsum[c[2]] + before(c[2], c[1]) + sum(c[2], c[1])])

Fill(w) ==
  /\ At(w, "fill")
  /\ LET upTo == Positions(w)
         cells == {c \in DOMAIN upTo : smem_tokens[c] # 0}
     IN /\ out' = [out EXCEPT
             !.positions = Stored([e \in FillExpertsOf(w) |-> smem_cumsum[e]], @),
             !.sorted = Stored([x \in {upTo[c] - 1 : c \in cells} |->
                                  LET c == CHOOSE d \in cells : upTo[d] - 1 = x
                                  IN Entry(i_token[w] + c[1], smem_tokens[c] - 1)], @)]
        /\ smem_cumsum' = UpdatedAt(smem_cumsum, FillExpertsOf(w),
                                    LAMBDA e : upTo[<<sub_tokens - 1, e>>])
  /\ Arrive(w)
  /\ UNCHANGED <<smem_tokens, smem_cumdup>>

\* the rest of every list
Pad(w) ==
  /\ At(w, "pad")
  /\ out' = [out EXCEPT !.sorted = Stored(
       [x \in UNION {smem_cumsum[e]..(smem_cumdup[e + 1] - 1) : e \in ThreadExpertsOf(w)} |->
          PadEntry], @)]
  /\ GoTo(w, "done")
  /\ UNCHANGED smemVars

-----------------------------------------------------------------------------
(* __syncthreads: every wave has arrived, and goes on from where it is     *)

MoreRounds(w) == i_token[w] + sub_tokens < input.tokens

AfterBarrier_NoReload(w) ==
  CASE pc[w] = "clear"  -> "load"
    [] pc[w] = "load"   -> IF MoreRounds(w) THEN "load" ELSE "count"
    [] pc[w] = "count"  -> "scan"
    [] pc[w] = "scan"   -> "ids"
    [] pc[w] = "clear2" -> "load2"
    [] pc[w] = "load2"  -> "fill"
    [] pc[w] = "fill"   -> IF MoreRounds(w) THEN "load2" ELSE "pad"

AfterBarrier(w) ==
  CASE pc[w] = "clear"  -> "load"
    [] pc[w] = "load"   -> IF MoreRounds(w) THEN "load" ELSE "count"
    [] pc[w] = "count"  -> "scan"
    [] pc[w] = "scan"   -> "ids"
    [] pc[w] = "clear2" -> "load2"
    [] pc[w] = "load2"  -> "fill"
    [] pc[w] = "fill"   -> IF MoreRounds(w) THEN "clear2" ELSE "pad"

\* the loop variable of the rounds, 0 at the start of both loops
RoundAfter_NotReset(w) ==
  IF pc[w] \in {"load", "fill"} THEN i_token[w] + sub_tokens ELSE i_token[w]

RoundAfter(w) ==
  IF pc[w] \in {"load", "fill"}
  THEN IF MoreRounds(w) THEN i_token[w] + sub_tokens ELSE 0
  ELSE i_token[w]

Syncthreads ==
  /\ \A w \in Waves : waiting[w]
  /\ pc' = [w \in Waves |-> AfterBarrier(w)]
  /\ i_token' = [w \in Waves |-> RoundAfter(w)]
  /\ waiting' = [w \in Waves |-> FALSE]
  /\ UNCHANGED <<smem_tokens, smem_cumsum, smem_cumdup, out>>

(* The blocks after the first only clear moe_buf, at any time.             *)
ClearMoeBuf ==
  /\ out.cleared # 0..(BufWords - 1)
  /\ \E g \in 0..(IntegerDivideCeil(BufWords, BlockThreads) - 1) :
       out' = [out EXCEPT !.cleared = @ \union {x \in 0..(BufWords - 1) : x \div BlockThreads = g}]
  /\ UNCHANGED <<pc, waiting, i_token, smem_tokens, smem_cumsum, smem_cumdup>>

ExNext ==
  /\ \/ \E w \in Waves :
          \/ (\E point \in {"clear", "clear2"} : Clear(w, point)) /\ UNCHANGED out
          \/ (Load(w) \/ Load2(w)) /\ UNCHANGED out
          \/ Count(w) \/ Scan(w) \/ Ids(w) \/ Fill(w) \/ Pad(w)
     \/ Syncthreads
     \/ ClearMoeBuf
  /\ UNCHANGED <<sub_tokens, input>>
=============================================================================
