---------------------------- MODULE MoeSorting ----------------------------
(***************************************************************************)
(* A sort as the host runs it (moe_sorting_api.cpp, moe_sorting.cpp): one  *)
(* block if its LDS holds all tokens at once, else the multi-phase         *)
(* kernels.  launch_kernel runs the same kernels NumSorts times, for       *)
(* warm-up and timing, with nothing cleared in between.                    *)
(***************************************************************************)
EXTENDS MoeSortingMp, MoeSortingEx

CONSTANTS
  LdsWords,      \* LDS of a block, in words
  OneshotTokens, \* from here one block sorts in any case (CK_TILE_WA_ISSUE_2028)
  P23Experts,    \* experts whose sums fit into the LDS of P23
  NumSorts       \* bound: warm-up and timed launches

\* moe_sorting_get_smem_row_col throws when LDS does not even hold the rows of
\* one turn of the lane groups, and the two of the sums
ASSUME HostAssumption ==
  /\ NumSorts \in Nat \ {0} /\ LdsWords \in Nat
  /\ \A in \in Inputs : LdsWords >= (2 + LaneGroup) * (in.experts + 1)

VARIABLE sorts   \* launches that have finished

vars == <<input, out, mpVars, exVars, sorts>>

-----------------------------------------------------------------------------
(* moe_sorting_get_smem_row_col: how many tokens fit into LDS              *)

SubTokens(tokens, experts) ==
  LET cols == experts + 1
      sub_unroll == LaneGroup
      target_occupancy == IF LdsWords \div 2 < (2 + sub_unroll) * cols THEN 1 ELSE 2
      rows == (LdsWords \div target_occupancy) \div cols - 2
      unrolls == IntegerDivideCeil(Min({rows, tokens}), sub_unroll)
      highest == Max({b \in {1, 2, 4, 8} : b <= unrolls})
  IN (unrolls - (unrolls % highest)) * sub_unroll

IsOneshot(in) ==
  in.tokens >= OneshotTokens \/ in.tokens <= SubTokens(in.tokens, in.experts)

(* The kernels that moe_sorting_mp launches; P01 replaces P0 and P1 where  *)
(* it is compiled.  A single block has no path.                            *)
Paths(in) ==
  IF IsOneshot(in) THEN {<<>>}
  ELSE IF in.experts > P23Experts THEN {<<"P0", "P1", "P2", "P3">>}
  ELSE {<<"P0", "P1", "P23">>, <<"P01", "P23">>}

-----------------------------------------------------------------------------

Uninitialised == -7              \* what LDS holds before it is written

\* where the waves of a single block are when a sort is launched
StartOfBlock == [w \in Waves |-> IF path = <<>> THEN "clear" ELSE "done"]

Init ==
  /\ input \in Inputs /\ out = FreshOut /\ sorts = 0
  /\ path \in Paths(input)
  /\ Workspace /\ stage = 1 /\ at = StartOfKernel(1)
  /\ sub_tokens = SubTokens(input.tokens, input.experts)
  /\ pc = StartOfBlock
  /\ waiting = [w \in Waves |-> FALSE]
  /\ i_token = [w \in Waves |-> 0]
  /\ smem_tokens = [c \in (0..(sub_tokens - 1)) \X Experts |-> Uninitialised]
  /\ smem_cumsum = [x \in 0..input.experts |-> Uninitialised]
  /\ smem_cumdup = smem_cumsum

Finished ==
  IF path # <<>> THEN stage = Len(path) + 1
  ELSE (\A w \in Waves : pc[w] = "done") /\ out.cleared = 0..(BufWords - 1)

Again ==
  /\ Finished /\ sorts < NumSorts
  /\ sorts' = sorts + 1
  /\ IF sorts + 1 = NumSorts THEN UNCHANGED <<stage, at, pc>>
     ELSE stage' = 1 /\ at' = StartOfKernel(1) /\ pc' = StartOfBlock
  /\ UNCHANGED <<input, out, path, mesh, expert_cumsum, sem, sub_tokens, smemVars,
                 waiting, i_token>>

\* the host returns
Terminated == sorts = NumSorts /\ UNCHANGED vars

Next ==
  \/ MpNext /\ UNCHANGED <<exVars, sorts>>
  \/ ExNext /\ path = <<>> /\ UNCHANGED <<mpVars, sorts>>
  \/ Again
  \/ Terminated

Spec == Init /\ [][Next]_vars

-----------------------------------------------------------------------------

(* Types of the words that kernels of one sort hand to each other.         *)
TypeOK ==
  /\ stage \in 1..(Len(path) + 1) /\ sorts \in 0..NumSorts
  /\ \A et \in DOMAIN mesh : mesh[et] \in 0..Topk
  /\ \A e \in Experts : path # <<>> =>
       expert_cumsum[e] \in 0..Max({MaxOutputIds, input.tokens})
  /\ sem \in 0..(NumSorts * GridSize)
  /\ \A w \in Waves : i_token[w] \in 0..(input.tokens - 1)

(* What the host compares after a launch, moe_sorting.cpp: the sorted ids  *)
(* and weights, the expert of every unit and the total are those of the    *)
(* reference, in whatever order blocks and waves ran, also when workspace  *)
(* and outputs are left from the launch before.  What the host does not    *)
(* compare: moe_buf is cleared; every expert's tokens are counted, which   *)
(* P01 leaves out; and P23, or one block in one shot, tells where every    *)
(* list starts.  In rounds the last round's positions are told instead.    *)
SortedOnExit ==
  Finished =>
    /\ ListsAreReference
    /\ out.cleared = 0..(BufWords - 1)
    /\ "P01" \notin Range(path) => CountsAreReference
    /\ "P23" \in Range(path) \/ (path = <<>> /\ SubTokenOneShot) =>
         \A e \in Experts : Kept(e) => out.positions[e] = RefStart(e)

(* No block writes outside the buffers that the host allocates.            *)
WritesInBuffers == InBuffers

MeshComplete ==
  \A t \in Tokens, k \in 0..(Topk - 1) : mesh[<<input.ids[t][k], t>>] = k + 1

(* Tokens of an expert are counted only when every block has entered its   *)
(* tokens: what the launch order gives P1, and the semaphore P01.          *)
CountsCompleteMesh ==
  [][(stage \in DOMAIN path /\ Kernel \in {"P1", "P01"} /\ expert_cumsum' # expert_cumsum)
       => MeshComplete]_vars

(* A start of an expert's list that some wave still reads is not moved.    *)
(* Waves read starts before the lists are filled, and fill moves them.     *)
StartsHoldStill ==
  [][\A w \in Waves : At(w, "ids") =>
       \A x \in ThreadExpertsOf(w) : smem_cumsum'[x] = smem_cumsum[x]
                                     /\ smem_cumsum'[x + 1] = smem_cumsum[x + 1]]_vars

(* Blocks that wait at the semaphore of P01 are not all that is left: when *)
(* nobody is on the way to it, it stands at the count they wait for.       *)
SemaphoreOpens ==
  (path # <<>> /\ Head(path) = "P01" /\ \A b \in DOMAIN at : at[b] \in {"wait", "done"})
    => sem >= WGCounts
=============================================================================
