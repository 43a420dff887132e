--------------------------- MODULE MCMoeSorting ---------------------------
(* Problems for the sort.                                                  *)
EXTENDS MoeSorting

\* tokens that name their experts by a stride; expert "unused" has none
Strided(tokens, experts, stride, unused) ==
  LET used == SelectSeq([i \in 1..experts |-> i - 1], LAMBDA e : e # unused)
      n == Len(used)
  IN Held([t \in 0..(tokens - 1) |-> Held([k \in 0..(Topk - 1) |->
        used[(((t * stride) + k * (1 + ((t \div 7) % (n - 1)))) % n) + 1]])])

Problem(tokens, experts, stride, unused, mask) ==
  [tokens |-> tokens, experts |-> experts,
   ids |-> Strided(tokens, experts, stride, unused),
   masking |-> mask # {},
   mask |-> Held([e \in 0..(experts - 1) |-> IF e \in mask THEN 1 ELSE 0])]

\* multi-phase: all experts named by all, packed and not, with and without mask; P2/P3; one block, in
\* rounds, and in one round with an expert for every lane group of the first wave
ManyTokens ==
  {Problem(33, 2, 1, 2, {}), Problem(36, 4, 3, 2, {}),
   Problem(37, 5, 2, 0, {1, 3, 4}),
   Problem(18, 4, 1, 3, {0, 2}), Problem(20, 6, 3, 1, {0, 2, 4, 5}),
   Problem(40, 9, 5, 4, {}), Problem(41, 10, 7, 8, {0, 1, 7, 9}),
   Problem(8, 8, 3, 5, {}), Problem(4, 7, 2, 1, {0, 3, 4})}

\* one block in one round, with experts for the lane groups of both waves
FewTokens ==
  {Problem(8, 10, 3, 4, {}), Problem(4, 9, 7, 2, {0, 3, 8})}

\* fewer experts than threads, for a sort that keeps experts without tokens
KeptTokens == {Problem(33, 2, 1, 2, {})}
=============================================================================
