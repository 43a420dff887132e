------------------------- MODULE MoeSortReference -------------------------
(***************************************************************************)
(* What a sort of mixture-of-experts tokens is: reference_moe_sorting.hpp, *)
(* and the buffers of the sort (moe_sorting.cpp).  Every token names Topk  *)
(* different experts.  The sort lists, expert by expert, the tokens that   *)
(* name it, in order of tokens and padded to whole units, and the expert   *)
(* of every unit.                                                          *)
(*                                                                         *)
(* An entry of the sorted list is <<token, topk_id, weight>>: both halves  *)
(* of the id, and the index of the weight that goes with it.               *)
(***************************************************************************)
EXTENDS Integers, Sequences, FiniteSets, FiniteSetsExt, SequencesExt, Functions

CONSTANTS
  Inputs,       \* the problems sorted: records as below
  Topk,         \* experts of a token
  UnitSize,     \* M_a of the fused kernel
  SkipExpertsWithZeroTokens,
  BufWords      \* 16-byte words of moe_buf, which the sort also clears

VARIABLES
  input,        \* [tokens, experts, ids, masking, mask]: the problem
  out           \* the output buffers: functions from the indices written

ASSUME SortAssumption ==
  /\ Topk \in Nat \ {0} /\ UnitSize \in Nat \ {0} /\ BufWords \in Nat
  /\ SkipExpertsWithZeroTokens \in BOOLEAN

\* topk_ids as the host hands them over: every token names its experts by
\* number, and none of them twice
ASSUME InputsAssumption ==
  \A in \in Inputs :
    /\ in.tokens \in Nat \ {0} /\ in.experts \in Nat \ {0} /\ in.masking \in BOOLEAN
    /\ in.ids \in [0..(in.tokens - 1) -> [0..(Topk - 1) -> 0..(in.experts - 1)]]
    /\ \A t \in 0..(in.tokens - 1) : \A k, l \in 0..(Topk - 1) :
         in.ids[t][k] = in.ids[t][l] => k = l

\* a mask is 1 for the experts that a device holds, and 0 for the others: the
\* kernels sum it up to number them
ASSUME MaskAssumption ==
  \A in \in Inputs : in.masking => in.mask \in [0..(in.experts - 1) -> {0, 1}]

IntegerDivideCeil(x, y) == (x + y - 1) \div y

Tokens == 0..(input.tokens - 1)
Experts == 0..(input.experts - 1)

\* an expert that this device holds, and its number among those
Enabled(e) == input.masking => input.mask[e] # 0
LocalExpertId(e) == Cardinality({f \in 0..(e - 1) : Enabled(f)})

Entry(t, k) == <<t, k, t * Topk + k>>
PadEntry == <<input.tokens, Topk, -1>>       \* weight 0

\* expert_tokens before the padding, pushed pair by pair, and the units it takes
EntriesOf(e) ==
  FlattenSeq([i \in 1..(input.tokens * Topk) |->
    LET t == (i - 1) \div Topk
        k == (i - 1) % Topk
    IN IF input.ids[t][k] = e THEN <<Entry(t, k)>> ELSE <<>>])

ExpertSlices(e) == Max({1, IntegerDivideCeil(Len(EntriesOf(e)), UnitSize)})

PaddedEntriesOf(e) ==
  EntriesOf(e) \o [i \in 1..(ExpertSlices(e) * UnitSize - Len(EntriesOf(e))) |-> PadEntry]

Kept(e) == Enabled(e) /\ (SkipExpertsWithZeroTokens => EntriesOf(e) # <<>>)

\* what an expert adds to the sorted list, and to the experts of the units
RefList(e) == IF Kept(e) THEN PaddedEntriesOf(e) ELSE <<>>
RefUnits(e) == IF Kept(e) THEN [s \in 1..ExpertSlices(e) |-> LocalExpertId(e)] ELSE <<>>

\* the lists of the experts below x
RefListsTo(x) == FlattenSeq([i \in 1..x |-> RefList(i - 1)])

RefSorted == RefListsTo(input.experts)
RefExpertIds == FlattenSeq([i \in 1..input.experts |-> RefUnits(i - 1)])

\* where the list of an expert starts
RefStart(e) == Len(RefListsTo(e))

\* max_output_ids: the length the host allocates for the sorted list
MaxOutputIds ==
  IntegerDivideCeil(Topk * input.tokens + input.experts * UnitSize - Topk, UnitSize)
    * UnitSize

Nothing == [x \in {} |-> 0]

\* the output buffers of a fresh problem
FreshOut == [sorted |-> Nothing, expert_ids |-> Nothing, total |-> -1,
             counts |-> Nothing, positions |-> Nothing, cleared |-> {}]

\* a buffer after some words of it have been written
Stored(writes, buffer) ==
  [x \in DOMAIN writes \union DOMAIN buffer |->
     IF x \in DOMAIN writes THEN writes[x] ELSE buffer[x]]

\* a buffer begins with what the sequence lists
BeginsWith(buffer, seq) ==
  \A i \in DOMAIN seq : i - 1 \in DOMAIN buffer /\ buffer[i - 1] = seq[i]

\* the lists, the expert of every unit and the total are the reference's
ListsAreReference ==
  /\ out.total = Len(RefSorted)
  /\ BeginsWith(out.sorted, RefSorted)
  /\ BeginsWith(out.expert_ids, RefExpertIds)

\* the tokens of every expert of this device are counted
CountsAreReference ==
  \A e \in Experts : Enabled(e) =>
    e \in DOMAIN out.counts /\ out.counts[e] = Len(EntriesOf(e))

\* nothing is written past the end of a buffer
InBuffers ==
  /\ DOMAIN out.sorted \subseteq 0..(MaxOutputIds - 1)
  /\ DOMAIN out.expert_ids \subseteq 0..(MaxOutputIds \div UnitSize - 1)
=============================================================================
