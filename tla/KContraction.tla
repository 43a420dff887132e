---------------------------- MODULE KContraction ----------------------------
(***************************************************************************)
(* What a fused-convolution pipeline promises for an output tile: every    *)
(* compute wave accumulates the NumTiles K tiles of the problem, each once *)
(* and in order, and then has its result.  How tiles reach the waves is    *)
(* left open.                                                              *)
(***************************************************************************)
EXTENDS Naturals, Sequences

CONSTANTS Worker, NumTiles

VARIABLES
  sum,   \* the K tiles a worker has accumulated
  ready  \* workers whose result is complete

vars == <<sum, ready>>

Init == sum = [c \in Worker |-> <<>>] /\ ready = {}

Accumulate(c) ==
  /\ Len(sum[c]) < NumTiles
  /\ sum' = [sum EXCEPT ![c] = Append(@, Len(@))]
  /\ UNCHANGED ready

\* workers that have accumulated every tile may have their results together
Complete(cs) ==
  /\ cs # {}
  /\ \A c \in cs : Len(sum[c]) = NumTiles
  /\ ready' = ready \union cs
  /\ UNCHANGED sum

Next == \/ \E c \in Worker : Accumulate(c)
        \/ \E cs \in SUBSET Worker : Complete(cs)

\* every worker gets its result
Fairness == WF_vars(Next)
Spec == Init /\ [][Next]_vars
FairSpec == Spec /\ Fairness
=============================================================================
