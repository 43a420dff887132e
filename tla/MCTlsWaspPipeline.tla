------------------------ MODULE MCTlsWaspPipeline ------------------------
(* Instances of the pipeline: the shapes' load instruction counts.         *)
EXTENDS TlsWaspPipeline

\* one load instruction per tile, or a different number for each operand
UnitIssue  == [o \in Operand |-> 1]
MixedIssue == [sh |-> 1, pr_major |-> 2, pr_minor |-> 1]
=============================================================================
