-------------------------- MODULE MCWaspKernelV3 --------------------------
(* Instances of the V3 kernel's work group.                                *)
EXTENDS WaspKernelV3

MixedIssue == [sh |-> 1, pr_major |-> 2, pr_minor |-> 1]
=============================================================================
