----------------------- MODULE MCTlsWaspPersistent -----------------------
(* Instances of the persistent kernel's work group.                        *)
EXTENDS TlsWaspPersistent

UnitIssue == [o \in Operand |-> 1]
=============================================================================
