--------------------------- MODULE MCApprovalStore ---------------------------
(* Instances of ApprovalStore for TLC. *)
EXTENDS ApprovalStore, TLC

CONSTANTS alice, bob

\* alice may resolve tool and rollback approvals, bob those of fleet jobs too.
MCRolesOf == [p \in People |-> IF p = alice THEN {"dba"} ELSE {"dba", "fleet-approver"}]

Symmetry == Permutations(Handlers)
=============================================================================
