----------------------------- MODULE MCAuditChain -----------------------------
(* Instances of AuditChain for TLC: local mode with two processes, and auditd. *)
EXTENDS AuditChain, TLC

CONSTANTS gateway, agent, g1, g2, g3

\* g1 and g2 record for the gateway, g3 for an agent with a store of its own.
MCProcessOf == [g \in Recorders |-> IF g = g3 THEN agent ELSE gateway]

Symmetry == Permutations(EventIds)
=============================================================================
