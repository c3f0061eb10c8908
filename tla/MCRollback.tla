----------------------------- MODULE MCRollback -----------------------------
(* One tool execution and one fleet job, two goroutines, up to two records. *)
EXTENDS Rollback, TLC

CONSTANTS r1, r2, c1, c2

MCRecords == {r1, r2}
MCCalls == {c1, c2}
MCToolEvents == {[tool |-> "scale_deployment", pre |-> "captured"],
                 [tool |-> "exec_dml", pre |-> "captured"],
                 [tool |-> "delete_pod", pre |-> "none"]}
Symmetric == Permutations(MCRecords) \cup Permutations(MCCalls)
=============================================================================
