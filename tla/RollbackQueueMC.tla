--------------------------- MODULE RollbackQueueMC ---------------------------
(* A small instance of the queue that is rolled back for TLC. *)
EXTENDS RollbackQueue, TLC

CONSTANTS s1, d1, d2, d3, w1, w2

Symmetric == Permutations(Owners) \cup Permutations(WorkflowIds)

NoBranches == [r \in Repositories |-> r]
NoLeftovers == {<<>>}
OneRequest ==
    {[subject |-> s1, repository |-> None, run_at |-> None, expire_after |-> None, variant |-> 0]}

=============================================================================
