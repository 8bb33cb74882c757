---------------------------- MODULE AnimusQueueMC ----------------------------
(* Small instances of the whole queue for TLC. *)
EXTENDS AnimusQueue, TLC

CONSTANTS s1, s2, d1, d2, w1, w2, r1, k1, b1

OneBranch == [r \in Repositories |-> b1]

Symmetric == Permutations(Owners) \cup Permutations(WorkflowIds)
OwnerSymmetry == Permutations(Owners)

Add(s, repo, runAt, expire) ==
    [subject |-> s, repository |-> repo, run_at |-> runAt, expire_after |-> expire, variant |-> 0]

PlainRequests == {Add(s1, None, None, None)}
DeferredRequests == {Add(s1, None, None, None), Add(s1, None, 0, 0)}

(* An entry left by queue v0.3.3. *)
Old(status, w, hasDispatch) ==
    [FromDispatch(Add(s1, None, None, None)) EXCEPT
        !.status = status, !.workflow_id = w, !.has_dispatch = hasDispatch]

NoLeftovers == {<<>>}

=============================================================================
