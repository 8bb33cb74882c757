---------------------------- MODULE FencedQueueMC ----------------------------
(* Small instances of the ticketed queue for TLC. *)
EXTENDS FencedQueue, TLC

CONSTANTS s1, s2, s3, d1, d2, w1, w2, k1, k2, r1, r2, b1

OwnersAndWorkflows == Permutations(Owners) \cup Permutations(WorkflowIds)
KeySymmetry == Permutations(Keys)

OneBranch == [r \in Repositories |-> b1]

Add(s, repo, runAt, expire, n) ==
    [subject |-> s, repository |-> repo, run_at |-> runAt, expire_after |-> expire, variant |-> n]

(* An empty project. *)
NoLeftovers == {<<>>}

(* One subject: an add for now, and a deferred one that expires at 3.       *)
TicketRequests == {Add(s1, None, None, None, 0), Add(s1, None, 1, 1, 0)}

(* Contents that differ for one subject, one of which expires at once.      *)
KeyRequests == {Add(s1, None, None, None, 0), Add(s1, None, 0, 0, 0)}

(* Two reservations of one branch by two subjects, and work on no branch.   *)
BranchRequests ==
    {Add(s1, r1, None, None, 0), Add(s2, r2, None, None, 0), Add(s3, None, None, None, 0)}

=============================================================================
