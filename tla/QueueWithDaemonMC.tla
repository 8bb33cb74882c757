-------------------------- MODULE QueueWithDaemonMC --------------------------
(* The queue and its daemons on instances with one branch for TLC. *)
EXTENDS QueueWithDaemon, TLC

CONSTANTS s1, s2, s3, d1, d2, w1, w2, w3, w4, r1, r2, b1

OneBranch == [r \in Repositories |-> b1]

Add(s, repo, runAt) ==
    [subject |-> s, repository |-> repo, run_at |-> runAt, expire_after |-> None, variant |-> 0]

NoLeftovers == {<<>>}

(* Two adds on one branch, and a one on none. *)
BranchAndDeferred == {Add(s1, r1, None), Add(s2, r2, None), Add(s3, None, None)}

=============================================================================
