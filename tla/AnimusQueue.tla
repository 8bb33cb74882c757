----------------------------- MODULE AnimusQueue -----------------------------
(***************************************************************************)
(* The whole queue: ticketed and old-style callers on one project, over    *)
(* files an older version may have left, with crashes between the two      *)
(* writes of a commit.                                                     *)
(***************************************************************************)
EXTENDS FencedQueue, QueueService

ASSUME SameTtl == OldLeaseTtl = LeaseTtl

Init == FilesInit

Next == FencedNext \/ ServiceNext

Spec == Init /\ [][Next]_vars

-----------------------------------------------------------------------------
(* Old-style hand-out, mark_assigned and put-back leave ticketed entries    *)
(* alone: a step that starts or ends the run of a ticketed entry without   *)
(* finishing it is one that some issued ticket accounts for.  What may     *)
(* happen to it without a ticket is hold and release, which keep every     *)
(* field of the ticket.                                                    *)
MovedByTicket ==
    \A i \in DOMAIN entries \cap DOMAIN entries' :
        LET e == entries[i]  d == entries'[i] IN
        /\ IsTicketed(e)
        /\ (e.status = "Assigned") # (d.status = "Assigned")
        => /\ HasFence(d)
           /\ ExecutionFence(i, d) \in issued'
           /\ d.status = "Pending" => ExecutionFence(i, e) = ExecutionFence(i, d)

TicketedEntriesMoveByTicket == [][MovedByTicket]_vars

(* A ticket never names an entry that is running under an old-style lease:  *)
(* a running entry is either held by exactly one issued ticket or was never *)
(* given ticket identity.                                                  *)
RunningTicketedHasTicket ==
    \A i \in DOMAIN entries :
        entries[i].status = "Assigned" =>
            \/ ~IsTicketed(entries[i])
            \/ HasFence(entries[i]) /\ ExecutionFence(i, entries[i]) \in issued

(* An old-style lease that has not passed its expiry is not handed out      *)
(* again, and a reclaim after expiry keeps the workflow id: "the daemon    *)
(* may already have created that workflow".                                *)
OldLeasesRunOn ==
    \A i \in DOMAIN entries \cap DOMAIN entries' :
        LET e == entries[i]  d == entries'[i] IN
        /\ e.status = "Assigned" /\ d.status = "Assigned" /\ ~IsTicketed(e)
        => /\ ~IsTicketed(d)
           /\ e.workflow_id # None => d.workflow_id = e.workflow_id
           /\ e.lease_expires_at # d.lease_expires_at =>
                 e.lease_expires_at # None /\ e.lease_expires_at < now

OldLeaseKept == [][OldLeasesRunOn]_vars

(* First in, first out: only reorder changes which of two live entries      *)
(* comes first, and what is new comes last.                                *)
InOrder ==
    SomeReorder \/
    \A i \in DOMAIN entries \cap DOMAIN entries', j \in DOMAIN entries' :
        (j \in DOMAIN entries => place[i] < place[j]) /\ i # j
        => place'[i] < place'[j]

OrderKept == [][InOrder]_vars

(* "Immediate enqueues stay idempotent: an existing live entry for the same *)
(* (subject_key, workflow_ref) is a no-op" (queue_service.rs:85-86).  All   *)
(* adds of the run that checks it name one workflow.                       *)
ImmediateEnqueueIdempotent ==
    [][\A r \in Requests :
          /\ r.run_at = None
          /\ \E i \in Kept : entries[i].subject_id = r.subject
          /\ Enqueue(r)
          => DOMAIN entries' \subseteq DOMAIN entries]_vars

=============================================================================
