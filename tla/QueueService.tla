---------------------------- MODULE QueueService ----------------------------
(***************************************************************************)
(* The old-style calls queue/* (src/queue_service.rs).  They carry no      *)
(* ticket.  Hand-out, mark_assigned and put-back leave ticketed entries    *)
(* alone; hold, release, drop, reorder and completion work on every entry. *)
(* queue/list and queue/stats change nothing and are not modelled.         *)
(***************************************************************************)
EXTENDS QueueFiles

CONSTANTS
    OldLeaseTtl,   \* the configured lease length, the same as for tickets
    MaxOldBatch    \* bound: entries asked for in one old-style hand-out

ASSUME ServiceAssumption == OldLeaseTtl \in Nat \ {0} /\ MaxOldBatch \in Nat

-----------------------------------------------------------------------------
(* Mutant: the new entry goes to the front of the Vec. *)
EnqueueAtFront(r) ==
    /\ minted < MaxEntries
    /\ minted' = minted + 1
    /\ Commit([i \in Kept \cup {minted + 1} |->
                  IF i = minted + 1 THEN FromDispatch(r) ELSE entries[i]],
              [i \in Kept \cup {minted + 1} |->
                  IF i = minted + 1 THEN 1 ELSE Reindex(place, Kept)[i] + 1],
              generations, SweptRecords)
    /\ UNCHANGED <<now, issued>>

(* queue/enqueue: always a new entry, with a warning when the subject        *)
(* already has one.                                                        *)
Enqueue(r) ==
    /\ minted < MaxEntries
    /\ minted' = minted + 1
    /\ Commit([i \in Kept \cup {minted + 1} |->
                  IF i = minted + 1 THEN FromDispatch(r) ELSE entries[i]],
              [i \in Kept \cup {minted + 1} |->
                  IF i = minted + 1 THEN Cardinality(Kept) + 1
                  ELSE Reindex(place, Kept)[i]],
              generations, SweptRecords)
    /\ UNCHANGED <<now, issued>>

(* queue/next_deadline: sweeps, then only reads. *)
NextDeadline == CommitSweep

-----------------------------------------------------------------------------
(* queue/lease *)

(* Mutant: a running entry is handed out before its lease is past. *)
LeasableEarly ==
    {i \in Kept :
        /\ ~IsTicketed(entries[i])
        /\ entries[i].has_dispatch
        /\ \/ /\ entries[i].status = "Pending"
              /\ ~IsDeferredUntilFuture(entries[i], now)
           \/ /\ entries[i].status = "Assigned"
              /\ entries[i].lease_expires_at # None}

(* Due entries and running ones whose lease is past its expiry. *)
Leasable ==
    {i \in Kept :
        /\ ~IsTicketed(entries[i])
        /\ entries[i].has_dispatch
        /\ \/ /\ entries[i].status = "Pending"
              /\ ~IsDeferredUntilFuture(entries[i], now)
           \/ /\ entries[i].status = "Assigned"
              /\ entries[i].lease_expires_at # None
              /\ entries[i].lease_expires_at < now}

(* A subject is handed out at most once per call, and not if excluded. *)
Chosen(max, exclude) ==
    FirstN({i \in Leasable :
               /\ entries[i].subject_id \notin exclude
               /\ \A j \in Ahead(Leasable, i) :
                     entries[j].subject_id # entries[i].subject_id},
           max)

(* An old-style lease that runs from time t. *)
Assign(e, w, t) ==
    [e EXCEPT !.status = "Assigned",
              !.workflow_id = w,
              !.lease_owner = w,
              !.lease_expires_at = t + OldLeaseTtl]

(* ids are the caller's workflow ids or fresh ones, one per slot. *)
Lease(max, ids, exclude) ==
    LET C == Chosen(max, exclude)
        id(i) == IF entries[i].workflow_id # None THEN entries[i].workflow_id
                 ELSE ids[1 + Cardinality(Ahead(C, i))]
    IN  /\ C \cup Swept # {}
        /\ Commit([i \in Kept |-> IF i \in C THEN Assign(entries[i], id(i), now) ELSE entries[i]],
                  Reindex(place, Kept), generations, SweptRecords)
        /\ UNCHANGED <<now, minted, issued>>

-----------------------------------------------------------------------------
(* Calls on one entry.  None of them sweeps. *)

UpdateOne(i, e) ==
    /\ Commit([entries EXCEPT ![i] = e], place, generations, {})
    /\ UNCHANGED <<now, minted, issued>>

RemoveOne(i, outcome) ==
    LET rest == DOMAIN entries \ {i}
    IN  /\ Commit([j \in rest |-> entries[j]], Reindex(place, rest), generations,
                  {Finished(i, entries[i], outcome)})
        /\ UNCHANGED <<now, minted, issued>>

(* queue/hold; held already is a no-op, running is an error. *)
Hold(i) ==
    /\ entries[i].status = "Pending"
    /\ UpdateOne(i, [entries[i] EXCEPT !.status = "Held"])

(* queue/release *)
Release(i) ==
    /\ entries[i].status = "Held"
    /\ UpdateOne(i, [entries[i] EXCEPT !.status = "Pending"])

(* queue/drop *)
DropEntry(i) == RemoveOne(i, "Dropped")

InterruptedDrop(i) == Interrupt({Finished(i, entries[i], "Dropped")})

(* Mutant: ticketed entries are assigned too. *)
MarkAnyAssigned(i, w, called) ==
    /\ entries[i].status = "Pending"
    /\ UpdateOne(i, Assign(entries[i], w, called))

(* queue/mark_assigned: takes the workflow id given even if it had one.     *)
(* The clock is read before the lock is waited for: the lease runs from    *)
(* the time of the call.                                                   *)
MarkAssigned(i, w, called) ==
    /\ ~IsTicketed(entries[i])
    /\ entries[i].status = "Pending"
    /\ UpdateOne(i, Assign(entries[i], w, called))

(* queue/completion, of any running entry, ticketed or not.  The workflow   *)
(* id is compared when both the caller and the entry have one; a workflow   *)
(* name that does not match only makes the call find nothing.              *)
MayComplete(i, w) ==
    /\ entries[i].status = "Assigned"
    /\ w # None /\ entries[i].workflow_id # None => entries[i].workflow_id = w

Completion(i, outcome, w) == MayComplete(i, w) /\ RemoveOne(i, outcome)

InterruptedCompletion(i, outcome, w) ==
    /\ MayComplete(i, w)
    /\ Interrupt({Finished(i, entries[i], outcome)})

(* Mutant: ticketed entries are put back too. *)
ReleaseAnyPending(i) ==
    /\ entries[i].status = "Assigned"
    /\ UpdateOne(i, [entries[i] EXCEPT !.status = "Pending",
                                       !.workflow_id = None,
                                       !.lease_owner = None,
                                       !.lease_expires_at = None])

(* queue/release_pending *)
ReleasePending(i) ==
    /\ ~IsTicketed(entries[i])
    /\ entries[i].status = "Assigned"
    /\ UpdateOne(i, [entries[i] EXCEPT !.status = "Pending",
                                       !.workflow_id = None,
                                       !.lease_owner = None,
                                       !.lease_expires_at = None])

-----------------------------------------------------------------------------
(* queue/reorder: the named entries first, in the order of ids, then the    *)
(* rest as they were.                                                      *)
NewRank(ids, i) ==
    LET named == {n \in DOMAIN ids : ids[n] = i}
    IN  IF named # {} THEN CHOOSE n \in named : \A m \in named : n <= m
        ELSE Len(ids) + place[i]

Reorder(ids) ==
    LET moved == Reindex([i \in DOMAIN entries |-> NewRank(ids, i)], DOMAIN entries)
    IN  /\ moved # place
        /\ Commit(entries, moved, generations, {})
        /\ UNCHANGED <<now, minted, issued>>

-----------------------------------------------------------------------------

SomeEnqueue == \E r \in Requests : Enqueue(r)

SomeLease ==
    \E max \in 1..MaxOldBatch :
        \E ids \in [1..max -> WorkflowIds], exclude \in SUBSET Subjects :
            Lease(max, ids, exclude)

(* hold, release, drop, completion: the calls that work on ticketed         *)
(* entries too.                                                            *)
SomeOperatorCall ==
    \E i \in DOMAIN entries :
        \/ Hold(i) \/ Release(i)
        \/ DropEntry(i) \/ InterruptedDrop(i)

SomeCompletion ==
    \E i \in DOMAIN entries, outcome \in AskedOutcomes, w \in WorkflowIds \cup {None} :
        Completion(i, outcome, w) \/ InterruptedCompletion(i, outcome, w)

SomeOldAssignment ==
    \E i \in DOMAIN entries :
        ReleasePending(i) \/ \E w \in WorkflowIds, called \in 0..now : MarkAssigned(i, w, called)

SomeReorder ==
    \E n \in 1..Cardinality(DOMAIN entries) :
        \E ids \in [1..n -> DOMAIN entries] : Reorder(ids)

ServiceNext ==
    \/ SomeEnqueue \/ SomeLease \/ NextDeadline
    \/ SomeOperatorCall \/ SomeCompletion \/ SomeOldAssignment
    \/ SomeReorder

=============================================================================
