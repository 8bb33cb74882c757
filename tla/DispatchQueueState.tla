------------------------- MODULE DispatchQueueState -------------------------
(***************************************************************************)
(* The queue entry, the ticket and the pure questions asked of them        *)
(* (src/dispatch_queue_state.rs and the helpers of src/fenced_queue.rs).   *)
(*                                                                         *)
(* Data the properties cannot tell apart is left out: timestamps that are  *)
(* only reported (enqueued_at, assigned_at, held_at), the audit log and    *)
(* the task id.  An absent optional field is None; an absent or zero       *)
(* generation is 0, the two being equivalent to every reader of a healthy  *)
(* file.  The legacy key and the canonical id of a subject are one value.  *)
(***************************************************************************)
EXTENDS Naturals, FiniteSets, Sequences

CONSTANTS
    Subjects,       \* what the queued work is about
    Owners,         \* daemons: the lease owners of ticketed leases
    WorkflowIds,    \* workflow ids; also the lease owners of old-style leases
    Repositories,   \* repository reservations (repository, base_ref, head_ref)
    BranchOf,       \* the collision key of each reservation
    Keys,           \* idempotency keys
    Requests,       \* contents of the add calls producers may send
    None            \* an absent optional value

Times == Nat

(* The content of an add.  requested_at is not part of it, and the request  *)
(* hash is taken to be as good as the content: equal contents, equal hashes.*)
Request ==
    [ subject      : Subjects,
      repository   : Repositories \cup {None},
      run_at       : Times \cup {None},
      expire_after : Times \cup {None},
      variant      : Nat ]   \* the rest of the dispatch envelope

Status == {"Pending", "Assigned", "Held", "Unknown"}

Entry ==
    [ subject_id         : Subjects,
      has_dispatch       : BOOLEAN,
      status             : Status,
      workflow_id        : WorkflowIds \cup {None},
      run_at             : Times \cup {None},
      expire_after       : Times \cup {None},
      subject_generation : Nat,
      workflow_generation: Nat,
      lease_owner        : Owners \cup WorkflowIds \cup {None},
      lease_generation   : Nat,
      lease_expires_at   : Times \cup {None},
      repository         : Repositories \cup {None},
      \* own idempotency key and extra_idempotency_keys, with their hashes
      bound              : [Keys -> Requests \cup {None}] ]

(* ExecutionFence: the ticket.  Its expiry is left out because no check     *)
(* reads it; the expiry that counts is the entry's.                         *)
Fence ==
    [ entry_id           : Nat,
      subject_id         : Subjects,
      subject_generation : Nat,
      workflow_id        : WorkflowIds,
      workflow_generation: Nat,
      owner_id           : Owners \cup WorkflowIds,
      generation         : Nat,
      repository         : Repositories \cup {None} ]

HistoryOutcome == {"Completed", "Failed", "Cancelled", "Dropped"}
CompletionStatus == HistoryOutcome \ {"Dropped"}

HistoryRecord == [outcome : HistoryOutcome, entry_id : Nat, entry : Entry]

ASSUME ConstantsAssumption ==
    /\ None \notin Times \cup Keys \cup Owners \cup WorkflowIds \cup Repositories \cup Requests
    /\ Requests \subseteq Request
    /\ DOMAIN BranchOf = Repositories

-----------------------------------------------------------------------------

(* DispatchQueueEntry::default() with a subject and a waiting dispatch. *)
FromDispatch(r) ==
    [ subject_id          |-> r.subject,
      has_dispatch        |-> TRUE,
      status              |-> "Pending",
      workflow_id         |-> None,
      run_at              |-> r.run_at,
      expire_after        |-> r.expire_after,
      subject_generation  |-> 0,
      workflow_generation |-> 0,
      lease_owner         |-> None,
      lease_generation    |-> 0,
      lease_expires_at    |-> None,
      repository          |-> None,
      bound               |-> [k \in Keys |-> None] ]

IsTicketed(e) == e.subject_generation > 0

LeaseIsLive(e, t) == e.lease_expires_at # None /\ e.lease_expires_at > t

IsDeferredUntilFuture(e, t) == e.run_at # None /\ t < e.run_at

(* The instant after which a waiting deferred entry is dropped. *)
HasDeadline(e) == e.run_at # None /\ e.expire_after # None
ExpiryDeadline(e) == e.run_at + e.expire_after

HasFence(e) ==
    /\ e.subject_generation > 0
    /\ e.workflow_id # None
    /\ e.workflow_generation > 0
    /\ e.lease_owner # None
    /\ e.lease_expires_at # None
    /\ e.lease_generation > 0

(* execution_fence: the entry's current ticket. *)
ExecutionFence(i, e) ==
    [ entry_id            |-> i,
      subject_id          |-> e.subject_id,
      subject_generation  |-> e.subject_generation,
      workflow_id         |-> e.workflow_id,
      workflow_generation |-> e.workflow_generation,
      owner_id            |-> e.lease_owner,
      generation          |-> e.lease_generation,
      repository          |-> e.repository ]

(* Mutant: the ticket's generation is not compared. *)
FenceMatchesAnyGeneration(i, e, f) ==
    /\ e.workflow_id = f.workflow_id
    /\ e.subject_id = f.subject_id
    /\ i = f.entry_id
    /\ e.lease_owner = f.owner_id

(* Mutant: the holder is not compared. *)
FenceMatchesAnyOwner(i, e, f) ==
    /\ e.workflow_id = f.workflow_id
    /\ e.workflow_generation = f.workflow_generation
    /\ e.subject_id = f.subject_id
    /\ e.subject_generation = f.subject_generation
    /\ i = f.entry_id
    /\ e.lease_generation = f.generation
    /\ e.repository = f.repository

(* f is the current ticket of entry i, live or expired. *)
ExactFenceMatches(i, e, f) ==
    /\ e.workflow_id = f.workflow_id
    /\ e.workflow_generation = f.workflow_generation
    /\ e.subject_id = f.subject_id
    /\ e.subject_generation = f.subject_generation
    /\ i = f.entry_id
    /\ e.lease_owner = f.owner_id
    /\ e.lease_generation = f.generation
    /\ e.repository = f.repository

(* bound_request_hash: the content key k is bound to, None when not held.   *)
BoundRequestHash(e, k) == e.bound[k]

(* HistoryRecord::finished: the entry as it was, minus its dispatch.        *)
Finished(i, e, outcome) ==
    [outcome |-> outcome, entry_id |-> i, entry |-> [e EXCEPT !.has_dispatch = FALSE]]

=============================================================================
