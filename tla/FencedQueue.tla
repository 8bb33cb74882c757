----------------------------- MODULE FencedQueue ----------------------------
(***************************************************************************)
(* The ticketed calls queue/v2/* (src/fenced_queue.rs).                    *)
(*                                                                         *)
(* The callers are daemons and producers that may crash, retry, and send   *)
(* or receive late: any ticket that was ever handed out (issued) can be    *)
(* presented at any time and any number of times.  A call that is refused, *)
(* or that finds its work already done, writes nothing and is a stuttering *)
(* step; its answer is the value of FencedMutation.                        *)
(***************************************************************************)
EXTENDS QueueFiles

CONSTANTS
    LeaseTtl,           \* the configured ticket length
    AskedTtls,          \* the ttl_secs a caller may send (None: not sent)
    MaxLeaseBatch,      \* MAX_LEASE_BATCH, 5 in the code
    ScanFloor,          \* fewest candidates a hand-out looks at, 50 in the code
    ScanPerSlot,        \* candidates per entry asked for, 10 in the code
    MaxExclude,         \* bound: tickets in one exclude list
    MaxLeaseGeneration  \* bound: hand-outs and takeovers of one entry

ASSUME FencedAssumption ==
    /\ LeaseTtl \in Nat \ {0}
    /\ AskedTtls \subseteq (Nat \ {0}) \cup {None}
    /\ MaxLeaseBatch \in Nat /\ ScanFloor \in Nat /\ ScanPerSlot \in Nat
    /\ MaxExclude \in Nat /\ MaxLeaseGeneration \in Nat

-----------------------------------------------------------------------------
(* Subject generations. *)

Highest(S) == CHOOSE n \in S : \A m \in S : m <= n

(* Mutant: only the live entries are asked, not the recorded counter. *)
NextGenerationOfLive(s) ==
    1 + Highest({0} \cup {entries[i].subject_generation :
                              i \in {j \in Kept : entries[j].subject_id = s}})

(* next_subject_generation, before it is recorded. *)
NextGeneration(s) ==
    1 + Highest({generations[s]} \cup
                {entries[i].subject_generation :
                    i \in {j \in Kept : entries[j].subject_id = s}})

(* Mutant: an identity the entry has is replaced. *)
WithNewIdentity(e, g) == [e EXCEPT !.subject_generation = g]

(* ensure_ticket_identity, given the generation to use. *)
WithIdentity(e, g) ==
    IF IsTicketed(e) THEN e ELSE [e EXCEPT !.subject_generation = g]

-----------------------------------------------------------------------------
(* queue/v2/enqueue *)

HasKey(i, k) == BoundRequestHash(entries[i], k) # None

(* Mutant: the history is not searched. *)
KeyKnownToQueue(k) == \E i \in DOMAIN entries : HasKey(i, k)

KeyKnown(k) == (\E i \in DOMAIN entries : HasKey(i, k)) \/ KeyInHistory(k)

(* idempotent_receipt: the entry that holds key k, a live one first, then   *)
(* one this call has just swept, then one that finished.                   *)
KeyHolder(k) ==
    LET live  == {i \in Kept  : HasKey(i, k)}
        swept == {i \in Swept : HasKey(i, k)}
        found(S) == [entry_id |-> First(S), entry |-> entries[First(S)]]
    IN  IF live # {} THEN found(live)
        ELSE IF swept # {} THEN found(swept)
        ELSE [entry_id |-> LastRecordOfKey(k).entry_id,
              entry    |-> LastRecordOfKey(k).entry]

NewKey(k) == k # None => ~KeyKnown(k)

(* Mutant: an entry that runs does not stop an add. *)
TicketedAndWaitingFor(s) ==
    {i \in Kept : /\ entries[i].status \in {"Pending", "Held"}
                  /\ IsTicketed(entries[i])
                  /\ entries[i].subject_id = s}

(* Mutant: an old-style entry that runs counts too. *)
LiveOldStyleFor(s) ==
    {i \in Kept : /\ entries[i].status # "Unknown"
                  /\ ~IsTicketed(entries[i])
                  /\ entries[i].has_dispatch
                  /\ entries[i].subject_id = s}

(* live_entry_for_subject: the entries that stop an add, and the one that   *)
(* is given back: the ticketed entry with the highest generation, else the *)
(* first old-style entry that waits or is held.                            *)
TicketedFor(s) ==
    {i \in Kept : /\ entries[i].status # "Unknown"
                  /\ IsTicketed(entries[i])
                  /\ entries[i].subject_id = s}
WaitingFor(s) ==
    {i \in Kept : /\ entries[i].status \in {"Pending", "Held"}
                  /\ ~IsTicketed(entries[i])
                  /\ entries[i].has_dispatch
                  /\ entries[i].subject_id = s}
StopsAdd(s) == TicketedFor(s) \cup WaitingFor(s)
LiveEntryForSubject(s, b) ==
    IF TicketedFor(s) # {}
    THEN b = Last({i \in TicketedFor(s) : \A j \in TicketedFor(s) :
                      entries[j].subject_generation <= entries[i].subject_generation})
    ELSE Ahead(WaitingFor(s), b) = {}

Bind(e, k, r) == IF k \in Keys THEN [e EXCEPT !.bound[k] = r] ELSE e

(* The key is known and bound to this content: the original receipt.  Bound *)
(* to other content, the call is an error and the sweep is not committed.  *)
EnqueueReplay(r, k) ==
    /\ ~NewKey(k)
    /\ BoundRequestHash(KeyHolder(k).entry, k) = r
    /\ IsTicketed(KeyHolder(k).entry)
    /\ CommitSweep

(* The subject already has an entry: give it back, bound to the key too.    *)
EnqueueExisting(r, k) ==
    LET s == r.subject
        g == NextGeneration(s)
    IN  /\ NewKey(k)
        /\ \E b \in StopsAdd(s) :
              /\ LiveEntryForSubject(s, b)
              /\ Commit([i \in Kept |-> IF i = b THEN Bind(WithIdentity(entries[i], g), k, r)
                                        ELSE entries[i]],
                        Reindex(place, Kept),
                        IF IsTicketed(entries[b]) THEN generations
                        ELSE [generations EXCEPT ![s] = g],
                        SweptRecords)
        /\ UNCHANGED <<now, minted, issued>>

EnqueueNew(r, k) ==
    LET s == r.subject
        g == NextGeneration(s)
        e == [WithIdentity(FromDispatch(r), g) EXCEPT !.repository = r.repository]
    IN  /\ NewKey(k)
        /\ StopsAdd(s) = {}
        /\ minted < MaxEntries
        /\ minted' = minted + 1
        /\ Commit([i \in Kept \cup {minted + 1} |->
                      IF i = minted + 1 THEN Bind(e, k, r) ELSE entries[i]],
                  [i \in Kept \cup {minted + 1} |->
                      IF i = minted + 1 THEN Cardinality(Kept) + 1
                      ELSE Reindex(place, Kept)[i]],
                  [generations EXCEPT ![s] = g],
                  SweptRecords)
        /\ UNCHANGED <<now, issued>>

EnqueueV2(r, k) == EnqueueReplay(r, k) \/ EnqueueExisting(r, k) \/ EnqueueNew(r, k)

-----------------------------------------------------------------------------
(* queue/v2/lease.  The loop over the candidates is described by the set L  *)
(* of the entries it hands out: whether the loop reaches an entry, mints   *)
(* it a generation or blocks it depends only on the members of L ahead.    *)

(* Mutant: running entries are handed out again. *)
DueOrRunning == {i \in Kept : /\ entries[i].status \in {"Pending", "Assigned"}
                              /\ ~IsDeferredUntilFuture(entries[i], now)}

Due == {i \in Kept : /\ entries[i].status = "Pending"
                     /\ ~IsDeferredUntilFuture(entries[i], now)}

Candidates(max) ==
    FirstN(Due, IF ScanPerSlot * max > ScanFloor THEN ScanPerSlot * max ELSE ScanFloor)

(* The candidates the loop gets to before it has handed out max. *)
Reached(L, max) == {i \in Candidates(max) : Cardinality(Ahead(L, i)) < max}

(* Those that get ticket identity, whether or not they are handed out. *)
Identified(L, max) ==
    {i \in Reached(L, max) : ~IsTicketed(entries[i]) /\ entries[i].has_dispatch}

IdentifiedOf(L, max, s) == {i \in Identified(L, max) : entries[i].subject_id = s}

(* Mutant: the counter is not raised between two entries of one subject. *)
GenerationOfNoRaise(i, L, max) ==
    IF IsTicketed(entries[i]) THEN entries[i].subject_generation
    ELSE NextGeneration(entries[i].subject_id)

(* The generation of i once the loop has passed it. *)
GenerationOf(i, L, max) ==
    LET s == entries[i].subject_id
    IN  IF IsTicketed(entries[i]) THEN entries[i].subject_generation
        ELSE NextGeneration(s) + Cardinality(Ahead(IdentifiedOf(L, max, s), i))

SameBranch(r1, r2) == r1 # None /\ r2 # None /\ BranchOf[r1] = BranchOf[r2]

(* Mutant: entries handed out by this very call are overlooked. *)
RunningBeforeOnBranch(L, i) == {j \in Kept : entries[j].status = "Assigned"}

(* Mutant: a put-back entry still holds its branch. *)
LeasedOnceOnBranch(L, i) ==
    {j \in Kept : entries[j].lease_owner # None} \cup Ahead(L, i)

(* running_entry_on_branch: an Assigned entry, or one handed out earlier in *)
(* the same call, holds the branch.                                        *)
RunningOnBranch(L, i) ==
    {j \in Kept : entries[j].status = "Assigned"} \cup Ahead(L, i)

Blocked(i, L, max, exclude) ==
    \/ \E f \in exclude : /\ f.subject_id = entries[i].subject_id
                          /\ f.subject_generation = GenerationOf(i, L, max)
    \/ \E f \in exclude : SameBranch(f.repository, entries[i].repository)
    \/ \E j \in RunningOnBranch(L, i) :
          SameBranch(entries[j].repository, entries[i].repository)

(* Mutant: every hand-out takes a fresh workflow id. *)
FreshWorkflowIdFor(i, L, ids) == ids[1 + Cardinality(Ahead(L, i))]

(* An entry keeps its workflow id, else it takes the next unused one.       *)
WorkflowIdFor(i, L, ids) ==
    IF entries[i].workflow_id # None THEN entries[i].workflow_id
    ELSE ids[1 + Cardinality({j \in Ahead(L, i) : entries[j].workflow_id = None})]

(* Mutant: the lease generation is not raised. *)
HandedOutAgain(e, owner, w) ==
    [e EXCEPT !.status = "Assigned",
              !.workflow_id = w,
              !.workflow_generation = IF @ = 0 THEN 1 ELSE @,
              !.lease_owner = owner,
              !.lease_generation = IF @ = 0 THEN 1 ELSE @,
              !.lease_expires_at = now + LeaseTtl]

HandedOut(e, owner, w) ==
    [e EXCEPT !.status = "Assigned",
              !.workflow_id = w,
              !.workflow_generation = IF @ = 0 THEN 1 ELSE @,
              !.lease_owner = owner,
              !.lease_generation = @ + 1,
              !.lease_expires_at = now + LeaseTtl]

(* The entry after the loop. *)
AfterLease(i, L, max, owner, ids) ==
    LET e == IF i \in Identified(L, max)
             THEN WithIdentity(entries[i], GenerationOf(i, L, max)) ELSE entries[i]
    IN  IF i \in L THEN HandedOut(e, owner, WorkflowIdFor(i, L, ids)) ELSE e

LeaseV2(max, owner, ids, exclude) ==
    \E L \in SUBSET Candidates(max) :
        /\ \A i \in Candidates(max) :
              i \in L <=> /\ i \in Reached(L, max)
                          /\ entries[i].has_dispatch
                          /\ ~Blocked(i, L, max, exclude)
        /\ \A i \in L : entries[i].lease_generation < MaxLeaseGeneration
        /\ L \cup Identified(L, max) \cup Swept # {}
        /\ Commit([i \in Kept |-> AfterLease(i, L, max, owner, ids)],
                  Reindex(place, Kept),
                  [s \in Subjects |->
                      IF IdentifiedOf(L, max, s) = {} THEN generations[s]
                      ELSE NextGeneration(s) + Cardinality(IdentifiedOf(L, max, s)) - 1],
                  SweptRecords)
        /\ issued' = issued \cup
              {ExecutionFence(i, AfterLease(i, L, max, owner, ids)) : i \in L}
        /\ UNCHANGED <<now, minted>>

-----------------------------------------------------------------------------
(* queue/v2/lease/renew, lease/recover, completion and release_pending.     *)

RequestedTtl(ttl) == IF ttl = None \/ ttl > LeaseTtl THEN LeaseTtl ELSE ttl

FinishedEntryOutcome(f, op) ==
    IF ~HasHistory(f.entry_id) THEN "NotFound"
    ELSE LET h == LastRecord(f.entry_id)
         IN  IF /\ op = "Complete"
                /\ h.outcome # "Dropped"
                /\ ExactFenceMatches(h.entry_id, h.entry, f)
             THEN "AlreadyApplied" ELSE "NotAssigned"

(* Mutant: a finish is refused once the ticket has expired. *)
FencedMutationStrict(f, op, newOwner) ==
    LET i == f.entry_id
        e == entries[i]
    IN  IF i \notin DOMAIN entries THEN FinishedEntryOutcome(f, op)
        ELSE IF e.status # "Assigned" THEN "NotAssigned"
        ELSE IF ~ExactFenceMatches(i, e, f) THEN "StaleFence"
        ELSE IF op # "Recover" /\ ~LeaseIsLive(e, now) THEN "StaleFence"
        ELSE "Applied"

(* The answer to ticket f; newOwner is read by Recover only. *)
FencedMutation(f, op, newOwner) ==
    LET i == f.entry_id
        e == entries[i]
    IN  IF i \notin DOMAIN entries THEN FinishedEntryOutcome(f, op)
        ELSE IF /\ op = "ReleasePending"
                /\ e.status = "Pending"
                /\ ExactFenceMatches(i, e, f) THEN "AlreadyApplied"
        ELSE IF e.status # "Assigned" THEN "NotAssigned"
        ELSE IF ~ExactFenceMatches(i, e, f) THEN "StaleFence"
        ELSE IF op = "Recover" /\ e.lease_owner = newOwner THEN "InvalidParams"
        ELSE IF op = "Recover" /\ LeaseIsLive(e, now) THEN "LeaseStillLive"
        ELSE IF op = "Renew" /\ ~LeaseIsLive(e, now) THEN "StaleFence"
        ELSE "Applied"

UpdateEntry(i, e) ==
    /\ Commit([entries EXCEPT ![i] = e], place, generations, {})
    /\ UNCHANGED <<now, minted>>

(* Mutant: a short renewal moves the expiry back. *)
RenewLeaseShorter(f, ttl) ==
    /\ FencedMutation(f, "Renew", None) = "Applied"
    /\ UpdateEntry(f.entry_id,
          [entries[f.entry_id] EXCEPT !.lease_expires_at = now + RequestedTtl(ttl)])
    /\ UNCHANGED issued

RenewLease(f, ttl) ==
    LET e == entries[f.entry_id]
        renewed == now + RequestedTtl(ttl)
    IN  /\ FencedMutation(f, "Renew", None) = "Applied"
        /\ UpdateEntry(f.entry_id,
              [e EXCEPT !.lease_expires_at = IF @ > renewed THEN @ ELSE renewed])
        /\ UNCHANGED issued

RecoverLease(f, newOwner, ttl) ==
    LET e == [entries[f.entry_id] EXCEPT
                 !.lease_owner = newOwner,
                 !.lease_generation = @ + 1,
                 !.lease_expires_at = now + RequestedTtl(ttl)]
    IN  /\ FencedMutation(f, "Recover", newOwner) = "Applied"
        /\ f.generation < MaxLeaseGeneration
        /\ UpdateEntry(f.entry_id, e)
        /\ issued' = issued \cup {ExecutionFence(f.entry_id, e)}

(* entries.remove(i) *)
Without(i) == DOMAIN entries \ {i}

Remove(i, outcome) ==
    /\ Commit([j \in Without(i) |-> entries[j]], Reindex(place, Without(i)),
              generations, {Finished(i, entries[i], outcome)})
    /\ UNCHANGED <<now, minted, issued>>

(* Accepted with an expired ticket as long as nobody took the entry over.   *)
CompletionV2(f, outcome) ==
    /\ FencedMutation(f, "Complete", None) = "Applied"
    /\ Remove(f.entry_id, outcome)

InterruptedCompletionV2(f, outcome) ==
    /\ FencedMutation(f, "Complete", None) = "Applied"
    /\ Interrupt({Finished(f.entry_id, entries[f.entry_id], outcome)})

(* The entry keeps its workflow id and every ticket field. *)
ReleasePendingV2(f) ==
    /\ FencedMutation(f, "ReleasePending", None) = "Applied"
    /\ UpdateEntry(f.entry_id, [entries[f.entry_id] EXCEPT !.status = "Pending"])
    /\ UNCHANGED issued

-----------------------------------------------------------------------------

Lists(n, S) == {l \in [1..n -> S] : \A i, j \in 1..n : l[i] = l[j] => i = j}

SomeEnqueueV2 == \E r \in Requests, k \in Keys \cup {None} : EnqueueV2(r, k)

SomeLeaseV2 ==
    \E max \in 1..MaxLeaseBatch, owner \in Owners :
        \E ids \in Lists(max, WorkflowIds),
           exclude \in {X \in SUBSET issued : Cardinality(X) <= MaxExclude} :
            LeaseV2(max, owner, ids, exclude)

SomeTicketCall ==
    \E f \in issued :
        \/ \E ttl \in AskedTtls : RenewLease(f, ttl)
        \/ \E owner \in Owners, ttl \in AskedTtls : RecoverLease(f, owner, ttl)
        \/ \E outcome \in AskedOutcomes :
              CompletionV2(f, outcome) \/ InterruptedCompletionV2(f, outcome)
        \/ ReleasePendingV2(f)

FencedNext ==
    \/ SomeEnqueueV2
    \/ SomeLeaseV2
    \/ SomeTicketCall
    \/ InterruptedSweep
    \/ Tick

FencedSpec == FilesInit /\ [][FencedNext]_vars

-----------------------------------------------------------------------------
(* What the ticketed calls promise. *)

(* No two tickets for one entry carry the same lease generation: whoever    *)
(* compares generations knows which of two holders came later (the counter *)
(* that lease_v2 and recover_lease raise).                                 *)
TicketsUnique ==
    \A f, g \in issued :
        f.entry_id = g.entry_id /\ f.generation = g.generation => f = g

(* Every ticket an entry ever has names the same workflow, subject and      *)
(* generations of both: put-back, takeover and the next hand-out continue  *)
(* the run the daemon may already have created.                            *)
OneWorkflowPerEntry ==
    \A f, g \in issued :
        f.entry_id = g.entry_id =>
            /\ f.workflow_id = g.workflow_id
            /\ f.workflow_generation = g.workflow_generation
            /\ f.subject_id = g.subject_id
            /\ f.subject_generation = g.subject_generation

(* Once a later ticket for the same entry exists, no call with the earlier  *)
(* one is ever applied again, whatever was put back, taken over, finished  *)
(* or interrupted in between (fenced_mutation's exact match).              *)
SupersededTicketIsInert ==
    \A f, g \in issued :
        f.entry_id = g.entry_id /\ f.generation < g.generation =>
            \A op \in {"Renew", "Recover", "Complete", "ReleasePending"},
               owner \in Owners :
                FencedMutation(f, op, owner) # "Applied"

(* Two running entries never hold one repository branch, also when one call *)
(* hands out several or a put-back entry comes round again.                *)
BranchExclusive ==
    \A i, j \in DOMAIN entries :
        /\ entries[i].status = "Assigned" /\ entries[j].status = "Assigned"
        /\ SameBranch(entries[i].repository, entries[j].repository)
        => i = j

(* Every pair of an entry and the subject generation it was seen with, in   *)
(* the queue, in the history or on a ticket.                               *)
Identities ==
    LET Of(i, e) == [entry_id |-> i, subject |-> e.subject_id, gen |-> e.subject_generation]
    IN  {Of(i, entries[i]) : i \in {j \in DOMAIN entries : IsTicketed(entries[j])}}
        \cup {Of(h.entry_id, h.entry) :
                 h \in {x \in UNION {history[n] : n \in DOMAIN history} : IsTicketed(x.entry)}}
        \cup {Of(f.entry_id, f) : f \in issued}

(* A generation of a subject is given to one entry only, ever, and the      *)
(* recorded counter is never behind one in use: next_subject_generation    *)
(* cannot hand a generation out again, not even after the entry that had   *)
(* it finished, was swept or was left unfinished by a crash.               *)
SubjectGenerationsUnique ==
    /\ \A a, b \in Identities : a.subject = b.subject /\ a.gen = b.gen => a = b
    /\ \A a \in Identities : a.gen <= generations[a.subject]

(* An entry that left the queue file stays out of it, and its last history  *)
(* line is the finish that took effect, not an interrupted attempt: what   *)
(* queue_history.rs needs for its readers to take the last line.           *)
LastLineTookEffect ==
    /\ \A h \in left : h.entry_id \notin DOMAIN entries /\ LastRecord(h.entry_id) = h
    /\ \A i \in (1..minted) \ DOMAIN entries : \E h \in left : h.entry_id = i

(* The ticket that finished an entry is told already_applied for ever, and  *)
(* nobody is told so of an entry that is not finished.                     *)
DoneStaysDone ==
    /\ \A h \in left : h.outcome # "Dropped" /\ HasFence(h.entry) =>
          FencedMutation(ExecutionFence(h.entry_id, h.entry), "Complete", None)
              = "AlreadyApplied"
    /\ \A f \in issued : FencedMutation(f, "Complete", None) = "AlreadyApplied" =>
          \E h \in left : h.entry_id = f.entry_id /\ h.outcome # "Dropped"

(* A ticketed add never makes a second live entry for a subject.            *)
OneEntryPerSubject ==
    \A i, j \in DOMAIN entries :
        entries[i].subject_id = entries[j].subject_id => i = j

(* The receipt for a key: enqueue_v2's answer to a retry. *)
Receipt(k) ==
    LET h == KeyHolder(k)
    IN  <<h.entry_id, h.entry.subject_id, h.entry.subject_generation,
          BoundRequestHash(h.entry, k)>>

(* A key once accepted is answered with the same receipt for ever: while    *)
(* its entry waits, runs, is swept by the very call that asks, and after   *)
(* it finished ("a key is remembered forever").                            *)
ReceiptsKept == \A k \in Keys : KeyKnown(k) => KeyKnown(k)' /\ Receipt(k)' = Receipt(k)

ReceiptNeverChanges == [][ReceiptsKept]_vars

(* While a ticket has not expired, its entry may finish or be put back by   *)
(* its holder, but nobody else comes to run it.                            *)
LiveTicketsKept ==
    \A f \in issued :
        LET i == f.entry_id IN
        /\ i \in DOMAIN entries
        /\ entries[i].status = "Assigned"
        /\ ExactFenceMatches(i, entries[i], f)
        /\ LeaseIsLive(entries[i], now)
        /\ i \in DOMAIN entries'
        /\ entries'[i].status = "Assigned"
        => ExactFenceMatches(i, entries'[i], f)

LiveTicketNotStolen == [][LiveTicketsKept]_vars

(* Under one ticket the expiry never moves back, and no generation of an    *)
(* entry or counter of a subject ever falls or is undone.                  *)
CountersMoveOn ==
    /\ \A s \in Subjects : generations'[s] >= generations[s]
    /\ \A i \in DOMAIN entries \cap DOMAIN entries' :
          LET e == entries[i]  d == entries'[i] IN
          /\ d.lease_generation >= e.lease_generation
          /\ IsTicketed(e) => d.subject_generation = e.subject_generation
          /\ d.workflow_generation >= e.workflow_generation
          /\ d.lease_generation = e.lease_generation /\ HasFence(e) =>
                /\ d.workflow_id = e.workflow_id
                /\ d.lease_expires_at >= e.lease_expires_at

NothingMovesBack == [][CountersMoveOn]_vars

=============================================================================
