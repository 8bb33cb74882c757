----------------------------- MODULE QueueFiles -----------------------------
(***************************************************************************)
(* queue.json and queue-history.jsonl as the handlers see them             *)
(* (src/dispatch_queue_store.rs, src/queue_history.rs and the sweep and    *)
(* commit of src/queue_service.rs).                                        *)
(*                                                                         *)
(* Every handler takes the exclusive file lock, loads the file, computes a *)
(* new state and commits it before unlocking, so a handler is one step.    *)
(* What can come between is a crash: the history lines are on disk, the    *)
(* new queue.json is not.  That is a step of its own (Interrupt).          *)
(*                                                                         *)
(* The Vec of entries is kept as a function from entry ids together with   *)
(* each entry's index in the Vec (place).  Ids are UUIDs: an id is minted  *)
(* once, so ids are counted.                                               *)
(***************************************************************************)
EXTENDS DispatchQueueState

CONSTANTS
    Leftovers,   \* queues an older version may have left in queue.json
    AskedOutcomes, \* completion statuses the callers send
    MaxTime,     \* bound: the last instant of the clock
    MaxEntries,  \* bound: no add mints an id past it
    MaxHistory   \* bound: history batches up to which a crash may come

VARIABLES
    now,          \* Utc::now()
    minted,       \* entry ids minted so far: 1..minted
    entries,      \* queue.json: entry id -> entry, for the live entries
    place,        \* queue.json: entry id -> index in the Vec
    generations,  \* queue.json: subject_generations
    history,      \* queue-history.jsonl: one set of records per append
    issued,       \* outside the queue: every ticket minted; callers may hold it
    left          \* only for the properties: the finishes that took effect

files == <<minted, entries, place, generations, history>>
vars == <<now, files, issued, left>>

(* An entry of queue v0.3.3: no ticket, no lease, no repository, no key.    *)
OldStyleEntry(e) ==
    /\ e.subject_generation = 0 /\ e.workflow_generation = 0
    /\ e.lease_generation = 0 /\ e.lease_expires_at = None
    /\ e.lease_owner = None /\ e.repository = None
    /\ e.bound = [k \in Keys |-> None]

ASSUME FilesAssumption ==
    /\ AskedOutcomes \subseteq CompletionStatus
    /\ MaxTime \in Nat /\ MaxEntries \in Nat /\ MaxHistory \in Nat
    /\ \A q \in Leftovers : q \in Seq({e \in Entry : OldStyleEntry(e)})

TypeOK ==
    /\ now \in Nat
    /\ minted \in Nat
    /\ DOMAIN entries \subseteq 1..minted
    /\ entries \in [DOMAIN entries -> Entry]
    /\ place \in [DOMAIN entries -> Nat]
    /\ generations \in [Subjects -> Nat]
    /\ history \in Seq(SUBSET HistoryRecord)
    /\ issued \subseteq Fence
    /\ left \subseteq HistoryRecord

-----------------------------------------------------------------------------
(* The Vec. *)

(* The members of S that come before i. *)
Ahead(S, i) == {j \in S : place[j] < place[i]}

(* The first n members of S, a set of live entries. *)
FirstN(S, n) == {i \in S : Cardinality(Ahead(S, i)) < n}
First(S) == CHOOSE i \in S : Ahead(S, i) = {}
Last(S) == CHOOSE i \in S : \A j \in S : place[j] <= place[i]

(* The indices after all but the entries in S are removed. *)
Reindex(p, S) == [i \in S |-> Cardinality({j \in S : p[j] <= p[i]})]

-----------------------------------------------------------------------------
(* The history file. *)

(* The batches of the history with a record that satisfies P. *)
Lines(P(_)) == {n \in DOMAIN history : \E h \in history[n] : P(h)}

(* find_last: the record in the last of those batches. *)
FindLast(P(_)) ==
    LET n == CHOOSE m \in Lines(P) : \A l \in Lines(P) : l <= m
    IN  CHOOSE h \in history[n] : P(h)

(* find_history_by_entry_id *)
HasHistory(i) == Lines(LAMBDA h : h.entry_id = i) # {}

(* Mutant: the first line of the entry is taken. *)
FirstRecord(i) ==
    LET mine == Lines(LAMBDA h : h.entry_id = i)
    IN  CHOOSE h \in history[CHOOSE n \in mine : \A m \in mine : n <= m] : h.entry_id = i

LastRecord(i) == FindLast(LAMBDA h : h.entry_id = i)

(* find_history_by_idempotency_key *)
KeyInHistory(k) == Lines(LAMBDA h : BoundRequestHash(h.entry, k) # None) # {}
LastRecordOfKey(k) == FindLast(LAMBDA h : BoundRequestHash(h.entry, k) # None)

-----------------------------------------------------------------------------
(* Expiry sweep and commit. *)

(* sweep_expired_entries: the waiting entries past their deadline. *)
Swept ==
    {i \in DOMAIN entries :
        /\ entries[i].status = "Pending"
        /\ HasDeadline(entries[i])
        /\ now > ExpiryDeadline(entries[i])}

Kept == DOMAIN entries \ Swept

SweptRecords == {Finished(i, entries[i], "Dropped") : i \in Swept}

(* Mutant: the order of the Vec is not saved. *)
CommitLosingOrder(newEntries, newPlace, newGenerations, finished) ==
    /\ history' = IF finished = {} THEN history ELSE Append(history, finished)
    /\ entries' = newEntries
    /\ place' = place
    /\ generations' = newGenerations
    /\ left' = left \cup finished

(* append_history, then save_queue_state. *)
Commit(newEntries, newPlace, newGenerations, finished) ==
    /\ history' = IF finished = {} THEN history ELSE Append(history, finished)
    /\ entries' = newEntries
    /\ place' = newPlace
    /\ generations' = newGenerations
    /\ left' = left \cup finished

(* append_history, in full or cut short, and then nothing: the process or  *)
(* the machine stops before the rename, or a write fails.                  *)
Interrupt(finished) ==
    /\ finished # {}
    /\ Len(history) < MaxHistory
    /\ history' = Append(history, finished)
    /\ UNCHANGED <<now, minted, entries, place, generations, issued, left>>

(* A call that changes nothing but what the sweep drops: a replayed receipt, *)
(* queue/next_deadline, a hand-out that finds nothing.                     *)
CommitSweep ==
    /\ Swept # {}
    /\ Commit([i \in Kept |-> entries[i]], Reindex(place, Kept),
              generations, SweptRecords)
    /\ UNCHANGED <<now, minted, issued>>

(* The swept entries are written in the order of the Vec, in one write that *)
(* can stop anywhere.                                                      *)
InterruptedSweep ==
    \E n \in 1..Cardinality(Swept) :
        Interrupt({Finished(i, entries[i], "Dropped") : i \in FirstN(Swept, n)})

Tick ==
    /\ now < MaxTime
    /\ now' = now + 1
    /\ UNCHANGED <<files, issued, left>>

(* An empty project, or one upgraded from an older queue. *)
FilesInit ==
    /\ now = 0
    /\ history = <<>>
    /\ generations = [s \in Subjects |-> 0]
    /\ issued = {}
    /\ left = {}
    /\ \E q \in Leftovers :
          /\ minted = Len(q)
          /\ entries = [i \in 1..Len(q) |-> q[i]]
          /\ place = [i \in 1..Len(q) |-> i]

=============================================================================
