# A formal model of animus-queue-default

TLA+ modules of the file-backed dispatch queue in `src/`, the TLC runs that check them on
small instances, and TLAPS proofs of what holds for every instance.

## 1. The system

`animus-queue-default` is one executable. A host (the Animus daemon or CLI) starts it, talks
JSON-RPC to it over stdin and stdout, and may start several at once on one project. All lasting
state is in three files under `<project_root>/.animus/`: `queue.json` (live entries in queue
order, one generation counter per subject), `queue-history.jsonl` (a line per finished entry,
kept forever) and `queue.lock` (an exclusive lock held for each read-modify-write).

| Part | Source | State | Operations |
|---|---|---|---|
| Entry and ticket | `dispatch_queue_state.rs`, helpers of `fenced_queue.rs` | the fields of an entry | status, lease and deadline questions, `execution_fence`, `exact_fence_matches` |
| File store | `dispatch_queue_store.rs` | `queue.json`, `queue.lock` | lock, load (with migration of old files), save (temp file, fsync, rename, directory fsync) |
| History | `queue_history.rs` | `queue-history.jsonl` | append and fsync, search for the last line of an entry or of an idempotency key |
| Ticketed calls | `fenced_queue.rs` | none of its own | `queue/v2/enqueue`, `lease`, `lease/renew`, `lease/recover`, `completion`, `release_pending` |
| Old-style calls | `queue_service.rs` | none of its own | `queue/enqueue`, `list`, `lease`, `stats`, `next_deadline`, `hold`, `release`, `release_pending`, `drop`, `reorder`, `mark_assigned`, `completion`; the expiry sweep and the commit used by all calls |
| Request hash | `request_hash.rs` | none | the content an idempotency key is bound to |
| Subject identity | `identity.rs` | none | legacy key and canonical id of a subject |
| Plugin loop | `plugin.rs`, `main.rs`, `lib.rs` | the project root bound by `initialize` | framing, one task per request, `initialize`, `exit` |
| Host check | `host_guard.rs` | none | refuses hosts older than 0.7 |
| Ticket length | `lease_ttl.rs` | none | reads `ANIMUS_QUEUE_LEASE_TTL_SECS` |

How they interact: the plugin loop gives each request a task; a task calls one handler; the
handler takes the lock, loads `queue.json`, mostly sweeps expired entries first, changes the
state in memory and commits: history lines first, then `queue.json`. There are no callbacks and
no state between calls except the files, so two handlers never overlap on one project, in one
process or several. What interleaves is whole calls, and crashes inside a commit.

What is hard:

- *Tickets outlive what they name.* Daemons stall, crash, retry and answer late. A ticket can
  be presented after a takeover, after a put-back and another hand-out, after the entry
  finished, any number of times.
- *Two generations of callers.* Old-style calls carry no ticket and meet ticketed calls on the
  same entries; queues of v0.3.3 come with running entries and no tickets at all.
- *A commit is two writes.* A crash between them leaves a history line for an entry that is
  still live. Later finishes add more lines. Retries, receipts and the next generation all read
  the history or the counters.
- *One call, several entries.* A hand-out identifies and leases up to five entries in a loop
  whose later decisions read its earlier ones (branch in use, next generation, workflow ids).
- *Time.* Expiry, deferral, deadlines; a renewal, a takeover and a "done" can meet at an expiry.

What makes each part correct:

- *Entry and ticket:* a ticket names one run of one entry; only the latest ticket works.
- *Store:* a commit happens in full or not at all; nothing is lost or renumbered.
- *History:* the last line of an entry that left the queue is the finish that took effect.
- *Ticketed calls:* no two tickets of one entry share a generation; a live ticket is not
  stolen; a daemon that says "done" twice is told the same; a key always gives the same
  receipt; one branch is never in two running entries; a subject's generations never repeat.
- *Old-style calls:* they neither start nor end the run of a ticketed entry without a ticket,
  other than by finishing or dropping it; an unexpired old-style lease is not handed out again;
  the order is first in, first out, unless somebody reorders.
- *Plugin loop:* every call runs against the project it was sent for, and is answered.

`PROJECT.json` lists the hazards line by line with the properties that cover them.

## 2. The modules

```
DispatchQueueState   entries, tickets and the pure questions asked of them
  QueueFiles         queue.json, queue-history.jsonl, the clock, crashes, the sweep, the commit
    FencedQueue      the calls queue/v2/*; FencedSpec: ticketed callers only
      QueueWithDaemon  with the daemons that use it, for liveness
      RollbackQueue    with v0.3.3 rewriting the queue in between
    QueueService     the old-style calls
      AnimusQueue    both together; Spec: the whole queue, also over leftovers of v0.3.3
        QueueLife    the whole queue under any clock, implements EntryLife
EntryLife            what the queue promises about one entry (abstract)
StoreCommit          one commit, call by call to the operating system; implements AtomicQueue
AtomicQueue          what the two files together promise (abstract)
PluginLoop           one process: tasks, binding, workers, the lock, answers, exit
FrameReader          the reader of stdin
Identity             canonical ids of subjects
HostGuard            which Animus versions are served
*MC                  small instances of each for TLC
AnimusQueueProofs, TicketProofs, LifeProofs, StepProofs, RollbackProofs     theorems on the queue
StoreProofs, LoopProofs, PluginProofs                              on the files and the process
```

State and code:

| Variable | In the code |
|---|---|
| `now` | `Utc::now()`, in ticks |
| `entries`, `place` | the `Vec<DispatchQueueEntry>` of `queue.json`: the entry by id, and its index |
| `minted` | entry ids (UUIDs) given so far; the n-th id is n |
| `generations` | `subject_generations` of `queue.json` |
| `history` | `queue-history.jsonl`: a sequence of appends, each a set of records |
| `issued` | outside the queue: every ticket a reply carried; whoever has one may send it |
| `left` | ghost, read by properties only: the finishes that took effect |

Actions and code. Every call that changes a file is an action with the name of its Rust method
(`EnqueueV2`, `LeaseV2`, `RenewLease`, `RecoverLease`, `CompletionV2`, `ReleasePendingV2`;
`Enqueue`, `Lease`, `NextDeadline`, `Hold`, `Release`, `DropEntry`, `MarkAssigned`, `Completion`,
`ReleasePending`, `Reorder`). The early returns of `fenced_mutation` are the value of
`FencedMutation(f, op, newOwner)`, in the order of the code; a call that is refused writes
nothing, so it is a stuttering step, and properties can ask what any ticket would be answered.
The sweep a handler starts with is part of its action: `Kept` is what the handler works on,
`Swept` goes to the history with the commit.

- *Hand-out.* The loop of `lease_v2` is stated as the one set `L` of entries it hands out:
  whether the loop reaches an entry (`Reached`), gives it identity (`Identified`), which
  generation (`GenerationOf`) and whether something blocks it (`Blocked`) depend only on the
  members of `L` ahead of it, so `L` exists and is unique.
- *Crashes.* `Interrupt` is a commit that stops after its history lines (or, for a sweep's
  batch, after some of them: `InterruptedSweep`). It covers a process killed there, and a write
  that fails, where the caller gets an error. Memory is lost with nothing to restore, because a
  call keeps nothing. `InterruptedCompletionV2`, `InterruptedCompletion` and `InterruptedDrop`
  are the other finishes that can stop there. In `fenced_mutation`, `mark_assigned` and the
  calls on one entry, nothing is swept.
- *The clock before the lock.* `mark_assigned` reads the clock before it waits for the lock, so
  `MarkAssigned(i, w, called)` takes any earlier instant `called`.
- *Callers.* Any ticket ever issued may be presented at any time by anyone, in any order and
  repeatedly; that covers lost, duplicated and late messages and any number of daemons. Exclude
  lists are arbitrary sets of issued tickets.

### The other modules

- *`StoreCommit`* opens up what the modules above take as one step. A process has a `pc` with one
  value per file operation of `acquire_queue_lock`, `load_queue_state`, `append_history` and
  `save_queue_state`, in the order of the code (`ensure_state_dir` comes before the lock). The
  file system is what processes see (`Seen`, `history`) and what is durable (`disk`, the first
  `synced` tokens of the history); `pending` holds the directory changes in between, numbered in
  the order in which they were made. `PowerLoss` keeps a set of them that is in `Cuts` (any, or if
  `disk.ordered` any prefix) and any part of the unsynced history. `Stop` is a kill, and equally an
  operation that fails. A history line is three
  tokens, so it can be torn twice. File contents are flushed before their rename, so a renamed
  file is whole.
- *`PluginLoop`* follows each request through its `stage`. Handlers have no await between
  `require_backend` and their answer, so a task that works or waits for the lock keeps a worker
  thread (`Busy`); every call opens `queue.lock` anew, so calls of one process exclude each other.
  After `EndOfInput` the runtime drops what is not on a worker; `Exit` drops everything.
- *`FrameReader`* is the loop that `Spawn` abstracts: chunks, the buffer, white space, complete
  frames, unfinished ones, and the search for the next newline after an invalid one. A half frame
  is a token, and `"key"` one that a following value can continue.
- *`Identity`* takes strings as token sequences and follows a subject through producers that
  qualify, shorten and pad it.
- *`HostGuard`* states the order of semantic versions and `check_host` on it, and a machine whose
  Animus only gets newer.
- *`QueueWithDaemon`* adds daemons as the README and `docs/releases/v0.4.0.md` describe them:
  tickets are stored when the reply arrives, survive a restart, and are used for renewals,
  completion, put-back and takeover. `Age` brings all instants closer instead of advancing `now`,
  so that endless behaviours have finitely many states.
- *`RollbackQueue`* adds v0.3.3, which drops the fields it does not know: tickets and counters
  restart. Holder ids do not repeat, as README.md:36 has it.
- *`QueueLife`* adds two things to `AnimusQueue`: the clock may be set back (`SetBack`), and
  `mark_assigned` may have read it before that (`LateMark`).

The abstract specifications are short on purpose. `EntryLife` says what may become of one entry:
it waits, runs under one lease at a time, is put back, taken over after its expiry, finished once,
and gone for good; generations count its ticketed leases. `QueueLife` maps the whole queue to it
for an arbitrary entry `Watched`. `AtomicQueue` says what a caller may believe of the files: live
and done entries change together, and what it was told of survives. `StoreCommit` maps to it by
what processes see: `live` is the visible `queue.json`, `done` the readable lines of entries that
are not in it.

## 3. Runs

`CHECK_DEADLOCK FALSE` in all runs but those of `StoreCommit`: the instances bound ids, the clock,
hand-outs, crashes, requests or input, so they really run out of steps (a queue with nothing to do
is also allowed to stop). In `StoreCommit` a process can always list, and TLC checks that nobody
waits for the lock for ever. The bounds are `MaxTime`, `MaxEntries` (the id up to which adds
mint), `MaxHistory` (batches up to which a crash may come), `MaxLeaseGeneration`, `MaxExclude` and
`MaxOldBatch`. `ScanFloor = 50` and `ScanPerSlot = 10` are the code's own numbers.

| Run | Question | Instance, and why it is enough |
|---|---|---|
| `mixed` | Are old tickets dead, live ones safe and "done" remembered, when every old-style call interferes? | all calls on one entry, immediate or deferred with a deadline; two daemons, two workflow ids, renewals shorter and longer than the ticket, instants 0..4, three lease generations, one excluded ticket, one crash: hand-out, expiry, takeover and a second takeover or hand-out fit, with the history line of an interrupted finish before any of them |
| `receipts` | Does a key always give the receipt it gave first? Is a subject in the queue once? | one subject, two keys, two contents (one that expires at once), three entries, up to three crashes: a key can be bound to a waiting, running, swept, finished or half-finished entry, and to an entry another key made |
| `life` | Does the queue implement `EntryLife`? Are twins told apart, leftover runs left alone, and the order kept? | a project that is new (then two entries of one subject, added by callers of both kinds), or holds a run of v0.3.3 and an entry put back with its workflow id, or three entries without a dispatch, of a status this version does not know, and held; hand-outs of two, the clock 0..2 going both ways, two lease generations, reorder lists of every length, repeats included |
| `rollback` | Do tickets of before a rollback work after it? | one subject, three holders, two entries, two rollbacks, so that a ticket and an entry can agree in all their numbers |
| `daemon` | Does every entry leave the queue? What does a lost reply keep? Has a branch one run? | three entries, two subjects on one branch and one on none, polls for one and two, a daemon that asks for work (`Pollers`) and one that takes over, put-backs, one lost reply, a scan window as large as the request |
| `store` | Do the two files change as one, and does what was answered survive? | two processes, two ids, finishes of two, seven tokens of history: migration and add, a torn line and the append after it, power loss anywhere; a new project or an old queue without ids on a file system that orders its directory changes, a project in use on one that does not |
| `loop` | Does a call work on a project it may work on? Is every request answered? | two projects, two workers, three requests, another process on the lock: two initialize and a call fit, and all workers can wait for the lock at once |
| `frames` | Is a request lost at the edge of a read, or behind a broken line? | all 2401 streams of four lines of seven kinds, reads of one, two, three and five tokens |
| `hosts` | Are exactly the right hosts served, and do upgrades keep that? | protocols 1.0 to 1.2 and versions 0.6 to 1.0, patches 0 and 1, four pre-releases, missing ones: every limit has neighbours on both sides |
| `identity` | Do all spellings of a subject have one canonical id? | all ids of up to three tokens, padded up to five, under eight kinds |

`ScanFloor` and `ScanPerSlot` are 1 in `daemon`, so that the scan window ends inside a queue of
three. `MaxTime` is not used there, `Age` takes its place.

Two more runs find a disagreement between the documentation and the code:

- `repeated_enqueue`: the doc comment of `enqueue` (`queue_service.rs:85-86`) says an immediate
  enqueue of a subject with a live entry is a no-op. The code pushes another entry and warns; a
  comment inside the function agrees with the code.
- `finish_twice`: a completion that is cut off between the rename of `queue.json` and the flush of
  `.animus/` is visible but not durable. A retry reads the history line, is answered
  `already_applied` and flushes nothing; power loss then brings the entry back, against README.md:84
  ("Changes survive a machine crash"). The property `CommittedSurvives`, about answers to the
  call that made the change, holds (`store`).

Where the models say less, or the code other, than the documentation, and no run is kept for it:

- `ensure_state_dir` runs before the lock and flushes the project root only if it made `.animus`
  itself. A second process that finds the directory there relies on a flush the first has yet to
  make. Only the first calls on a new project are exposed, on a file system that does not order
  its directory changes (`Cold` with `ordered |-> FALSE` violates `CommittedSurvives`); `store`
  therefore starts such file systems with a project in use, and shows that the others are safe. It
  is not only a race: if the first process is killed, the flush never comes.
- In the same way `append_history` flushes the directory only if it created the history file itself
  (`queue_history.rs:119,141`). If the creator is killed before that flush, the next append relies on
  a directory entry nobody flushed. On a disk that may write the rename of `queue.json` before it,
  power loss between that rename and the flush after it leaves neither an entry nor its history
  line, although its add was answered: `StoreCommit` over such a disk with `.animus` and no history file
  (`dir |-> TRUE, made |-> FALSE`) violates `CommittedSurvives` after 24 steps. Where directory changes
  are written in order this cannot happen, which `store` checks and `CommitsSurvive` proves.
- README.md:100 says re-binding needs a restart; a second `initialize` re-binds, and
  `BindingIsAtomic` says what calls may then expect.
- The sweep records that an entry expired "before the entry was leased" (`queue_service.rs:871`).
  It also drops an entry that was handed out in time and put back after (`Swept` asks only for the status and the deadline).
- `identity.rs:38` says both parts are trimmed; the kind is trimmed after its short name was
  looked up, so a padded `animus.task` is another kind. `PadKind` does not pad kinds that have a short name.

Each property of a passing run has a mutant in `PROJECT.json`: a plausible bug in one
definition (the operators commented "Mutant:") that makes TLC find the property violated.

*Fairness.* The queue does nothing on its own: an expired ticket stays as it is until a daemon
takes it over, a due entry until one asks. The safety runs assume none. Two runs do:

- `loop` (`PluginLoop!Fairness`): the reader reads what was sent, the runtime polls every task
  that can go on (tokio's scheduler is fair to woken tasks), and another process that holds the
  lock lets go of it, which `Stop` in `StoreCommit` shows even for one that dies. Requests are
  bounded, so waiting for the lock with others needs no more than weak fairness.
- `daemon` (`DaemonFairness`): a daemon keeps polling and some reply arrives, work ends and is
  reported, and time passes. Weak fairness on each; renewing, putting back and taking over need
  not happen. `OnlyOrphansStay` needs no more. `EveryEntryLeaves` is stated under `OperatorCares`
  as well: somebody drops an entry whose ticket is lost some time. How often an entry is put back
  is bounded by `MaxLeaseGeneration`: a daemon that puts an entry back for ever keeps it for ever.

*Symmetry* is used on owners, workflow ids, keys and processes where no definition of the instance
tells them apart, and never with liveness. The leftovers of `life` name workflow ids; exchanging
them gives the queues with the ids exchanged, which behave the same.

## 4. Proofs

`AnimusQueueProofs` proves `TypeCorrect == Spec => []TypeOK` for all constants that satisfy the
modules' assumptions: any subjects, daemons, contents, leftovers, batch size and bounds. `TypeOK`
alone is not inductive, because the new counter of a hand-out is the highest of the old one and
the live generations plus the number identified. `TypeInv` adds `GenerationsDominate` (no live
entry is ahead of its subject's counter), under which the code's maximum is the counter itself.
The lemmas before it say what indexing, the first n, the history search and the generation
operators return; one lemma per handler follows, then the induction.

`TicketProofs` proves of the whole queue, old-style callers included:

| Theorem | Statement |
|---|---|
| `TicketGenerationsAreUnique` | `Spec => []TicketsUnique` |
| `TicketsContinueOneRun` | `Spec => []OneWorkflowPerEntry` |
| `TicketedRunsAreHeld` | `Spec => []RunningTicketedHasTicket` |
| `SupersededTicketsAreInert` | `Spec => []SupersededTicketIsInert` |

None of the four is inductive alone. `TicketInv` joins them through `TicketsMatchEntries`: every
ticket names a minted id; while its entry lives it names the entry's run and is not ahead of the
entry's lease generation, and a ticket level with it is the entry's current one. Every step is
one of two kinds. A *quiet* step (lemma `QuietStep`) issues no ticket: each entry keeps what its
tickets name (`KeepsTicket`) and no ticketed entry starts to run, or the entry is new and waits.
A *minting* step (`MintingStep`: hand-out and takeover) issues a ticket one generation above its
entry's. Each handler has a lemma that says which kind it is; that is where the old-style calls'
`is_ticketed` checks and the kept workflow id of a put-back are needed. `SupersededTicketIsInert`
follows from the invariant and the exact match alone: an earlier ticket is below its entry's
generation.

Assumptions: only the ASSUMEs of the modules (`ConstantsAssumption`, `FilesAssumption`,
`FencedAssumption`, `ServiceAssumption`, `SameTtl`, `WatchedAssumption`, `RollbackAssumption`,
`StoreAssumption`, `LoopAssumption`, `ReaderAssumption`, `HostsAssumption`, `IdentityAssumption`), which TLC
evaluates in every run. They say that `None` is none of the values, that leftovers are queues
v0.3.3 can write, that the ticket length is positive, that old-style leases and tickets last
equally long, that a disk starts with what a project can have, and that requests are named in
their order. `MaxLeaseGeneration`, `MaxTime` and the other bounds are arbitrary numbers in the
proofs. Five theorems below have a hypothesis that is part of their statement (`LeftoversWait`,
`DisksReady`, `KindsSpelled`); the instances of their runs satisfy it.

`LifeProofs` proves, for `ClockSpec`, the whole queue under a clock that may be set back:

| Theorem | Statement |
|---|---|
| `QueueImplementsLife` | `ClockSpec => ImplementsLife` |
| `TicketsHoldUnderAnyClock` | `ClockSpec => []SupersededTicketIsInert` |

The refinement is proved without looking at more than one entry: `EntriesFollow` says that a step
leaves the clock alone, makes at most one entry, which is new and waits, and changes each entry
that stays in one of the ways of `EntryLife` (`Moves`: rest, start, prolong, change hands, put
back, and the three of the old style). `LifeStep` turns that into a step of `EntryLife` for the
watched entry, whichever it is; one lemma per handler shows `EntriesFollow`. The invariant
they need is `LifeInv`: the two invariants above, and that an entry without identity has no
lease generation (`AllUncounted`). A step of the clock changes no entry and is `Pass`; that
the ticket invariant never mentions the clock is why tickets hold under any.

`StepProofs` proves the rest of what the runs check of the queue, again for `ClockSpec` (the last
one for `FencedSpec`, where all callers use tickets):

| Theorem | Statement |
|---|---|
| `CountersNeverFall` | `ClockSpec => NothingMovesBack` |
| `LiveTicketsAreNotStolen` | `ClockSpec => LiveTicketNotStolen` |
| `TicketedRunsMoveByTicket` | `ClockSpec => TicketedEntriesMoveByTicket` |
| `OldLeasesAreKept` | `ClockSpec => OldLeaseKept` |
| `OrderIsKept` | `ClockSpec => OrderKept` |
| `BranchesAreExclusive` | `ClockSpec => []BranchExclusive` |
| `LastLinesHold` | `ClockSpec => []LastLineTookEffect` |
| `DoneHolds` | `ClockSpec => []DoneStaysDone` |
| `SubjectGenerationsAreUnique` | `ClockSpec => []SubjectGenerationsUnique` |
| `ReceiptsHold` | `ClockSpec => ReceiptNeverChanges` |
| `SubjectsHaveOneEntry` | `LeftoversWait => (FencedSpec => []OneEntryPerSubject)` |

Eleven properties over sixteen handlers would be a proof per pair. Instead `StepShape` describes a
step by what it does to what is there: what an entry that stays keeps (`EntriesInherit`), what is
recorded of one that goes (`Records`), which tickets, identities and keys are new (`NewTickets`,
`NewIdentities`, `NewKeys`), that a reservation starts on a free branch (`BranchesFree`) and where
entries are placed (`PlacesFollow`). One lemma per handler shows its shape (`LifeShape` collects
them), and each theorem looks at the shape only. The action properties follow from it at once; the
invariants need strengthening:

- `BranchExclusive` needs that the order is one (`PlaceInv`: no two entries share a place, so of two
  entries of a batch one is decided on first) and that reservations are of ticketed entries only
  (`RepositoriesTicketed`), or an old-style hand-out could start a second run on a branch.
- `LastLineTookEffect` and `DoneStaysDone` rest on `HistInv`: an entry that left is accounted for by a
  finish in `left` whose line is the last of that entry, and nothing appends for it again.
  Entries still in the queue may have any number of lines of half-done finishes.
- `SubjectGenerationsUnique` is inductive once the types and the order are known (`GenerationsDominate`
  of `TypeInv` puts each counter ahead of what is live; entries of one batch are counted up in
  their order). It speaks of all identities ever given, so a step may
  only give generations above the recorded counter.
- `ReceiptNeverChanges` needs `KeyInv`: all receipts of a key, in live entries and in the lines of
  finished or half-finished ones, are equal, so it does not matter which the code finds first.
- `OneEntryPerSubject` is the one property with a hypothesis: `LeftoversWait`, an older queue has for
  each subject at most one entry, which waits or is held. Without it a subject can come with two
  entries, and one that runs under v0.3.3 does not stop a ticketed add by design. With it every
  live entry stops a further add (`SubjectInv`).

`RollbackProofs` proves `OldTicketsStayInert == RollbackSpec => []OldTicketsInert` and `RollbackTypes`. After a
rollback an entry and an old ticket may agree in every number, so the ticket invariant is gone.
What is left is the holder: `RollbackInv` says that an entry with a lease generation is held by
nobody whom a ticket of before names (`NewHolder`), and that entries without identity have none.
That holder ids do not repeat is a guard of the environment (`NewHolders`), as README.md:36 has it.

`StoreProofs` opens the commit up:

| Theorem | Statement |
|---|---|
| `CommitsAreAtomic` | `DisksReady => (Spec => AtomicSpec)` |
| `CommitsSurvive` | `DisksReady => (Spec => []CommittedSurvives)` |
| `FlushedLinesStayReadable` | `DisksReady => (Spec => LinesStayReadable)` |
| `StoreTypes` | `Spec => []TypeOK` |

The argument is about every disk a power loss could leave at this moment: `Images` are the
disks that `Cuts` allows, `Durable` the records all of them keep. `StoreInv` says of each image
that it has no files without `.animus` and has both once something is durable (`DiskInv`), that
what is in its older queue and not in the current one is in the history (`LinesInv`), and that all
answers hold on it (`AnswersInv`); and of each process what it has established by its current
operation (`ProcInv`): before the rename what it finishes is `Durable`, after the rename only the
directory flush is missing. A file operation can only add an image (`Note`) or remove some
(`Flush`), so one lemma per operation is enough, and a power loss picks one image. The history is
kept `WellFormed` (lines begin on fresh lines, only their own open half is closed), under which
the reader's search comes down to the close halves (`ReadableIsClosed`): that is the invariant on
torn lines. In the refinement only the rename changes what `AtomicQueue` sees; a loss of power is
its step back to an image, which it allows as long as answers survive. `DisksReady` says that a
disk that does not order its directory changes is one of a project in use; without it
`CommittedSurvives` is false, as section 3 says.

`LoopProofs` proves `BindingActsAtomically == Spec => []BindingIsAtomic` and `LoopTypes`. `LoopInv` adds that
requests are numbered as they are sent and hold a root while they work (`StageInv`), that answers
keep step with stages (`AnswerInv`), and that what is bound now was bound by an accepted `initialize`
after whose answer no other one has run (`BackendInv`).

`PluginProofs` has what stands before that:

| Theorem | Statement |
|---|---|
| `ReaderTypes` | `FrameReader!Spec => []TypeOK` |
| `RequestsAreNotLost` | `FrameReader!Spec => []NoRequestLost` |
| `UpgradesKeepTheQueue` | `HostSpec => UpgradeKeepsQueue` |
| `CandidatesAreServed` | `HostSpec => []CandidatesCount` |
| `SubjectStaysOne` | `KindsSpelled => (IdentitySpec => OneSubject)` |

`ReaderInv` follows the place up to which the stream is consumed (`Done`): the buffer is the stream
from there to where it was read (`BufferInv`); each whole request that begins a line before that
place is a task (`Handled`), even one whose end is still to come; a reader that waits holds no whole one, unless a torn
`"key"` is in front of it (`Waits`); and tasks were made in the order of the stream (`InTurn`).
The heart is `OnlyTheFirst`: a request that begins a line is at the front of the buffer or has its
newline in front of it there. One at the front is not invalid (`FirstIsNotInvalid`), so dropping
an invalid value up to the next newline passes over none.

For the version check `NewerPassesLimit` is the heart: transitivity of the version order through
one of the three limits, which needs no induction over pre-release identifiers, because nothing
but a release is as late as a release (`ReleaseIsLast`) and everything is as late as `<<0>>`
(`ZeroIsFirst`).

For canonical ids everything is about strings of any length. A trimmed string is the slice between
its first and last ink (`Spans`, `TrimFrom`), and white space outside moves the slice, not its
content (`PadKeeps`). `Qualified` says that an id made of any ASCII case of the kind, a colon and a
native id is trimmed, begins with its kind and gives the native id back. The invariant
`SpellingInv` is that the name of the kind is not a long name. It needs `KindsSpelled`: no producer
sends `animus.task` or `animus.requirement` with white space around it. The code looks short names up
before it trims (`identity.rs:43-48`), so such a kind is another kind, and its name, sent on, is yet
another.

Only model-checked: the liveness properties `EveryRequestAnswered`, `EveryEntryLeaves` and `OnlyOrphansStay`.
Liveness under fairness, ENABLED, induction over data and recursive operators (the modules have
none) are out of the prover's reach.

## 5. Not modelled

- *Legacy keys and canonical ids together.* `Identity` models the canonical id. In the queue modules
  a subject is one value; two subjects that share a legacy key, or an old-style exclude list that
  names one spelling of a subject, are not distinguished.
- *The ticket length setting* (`lease_ttl.rs`): parsed once per `initialize`; `LeaseTtl` is any
  positive number.
- *Damage:* an entry with some ticket fields missing (`lease_v2` refuses the call), a
  `format_version` this build does not know, a file that does not parse.
- *Inside the operating system:* a directory change that survives without an earlier one on
  file systems with `disk.ordered`; blocks of `queue.json` (it is flushed before its rename); a disk
  that lies about fsync; the file `queue.lock`, which carries no data.
- *Reading:* `list`, `stats` and the answer of `next_deadline` change nothing beyond the sweep.
- *The plugin's flags and manifest,* and the encoding of answers.
- *Values:* the expiry printed in a ticket (no check reads it), reported timestamps, the audit
  log, wording, hashes (equal hashes are taken to mean equal contents), the order of records
  written by one append (no two are of one entry). In old-style completion the comparison of the
  workflow name can only make the call find nothing, so it is left out. A ticketed add without
  `run_at` but with `expire_after_secs` behaves as one without both.

## 6. Plan

Done: the core, the two refinements, the plugin loop and reader, the host check, canonical ids,
the daemon, rollback and a clock that is set back, and theorems of all safety properties. What is
left, in order of worth:

1. Legacy keys beside canonical ids in the queue modules: an old-style and a ticketed entry of one
   subject under two names, and `exclude_subjects` against both.
2. Damaged entries: ticket fields partly missing, against the refusal in `lease_v2`.
3. `BranchExclusive` as a theorem of `DaemonSpec` too, whose `Age` moves all instants and is no step of
   `ClockSpec`.
