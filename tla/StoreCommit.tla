----------------------------- MODULE StoreCommit -----------------------------
(***************************************************************************)
(* One commit, call by call to the operating system                        *)
(* (src/dispatch_queue_store.rs, src/queue_history.rs).                    *)
(*                                                                         *)
(* The other modules treat a handler as one step.  Here a handler is the   *)
(* sequence of file operations it makes, several plugin processes run them *)
(* at once, a process may be killed or see an operation fail anywhere, and *)
(* the machine may stop.  What a process sees is always up to date; what   *)
(* survives the machine is `disk` plus any part of `pending` the operating *)
(* system happened to write by itself.                                     *)
(*                                                                         *)
(* disk.ordered says which file system: TRUE is one that writes directory  *)
(* changes in order, so that an fsync of anything just written also writes *)
(* all earlier ones (ext4, XFS, APFS); FALSE is what POSIX alone promises: *)
(* each directory's changes are written by an fsync of that directory.     *)
(***************************************************************************)
EXTENDS Naturals, FiniteSets, Sequences

CONSTANTS
    Procs,       \* plugin processes on this project root
    Unnamed,     \* an entry of an old queue file that has no entry_id yet
    Nobody,      \* nobody holds queue.lock
    Disks,       \* what may be on disk at the start
    MaxIds,      \* bound: entry ids minted
    MaxBatch,    \* bound: entries one call names
    MaxLines     \* bound: tokens in queue-history.jsonl

Ids == 1..MaxIds

VARIABLES
    disk,        \* durable: .animus there, history file there, queue.json
    pending,     \* directory changes made since, not known to be durable,
                 \* numbered in the order in which they were made
    history,     \* queue-history.jsonl as processes see it: tokens
    synced,      \* how many of those tokens are durable
    lock,        \* the holder of queue.lock
    minted,      \* entry ids minted so far
    pc,          \* the next file operation of each process
    work,        \* its local variables
    promised,    \* outside: ids a caller was given by the call that saved them
    settled,     \* outside: finishes a caller was told its own call made
    repeated     \* outside: finishes a caller was told were made before

files == <<disk, pending, history, synced>>
answers == <<promised, settled, repeated>>
vars == <<files, lock, minted, pc, work, answers>>

Disk == [ordered : BOOLEAN, dir : BOOLEAN, made : BOOLEAN, queue : SUBSET (Ids \cup {Unnamed})]

Change == [op : {"mkdir", "creat"}] \cup
          [op : {"rename"}, queue : SUBSET (Ids \cup {Unnamed})]

(* A history line is an open half, a close half and a newline. *)
Token == {"open", "close"} \X Ids \cup {<<"newline", 0>>}
Newline == <<"newline", 0>>

Call == [op : {"Add", "List"}] \cup
        [op : {"Finish"}, ids : {S \in SUBSET Ids : Cardinality(S) \in 1..MaxBatch}]

Steps == {"idle", "mkdir", "sync_root", "flock", "load", "open",
          "end_line", "write", "fsync", "sync_new", "save", "rename", "sync_dir",
          "reply"}

Holding == {"load", "open", "end_line", "write", "fsync", "sync_new", "save",
            "rename", "sync_dir", "reply"}

NoWork == [call |-> [op |-> "List"], next |-> {}, left |-> <<>>, created |-> FALSE,
           after |-> "reply", added |-> {}, finished |-> {}, found |-> {}]

Work == [call : Call, next : SUBSET (Ids \cup {Unnamed}), left : Seq(Token),
         created : BOOLEAN, after : {"load", "reply"},
         added : SUBSET Ids, finished : SUBSET Ids, found : SUBSET Ids]

ASSUME StoreAssumption ==
    /\ MaxIds \in Nat /\ MaxBatch \in Nat /\ MaxLines \in Nat
    /\ Unnamed \notin Ids /\ Nobody \notin Procs
    /\ \A d \in Disks : d \in Disk /\ d.queue \subseteq {Unnamed}
                        /\ (~d.dir => ~d.made /\ d.queue = {})

TypeOK ==
    /\ disk \in Disk
    /\ DOMAIN pending \subseteq Nat /\ pending \in [DOMAIN pending -> Change]
    /\ history \in Seq(Token)
    /\ synced \in 0..Len(history)
    /\ lock \in Procs \cup {Nobody}
    /\ minted \in 0..MaxIds
    /\ pc \in [Procs -> Steps]
    /\ work \in [Procs -> Work]
    /\ promised \subseteq Ids /\ settled \subseteq Ids /\ repeated \subseteq Ids
    /\ \A p \in Procs : pc[p] \in Holding <=> lock = p

-----------------------------------------------------------------------------
(* The file system. *)

Renames(K) == {k \in K : pending[k].op = "rename"}

Latest(K) == CHOOSE k \in K : \A m \in K : m <= k

(* The disk with the pending changes K applied in order. *)
With(K) ==
    [ ordered |-> disk.ordered,
      dir   |-> disk.dir \/ \E k \in K : pending[k].op = "mkdir",
      made  |-> disk.made \/ \E k \in K : pending[k].op = "creat",
      queue |-> IF Renames(K) = {} THEN disk.queue
                ELSE pending[Latest(Renames(K))].queue ]

(* What every process sees. *)
Seen == With(DOMAIN pending)

(* The sets of pending changes that the disk may have when power is lost.   *)
Cuts == {K \in SUBSET DOMAIN pending :
           disk.ordered => \A k \in K, m \in DOMAIN pending : m <= k => m \in K}

Note(change) ==
    LET n == IF DOMAIN pending = {} THEN 1 ELSE Latest(DOMAIN pending) + 1
    IN  pending' = [k \in DOMAIN pending \cup {n} |-> IF k = n THEN change ELSE pending[k]]

(* The changes that an fsync makes durable: of a directory in which ops were *)
(* made, or of a file just written (ops = {}, here = TRUE).                 *)
Flushed(ops, here) ==
    IF disk.ordered
    THEN {k \in DOMAIN pending : here \/ \E m \in DOMAIN pending : m >= k /\ pending[m].op \in ops}
    ELSE {k \in DOMAIN pending : pending[k].op \in ops}

Flush(ops, here) ==
    LET K == Flushed(ops, here) IN
    /\ disk' = With(K)
    /\ pending' = [k \in DOMAIN pending \ K |-> pending[k]]

SyncRoot == Flush({"mkdir"}, FALSE)          \* sync_dir(project_root)
SyncAnimus == Flush({"creat", "rename"}, FALSE)   \* sync_dir(.animus)
SyncFile == Flush({}, TRUE)                  \* sync_all of a file just written

(* The records a reader finds: lines that are one whole record.  The last   *)
(* line counts even without its newline.                                   *)
Readable(h) ==
    {i \in Ids : \E m \in DOMAIN h :
        /\ h[m] = <<"open", i>>
        /\ m = 1 \/ h[m - 1] = Newline
        /\ m < Len(h) /\ h[m + 1] = <<"close", i>>
        /\ m + 1 = Len(h) \/ h[m + 2] = Newline}

EndsWithoutNewline(h) == h # <<>> /\ h[Len(h)] # Newline

(* The lines of the entries in S, lowest id first. *)
LinesOf(S) ==
    LET Nth(n) == CHOOSE i \in S : Cardinality({j \in S : j < i}) = n - 1
        Part(n) == <<<<"open", n>>, <<"close", n>>, Newline>>
    IN  [k \in 1..(3 * Cardinality(S)) |-> Part(Nth((k + 2) \div 3))[((k + 2) % 3) + 1]]

-----------------------------------------------------------------------------
(* The steps of a handler. *)

Goto(p, step) == pc' = [pc EXCEPT ![p] = step]

(* A call arrives.  ensure_state_dir, before the lock: the directory is     *)
(* looked for ...                                                          *)
Begin(p) ==
    /\ pc[p] = "idle"
    /\ \E call \in Call : work' = [work EXCEPT ![p] = [NoWork EXCEPT !.call = call]]
    /\ Goto(p, IF Seen.dir THEN "flock" ELSE "mkdir")
    /\ UNCHANGED <<files, lock, minted, answers>>

(* ... and created, by this process or by another in the meantime, ... *)
Mkdir(p) ==
    /\ pc[p] = "mkdir"
    /\ IF Seen.dir THEN UNCHANGED pending ELSE Note([op |-> "mkdir"])
    /\ Goto(p, "sync_root")
    /\ UNCHANGED <<disk, history, synced, lock, minted, work, answers>>

(* ... and only who found it missing flushes the project root. *)
SyncProjectRoot(p) ==
    /\ pc[p] = "sync_root"
    /\ SyncRoot
    /\ Goto(p, "flock")
    /\ UNCHANGED <<history, synced, lock, minted, work, answers>>

(* Mutant: the lock is shared. *)
AcquireSharedLock(p) ==
    /\ pc[p] = "flock"
    /\ lock' = p
    /\ Goto(p, "load")
    /\ UNCHANGED <<files, minted, work, answers>>

(* lock_exclusive blocks while another process holds queue.lock. *)
AcquireQueueLock(p) ==
    /\ pc[p] = "flock"
    /\ lock = Nobody
    /\ lock' = p
    /\ Goto(p, "load")
    /\ UNCHANGED <<files, minted, work, answers>>

(* Migration: missing entry ids are minted and saved before anything else.  *)
LoadAndMigrate(p) ==
    /\ pc[p] = "load"
    /\ Unnamed \in Seen.queue
    /\ minted < MaxIds
    /\ minted' = minted + 1
    /\ work' = [work EXCEPT ![p].next = (Seen.queue \ {Unnamed}) \cup {minted'},
                            ![p].added = {minted'}, ![p].after = "load"]
    /\ Goto(p, "save")
    /\ UNCHANGED <<files, lock, answers>>

LoadForAdd(p) ==
    /\ pc[p] = "load"
    /\ Unnamed \notin Seen.queue
    /\ work[p].call.op = "Add"
    /\ minted < MaxIds
    /\ minted' = minted + 1
    /\ work' = [work EXCEPT ![p].next = Seen.queue \cup {minted'},
                            ![p].added = @ \cup {minted'}, ![p].after = "reply"]
    /\ Goto(p, "save")
    /\ UNCHANGED <<files, lock, answers>>

(* Any handler that finishes entries: completion, drop, sweep. *)
LoadForFinish(p) ==
    LET F == work[p].call.ids \cap Seen.queue IN
    /\ pc[p] = "load"
    /\ Unnamed \notin Seen.queue
    /\ work[p].call.op = "Finish"
    /\ F # {}
    /\ Len(history) + 1 + 3 * Cardinality(F) <= MaxLines
    /\ work' = [work EXCEPT ![p].next = Seen.queue \ F, ![p].left = LinesOf(F),
                            ![p].finished = F, ![p].after = "reply"]
    /\ Goto(p, "open")
    /\ UNCHANGED <<files, lock, minted, answers>>

(* Nothing to save: a list, or a finish of what is no longer queued, whose  *)
(* history line says that it was done.                                     *)
LoadOnly(p) ==
    /\ pc[p] = "load"
    /\ Unnamed \notin Seen.queue
    /\ \/ work[p].call.op = "List" /\ UNCHANGED work
       \/ /\ work[p].call.op = "Finish"
          /\ work[p].call.ids \cap Seen.queue = {}
          /\ work' = [work EXCEPT ![p].found = work[p].call.ids \cap Readable(history)]
    /\ Goto(p, "reply")
    /\ UNCHANGED <<files, lock, minted, answers>>

-----------------------------------------------------------------------------
(* append_history *)

OpenHistory(p) ==
    /\ pc[p] = "open"
    /\ work' = [work EXCEPT ![p].created = ~Seen.made]
    /\ IF Seen.made THEN UNCHANGED pending ELSE Note([op |-> "creat"])
    /\ Goto(p, "end_line")
    /\ UNCHANGED <<disk, history, synced, lock, minted, answers>>

(* Mutant: a torn last line is not looked for. *)
NoEndTornLine(p) ==
    /\ pc[p] = "end_line"
    /\ Goto(p, "write")
    /\ UNCHANGED <<files, lock, minted, work, answers>>

(* "Start on a fresh line so the new records stay readable." *)
EndTornLine(p) ==
    /\ pc[p] = "end_line"
    /\ history' = IF EndsWithoutNewline(history) THEN Append(history, Newline) ELSE history
    /\ Goto(p, "write")
    /\ UNCHANGED <<disk, pending, synced, lock, minted, work, answers>>

(* write_all: a kill may come after any part of the batch. *)
WriteLine(p) ==
    /\ pc[p] = "write"
    /\ work[p].left # <<>>
    /\ history' = Append(history, Head(work[p].left))
    /\ work' = [work EXCEPT ![p].left = Tail(@)]
    /\ UNCHANGED <<disk, pending, synced, lock, minted, pc, answers>>

(* Mutant: the history is not flushed before queue.json is replaced. *)
NoSyncHistory(p) ==
    /\ pc[p] = "write"
    /\ work[p].left = <<>>
    /\ Goto(p, "save")
    /\ UNCHANGED <<files, lock, minted, work, answers>>

SyncHistory(p) ==
    /\ pc[p] = "write"
    /\ work[p].left = <<>>
    /\ SyncFile
    /\ synced' = Len(history)
    /\ Goto(p, IF work[p].created THEN "sync_new" ELSE "save")
    /\ UNCHANGED <<history, lock, minted, work, answers>>

SyncNewHistory(p) ==
    /\ pc[p] = "sync_new"
    /\ SyncAnimus
    /\ Goto(p, "save")
    /\ UNCHANGED <<history, synced, lock, minted, work, answers>>

-----------------------------------------------------------------------------
(* save_queue_state *)

(* The temporary file is written and flushed. *)
WriteTmp(p) ==
    /\ pc[p] = "save"
    /\ SyncFile
    /\ Goto(p, "rename")
    /\ UNCHANGED <<history, synced, lock, minted, work, answers>>

(* Mutant: the answer goes out before the directory is flushed. *)
PublishAndReply(p) ==
    /\ pc[p] = "rename"
    /\ Note([op |-> "rename", queue |-> work[p].next])
    /\ Goto(p, work[p].after)
    /\ UNCHANGED <<disk, history, synced, lock, minted, work, answers>>

Publish(p) ==
    /\ pc[p] = "rename"
    /\ Note([op |-> "rename", queue |-> work[p].next])
    /\ Goto(p, "sync_dir")
    /\ UNCHANGED <<disk, history, synced, lock, minted, work, answers>>

(* A migrated file is loaded, then the call goes on with it under the same  *)
(* lock.                                                                   *)
SyncQueue(p) ==
    /\ pc[p] = "sync_dir"
    /\ SyncAnimus
    /\ Goto(p, work[p].after)
    /\ UNCHANGED <<history, synced, lock, minted, work, answers>>

(* The guard is dropped and the answer goes out. *)
Reply(p) ==
    /\ pc[p] = "reply"
    /\ lock' = Nobody
    /\ promised' = promised \cup work[p].added
    /\ settled' = settled \cup work[p].finished
    /\ repeated' = repeated \cup work[p].found
    /\ work' = [work EXCEPT ![p] = NoWork]
    /\ Goto(p, "idle")
    /\ UNCHANGED <<files, minted>>

-----------------------------------------------------------------------------
(* Faults. *)

(* The process is killed, or the operation it is about to make fails and   *)
(* the call is answered with an error: either way the lock is released and *)
(* what was done stays done.                                               *)
Stop(p) ==
    /\ pc[p] # "idle"
    /\ lock' = IF lock = p THEN Nobody ELSE lock
    /\ work' = [work EXCEPT ![p] = NoWork]
    /\ Goto(p, "idle")
    /\ UNCHANGED <<files, minted, answers>>

(* The machine stops.  Some of what was pending reached the disk, and some  *)
(* of the history past its last fsync; a directory that is lost takes what *)
(* is in it with it.                                                       *)
PowerLoss ==
    \E K \in Cuts :
        LET d == With(K) IN
        /\ disk' = IF d.dir THEN d ELSE [d EXCEPT !.made = FALSE, !.queue = {}]
        /\ \E n \in synced..Len(history) :
              /\ history' = IF d.dir /\ d.made THEN SubSeq(history, 1, n) ELSE <<>>
              /\ synced' = Len(history')
        /\ pending' = <<>>
        /\ lock' = Nobody
        /\ pc' = [p \in Procs |-> "idle"]
        /\ work' = [p \in Procs |-> NoWork]
        /\ UNCHANGED <<minted, answers>>

-----------------------------------------------------------------------------

Init ==
    /\ disk \in Disks
    /\ pending = <<>>
    /\ history = <<>> /\ synced = 0
    /\ lock = Nobody
    /\ minted = 0
    /\ pc = [p \in Procs |-> "idle"]
    /\ work = [p \in Procs |-> NoWork]
    /\ promised = {} /\ settled = {} /\ repeated = {}

Handler(p) ==
    \/ Begin(p) \/ Mkdir(p) \/ SyncProjectRoot(p) \/ AcquireQueueLock(p)
    \/ LoadAndMigrate(p) \/ LoadForAdd(p) \/ LoadForFinish(p) \/ LoadOnly(p)
    \/ OpenHistory(p) \/ EndTornLine(p) \/ WriteLine(p) \/ SyncHistory(p) \/ SyncNewHistory(p)
    \/ WriteTmp(p) \/ Publish(p) \/ SyncQueue(p) \/ Reply(p)

Next == (\E p \in Procs : Handler(p) \/ Stop(p)) \/ PowerLoss

Spec == Init /\ [][Next]_vars

-----------------------------------------------------------------------------
(* What the files promise. *)

(* "Changes survive a machine crash, not just a process crash"              *)
(* (README.md:84): an entry whose id a caller was given by the call that   *)
(* saved it is in the queue or in the history, and one whose finish was    *)
(* answered is out of the queue and in the history - now, and so also      *)
(* after every power loss, kill and failed write.                          *)
CommittedSurvives ==
    /\ promised \subseteq Seen.queue \cup Readable(history)
    /\ settled \subseteq Readable(history) \ Seen.queue

(* The same for an answer that repeats a finish made before (already_applied, *)
(* or a receipt): it too tells the caller that the change is made.          *)
RepeatedAnswerSurvives == repeated \subseteq Readable(history) \ Seen.queue

(* No append ever makes a flushed line unreadable, whatever torn line an    *)
(* earlier crash left in front of it or behind it.                         *)
LinesStayReadable ==
    [][Readable(SubSeq(history, 1, synced)) \subseteq Readable(history')]_history

(* Kills, failed writes and power losses between the file operations never *)
(* show: the two files change as one, at the rename.                       *)
Atomic == INSTANCE AtomicQueue WITH
    live <- Seen.queue,
    done <- Readable(history) \ Seen.queue

AtomicSpec == Atomic!Spec

=============================================================================
