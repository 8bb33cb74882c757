--------------------------- MODULE QueueWithDaemon ---------------------------
(***************************************************************************)
(* The ticketed queue together with the daemons that use it: they poll,    *)
(* store the tickets they receive, renew some of them, finish the work,    *)
(* put it back or take it over, and a reply may never reach them.          *)
(*                                                                         *)
(* The daemon is not part of this repository.  It is modelled from what    *)
(* the README and docs/releases/v0.4.0.md say of it: tickets are stored,   *)
(* and a daemon that restarts goes on with the stored ones; it renews only *)
(* at times, so a ticket may expire while its work goes on.                *)
(*                                                                         *)
(* Time passes by Age, which brings every instant closer while `now` stays *)
(* 0: the handlers only compare instants with now, so the queue behaves the*)
(* same, and a run that never ends has finitely many states.               *)
(***************************************************************************)
EXTENDS FencedQueue

CONSTANTS
    Pollers,   \* the daemons that ask for work; the others only take over
    MaxLost    \* bound: replies with a ticket that are lost

VARIABLES
    saved,     \* the tickets the daemons stored
    lost       \* replies lost so far

dvars == <<vars, saved, lost>>

ASSUME DaemonAssumption == MaxLost \in Nat /\ Pollers \subseteq Owners

(* A reply with new tickets arrives and is stored, or it is lost. *)
ReplySaved == saved' = saved \cup (issued' \ issued) /\ UNCHANGED lost
ReplyLost ==
    /\ issued' # issued
    /\ lost < MaxLost /\ lost' = lost + 1
    /\ UNCHANGED saved
Silent == UNCHANGED <<saved, lost>>

(* Workflow ids no entry and no ticket has. *)
Unused ==
    WorkflowIds \ ({entries[i].workflow_id : i \in DOMAIN entries} \cup {f.workflow_id : f \in issued})

(* A daemon asks for as many entries as it has room for. *)
Poll ==
    \E owner \in Pollers, max \in 1..MaxLeaseBatch :
        /\ Cardinality(Unused) >= max
        /\ LeaseV2(max, owner, CHOOSE ids \in Lists(max, Unused) : TRUE, {})

FinishEntry(i) ==
    /\ \E f \in saved : f.entry_id = i /\ CompletionV2(f, "Completed")
    /\ Silent

Renew == (\E f \in saved : RenewLease(f, None)) /\ Silent

(* MaxLeaseGeneration leaves a put-back entry another hand-out. *)
PutBack ==
    /\ \E f \in saved : f.generation < MaxLeaseGeneration /\ ReleasePendingV2(f)
    /\ Silent

TakeOver == \E f \in saved, owner \in Owners : RecoverLease(f, owner, None)

(* Nobody stored the ticket the entry runs under. *)
Orphan(i) ==
    entries[i].status = "Assigned" /\ ExecutionFence(i, entries[i]) \notin saved

(* animus queue drop *)
OperatorDrop(i) ==
    /\ i \in DOMAIN entries
    /\ Orphan(i)
    /\ Remove(i, "Dropped")
    /\ Silent

Sooner(t) == IF t = None \/ t = 0 THEN t ELSE t - 1

Age ==
    /\ entries' = [i \in DOMAIN entries |->
                      [entries[i] EXCEPT !.run_at = Sooner(@), !.lease_expires_at = Sooner(@)]]
    /\ entries' # entries
    /\ UNCHANGED <<now, minted, place, generations, history, issued, left>>
    /\ Silent

DaemonInit == FilesInit /\ saved = {} /\ lost = 0

PollAndSave == Poll /\ ReplySaved
PollAndLose == Poll /\ ReplyLost

DaemonNext ==
    \/ SomeEnqueueV2 /\ Silent
    \/ PollAndSave \/ PollAndLose
    \/ TakeOver /\ (ReplySaved \/ ReplyLost)
    \/ \E i \in 1..MaxEntries : FinishEntry(i) \/ OperatorDrop(i)
    \/ Renew \/ PutBack \/ Age

(* Daemons keep polling, work ends and is reported, and time passes.        *)
(* Renewals, put-backs and takeovers need not happen, nor drops.           *)
DaemonFairness ==
    /\ WF_dvars(PollAndSave)
    /\ WF_dvars(Age)
    /\ \A i \in 1..MaxEntries : WF_dvars(FinishEntry(i))

DaemonSpec == DaemonInit /\ [][DaemonNext]_dvars /\ DaemonFairness

-----------------------------------------------------------------------------

InQueue(i) == i \in DOMAIN entries

(* Who finds an entry whose ticket is lost drops it some time: the remedy   *)
(* of README.md:102.                                                       *)
OperatorCares == \A i \in 1..MaxEntries : WF_dvars(OperatorDrop(i))

(* Work is done: every entry leaves the queue, although tickets expire under*)
(* running work, are put back and taken over, branches are in use and a    *)
(* reply was lost, as long as an operator drops what lost its ticket.       *)
EveryEntryLeaves ==
    OperatorCares => \A i \in 1..MaxEntries : InQueue(i) ~> ~InQueue(i)

BehindOrphan(i) ==
    \E j \in DOMAIN entries :
        /\ Orphan(j)
        /\ \/ SameBranch(entries[i].repository, entries[j].repository)
           \/ \A c \in Candidates(1) : SameBranch(entries[c].repository, entries[j].repository)

(* Whatever the operator does, only a lost reply keeps an entry: its own, that of *)
(* an entry on its branch, or one whose branch blocks all the candidates a *)
(* hand-out looks at (fenced_queue.rs:221).  Everybody else gets through.   *)
OnlyOrphansStay ==
    \A i \in 1..MaxEntries :
        InQueue(i) ~> (~InQueue(i) \/ Orphan(i) \/ BehindOrphan(i))

=============================================================================
