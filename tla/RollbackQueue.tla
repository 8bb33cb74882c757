---------------------------- MODULE RollbackQueue ----------------------------
(***************************************************************************)
(* "Going back from 0.7 to 0.6.x" and forward again (README.md:28-36): in  *)
(* between, queue v0.3.3 rewrites queue.json without the fields it does    *)
(* not know.  The counters start again, so tickets of before meet tickets  *)
(* with the same numbers.                                                  *)
(***************************************************************************)
EXTENDS FencedQueue

CONSTANT MaxRollbacks   \* bound: times the queue is rolled back

VARIABLES
    rollbacks,  \* rollbacks so far
    before      \* tickets issued before the last of them

rvars == <<vars, rollbacks, before>>

ASSUME RollbackAssumption == MaxRollbacks \in Nat

RollbackTypeOK ==
    /\ TypeOK
    /\ rollbacks \in 0..MaxRollbacks
    /\ before \subseteq issued

(* What v0.3.3 writes of an entry it read. *)
Stripped(e) ==
    [e EXCEPT !.subject_generation = 0, !.workflow_generation = 0,
              !.lease_owner = None, !.lease_generation = 0, !.lease_expires_at = None,
              !.repository = None, !.bound = [k \in Keys |-> None]]

(* v0.3.3 drops or finishes some entries, without a history line, keeps the *)
(* others, running or waiting, and adds one or none.                       *)
RollBack ==
    /\ rollbacks < MaxRollbacks
    /\ rollbacks' = rollbacks + 1
    /\ before' = issued
    /\ \E S \in SUBSET DOMAIN entries,
          new \in {{}} \cup {{r} : r \in {x \in Requests : minted < MaxEntries}} :
          LET ids == S \cup {minted + 1 : r \in new} IN
          /\ minted' = minted + Cardinality(new)
          /\ entries' = [i \in ids |-> IF i \in S THEN Stripped(entries[i])
                                       ELSE FromDispatch(CHOOSE r \in new : TRUE)]
          /\ place' = [i \in ids |-> IF i \in S THEN Reindex(place, S)[i]
                                     ELSE Cardinality(S) + 1]
    /\ generations' = [s \in Subjects |-> 0]
    /\ UNCHANGED <<now, history, issued, left>>

(* A lease that was not there before: a hand-out or a takeover. *)
NewLease(i) ==
    i \in DOMAIN entries /\ entries'[i].lease_generation > entries[i].lease_generation

(* The daemons of before the rollback were stopped, and "the holder's id    *)
(* [...] never repeat[s]" (README.md:36).                                  *)
NewHolders ==
    \A i \in DOMAIN entries' :
        NewLease(i) => \A f \in before : entries'[i].lease_owner # f.owner_id

RollbackInit == FilesInit /\ rollbacks = 0 /\ before = {}

RollbackNext == (FencedNext /\ NewHolders /\ UNCHANGED <<rollbacks, before>>) \/ RollBack

RollbackSpec == RollbackInit /\ [][RollbackNext]_rvars

-----------------------------------------------------------------------------

(* "Counters restarting is safe" (README.md:36): a ticket from before the    *)
(* rollback, stored by a daemon and presented again, does nothing, although*)
(* its entry may be running under the very same generations.               *)
OldTicketsInert ==
    \A f \in before, op \in {"Renew", "Recover", "Complete", "ReleasePending"},
       owner \in Owners : FencedMutation(f, op, owner) # "Applied"

=============================================================================
