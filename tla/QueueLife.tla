------------------------------ MODULE QueueLife ------------------------------
(***************************************************************************)
(* The whole queue implements EntryLife, for every entry id.  Watched is   *)
(* one id, any: the queue never asks for it.                               *)
(***************************************************************************)
EXTENDS AnimusQueue

CONSTANT Watched

ASSUME WatchedAssumption == Watched \in Nat \ {0}

-----------------------------------------------------------------------------
(* The queue under a wall clock that may be set back: an expired lease can  *)
(* be live again, a due entry deferred again.                              *)

SetBack ==
    /\ now' \in 0..(now - 1)
    /\ UNCHANGED <<files, issued, left>>

(* mark_assigned reads the clock before it waits for the lock; meanwhile    *)
(* the clock may be set back.                                              *)
LateMark ==
    \E i \in DOMAIN entries, w \in WorkflowIds, called \in 0..MaxTime :
        MarkAssigned(i, w, called)

ClockNext == Next \/ SetBack \/ LateMark

ClockSpec == Init /\ [][ClockNext]_vars

-----------------------------------------------------------------------------
(* The watched entry. *)

Live == Watched \in DOMAIN entries

Phase ==
    IF Live THEN IF entries[Watched].status = "Assigned" THEN "running" ELSE "waiting"
    ELSE IF Watched <= minted THEN "gone" ELSE "new"

Gen == IF Live THEN entries[Watched].lease_generation ELSE 0

Till == IF Live THEN entries[Watched].lease_expires_at ELSE None

Life == INSTANCE EntryLife WITH phase <- Phase, gen <- Gen, till <- Till

(* Every step of every handler, crash and clock change is, for the watched  *)
(* entry, one step of an entry's life or none: no interleaving of ticketed *)
(* and old-style callers, sweeps, interrupted commits and late tickets     *)
(* runs an entry under two live leases, goes back to an earlier generation *)
(* or brings a finished entry back.                                        *)
ImplementsLife == Life!Spec

=============================================================================
