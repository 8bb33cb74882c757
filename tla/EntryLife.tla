------------------------------ MODULE EntryLife ------------------------------
(***************************************************************************)
(* What the queue promises about one entry, whoever calls and whatever     *)
(* fails: it waits, runs under one lease at a time, may be put back or     *)
(* taken over, finishes once, and is gone for good.                        *)
(*                                                                         *)
(* A ticketed lease has a generation, counted from 1.  It ends only by a   *)
(* finish, a put-back, or, once it has expired, by a takeover, and each    *)
(* one has the next generation.  A lease of the old style has generation 0 *)
(* and is never a successor of a ticketed one.                             *)
(***************************************************************************)
EXTENDS Naturals

CONSTANT None

VARIABLES
    now,    \* the clock
    phase,  \* "new", "waiting", "running" or "gone"
    gen,    \* the generation of the latest ticketed lease, 0 if none yet
    till    \* when the latest lease expires

vars == <<now, phase, gen, till>>

Expired == till # None /\ till <= now

Init ==
    /\ now = 0
    /\ phase \in {"new", "waiting", "running"}
    /\ gen = 0
    /\ till = None

Add ==
    /\ phase = "new" /\ phase' = "waiting"
    /\ gen' = 0
    /\ till' = None

HandOut ==
    /\ phase = "waiting" /\ phase' = "running"
    /\ gen' = gen + 1
    /\ till' \in Nat /\ till' > now

Renew ==
    /\ phase = "running" /\ phase' = "running"
    /\ gen > 0 /\ gen' = gen
    /\ till \in Nat /\ till > now
    /\ till' \in Nat /\ till' >= till

TakeOver ==
    /\ phase = "running" /\ phase' = "running"
    /\ gen > 0 /\ gen' = gen + 1
    /\ Expired
    /\ till' \in Nat /\ till' > now

(* The ticket keeps its generation and expiry: it may be presented again.   *)
PutBack ==
    /\ phase = "running" /\ phase' = "waiting"
    /\ gen > 0
    /\ UNCHANGED <<gen, till>>

OldHandOut ==
    /\ phase = "waiting" /\ phase' = "running"
    /\ gen = 0 /\ gen' = 0
    /\ till' \in Nat

OldReclaim ==
    /\ phase = "running" /\ phase' = "running"
    /\ gen = 0 /\ gen' = 0
    /\ Expired
    /\ till' \in Nat /\ till' > now

OldPutBack ==
    /\ phase = "running" /\ phase' = "waiting"
    /\ gen = 0 /\ gen' = 0
    /\ till' = None

Finish ==
    /\ phase \in {"waiting", "running"} /\ phase' = "gone"
    /\ gen' = 0
    /\ till' = None

(* The wall clock goes on, or is set back. *)
Pass == now' \in Nat /\ UNCHANGED <<phase, gen, till>>

Move ==
    \/ Add \/ HandOut \/ Renew \/ TakeOver \/ PutBack
    \/ OldHandOut \/ OldReclaim \/ OldPutBack \/ Finish

Next == Pass \/ (Move /\ now' = now)

Spec == Init /\ [][Next]_vars

=============================================================================
