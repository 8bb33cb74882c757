----------------------------- MODULE AtomicQueue -----------------------------
(***************************************************************************)
(* What the two queue files together promise: a commit is one step, and    *)
(* what a caller was told stays true.  An entry is live or done, never     *)
(* both and never neither.  A machine crash may undo commits, but only     *)
(* those nobody was told of.                                               *)
(***************************************************************************)
CONSTANTS
    Ids,       \* entry ids
    Unnamed    \* an entry of an old queue file that has no id yet

VARIABLES
    live,      \* the entries in the queue
    done,      \* the entries that finished
    promised,  \* entries some caller was given the id of
    settled    \* entries whose finish some caller was told of

vars == <<live, done, promised, settled>>

TypeOK ==
    /\ live \subseteq Ids \cup {Unnamed}
    /\ done \subseteq Ids
    /\ promised \subseteq live \cup done
    /\ settled \subseteq done
    /\ live \cap done = {}

Init ==
    /\ live \subseteq {Unnamed}
    /\ done = {}
    /\ promised = {}
    /\ settled = {}

(* New entries arrive and live ones finish, all at once. *)
Commit ==
    /\ live' # live
    /\ done \subseteq done'
    /\ done' \ done \subseteq live
    /\ live \ live' \subseteq done' \cup {Unnamed}
    /\ live' \cap done' = {}
    /\ live' \subseteq Ids \cup {Unnamed}
    /\ UNCHANGED <<promised, settled>>

(* A caller is told of its commit. *)
Answer ==
    /\ promised \subseteq promised' /\ promised' \subseteq live \cup done
    /\ settled \subseteq settled' /\ settled' \subseteq done
    /\ UNCHANGED <<live, done>>

(* The machine stops and comes back.  Nothing appears that was not there.   *)
Crash ==
    /\ live' \cup done' \subseteq live \cup done \cup {Unnamed}
    /\ live' \cap done' = {}
    /\ promised \subseteq live' \cup done'
    /\ settled \subseteq done'
    /\ UNCHANGED <<promised, settled>>

Next == Commit \/ Answer \/ Crash

Spec == Init /\ [][Next]_vars

=============================================================================
