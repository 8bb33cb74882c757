---------------------------- MODULE StoreCommitMC ----------------------------
(* Small instances of the file operations of a commit for TLC. *)
EXTENDS StoreCommit, TLC

CONSTANTS p1, p2

ProcSymmetry == Permutations(Procs)

(* Nothing yet: no .animus. *)
Cold == [ordered |-> TRUE, dir |-> FALSE, made |-> FALSE, queue |-> {}]

(* A queue of a build that wrote no entry ids. *)
OldQueue == [ordered |-> TRUE, dir |-> TRUE, made |-> FALSE, queue |-> {Unnamed}]

(* A project in use: .animus and the history file are there.                *)
InUse(ordered) == [ordered |-> ordered, dir |-> TRUE, made |-> TRUE, queue |-> {}]

AnyProject == {Cold, OldQueue, InUse(FALSE)}
OrderedInUse == {InUse(TRUE)}

=============================================================================
