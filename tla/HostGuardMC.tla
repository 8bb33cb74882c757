----------------------------- MODULE HostGuardMC -----------------------------
(* The hosts of the host check's run: every release line around the limits. *)
EXTENDS HostGuard

Pre == {<<>>, <<0>>, <<1>>, <<9, 1>>}

Around(major, minors) ==
    [major : {major}, minor : minors, patch : {0, 1}, pre : Pre]

SomeHosts ==
    [ protocol : Around(1, 0..2) \cup {None},
      version  : Around(0, 6..8) \cup Around(1, {0}) \cup {None} ]

=============================================================================
