----------------------------- MODULE IdentityMC -----------------------------
(* The spellings of the identity runs: all ids of up to three tokens. *)
EXTENDS Identity, SequencesExt

SomeKinds ==
    { <<>>, <<" ">>, <<"task">>, <<"animus.task">>, <<"animus.requirement">>,
      <<"TASK">>, <<"pack">>, <<"pack", ":", "task">> }

SomeIds == BoundedSeq({":", " ", "task", "TASK", "X"}, 3)

=============================================================================
