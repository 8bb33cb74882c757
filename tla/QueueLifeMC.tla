----------------------------- MODULE QueueLifeMC -----------------------------
(* Instances of AnimusQueueMC's kind, with one entry watched. *)
EXTENDS QueueLife, AnimusQueueMC

(* An empty project, or a queue of v0.3.3: a run and an entry put back with *)
(* its workflow id; or one without a dispatch, one whose status this       *)
(* version does not know, and a held one.                                  *)
LifeLeftovers ==
    { <<>>,
      <<Old("Assigned", w1, TRUE), Old("Pending", w2, TRUE)>>,
      <<Old("Pending", None, FALSE), Old("Unknown", None, TRUE), Old("Held", None, TRUE)>> }

=============================================================================
