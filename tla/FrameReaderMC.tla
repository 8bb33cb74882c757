---------------------------- MODULE FrameReaderMC ----------------------------
(* The streams of the reader's run: four lines of every kind. *)
EXTENDS FrameReader, SequencesExt

Line(kind, t) ==
    CASE kind = "plain"   -> <<<<"open", t>>, <<"close", t>>, Newline>>
      [] kind = "pretty"  -> <<<<"open", t>>, Newline, <<"close", t>>, Newline>>
      [] kind = "torn"    -> <<<<"open", t>>, Newline>>
      [] kind = "key"     -> <<<<"key", t>>, Newline>>
      [] kind = "bad"     -> <<<<"bad", t>>, Newline>>
      [] kind = "stray"   -> <<<<"bad", t>>, <<"open", t>>, <<"close", t>>, Newline>>
      [] kind = "blank"   -> <<Newline>>

Kinds == {"plain", "pretty", "torn", "key", "bad", "stray", "blank"}

Streams == {FlattenSeq([t \in 1..4 |-> Line(k[t], t)]) : k \in [1..4 -> Kinds]}

=============================================================================
