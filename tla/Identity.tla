------------------------------ MODULE Identity ------------------------------
(***************************************************************************)
(* The canonical id of a subject (src/identity.rs): the name ticketed      *)
(* calls and fences know it by, made from a kind and an id that every      *)
(* producer spells a little differently.                                   *)
(*                                                                         *)
(* A string is a sequence of tokens: words, ":" and " ".  No word is the   *)
(* beginning of another, so comparing tokens is comparing characters.      *)
(***************************************************************************)
EXTENDS Naturals, Sequences

CONSTANTS
    Kinds,      \* kinds producers send
    NativeIds,  \* ids they send
    Missing,    \* MISSING_SUBJECT_IDENTITY
    MaxKind,    \* bound: tokens of a kind that is padded
    MaxId       \* bound: tokens of an id that is padded

VARIABLES kind, id   \* how the subject is spelled now

spelling == <<kind, id>>

Words == {"task", "requirement", "animus.task", "animus.requirement", "TASK", "pack", "X"}
Space == " "
Strings == Seq(Words \cup {":", Space})

ASSUME IdentityAssumption ==
    /\ Kinds \subseteq Strings /\ NativeIds \subseteq Strings /\ Missing \notin Strings
    /\ MaxKind \in Nat /\ MaxId \in Nat

(* trim *)
Ink(s) == {n \in DOMAIN s : s[n] # Space}
Trim(s) ==
    IF Ink(s) = {} THEN <<>>
    ELSE LET first == CHOOSE n \in Ink(s) : \A m \in Ink(s) : n <= m
             last == CHOOSE n \in Ink(s) : \A m \in Ink(s) : m <= n
         IN  SubSeq(s, first, last)

(* to_ascii_lowercase *)
Lower(s) == [n \in DOMAIN s |-> IF s[n] = "TASK" THEN "task" ELSE s[n]]

(* The two kinds with a short name. *)
Short(k) ==
    CASE k = <<"animus.task">> -> <<"task">>
      [] k = <<"animus.requirement">> -> <<"requirement">>
      [] OTHER -> k

StartsWith(s, prefix) ==
    Len(s) >= Len(prefix) /\ Lower(SubSeq(s, 1, Len(prefix))) = Lower(prefix)

(* Mutant: only the very spelling of the kind is taken for a prefix. *)
NativeExact(k, i) ==
    LET prefix == Append(k, ":") IN
    IF Len(i) >= Len(prefix) /\ SubSeq(i, 1, Len(prefix)) = prefix
    THEN SubSeq(i, Len(prefix) + 1, Len(i))
    ELSE i

(* What follows the kind, if the id says its kind, in any ASCII case. *)
Native(k, i) ==
    LET prefix == Append(k, ":") IN
    IF StartsWith(i, prefix) THEN SubSeq(i, Len(prefix) + 1, Len(i)) ELSE i

CanonicalSubjectId(k, i) ==
    LET named == Trim(Short(k))
        native == Native(named, Trim(i))
    IN  IF named = <<>> \/ Trim(i) = <<>> \/ native = <<>> THEN Missing
        ELSE Append(named, ":") \o native

-----------------------------------------------------------------------------
(* A subject passes from producer to producer. *)

IdentityInit == kind \in Kinds /\ id \in NativeIds

Canonical == CanonicalSubjectId(kind, id)
Named == Trim(Short(kind))

(* The qualified id of a fence is used as an id, with the kind in its short *)
(* or long form.                                                           *)
Requalify ==
    /\ Canonical # Missing
    /\ id' = Canonical
    /\ kind' \in {kind, Named}

(* Somebody writes the kind in front, in lower case or as it is. *)
Qualify ==
    /\ Canonical # Missing
    /\ ~StartsWith(Trim(id), Append(Named, ":"))
    /\ id' \in {Append(p, ":") \o Trim(id) : p \in {Named, Lower(Named)}}
    /\ UNCHANGED kind

(* White space gets in, except around a kind that has a short name. *)
PadId ==
    /\ Len(id) < MaxId
    /\ id' \in {<<Space>> \o id, Append(id, Space)}
    /\ UNCHANGED kind

PadKind ==
    /\ Len(kind) < MaxKind
    /\ Short(kind) = kind
    /\ kind' \in {<<Space>> \o kind, Append(kind, Space)}
    /\ UNCHANGED id

Pass == Requalify \/ Qualify \/ PadId \/ PadKind

IdentitySpec == IdentityInit /\ [][Pass]_spelling

-----------------------------------------------------------------------------

(* However often a subject is qualified, shortened and padded on its way    *)
(* from producer to producer, in whatever case its kind is written in front*)
(* (identity.rs:36-41), it stays the same subject, or no subject at all:   *)
(* its entry is found, and its generations counted, as one.                *)
OneSubject == [][Canonical' = Canonical]_spelling

=============================================================================
