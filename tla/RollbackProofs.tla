---------------------------- MODULE RollbackProofs ----------------------------
(***************************************************************************)
(* Tickets of before a rollback stay inert, for every queue, any number of *)
(* rollbacks and whatever v0.3.3 did in between.                           *)
(*                                                                         *)
(* The argument: after the rollback no entry has a lease, and each lease   *)
(* given since has a holder none of the old tickets names; under one lease *)
(* the holder does not change (StepShape).                                 *)
(***************************************************************************)
EXTENDS StepProofs, RollbackQueue

(* An entry is held by nobody that an old ticket names. *)
NewHolder(e, old) == e.lease_generation = 0 \/ \A f \in old : e.lease_owner # f.owner_id

RollbackInv ==
    /\ TypeInv /\ TicketsCount /\ AllUncounted
    /\ rollbacks \in 0..MaxRollbacks /\ before \subseteq issued
    /\ \A i \in DOMAIN entries : NewHolder(entries[i], before)

-----------------------------------------------------------------------------

LEMMA InitRollback == RollbackInit => RollbackInv
<1> SUFFICES ASSUME RollbackInit PROVE RollbackInv
  OBVIOUS
<1>1. Init
  BY DEF RollbackInit, Init
<1>2. TypeInv /\ AllUncounted
  BY <1>1, InitTypes, InitUncounted
<1>3. issued = {} /\ before = {} /\ rollbacks = 0
  BY DEF RollbackInit, FilesInit
<1>4. rollbacks \in 0..MaxRollbacks
  BY <1>3, RollbackAssumption
<1> QED BY <1>2, <1>3, <1>4 DEF RollbackInv, TicketsCount, NewHolder

(* The calls of the queue. *)
LEMMA CallsKeepHolders ==
    ASSUME RollbackInv, [FencedNext]_vars, NewHolders, UNCHANGED <<rollbacks, before>>
    PROVE  RollbackInv'
<1>1. TypeInv /\ TicketsCount /\ AllUncounted
  BY DEF RollbackInv
<1>2. TypeInv'
  BY <1>1, NextTypes DEF Next
<1>3. StepShape
  <2>1. [ClockNext]_vars
    BY DEF ClockNext, Next
  <2> QED BY <1>1, <2>1, StepHasShape
<1>4. TicketsCount'
  <2> SUFFICES ASSUME NEW f \in issued', f \notin issued
               PROVE  f.subject_generation > 0 /\ f.generation > 0
    BY <1>1 DEF TicketsCount
  <2>1. PICK i \in DOMAIN entries' :
           /\ f = ExecutionFence(i, entries'[i])
           /\ IsTicketed(entries'[i]) /\ entries'[i].lease_generation > 0
    BY <1>3 DEF StepShape, NewTickets
  <2>2. entries'[i].subject_generation > 0
    BY <2>1 DEF IsTicketed
  <2> QED BY <2>1, <2>2 DEF ExecutionFence
<1>5. ASSUME NEW i \in DOMAIN entries'
      PROVE  Uncounted(entries'[i]) /\ NewHolder(entries'[i], before')
  <2>1. CASE i \in DOMAIN entries
    <3>1. Inherits(entries[i], entries'[i]) /\ entries[i] \in Entry
      BY <1>1, <1>3, <2>1, StayedEntry, KeptFacts
    <3>2. entries'[i] \in Entry
      BY <1>2 DEF TypeInv, TypeOK
    <3>3. Uncounted(entries'[i])
      BY <1>1, <2>1, <3>1 DEF Inherits, AllUncounted
    <3>4. /\ entries[i].lease_generation \in Nat /\ entries'[i].lease_generation \in Nat
          /\ entries'[i].lease_generation >= entries[i].lease_generation
      BY <3>1, <3>2 DEF Inherits, Entry
    <3>5. CASE entries'[i].lease_generation > entries[i].lease_generation
      BY <2>1, <3>3, <3>5 DEF NewHolders, NewLease, NewHolder
    <3>6. CASE entries'[i].lease_generation = entries[i].lease_generation
      <4>1. entries[i].lease_generation # 0 => IsTicketed(entries[i])
        BY <1>1, <2>1 DEF AllUncounted, Uncounted
      <4>2. entries[i].lease_generation # 0 =>
               entries'[i].lease_owner = entries[i].lease_owner
        BY <3>1, <3>6, <4>1 DEF Inherits
      <4>3. NewHolder(entries[i], before)
        BY <2>1 DEF RollbackInv
      <4> QED BY <3>3, <3>6, <4>2, <4>3 DEF NewHolder
    <3> QED BY <3>4, <3>5, <3>6
  <2>2. CASE i \notin DOMAIN entries
    <3>1. entries'[i].lease_generation = 0
      BY <1>3, <2>2 DEF StepShape, EntriesInherit, NewEntry
    <3> QED BY <3>1 DEF Uncounted, NewHolder
  <2> QED BY <2>1, <2>2
<1>6. before' \subseteq issued' /\ rollbacks' \in 0..MaxRollbacks
  BY <1>3 DEF RollbackInv, StepShape, NewTickets
<1> QED BY <1>2, <1>4, <1>5, <1>6 DEF RollbackInv, AllUncounted

(* What v0.3.3 leaves of an entry. *)
LEMMA StrippedType ==
    ASSUME NEW e \in Entry
    PROVE  /\ Stripped(e) \in Entry
           /\ Stripped(e).subject_generation = 0 /\ Stripped(e).lease_generation = 0
<1>1. [k \in Keys |-> None] \in [Keys -> Requests \cup {None}]
  OBVIOUS
<1> QED BY <1>1 DEF Stripped, Entry

(* The rollback. *)
LEMMA RollBackKeepsHolders ==
    ASSUME RollbackInv, RollBack
    PROVE  RollbackInv'
<1>1. PICK S \in SUBSET DOMAIN entries,
           new \in {{}} \cup {{r} : r \in {x \in Requests : minted < MaxEntries}} :
         LET ids == S \cup {minted + 1 : r \in new} IN
         /\ minted' = minted + Cardinality(new)
         /\ entries' = [i \in ids |-> IF i \in S THEN Stripped(entries[i])
                                      ELSE FromDispatch(CHOOSE r \in new : TRUE)]
         /\ place' = [i \in ids |-> IF i \in S THEN Reindex(place, S)[i]
                                    ELSE Cardinality(S) + 1]
  BY DEF RollBack
<1> DEFINE ids == S \cup {minted + 1 : r \in new}
           added == FromDispatch(CHOOSE r \in new : TRUE)
<1>2. /\ TypeOK /\ minted \in Nat /\ S \subseteq 1..minted
      /\ \A i \in S : entries[i] \in Entry
      /\ IsFiniteSet(S) /\ Cardinality(S) \in Nat
      /\ Reindex(place, S) \in [S -> Nat]
  BY LiveIsFinite, ReindexType DEF RollbackInv, TypeInv, TypeOK
<1>3. \/ new = {} /\ ids = S /\ minted' = minted
      \/ /\ new # {} /\ minted' = minted + 1 /\ ids = S \cup {minted + 1}
         /\ (CHOOSE r \in new : TRUE) \in Requests
  <2>1. CASE new = {}
    <3>1. Cardinality(new) = 0
      BY <2>1, FS_EmptySet
    <3>2. ids = S
      BY <2>1
    <3> QED BY <1>1, <1>2, <2>1, <3>1, <3>2
  <2>2. CASE new # {}
    <3>1. PICK r \in Requests : new = {r}
      BY <2>2
    <3>2. Cardinality(new) = 1
      BY <3>1, FS_Singleton
    <3> QED BY <1>1, <3>1, <3>2
  <2> QED BY <2>1, <2>2
<1>4. ASSUME NEW i \in ids
      PROVE  /\ entries'[i] \in Entry
             /\ entries'[i].subject_generation = 0 /\ entries'[i].lease_generation = 0
  <2>1. CASE i \in S
    <3>1. entries'[i] = Stripped(entries[i])
      BY <1>1, <2>1
    <3> QED BY <1>2, <2>1, <3>1, StrippedType
  <2>2. CASE i \notin S
    <3>1. entries'[i] = added
      BY <1>1, <2>2
    <3> QED BY <1>3, <2>2, <3>1, FromDispatchType
  <2> QED BY <2>1, <2>2
<1>5. DOMAIN entries' = ids /\ ids \subseteq 1..minted' /\ minted' \in Nat
      /\ entries' \in [ids -> Entry]
  <2>1. DOMAIN entries' = ids /\ entries' = [i \in ids |-> entries'[i]]
    BY <1>1
  <2>2. ids \subseteq 1..minted' /\ minted' \in Nat
    BY <1>2, <1>3
  <2> HIDE DEF ids
  <2> QED BY <1>4, <2>1, <2>2
<1>6. place' \in [ids -> Nat]
  BY <1>1, <1>2
<1>7. generations' = [s \in Subjects |-> 0] /\ UNCHANGED <<now, history, issued, left>>
      /\ before' = issued
  BY DEF RollBack
<1>8. TypeInv'
  <2>1. TypeOK'
    <3> HIDE DEF ids
    <3> QED BY <1>2, <1>5, <1>6, <1>7 DEF TypeOK
  <2>2. \A i \in DOMAIN entries' : entries'[i].subject_id \in Subjects
    BY <1>4, <1>5 DEF Entry
  <2>3. GenerationsDominate'
    <3> HIDE DEF ids
    <3> QED BY <1>4, <1>5, <1>7, <2>2 DEF GenerationsDominate
  <2> QED BY <2>1, <2>3 DEF TypeInv
<1>9. TicketsCount' /\ before' \subseteq issued'
  BY <1>7 DEF RollbackInv, TicketsCount
<1>10. rollbacks' \in 0..MaxRollbacks
  BY RollbackAssumption DEF RollbackInv, RollBack
<1>11. AllUncounted' /\ \A i \in DOMAIN entries' : NewHolder(entries'[i], before')
  <2> HIDE DEF ids
  <2> QED BY <1>4, <1>5 DEF AllUncounted, Uncounted, NewHolder
<1> QED BY <1>8, <1>9, <1>10, <1>11 DEF RollbackInv

LEMMA NextRollback == RollbackInv /\ [RollbackNext]_rvars => RollbackInv'
<1> SUFFICES ASSUME RollbackInv, [RollbackNext]_rvars PROVE RollbackInv'
  OBVIOUS
<1>1. CASE FencedNext /\ NewHolders /\ UNCHANGED <<rollbacks, before>>
  BY <1>1, CallsKeepHolders
<1>2. CASE RollBack
  BY <1>2, RollBackKeepsHolders
<1>3. CASE UNCHANGED rvars
  BY <1>3 DEF rvars, vars, files, RollbackInv, TypeInv, TypeOK, GenerationsDominate,
              TicketsCount, AllUncounted, NewHolder
<1> QED BY <1>1, <1>2, <1>3 DEF RollbackNext

LEMMA RollbackInvariant == RollbackSpec => []RollbackInv
BY InitRollback, NextRollback, PTL DEF RollbackSpec

(* Types survive a rollback: v0.3.3 writes a file the queue can read.       *)
THEOREM RollbackTypes == RollbackSpec => []RollbackTypeOK
<1>1. RollbackInv => RollbackTypeOK
  BY DEF RollbackInv, RollbackTypeOK, TypeInv
<1> QED BY <1>1, RollbackInvariant, PTL

LEMMA HeldAnewIsInert == RollbackInv => OldTicketsInert
<1> SUFFICES ASSUME RollbackInv, NEW f \in before, NEW op, NEW owner,
                    FencedMutation(f, op, owner) = "Applied"
             PROVE  FALSE
  BY DEF OldTicketsInert
<1>1. /\ f.entry_id \in DOMAIN entries
      /\ ExactFenceMatches(f.entry_id, entries[f.entry_id], f)
  BY AppliedMatches
<1>2. /\ entries[f.entry_id].lease_owner = f.owner_id
      /\ entries[f.entry_id].lease_generation = f.generation
  BY <1>1 DEF ExactFenceMatches
<1>3. f.generation > 0
  BY DEF RollbackInv, TicketsCount
<1> QED BY <1>1, <1>2, <1>3 DEF RollbackInv, NewHolder

(* "Counters restarting is safe" (README.md:36): although generations are   *)
(* given out again after the rollback, no call with a ticket of before is  *)
(* ever applied, as long as holder ids do not repeat (NewHolders).         *)
THEOREM OldTicketsStayInert == RollbackSpec => []OldTicketsInert
BY RollbackInvariant, HeldAnewIsInert, PTL

=============================================================================
