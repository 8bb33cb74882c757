------------------------------ MODULE LifeProofs ------------------------------
(***************************************************************************)
(* The whole queue implements EntryLife, for every entry and every value   *)
(* of the constants, also under a clock that is set back.                  *)
(*                                                                         *)
(* The argument: every handler leaves each entry that stays with a change  *)
(* that EntryLife allows (Follows), makes at most one entry, and removes   *)
(* the others for good (EntriesFollow).  What a handler needs to know of   *)
(* the entries it finds is LifeInv.                                        *)
(***************************************************************************)
EXTENDS TicketProofs, QueueLife

Running(e) == e.status = "Assigned"

(* What EntryLife lets become of an entry e that stays, as d. *)

Rests(e, d) ==
    /\ Running(d) <=> Running(e)
    /\ d.lease_generation = e.lease_generation
    /\ d.lease_expires_at = e.lease_expires_at

RunsUntil(d, t) == Running(d) /\ d.lease_expires_at = t /\ t \in Nat /\ t > now

Overdue(e) == Running(e) /\ e.lease_expires_at # None /\ e.lease_expires_at <= now

Starts(e, d) ==
    /\ ~Running(e) /\ RunsUntil(d, d.lease_expires_at)
    /\ d.lease_generation = e.lease_generation + 1

Prolongs(e, d) ==
    /\ RunsUntil(e, e.lease_expires_at) /\ RunsUntil(d, d.lease_expires_at)
    /\ e.lease_generation > 0 /\ d.lease_generation = e.lease_generation
    /\ d.lease_expires_at >= e.lease_expires_at

ChangesHands(e, d) ==
    /\ Overdue(e) /\ RunsUntil(d, d.lease_expires_at)
    /\ e.lease_generation > 0 /\ d.lease_generation = e.lease_generation + 1

IsPutBack(e, d) ==
    /\ Running(e) /\ ~Running(d)
    /\ e.lease_generation > 0 /\ d.lease_generation = e.lease_generation
    /\ d.lease_expires_at = e.lease_expires_at

OldStyle(e, d) == e.lease_generation = 0 /\ d.lease_generation = 0

StartsOldStyle(e, d) ==
    OldStyle(e, d) /\ ~Running(e) /\ Running(d) /\ d.lease_expires_at \in Nat

ReclaimedOldStyle(e, d) ==
    OldStyle(e, d) /\ Overdue(e) /\ RunsUntil(d, d.lease_expires_at)

PutBackOldStyle(e, d) ==
    OldStyle(e, d) /\ Running(e) /\ ~Running(d) /\ d.lease_expires_at = None

Moves(e, d) ==
    \/ Rests(e, d) \/ Starts(e, d) \/ Prolongs(e, d) \/ ChangesHands(e, d)
    \/ IsPutBack(e, d) \/ StartsOldStyle(e, d) \/ ReclaimedOldStyle(e, d)
    \/ PutBackOldStyle(e, d)

(* An entry that was never given identity has had no ticket. *)
Uncounted(e) == IsTicketed(e) \/ e.lease_generation = 0

Follows(e, d) == Moves(e, d) /\ Uncounted(d)

Fresh(d) == ~Running(d) /\ d.lease_generation = 0 /\ d.lease_expires_at = None

EntriesFollow ==
    /\ now' = now
    /\ minted' \in {minted, minted + 1}
    /\ \A i \in 1..minted' : i \in 1..minted \/ i \in DOMAIN entries'
    /\ \A i \in DOMAIN entries' :
          \/ i \in DOMAIN entries /\ Follows(entries[i], entries'[i])
          \/ i \notin 1..minted /\ Fresh(entries'[i])

AllUncounted == \A i \in DOMAIN entries : Uncounted(entries[i])

LifeInv == TypeInv /\ TicketInv /\ AllUncounted

-----------------------------------------------------------------------------
(* A step in which the entries follow is one of the watched entry's life.   *)

LEMMA LifeStep ==
    ASSUME TypeInv, EntriesFollow
    PROVE  [Life!Next]_(Life!vars)
<1> USE DEF Phase, Gen, Till, Live
<1>1. minted \in Nat /\ DOMAIN entries \subseteq 1..minted /\ Watched \in Nat \ {0}
      /\ minted' \in Nat /\ minted <= minted' /\ now' = now
  BY WatchedAssumption DEF EntriesFollow, TypeInv, TypeOK
<1>2. CASE Watched \in DOMAIN entries /\ Watched \in DOMAIN entries'
  <2> DEFINE e == entries[Watched]
             d == entries'[Watched]
  <2>1. Moves(e, d)
    BY <1>1, <1>2 DEF EntriesFollow, Follows
  <2>2. /\ Phase = (IF Running(e) THEN "running" ELSE "waiting")
        /\ Phase' = (IF Running(d) THEN "running" ELSE "waiting")
        /\ Gen = e.lease_generation /\ Gen' = d.lease_generation
        /\ Till = e.lease_expires_at /\ Till' = d.lease_expires_at
    BY <1>2 DEF Running
  <2> HIDE DEF e, d, Phase, Gen, Till, Live
  <2>3. CASE Rests(e, d)
    BY <1>1, <2>2, <2>3 DEF Rests, Life!vars
  <2>4. CASE Starts(e, d)
    BY <1>1, <2>2, <2>4 DEF Starts, RunsUntil, Life!Next, Life!Move, Life!HandOut
  <2>5. CASE Prolongs(e, d)
    BY <1>1, <2>2, <2>5 DEF Prolongs, RunsUntil, Life!Next, Life!Move, Life!Renew
  <2>6. CASE ChangesHands(e, d)
    BY <1>1, <2>2, <2>6
       DEF ChangesHands, Overdue, RunsUntil, Life!Next, Life!Move, Life!TakeOver, Life!Expired
  <2>7. CASE IsPutBack(e, d)
    BY <1>1, <2>2, <2>7 DEF IsPutBack, Life!Next, Life!Move, Life!PutBack
  <2>8. CASE StartsOldStyle(e, d)
    BY <1>1, <2>2, <2>8 DEF StartsOldStyle, OldStyle, Life!Next, Life!Move, Life!OldHandOut
  <2>9. CASE ReclaimedOldStyle(e, d)
    BY <1>1, <2>2, <2>9
       DEF ReclaimedOldStyle, OldStyle, Overdue, RunsUntil, Life!Next, Life!Move,
           Life!OldReclaim, Life!Expired
  <2>10. CASE PutBackOldStyle(e, d)
    BY <1>1, <2>2, <2>10
       DEF PutBackOldStyle, OldStyle, Life!Next, Life!Move, Life!OldPutBack
  <2> QED BY <2>1, <2>3, <2>4, <2>5, <2>6, <2>7, <2>8, <2>9, <2>10 DEF Moves
<1>3. CASE Watched \in DOMAIN entries /\ Watched \notin DOMAIN entries'
  <2>1. Watched <= minted'
    BY <1>1, <1>3
  <2>2. Phase \in {"waiting", "running"} /\ Phase' = "gone" /\ Gen' = 0 /\ Till' = None
    BY <1>3, <2>1
  <2> QED BY <1>1, <2>2 DEF Life!Next, Life!Move, Life!Finish
<1>4. CASE Watched \notin DOMAIN entries /\ Watched \in DOMAIN entries'
  <2>1. Watched \notin 1..minted /\ Fresh(entries'[Watched])
    BY <1>4 DEF EntriesFollow
  <2>2. Phase = "new" /\ Phase' = "waiting" /\ Gen' = 0 /\ Till' = None
    BY <1>1, <1>4, <2>1 DEF Fresh, Running
  <2> QED BY <1>1, <2>2 DEF Life!Next, Life!Move, Life!Add
<1>5. CASE Watched \notin DOMAIN entries /\ Watched \notin DOMAIN entries'
  <2>1. Watched <= minted <=> Watched <= minted'
    BY <1>1, <1>5 DEF EntriesFollow
  <2> QED BY <1>1, <1>5, <2>1 DEF Life!vars
<1> QED BY <1>2, <1>3, <1>4, <1>5

-----------------------------------------------------------------------------
(* Shapes of commits. *)

(* Nothing about the entry changes. *)
LEMMA SameFollows ==
    ASSUME LifeInv, NEW i \in DOMAIN entries
    PROVE  Follows(entries[i], entries[i])
BY DEF LifeInv, AllUncounted, Follows, Moves, Rests

(* Identity, keys and the rest of an entry may change under a lease that    *)
(* stays as it is.                                                         *)
LEMMA RestingFollows ==
    ASSUME LifeInv, NEW i \in DOMAIN entries, NEW d, Rests(entries[i], d),
           IsTicketed(entries[i]) => IsTicketed(d)
    PROVE  Follows(entries[i], d)
BY DEF LifeInv, AllUncounted, Uncounted, Follows, Moves, Rests

(* A commit that makes no entry. *)
LEMMA KeepingFollows ==
    ASSUME LifeInv, UNCHANGED <<now, minted>>, DOMAIN entries' \subseteq DOMAIN entries,
           \A i \in DOMAIN entries' : Follows(entries[i], entries'[i])
    PROVE  EntriesFollow
BY DEF EntriesFollow

(* A commit that only removes entries. *)
LEMMA RemovalFollows ==
    ASSUME LifeInv, NEW S, S \subseteq DOMAIN entries, NEW P, NEW G, NEW F,
           Commit([i \in S |-> entries[i]], P, G, F), UNCHANGED <<now, minted>>
    PROVE  EntriesFollow
<1> DEFINE E == [i \in S |-> entries[i]]
<1>1. entries' = E /\ DOMAIN E = S /\ \A i \in S : E[i] = entries[i]
  BY DEF Commit
<1> HIDE DEF E
<1> QED BY <1>1, SameFollows, KeepingFollows

(* A commit that rewrites one entry. *)
LEMMA UpdateFollows ==
    ASSUME LifeInv, NEW i \in DOMAIN entries, NEW d, Follows(entries[i], d),
           NEW P, NEW G, NEW F, Commit([entries EXCEPT ![i] = d], P, G, F),
           UNCHANGED <<now, minted>>
    PROVE  EntriesFollow
<1> DEFINE E == [entries EXCEPT ![i] = d]
<1>1. entries' = E /\ DOMAIN E = DOMAIN entries
      /\ E[i] = d /\ \A j \in DOMAIN entries : j # i => E[j] = entries[j]
  BY DEF Commit, LifeInv, TypeInv, TypeOK
<1> HIDE DEF E
<1> QED BY <1>1, SameFollows, KeepingFollows

(* A commit that sweeps and adds an entry. *)
LEMMA AddFollows ==
    ASSUME LifeInv, NEW d, Fresh(d), NEW P, NEW G, NEW F,
           Commit([i \in Kept \cup {minted + 1} |->
                      IF i = minted + 1 THEN d ELSE entries[i]], P, G, F),
           minted' = minted + 1, now' = now
    PROVE  EntriesFollow
<1> DEFINE E == [i \in Kept \cup {minted + 1} |->
                    IF i = minted + 1 THEN d ELSE entries[i]]
<1>1. entries' = E /\ DOMAIN E = Kept \cup {minted + 1} /\ E[minted + 1] = d
      /\ \A i \in Kept : i # minted + 1 => E[i] = entries[i]
  BY DEF Commit
<1> HIDE DEF E
<1>2. minted \in Nat /\ minted + 1 \notin 1..minted /\ Kept \subseteq DOMAIN entries
      /\ Kept \subseteq 1..minted
  BY KeptFacts DEF LifeInv, TypeInv, TypeOK
<1>3. \A i \in 1..minted' : i \in 1..minted \/ i = minted + 1
  BY <1>2
<1>4. \A i \in Kept : E[i] = entries[i] /\ Follows(entries[i], E[i])
  BY <1>1, <1>2, SameFollows
<1> QED BY <1>1, <1>2, <1>3, <1>4 DEF EntriesFollow

-----------------------------------------------------------------------------
(* The ticketed calls. *)

(* A call that only sweeps. *)
LEMMA SweepFollows ==
    ASSUME LifeInv, CommitSweep
    PROVE  EntriesFollow
<1>1. Kept \subseteq DOMAIN entries
  BY KeptFacts DEF LifeInv
<1>2. Commit([i \in Kept |-> entries[i]], Reindex(place, Kept), generations, SweptRecords)
      /\ UNCHANGED <<now, minted>>
  BY DEF CommitSweep
<1> QED BY <1>1, <1>2, RemovalFollows

(* The files of a step that only touches the history. *)
LEMMA InterruptFollows ==
    ASSUME LifeInv, UNCHANGED <<now, minted, entries>>
    PROVE  EntriesFollow
BY SameFollows, KeepingFollows

(* A ticket is renewed while it is live, taken over once it has expired.    *)
LEMMA TicketCallFollows ==
    ASSUME LifeInv, SomeTicketCall
    PROVE  EntriesFollow
<1>1. PICK f \in issued :
        \/ \E ttl \in AskedTtls : RenewLease(f, ttl)
        \/ \E owner \in Owners, ttl \in AskedTtls : RecoverLease(f, owner, ttl)
        \/ \E outcome \in AskedOutcomes :
              CompletionV2(f, outcome) \/ InterruptedCompletionV2(f, outcome)
        \/ ReleasePendingV2(f)
  BY DEF SomeTicketCall
<1> DEFINE i == f.entry_id
           e == entries[i]
<1>2. TypeInv /\ TicketInv /\ now \in Nat /\ None \notin Nat
  BY ConstantsAssumption DEF LifeInv, TypeInv, TypeOK, Times
<1>3. ASSUME NEW op, NEW o, FencedMutation(f, op, o) = "Applied"
      PROVE  /\ i \in DOMAIN entries /\ e \in Entry /\ Running(e)
             /\ IsTicketed(e) /\ e.lease_generation > 0
             /\ e.lease_expires_at \in Nat /\ e.lease_generation \in Nat
             /\ op = "Recover" => e.lease_expires_at <= now
             /\ op = "Renew" => e.lease_expires_at > now
  <2>1. i \in DOMAIN entries /\ e.status = "Assigned" /\ ExactFenceMatches(i, e, f)
        /\ (op = "Recover" => ~LeaseIsLive(e, now))
    BY <1>3, AppliedMatches
  <2>2. op = "Renew" => LeaseIsLive(e, now)
    BY <1>3 DEF FencedMutation, FinishedEntryOutcome
  <2>3. e \in Entry
    BY <1>2, <2>1, KeptFacts
  <2>4. IsTicketed(e)
    BY <1>2, <2>1 DEF TicketInv, TicketsMatchEntries, TicketMatchesEntry,
                      ExactFenceMatches, IsTicketed
  <2>5. HasFence(e)
    BY <1>2, <2>1, <2>4 DEF TicketInv, RunningTicketedHasTicket
  <2>6. e.lease_expires_at \in Nat /\ e.lease_generation \in Nat
    <3> HIDE DEF e
    <3> QED BY <2>3, <2>5 DEF HasFence, Entry, Times
  <2> HIDE DEF e
  <2> QED BY <1>2, <2>1, <2>2, <2>3, <2>4, <2>5, <2>6 DEF HasFence, LeaseIsLive, Running
<1>4. ASSUME NEW ttl \in AskedTtls, RenewLease(f, ttl)
      PROVE  EntriesFollow
  <2> DEFINE t == now + RequestedTtl(ttl)
             x == IF e.lease_expires_at > t THEN e.lease_expires_at ELSE t
             d == [e EXCEPT !.lease_expires_at = x]
  <2>1. FencedMutation(f, "Renew", None) = "Applied"
    BY <1>4 DEF RenewLease
  <2>2. t \in Nat
    BY <1>2, RequestedTtlType
  <2>3. x \in Nat /\ x >= e.lease_expires_at
    <3> HIDE DEF e, t
    <3> QED BY <1>3, <2>1, <2>2
  <2>4. Commit([entries EXCEPT ![i] = d], place, generations, {})
        /\ UNCHANGED <<now, minted>>
    BY <1>4 DEF RenewLease, UpdateEntry
  <2> HIDE DEF x
  <2>5. Follows(e, d)
    <3>0. i \in DOMAIN entries /\ e \in Entry
      BY <1>3, <2>1
    <3>1. d.status = e.status /\ d.lease_generation = e.lease_generation
          /\ d.lease_expires_at = x /\ d.subject_generation = e.subject_generation
      <4> HIDE DEF e
      <4> QED BY <3>0 DEF Entry
    <3> HIDE DEF d, e
    <3>2. Prolongs(e, d)
      BY <1>2, <1>3, <2>1, <2>3, <3>1 DEF Prolongs, RunsUntil, Running
    <3> QED BY <1>3, <2>1, <3>1, <3>2 DEF Follows, Moves, Uncounted, IsTicketed
  <2> HIDE DEF d
  <2> QED BY <1>3, <2>1, <2>4, <2>5, UpdateFollows
<1>5. ASSUME NEW owner \in Owners, NEW ttl \in AskedTtls, RecoverLease(f, owner, ttl)
      PROVE  EntriesFollow
  <2> DEFINE t == now + RequestedTtl(ttl)
             n == e.lease_generation + 1
             d == [e EXCEPT !.lease_owner = owner, !.lease_generation = n,
                            !.lease_expires_at = t]
  <2>1. FencedMutation(f, "Recover", owner) = "Applied"
    BY <1>5 DEF RecoverLease
  <2>2. t \in Nat /\ t > now
    BY <1>2, FencedAssumption DEF RequestedTtl
  <2>3. Commit([entries EXCEPT ![i] = d], place, generations, {})
        /\ UNCHANGED <<now, minted>>
    BY <1>5 DEF RecoverLease, UpdateEntry
  <2>4. i \in DOMAIN entries /\ e \in Entry
    BY <1>3, <2>1
  <2> HIDE DEF t
  <2>5. d.status = e.status /\ d.lease_generation = n
        /\ d.lease_expires_at = t /\ d.subject_generation = e.subject_generation
    <3> HIDE DEF e, n
    <3> QED BY <2>4 DEF Entry
  <2>6. Follows(e, d)
    <3> HIDE DEF d, e
    <3>1. ChangesHands(e, d)
      BY <1>2, <1>3, <2>1, <2>2, <2>5 DEF ChangesHands, Overdue, RunsUntil, Running
    <3> QED BY <1>3, <2>1, <2>5, <3>1 DEF Follows, Moves, Uncounted, IsTicketed
  <2> HIDE DEF d
  <2> QED BY <2>3, <2>4, <2>6, UpdateFollows
<1>6. ASSUME NEW outcome \in AskedOutcomes, CompletionV2(f, outcome)
      PROVE  EntriesFollow
  BY <1>6, RemovalFollows DEF CompletionV2, Remove, Without
<1>7. ASSUME NEW outcome \in AskedOutcomes, InterruptedCompletionV2(f, outcome)
      PROVE  EntriesFollow
  BY <1>7, InterruptFollows DEF InterruptedCompletionV2, Interrupt
<1>8. ASSUME ReleasePendingV2(f)
      PROVE  EntriesFollow
  <2> DEFINE d == [e EXCEPT !.status = "Pending"]
  <2>1. FencedMutation(f, "ReleasePending", None) = "Applied"
    BY <1>8 DEF ReleasePendingV2
  <2>2. i \in DOMAIN entries /\ e \in Entry
    BY <1>3, <2>1
  <2>3. d.status = "Pending" /\ d.lease_generation = e.lease_generation
        /\ d.lease_expires_at = e.lease_expires_at
        /\ d.subject_generation = e.subject_generation
    <3> HIDE DEF e
    <3> QED BY <2>2 DEF Entry
  <2>4. Commit([entries EXCEPT ![i] = d], place, generations, {})
        /\ UNCHANGED <<now, minted>>
    BY <1>8 DEF ReleasePendingV2, UpdateEntry
  <2>5. Follows(e, d)
    <3> HIDE DEF d, e
    <3>1. IsPutBack(e, d)
      BY <1>3, <2>1, <2>3 DEF IsPutBack, Running
    <3> QED BY <1>3, <2>1, <2>3, <3>1 DEF Follows, Moves, Uncounted, IsTicketed
  <2> HIDE DEF d
  <2> QED BY <2>2, <2>4, <2>5, UpdateFollows
<1> QED BY <1>1, <1>4, <1>5, <1>6, <1>7, <1>8

(* queue/v2/enqueue gives identity and keys, and never touches a lease.     *)
LEMMA EnqueueV2Follows ==
    ASSUME LifeInv, NEW r \in Requests, NEW k \in Keys \cup {None}, EnqueueV2(r, k)
    PROVE  EntriesFollow
<1> DEFINE s == r.subject
           g == NextGeneration(s)
<1>0. TypeInv /\ g \in Nat /\ g > 0
  <2>1. TypeInv /\ s \in Subjects
    BY FromDispatchType DEF LifeInv
  <2>2. g = generations[s] + 1 /\ generations[s] \in Nat
    BY <2>1, NextIsRecordedPlusOne DEF TypeInv, TypeOK
  <2> QED BY <2>1, <2>2
<1>1. CASE EnqueueReplay(r, k)
  BY <1>1, SweepFollows DEF EnqueueReplay
<1>2. CASE EnqueueExisting(r, k)
  <2> DEFINE x(i) == Bind(WithIdentity(entries[i], g), k, r)
  <2>1. PICK b \in StopsAdd(s) : \E G :
           Commit([i \in Kept |-> IF i = b THEN x(i) ELSE entries[i]],
                  Reindex(place, Kept), G, SweptRecords)
    BY <1>2 DEF EnqueueExisting
  <2>2. b \in Kept /\ b \in DOMAIN entries /\ entries[b] \in Entry
    BY <1>0, KeptFacts DEF StopsAdd, TicketedFor, WaitingFor
  <2>3. Rests(entries[b], x(b)) /\ IsTicketed(x(b))
    <3> HIDE DEF g
    <3> DEFINE y == WithIdentity(entries[b], g)
    <3>1. y \in Entry /\ y.status = entries[b].status
          /\ y.lease_generation = entries[b].lease_generation
          /\ y.lease_expires_at = entries[b].lease_expires_at
          /\ y.subject_generation > 0
      BY <1>0, <2>2 DEF WithIdentity, Entry, IsTicketed
    <3> HIDE DEF y
    <3> QED BY <3>1 DEF Bind, Rests, Running, IsTicketed, Entry, y
  <2> DEFINE E == [i \in Kept |-> IF i = b THEN x(i) ELSE entries[i]]
  <2>4. entries' = E /\ DOMAIN E = Kept /\ E[b] = x(b)
        /\ \A i \in Kept : i # b => E[i] = entries[i]
    BY <2>1, <2>2 DEF Commit
  <2> HIDE DEF E, x
  <2>5. UNCHANGED <<now, minted>> /\ Kept \subseteq DOMAIN entries
    BY <1>0, <1>2, KeptFacts DEF EnqueueExisting
  <2>6. \A i \in Kept : Follows(entries[i], E[i])
    BY <2>2, <2>3, <2>4, <2>5, SameFollows, RestingFollows
  <2> QED BY <2>4, <2>5, <2>6, KeepingFollows
<1>3. CASE EnqueueNew(r, k)
  <2> DEFINE e == [WithIdentity(FromDispatch(r), g) EXCEPT !.repository = r.repository]
             d == Bind(e, k, r)
  <2>1. Fresh(d)
    <3>1. FromDispatch(r) \in Entry /\ Fresh(FromDispatch(r))
      BY FromDispatchType DEF FromDispatch, Fresh, Running
    <3> HIDE DEF g
    <3>2. WithIdentity(FromDispatch(r), g) \in Entry
          /\ Fresh(WithIdentity(FromDispatch(r), g))
      BY <1>0, <3>1 DEF WithIdentity, Entry, Fresh, Running
    <3>3. Fresh(e)
      BY <3>2 DEF Entry, Fresh, Running
    <3> HIDE DEF e
    <3> QED BY <3>3 DEF Bind, Fresh, Running
  <2>2. \E P, G : Commit([i \in Kept \cup {minted + 1} |->
                             IF i = minted + 1 THEN d ELSE entries[i]], P, G, SweptRecords)
    BY <1>3 DEF EnqueueNew
  <2>3. minted' = minted + 1 /\ now' = now
    BY <1>3 DEF EnqueueNew
  <2> HIDE DEF d
  <2> QED BY <2>1, <2>2, <2>3, AddFollows
<1> QED BY <1>1, <1>2, <1>3 DEF EnqueueV2

(* What a hand-out does to one entry. *)
LEMMA AfterLeaseFollows ==
    ASSUME LifeInv, NEW max \in 1..MaxLeaseBatch, NEW ids, NEW owner,
           NEW L \in SUBSET Candidates(max), L \subseteq Reached(L, max),
           \A i \in L : entries[i].has_dispatch,
           NEW i \in Kept
    PROVE  Follows(entries[i], AfterLease(i, L, max, owner, ids))
<1> DEFINE g == GenerationOf(i, L, max)
           e == IF i \in Identified(L, max) THEN WithIdentity(entries[i], g) ELSE entries[i]
           w == WorkflowIdFor(i, L, ids)
<1>1. TypeInv /\ i \in DOMAIN entries /\ entries[i] \in Entry
      /\ now \in Nat /\ LeaseTtl \in Nat \ {0}
  BY KeptFacts, FencedAssumption DEF LifeInv, TypeInv, TypeOK
<1>2. AfterLease(i, L, max, owner, ids) = IF i \in L THEN HandedOut(e, owner, w) ELSE e
  BY DEF AfterLease
<1>3. e \in Entry /\ Rests(entries[i], e) /\ (IsTicketed(entries[i]) => IsTicketed(e))
      /\ (i \in Identified(L, max) => IsTicketed(e))
  <2>1. CASE i \in Identified(L, max)
    <3>1. g \in Nat /\ g > generations[entries[i].subject_id]
      BY <1>1, <2>1, LeaseCounters
    <3>2. generations[entries[i].subject_id] \in Nat
      BY <1>1, KeptFacts DEF TypeInv, TypeOK
    <3>3. g > 0
      BY <3>1, <3>2
    <3> HIDE DEF g
    <3> QED BY <1>1, <2>1, <3>1, <3>3 DEF WithIdentity, Entry, Rests, Running, IsTicketed
  <2>2. CASE i \notin Identified(L, max)
    BY <1>1, <2>2 DEF Rests
  <2> QED BY <2>1, <2>2
<1>4. Follows(entries[i], e)
  BY <1>1, <1>3, RestingFollows
<1>5. ASSUME i \in L PROVE Follows(entries[i], HandedOut(e, owner, w))
  <2> DEFINE d == HandedOut(e, owner, w)
  <2>1. IsTicketed(e)
    BY <1>3, <1>5 DEF Identified
  <2>2. entries[i].status = "Pending"
    BY <1>5, CandidatesAreKept
  <2> HIDE DEF e, w
  <2>3. d.status = "Assigned" /\ d.lease_generation = e.lease_generation + 1
        /\ d.lease_expires_at = now + LeaseTtl
        /\ d.subject_generation = e.subject_generation
    BY <1>3 DEF HandedOut, Entry
  <2>4. now + LeaseTtl \in Nat /\ now + LeaseTtl > now
    BY <1>1
  <2> HIDE DEF d
  <2>5. Starts(entries[i], d)
    BY <1>3, <2>2, <2>3, <2>4 DEF Starts, RunsUntil, Rests, Running
  <2> QED BY <2>1, <2>3, <2>5 DEF Follows, Moves, Uncounted, IsTicketed, d
<1> QED BY <1>2, <1>4, <1>5

(* queue/v2/lease *)
LEMMA LeaseV2Follows ==
    ASSUME LifeInv, NEW max \in 1..MaxLeaseBatch, NEW owner, NEW ids, NEW exclude,
           LeaseV2(max, owner, ids, exclude)
    PROVE  EntriesFollow
<1>1. PICK L \in SUBSET Candidates(max) :
        /\ L \subseteq Reached(L, max) /\ \A i \in L : entries[i].has_dispatch
        /\ entries' = [i \in Kept |-> AfterLease(i, L, max, owner, ids)]
        /\ now' = now /\ minted' = minted
  BY DEF LeaseV2, Commit
<1>2. Kept \subseteq DOMAIN entries
  BY KeptFacts DEF LifeInv
<1>3. DOMAIN entries' = Kept
      /\ \A i \in Kept : entries'[i] = AfterLease(i, L, max, owner, ids)
  BY <1>1
<1>4. \A i \in Kept : Follows(entries[i], entries'[i])
  BY <1>1, <1>3, AfterLeaseFollows
<1> QED BY <1>1, <1>2, <1>3, <1>4, KeepingFollows

-----------------------------------------------------------------------------
(* The calls without a ticket. *)

(* queue/enqueue *)
LEMMA EnqueueFollows ==
    ASSUME LifeInv, NEW r \in Requests, Enqueue(r)
    PROVE  EntriesFollow
<1> DEFINE d == FromDispatch(r)
<1>1. Fresh(d)
  BY DEF FromDispatch, Fresh, Running
<1>2. \E P : Commit([i \in Kept \cup {minted + 1} |->
                        IF i = minted + 1 THEN d ELSE entries[i]], P, generations, SweptRecords)
  BY DEF Enqueue
<1>3. minted' = minted + 1 /\ now' = now
  BY DEF Enqueue
<1> HIDE DEF d
<1> QED BY <1>1, <1>2, <1>3, AddFollows

(* An old-style lease of an entry without identity, due or overdue.         *)
LEMMA AssignFollows ==
    ASSUME LifeInv, NEW i \in DOMAIN entries, ~IsTicketed(entries[i]), NEW w, NEW t \in Nat,
           \/ entries[i].status = "Pending"
           \/ Overdue(entries[i]) /\ t = now
    PROVE  Follows(entries[i], Assign(entries[i], w, t))
<1> DEFINE e == entries[i]
           d == Assign(e, w, t)
<1>1. e \in Entry /\ e.lease_generation = 0 /\ now \in Nat /\ OldLeaseTtl \in Nat \ {0}
  BY KeptFacts, ServiceAssumption DEF LifeInv, AllUncounted, Uncounted, TypeInv, TypeOK
<1>2. d.status = "Assigned" /\ d.lease_generation = e.lease_generation
      /\ d.lease_expires_at = t + OldLeaseTtl
  <2> HIDE DEF e
  <2> QED BY <1>1 DEF Assign, Entry
<1>3. t + OldLeaseTtl \in Nat /\ (t = now => t + OldLeaseTtl > now)
  BY <1>1
<1>4. StartsOldStyle(e, d) \/ ReclaimedOldStyle(e, d)
  <2> HIDE DEF d
  <2> QED BY <1>1, <1>2, <1>3
          DEF StartsOldStyle, ReclaimedOldStyle, OldStyle, RunsUntil, Running
<1> QED BY <1>1, <1>2, <1>4 DEF Follows, Moves, Uncounted

(* queue/lease *)
LEMMA OldLeaseFollows ==
    ASSUME LifeInv, NEW max \in 1..MaxOldBatch,
           NEW ids \in [1..max -> WorkflowIds], NEW exclude, Lease(max, ids, exclude)
    PROVE  EntriesFollow
<1> DEFINE C == Chosen(max, exclude)
           w(i) == IF entries[i].workflow_id # None THEN entries[i].workflow_id
                   ELSE ids[1 + Cardinality(Ahead(C, i))]
           E == [i \in Kept |-> IF i \in C THEN Assign(entries[i], w(i), now) ELSE entries[i]]
<1>1. entries' = E /\ UNCHANGED <<now, minted>>
  BY DEF Lease, Commit
<1>2. now \in Nat /\ \A i \in DOMAIN entries : entries[i] \in Entry
  BY KeptFacts DEF LifeInv, TypeInv, TypeOK
<1>3. ASSUME NEW i \in C
      PROVE  /\ i \in DOMAIN entries /\ ~IsTicketed(entries[i])
             /\ entries[i].status = "Pending" \/ Overdue(entries[i])
  <2>1. i \in Leasable
    BY DEF Chosen, FirstN
  <2>2. i \in DOMAIN entries
    BY <2>1, KeptFacts DEF LifeInv, Leasable
  <2>3. entries[i].lease_expires_at \in Nat \cup {None}
    BY <1>2, <2>2 DEF Entry, Times
  <2>4. entries[i].lease_expires_at # None /\ entries[i].lease_expires_at < now =>
           entries[i].lease_expires_at <= now
    BY <1>2, <2>3
  <2> QED BY <2>1, <2>2, <2>4 DEF Leasable, Overdue, Running
<1>4. DOMAIN E = Kept /\ Kept \subseteq DOMAIN entries
  BY KeptFacts DEF LifeInv
<1> HIDE DEF w, C
<1>5. \A i \in Kept : Follows(entries[i], E[i])
  BY <1>2, <1>3, <1>4, AssignFollows, SameFollows
<1> HIDE DEF E
<1> QED BY <1>1, <1>4, <1>5, KeepingFollows

(* mark_assigned, at whatever time it read the clock. *)
LEMMA MarkAssignedFollows ==
    ASSUME LifeInv, NEW i \in DOMAIN entries, NEW w, NEW called \in Nat,
           MarkAssigned(i, w, called)
    PROVE  EntriesFollow
BY AssignFollows, UpdateFollows DEF MarkAssigned, UpdateOne

(* hold, release, drop, completion, release_pending, mark_assigned. *)
LEMMA OneEntryCallFollows ==
    ASSUME LifeInv, SomeOperatorCall \/ SomeCompletion \/ SomeOldAssignment
    PROVE  EntriesFollow
<1>1. now \in Nat /\ \A i \in DOMAIN entries : entries[i] \in Entry
  BY KeptFacts DEF LifeInv, TypeInv, TypeOK
<1>2. ASSUME NEW i \in DOMAIN entries, Hold(i) \/ Release(i)
      PROVE  EntriesFollow
  <2>1. PICK st : /\ st # "Assigned" /\ entries[i].status # "Assigned"
                  /\ UpdateOne(i, [entries[i] EXCEPT !.status = st])
    BY <1>2 DEF Hold, Release
  <2> DEFINE d == [entries[i] EXCEPT !.status = st]
  <2>2. Rests(entries[i], d) /\ (IsTicketed(entries[i]) => IsTicketed(d))
    BY <1>1, <2>1 DEF Entry, Rests, Running, IsTicketed
  <2>3. Follows(entries[i], d)
    BY <2>2, RestingFollows
  <2> HIDE DEF d
  <2> QED BY <2>1, <2>3, UpdateFollows DEF UpdateOne, d
<1>3. ASSUME NEW i \in DOMAIN entries, NEW o,
             RemoveOne(i, o) \/ Interrupt({Finished(i, entries[i], o)})
      PROVE  EntriesFollow
  BY <1>3, InterruptFollows, RemovalFollows DEF RemoveOne, Interrupt
<1>4. CASE SomeOperatorCall
  BY <1>2, <1>3, <1>4 DEF SomeOperatorCall, DropEntry, InterruptedDrop
<1>5. CASE SomeCompletion
  BY <1>3, <1>5 DEF SomeCompletion, Completion, InterruptedCompletion
<1>6. ASSUME NEW i \in DOMAIN entries, ReleasePending(i)
      PROVE  EntriesFollow
  <2> DEFINE e == entries[i]
             d == [e EXCEPT !.status = "Pending", !.workflow_id = None,
                            !.lease_owner = None, !.lease_expires_at = None]
  <2>1. e \in Entry /\ ~IsTicketed(e) /\ Running(e) /\ UpdateOne(i, d)
        /\ e.lease_generation = 0
    BY <1>1, <1>6 DEF ReleasePending, Running, LifeInv, AllUncounted, Uncounted
  <2>2. d.status = "Pending" /\ d.lease_generation = e.lease_generation
        /\ d.lease_expires_at = None
    <3> HIDE DEF e
    <3> QED BY <2>1 DEF Entry
  <2> HIDE DEF d
  <2>3. Follows(e, d)
    BY <2>1, <2>2 DEF Follows, Moves, PutBackOldStyle, OldStyle, Running, Uncounted
  <2> QED BY <2>1, <2>3, UpdateFollows DEF UpdateOne
<1>7. CASE SomeOldAssignment
  <2>1. \A called \in 0..now : called \in Nat
    BY <1>1
  <2> QED BY <1>6, <1>7, <2>1, MarkAssignedFollows DEF SomeOldAssignment
<1> QED BY <1>4, <1>5, <1>7

-----------------------------------------------------------------------------
(* The invariant and the theorem. *)

(* Every step of the queue that does not move the clock. *)
LEMMA NextFollows ==
    ASSUME LifeInv, Next \/ LateMark
    PROVE  EntriesFollow \/ UNCHANGED <<minted, entries>>
<1>1. CASE SomeEnqueueV2
  BY <1>1, EnqueueV2Follows DEF SomeEnqueueV2
<1>2. CASE SomeLeaseV2
  BY <1>2, LeaseV2Follows DEF SomeLeaseV2
<1>3. CASE SomeTicketCall
  BY <1>3, TicketCallFollows
<1>4. CASE InterruptedSweep \/ Tick
  BY <1>4 DEF InterruptedSweep, Interrupt, Tick, files
<1>5. CASE SomeEnqueue
  BY <1>5, EnqueueFollows DEF SomeEnqueue
<1>6. CASE SomeLease
  BY <1>6, OldLeaseFollows DEF SomeLease
<1>7. CASE NextDeadline
  BY <1>7, SweepFollows DEF NextDeadline
<1>8. CASE SomeOperatorCall \/ SomeCompletion \/ SomeOldAssignment
  BY <1>8, OneEntryCallFollows
<1>9. CASE SomeReorder
  BY <1>9 DEF SomeReorder, Reorder, Commit
<1>10. CASE LateMark
  BY <1>10, MarkAssignedFollows DEF LateMark
<1> QED BY <1>1, <1>2, <1>3, <1>4, <1>5, <1>6, <1>7, <1>8, <1>9, <1>10
        DEF Next, FencedNext, ServiceNext

(* A late mark_assigned is like any other, and to set the clock back moves  *)
(* nothing.                                                                *)
LEMMA ClockKeepsInvariants ==
    TypeInv /\ TicketInv /\ [ClockNext]_vars => (TypeInv /\ TicketInv)'
<1> SUFFICES ASSUME TypeInv, TicketInv, [ClockNext]_vars PROVE (TypeInv /\ TicketInv)'
  OBVIOUS
<1>1. CASE Next \/ UNCHANGED vars
  BY <1>1, NextTypes, NextTickets
<1>2. CASE SetBack
  <2>1. now' \in Nat /\ UNCHANGED <<files, issued, left>>
    BY <1>2 DEF SetBack
  <2>2. TypeInv'
    BY <2>1 DEF files, TypeInv, TypeOK, GenerationsDominate
  <2>3. UNCHANGED <<minted, entries, issued>>
    BY <2>1 DEF files
  <2>4. TicketInv'
    BY <2>3 DEF TicketInv, TicketsMatchEntries, TicketMatchesEntry,
                TicketsUnique, OneWorkflowPerEntry, RunningTicketedHasTicket
  <2> QED BY <2>2, <2>4
<1>3. CASE LateMark
  <2>1. PICK i \in DOMAIN entries, w \in WorkflowIds, called \in 0..MaxTime :
           MarkAssigned(i, w, called)
    BY <1>3 DEF LateMark
  <2>2. called \in Nat /\ entries[i] \in Entry
    BY KeptFacts, FilesAssumption
  <2>3. TypeInv'
    BY <2>1, <2>2, AssignType, UpdateOneKeepsTypes DEF MarkAssigned
  <2>4. TicketInv'
    BY <2>1, <2>2, AssignIsQuiet, UpdateIsQuiet DEF MarkAssigned, UpdateOne
  <2> QED BY <2>3, <2>4
<1> QED BY <1>1, <1>2, <1>3 DEF ClockNext

(* Leftovers of an older version have had no ticket. *)
LEMMA InitUncounted == Init => AllUncounted
<1> SUFFICES ASSUME Init PROVE AllUncounted
  OBVIOUS
<1>1. PICK q \in Leftovers : entries = [i \in 1..Len(q) |-> q[i]]
  BY DEF Init, FilesInit
<1>2. q \in Seq({e \in Entry : OldStyleEntry(e)})
  BY FilesAssumption
<1>3. \A i \in 1..Len(q) : OldStyleEntry(q[i])
  BY <1>2
<1> QED BY <1>1, <1>3 DEF AllUncounted, Uncounted, OldStyleEntry

(* What follows is uncounted, and what is new too. *)
LEMMA FollowingIsUncounted ==
    ASSUME EntriesFollow
    PROVE  AllUncounted'
BY DEF EntriesFollow, Follows, Fresh, Uncounted, AllUncounted

LEMMA ClockKeepsLifeInv == LifeInv /\ [ClockNext]_vars => LifeInv'
<1> SUFFICES ASSUME LifeInv, [ClockNext]_vars PROVE LifeInv'
  OBVIOUS
<1>1. TypeInv' /\ TicketInv'
  BY ClockKeepsInvariants DEF LifeInv
<1>2. EntriesFollow \/ UNCHANGED entries
  BY NextFollows DEF ClockNext, SetBack, vars, files
<1>3. AllUncounted'
  BY <1>2, FollowingIsUncounted DEF LifeInv, AllUncounted, Uncounted
<1> QED BY <1>1, <1>3 DEF LifeInv

(* Everything the ticket proofs need also holds when the clock is set back. *)
LEMMA LifeInvariant == ClockSpec => []LifeInv
<1>1. Init => LifeInv
  BY InitTypes, InitTickets, InitUncounted DEF LifeInv
<1> QED BY <1>1, ClockKeepsLifeInv, PTL DEF ClockSpec

(* Every entry starts an entry's life: there is none yet, or it is left by  *)
(* an older version, without a lease.                                      *)
LEMMA InitLife == Init => Life!Init
<1> SUFFICES ASSUME Init PROVE Life!Init
  OBVIOUS
<1>1. PICK q \in Leftovers : minted = Len(q) /\ entries = [i \in 1..Len(q) |-> q[i]]
  BY DEF Init, FilesInit
<1>2. q \in Seq({e \in Entry : OldStyleEntry(e)})
  BY FilesAssumption
<1>3. Len(q) \in Nat /\ \A i \in 1..Len(q) : OldStyleEntry(q[i])
  BY <1>2
<1>4. now = 0 /\ Watched \in Nat \ {0}
  BY WatchedAssumption DEF Init, FilesInit
<1>5. CASE Live
  BY <1>1, <1>3, <1>4, <1>5 DEF Life!Init, Phase, Gen, Till, Live, OldStyleEntry
<1>6. CASE ~Live
  BY <1>1, <1>3, <1>4, <1>6 DEF Life!Init, Phase, Gen, Till, Live
<1> QED BY <1>5, <1>6

(* Every step is one of the watched entry's life, or leaves it alone. *)
LEMMA ClockStepsLife == LifeInv /\ [ClockNext]_vars => [Life!Next]_(Life!vars)
<1> SUFFICES ASSUME LifeInv, [ClockNext]_vars PROVE [Life!Next]_(Life!vars)
  OBVIOUS
<1>1. LifeInv' /\ now' \in Nat
  BY ClockKeepsLifeInv DEF LifeInv, TypeInv, TypeOK
<1>2. CASE EntriesFollow
  BY <1>2, LifeStep DEF LifeInv
<1>3. CASE UNCHANGED <<minted, entries>>
  <2>1. UNCHANGED <<Phase, Gen, Till>>
    BY <1>3 DEF Phase, Gen, Till, Live
  <2> QED BY <1>1, <2>1 DEF Life!Next, Life!Pass
<1>4. EntriesFollow \/ UNCHANGED <<minted, entries>>
  BY NextFollows DEF ClockNext, SetBack, vars, files
<1> QED BY <1>2, <1>3, <1>4

(* A clock that is set back makes no earlier ticket work again, although it *)
(* makes expired leases live.                                              *)
THEOREM TicketsHoldUnderAnyClock == ClockSpec => []SupersededTicketIsInert
<1>1. LifeInv => SupersededTicketIsInert
  BY EarlierTicketsAreInert DEF LifeInv
<1> QED BY <1>1, LifeInvariant, PTL

(* For any number of callers, entries and versions' leftovers, any clock    *)
(* and any crash between the two writes of a commit, every entry lives     *)
(* EntryLife: one lease at a time, counted up, ended by a finish, a        *)
(* put-back or a takeover after its expiry, and gone once finished.        *)
THEOREM QueueImplementsLife == ClockSpec => ImplementsLife
<1>1. Init => Life!Init
  BY InitLife
<1>2. LifeInv /\ [ClockNext]_vars => [Life!Next]_(Life!vars)
  BY ClockStepsLife
<1> QED BY <1>1, <1>2, LifeInvariant, PTL DEF ClockSpec, ImplementsLife, Life!Spec

=============================================================================
