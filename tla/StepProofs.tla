------------------------------ MODULE StepProofs ------------------------------
(***************************************************************************)
(* What any step of the queue does to the two files and the tickets, and   *)
(* what follows from it: the action properties, the history, the receipts, *)
(* the generations of subjects and the branches, for every value of the    *)
(* constants and under any clock.                                          *)
(*                                                                         *)
(* The argument: StepShape describes a step by what it keeps and what it   *)
(* adds, entry by entry.  One lemma per handler shows it; everything else  *)
(* is proved from StepShape without looking at a handler again.            *)
(***************************************************************************)
EXTENDS LifeProofs, WellFoundedInduction

(* Every ticket has a lease and a subject generation. *)
TicketsCount == \A f \in issued : f.subject_generation > 0 /\ f.generation > 0

(* The Vec holds each entry once: indices are counted from 1 and differ.    *)
PlaceInv ==
    /\ \A i \in DOMAIN entries : place[i] >= 1
    /\ \A i, j \in DOMAIN entries : place[i] = place[j] => i = j

(* Only ticketed adds make reservations. *)
RepositoriesTicketed ==
    \A i \in DOMAIN entries : entries[i].repository # None => IsTicketed(entries[i])

-----------------------------------------------------------------------------
(* What becomes of an entry e that stays, as d. *)

(* A running entry without identity is only handed out again once overdue,  *)
(* with its workflow id, and gets no identity while it runs.               *)
LeftAlone(e, d) ==
    ~IsTicketed(e) /\ Running(e) /\ Running(d) =>
        /\ ~IsTicketed(d)
        /\ e.workflow_id # None => d.workflow_id = e.workflow_id
        /\ e.lease_expires_at # d.lease_expires_at =>
              e.lease_expires_at # None /\ e.lease_expires_at < now

(* Subject, reservation and keys stay, generations never fall, and what a   *)
(* ticket names changes with the lease generation only.                    *)
Inherits(e, d) ==
    /\ d.subject_id = e.subject_id
    /\ d.repository = e.repository
    /\ d.workflow_generation >= e.workflow_generation
    /\ d.lease_generation >= e.lease_generation
    /\ IsTicketed(e) => d.subject_generation = e.subject_generation
    /\ IsTicketed(e) /\ d.lease_generation = e.lease_generation =>
          /\ d.workflow_id = e.workflow_id
          /\ d.workflow_generation = e.workflow_generation
          /\ d.lease_owner = e.lease_owner
    /\ \A k \in Keys : e.bound[k] # None => d.bound[k] = e.bound[k]
    /\ Uncounted(e) => Uncounted(d)
    /\ d.status = "Unknown" => e.status = "Unknown"
    /\ LeftAlone(e, d)

(* And besides no identity is given, no key bound and no ticketed run begun.*)
Quiet(e, d) ==
    /\ Inherits(e, d)
    /\ d.bound = e.bound
    /\ IsTicketed(d) => IsTicketed(e)
    /\ Running(d) => Running(e) \/ ~IsTicketed(e)

NewEntry(d) ==
    /\ d.status = "Pending" /\ d.lease_generation = 0
    /\ d.repository # None => IsTicketed(d)

EntriesInherit ==
    /\ minted' \in {minted, minted + 1}
    /\ minted' # minted => minted' \in DOMAIN entries'
    /\ \A i \in DOMAIN entries' :
          \/ i \in DOMAIN entries /\ Inherits(entries[i], entries'[i])
          \/ i = minted + 1 /\ minted' = minted + 1 /\ NewEntry(entries'[i])

-----------------------------------------------------------------------------
(* What the step adds to the history, the tickets, the counters, the keys. *)

(* F finishes the entries in S, one record for each. *)
Finishes(F, S) ==
    /\ \A h \in F : /\ h.entry_id \in S
                    /\ \E o \in HistoryOutcome :
                          h = Finished(h.entry_id, entries[h.entry_id], o)
    /\ \A i \in S : \E h \in F : h.entry_id = i
    /\ \A h, x \in F : h.entry_id = x.entry_id => h = x

(* A commit records exactly the entries it removes; an interrupted one      *)
(* records some and removes none.                                          *)
Records ==
    \E S \in SUBSET DOMAIN entries, F \in SUBSET HistoryRecord :
        /\ Finishes(F, S)
        /\ history' = IF F = {} THEN history ELSE Append(history, F)
        /\ \/ left' = left \cup F /\ DOMAIN entries \ DOMAIN entries' = S
           \/ left' = left /\ DOMAIN entries \subseteq DOMAIN entries'

NewTickets ==
    /\ issued \subseteq issued'
    /\ \A f \in issued' \ issued :
          \E i \in DOMAIN entries' :
              /\ f = ExecutionFence(i, entries'[i])
              /\ IsTicketed(entries'[i]) /\ entries'[i].lease_generation > 0

HadIdentity(i) == i \in DOMAIN entries /\ IsTicketed(entries[i])
GotIdentity(i) == IsTicketed(entries'[i]) /\ ~HadIdentity(i)

(* New generations of a subject are above its counter, within the new one,  *)
(* and differ.                                                             *)
NewIdentities ==
    /\ \A s \in Subjects : generations'[s] >= generations[s]
    /\ \A i \in DOMAIN entries' : GotIdentity(i) =>
          LET s == entries'[i].subject_id  g == entries'[i].subject_generation IN
          generations[s] < g /\ g <= generations'[s]
    /\ PlaceInv => \A i, j \in DOMAIN entries' :
          /\ GotIdentity(i) /\ GotIdentity(j)
          /\ entries'[i].subject_id = entries'[j].subject_id
          /\ entries'[i].subject_generation = entries'[j].subject_generation
          => i = j

HadKey(i, k) == i \in DOMAIN entries /\ entries[i].bound[k] # None

(* A key is bound once, to a ticketed entry. *)
NewKeys ==
    \A k \in Keys, i \in DOMAIN entries' :
        entries'[i].bound[k] # None /\ ~HadKey(i, k) =>
            /\ ~KeyKnown(k) /\ IsTicketed(entries'[i])
            /\ \A j \in DOMAIN entries' : j # i => entries'[j].bound[k] = None

RanBefore(i) == i \in DOMAIN entries /\ Running(entries[i])

(* Two entries on one branch do not run unless both ran before. *)
BranchesFree ==
    PlaceInv /\ RepositoriesTicketed =>
        \A i, j \in DOMAIN entries' :
            /\ i # j /\ Running(entries'[i]) /\ Running(entries'[j])
            /\ SameBranch(entries'[i].repository, entries'[j].repository)
            => RanBefore(i) /\ RanBefore(j)

(* Entries are removed from the Vec, added at its end, or reordered. *)
PlacesFollow ==
    \/ DOMAIN entries' = DOMAIN entries /\ place' = place
    \/ \E S \in SUBSET DOMAIN entries :
          DOMAIN entries' = S /\ place' = Reindex(place, S)
    \/ /\ DOMAIN entries' = Kept \cup {minted + 1}
       /\ place' = [i \in Kept \cup {minted + 1} |->
                       IF i = minted + 1 THEN Cardinality(Kept) + 1
                       ELSE Reindex(place, Kept)[i]]
    \/ /\ SomeReorder /\ DOMAIN entries' = DOMAIN entries
       /\ \E n \in 1..Cardinality(DOMAIN entries) : \E ids \in [1..n -> DOMAIN entries] :
             place' = Reindex([i \in DOMAIN entries |-> NewRank(ids, i)], DOMAIN entries)

StepShape ==
    /\ EntriesInherit /\ Records /\ NewTickets /\ NewIdentities
    /\ NewKeys /\ BranchesFree /\ PlacesFollow

-----------------------------------------------------------------------------
(* Lemmas on the descriptions. *)

(* Nothing about the entry changes. *)
LEMMA SameIsQuiet ==
    ASSUME TypeInv, NEW i \in DOMAIN entries
    PROVE  Quiet(entries[i], entries[i])
<1>1. entries[i] \in Entry
  BY KeptFacts
<1> QED BY <1>1 DEF Quiet, Inherits, LeftAlone, Entry

(* What is swept is what the sweep records. *)
LEMMA SweptFinishes ==
    ASSUME TypeInv
    PROVE  /\ Finishes(SweptRecords, Swept) /\ Swept \in SUBSET DOMAIN entries
           /\ SweptRecords \in SUBSET HistoryRecord
           /\ DOMAIN entries \ Kept = Swept
<1>1. "Dropped" \in HistoryOutcome
  BY DEF HistoryOutcome
<1>2. \A i : Finished(i, entries[i], "Dropped").entry_id = i
  BY DEF Finished
<1>3. \A h \in SweptRecords :
         h.entry_id \in Swept /\ h = Finished(h.entry_id, entries[h.entry_id], "Dropped")
  BY <1>2 DEF SweptRecords
<1>4. \A i \in Swept : \E h \in SweptRecords : h.entry_id = i
  BY <1>2 DEF SweptRecords
<1>5. Swept \subseteq DOMAIN entries /\ DOMAIN entries \ Kept = Swept
  BY DEF Swept, Kept
<1> HIDE DEF SweptRecords
<1> QED BY <1>1, <1>3, <1>4, <1>5, KeptFacts DEF Finishes

(* One record finishes one entry. *)
LEMMA OneFinishes ==
    ASSUME TypeInv, NEW i \in DOMAIN entries, NEW o \in HistoryOutcome
    PROVE  /\ Finishes({Finished(i, entries[i], o)}, {i})
           /\ {Finished(i, entries[i], o)} \in SUBSET HistoryRecord
<1>1. Finished(i, entries[i], o).entry_id = i
  BY DEF Finished
<1>2. Finished(i, entries[i], o) \in HistoryRecord
  BY KeptFacts, FinishedType
<1> QED BY <1>1, <1>2 DEF Finishes

(* No record finishes no entry. *)
LEMMA NothingFinishes == Finishes({}, {})
BY DEF Finishes

(* A step that makes no entry, gives no identity and binds no key. *)
LEMMA QuietShape ==
    ASSUME TypeInv, minted' = minted, generations' = generations,
           DOMAIN entries' \subseteq DOMAIN entries,
           \A i \in DOMAIN entries' : Quiet(entries[i], entries'[i]),
           Records, NewTickets, PlacesFollow
    PROVE  StepShape
<1>1. EntriesInherit
  BY DEF EntriesInherit, Quiet
<1>2. NewIdentities
  <2>1. \A s \in Subjects : generations[s] \in Nat
    BY DEF TypeInv, TypeOK
  <2>2. \A i \in DOMAIN entries' : ~GotIdentity(i)
    BY DEF GotIdentity, HadIdentity, Quiet
  <2> QED BY <2>1, <2>2 DEF NewIdentities
<1>3. NewKeys
  <2>1. \A k : \A i \in DOMAIN entries' : entries'[i].bound[k] # None => HadKey(i, k)
    BY DEF HadKey, Quiet
  <2> QED BY <2>1 DEF NewKeys
<1>4. BranchesFree
  <2> SUFFICES ASSUME RepositoriesTicketed,
                      NEW i \in DOMAIN entries', NEW j \in DOMAIN entries',
                      Running(entries'[i]), Running(entries'[j]),
                      SameBranch(entries'[i].repository, entries'[j].repository)
               PROVE  RanBefore(i) /\ RanBefore(j)
    BY DEF BranchesFree
  <2>1. /\ i \in DOMAIN entries /\ Quiet(entries[i], entries'[i])
        /\ j \in DOMAIN entries /\ Quiet(entries[j], entries'[j])
    OBVIOUS
  <2>2. entries[i].repository # None /\ entries[j].repository # None
    BY <2>1 DEF SameBranch, Quiet, Inherits
  <2>3. IsTicketed(entries[i]) /\ IsTicketed(entries[j])
    BY <2>1, <2>2 DEF RepositoriesTicketed
  <2> QED BY <2>1, <2>3 DEF RanBefore, Quiet
<1> QED BY <1>1, <1>2, <1>3, <1>4 DEF StepShape

(* A commit that only removes entries. *)
LEMMA RemovalShape ==
    ASSUME TypeInv, NEW S \in SUBSET DOMAIN entries, NEW F \in SUBSET HistoryRecord,
           Finishes(F, DOMAIN entries \ S),
           Commit([i \in S |-> entries[i]], Reindex(place, S), generations, F),
           UNCHANGED <<minted, issued>>
    PROVE  StepShape
<1> DEFINE E == [i \in S |-> entries[i]]
<1>1. entries' = E /\ DOMAIN E = S /\ \A i \in S : E[i] = entries[i]
  BY DEF Commit
<1> HIDE DEF E
<1>2. \A i \in DOMAIN entries' : Quiet(entries[i], entries'[i])
  BY <1>1, SameIsQuiet
<1>3. Records
  BY <1>1 DEF Commit, Records
<1>4. NewTickets
  BY DEF NewTickets
<1>5. PlacesFollow
  BY <1>1 DEF Commit, PlacesFollow
<1>6. minted' = minted /\ generations' = generations
  BY DEF Commit
<1> QED BY <1>1, <1>2, <1>3, <1>4, <1>5, <1>6, QuietShape

(* A commit that rewrites one entry. *)
LEMMA UpdateShape ==
    ASSUME TypeInv, NEW i \in DOMAIN entries, NEW d, Quiet(entries[i], d),
           Commit([entries EXCEPT ![i] = d], place, generations, {}),
           minted' = minted, NewTickets
    PROVE  StepShape
<1> DEFINE E == [entries EXCEPT ![i] = d]
<1>1. entries' = E /\ DOMAIN E = DOMAIN entries
      /\ E[i] = d /\ \A j \in DOMAIN entries : j # i => E[j] = entries[j]
  BY DEF Commit, TypeInv, TypeOK
<1> HIDE DEF E
<1>2. \A j \in DOMAIN entries' : Quiet(entries[j], entries'[j])
  BY <1>1, SameIsQuiet
<1>3. Records
  BY <1>1, NothingFinishes DEF Commit, Records
<1>4. PlacesFollow
  BY <1>1 DEF Commit, PlacesFollow
<1>5. generations' = generations
  BY DEF Commit
<1> QED BY <1>1, <1>2, <1>3, <1>4, <1>5, QuietShape

(* A step that may write the history and leaves queue.json alone. *)
LEMMA IdleShape ==
    ASSUME TypeInv, UNCHANGED <<minted, entries, place, generations, issued>>, Records
    PROVE  StepShape
<1>1. \A i \in DOMAIN entries' : Quiet(entries[i], entries'[i])
  BY SameIsQuiet
<1>2. NewTickets /\ PlacesFollow
  BY DEF NewTickets, PlacesFollow
<1> QED BY <1>1, <1>2, QuietShape

LEMMA InterruptShape ==
    ASSUME TypeInv, NEW S \in SUBSET DOMAIN entries, NEW F \in SUBSET HistoryRecord,
           Finishes(F, S), Interrupt(F)
    PROVE  StepShape
<1>1. Records /\ UNCHANGED <<minted, entries, place, generations, issued>>
  BY DEF Records, Interrupt
<1> QED BY <1>1, IdleShape

(* A call that only sweeps. *)
LEMMA SweepShape ==
    ASSUME TypeInv, CommitSweep
    PROVE  StepShape
<1>1. Kept \in SUBSET DOMAIN entries /\ SweptRecords \in SUBSET HistoryRecord
  BY KeptFacts
<1>2. Finishes(SweptRecords, DOMAIN entries \ Kept)
  BY SweptFinishes
<1> QED BY <1>1, <1>2, RemovalShape DEF CommitSweep

(* A commit that sweeps and adds an entry that waits. *)
LEMMA AddShape ==
    ASSUME TypeInv, NEW d \in Entry, NewEntry(d), NEW G,
           \A s \in Subjects : G[s] >= generations[s],
           IsTicketed(d) => /\ generations[d.subject_id] < d.subject_generation
                            /\ d.subject_generation <= G[d.subject_id],
           \A k \in Keys : d.bound[k] # None => ~KeyKnown(k) /\ IsTicketed(d),
           minted' = minted + 1, issued' = issued,
           Commit([i \in Kept \cup {minted + 1} |-> IF i = minted + 1 THEN d ELSE entries[i]],
                  [i \in Kept \cup {minted + 1} |->
                      IF i = minted + 1 THEN Cardinality(Kept) + 1
                      ELSE Reindex(place, Kept)[i]],
                  G, SweptRecords)
    PROVE  StepShape
<1> DEFINE n == minted + 1
           E == [i \in Kept \cup {n} |-> IF i = n THEN d ELSE entries[i]]
<1>1. /\ entries' = E /\ generations' = G /\ DOMAIN E = Kept \cup {n}
      /\ E[n] = d /\ \A i \in Kept : i # n => E[i] = entries[i]
  BY DEF Commit
<1>2. minted \in Nat /\ Kept \subseteq DOMAIN entries
      /\ n \notin DOMAIN entries /\ n # minted
  BY KeptFacts DEF TypeInv, TypeOK
<1> HIDE DEF E
<1>3. \A i \in Kept : i \in DOMAIN entries /\ i # n /\ E[i] = entries[i]
                     /\ Quiet(entries[i], E[i])
  BY <1>1, <1>2, SameIsQuiet
<1>4. EntriesInherit
  BY <1>1, <1>2, <1>3 DEF EntriesInherit, Quiet
<1>5. Records
  <2>1. DOMAIN entries \ DOMAIN entries' = Swept
    BY <1>1, <1>2, SweptFinishes
  <2> QED BY <2>1, SweptFinishes DEF Commit, Records
<1>6. NewTickets
  BY DEF NewTickets
<1>7. NewIdentities
  <2>1. \A i \in DOMAIN entries' : GotIdentity(i) => i = n
    BY <1>1, <1>3 DEF GotIdentity, HadIdentity
  <2>2. GotIdentity(n) => IsTicketed(d)
    BY <1>1 DEF GotIdentity
  <2> QED BY <1>1, <2>1, <2>2 DEF NewIdentities
<1>8. NewKeys
  <2> SUFFICES ASSUME NEW k \in Keys, NEW i \in DOMAIN entries',
                      entries'[i].bound[k] # None, ~HadKey(i, k)
               PROVE  /\ ~KeyKnown(k) /\ IsTicketed(entries'[i])
                      /\ \A j \in DOMAIN entries' : j # i => entries'[j].bound[k] = None
    BY DEF NewKeys
  <2>1. i = n /\ entries'[i] = d
    BY <1>1, <1>3 DEF HadKey
  <2>2. ~KeyKnown(k) /\ IsTicketed(d)
    BY <2>1
  <2>3. \A j \in DOMAIN entries : entries[j].bound[k] = None
    BY <2>2 DEF KeyKnown, HasKey, BoundRequestHash
  <2> QED BY <1>1, <1>3, <2>1, <2>2, <2>3
<1>9. BranchesFree
  <2>1. \A i \in DOMAIN entries' : Running(entries'[i]) => RanBefore(i)
    BY <1>1, <1>3 DEF RanBefore, NewEntry, Running
  <2> QED BY <2>1 DEF BranchesFree
<1>10. PlacesFollow
  BY <1>1 DEF Commit, PlacesFollow
<1> QED BY <1>4, <1>5, <1>6, <1>7, <1>8, <1>9, <1>10 DEF StepShape

-----------------------------------------------------------------------------
(* The calls with a ticket. *)

(* A ticket that matches is one of a ticketed, running entry. *)
LEMMA AppliedIsTicketed ==
    ASSUME TypeInv, TicketsCount, NEW f \in issued, NEW op, NEW o,
           FencedMutation(f, op, o) = "Applied"
    PROVE  LET e == entries[f.entry_id] IN
           /\ f.entry_id \in DOMAIN entries /\ e \in Entry
           /\ IsTicketed(e) /\ Running(e) /\ e.lease_generation > 0
<1>1. /\ f.entry_id \in DOMAIN entries
      /\ entries[f.entry_id].status = "Assigned"
      /\ ExactFenceMatches(f.entry_id, entries[f.entry_id], f)
  BY AppliedMatches
<1> QED BY <1>1, KeptFacts DEF TicketsCount, ExactFenceMatches, IsTicketed, Running

(* renew, recover, completion and release_pending with a ticket. *)
LEMMA TicketCallShape ==
    ASSUME TypeInv, TicketsCount, SomeTicketCall
    PROVE  StepShape
<1>1. PICK f \in issued :
        \/ \E ttl \in AskedTtls : RenewLease(f, ttl)
        \/ \E owner \in Owners, ttl \in AskedTtls : RecoverLease(f, owner, ttl)
        \/ \E outcome \in AskedOutcomes :
              CompletionV2(f, outcome) \/ InterruptedCompletionV2(f, outcome)
        \/ ReleasePendingV2(f)
  BY DEF SomeTicketCall
<1> DEFINE i == f.entry_id
           e == entries[i]
<1>2. AskedOutcomes \subseteq HistoryOutcome
  BY FilesAssumption DEF CompletionStatus
<1>3. ASSUME NEW op, NEW o, FencedMutation(f, op, o) = "Applied"
      PROVE  /\ i \in DOMAIN entries /\ e \in Entry /\ IsTicketed(e) /\ Running(e)
             /\ e.lease_generation > 0
  BY <1>3, AppliedIsTicketed
<1>4. ASSUME NEW d, i \in DOMAIN entries, Quiet(e, d), UpdateEntry(i, d), UNCHANGED issued
      PROVE  StepShape
  <2>1. NewTickets
    BY <1>4 DEF NewTickets
  <2>2. minted' = minted /\ Commit([entries EXCEPT ![i] = d], place, generations, {})
    BY <1>4 DEF UpdateEntry
  <2> QED BY <1>4, <2>1, <2>2, UpdateShape
<1>5. ASSUME NEW ttl \in AskedTtls, RenewLease(f, ttl)
      PROVE  StepShape
  <2> DEFINE t == now + RequestedTtl(ttl)
             x == IF e.lease_expires_at > t THEN e.lease_expires_at ELSE t
             d == [e EXCEPT !.lease_expires_at = x]
  <2>1. i \in DOMAIN entries /\ e \in Entry /\ IsTicketed(e) /\ Running(e)
    BY <1>3, <1>5 DEF RenewLease
  <2>2. UpdateEntry(i, d) /\ UNCHANGED issued
    BY <1>5 DEF RenewLease
  <2> HIDE DEF x
  <2>3. Quiet(e, d)
    <3> HIDE DEF e
    <3> QED BY <2>1 DEF Quiet, Inherits, LeftAlone, Uncounted, IsTicketed, Running, Entry
  <2> HIDE DEF d
  <2> QED BY <1>4, <2>1, <2>2, <2>3
<1>6. ASSUME NEW owner \in Owners, NEW ttl \in AskedTtls, RecoverLease(f, owner, ttl)
      PROVE  StepShape
  <2> DEFINE t == now + RequestedTtl(ttl)
             n == e.lease_generation + 1
             d == [e EXCEPT !.lease_owner = owner, !.lease_generation = n,
                            !.lease_expires_at = t]
  <2>1. i \in DOMAIN entries /\ e \in Entry /\ IsTicketed(e) /\ Running(e)
    BY <1>3, <1>6 DEF RecoverLease
  <2>2. UpdateEntry(i, d) /\ issued' = issued \cup {ExecutionFence(i, d)}
    BY <1>6 DEF RecoverLease
  <2>3. e.lease_generation \in Nat /\ n \in Nat /\ n > e.lease_generation /\ n > 0
    <3> HIDE DEF e
    <3> QED BY <2>1 DEF Entry
  <2> HIDE DEF n, t
  <2>4. /\ d.subject_id = e.subject_id /\ d.repository = e.repository
        /\ d.workflow_generation = e.workflow_generation
        /\ d.subject_generation = e.subject_generation
        /\ d.lease_generation = n /\ d.bound = e.bound /\ d.status = e.status
        /\ e.workflow_generation \in Nat
    <3> HIDE DEF e
    <3> QED BY <2>1 DEF Entry
  <2> HIDE DEF d
  <2>5. Quiet(e, d)
    <3> HIDE DEF e
    <3> QED BY <2>1, <2>3, <2>4
            DEF Quiet, Inherits, LeftAlone, Uncounted, IsTicketed, Running
  <2>6. minted' = minted /\ Commit([entries EXCEPT ![i] = d], place, generations, {})
    BY <2>2 DEF UpdateEntry
  <2>7. i \in DOMAIN entries' /\ entries'[i] = d
    BY <2>1, <2>6 DEF Commit, TypeInv, TypeOK
  <2>8. NewTickets
    BY <2>1, <2>2, <2>3, <2>4, <2>7 DEF NewTickets, IsTicketed
  <2> QED BY <2>1, <2>5, <2>6, <2>8, UpdateShape
<1>7. ASSUME NEW outcome \in AskedOutcomes, CompletionV2(f, outcome)
      PROVE  StepShape
  <2> DEFINE S == DOMAIN entries \ {i}
             F == {Finished(i, e, outcome)}
  <2>1. i \in DOMAIN entries
    BY <1>3, <1>7 DEF CompletionV2
  <2>2. S \in SUBSET DOMAIN entries /\ DOMAIN entries \ S = {i}
    BY <2>1
  <2>3. Finishes(F, {i}) /\ F \in SUBSET HistoryRecord
    BY <1>2, <2>1, OneFinishes
  <2>4. Commit([j \in S |-> entries[j]], Reindex(place, S), generations, F)
        /\ UNCHANGED <<minted, issued>>
    BY <1>7 DEF CompletionV2, Remove, Without
  <2> HIDE DEF S, F
  <2> QED BY <2>2, <2>3, <2>4, RemovalShape
<1>8. ASSUME NEW outcome \in AskedOutcomes, InterruptedCompletionV2(f, outcome)
      PROVE  StepShape
  <2>1. i \in DOMAIN entries
    BY <1>3, <1>8 DEF InterruptedCompletionV2
  <2> QED BY <1>2, <1>8, <2>1, OneFinishes, InterruptShape DEF InterruptedCompletionV2
<1>9. ASSUME ReleasePendingV2(f)
      PROVE  StepShape
  <2> DEFINE d == [e EXCEPT !.status = "Pending"]
  <2>1. i \in DOMAIN entries /\ e \in Entry /\ IsTicketed(e)
    BY <1>3, <1>9 DEF ReleasePendingV2
  <2>2. UpdateEntry(i, d) /\ UNCHANGED issued
    BY <1>9 DEF ReleasePendingV2
  <2>3. Quiet(e, d)
    <3> HIDE DEF e
    <3> QED BY <2>1 DEF Quiet, Inherits, LeftAlone, Uncounted, IsTicketed, Running, Entry
  <2> HIDE DEF d
  <2> QED BY <1>4, <2>1, <2>2, <2>3
<1> QED BY <1>1, <1>5, <1>6, <1>7, <1>8, <1>9

-----------------------------------------------------------------------------
(* The calls without a ticket. *)

(* queue/enqueue *)
LEMMA EnqueueShape ==
    ASSUME TypeInv, NEW r \in Requests, Enqueue(r)
    PROVE  StepShape
<1> DEFINE d == FromDispatch(r)
<1>1. \A s \in Subjects : generations[s] \in Nat
  BY DEF TypeInv, TypeOK
<1>2. d \in Entry /\ ~IsTicketed(d) /\ NewEntry(d)
  BY FromDispatchType DEF FromDispatch, IsTicketed, NewEntry, Running
<1>3. \A k \in Keys : d.bound[k] = None
  BY DEF FromDispatch
<1>4. /\ minted' = minted + 1 /\ issued' = issued
      /\ Commit([i \in Kept \cup {minted + 1} |-> IF i = minted + 1 THEN d ELSE entries[i]],
                [i \in Kept \cup {minted + 1} |->
                    IF i = minted + 1 THEN Cardinality(Kept) + 1
                    ELSE Reindex(place, Kept)[i]],
                generations, SweptRecords)
  BY DEF Enqueue
<1> HIDE DEF d
<1>5. \A s \in Subjects : generations[s] >= generations[s]
  BY <1>1
<1> QED BY <1>2, <1>3, <1>4, <1>5, AddShape

(* An old-style assignment of a waiting or overdue entry without identity;  *)
(* an overdue one keeps its workflow id.                                   *)
LEMMA AssignIsQuietStep ==
    ASSUME TypeInv, NEW i \in DOMAIN entries, ~IsTicketed(entries[i]), NEW w, NEW t,
           Running(entries[i]) =>
               /\ entries[i].lease_expires_at # None /\ entries[i].lease_expires_at < now
               /\ entries[i].workflow_id # None => w = entries[i].workflow_id
    PROVE  Quiet(entries[i], Assign(entries[i], w, t))
<1> DEFINE e == entries[i]
           d == Assign(e, w, t)
<1>1. e \in Entry
  BY KeptFacts
<1>2. /\ d.subject_id = e.subject_id /\ d.repository = e.repository
      /\ d.workflow_generation = e.workflow_generation
      /\ d.subject_generation = e.subject_generation
      /\ d.lease_generation = e.lease_generation /\ d.bound = e.bound
      /\ d.workflow_id = w /\ d.status = "Assigned"
      /\ e.workflow_generation \in Nat /\ e.lease_generation \in Nat
  <2> HIDE DEF e
  <2> QED BY <1>1 DEF Assign, Entry
<1>3. /\ ~IsTicketed(e)
      /\ Running(e) => /\ e.lease_expires_at # None /\ e.lease_expires_at < now
                       /\ e.workflow_id # None => w = e.workflow_id
  OBVIOUS
<1>4. Quiet(e, d)
  <2> HIDE DEF e, d
  <2> QED BY <1>2, <1>3 DEF Quiet, Inherits, LeftAlone, Uncounted, IsTicketed
<1> QED BY <1>4

(* queue/lease *)
LEMMA OldLeaseShape ==
    ASSUME TypeInv, NEW max \in 1..MaxOldBatch, NEW ids, NEW exclude, Lease(max, ids, exclude)
    PROVE  StepShape
<1> DEFINE C == Chosen(max, exclude)
           w(i) == IF entries[i].workflow_id # None THEN entries[i].workflow_id
                   ELSE ids[1 + Cardinality(Ahead(C, i))]
           E == [i \in Kept |-> IF i \in C THEN Assign(entries[i], w(i), now) ELSE entries[i]]
<1>1. Commit(E, Reindex(place, Kept), generations, SweptRecords) /\ UNCHANGED <<minted, issued>>
  BY DEF Lease
<1>2. ASSUME NEW i \in C
      PROVE  /\ i \in DOMAIN entries /\ ~IsTicketed(entries[i])
             /\ Running(entries[i]) =>
                   entries[i].lease_expires_at # None /\ entries[i].lease_expires_at < now
             /\ entries[i].workflow_id # None => w(i) = entries[i].workflow_id
  <2>1. i \in Leasable
    BY DEF Chosen, FirstN
  <2> QED BY <2>1, KeptFacts DEF Leasable, Running
<1>3. DOMAIN E = Kept /\ Kept \in SUBSET DOMAIN entries
      /\ \A i \in Kept : E[i] = IF i \in C THEN Assign(entries[i], w(i), now) ELSE entries[i]
  BY KeptFacts
<1> HIDE DEF w, C, E
<1>4. \A i \in Kept : Quiet(entries[i], E[i])
  BY <1>2, <1>3, AssignIsQuietStep, SameIsQuiet
<1>5. entries' = E /\ generations' = generations
  BY <1>1 DEF Commit
<1>6. Records
  BY <1>1, <1>3, <1>5, SweptFinishes DEF Commit, Records
<1>7. NewTickets
  BY <1>1 DEF NewTickets
<1>8. PlacesFollow
  BY <1>1, <1>3, <1>5 DEF Commit, PlacesFollow
<1> QED BY <1>1, <1>3, <1>4, <1>5, <1>6, <1>7, <1>8, QuietShape

(* hold, release, drop, completion, release_pending and mark_assigned. *)
LEMMA OneEntryCallShape ==
    ASSUME TypeInv, SomeOperatorCall \/ SomeCompletion \/ SomeOldAssignment \/ LateMark
    PROVE  StepShape
<1>1. \A i \in DOMAIN entries : entries[i] \in Entry
  BY KeptFacts
<1>2. AskedOutcomes \subseteq HistoryOutcome /\ "Dropped" \in HistoryOutcome
  BY FilesAssumption DEF CompletionStatus, HistoryOutcome
<1>3. ASSUME NEW i \in DOMAIN entries, NEW d, Quiet(entries[i], d), UpdateOne(i, d)
      PROVE  StepShape
  <2>1. NewTickets
    BY <1>3 DEF UpdateOne, NewTickets
  <2> QED BY <1>3, <2>1, UpdateShape DEF UpdateOne
<1>4. ASSUME NEW i \in DOMAIN entries, NEW o \in HistoryOutcome, RemoveOne(i, o)
      PROVE  StepShape
  <2> DEFINE S == DOMAIN entries \ {i}
             F == {Finished(i, entries[i], o)}
  <2>1. S \in SUBSET DOMAIN entries /\ DOMAIN entries \ S = {i}
    OBVIOUS
  <2>2. Finishes(F, {i}) /\ F \in SUBSET HistoryRecord
    BY OneFinishes
  <2>3. Commit([j \in S |-> entries[j]], Reindex(place, S), generations, F)
        /\ UNCHANGED <<minted, issued>>
    BY <1>4 DEF RemoveOne
  <2> HIDE DEF S, F
  <2> QED BY <2>1, <2>2, <2>3, RemovalShape
<1>5. ASSUME NEW i \in DOMAIN entries, NEW o \in HistoryOutcome,
             Interrupt({Finished(i, entries[i], o)})
      PROVE  StepShape
  BY <1>5, OneFinishes, InterruptShape
<1>6. ASSUME NEW i \in DOMAIN entries, Hold(i) \/ Release(i)
      PROVE  StepShape
  <2> DEFINE e == entries[i]
  <2>1. PICK st : st \in {"Pending", "Held"} /\ UpdateOne(i, [e EXCEPT !.status = st])
    BY <1>6 DEF Hold, Release
  <2> DEFINE d == [e EXCEPT !.status = st]
  <2>2. Quiet(e, d)
    <3>1. e \in Entry
      BY <1>1
    <3> HIDE DEF e
    <3> QED BY <2>1, <3>1 DEF Quiet, Inherits, LeftAlone, Uncounted, IsTicketed, Running, Entry
  <2>3. UpdateOne(i, d)
    BY <2>1
  <2> HIDE DEF d
  <2> QED BY <1>3, <2>2, <2>3
<1>7. ASSUME NEW i \in DOMAIN entries, ReleasePending(i)
      PROVE  StepShape
  <2> DEFINE e == entries[i]
             d == [e EXCEPT !.status = "Pending", !.workflow_id = None,
                            !.lease_owner = None, !.lease_expires_at = None]
  <2>1. e \in Entry /\ ~IsTicketed(e) /\ UpdateOne(i, d)
    BY <1>1, <1>7 DEF ReleasePending
  <2>2. Quiet(e, d)
    <3> HIDE DEF e
    <3> QED BY <2>1 DEF Quiet, Inherits, LeftAlone, Uncounted, IsTicketed, Running, Entry
  <2> HIDE DEF d
  <2> QED BY <1>3, <2>1, <2>2
<1>8. ASSUME NEW i \in DOMAIN entries, NEW w, NEW called, MarkAssigned(i, w, called)
      PROVE  StepShape
  <2>1. ~IsTicketed(entries[i]) /\ ~Running(entries[i])
        /\ UpdateOne(i, Assign(entries[i], w, called))
    BY <1>8 DEF MarkAssigned, Running
  <2>2. Quiet(entries[i], Assign(entries[i], w, called))
    BY <2>1, AssignIsQuietStep
  <2> QED BY <1>3, <2>1, <2>2
<1>9. CASE SomeOperatorCall
  BY <1>2, <1>4, <1>5, <1>6, <1>9 DEF SomeOperatorCall, DropEntry, InterruptedDrop
<1>10. CASE SomeCompletion
  BY <1>2, <1>4, <1>5, <1>10 DEF SomeCompletion, Completion, InterruptedCompletion
<1>11. CASE SomeOldAssignment
  BY <1>7, <1>8, <1>11 DEF SomeOldAssignment
<1>12. CASE LateMark
  BY <1>8, <1>12 DEF LateMark
<1> QED BY <1>9, <1>10, <1>11, <1>12

(* queue/reorder *)
LEMMA ReorderShape ==
    ASSUME TypeInv, SomeReorder
    PROVE  StepShape
<1>1. PICK n \in 1..Cardinality(DOMAIN entries) :
        \E ids \in [1..n -> DOMAIN entries] : Reorder(ids)
  BY DEF SomeReorder
<1>2. PICK ids \in [1..n -> DOMAIN entries] : Reorder(ids)
  BY <1>1
<1>3. /\ Commit(entries, place', generations, {})
      /\ place' = Reindex([i \in DOMAIN entries |-> NewRank(ids, i)], DOMAIN entries)
      /\ UNCHANGED <<minted, issued>>
  BY <1>2 DEF Reorder, Commit
<1>4. entries' = entries /\ generations' = generations /\ history' = history /\ left' = left
  BY <1>3 DEF Commit
<1>5. \A i \in DOMAIN entries' : Quiet(entries[i], entries'[i])
  BY <1>4, SameIsQuiet
<1>6. Records
  BY <1>4, NothingFinishes DEF Records
<1>7. NewTickets
  BY <1>3 DEF NewTickets
<1>8. PlacesFollow
  BY <1>1, <1>2, <1>3, <1>4 DEF PlacesFollow
<1> QED BY <1>3, <1>4, <1>5, <1>6, <1>7, <1>8, QuietShape

(* A sweep cut short after some of its lines. *)
LEMMA InterruptedSweepShape ==
    ASSUME TypeInv, InterruptedSweep
    PROVE  StepShape
<1>1. PICK n \in 1..Cardinality(Swept) :
        Interrupt({Finished(i, entries[i], "Dropped") : i \in FirstN(Swept, n)})
  BY DEF InterruptedSweep
<1> DEFINE S == FirstN(Swept, n)
           F == {Finished(i, entries[i], "Dropped") : i \in S}
<1>2. S \subseteq Swept /\ S \in SUBSET DOMAIN entries
  BY DEF FirstN, Swept
<1> HIDE DEF S
<1>3. F \subseteq SweptRecords
  BY <1>2 DEF SweptRecords
<1>4. F \in SUBSET HistoryRecord
  BY <1>3, KeptFacts
<1>5. \A i : Finished(i, entries[i], "Dropped").entry_id = i
  BY DEF Finished
<1>6. Finishes(F, S)
  <2>1. \A h \in F : h.entry_id \in S /\ h = Finished(h.entry_id, entries[h.entry_id], "Dropped")
    BY <1>5
  <2>2. \A i \in S : \E h \in F : h.entry_id = i
    BY <1>5
  <2>3. "Dropped" \in HistoryOutcome
    BY DEF HistoryOutcome
  <2> HIDE DEF F
  <2> QED BY <2>1, <2>2, <2>3 DEF Finishes
<1>7. Interrupt(F)
  BY <1>1 DEF S
<1> HIDE DEF F
<1> QED BY <1>2, <1>4, <1>6, <1>7, InterruptShape

-----------------------------------------------------------------------------
(* queue/v2/enqueue *)

(* Identity and a key are all that an add changes in an entry. *)
LEMMA JoinedEntry ==
    ASSUME NEW e \in Entry, NEW g \in Nat, NEW k, NEW r \in Requests
    PROVE  LET d == Bind(WithIdentity(e, g), k, r) IN
           /\ d.subject_id = e.subject_id /\ d.status = e.status
           /\ d.repository = e.repository /\ d.workflow_id = e.workflow_id
           /\ d.workflow_generation = e.workflow_generation
           /\ d.lease_generation = e.lease_generation
           /\ d.lease_owner = e.lease_owner
           /\ d.lease_expires_at = e.lease_expires_at
           /\ d.subject_generation = IF IsTicketed(e) THEN e.subject_generation ELSE g
           /\ \A j \in Keys : d.bound[j] = IF j = k THEN r ELSE e.bound[j]
<1> DEFINE x == WithIdentity(e, g)
<1>1. /\ x \in Entry
      /\ x.subject_id = e.subject_id /\ x.status = e.status
      /\ x.repository = e.repository /\ x.workflow_id = e.workflow_id
      /\ x.workflow_generation = e.workflow_generation
      /\ x.lease_generation = e.lease_generation
      /\ x.lease_owner = e.lease_owner
      /\ x.lease_expires_at = e.lease_expires_at
      /\ x.subject_generation = IF IsTicketed(e) THEN e.subject_generation ELSE g
      /\ x.bound = e.bound
  BY DEF WithIdentity, Entry
<1> HIDE DEF x
<1> DEFINE d == Bind(x, k, r)
<1>2. /\ d.subject_id = x.subject_id /\ d.status = x.status
      /\ d.repository = x.repository /\ d.workflow_id = x.workflow_id
      /\ d.workflow_generation = x.workflow_generation
      /\ d.lease_generation = x.lease_generation
      /\ d.lease_owner = x.lease_owner
      /\ d.lease_expires_at = x.lease_expires_at
      /\ d.subject_generation = x.subject_generation
  BY <1>1 DEF Bind, Entry
<1>3. \A j \in Keys : d.bound[j] = IF j = k THEN r ELSE x.bound[j]
  BY <1>1 DEF Bind, Entry
<1> HIDE DEF d
<1> QED BY <1>1, <1>2, <1>3 DEF d, x

(* A key nobody knows is bound in no entry. *)
LEMMA NewKeyIsUnbound ==
    ASSUME NEW k \in Keys, NewKey(k)
    PROVE  ~KeyKnown(k) /\ \A i \in DOMAIN entries : entries[i].bound[k] = None
BY ConstantsAssumption DEF NewKey, KeyKnown, HasKey, BoundRequestHash

LEMMA EnqueueExistingShape ==
    ASSUME TypeInv, NEW r \in Requests, NEW k \in Keys \cup {None}, EnqueueExisting(r, k)
    PROVE  StepShape
<1> DEFINE s == r.subject
           g == NextGeneration(s)
<1>0. s \in Subjects /\ generations[s] \in Nat /\ g = generations[s] + 1 /\ g \in Nat
  BY FromDispatchType, NextIsRecordedPlusOne DEF TypeInv, TypeOK
<1>1. PICK b \in StopsAdd(s) :
         Commit([i \in Kept |-> IF i = b THEN Bind(WithIdentity(entries[i], g), k, r)
                                ELSE entries[i]],
                Reindex(place, Kept),
                IF IsTicketed(entries[b]) THEN generations
                ELSE [generations EXCEPT ![s] = g],
                SweptRecords)
  BY DEF EnqueueExisting
<1> DEFINE e == entries[b]
           d == Bind(WithIdentity(e, g), k, r)
           G == IF IsTicketed(e) THEN generations ELSE [generations EXCEPT ![s] = g]
           E == [i \in Kept |-> IF i = b THEN Bind(WithIdentity(entries[i], g), k, r)
                                ELSE entries[i]]
<1>2. /\ b \in Kept /\ b \in DOMAIN entries /\ e \in Entry /\ e.subject_id = s
      /\ IsTicketed(e) \/ ~Running(e)
  BY KeptFacts DEF StopsAdd, TicketedFor, WaitingFor, Running
<1>3. NewKey(k) /\ minted' = minted /\ issued' = issued /\ minted \in Nat
  BY DEF EnqueueExisting, TypeInv, TypeOK
<1>4. /\ d.subject_id = e.subject_id /\ d.status = e.status
      /\ d.repository = e.repository /\ d.workflow_id = e.workflow_id
      /\ d.workflow_generation = e.workflow_generation
      /\ d.lease_generation = e.lease_generation
      /\ d.lease_owner = e.lease_owner
      /\ d.lease_expires_at = e.lease_expires_at
      /\ d.subject_generation = IF IsTicketed(e) THEN e.subject_generation ELSE g
      /\ \A j \in Keys : d.bound[j] = IF j = k THEN r ELSE e.bound[j]
  <2> HIDE DEF g, e
  <2> QED BY <1>0, <1>2, JoinedEntry
<1>5. /\ entries' = E /\ generations' = G /\ DOMAIN E = Kept /\ Kept \subseteq DOMAIN entries
      /\ E[b] = d /\ \A i \in Kept : i # b => E[i] = entries[i]
  BY <1>1, <1>2, KeptFacts DEF Commit
<1>6. \A t \in Subjects : generations[t] \in Nat /\ G[t] >= generations[t]
                          /\ (~IsTicketed(e) => G[s] = g)
  <2>1. generations \in [Subjects -> Nat]
    BY DEF TypeInv, TypeOK
  <2> HIDE DEF g, s, e
  <2> QED BY <1>0, <2>1
<1>7. g > generations[s] /\ g > 0
  BY <1>0
<1>8. e.workflow_generation \in Nat /\ e.lease_generation \in Nat
  <2> HIDE DEF e
  <2> QED BY <1>2 DEF Entry
<1>9. IsTicketed(d)
  BY <1>4, <1>7 DEF IsTicketed
<1> HIDE DEF E, G, d, g
<1>10. Inherits(e, d)
  <2>1. \A j \in Keys : e.bound[j] # None => d.bound[j] = e.bound[j]
    BY <1>2, <1>3, <1>4, NewKeyIsUnbound
  <2> HIDE DEF e
  <2> QED BY <1>2, <1>4, <1>8, <1>9, <2>1 DEF Inherits, LeftAlone, Uncounted
<1>11. \A i \in Kept : i # b => Quiet(entries[i], E[i])
  BY <1>5, SameIsQuiet
<1>12. EntriesInherit
  BY <1>3, <1>5, <1>10, <1>11 DEF EntriesInherit, Quiet
<1>13. Records
  BY <1>1, <1>5, SweptFinishes DEF Commit, Records
<1>14. NewTickets
  BY <1>3 DEF NewTickets
<1>15. NewIdentities
  <2>1. \A i \in DOMAIN entries' : GotIdentity(i) => i = b /\ ~IsTicketed(e)
    BY <1>2, <1>5, <1>11 DEF GotIdentity, HadIdentity, Quiet
  <2>2. ~IsTicketed(e) => /\ generations[d.subject_id] < d.subject_generation
                          /\ d.subject_generation <= generations'[d.subject_id]
    BY <1>0, <1>2, <1>4, <1>5, <1>6, <1>7
  <2> QED BY <1>5, <1>6, <2>1, <2>2 DEF NewIdentities
<1>16. NewKeys
  <2> SUFFICES ASSUME NEW j \in Keys, NEW i \in DOMAIN entries',
                      entries'[i].bound[j] # None, ~HadKey(i, j)
               PROVE  /\ ~KeyKnown(j) /\ IsTicketed(entries'[i])
                      /\ \A l \in DOMAIN entries' : l # i => entries'[l].bound[j] = None
    BY DEF NewKeys
  <2>1. i = b
    BY <1>5, <1>11 DEF HadKey, Quiet
  <2>2. j = k
    BY <1>2, <1>4, <1>5, <2>1 DEF HadKey
  <2> QED BY <1>3, <1>5, <1>9, <2>1, <2>2, NewKeyIsUnbound
<1>17. BranchesFree
  <2> SUFFICES ASSUME RepositoriesTicketed,
                      NEW i \in DOMAIN entries', NEW j \in DOMAIN entries',
                      Running(entries'[i]), Running(entries'[j])
               PROVE  RanBefore(i) /\ RanBefore(j)
    BY DEF BranchesFree
  <2>1. \A l \in DOMAIN entries' : Running(entries'[l]) => RanBefore(l)
    BY <1>2, <1>4, <1>5 DEF RanBefore, Running
  <2> QED BY <2>1
<1>18. PlacesFollow
  BY <1>1, <1>5 DEF Commit, PlacesFollow
<1> QED BY <1>12, <1>13, <1>14, <1>15, <1>16, <1>17, <1>18 DEF StepShape

LEMMA EnqueueNewShape ==
    ASSUME TypeInv, NEW r \in Requests, NEW k \in Keys \cup {None}, EnqueueNew(r, k)
    PROVE  StepShape
<1> DEFINE s == r.subject
           g == NextGeneration(s)
           x == WithIdentity(FromDispatch(r), g)
           e == [x EXCEPT !.repository = r.repository]
           d == Bind(e, k, r)
           G == [generations EXCEPT ![s] = g]
<1>0. s \in Subjects /\ generations[s] \in Nat /\ g = generations[s] + 1 /\ g \in Nat
  BY FromDispatchType, NextIsRecordedPlusOne DEF TypeInv, TypeOK
<1>1. x \in Entry /\ x.subject_id = s /\ x.subject_generation = g /\ x.status = "Pending"
      /\ x.lease_generation = 0 /\ x.bound = [j \in Keys |-> None]
  <2>1. FromDispatch(r) \in Entry /\ ~IsTicketed(FromDispatch(r))
    BY FromDispatchType DEF IsTicketed
  <2>2. x = [FromDispatch(r) EXCEPT !.subject_generation = g]
    BY <2>1 DEF WithIdentity
  <2> HIDE DEF g, x
  <2> QED BY <1>0, <2>1, <2>2 DEF FromDispatch, Entry
<1>2. e \in Entry /\ e.subject_id = s /\ e.subject_generation = g /\ e.status = "Pending"
      /\ e.lease_generation = 0 /\ e.bound = [j \in Keys |-> None]
  <2>1. r.repository \in Repositories \cup {None}
    BY FromDispatchType
  <2> HIDE DEF x, g
  <2> QED BY <1>1, <2>1 DEF Entry
<1>3. d \in Entry /\ d.subject_id = s /\ d.subject_generation = g /\ d.status = "Pending"
      /\ d.lease_generation = 0
      /\ \A j \in Keys : d.bound[j] = IF j = k THEN r ELSE None
  <2>1. d \in Entry
    BY <1>2, BindType
  <2> HIDE DEF e, g
  <2> QED BY <1>2, <2>1 DEF Bind, Entry
<1>4. /\ minted' = minted + 1 /\ issued' = issued /\ NewKey(k)
      /\ Commit([i \in Kept \cup {minted + 1} |->
                    IF i = minted + 1 THEN d ELSE entries[i]],
                [i \in Kept \cup {minted + 1} |->
                    IF i = minted + 1 THEN Cardinality(Kept) + 1
                    ELSE Reindex(place, Kept)[i]],
                G, SweptRecords)
  BY DEF EnqueueNew
<1>5. G[s] = g /\ \A t \in Subjects : G[t] >= generations[t]
  <2>1. generations \in [Subjects -> Nat]
    BY DEF TypeInv, TypeOK
  <2> HIDE DEF g, s
  <2> QED BY <1>0, <2>1
<1>6. g > generations[s] /\ g > 0 /\ g <= G[s]
  BY <1>0, <1>5
<1> HIDE DEF d, G, g
<1>7. NewEntry(d) /\ IsTicketed(d)
  BY <1>3, <1>6 DEF NewEntry, IsTicketed, Running
<1>8. \A j \in Keys : d.bound[j] # None => ~KeyKnown(j) /\ IsTicketed(d)
  BY <1>3, <1>4, <1>7, NewKeyIsUnbound
<1> QED BY <1>3, <1>4, <1>5, <1>6, <1>7, <1>8, AddShape

LEMMA EnqueueV2Shape ==
    ASSUME TypeInv, NEW r \in Requests, NEW k \in Keys \cup {None}, EnqueueV2(r, k)
    PROVE  StepShape
BY SweepShape, EnqueueExistingShape, EnqueueNewShape DEF EnqueueV2, EnqueueReplay

-----------------------------------------------------------------------------
(* queue/v2/lease *)

(* More entries of a set are ahead of a later one. *)
LEMMA AheadGrows ==
    ASSUME TypeInv, NEW S \in SUBSET DOMAIN entries, NEW i \in S, NEW j \in S,
           place[i] < place[j]
    PROVE  Cardinality(Ahead(S, i)) < Cardinality(Ahead(S, j))
<1> DEFINE T == Ahead(S, i)
           U == Ahead(S, j)
<1>1. \A l \in S : place[l] \in Nat
  BY DEF TypeInv, TypeOK
<1>2. T \subseteq U /\ i \in U /\ i \notin T /\ U \in SUBSET DOMAIN entries
  BY <1>1 DEF Ahead
<1> HIDE DEF T, U
<1>3. T \in SUBSET U /\ U \ {i} \in SUBSET U /\ T \in SUBSET (U \ {i})
      /\ U \ {i} \in SUBSET DOMAIN entries
  BY <1>2
<1>4. IsFiniteSet(U)
  BY <1>2, LiveIsFinite DEF TypeInv
<1>5. Cardinality(U \ {i}) = Cardinality(U) - 1
  BY <1>2, <1>4, FS_RemoveElement
<1>6. /\ Cardinality(T) \in Nat /\ Cardinality(U \ {i}) \in Nat
      /\ Cardinality(T) <= Cardinality(U \ {i}) /\ Cardinality(U) \in Nat
  BY <1>2, <1>3, LiveSubset
<1> QED BY <1>5, <1>6 DEF T, U

(* The loop gives the entries of one subject different generations. *)
LEMMA IdentifiedDiffer ==
    ASSUME TypeInv, PlaceInv, NEW max \in 1..MaxLeaseBatch, NEW L \in SUBSET Candidates(max),
           NEW i \in Identified(L, max), NEW j \in Identified(L, max),
           entries[i].subject_id = entries[j].subject_id,
           GenerationOf(i, L, max) = GenerationOf(j, L, max)
    PROVE  i = j
<1> SUFFICES ASSUME i # j PROVE FALSE
  OBVIOUS
<1> DEFINE s == entries[i].subject_id
           I == IdentifiedOf(L, max, s)
           g == NextGeneration(s)
<1>1. I \in SUBSET DOMAIN entries /\ i \in I /\ j \in I
  BY CandidatesAreKept, KeptFacts DEF IdentifiedOf, Identified, Reached
<1>2. s \in Subjects /\ ~IsTicketed(entries[i]) /\ ~IsTicketed(entries[j])
  BY <1>1, KeptFacts DEF Identified
<1>3. g \in Nat
  BY <1>2, RaisedCounter
<1>4. GenerationOf(i, L, max) = g + Cardinality(Ahead(I, i))
      /\ GenerationOf(j, L, max) = g + Cardinality(Ahead(I, j))
  BY <1>2 DEF GenerationOf
<1>5. place[i] \in Nat /\ place[j] \in Nat /\ place[i] # place[j]
  BY <1>1 DEF PlaceInv, TypeInv, TypeOK
<1> HIDE DEF I, g
<1>6. Cardinality(Ahead(I, i)) \in Nat /\ Cardinality(Ahead(I, j)) \in Nat
  BY <1>1, AheadIsSmaller
<1>7. Cardinality(Ahead(I, i)) < Cardinality(Ahead(I, j))
      \/ Cardinality(Ahead(I, j)) < Cardinality(Ahead(I, i))
  <2>1. place[i] < place[j] \/ place[j] < place[i]
    BY <1>5
  <2> QED BY <1>1, <2>1, AheadGrows
<1>8. g + Cardinality(Ahead(I, i)) = g + Cardinality(Ahead(I, j))
  BY <1>4
<1> QED BY <1>3, <1>6, <1>7, <1>8

(* What the loop makes of an entry. *)
LEMMA AfterLeaseShape ==
    ASSUME TypeInv, NEW max \in 1..MaxLeaseBatch, NEW ids, NEW owner,
           NEW L \in SUBSET Candidates(max), L \subseteq Reached(L, max),
           \A i \in L : entries[i].has_dispatch,
           NEW i \in Kept
    PROVE  LET e == entries[i]  d == AfterLease(i, L, max, owner, ids) IN
           /\ Inherits(e, d) /\ d.bound = e.bound
           /\ i \in L => /\ IsTicketed(d) /\ Running(d) /\ ~Running(e)
                         /\ d.lease_generation > 0
           /\ i \notin L => d.status = e.status
           /\ IsTicketed(d) => IsTicketed(e) \/ i \in Identified(L, max)
<1> DEFINE e == entries[i]
           g == GenerationOf(i, L, max)
           x == IF i \in Identified(L, max) THEN WithIdentity(e, g) ELSE e
           w == WorkflowIdFor(i, L, ids)
           d == AfterLease(i, L, max, owner, ids)
<1>1. e \in Entry /\ e.subject_id \in Subjects /\ generations[e.subject_id] \in Nat
  BY KeptFacts DEF TypeInv, TypeOK
<1>2. d = IF i \in L THEN HandedOut(x, owner, w) ELSE x
  BY DEF AfterLease
<1>3. i \in Identified(L, max) => g \in Nat /\ g > 0 /\ ~IsTicketed(e)
  BY <1>1, LeaseCounters
<1>4. i \in Identified(L, max) \/ i \in L => ~Running(e)
  BY CandidatesAreKept DEF Identified, Reached, Running
<1>5. i \in L => i \in Identified(L, max) \/ IsTicketed(e)
  BY DEF Identified
<1>6. i \in L /\ e.workflow_id # None => w = e.workflow_id
  BY DEF WorkflowIdFor
<1>7. x \in Entry /\ (i \notin Identified(L, max) => x = e)
      /\ x.subject_id = e.subject_id /\ x.repository = e.repository
      /\ x.status = e.status /\ x.bound = e.bound
      /\ x.workflow_id = e.workflow_id /\ x.workflow_generation = e.workflow_generation
      /\ x.lease_generation = e.lease_generation /\ x.lease_owner = e.lease_owner
      /\ x.lease_expires_at = e.lease_expires_at
      /\ (i \in Identified(L, max) => x.subject_generation = g)
      /\ e.workflow_generation \in Nat /\ e.lease_generation \in Nat
  <2> HIDE DEF e, g
  <2> QED BY <1>1, <1>3 DEF WithIdentity, Entry
<1>8. (i \in Identified(L, max) => IsTicketed(x)) /\ (IsTicketed(e) => IsTicketed(x))
      /\ (IsTicketed(e) => x.subject_generation = e.subject_generation)
  BY <1>3, <1>7 DEF IsTicketed
<1> HIDE DEF d, e, x, w, g
<1>9. CASE i \in L
  <2>1. /\ d.subject_id = e.subject_id /\ d.repository = e.repository
        /\ d.status = "Assigned" /\ d.bound = e.bound
        /\ d.workflow_generation = IF x.workflow_generation = 0 THEN 1
                                   ELSE x.workflow_generation
        /\ d.lease_generation = x.lease_generation + 1
        /\ d.subject_generation = x.subject_generation
    BY <1>2, <1>7, <1>9 DEF HandedOut, Entry
  <2>2. IsTicketed(d) /\ Running(d) /\ ~Running(e) /\ d.lease_generation > 0
        /\ d.lease_generation > e.lease_generation
        /\ d.workflow_generation >= e.workflow_generation
    BY <1>4, <1>5, <1>7, <1>8, <1>9, <2>1 DEF IsTicketed, Running
  <2>3. Inherits(e, d)
    BY <1>7, <1>8, <2>1, <2>2 DEF Inherits, Uncounted, LeftAlone
  <2> QED BY <1>5, <1>9, <2>1, <2>2, <2>3 DEF d, e
<1>10. CASE i \notin L
  <2>1. d = x
    BY <1>2, <1>10
  <2>2. ~Running(e) \/ d = e
    BY <1>4, <1>7, <2>1
  <2>3. Inherits(e, d)
    BY <1>7, <1>8, <2>1, <2>2 DEF Inherits, Uncounted, LeftAlone, IsTicketed
  <2>4. IsTicketed(d) => IsTicketed(e) \/ i \in Identified(L, max)
    BY <1>7, <2>1
  <2> QED BY <1>7, <1>10, <2>1, <2>3, <2>4 DEF d, e
<1> QED BY <1>9, <1>10

(* Entries on one branch are not handed out together, nor beside one that   *)
(* runs.                                                                   *)
LEMMA HandedOutAreFree ==
    ASSUME TypeInv, PlaceInv, NEW max, NEW exclude, NEW L \in SUBSET Kept,
           \A i \in L : ~Blocked(i, L, max, exclude),
           NEW i \in L, NEW j \in Kept, i # j, j \in L \/ Running(entries[j]),
           SameBranch(entries[i].repository, entries[j].repository)
    PROVE  FALSE
<1>1. ASSUME NEW a \in L, NEW b \in RunningOnBranch(L, a),
             SameBranch(entries[b].repository, entries[a].repository)
      PROVE  FALSE
  BY <1>1 DEF Blocked
<1>2. SameBranch(entries[j].repository, entries[i].repository)
  BY DEF SameBranch
<1>3. CASE Running(entries[j])
  BY <1>1, <1>2, <1>3 DEF RunningOnBranch, Running
<1>4. CASE j \in L
  <2>1. place[i] \in Nat /\ place[j] \in Nat /\ place[i] # place[j]
    BY KeptFacts DEF PlaceInv, TypeInv, TypeOK
  <2>2. j \in Ahead(L, i) \/ i \in Ahead(L, j)
    BY <1>4, <2>1 DEF Ahead
  <2> QED BY <1>1, <1>2, <1>4, <2>2 DEF RunningOnBranch
<1> QED BY <1>3, <1>4

LEMMA LeaseV2Shape ==
    ASSUME TypeInv, NEW max \in 1..MaxLeaseBatch, NEW owner \in Owners,
           NEW ids \in Lists(max, WorkflowIds), NEW exclude,
           LeaseV2(max, owner, ids, exclude)
    PROVE  StepShape
<1>1. PICK L \in SUBSET Candidates(max) :
        /\ L \subseteq Reached(L, max)
        /\ \A i \in L : entries[i].has_dispatch /\ ~Blocked(i, L, max, exclude)
        /\ Commit([i \in Kept |-> AfterLease(i, L, max, owner, ids)],
                  Reindex(place, Kept), LeaseGenerations(L, max), SweptRecords)
        /\ issued' = issued \cup
              {ExecutionFence(i, AfterLease(i, L, max, owner, ids)) : i \in L}
        /\ UNCHANGED <<now, minted>>
  BY DEF LeaseV2, LeaseGenerations
<1> DEFINE E == [i \in Kept |-> AfterLease(i, L, max, owner, ids)]
           G == LeaseGenerations(L, max)
<1>2. /\ entries' = E /\ DOMAIN E = Kept /\ generations' = G
      /\ \A i \in Kept : E[i] = AfterLease(i, L, max, owner, ids)
      /\ Kept \subseteq DOMAIN entries /\ L \subseteq Kept
  BY <1>1, KeptFacts, CandidatesAreKept DEF Commit
<1> HIDE DEF E, G
<1>3. \A i \in Kept :
        /\ Inherits(entries[i], E[i]) /\ E[i].bound = entries[i].bound
        /\ i \in L => /\ IsTicketed(E[i]) /\ Running(E[i]) /\ ~Running(entries[i])
                      /\ E[i].lease_generation > 0
        /\ i \notin L => E[i].status = entries[i].status
        /\ IsTicketed(E[i]) => IsTicketed(entries[i]) \/ i \in Identified(L, max)
  BY <1>1, <1>2, AfterLeaseShape
<1>4. EntriesInherit
  BY <1>1, <1>2, <1>3 DEF EntriesInherit
<1>5. Records
  BY <1>1, <1>2, SweptFinishes DEF Commit, Records
<1>6. NewTickets
  BY <1>1, <1>2, <1>3 DEF NewTickets
<1>7. NewIdentities
  <2>1. \A s \in Subjects : generations'[s] >= generations[s]
    <3>1. \A s \in Subjects : generations[s] \in Nat /\ G[s] \in Nat
                              /\ generations[s] <= G[s]
      BY LeaseCounters DEF TypeInv, TypeOK, G
    <3> QED BY <1>2, <3>1
  <2>2. ASSUME NEW i \in DOMAIN entries', GotIdentity(i)
        PROVE  /\ i \in Identified(L, max)
               /\ entries'[i].subject_id = entries[i].subject_id
               /\ entries'[i].subject_generation = GenerationOf(i, L, max)
    <3>1. i \in Kept /\ i \in Identified(L, max)
      BY <1>2, <1>3, <2>2 DEF GotIdentity, HadIdentity
    <3> QED BY <1>1, <1>2, <3>1, AfterLeaseType
  <2>3. ASSUME NEW i \in DOMAIN entries', GotIdentity(i)
        PROVE  LET s == entries'[i].subject_id  n == entries'[i].subject_generation IN
               generations[s] < n /\ n <= generations'[s]
    <3>1. i \in Identified(L, max) /\ entries[i].subject_id \in Subjects
      BY <1>2, <2>2, <2>3, KeptFacts
    <3>2. generations[entries[i].subject_id] \in Nat
      BY <3>1 DEF TypeInv, TypeOK
    <3> QED BY <1>2, <2>2, <2>3, <3>1, <3>2, LeaseCounters DEF G
  <2>4. PlaceInv => \A i, j \in DOMAIN entries' :
          /\ GotIdentity(i) /\ GotIdentity(j)
          /\ entries'[i].subject_id = entries'[j].subject_id
          /\ entries'[i].subject_generation = entries'[j].subject_generation
          => i = j
    <3> SUFFICES ASSUME PlaceInv, NEW i \in DOMAIN entries', NEW j \in DOMAIN entries',
                        GotIdentity(i), GotIdentity(j),
                        entries'[i].subject_id = entries'[j].subject_id,
                        entries'[i].subject_generation = entries'[j].subject_generation
                 PROVE  i = j
      OBVIOUS
    <3>1. i \in Identified(L, max) /\ j \in Identified(L, max)
          /\ entries[i].subject_id = entries[j].subject_id
          /\ GenerationOf(i, L, max) = GenerationOf(j, L, max)
      BY <2>2
    <3> QED BY <3>1, IdentifiedDiffer
  <2> QED BY <2>1, <2>3, <2>4 DEF NewIdentities
<1>8. NewKeys
  BY <1>2, <1>3 DEF NewKeys, HadKey
<1>9. BranchesFree
  <2> SUFFICES ASSUME PlaceInv, NEW i \in DOMAIN entries', NEW j \in DOMAIN entries',
                      i # j, Running(entries'[i]), Running(entries'[j]),
                      SameBranch(entries'[i].repository, entries'[j].repository)
               PROVE  RanBefore(i) /\ RanBefore(j)
    BY DEF BranchesFree
  <2>1. i \in Kept /\ j \in Kept
        /\ SameBranch(entries[i].repository, entries[j].repository)
        /\ SameBranch(entries[j].repository, entries[i].repository)
    BY <1>2, <1>3 DEF Inherits, SameBranch
  <2>2. (i \in L \/ Running(entries[i])) /\ (j \in L \/ Running(entries[j]))
    BY <1>2, <1>3, <2>1 DEF Running
  <2>3. L \in SUBSET Kept /\ \A l \in L : ~Blocked(l, L, max, exclude)
    BY <1>1, <1>2
  <2>4. i \notin L
    BY <2>1, <2>2, <2>3, HandedOutAreFree
  <2>5. j \notin L
    BY <2>1, <2>2, <2>3, HandedOutAreFree
  <2> QED BY <1>2, <2>1, <2>2, <2>4, <2>5 DEF RanBefore
<1>10. PlacesFollow
  BY <1>1, <1>2 DEF Commit, PlacesFollow
<1> QED BY <1>4, <1>5, <1>6, <1>7, <1>8, <1>9, <1>10 DEF StepShape

-----------------------------------------------------------------------------
(* Every step. *)

LEMMA StepHasShape ==
    ASSUME TypeInv, TicketsCount, [ClockNext]_vars
    PROVE  StepShape
<1>1. CASE SomeEnqueueV2
  BY <1>1, EnqueueV2Shape DEF SomeEnqueueV2
<1>2. CASE SomeLeaseV2
  BY <1>2, LeaseV2Shape DEF SomeLeaseV2
<1>3. CASE SomeTicketCall
  BY <1>3, TicketCallShape
<1>4. CASE InterruptedSweep
  BY <1>4, InterruptedSweepShape
<1>5. CASE Tick \/ SetBack \/ UNCHANGED vars
  <2>1. UNCHANGED <<minted, entries, place, generations, issued, history, left>>
    BY <1>5 DEF Tick, SetBack, vars, files
  <2>2. Records
    BY <2>1, NothingFinishes DEF Records
  <2> QED BY <2>1, <2>2, IdleShape
<1>6. CASE SomeEnqueue
  BY <1>6, EnqueueShape DEF SomeEnqueue
<1>7. CASE SomeLease
  BY <1>7, OldLeaseShape DEF SomeLease
<1>8. CASE NextDeadline
  BY <1>8, SweepShape DEF NextDeadline
<1>9. CASE SomeOperatorCall \/ SomeCompletion \/ SomeOldAssignment \/ LateMark
  BY <1>9, OneEntryCallShape
<1>10. CASE SomeReorder
  BY <1>10, ReorderShape
<1> QED BY <1>1, <1>2, <1>3, <1>4, <1>5, <1>6, <1>7, <1>8, <1>9, <1>10
        DEF ClockNext, Next, FencedNext, ServiceNext

(* The queue and its ticketed half are the queue under a clock that is       *)
(* never set back.                                                         *)
LEMMA SpecsAreClocked ==
    (Spec => ClockSpec) /\ (FencedSpec => ClockSpec)
<1>1. [Next]_vars => [ClockNext]_vars
  BY DEF ClockNext
<1>2. [FencedNext]_vars => [ClockNext]_vars
  BY DEF ClockNext, Next
<1>3. FilesInit => Init
  BY DEF Init
<1> QED BY <1>1, <1>2, <1>3, PTL DEF Spec, FencedSpec, ClockSpec

LEMMA LifeShape ==
    ASSUME LifeInv, [ClockNext]_vars
    PROVE  StepShape
BY StepHasShape DEF LifeInv, TicketInv, TicketsMatchEntries, TicketMatchesEntry, TicketsCount

(* An entry that was there and still is inherits, and moves as its life     *)
(* allows.                                                                 *)
LEMMA StayingEntry ==
    ASSUME LifeInv, [ClockNext]_vars, NEW i \in DOMAIN entries \cap DOMAIN entries'
    PROVE  /\ Inherits(entries[i], entries'[i]) /\ Moves(entries[i], entries'[i])
           /\ entries[i] \in Entry /\ entries'[i] \in Entry
<1>1. StepShape /\ LifeInv'
  BY LifeShape, ClockKeepsLifeInv
<1>2. entries[i] \in Entry /\ entries'[i] \in Entry /\ i # minted + 1 /\ i \in 1..minted
  <2>1. TypeInv /\ TypeInv' /\ minted \in Nat
    BY <1>1 DEF LifeInv, TypeInv, TypeOK
  <2> QED BY <2>1 DEF TypeInv, TypeOK
<1>3. Inherits(entries[i], entries'[i])
  BY <1>1, <1>2 DEF StepShape, EntriesInherit
<1>4. EntriesFollow \/ UNCHANGED entries
  BY NextFollows DEF ClockNext, SetBack, vars, files
<1>5. Moves(entries[i], entries'[i])
  BY <1>2, <1>4 DEF EntriesFollow, Follows, Moves, Rests
<1> QED BY <1>2, <1>3, <1>5

-----------------------------------------------------------------------------
(* Action properties. *)

LEMMA StepsMoveOn == LifeInv /\ [ClockNext]_vars => CountersMoveOn
<1> SUFFICES ASSUME LifeInv, [ClockNext]_vars PROVE CountersMoveOn
  OBVIOUS
<1>1. \A s \in Subjects : generations'[s] >= generations[s]
  BY LifeShape DEF StepShape, NewIdentities
<1>2. ASSUME NEW i \in DOMAIN entries \cap DOMAIN entries'
      PROVE  LET e == entries[i]  d == entries'[i] IN
             /\ d.lease_generation >= e.lease_generation
             /\ IsTicketed(e) => d.subject_generation = e.subject_generation
             /\ d.workflow_generation >= e.workflow_generation
             /\ d.lease_generation = e.lease_generation /\ HasFence(e) =>
                   /\ d.workflow_id = e.workflow_id
                   /\ d.lease_expires_at >= e.lease_expires_at
  <2> DEFINE e == entries[i]
             d == entries'[i]
  <2>1. Inherits(e, d) /\ Moves(e, d) /\ e \in Entry
    BY StayingEntry
  <2> HIDE DEF e, d
  <2>2. ASSUME d.lease_generation = e.lease_generation, HasFence(e)
        PROVE  d.workflow_id = e.workflow_id /\ d.lease_expires_at >= e.lease_expires_at
    <3>1. IsTicketed(e) /\ e.lease_expires_at \in Nat /\ e.lease_generation \in Nat
          /\ e.lease_generation > 0
      BY <2>1, <2>2 DEF HasFence, IsTicketed, Entry, Times
    <3>2. Rests(e, d) \/ Prolongs(e, d) \/ IsPutBack(e, d)
      BY <2>1, <2>2, <3>1
         DEF Moves, Starts, ChangesHands, StartsOldStyle, ReclaimedOldStyle,
             PutBackOldStyle, OldStyle
    <3>3. d.lease_expires_at >= e.lease_expires_at
      BY <3>1, <3>2 DEF Rests, Prolongs, IsPutBack
    <3> QED BY <2>1, <2>2, <3>1, <3>3 DEF Inherits
  <2> QED BY <2>1, <2>2 DEF Inherits, e, d
<1> QED BY <1>1, <1>2 DEF CountersMoveOn

(* For any callers, sweeps, crashes, takeovers and any clock, the counters   *)
(* of subjects and entries never fall, an identity is never replaced, and  *)
(* a ticket's workflow stays and its expiry does not move back while its   *)
(* lease generation lasts.                                                 *)
THEOREM CountersNeverFall == ClockSpec => NothingMovesBack
<1>1. LifeInv /\ [ClockNext]_vars => CountersMoveOn
  BY StepsMoveOn
<1> QED BY <1>1, LifeInvariant, PTL DEF ClockSpec, NothingMovesBack

LEMMA StepsKeepLiveTickets == LifeInv /\ [ClockNext]_vars => LiveTicketsKept
<1> SUFFICES ASSUME LifeInv, [ClockNext]_vars, NEW f \in issued,
                    f.entry_id \in DOMAIN entries, f.entry_id \in DOMAIN entries',
                    Running(entries[f.entry_id]), Running(entries'[f.entry_id]),
                    ExactFenceMatches(f.entry_id, entries[f.entry_id], f),
                    LeaseIsLive(entries[f.entry_id], now)
             PROVE  ExactFenceMatches(f.entry_id, entries'[f.entry_id], f)
  BY DEF LiveTicketsKept, Running
<1> DEFINE i == f.entry_id
           e == entries[i]
           d == entries'[i]
<1>1. Inherits(e, d) /\ Moves(e, d) /\ e \in Entry
  BY StayingEntry
<1>2. f.subject_generation > 0 /\ f.generation > 0 /\ now \in Nat /\ None \notin Nat
  BY ConstantsAssumption
     DEF LifeInv, TicketInv, TicketsMatchEntries, TicketMatchesEntry, TypeInv, TypeOK, Times
<1>3. Running(e) /\ Running(d) /\ LeaseIsLive(e, now) /\ ExactFenceMatches(i, e, f)
  OBVIOUS
<1> HIDE DEF e, d, i
<1>4. IsTicketed(e) /\ e.lease_generation > 0 /\ e.lease_expires_at \in Nat
      /\ e.lease_expires_at > now
  BY <1>1, <1>2, <1>3 DEF ExactFenceMatches, IsTicketed, LeaseIsLive, Entry, Times
<1>5. Rests(e, d) \/ Prolongs(e, d)
  BY <1>1, <1>2, <1>3, <1>4
     DEF Moves, Starts, ChangesHands, Overdue, IsPutBack, StartsOldStyle,
         ReclaimedOldStyle, PutBackOldStyle, OldStyle
<1>6. d.lease_generation = e.lease_generation
  BY <1>5 DEF Rests, Prolongs
<1> QED BY <1>1, <1>3, <1>4, <1>6 DEF Inherits, ExactFenceMatches, d, i

(* Whoever calls and whatever the clock does, while a ticket has not         *)
(* expired its entry is not run by another holder: the run ends by its own *)
(* holder's finish or put-back, an operator's drop or an old-style         *)
(* completion.                                                             *)
THEOREM LiveTicketsAreNotStolen == ClockSpec => LiveTicketNotStolen
<1>1. LifeInv /\ [ClockNext]_vars => LiveTicketsKept
  BY StepsKeepLiveTickets
<1> QED BY <1>1, LifeInvariant, PTL DEF ClockSpec, LiveTicketNotStolen

LEMMA StepsMoveByTicket == LifeInv /\ [ClockNext]_vars => MovedByTicket
<1> SUFFICES ASSUME LifeInv, [ClockNext]_vars,
                    NEW i \in DOMAIN entries \cap DOMAIN entries',
                    IsTicketed(entries[i]),
                    Running(entries[i]) # Running(entries'[i])
             PROVE  /\ HasFence(entries'[i])
                    /\ ExecutionFence(i, entries'[i]) \in issued'
                    /\ entries'[i].status = "Pending" =>
                          ExecutionFence(i, entries[i]) = ExecutionFence(i, entries'[i])
  BY DEF MovedByTicket, Running
<1> DEFINE e == entries[i]
           d == entries'[i]
<1>1. Inherits(e, d) /\ Moves(e, d) /\ e \in Entry /\ IsTicketed(d)
  BY StayingEntry DEF Inherits, IsTicketed
<1>2. CASE Running(d)
  <2>1. LifeInv'
    BY ClockKeepsLifeInv
  <2>2. HasFence(d) /\ ExecutionFence(i, d) \in issued'
    BY <1>1, <1>2, <2>1 DEF LifeInv, TicketInv, RunningTicketedHasTicket, Running
  <2>3. d.status # "Pending"
    BY <1>2 DEF Running
  <2> QED BY <2>2, <2>3
<1>3. CASE ~Running(d)
  <2>1. Running(e)
    BY <1>3 DEF Running
  <2>2. HasFence(e) /\ ExecutionFence(i, e) \in issued
    BY <2>1 DEF LifeInv, TicketInv, RunningTicketedHasTicket, Running
  <2>3. IsTicketed(e) /\ issued \subseteq issued'
    BY LifeShape DEF StepShape, NewTickets
  <2> HIDE DEF e, d
  <2>4. IsPutBack(e, d)
    BY <1>1, <1>3, <2>1, <2>2
       DEF Moves, Rests, Starts, Prolongs, ChangesHands, RunsUntil, StartsOldStyle,
           ReclaimedOldStyle, PutBackOldStyle, OldStyle, HasFence
  <2>5. HasFence(d)
    BY <1>1, <2>2, <2>3, <2>4 DEF Inherits, IsPutBack, HasFence
  <2>6. ExecutionFence(i, e) = ExecutionFence(i, d)
    BY <1>1, <2>3, <2>4 DEF Inherits, IsPutBack, ExecutionFence
  <2> QED BY <2>2, <2>3, <2>5, <2>6 DEF e, d
<1> QED BY <1>2, <1>3

(* No old-style call or operator starts or puts back the run of a ticketed   *)
(* entry, for any callers and any clock: each such step is accounted for   *)
(* by the entry's ticket, and a put-back keeps the ticket.                 *)
THEOREM TicketedRunsMoveByTicket == ClockSpec => TicketedEntriesMoveByTicket
<1>1. LifeInv /\ [ClockNext]_vars => MovedByTicket
  BY StepsMoveByTicket
<1> QED BY <1>1, LifeInvariant, PTL DEF ClockSpec, TicketedEntriesMoveByTicket

LEMMA StepsLeaveOldLeases == LifeInv /\ [ClockNext]_vars => OldLeasesRunOn
BY StayingEntry DEF OldLeasesRunOn, Inherits, LeftAlone, Running

(* For any callers and any clock, an old-style lease that is not yet past    *)
(* its expiry is not handed out again, a reclaimed one keeps its workflow  *)
(* id, and a running old-style entry is not given a ticket.                *)
THEOREM OldLeasesAreKept == ClockSpec => OldLeaseKept
<1>1. LifeInv /\ [ClockNext]_vars => OldLeasesRunOn
  BY StepsLeaveOldLeases
<1> QED BY <1>1, LifeInvariant, PTL DEF ClockSpec, OldLeaseKept

-----------------------------------------------------------------------------
(* The order of the Vec. *)

LEMMA LeastNumber ==
    ASSUME NEW T \in SUBSET Nat, T # {}
    PROVE  \E x \in T : \A y \in T : x <= y
<1> DEFINE R == OpToRel(<, Nat)
<1>1. IsWellFoundedOn(R, Nat)
  BY NatLessThanWellFounded
<1>2. \A x, y \in Nat : y < x => <<y, x>> \in R
  BY DEF OpToRel
<1> HIDE DEF R
<1>3. PICK x \in T : \A y \in T : ~ (<<y, x>> \in R)
  BY <1>1, WFMin
<1>4. x \in Nat /\ \A y \in T : y \in Nat /\ ~ (y < x)
  BY <1>2, <1>3
<1>5. \A y \in T : x <= y
  BY <1>4
<1> QED BY <1>5

LEMMA GreatestNumber ==
    ASSUME NEW n \in Nat, NEW T \in SUBSET (1..n), T # {}
    PROVE  \E x \in T : \A y \in T : y <= x
<1> DEFINE U == {n - t : t \in T}
<1>1. \A t \in T : t \in Nat /\ n - t \in Nat
  OBVIOUS
<1>2. U \in SUBSET Nat /\ U # {} /\ \A t \in T : n - t \in U
  BY <1>1
<1> HIDE DEF U
<1>3. PICK u \in U : \A v \in U : u <= v
  BY <1>2, LeastNumber
<1>4. PICK x \in T : u = n - x
  BY DEF U
<1>5. \A y \in T : n - x <= n - y
  BY <1>2, <1>3, <1>4
<1> QED BY <1>1, <1>5

(* Reindex numbers S from 1 in the order of p. *)
LEMMA ReindexInOrder ==
    ASSUME NEW S, IsFiniteSet(S), NEW p, \A l \in S : p[l] \in Nat
    PROVE  /\ \A i \in S : Reindex(p, S)[i] \in 1..Cardinality(S)
           /\ \A i, j \in S : p[i] < p[j] => Reindex(p, S)[i] < Reindex(p, S)[j]
<1> DEFINE U(i) == {j \in S : p[j] <= p[i]}
<1>1. ASSUME NEW i \in S
      PROVE  /\ Reindex(p, S)[i] = Cardinality(U(i)) /\ IsFiniteSet(U(i))
             /\ Cardinality(U(i)) \in 1..Cardinality(S)
  <2>1. U(i) \in SUBSET S /\ i \in U(i) /\ Reindex(p, S)[i] = Cardinality(U(i))
    BY DEF Reindex
  <2> HIDE DEF U
  <2>2. IsFiniteSet(U(i)) /\ Cardinality(U(i)) <= Cardinality(S)
    BY <2>1, FS_Subset
  <2>3. Cardinality(U(i)) \in Nat /\ Cardinality(S) \in Nat /\ Cardinality(U(i)) # 0
    BY <2>1, <2>2, FS_CardinalityType, FS_EmptySet
  <2> QED BY <2>1, <2>2, <2>3
<1>2. ASSUME NEW i \in S, NEW j \in S, p[i] < p[j]
      PROVE  Cardinality(U(i)) < Cardinality(U(j))
  <2>1. U(i) \in SUBSET U(j) /\ j \in U(j) /\ j \notin U(i)
    BY <1>2
  <2>2. IsFiniteSet(U(j)) /\ Cardinality(U(i)) \in Nat /\ Cardinality(U(j)) \in Nat
    BY <1>1, FS_CardinalityType
  <2> HIDE DEF U
  <2>3. Cardinality(U(i)) <= Cardinality(U(j))
        /\ (Cardinality(U(j)) = Cardinality(U(i)) => U(j) = U(i))
    BY <2>1, <2>2, FS_Subset
  <2> QED BY <2>1, <2>2, <2>3
<1> QED BY <1>1, <1>2

(* The live entries, before and after a removal. *)
LEMMA ReindexPlaces ==
    ASSUME TypeInv, NEW S \in SUBSET DOMAIN entries
    PROVE  /\ Cardinality(S) \in Nat
           /\ \A i \in S : /\ Reindex(place, S)[i] \in 1..Cardinality(S)
                           /\ place[i] \in Nat
           /\ \A i, j \in S : place[i] < place[j] =>
                                 Reindex(place, S)[i] < Reindex(place, S)[j]
<1>1. IsFiniteSet(S) /\ Cardinality(S) \in Nat /\ \A i \in S : place[i] \in Nat
  BY LiveIsFinite DEF TypeInv, TypeOK
<1> QED BY <1>1, ReindexInOrder

LEMMA StepsKeepOrder == LifeInv /\ [ClockNext]_vars => InOrder
<1> SUFFICES ASSUME LifeInv, [ClockNext]_vars, ~SomeReorder,
                    NEW i \in DOMAIN entries \cap DOMAIN entries', NEW j \in DOMAIN entries',
                    j \in DOMAIN entries => place[i] < place[j], i # j
             PROVE  place'[i] < place'[j]
  BY DEF InOrder
<1>1. PlacesFollow /\ TypeInv
  BY LifeShape DEF StepShape, LifeInv
<1>2. CASE DOMAIN entries' = DOMAIN entries /\ place' = place
  BY <1>2
<1>3. ASSUME NEW S \in SUBSET DOMAIN entries,
             DOMAIN entries' = S, place' = Reindex(place, S)
      PROVE  place'[i] < place'[j]
  BY <1>1, <1>3, ReindexPlaces
<1>4. CASE /\ DOMAIN entries' = Kept \cup {minted + 1}
           /\ place' = [l \in Kept \cup {minted + 1} |->
                           IF l = minted + 1 THEN Cardinality(Kept) + 1
                           ELSE Reindex(place, Kept)[l]]
  <2>1. i \in Kept /\ i # minted + 1 /\ Kept \in SUBSET DOMAIN entries
    <3>1. minted \in Nat /\ minted + 1 \notin DOMAIN entries
      BY <1>1 DEF TypeInv, TypeOK
    <3> QED BY <1>1, <1>4, <3>1, KeptFacts
  <2>2. place'[i] = Reindex(place, Kept)[i] /\ place'[i] \in 1..Cardinality(Kept)
        /\ Cardinality(Kept) \in Nat
    BY <1>1, <1>4, <2>1, ReindexPlaces
  <2>3. CASE j = minted + 1
    BY <1>4, <2>2, <2>3
  <2>4. CASE j # minted + 1
    <3>1. j \in Kept /\ place'[j] = Reindex(place, Kept)[j]
      BY <1>4, <2>4
    <3> QED BY <1>1, <2>1, <2>2, <3>1, ReindexPlaces
  <2> QED BY <2>3, <2>4
<1> QED BY <1>1, <1>2, <1>3, <1>4 DEF PlacesFollow

(* For any callers, sweeps, crashes and any clock, nothing but a reorder     *)
(* changes which of two entries comes first, and a new entry comes last.   *)
THEOREM OrderIsKept == ClockSpec => OrderKept
<1>1. LifeInv /\ [ClockNext]_vars => InOrder
  BY StepsKeepOrder
<1> QED BY <1>1, LifeInvariant, PTL DEF ClockSpec, OrderKept

-----------------------------------------------------------------------------
(* Places, reservations and branches. *)

(* Places that differ in the order of p still differ. *)
LEMMA ReindexDiffers ==
    ASSUME NEW S, IsFiniteSet(S), NEW p, \A l \in S : p[l] \in Nat,
           \A i, j \in S : p[i] = p[j] => i = j
    PROVE  /\ \A i \in S : Reindex(p, S)[i] >= 1
           /\ \A i, j \in S : Reindex(p, S)[i] = Reindex(p, S)[j] => i = j
<1>1. \A i \in S : Reindex(p, S)[i] \in Nat /\ Reindex(p, S)[i] >= 1
  <2>1. Cardinality(S) \in Nat
    BY FS_CardinalityType
  <2> QED BY <2>1, ReindexInOrder
<1>2. ASSUME NEW i \in S, NEW j \in S, i # j
      PROVE  Reindex(p, S)[i] # Reindex(p, S)[j]
  <2>1. p[i] < p[j] \/ p[j] < p[i]
    BY <1>2
  <2> QED BY <1>1, <2>1, ReindexInOrder
<1> QED BY <1>1, <1>2

(* The ranks a reorder gives differ: the named entries count from 1, the    *)
(* others from beyond the last name.                                       *)
LEMMA RanksDiffer ==
    ASSUME TypeInv, PlaceInv, NEW n \in Nat, NEW ids \in [1..n -> DOMAIN entries]
    PROVE  /\ \A i \in DOMAIN entries : NewRank(ids, i) \in Nat
           /\ \A i, j \in DOMAIN entries : NewRank(ids, i) = NewRank(ids, j) => i = j
<1> DEFINE named(i) == {m \in DOMAIN ids : ids[m] = i}
<1>1. DOMAIN ids = 1..n /\ Len(ids) = n
  OBVIOUS
<1>2. \A i \in DOMAIN entries : place[i] \in Nat /\ place[i] >= 1
  BY DEF PlaceInv, TypeInv, TypeOK
<1>3. ASSUME NEW i \in DOMAIN entries, named(i) # {}
      PROVE  NewRank(ids, i) \in 1..n /\ ids[NewRank(ids, i)] = i
  <2>1. named(i) \in SUBSET Nat
    BY <1>1
  <2>2. \E m \in named(i) : \A l \in named(i) : m <= l
    <3> HIDE DEF named
    <3> QED BY <1>3, <2>1, LeastNumber
  <2>3. NewRank(ids, i) \in named(i)
    BY <1>3, <2>2 DEF NewRank
  <2> QED BY <1>1, <2>3
<1>4. ASSUME NEW i \in DOMAIN entries, named(i) = {}
      PROVE  NewRank(ids, i) = n + place[i]
  BY <1>1, <1>4 DEF NewRank
<1> HIDE DEF named
<1>5. \A i \in DOMAIN entries :
        \/ \/ NewRank(ids, i) \in 1..n /\ ids[NewRank(ids, i)] = i
        \/ NewRank(ids, i) = n + place[i]
  BY <1>3, <1>4
<1>6. \A i \in DOMAIN entries : NewRank(ids, i) \in Nat
  BY <1>2, <1>5
<1>7. ASSUME NEW i \in DOMAIN entries, NEW j \in DOMAIN entries,
             NewRank(ids, i) = NewRank(ids, j)
      PROVE  i = j
  <2>1. place[i] = place[j] => i = j
    BY DEF PlaceInv
  <2>2. place[i] \in Nat /\ place[i] >= 1 /\ place[j] \in Nat /\ place[j] >= 1
    BY <1>2
  <2>3. \/ NewRank(ids, i) \in 1..n /\ ids[NewRank(ids, i)] = i
        \/ NewRank(ids, i) = n + place[i]
    BY <1>5
  <2>4. \/ NewRank(ids, j) \in 1..n /\ ids[NewRank(ids, j)] = j
        \/ NewRank(ids, j) = n + place[j]
    BY <1>5
  <2> QED BY <1>7, <2>1, <2>2, <2>3, <2>4
<1> QED BY <1>6, <1>7

LEMMA PlacesStayDistinct ==
    ASSUME TypeInv, PlaceInv, PlacesFollow
    PROVE  PlaceInv'
<1>1. \A S \in SUBSET DOMAIN entries :
        /\ IsFiniteSet(S) /\ Cardinality(S) \in Nat
        /\ \A l \in S : place[l] \in Nat
        /\ \A i, j \in S : place[i] = place[j] => i = j
  BY LiveIsFinite DEF TypeInv, TypeOK, PlaceInv
<1>2. CASE DOMAIN entries' = DOMAIN entries /\ place' = place
  BY <1>2 DEF PlaceInv
<1>3. ASSUME NEW S \in SUBSET DOMAIN entries,
             DOMAIN entries' = S, place' = Reindex(place, S)
      PROVE  PlaceInv'
  BY <1>1, <1>3, ReindexDiffers DEF PlaceInv
<1>4. CASE /\ DOMAIN entries' = Kept \cup {minted + 1}
           /\ place' = [l \in Kept \cup {minted + 1} |->
                           IF l = minted + 1 THEN Cardinality(Kept) + 1
                           ELSE Reindex(place, Kept)[l]]
  <2>1. Kept \in SUBSET DOMAIN entries /\ minted + 1 \notin Kept
    <3>1. minted \in Nat /\ minted + 1 \notin DOMAIN entries
      BY DEF TypeInv, TypeOK
    <3> QED BY <3>1, KeptFacts
  <2>2. Cardinality(Kept) \in Nat /\ \A l \in Kept :
           place'[l] = Reindex(place, Kept)[l] /\ place'[l] \in 1..Cardinality(Kept)
    BY <1>4, <2>1, ReindexPlaces
  <2>3. place'[minted + 1] = Cardinality(Kept) + 1
    BY <1>4
  <2>4. \A i, j \in Kept : place'[i] = place'[j] => i = j
    BY <1>1, <2>1, <2>2, ReindexDiffers
  <2>5. \A l \in DOMAIN entries' : place'[l] >= 1
    BY <1>4, <2>2, <2>3
  <2>6. \A i, j \in DOMAIN entries' : place'[i] = place'[j] => i = j
    BY <1>4, <2>2, <2>3, <2>4
  <2> QED BY <2>5, <2>6 DEF PlaceInv
<1>5. ASSUME NEW n \in 1..Cardinality(DOMAIN entries), NEW ids \in [1..n -> DOMAIN entries],
             DOMAIN entries' = DOMAIN entries,
             place' = Reindex([i \in DOMAIN entries |-> NewRank(ids, i)], DOMAIN entries)
      PROVE  PlaceInv'
  <2> DEFINE p == [i \in DOMAIN entries |-> NewRank(ids, i)]
  <2>1. Cardinality(DOMAIN entries) \in Nat /\ IsFiniteSet(DOMAIN entries)
    BY LiveIsFinite DEF TypeInv
  <2>2. n \in Nat
    BY <2>1
  <2>3. /\ \A i \in DOMAIN entries : p[i] \in Nat
        /\ \A i, j \in DOMAIN entries : p[i] = p[j] => i = j
    BY <2>2, RanksDiffer
  <2>4. place' = Reindex(p, DOMAIN entries)
    BY <1>5
  <2> HIDE DEF p
  <2>5. /\ \A i \in DOMAIN entries' : place'[i] >= 1
        /\ \A i, j \in DOMAIN entries' : place'[i] = place'[j] => i = j
    BY <1>5, <2>1, <2>3, <2>4, ReindexDiffers
  <2> QED BY <2>5 DEF PlaceInv
<1> QED BY <1>2, <1>3, <1>4, <1>5 DEF PlacesFollow

LEMMA ReservationsStayTicketed ==
    ASSUME EntriesInherit, RepositoriesTicketed
    PROVE  RepositoriesTicketed'
BY DEF EntriesInherit, Inherits, NewEntry, RepositoriesTicketed, IsTicketed

BranchInv == PlaceInv /\ RepositoriesTicketed /\ BranchExclusive

LEMMA InitBranches == Init => BranchInv
<1> SUFFICES ASSUME Init PROVE BranchInv
  OBVIOUS
<1>1. PICK q \in Leftovers :
        entries = [i \in 1..Len(q) |-> q[i]] /\ place = [i \in 1..Len(q) |-> i]
  BY DEF Init, FilesInit
<1>2. q \in Seq({e \in Entry : OldStyleEntry(e)})
  BY FilesAssumption
<1>3. Len(q) \in Nat /\ \A i \in 1..Len(q) : OldStyleEntry(q[i])
  BY <1>2
<1>4. DOMAIN entries = 1..Len(q) /\ \A i \in 1..Len(q) : place[i] = i /\ entries[i] = q[i]
  BY <1>1
<1>5. \A i \in DOMAIN entries : entries[i].repository = None
  BY <1>3, <1>4 DEF OldStyleEntry
<1>6. PlaceInv
  BY <1>3, <1>4 DEF PlaceInv
<1> QED BY <1>5, <1>6 DEF BranchInv, RepositoriesTicketed, BranchExclusive, SameBranch

LEMMA StepsKeepBranches == LifeInv /\ BranchInv /\ [ClockNext]_vars => BranchInv'
<1> SUFFICES ASSUME LifeInv, BranchInv, [ClockNext]_vars PROVE BranchInv'
  OBVIOUS
<1>1. StepShape /\ TypeInv
  BY LifeShape DEF LifeInv
<1>2. PlaceInv'
  BY <1>1, PlacesStayDistinct DEF StepShape, BranchInv
<1>3. RepositoriesTicketed'
  BY <1>1, ReservationsStayTicketed DEF StepShape, BranchInv
<1>4. BranchExclusive'
  <2> SUFFICES ASSUME NEW i \in DOMAIN entries', NEW j \in DOMAIN entries',
                      Running(entries'[i]), Running(entries'[j]),
                      SameBranch(entries'[i].repository, entries'[j].repository),
                      i # j
               PROVE  FALSE
    BY DEF BranchExclusive, Running
  <2>1. RanBefore(i) /\ RanBefore(j)
    BY <1>1 DEF StepShape, BranchesFree, BranchInv
  <2>2. Inherits(entries[i], entries'[i]) /\ Inherits(entries[j], entries'[j])
        /\ i \in DOMAIN entries /\ j \in DOMAIN entries
    BY <2>1, StayingEntry DEF RanBefore
  <2>3. SameBranch(entries[i].repository, entries[j].repository)
    BY <2>2 DEF Inherits
  <2> QED BY <2>1, <2>2, <2>3 DEF BranchInv, BranchExclusive, RanBefore, Running
<1> QED BY <1>2, <1>3, <1>4 DEF BranchInv

(* Two running entries never hold one branch, however many entries a         *)
(* hand-out looks at, gives out and skips, whoever put an entry back, and  *)
(* with old-style callers that know no branches.                           *)
THEOREM BranchesAreExclusive == ClockSpec => []BranchExclusive
<1>1. Init => BranchInv
  BY InitBranches
<1>2. LifeInv /\ BranchInv /\ [ClockNext]_vars => BranchInv'
  BY StepsKeepBranches
<1>3. BranchInv => BranchExclusive
  BY DEF BranchInv
<1> QED BY <1>1, <1>2, <1>3, LifeInvariant, PTL DEF ClockSpec

-----------------------------------------------------------------------------
(* The history. *)

(* h is in the last batch that names its entry, alone. *)
IsFinal(h) ==
    \E n \in DOMAIN history :
        /\ h \in history[n]
        /\ \A x \in history[n] : x.entry_id = h.entry_id => x = h
        /\ \A m \in DOMAIN history : \A x \in history[m] : m > n => x.entry_id # h.entry_id

(* Records are of minted ids, and what took effect is final and accounts    *)
(* for every entry that is gone.                                           *)
HistInv ==
    /\ \A n \in DOMAIN history : \A h \in history[n] : h.entry_id \in 1..minted
    /\ \A h \in left : h.entry_id \in (1..minted) \ DOMAIN entries /\ IsFinal(h)
    /\ \A i \in (1..minted) \ DOMAIN entries : \E h \in left : h.entry_id = i

(* What an append does to the history. *)
LEMMA AppendedHistory ==
    ASSUME TypeInv, NEW F, history' = IF F = {} THEN history ELSE Append(history, F)
    PROVE  /\ Len(history) \in Nat /\ DOMAIN history = 1..Len(history)
           /\ \A n \in DOMAIN history : n \in DOMAIN history' /\ history'[n] = history[n]
           /\ \A n \in DOMAIN history' \ DOMAIN history :
                 n = Len(history) + 1 /\ history'[n] = F
           /\ F # {} => /\ Len(history) + 1 \in DOMAIN history'
                        /\ Len(history) + 1 \notin DOMAIN history
                        /\ history'[Len(history) + 1] = F
<1>1. history \in Seq(SUBSET HistoryRecord)
  BY DEF TypeInv, TypeOK
<1>2. Len(history) \in Nat /\ DOMAIN history = 1..Len(history)
  BY <1>1
<1>3. CASE F = {}
  BY <1>2, <1>3
<1>4. CASE F # {}
  <2>1. history' = Append(history, F)
    BY <1>4
  <2>2. /\ DOMAIN history' = 1..(Len(history) + 1)
        /\ \A n \in 1..Len(history) : history'[n] = history[n]
        /\ history'[Len(history) + 1] = F
    BY <1>1, <2>1
  <2> QED BY <1>2, <2>2
<1> QED BY <1>3, <1>4

LEMMA StepsKeepHistory ==
    ASSUME TypeInv, TypeInv', HistInv, StepShape
    PROVE  HistInv'
<1>1. PICK S \in SUBSET DOMAIN entries, F \in SUBSET HistoryRecord :
        /\ Finishes(F, S)
        /\ history' = IF F = {} THEN history ELSE Append(history, F)
        /\ \/ left' = left \cup F /\ DOMAIN entries \ DOMAIN entries' = S
           \/ left' = left /\ DOMAIN entries \subseteq DOMAIN entries'
  BY DEF StepShape, Records
<1>2. /\ minted \in Nat /\ minted' \in {minted, minted + 1}
      /\ DOMAIN entries \subseteq 1..minted /\ DOMAIN entries' \subseteq 1..minted'
      /\ minted' # minted => minted' \in DOMAIN entries'
      /\ \A i \in DOMAIN entries' : i \in DOMAIN entries \/ i = minted + 1
  BY DEF StepShape, EntriesInherit, TypeInv, TypeOK
<1> DEFINE l == Len(history)
<1>3. /\ l \in Nat /\ DOMAIN history = 1..l
      /\ \A n \in DOMAIN history : n \in DOMAIN history' /\ history'[n] = history[n]
      /\ \A n \in DOMAIN history' \ DOMAIN history : n = l + 1 /\ history'[n] = F
      /\ F # {} => /\ l + 1 \in DOMAIN history' /\ l + 1 \notin DOMAIN history
                   /\ history'[l + 1] = F
  BY <1>1, AppendedHistory
<1> HIDE DEF l
<1>4. \A h \in F : h.entry_id \in S /\ h.entry_id \in DOMAIN entries
  BY <1>1 DEF Finishes
<1>5. \A n \in DOMAIN history' : \A h \in history'[n] : h.entry_id \in 1..minted'
  BY <1>2, <1>3, <1>4 DEF HistInv
<1>6. ASSUME NEW h \in left
      PROVE  h.entry_id \in (1..minted') \ DOMAIN entries' /\ IsFinal(h)'
  <2>1. h.entry_id \in (1..minted) \ DOMAIN entries /\ IsFinal(h)
    BY DEF HistInv
  <2>2. h.entry_id \in (1..minted') \ DOMAIN entries'
    BY <1>2, <2>1
  <2>3. PICK n \in DOMAIN history :
          /\ h \in history[n]
          /\ \A x \in history[n] : x.entry_id = h.entry_id => x = h
          /\ \A m \in DOMAIN history : \A x \in history[m] :
                m > n => x.entry_id # h.entry_id
    BY <2>1 DEF IsFinal
  <2>4. n \in DOMAIN history' /\ history'[n] = history[n]
    BY <1>3
  <2>5. \A m \in DOMAIN history' : \A x \in history'[m] :
           m > n => x.entry_id # h.entry_id
    BY <1>3, <1>4, <2>1, <2>3
  <2> QED BY <2>2, <2>3, <2>4, <2>5 DEF IsFinal
<1>7. ASSUME NEW h \in F, left' = left \cup F, DOMAIN entries \ DOMAIN entries' = S
      PROVE  h.entry_id \in (1..minted') \ DOMAIN entries' /\ IsFinal(h)'
  <2>1. h.entry_id \in (1..minted') \ DOMAIN entries'
    BY <1>2, <1>4, <1>7
  <2>2. l + 1 \in DOMAIN history' /\ h \in history'[l + 1]
        /\ \A x \in history'[l + 1] : x.entry_id = h.entry_id => x = h
    BY <1>1, <1>3 DEF Finishes
  <2>3. \A m \in DOMAIN history' : ~ (m > l + 1)
    BY <1>3
  <2> QED BY <2>1, <2>2, <2>3 DEF IsFinal
<1>8. \A h \in left' : h.entry_id \in (1..minted') \ DOMAIN entries' /\ IsFinal(h)'
  BY <1>1, <1>6, <1>7
<1>9. ASSUME NEW i \in (1..minted') \ DOMAIN entries'
      PROVE  \E h \in left' : h.entry_id = i
  <2>1. i \in 1..minted
    BY <1>2
  <2>2. CASE i \notin DOMAIN entries
    BY <1>1, <2>1, <2>2 DEF HistInv
  <2>3. CASE i \in DOMAIN entries
    BY <1>1, <2>3 DEF Finishes
  <2> QED BY <2>2, <2>3
<1> QED BY <1>5, <1>8, <1>9 DEF HistInv

LEMMA InitHistory == Init => HistInv
<1> SUFFICES ASSUME Init PROVE HistInv
  OBVIOUS
<1>1. PICK q \in Leftovers : minted = Len(q) /\ entries = [i \in 1..Len(q) |-> q[i]]
  BY DEF Init, FilesInit
<1>2. history = <<>> /\ left = {}
  BY DEF Init, FilesInit
<1>3. DOMAIN entries = 1..minted
  BY <1>1
<1> QED BY <1>2, <1>3 DEF HistInv

(* The readers of the history find the final record. *)
LEMMA FinalIsLast ==
    ASSUME TypeInv, NEW h, IsFinal(h)
    PROVE  HasHistory(h.entry_id) /\ LastRecord(h.entry_id) = h
<1> DEFINE i == h.entry_id
           lines == {n \in DOMAIN history : \E x \in history[n] : x.entry_id = i}
<1>1. PICK n \in DOMAIN history :
        /\ h \in history[n]
        /\ \A x \in history[n] : x.entry_id = i => x = h
        /\ \A m \in DOMAIN history : \A x \in history[m] : m > n => x.entry_id # i
  BY DEF IsFinal
<1>2. DOMAIN history = 1..Len(history) /\ Len(history) \in Nat
  BY DEF TypeInv, TypeOK
<1>3. n \in lines /\ \A m \in lines : m <= n
  BY <1>1, <1>2
<1>4. (CHOOSE m \in lines : \A p \in lines : p <= m) = n
  <2>1. lines \in SUBSET Nat
    BY <1>2
  <2> HIDE DEF lines
  <2> QED BY <1>3, <2>1
<1>5. (CHOOSE x \in history[n] : x.entry_id = i) = h
  BY <1>1
<1>6. Lines(LAMBDA x : x.entry_id = i) = lines
  BY DEF Lines
<1>7. HasHistory(i)
  BY <1>3, <1>6 DEF HasHistory
<1>8. LastRecord(i) = h
  BY <1>4, <1>5 DEF LastRecord, FindLast, Lines
<1> QED BY <1>7, <1>8

LEMMA LastLinesTookEffect ==
    ASSUME TypeInv, HistInv
    PROVE  LastLineTookEffect
BY FinalIsLast DEF HistInv, LastLineTookEffect

LEMMA DoneIsDone ==
    ASSUME TypeInv, TicketInv, HistInv
    PROVE  DoneStaysDone
<1>1. ASSUME NEW h \in left, h.outcome # "Dropped", HasFence(h.entry)
      PROVE  FencedMutation(ExecutionFence(h.entry_id, h.entry), "Complete", None)
                = "AlreadyApplied"
  <2> DEFINE f == ExecutionFence(h.entry_id, h.entry)
  <2>1. h.entry_id \notin DOMAIN entries /\ HasHistory(h.entry_id)
        /\ LastRecord(h.entry_id) = h
    BY FinalIsLast DEF HistInv
  <2>2. f.entry_id = h.entry_id /\ ExactFenceMatches(h.entry_id, h.entry, f)
    BY DEF ExecutionFence, ExactFenceMatches
  <2> HIDE DEF f
  <2> QED BY <1>1, <2>1, <2>2 DEF FencedMutation, FinishedEntryOutcome, f
<1>2. ASSUME NEW f \in issued, FencedMutation(f, "Complete", None) = "AlreadyApplied"
      PROVE  \E h \in left : h.entry_id = f.entry_id /\ h.outcome # "Dropped"
  <2>1. f.entry_id \notin DOMAIN entries
    BY <1>2 DEF FencedMutation
  <2>2. LastRecord(f.entry_id).outcome # "Dropped"
    BY <1>2, <2>1 DEF FencedMutation, FinishedEntryOutcome
  <2>3. f.entry_id \in 1..minted
    BY DEF TicketInv, TicketsMatchEntries, TicketMatchesEntry
  <2>4. PICK h \in left : h.entry_id = f.entry_id
    BY <2>1, <2>3 DEF HistInv
  <2>5. LastRecord(f.entry_id) = h
    BY <2>4, FinalIsLast DEF HistInv
  <2> QED BY <2>2, <2>4, <2>5
<1> QED BY <1>1, <1>2 DEF DoneStaysDone

LEMMA HistoryInvariant == ClockSpec => []HistInv
<1>1. LifeInv /\ HistInv /\ [ClockNext]_vars => HistInv'
  BY StepsKeepHistory, LifeShape, ClockKeepsLifeInv DEF LifeInv
<1> QED BY <1>1, InitHistory, LifeInvariant, PTL DEF ClockSpec

(* For any number of crashes between the two writes of a commit, an entry    *)
(* that left queue.json stays out, and the last line the history has of it *)
(* is the finish that took effect.                                         *)
THEOREM LastLinesHold == ClockSpec => []LastLineTookEffect
<1>1. LifeInv /\ HistInv => LastLineTookEffect
  BY LastLinesTookEffect DEF LifeInv
<1> QED BY <1>1, LifeInvariant, HistoryInvariant, PTL

(* The ticket that finished an entry is told so for ever, and no ticket is  *)
(* told that an entry is finished when it is not, whatever half-done       *)
(* commits left in the history.                                            *)
THEOREM DoneHolds == ClockSpec => []DoneStaysDone
<1>1. LifeInv /\ HistInv => DoneStaysDone
  BY DoneIsDone DEF LifeInv
<1> QED BY <1>1, LifeInvariant, HistoryInvariant, PTL

-----------------------------------------------------------------------------
(* The generations of subjects. *)

IdentityOf(i, e) == [entry_id |-> i, subject |-> e.subject_id, gen |-> e.subject_generation]

(* The records of the history. *)
Recorded == UNION {history[n] : n \in DOMAIN history}

LEMMA IdentitiesAre ==
    \A a : a \in Identities <=>
        \/ \E i \in DOMAIN entries : IsTicketed(entries[i]) /\ a = IdentityOf(i, entries[i])
        \/ \E h \in Recorded : IsTicketed(h.entry) /\ a = IdentityOf(h.entry_id, h.entry)
        \/ \E f \in issued : a = IdentityOf(f.entry_id, f)
BY DEF Identities, IdentityOf, Recorded

LEMMA IdentityType ==
    ASSUME TypeInv, NEW a \in Identities
    PROVE  a.subject \in Subjects /\ a.gen \in Nat
<1>1. CASE \E i \in DOMAIN entries : a = IdentityOf(i, entries[i])
  BY <1>1, KeptFacts DEF IdentityOf, Entry
<1>2. CASE \E h \in Recorded : a = IdentityOf(h.entry_id, h.entry)
  <2>1. \A h \in Recorded : h.entry \in Entry
    BY DEF Recorded, TypeInv, TypeOK, HistoryRecord
  <2> QED BY <1>2, <2>1 DEF IdentityOf, Entry
<1>3. CASE \E f \in issued : a = IdentityOf(f.entry_id, f)
  BY <1>3 DEF IdentityOf, Fence, TypeInv, TypeOK
<1> QED BY <1>1, <1>2, <1>3, IdentitiesAre

(* A record keeps the subject, generation and keys of its entry. *)
LEMMA FinishedKeeps ==
    ASSUME NEW i, NEW e \in Entry, NEW o
    PROVE  LET h == Finished(i, e, o) IN
           /\ h.entry_id = i /\ h.entry.subject_id = e.subject_id
           /\ h.entry.subject_generation = e.subject_generation
           /\ h.entry.bound = e.bound
BY DEF Finished, Entry

(* A step records what was recorded and, of what it adds, the live entries. *)
LEMMA StepRecords ==
    ASSUME TypeInv, Records
    PROVE  /\ Recorded \subseteq Recorded'
           /\ \A h \in Recorded' \ Recorded :
                 /\ h.entry_id \in DOMAIN entries
                 /\ h.entry.subject_id = entries[h.entry_id].subject_id
                 /\ h.entry.subject_generation = entries[h.entry_id].subject_generation
                 /\ h.entry.bound = entries[h.entry_id].bound
           /\ \A i \in DOMAIN entries \ DOMAIN entries' : \E h \in Recorded' :
                 /\ h.entry_id = i
                 /\ h.entry.subject_id = entries[i].subject_id
                 /\ h.entry.subject_generation = entries[i].subject_generation
                 /\ h.entry.bound = entries[i].bound
<1>1. PICK S \in SUBSET DOMAIN entries, F \in SUBSET HistoryRecord :
        /\ Finishes(F, S)
        /\ history' = IF F = {} THEN history ELSE Append(history, F)
        /\ \/ left' = left \cup F /\ DOMAIN entries \ DOMAIN entries' = S
           \/ left' = left /\ DOMAIN entries \subseteq DOMAIN entries'
  BY DEF Records
<1>2. /\ \A n \in DOMAIN history : n \in DOMAIN history' /\ history'[n] = history[n]
      /\ \A n \in DOMAIN history' \ DOMAIN history : history'[n] = F
      /\ F # {} => \E n \in DOMAIN history' : history'[n] = F
  BY <1>1, AppendedHistory
<1>3. Recorded' = Recorded \cup F
  BY <1>2 DEF Recorded
<1>4. \A h \in F : /\ h.entry_id \in DOMAIN entries
                   /\ h.entry.subject_id = entries[h.entry_id].subject_id
                   /\ h.entry.subject_generation = entries[h.entry_id].subject_generation
                   /\ h.entry.bound = entries[h.entry_id].bound
  <2> SUFFICES ASSUME NEW h \in F
               PROVE  /\ h.entry_id \in DOMAIN entries
                      /\ h.entry.subject_id = entries[h.entry_id].subject_id
                      /\ h.entry.subject_generation = entries[h.entry_id].subject_generation
                      /\ h.entry.bound = entries[h.entry_id].bound
    OBVIOUS
  <2>1. PICK o \in HistoryOutcome : h = Finished(h.entry_id, entries[h.entry_id], o)
    BY <1>1 DEF Finishes
  <2>2. h.entry_id \in DOMAIN entries /\ entries[h.entry_id] \in Entry
    BY <1>1, KeptFacts DEF Finishes
  <2>3. LET x == Finished(h.entry_id, entries[h.entry_id], o) IN
        /\ x.entry.subject_id = entries[h.entry_id].subject_id
        /\ x.entry.subject_generation = entries[h.entry_id].subject_generation
        /\ x.entry.bound = entries[h.entry_id].bound
    BY <2>2, FinishedKeeps
  <2> QED BY <2>1, <2>2, <2>3
<1>5. \A i \in DOMAIN entries \ DOMAIN entries' : \E h \in F : h.entry_id = i
  BY <1>1 DEF Finishes
<1> QED BY <1>3, <1>4, <1>5

(* Every identity after a step was there before, or the step gave it. *)
LEMMA IdentitiesFollow ==
    ASSUME TypeInv, StepShape
    PROVE  \A a \in Identities' :
              \/ a \in Identities
              \/ \E i \in DOMAIN entries' : GotIdentity(i) /\ a = IdentityOf(i, entries'[i])
<1> SUFFICES ASSUME NEW a \in Identities', a \notin Identities
             PROVE  \E i \in DOMAIN entries' : GotIdentity(i) /\ a = IdentityOf(i, entries'[i])
  OBVIOUS
<1>1. \/ \E i \in DOMAIN entries' : IsTicketed(entries'[i]) /\ a = IdentityOf(i, entries'[i])
      \/ \E h \in Recorded' : IsTicketed(h.entry) /\ a = IdentityOf(h.entry_id, h.entry)
      \/ \E f \in issued' : a = IdentityOf(f.entry_id, f)
  BY DEF Identities, IdentityOf, Recorded
<1>2. ASSUME NEW i \in DOMAIN entries', IsTicketed(entries'[i]),
             a = IdentityOf(i, entries'[i])
      PROVE  GotIdentity(i)
  <2> SUFFICES ASSUME i \in DOMAIN entries, IsTicketed(entries[i]) PROVE FALSE
    BY <1>2 DEF GotIdentity, HadIdentity
  <2>1. Inherits(entries[i], entries'[i])
    BY DEF StepShape, EntriesInherit, TypeInv, TypeOK
  <2>2. a = IdentityOf(i, entries[i])
    BY <1>2, <2>1 DEF Inherits, IdentityOf
  <2> QED BY <2>2, IdentitiesAre
<1>3. ASSUME NEW h \in Recorded', IsTicketed(h.entry), a = IdentityOf(h.entry_id, h.entry)
      PROVE  FALSE
  <2>1. h \notin Recorded
    BY <1>3, IdentitiesAre
  <2>2. /\ h.entry_id \in DOMAIN entries
        /\ h.entry.subject_id = entries[h.entry_id].subject_id
        /\ h.entry.subject_generation = entries[h.entry_id].subject_generation
    BY <2>1, StepRecords DEF StepShape
  <2> QED BY <1>3, <2>2, IdentitiesAre DEF IdentityOf, IsTicketed
<1>4. ASSUME NEW f \in issued', a = IdentityOf(f.entry_id, f)
      PROVE  \E i \in DOMAIN entries' :
                IsTicketed(entries'[i]) /\ a = IdentityOf(i, entries'[i])
  <2>1. f \notin issued
    BY <1>4, IdentitiesAre
  <2>2. PICK i \in DOMAIN entries' :
          f = ExecutionFence(i, entries'[i]) /\ IsTicketed(entries'[i])
    BY <2>1 DEF StepShape, NewTickets
  <2> QED BY <1>4, <2>2 DEF IdentityOf, ExecutionFence
<1> QED BY <1>1, <1>2, <1>3, <1>4

LEMMA StepsKeepIdentities ==
    ASSUME TypeInv, TypeInv', PlaceInv, SubjectGenerationsUnique, StepShape
    PROVE  SubjectGenerationsUnique'
<1> DEFINE Given(a) == \E i \in DOMAIN entries' :
                           GotIdentity(i) /\ a = IdentityOf(i, entries'[i])
<1>1. \A a \in Identities' : a \in Identities \/ Given(a)
  BY IdentitiesFollow
<1>2. /\ \A s \in Subjects : generations[s] \in Nat
      /\ \A s \in Subjects : generations'[s] >= generations[s]
  BY DEF StepShape, NewIdentities, TypeInv, TypeOK
<1>3. ASSUME NEW a \in Identities
      PROVE  /\ a.subject \in Subjects /\ a.gen \in Nat
             /\ a.gen <= generations[a.subject]
  BY IdentityType DEF SubjectGenerationsUnique
<1>4. ASSUME NEW a, Given(a)
      PROVE  generations[a.subject] < a.gen /\ a.gen <= generations'[a.subject]
  BY <1>4 DEF StepShape, NewIdentities, IdentityOf
<1>5. ASSUME NEW a, NEW b, Given(a), Given(b), a.subject = b.subject, a.gen = b.gen
      PROVE  a = b
  <2>1. PICK i \in DOMAIN entries' : GotIdentity(i) /\ a = IdentityOf(i, entries'[i])
    BY <1>5
  <2>2. PICK j \in DOMAIN entries' : GotIdentity(j) /\ b = IdentityOf(j, entries'[j])
    BY <1>5
  <2>3. i = j
    BY <1>5, <2>1, <2>2 DEF StepShape, NewIdentities, IdentityOf
  <2> QED BY <2>1, <2>2, <2>3
<1> HIDE DEF Given
<1>6. ASSUME NEW a \in Identities, NEW b, Given(b), a.subject = b.subject
      PROVE  a.gen # b.gen
  BY <1>2, <1>3, <1>4, <1>6
<1>7. ASSUME NEW a \in Identities', NEW b \in Identities',
             a.subject = b.subject, a.gen = b.gen
      PROVE  a = b
  <2>1. (a \in Identities \/ Given(a)) /\ (b \in Identities \/ Given(b))
    BY <1>1
  <2> QED BY <1>5, <1>6, <1>7, <2>1 DEF SubjectGenerationsUnique
<1>8. ASSUME NEW a \in Identities' PROVE a.gen <= generations'[a.subject]
  <2>1. CASE a \in Identities
    <3>1. /\ a.gen <= generations[a.subject]
          /\ generations'[a.subject] >= generations[a.subject]
          /\ a.gen \in Nat /\ generations[a.subject] \in Nat
      BY <1>2, <1>3, <2>1
    <3>2. generations'[a.subject] \in Nat
      BY <1>3, <2>1 DEF TypeInv, TypeOK
    <3> QED BY <3>1, <3>2
  <2>2. CASE Given(a)
    BY <1>4, <2>2
  <2> QED BY <1>1, <2>1, <2>2
<1> QED BY <1>7, <1>8 DEF SubjectGenerationsUnique

LEMMA InitIdentities == Init => SubjectGenerationsUnique
<1> SUFFICES ASSUME Init PROVE SubjectGenerationsUnique
  OBVIOUS
<1>1. PICK q \in Leftovers : entries = [i \in 1..Len(q) |-> q[i]]
  BY DEF Init, FilesInit
<1>2. q \in Seq({e \in Entry : OldStyleEntry(e)})
  BY FilesAssumption
<1>3. \A i \in 1..Len(q) : OldStyleEntry(q[i])
  BY <1>2
<1>4. \A i \in DOMAIN entries : ~IsTicketed(entries[i])
  BY <1>1, <1>3 DEF OldStyleEntry, IsTicketed
<1>5. Recorded = {} /\ issued = {}
  BY DEF Init, FilesInit, Recorded
<1>6. Identities = {}
  BY <1>4, <1>5, IdentitiesAre
<1> QED BY <1>6 DEF SubjectGenerationsUnique

LEMMA BranchInvariant == ClockSpec => []BranchInv
BY InitBranches, StepsKeepBranches, LifeInvariant, PTL DEF ClockSpec

(* A generation of a subject is given to one entry only, ever, by whatever   *)
(* call and in whatever batch, although finished entries, crashes and      *)
(* old-style entries come between; and the recorded counter is ahead of    *)
(* every one in use.                                                       *)
THEOREM SubjectGenerationsAreUnique == ClockSpec => []SubjectGenerationsUnique
<1>1. LifeInv /\ BranchInv /\ SubjectGenerationsUnique /\ [ClockNext]_vars
         => SubjectGenerationsUnique'
  BY StepsKeepIdentities, LifeShape, ClockKeepsLifeInv DEF LifeInv, BranchInv
<1> QED BY <1>1, InitIdentities, LifeInvariant, BranchInvariant, PTL DEF ClockSpec

-----------------------------------------------------------------------------
(* The receipts. *)

(* A receipt for key k, from entry i as e. *)
ReceiptOf(i, e, k) == <<i, e.subject_id, e.subject_generation, e.bound[k]>>

(* The receipts the queue file and the history have for k. *)
Receipts(k) ==
    {ReceiptOf(i, entries[i], k) : i \in {j \in DOMAIN entries : entries[j].bound[k] # None}}
    \cup {ReceiptOf(h.entry_id, h.entry, k) : h \in {x \in Recorded : x.entry.bound[k] # None}}

(* They all agree, and are of ticketed entries. *)
KeyInv ==
    \A k \in Keys :
        /\ \A a, b \in Receipts(k) : a = b
        /\ \A i \in DOMAIN entries : entries[i].bound[k] # None => IsTicketed(entries[i])

(* The one enqueue_v2 gives is one of them. *)
ReceiptsFound ==
    \A k \in Keys :
        /\ KeyKnown(k) <=> Receipts(k) # {}
        /\ KeyKnown(k) => Receipt(k) \in Receipts(k)

LEMMA FirstOfOne ==
    ASSUME TypeInv, NEW S \in SUBSET DOMAIN entries, S # {}, \A i, j \in S : i = j
    PROVE  First(S) \in S
<1>1. PICK i \in S : TRUE
  OBVIOUS
<1>2. place[i] \in Nat
  BY DEF TypeInv, TypeOK
<1>3. Ahead(S, i) = {}
  BY <1>1, <1>2 DEF Ahead
<1> QED BY <1>1, <1>3 DEF First

(* A key the history has is found in it. *)
LEMMA RecordOfKeyFound ==
    ASSUME TypeInv, NEW k \in Keys, KeyInHistory(k)
    PROVE  LastRecordOfKey(k) \in Recorded /\ LastRecordOfKey(k).entry.bound[k] # None
<1> DEFINE lines == {n \in DOMAIN history : \E h \in history[n] : h.entry.bound[k] # None}
<1>1. DOMAIN history = 1..Len(history) /\ Len(history) \in Nat
  BY DEF TypeInv, TypeOK
<1>2. Lines(LAMBDA h : BoundRequestHash(h.entry, k) # None) = lines
  BY DEF Lines, BoundRequestHash
<1>3. lines \in SUBSET (1..Len(history)) /\ lines # {}
  BY <1>1, <1>2 DEF KeyInHistory
<1> DEFINE n == CHOOSE m \in lines : \A l \in lines : l <= m
<1>4. LastRecordOfKey(k) = CHOOSE h \in history[n] : h.entry.bound[k] # None
  BY DEF LastRecordOfKey, FindLast, Lines, BoundRequestHash
<1>5. n \in lines
  <2> HIDE DEF lines
  <2>1. \E m \in lines : \A l \in lines : l <= m
    BY <1>1, <1>3, GreatestNumber
  <2> QED BY <2>1
<1> HIDE DEF n
<1>6. n \in DOMAIN history /\ \E h \in history[n] : h.entry.bound[k] # None
  BY <1>5
<1> QED BY <1>4, <1>6 DEF Recorded

LEMMA ReceiptsAreFound == TypeInv /\ KeyInv => ReceiptsFound
<1> SUFFICES ASSUME TypeInv, KeyInv, NEW k \in Keys
             PROVE  /\ KeyKnown(k) <=> Receipts(k) # {}
                    /\ KeyKnown(k) => Receipt(k) \in Receipts(k)
  BY DEF ReceiptsFound
<1>1. KeyKnown(k) <=> \/ \E i \in DOMAIN entries : entries[i].bound[k] # None
                      \/ \E h \in Recorded : h.entry.bound[k] # None
  BY DEF KeyKnown, HasKey, KeyInHistory, Lines, Recorded, BoundRequestHash
<1>2. KeyKnown(k) <=> Receipts(k) # {}
  BY <1>1 DEF Receipts
<1>3. \A i, j \in DOMAIN entries :
         entries[i].bound[k] # None /\ entries[j].bound[k] # None => i = j
  <2>1. \A i \in DOMAIN entries : entries[i].bound[k] # None =>
           ReceiptOf(i, entries[i], k) \in Receipts(k)
    BY DEF Receipts
  <2>2. \A i, j \in DOMAIN entries :
           ReceiptOf(i, entries[i], k) = ReceiptOf(j, entries[j], k) => i = j
    BY DEF ReceiptOf
  <2> QED BY <2>1, <2>2 DEF KeyInv
<1> DEFINE live  == {i \in Kept  : HasKey(i, k)}
           swept == {i \in Swept : HasKey(i, k)}
           Found(S) == [entry_id |-> First(S), entry |-> entries[First(S)]]
<1>4. /\ live \subseteq DOMAIN entries /\ swept \subseteq DOMAIN entries
      /\ \A i \in live \cup swept : entries[i].bound[k] # None
  BY DEF Kept, Swept, HasKey, BoundRequestHash
<1>5. KeyHolder(k) = IF live # {} THEN Found(live) ELSE IF swept # {} THEN Found(swept)
                     ELSE [entry_id |-> LastRecordOfKey(k).entry_id,
                           entry    |-> LastRecordOfKey(k).entry]
  BY DEF KeyHolder
<1>6. Receipt(k) = ReceiptOf(KeyHolder(k).entry_id, KeyHolder(k).entry, k)
  BY DEF Receipt, ReceiptOf, BoundRequestHash
<1>7. live = {} /\ swept = {} => \A i \in DOMAIN entries : entries[i].bound[k] = None
  BY DEF Kept, HasKey, BoundRequestHash
<1> HIDE DEF live, swept
<1>8. ASSUME NEW S \in {live, swept}, S # {}, KeyHolder(k) = Found(S)
      PROVE  Receipt(k) \in Receipts(k)
  <2>1. First(S) \in S
    BY <1>3, <1>4, <1>8, FirstOfOne
  <2>2. First(S) \in DOMAIN entries /\ entries[First(S)].bound[k] # None
    BY <1>4, <2>1
  <2>3. Receipt(k) = ReceiptOf(First(S), entries[First(S)], k)
    BY <1>6, <1>8
  <2> QED BY <2>2, <2>3 DEF Receipts
<1> HIDE DEF Found
<1>9. ASSUME live # {} \/ swept # {} PROVE Receipt(k) \in Receipts(k)
  <2>1. CASE live # {}
    BY <1>5, <1>8, <2>1
  <2>2. CASE live = {} /\ swept # {}
    BY <1>5, <1>8, <2>2
  <2> QED BY <1>9, <2>1, <2>2
<1>10. ASSUME live = {}, swept = {}, KeyKnown(k)
       PROVE  Receipt(k) \in Receipts(k)
  <2>1. KeyInHistory(k)
    BY <1>7, <1>10 DEF KeyKnown, HasKey, BoundRequestHash
  <2>2. LastRecordOfKey(k) \in Recorded /\ LastRecordOfKey(k).entry.bound[k] # None
    BY <2>1, RecordOfKeyFound
  <2>3. Receipt(k) = ReceiptOf(LastRecordOfKey(k).entry_id, LastRecordOfKey(k).entry, k)
    BY <1>5, <1>6, <1>10
  <2> QED BY <2>2, <2>3 DEF Receipts
<1> QED BY <1>2, <1>9, <1>10

LEMMA StayedEntry ==
    ASSUME TypeInv, StepShape, NEW i \in DOMAIN entries \cap DOMAIN entries'
    PROVE  Inherits(entries[i], entries'[i])
BY DEF StepShape, EntriesInherit, TypeInv, TypeOK

(* A step keeps every receipt ... *)
LEMMA ReceiptsStay ==
    ASSUME TypeInv, KeyInv, StepShape, NEW k \in Keys
    PROVE  Receipts(k) \subseteq Receipts(k)'
<1>1. /\ Recorded \subseteq Recorded'
      /\ \A i \in DOMAIN entries \ DOMAIN entries' : \E h \in Recorded' :
            ReceiptOf(h.entry_id, h.entry, k) = ReceiptOf(i, entries[i], k)
            /\ h.entry.bound[k] = entries[i].bound[k]
  BY StepRecords DEF StepShape, ReceiptOf
<1>2. ASSUME NEW i \in DOMAIN entries, entries[i].bound[k] # None, i \in DOMAIN entries'
      PROVE  /\ entries'[i].bound[k] # None
             /\ ReceiptOf(i, entries'[i], k) = ReceiptOf(i, entries[i], k)
  <2>1. IsTicketed(entries[i])
    BY <1>2 DEF KeyInv
  <2>2. Inherits(entries[i], entries'[i])
    BY <1>2, StayedEntry
  <2> QED BY <1>2, <2>1, <2>2 DEF Inherits, ReceiptOf
<1> QED BY <1>1, <1>2 DEF Receipts

(* ... and adds one only for a new key, of one entry. *)
LEMMA ReceiptsFollow ==
    ASSUME TypeInv, KeyInv, StepShape, NEW k \in Keys, NEW a \in Receipts(k)'
    PROVE  \/ a \in Receipts(k)
           \/ \E i \in DOMAIN entries' :
                 /\ entries'[i].bound[k] # None /\ ~HadKey(i, k)
                 /\ a = ReceiptOf(i, entries'[i], k)
<1>1. CASE \E i \in DOMAIN entries' :
              entries'[i].bound[k] # None /\ a = ReceiptOf(i, entries'[i], k)
  <2>1. PICK i \in DOMAIN entries' :
           entries'[i].bound[k] # None /\ a = ReceiptOf(i, entries'[i], k)
    BY <1>1
  <2>2. CASE HadKey(i, k)
    <3>1. i \in DOMAIN entries /\ entries[i].bound[k] # None
      BY <2>2 DEF HadKey
    <3>2. IsTicketed(entries[i]) /\ Inherits(entries[i], entries'[i])
      BY <3>1, StayedEntry DEF KeyInv
    <3>3. a = ReceiptOf(i, entries[i], k)
      BY <2>1, <3>1, <3>2 DEF Inherits, ReceiptOf
    <3> QED BY <3>1, <3>3 DEF Receipts
  <2> QED BY <2>1, <2>2
<1>2. CASE \E h \in Recorded' :
              h.entry.bound[k] # None /\ a = ReceiptOf(h.entry_id, h.entry, k)
  <2>1. PICK h \in Recorded' :
           h.entry.bound[k] # None /\ a = ReceiptOf(h.entry_id, h.entry, k)
    BY <1>2
  <2>2. CASE h \in Recorded
    BY <2>1, <2>2 DEF Receipts
  <2>3. CASE h \notin Recorded
    <3>1. /\ h.entry_id \in DOMAIN entries
          /\ h.entry.subject_id = entries[h.entry_id].subject_id
          /\ h.entry.subject_generation = entries[h.entry_id].subject_generation
          /\ h.entry.bound = entries[h.entry_id].bound
      BY <2>3, StepRecords DEF StepShape
    <3>2. a = ReceiptOf(h.entry_id, entries[h.entry_id], k)
          /\ entries[h.entry_id].bound[k] # None
      BY <2>1, <3>1 DEF ReceiptOf
    <3> QED BY <3>1, <3>2 DEF Receipts
  <2> QED BY <2>2, <2>3
<1> QED BY <1>1, <1>2 DEF Receipts

LEMMA StepsKeepKeys ==
    ASSUME TypeInv, KeyInv, ReceiptsFound, StepShape
    PROVE  KeyInv'
<1> SUFFICES ASSUME NEW k \in Keys
             PROVE  /\ \A a, b \in Receipts(k)' : a = b
                    /\ \A i \in DOMAIN entries' :
                          entries'[i].bound[k] # None => IsTicketed(entries'[i])
  BY DEF KeyInv
<1> DEFINE New(i) == i \in DOMAIN entries' /\ entries'[i].bound[k] # None /\ ~HadKey(i, k)
<1>1. \A i : New(i) => /\ Receipts(k) = {} /\ IsTicketed(entries'[i])
                       /\ \A j \in DOMAIN entries' : j # i => entries'[j].bound[k] = None
  BY DEF StepShape, NewKeys, ReceiptsFound
<1>2. \A a \in Receipts(k)' :
         a \in Receipts(k) \/ \E i : New(i) /\ a = ReceiptOf(i, entries'[i], k)
  BY ReceiptsFollow
<1>3. \A i, j : New(i) /\ New(j) => i = j
  BY <1>1
<1>4. ASSUME NEW i \in DOMAIN entries', entries'[i].bound[k] # None
      PROVE  IsTicketed(entries'[i])
  <2>1. CASE HadKey(i, k)
    <3>1. i \in DOMAIN entries /\ IsTicketed(entries[i])
      BY <2>1 DEF HadKey, KeyInv
    <3>2. Inherits(entries[i], entries'[i])
      BY <3>1, StayedEntry
    <3> QED BY <3>1, <3>2 DEF Inherits, IsTicketed
  <2> QED BY <1>1, <1>4, <2>1
<1> HIDE DEF New
<1>5. ASSUME NEW a \in Receipts(k)', NEW b \in Receipts(k)' PROVE a = b
  BY <1>1, <1>2, <1>3 DEF KeyInv
<1> QED BY <1>4, <1>5

LEMMA InitKeys == Init => KeyInv
<1> SUFFICES ASSUME Init PROVE KeyInv
  OBVIOUS
<1>1. PICK q \in Leftovers : entries = [i \in 1..Len(q) |-> q[i]]
  BY DEF Init, FilesInit
<1>2. q \in Seq({e \in Entry : OldStyleEntry(e)})
  BY FilesAssumption
<1>3. \A i \in 1..Len(q) : OldStyleEntry(q[i])
  BY <1>2
<1>4. \A i \in DOMAIN entries : \A k \in Keys : entries[i].bound[k] = None
  BY <1>1, <1>3 DEF OldStyleEntry
<1>5. Recorded = {}
  BY DEF Init, FilesInit, Recorded
<1>6. \A k \in Keys : Receipts(k) = {}
  BY <1>4, <1>5 DEF Receipts
<1> QED BY <1>4, <1>6 DEF KeyInv

LEMMA StepsKeepReceipts ==
    ASSUME TypeInv, KeyInv, KeyInv', ReceiptsFound, ReceiptsFound', StepShape
    PROVE  ReceiptsKept
<1> SUFFICES ASSUME NEW k \in Keys, KeyKnown(k)
             PROVE  KeyKnown(k)' /\ Receipt(k)' = Receipt(k)
  BY DEF ReceiptsKept
<1>1. Receipt(k) \in Receipts(k)'
  BY ReceiptsStay DEF ReceiptsFound
<1>2. KeyKnown(k)' /\ Receipt(k)' \in Receipts(k)'
  BY <1>1 DEF ReceiptsFound
<1> QED BY <1>1, <1>2 DEF KeyInv

(* A key once accepted is answered with the same receipt for ever, while its *)
(* entry waits, is handed out, swept or finished, and whatever an           *)
(* interrupted commit left in the history.                                 *)
THEOREM ReceiptsHold == ClockSpec => ReceiptNeverChanges
<1>1. LifeInv /\ KeyInv /\ [ClockNext]_vars => KeyInv'
  BY StepsKeepKeys, ReceiptsAreFound, LifeShape DEF LifeInv
<1>2. LifeInv /\ KeyInv => ReceiptsFound
  BY ReceiptsAreFound DEF LifeInv
<1>3. /\ LifeInv /\ KeyInv /\ ReceiptsFound /\ [ClockNext]_vars
      /\ KeyInv' /\ ReceiptsFound'
      => [ReceiptsKept]_vars
  BY StepsKeepReceipts, LifeShape DEF LifeInv
<1> QED BY <1>1, <1>2, <1>3, InitKeys, LifeInvariant, PTL DEF ClockSpec, ReceiptNeverChanges

-----------------------------------------------------------------------------
(* One entry for a subject, where every call is a ticketed one. *)

(* What an older queue may leave for that to hold: for each subject at most  *)
(* one entry, that waits or is held.                                       *)
LeftoversWait ==
    \A q \in Leftovers :
        /\ \A i \in 1..Len(q) : q[i].status \in {"Pending", "Held"} /\ q[i].has_dispatch
        /\ \A i, j \in 1..Len(q) : q[i].subject_id = q[j].subject_id => i = j

(* Every entry stops an add for its subject. *)
StopsAdds(e) ==
    /\ e.status # "Unknown"
    /\ IsTicketed(e) \/ (e.status \in {"Pending", "Held"} /\ e.has_dispatch)

SubjectInv ==
    OneEntryPerSubject /\ \A i \in DOMAIN entries : StopsAdds(entries[i])

(* What a ticketed call changes about an entry makes or leaves it ticketed. *)
TouchesTicketed ==
    /\ minted' = minted
    /\ \A i \in DOMAIN entries' : IsTicketed(entries'[i]) \/ entries'[i] = entries[i]

LEMMA JoinTouchesTicketed ==
    ASSUME TypeInv, NEW r \in Requests, NEW k \in Keys \cup {None}, EnqueueExisting(r, k)
    PROVE  TouchesTicketed
<1> DEFINE s == r.subject
           g == NextGeneration(s)
<1>0. generations[s] \in Nat /\ g = generations[s] + 1 /\ g \in Nat /\ g > 0
  BY FromDispatchType, NextIsRecordedPlusOne DEF TypeInv, TypeOK
<1>1. PICK b \in StopsAdd(s) :
         entries' = [i \in Kept |-> IF i = b THEN Bind(WithIdentity(entries[i], g), k, r)
                                    ELSE entries[i]]
  BY DEF EnqueueExisting, Commit
<1>2. b \in Kept /\ entries[b] \in Entry
  BY KeptFacts DEF StopsAdd, TicketedFor, WaitingFor
<1> HIDE DEF g
<1>3. IsTicketed(Bind(WithIdentity(entries[b], g), k, r))
  BY <1>0, <1>2, JoinedEntry DEF IsTicketed
<1> QED BY <1>1, <1>3 DEF TouchesTicketed, EnqueueExisting

LEMMA LeaseTouchesTicketed ==
    ASSUME TypeInv, SomeLeaseV2
    PROVE  TouchesTicketed
<1>1. PICK max \in 1..MaxLeaseBatch, owner \in Owners :
        \E ids \in Lists(max, WorkflowIds),
           exclude \in {X \in SUBSET issued : Cardinality(X) <= MaxExclude} :
            LeaseV2(max, owner, ids, exclude)
  BY DEF SomeLeaseV2
<1>2. PICK ids \in Lists(max, WorkflowIds), exclude \in SUBSET issued :
        LeaseV2(max, owner, ids, exclude)
  BY <1>1
<1>3. PICK L \in SUBSET Candidates(max) :
        /\ \A i \in Candidates(max) :
              i \in L <=> /\ i \in Reached(L, max)
                          /\ entries[i].has_dispatch
                          /\ ~Blocked(i, L, max, exclude)
        /\ entries' = [i \in Kept |-> AfterLease(i, L, max, owner, ids)]
        /\ minted' = minted
  BY <1>2 DEF LeaseV2, Commit
<1>4. L \subseteq Reached(L, max) /\ \A i \in L : entries[i].has_dispatch
  BY <1>3
<1>5. ASSUME NEW i \in Kept
      PROVE  LET d == AfterLease(i, L, max, owner, ids) IN IsTicketed(d) \/ d = entries[i]
  <2> DEFINE g == GenerationOf(i, L, max)
             d == AfterLease(i, L, max, owner, ids)
  <2>1. CASE i \in L
    BY <1>4, <2>1, AfterLeaseShape
  <2>2. CASE i \notin L /\ i \notin Identified(L, max)
    BY <2>2 DEF AfterLease
  <2>3. CASE i \notin L /\ i \in Identified(L, max)
    <3>1. entries[i] \in Entry /\ generations[entries[i].subject_id] \in Nat
      BY KeptFacts DEF TypeInv, TypeOK
    <3>2. g \in Nat /\ g > 0 /\ ~IsTicketed(entries[i])
      BY <2>3, <3>1, LeaseCounters
    <3>3. d = WithIdentity(entries[i], g)
      BY <2>3 DEF AfterLease
    <3> HIDE DEF d, g
    <3>4. d.subject_generation = g
      BY <3>1, <3>2, <3>3 DEF WithIdentity, Entry
    <3>5. IsTicketed(d)
      BY <3>2, <3>4 DEF IsTicketed
    <3> QED BY <3>5 DEF d
  <2> QED BY <2>1, <2>2, <2>3
<1> QED BY <1>3, <1>5 DEF TouchesTicketed

LEMMA TicketCallTouchesTicketed ==
    ASSUME TypeInv, TicketsCount, SomeTicketCall
    PROVE  TouchesTicketed
<1>1. PICK f \in issued :
        \/ \E ttl \in AskedTtls : RenewLease(f, ttl)
        \/ \E owner \in Owners, ttl \in AskedTtls : RecoverLease(f, owner, ttl)
        \/ \E outcome \in AskedOutcomes :
              CompletionV2(f, outcome) \/ InterruptedCompletionV2(f, outcome)
        \/ ReleasePendingV2(f)
  BY DEF SomeTicketCall
<1>2. PICK op, o : FencedMutation(f, op, o) = "Applied"
  BY <1>1 DEF RenewLease, RecoverLease, CompletionV2, InterruptedCompletionV2,
              ReleasePendingV2
<1>3. IsTicketed(entries[f.entry_id])
  BY <1>2, AppliedIsTicketed
<1>4. minted' = minted
  BY <1>1 DEF RenewLease, RecoverLease, CompletionV2, InterruptedCompletionV2,
              ReleasePendingV2, UpdateEntry, Remove, Interrupt
<1>5. \A i \in DOMAIN entries' : i = f.entry_id \/ entries'[i] = entries[i]
  BY <1>1 DEF RenewLease, RecoverLease, CompletionV2, InterruptedCompletionV2,
              ReleasePendingV2, UpdateEntry, Remove, Without, Interrupt, Commit
<1>6. StepShape
  BY TicketCallShape
<1>7. f.entry_id \in DOMAIN entries' => IsTicketed(entries'[f.entry_id])
  <2> SUFFICES ASSUME f.entry_id \in DOMAIN entries' PROVE IsTicketed(entries'[f.entry_id])
    OBVIOUS
  <2>1. f.entry_id \in DOMAIN entries
    BY <1>2, AppliedIsTicketed
  <2>2. Inherits(entries[f.entry_id], entries'[f.entry_id])
    BY <1>6, <2>1, StayedEntry
  <2> QED BY <1>3, <2>2 DEF Inherits, IsTicketed
<1> QED BY <1>4, <1>5, <1>7 DEF TouchesTicketed

(* A step that makes no entry ... *)
LEMMA TouchingKeepsSubjects ==
    ASSUME TypeInv, SubjectInv, StepShape, TouchesTicketed
    PROVE  SubjectInv'
<1>1. ASSUME NEW i \in DOMAIN entries'
      PROVE  /\ i \in DOMAIN entries /\ entries'[i].subject_id = entries[i].subject_id
             /\ StopsAdds(entries'[i])
  <2>1. i \in DOMAIN entries
    BY DEF StepShape, EntriesInherit, TouchesTicketed, TypeInv, TypeOK
  <2>2. Inherits(entries[i], entries'[i])
    BY <2>1, StayedEntry
  <2>3. StopsAdds(entries[i])
    BY <2>1 DEF SubjectInv
  <2> QED BY <2>1, <2>2, <2>3 DEF TouchesTicketed, StopsAdds, Inherits
<1> QED BY <1>1 DEF SubjectInv, OneEntryPerSubject

(* ... and the one that does. *)
LEMMA EnqueueNewKeepsSubjects ==
    ASSUME TypeInv, SubjectInv, NEW r \in Requests, NEW k \in Keys \cup {None},
           EnqueueNew(r, k)
    PROVE  SubjectInv'
<1> DEFINE s == r.subject
           g == NextGeneration(s)
           x == WithIdentity(FromDispatch(r), g)
           e == [x EXCEPT !.repository = r.repository]
           d == Bind(e, k, r)
<1>0. s \in Subjects /\ generations[s] \in Nat /\ g = generations[s] + 1 /\ g \in Nat /\ g > 0
  BY FromDispatchType, NextIsRecordedPlusOne DEF TypeInv, TypeOK
<1>1. x \in Entry /\ x.subject_id = s /\ x.subject_generation = g /\ x.status = "Pending"
  <2>1. FromDispatch(r) \in Entry /\ ~IsTicketed(FromDispatch(r))
    BY FromDispatchType DEF IsTicketed
  <2>2. x = [FromDispatch(r) EXCEPT !.subject_generation = g]
    BY <2>1 DEF WithIdentity
  <2> HIDE DEF g, x
  <2> QED BY <1>0, <2>1, <2>2 DEF FromDispatch, Entry
<1>2. e \in Entry /\ e.subject_id = s /\ e.subject_generation = g /\ e.status = "Pending"
  <2>1. r.repository \in Repositories \cup {None}
    BY FromDispatchType
  <2> HIDE DEF x, g
  <2> QED BY <1>1, <2>1 DEF Entry
<1>3. d.subject_id = s /\ d.subject_generation = g /\ d.status = "Pending"
  <2> HIDE DEF e, g
  <2> QED BY <1>2 DEF Bind, Entry
<1>4. /\ StopsAdd(s) = {}
      /\ entries' = [i \in Kept \cup {minted + 1} |->
                        IF i = minted + 1 THEN d ELSE entries[i]]
  BY DEF EnqueueNew, Commit
<1> HIDE DEF d, g
<1>5. StopsAdds(d)
  BY <1>0, <1>3 DEF StopsAdds, IsTicketed
<1>6. Kept \subseteq DOMAIN entries /\ minted + 1 \notin Kept
  BY KeptFacts DEF TypeInv, TypeOK
<1>7. \A i \in Kept : entries[i].subject_id # s
  <2>1. \A i \in Kept : StopsAdds(entries[i])
    BY <1>6 DEF SubjectInv
  <2> QED BY <1>4, <2>1 DEF StopsAdds, StopsAdd, TicketedFor, WaitingFor
<1>8. DOMAIN entries' = Kept \cup {minted + 1} /\ entries'[minted + 1] = d
      /\ \A i \in Kept : entries'[i] = entries[i]
  BY <1>4, <1>6
<1> QED BY <1>3, <1>5, <1>6, <1>7, <1>8 DEF SubjectInv, OneEntryPerSubject

LEMMA FencedStepsKeepSubjects == LifeInv /\ SubjectInv /\ [FencedNext]_vars => SubjectInv'
<1> SUFFICES ASSUME LifeInv, SubjectInv, [FencedNext]_vars PROVE SubjectInv'
  OBVIOUS
<1>1. TypeInv /\ TicketsCount /\ StepShape
  <2>1. [ClockNext]_vars
    BY DEF ClockNext, Next
  <2>2. StepShape
    BY <2>1, LifeShape
  <2> QED BY <2>2
          DEF LifeInv, TicketInv, TicketsMatchEntries, TicketMatchesEntry, TicketsCount
<1>2. CASE TouchesTicketed
  BY <1>1, <1>2, TouchingKeepsSubjects
<1>3. CASE SomeEnqueueV2
  <2>1. PICK r \in Requests, k \in Keys \cup {None} : EnqueueV2(r, k)
    BY <1>3 DEF SomeEnqueueV2
  <2>2. CASE EnqueueReplay(r, k)
    BY <1>2, <2>2 DEF EnqueueReplay, CommitSweep, Commit, TouchesTicketed
  <2>3. CASE EnqueueExisting(r, k)
    BY <1>1, <1>2, <2>3, JoinTouchesTicketed
  <2>4. CASE EnqueueNew(r, k)
    BY <1>1, <2>4, EnqueueNewKeepsSubjects
  <2> QED BY <2>1, <2>2, <2>3, <2>4 DEF EnqueueV2
<1>4. CASE SomeLeaseV2
  BY <1>1, <1>2, <1>4, LeaseTouchesTicketed
<1>5. CASE SomeTicketCall
  BY <1>1, <1>2, <1>5, TicketCallTouchesTicketed
<1>6. CASE InterruptedSweep \/ Tick \/ UNCHANGED vars
  BY <1>2, <1>6 DEF InterruptedSweep, Interrupt, Tick, vars, files, TouchesTicketed
<1> QED BY <1>3, <1>4, <1>5, <1>6 DEF FencedNext

LEMMA InitSubjects == LeftoversWait /\ FilesInit => SubjectInv
<1> SUFFICES ASSUME LeftoversWait, FilesInit PROVE SubjectInv
  OBVIOUS
<1>1. PICK q \in Leftovers : entries = [i \in 1..Len(q) |-> q[i]]
  BY DEF FilesInit
<1>2. DOMAIN entries = 1..Len(q) /\ \A i \in 1..Len(q) : entries[i] = q[i]
  BY <1>1
<1> QED BY <1>2 DEF LeftoversWait, SubjectInv, OneEntryPerSubject, StopsAdds

(* While every caller uses the ticketed calls, no subject ever has a second  *)
(* live entry, whatever keys and retries the callers use and after whatever *)
(* finished or was swept, also where an older queue left waiting entries.  *)
THEOREM SubjectsHaveOneEntry == LeftoversWait => (FencedSpec => []OneEntryPerSubject)
<1>1. FencedSpec => []LifeInv
  BY SpecsAreClocked, LifeInvariant, PTL
<1>2. SubjectInv => OneEntryPerSubject
  BY DEF SubjectInv
<1> QED BY <1>1, <1>2, FencedStepsKeepSubjects, InitSubjects, PTL DEF FencedSpec

=============================================================================
