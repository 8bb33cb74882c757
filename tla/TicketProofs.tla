----------------------------- MODULE TicketProofs -----------------------------
(***************************************************************************)
(* Ticket safety of the whole queue, for every value of the constants: the *)
(* generations on the tickets of an entry tell its holders apart, every    *)
(* ticket of an entry names one run, and a superseded ticket does nothing, *)
(* whatever old-style callers and operators do in between.                 *)
(***************************************************************************)
EXTENDS AnimusQueueProofs

(* Ticket f and entry e are about the same run of the same subject. *)
SameRun(f, e) ==
    /\ f.subject_id = e.subject_id
    /\ f.subject_generation = e.subject_generation
    /\ f.workflow_id = e.workflow_id
    /\ f.workflow_generation = e.workflow_generation

(* Every ticket names an id that was minted; while the entry lives it is    *)
(* not ahead of the entry's counter, and one level with it is the current  *)
(* ticket.                                                                 *)
TicketMatchesEntry(f) ==
    /\ f.entry_id \in 1..minted
    /\ f.subject_generation > 0 /\ f.workflow_generation > 0 /\ f.generation > 0
    /\ f.entry_id \in DOMAIN entries =>
          LET e == entries[f.entry_id] IN
          /\ SameRun(f, e)
          /\ f.generation <= e.lease_generation
          /\ f.generation = e.lease_generation => ExactFenceMatches(f.entry_id, e, f)

TicketsMatchEntries == \A f \in issued : TicketMatchesEntry(f)

TicketInv ==
    /\ TicketsMatchEntries
    /\ TicketsUnique
    /\ OneWorkflowPerEntry
    /\ RunningTicketedHasTicket

(* e became d in a step that minted no ticket: what a ticket names is kept, *)
(* and a ticketed entry does not begin to run.                             *)
KeepsTicket(e, d) ==
    /\ IsTicketed(e) =>
          /\ SameRun(e, d)
          /\ d.lease_owner = e.lease_owner
          /\ d.lease_generation = e.lease_generation
          /\ d.repository = e.repository
    /\ d.status = "Assigned" /\ IsTicketed(d) =>
          /\ e.status = "Assigned" /\ IsTicketed(e)
          /\ e.lease_expires_at # None => d.lease_expires_at # None

-----------------------------------------------------------------------------

(* A ticket's entry is ticketed, so nothing that spares ticketed entries    *)
(* reaches it; an entry new in this step has no ticket yet.                *)
LEMMA QuietStep ==
    ASSUME TypeInv, TicketInv,
           issued' = issued, minted \in Nat, minted' \in {minted, minted + 1},
           \A i \in DOMAIN entries' :
              \/ i \in DOMAIN entries /\ KeepsTicket(entries[i], entries'[i])
              \/ i \notin 1..minted /\ entries'[i].status # "Assigned"
    PROVE  TicketInv'
<1>1. TicketsMatchEntries'
  <2> SUFFICES ASSUME NEW f \in issued PROVE TicketMatchesEntry(f)'
    BY DEF TicketsMatchEntries
  <2>1. TicketMatchesEntry(f)
    BY DEF TicketInv, TicketsMatchEntries
  <2>2. f.entry_id \in 1..minted'
    BY <2>1 DEF TicketMatchesEntry
  <2>3. ASSUME f.entry_id \in DOMAIN entries'
        PROVE  /\ f.entry_id \in DOMAIN entries
               /\ KeepsTicket(entries[f.entry_id], entries'[f.entry_id])
               /\ IsTicketed(entries[f.entry_id])
    BY <2>1, <2>3 DEF TicketMatchesEntry, SameRun, IsTicketed
  <2> QED BY <2>1, <2>2, <2>3
          DEF TicketMatchesEntry, KeepsTicket, SameRun, ExactFenceMatches
<1>2. TicketsUnique' /\ OneWorkflowPerEntry'
  BY DEF TicketInv, TicketsUnique, OneWorkflowPerEntry
<1>3. RunningTicketedHasTicket'
  <2> SUFFICES ASSUME NEW i \in DOMAIN entries', entries'[i].status = "Assigned",
                      IsTicketed(entries'[i])
               PROVE  HasFence(entries'[i]) /\ ExecutionFence(i, entries'[i]) \in issued
    BY DEF RunningTicketedHasTicket
  <2>1. i \in DOMAIN entries /\ KeepsTicket(entries[i], entries'[i])
    OBVIOUS
  <2>2. entries[i].status = "Assigned" /\ IsTicketed(entries[i])
    BY <2>1 DEF KeepsTicket
  <2>3. HasFence(entries[i]) /\ ExecutionFence(i, entries[i]) \in issued
    BY <2>1, <2>2 DEF TicketInv, RunningTicketedHasTicket
  <2>4. HasFence(entries'[i])
    BY <2>1, <2>2, <2>3 DEF HasFence, KeepsTicket, SameRun
  <2>5. ExecutionFence(i, entries'[i]) = ExecutionFence(i, entries[i])
    BY <2>1, <2>2 DEF ExecutionFence, KeepsTicket, SameRun
  <2> QED BY <2>3, <2>4, <2>5
<1> QED BY <1>1, <1>2, <1>3 DEF TicketInv

(* Nothing about the entry changes. *)
LEMMA SameKeepsTicket == \A e : KeepsTicket(e, e)
BY DEF KeepsTicket, SameRun

(* A commit that only removes entries. *)
LEMMA RemovalIsQuiet ==
    ASSUME TypeInv, TicketInv, NEW S, S \subseteq DOMAIN entries,
           NEW P, NEW G, NEW F,
           Commit([i \in S |-> entries[i]], P, G, F),
           UNCHANGED <<minted, issued>>
    PROVE  TicketInv'
<1> DEFINE E == [i \in S |-> entries[i]]
<1>1. entries' = E /\ DOMAIN E = S /\ \A i \in S : E[i] = entries[i]
  BY DEF Commit
<1> HIDE DEF E
<1>2. minted \in Nat
  BY DEF TypeInv, TypeOK
<1> QED BY <1>1, <1>2, SameKeepsTicket, QuietStep

(* A commit that rewrites one entry. *)
LEMMA UpdateIsQuiet ==
    ASSUME TypeInv, TicketInv, NEW i \in DOMAIN entries, NEW d,
           KeepsTicket(entries[i], d),
           NEW P, NEW G, NEW F,
           Commit([entries EXCEPT ![i] = d], P, G, F),
           UNCHANGED <<minted, issued>>
    PROVE  TicketInv'
<1> DEFINE E == [entries EXCEPT ![i] = d]
<1>1. entries' = E /\ DOMAIN E = DOMAIN entries
      /\ E[i] = d /\ \A j \in DOMAIN entries : j # i => E[j] = entries[j]
  BY DEF Commit, TypeInv, TypeOK
<1> HIDE DEF E
<1>2. minted \in Nat
  BY DEF TypeInv, TypeOK
<1> QED BY <1>1, <1>2, SameKeepsTicket, QuietStep

(* A commit that adds an entry that waits. *)
LEMMA AddIsQuiet ==
    ASSUME TypeInv, TicketInv, NEW d, d.status # "Assigned",
           NEW P, NEW G, NEW F,
           Commit([i \in Kept \cup {minted + 1} |->
                      IF i = minted + 1 THEN d ELSE entries[i]], P, G, F),
           minted' = minted + 1, issued' = issued
    PROVE  TicketInv'
<1> DEFINE E == [i \in Kept \cup {minted + 1} |->
                    IF i = minted + 1 THEN d ELSE entries[i]]
<1>1. entries' = E /\ DOMAIN E = Kept \cup {minted + 1} /\ E[minted + 1] = d
      /\ \A i \in Kept : i # minted + 1 => E[i] = entries[i]
  BY DEF Commit
<1> HIDE DEF E
<1>2. minted \in Nat /\ minted + 1 \notin 1..minted /\ Kept \subseteq DOMAIN entries
  BY KeptFacts DEF TypeInv, TypeOK
<1> QED BY <1>1, <1>2, SameKeepsTicket, QuietStep

-----------------------------------------------------------------------------
(* Every handler keeps the ticket invariant. *)

(* A call that only sweeps. *)
LEMMA SweepKeepsTickets ==
    ASSUME TypeInv, TicketInv, CommitSweep
    PROVE  TicketInv'
<1>1. Kept \subseteq DOMAIN entries
  BY KeptFacts
<1>2. Commit([i \in Kept |-> entries[i]], Reindex(place, Kept), generations, SweptRecords)
      /\ UNCHANGED <<minted, issued>>
  BY DEF CommitSweep
<1> QED BY <1>1, <1>2, RemovalIsQuiet

(* An interrupted commit: only the history changes. *)
LEMMA InterruptKeepsTickets ==
    ASSUME TicketInv, NEW F, Interrupt(F)
    PROVE  TicketInv'
<1>1. UNCHANGED <<minted, entries, issued>>
  BY DEF Interrupt
<1> QED BY <1>1 DEF TicketInv, TicketsMatchEntries, TicketMatchesEntry,
        TicketsUnique, OneWorkflowPerEntry, RunningTicketedHasTicket

(* queue/v2/enqueue gives identity to entries that wait only. *)
LEMMA EnqueueV2KeepsTickets ==
    ASSUME TypeInv, TicketInv, NEW r \in Requests, NEW k \in Keys \cup {None},
           EnqueueV2(r, k)
    PROVE  TicketInv'
<1> DEFINE s == r.subject
           g == NextGeneration(s)
<1>1. CASE EnqueueReplay(r, k)
  BY <1>1, SweepKeepsTickets DEF EnqueueReplay
<1>2. CASE EnqueueExisting(r, k)
  <2> DEFINE x(i) == Bind(WithIdentity(entries[i], g), k, r)
  <2>1. PICK b \in StopsAdd(s) : \E G :
           Commit([i \in Kept |-> IF i = b THEN x(i) ELSE entries[i]],
                  Reindex(place, Kept), G, SweptRecords)
    BY <1>2 DEF EnqueueExisting
  <2>2. b \in Kept /\ entries[b] \in Entry
        /\ (IsTicketed(entries[b]) \/ entries[b].status \in {"Pending", "Held"})
    BY KeptFacts DEF StopsAdd, TicketedFor, WaitingFor
  <2>3. KeepsTicket(entries[b], x(b))
    <3> HIDE DEF g
    <3>1. CASE IsTicketed(entries[b])
      <4>1. WithIdentity(entries[b], g) = entries[b]
        BY <3>1 DEF WithIdentity
      <4> QED BY <2>2, <3>1, <4>1 DEF Bind, KeepsTicket, SameRun, Entry
    <3>2. CASE ~IsTicketed(entries[b])
      <4>1. x(b).status = entries[b].status
        BY <2>2 DEF WithIdentity, Bind, Entry
      <4> QED BY <2>2, <3>2, <4>1 DEF KeepsTicket
    <3> QED BY <3>1, <3>2
  <2> DEFINE E == [i \in Kept |-> IF i = b THEN x(i) ELSE entries[i]]
  <2>4. entries' = E /\ DOMAIN E = Kept /\ E[b] = x(b)
        /\ \A i \in Kept : i # b => E[i] = entries[i]
    BY <2>1, <2>2 DEF Commit
  <2> HIDE DEF E, x
  <2>5. minted' = minted /\ issued' = issued /\ minted \in Nat /\ Kept \subseteq DOMAIN entries
    BY <1>2, KeptFacts DEF EnqueueExisting, TypeInv, TypeOK
  <2> QED BY <2>3, <2>4, <2>5, SameKeepsTicket, QuietStep
<1>3. CASE EnqueueNew(r, k)
  <2> DEFINE e == [WithIdentity(FromDispatch(r), g) EXCEPT !.repository = r.repository]
             d == Bind(e, k, r)
  <2>1. d.status = "Pending"
    <3>1. FromDispatch(r) \in Entry /\ FromDispatch(r).status = "Pending"
      BY FromDispatchType DEF FromDispatch
    <3> HIDE DEF g
    <3>2. WithIdentity(FromDispatch(r), g).status = "Pending"
      BY <3>1 DEF WithIdentity, Entry
    <3>3. e.status = "Pending"
      BY <3>2
    <3> HIDE DEF e
    <3> QED BY <3>3 DEF Bind
  <2>2. \E P, G : Commit([i \in Kept \cup {minted + 1} |->
                             IF i = minted + 1 THEN d ELSE entries[i]], P, G, SweptRecords)
    BY <1>3 DEF EnqueueNew
  <2>3. minted' = minted + 1 /\ issued' = issued
    BY <1>3 DEF EnqueueNew
  <2> HIDE DEF d
  <2> QED BY <2>1, <2>2, <2>3, AddIsQuiet
<1> QED BY <1>1, <1>2, <1>3 DEF EnqueueV2

-----------------------------------------------------------------------------
(* The two calls that mint tickets. *)

(* d carries a new ticket of entry e: one generation on, for the same run   *)
(* if e had one.                                                           *)
NewTicket(e, d) ==
    /\ HasFence(d)
    /\ d.lease_generation = e.lease_generation + 1
    /\ IsTicketed(e) /\ e.workflow_id # None /\ e.workflow_generation > 0 => SameRun(e, d)

(* The entries in L get a new ticket each, the others keep theirs.          *)
LEMMA MintingStep ==
    ASSUME TypeInv, TicketInv, minted' = minted, DOMAIN entries' \subseteq DOMAIN entries,
           NEW L, L \subseteq DOMAIN entries',
           issued' = issued \cup {ExecutionFence(i, entries'[i]) : i \in L},
           \A i \in DOMAIN entries' \ L : KeepsTicket(entries[i], entries'[i]),
           \A i \in L : NewTicket(entries[i], entries'[i])
    PROVE  TicketInv'
<1> DEFINE t(i) == ExecutionFence(i, entries'[i])
<1>1. \A i \in L : /\ entries[i].lease_generation \in Nat
                   /\ i \in 1..minted
                   /\ entries'[i].lease_generation = entries[i].lease_generation + 1
  BY KeptFacts DEF NewTicket, Entry, TypeInv, TypeOK
<1>2. \A i \in L : /\ t(i).entry_id = i
                   /\ t(i).generation = entries[i].lease_generation + 1
                   /\ t(i).subject_generation > 0 /\ t(i).workflow_generation > 0
                   /\ SameRun(t(i), entries'[i])
                   /\ ExactFenceMatches(i, entries'[i], t(i))
  BY DEF ExecutionFence, NewTicket, HasFence, SameRun, ExactFenceMatches
<1>3. \A f \in issued : f \in Fence /\ f.generation \in Nat /\ f.workflow_id # None
  BY ConstantsAssumption DEF TypeInv, TypeOK, Fence
<1>4. ASSUME NEW f \in issued, f.entry_id \in L
      PROVE  /\ SameRun(f, entries'[f.entry_id])
             /\ f.generation <= entries[f.entry_id].lease_generation
  <2> DEFINE e == entries[f.entry_id]
  <2>1. SameRun(f, e) /\ f.generation <= e.lease_generation
        /\ f.subject_generation > 0 /\ f.workflow_generation > 0
    BY <1>4 DEF TicketInv, TicketsMatchEntries, TicketMatchesEntry
  <2>2. SameRun(e, entries'[f.entry_id])
    BY <1>3, <1>4, <2>1 DEF NewTicket, SameRun, IsTicketed
  <2> QED BY <2>1, <2>2 DEF SameRun
<1> HIDE DEF t
<1>5. issued' = issued \cup {t(i) : i \in L}
  BY DEF t
<1>6. TicketsMatchEntries'
  <2>1. ASSUME NEW f \in issued PROVE TicketMatchesEntry(f)'
    <3>1. TicketMatchesEntry(f)
      BY DEF TicketInv, TicketsMatchEntries
    <3>2. CASE f.entry_id \in L
      BY <1>1, <1>3, <1>4, <3>1, <3>2 DEF TicketMatchesEntry
    <3>3. CASE f.entry_id \notin L
      <4>1. ASSUME f.entry_id \in DOMAIN entries'
            PROVE  /\ KeepsTicket(entries[f.entry_id], entries'[f.entry_id])
                   /\ IsTicketed(entries[f.entry_id])
        BY <3>1, <3>3, <4>1 DEF TicketMatchesEntry, SameRun, IsTicketed
      <4> QED BY <3>1, <4>1 DEF TicketMatchesEntry, KeepsTicket, SameRun, ExactFenceMatches
    <3> QED BY <3>2, <3>3
  <2>2. ASSUME NEW i \in L, NEW f, f = t(i) PROVE TicketMatchesEntry(f)'
    <3>1. t(i).generation > 0 /\ t(i).generation = entries'[i].lease_generation
      BY <1>1, <1>2
    <3>2. t(i).generation <= entries'[i].lease_generation
      BY <1>1, <3>1
    <3> QED BY <1>1, <1>2, <2>2, <3>1, <3>2 DEF TicketMatchesEntry
  <2> QED BY <1>5, <2>1, <2>2 DEF TicketsMatchEntries
<1>7. TicketsUnique'
  <2>1. \A f \in issued, i \in L : f.entry_id = i => f.generation # t(i).generation
    BY <1>1, <1>2, <1>3, <1>4
  <2> QED BY <1>2, <1>5, <2>1 DEF TicketInv, TicketsUnique
<1>8. OneWorkflowPerEntry'
  <2>1. \A f \in issued, i \in L : f.entry_id = i => SameRun(f, t(i))
    BY <1>2, <1>4 DEF SameRun
  <2> QED BY <1>2, <1>5, <2>1 DEF TicketInv, OneWorkflowPerEntry, SameRun
<1>9. RunningTicketedHasTicket'
  <2> SUFFICES ASSUME NEW i \in DOMAIN entries', entries'[i].status = "Assigned",
                      IsTicketed(entries'[i])
               PROVE  HasFence(entries'[i]) /\ ExecutionFence(i, entries'[i]) \in issued'
    BY DEF RunningTicketedHasTicket
  <2>1. CASE i \in L
    BY <1>5, <2>1 DEF NewTicket, t
  <2>2. CASE i \notin L
    <3>1. KeepsTicket(entries[i], entries'[i]) /\ i \in DOMAIN entries
      BY <2>2
    <3>2. entries[i].status = "Assigned" /\ IsTicketed(entries[i])
      BY <3>1 DEF KeepsTicket
    <3>3. HasFence(entries[i]) /\ ExecutionFence(i, entries[i]) \in issued
      BY <3>1, <3>2 DEF TicketInv, RunningTicketedHasTicket
    <3>4. HasFence(entries'[i])
      BY <3>1, <3>2, <3>3 DEF HasFence, KeepsTicket, SameRun
    <3>5. ExecutionFence(i, entries'[i]) = ExecutionFence(i, entries[i])
      BY <3>1, <3>2 DEF ExecutionFence, KeepsTicket, SameRun
    <3> QED BY <1>5, <3>3, <3>4, <3>5
  <2> QED BY <2>1, <2>2
<1> QED BY <1>6, <1>7, <1>8, <1>9 DEF TicketInv

(* What a hand-out does to one entry. *)
LEMMA AfterLeaseTicket ==
    ASSUME TypeInv, NEW max \in 1..MaxLeaseBatch, NEW ids \in Lists(max, WorkflowIds),
           NEW owner \in Owners,
           NEW L \in SUBSET Candidates(max), L \subseteq Reached(L, max),
           \A i \in L : entries[i].has_dispatch,
           NEW i \in Kept
    PROVE  LET d == AfterLease(i, L, max, owner, ids) IN
           /\ i \in L => NewTicket(entries[i], d)
           /\ i \notin L => KeepsTicket(entries[i], d)
<1> DEFINE g == GenerationOf(i, L, max)
           e == IF i \in Identified(L, max) THEN WithIdentity(entries[i], g) ELSE entries[i]
           w == WorkflowIdFor(i, L, ids)
<1>1. entries[i] \in Entry /\ now \in Nat /\ LeaseTtl \in Nat
  BY KeptFacts, FencedAssumption DEF TypeInv, TypeOK
<1>2. AfterLease(i, L, max, owner, ids) = IF i \in L THEN HandedOut(e, owner, w) ELSE e
  BY DEF AfterLease
<1>3. i \in Identified(L, max) => ~IsTicketed(entries[i]) /\ entries[i].status = "Pending"
  BY DEF Identified, Reached, Candidates, FirstN, Due
<1>4. /\ e \in Entry /\ e.status = entries[i].status
      /\ i \notin Identified(L, max) => e = entries[i]
      /\ e.workflow_id = entries[i].workflow_id
      /\ e.workflow_generation = entries[i].workflow_generation
      /\ e.lease_generation = entries[i].lease_generation
      /\ i \in Identified(L, max) => e.subject_generation = g /\ g \in Nat /\ g > 0
  <2>1. CASE i \in Identified(L, max)
    <3>1. g \in Nat /\ g > generations[entries[i].subject_id]
      BY <2>1, LeaseCounters
    <3>2. generations[entries[i].subject_id] \in Nat
      BY KeptFacts DEF TypeInv, TypeOK
    <3>3. g > 0
      BY <3>1, <3>2
    <3> HIDE DEF g
    <3> QED BY <1>1, <1>3, <2>1, <3>1, <3>3 DEF WithIdentity, Entry
  <2>2. CASE i \notin Identified(L, max)
    BY <1>1, <2>2
  <2> QED BY <2>1, <2>2
<1> HIDE DEF e, g
<1>5. ASSUME i \notin L PROVE KeepsTicket(entries[i], e)
  BY <1>3, <1>4, SameKeepsTicket DEF KeepsTicket
<1>6. ASSUME i \in L PROVE NewTicket(entries[i], HandedOut(e, owner, w))
  <2> DEFINE d == HandedOut(e, owner, w)
             n == IF e.workflow_generation = 0 THEN 1 ELSE e.workflow_generation
  <2>1. w \in WorkflowIds /\ w # None /\ owner # None
    BY <1>6, WorkflowIdForType, ConstantsAssumption
  <2>2. entries[i].workflow_id # None => w = entries[i].workflow_id
    BY DEF WorkflowIdFor
  <2>3. IsTicketed(e)
    BY <1>4, <1>6 DEF Identified, IsTicketed
  <2> HIDE DEF w
  <2>4. /\ d.subject_id = e.subject_id /\ d.subject_generation = e.subject_generation
        /\ d.workflow_id = w /\ d.workflow_generation = n
        /\ d.lease_owner = owner /\ d.lease_generation = e.lease_generation + 1
        /\ d.lease_expires_at = now + LeaseTtl
    BY <1>4 DEF HandedOut, Entry
  <2>5. n \in Nat /\ n > 0 /\ e.lease_generation + 1 > 0 /\ now + LeaseTtl # None
    BY <1>1, <1>4, ConstantsAssumption DEF Entry, Times
  <2> HIDE DEF d
  <2>6. HasFence(d)
    BY <2>1, <2>3, <2>4, <2>5 DEF HasFence, IsTicketed
  <2>7. ASSUME IsTicketed(entries[i]), entries[i].workflow_id # None,
               entries[i].workflow_generation > 0
        PROVE  SameRun(entries[i], d)
    <3>1. e = entries[i]
      BY <1>3, <1>4, <2>7
    <3>2. n = e.workflow_generation
      BY <2>7, <3>1
    <3> QED BY <2>2, <2>4, <2>7, <3>1, <3>2 DEF SameRun
  <2> QED BY <1>4, <2>4, <2>6, <2>7 DEF NewTicket, d
<1> QED BY <1>2, <1>5, <1>6

(* queue/v2/lease *)
LEMMA LeaseV2KeepsTickets ==
    ASSUME TypeInv, TicketInv, NEW max \in 1..MaxLeaseBatch, NEW owner \in Owners,
           NEW ids \in Lists(max, WorkflowIds), NEW exclude,
           LeaseV2(max, owner, ids, exclude)
    PROVE  TicketInv'
<1>1. PICK L \in SUBSET Candidates(max) :
        /\ L \subseteq Reached(L, max) /\ \A i \in L : entries[i].has_dispatch
        /\ entries' = [i \in Kept |-> AfterLease(i, L, max, owner, ids)]
        /\ issued' = issued \cup
              {ExecutionFence(i, AfterLease(i, L, max, owner, ids)) : i \in L}
        /\ minted' = minted
  BY DEF LeaseV2, Commit
<1>2. L \subseteq Kept /\ Kept \subseteq DOMAIN entries
  BY KeptFacts, CandidatesAreKept
<1>3. DOMAIN entries' = Kept
      /\ \A i \in Kept : entries'[i] = AfterLease(i, L, max, owner, ids)
  BY <1>1
<1>4. issued' = issued \cup {ExecutionFence(i, entries'[i]) : i \in L}
  BY <1>1, <1>2, <1>3
<1>5. \A i \in Kept : /\ i \in L => NewTicket(entries[i], entries'[i])
                      /\ i \notin L => KeepsTicket(entries[i], entries'[i])
  BY <1>1, <1>3, AfterLeaseTicket
<1> QED BY <1>1, <1>2, <1>3, <1>4, <1>5, MintingStep

(* The calls with a ticket: a takeover mints one, the others keep what the  *)
(* tickets name or remove the entry.                                       *)
LEMMA TicketCallKeepsTickets ==
    ASSUME TypeInv, TicketInv, SomeTicketCall
    PROVE  TicketInv'
<1>1. PICK f \in issued :
        \/ \E ttl \in AskedTtls : RenewLease(f, ttl)
        \/ \E owner \in Owners, ttl \in AskedTtls : RecoverLease(f, owner, ttl)
        \/ \E outcome \in AskedOutcomes :
              CompletionV2(f, outcome) \/ InterruptedCompletionV2(f, outcome)
        \/ ReleasePendingV2(f)
  BY DEF SomeTicketCall
<1> DEFINE i == f.entry_id
           e == entries[i]
<1>2. now \in Nat /\ None \notin Nat
  BY ConstantsAssumption DEF TypeInv, TypeOK, Times
<1>3. ASSUME NEW ttl \in AskedTtls, RenewLease(f, ttl)
      PROVE  TicketInv'
  <2> DEFINE t == now + RequestedTtl(ttl)
             x == IF e.lease_expires_at > t THEN e.lease_expires_at ELSE t
             d == [e EXCEPT !.lease_expires_at = x]
  <2>1. i \in DOMAIN entries /\ e \in Entry
    BY <1>3, AppliedMatches, KeptFacts DEF RenewLease
  <2>2. t \in Nat
    BY <1>2, RequestedTtlType
  <2>3. KeepsTicket(e, d)
    <3>1. e.lease_expires_at # None => x # None
      BY <1>2, <2>2
    <3> HIDE DEF x, e
    <3> QED BY <2>1, <3>1 DEF Entry, KeepsTicket, SameRun, IsTicketed
  <2>4. Commit([entries EXCEPT ![i] = d], place, generations, {})
        /\ UNCHANGED <<minted, issued>>
    BY <1>3 DEF RenewLease, UpdateEntry
  <2> HIDE DEF d
  <2> QED BY <2>1, <2>3, <2>4, UpdateIsQuiet
<1>4. ASSUME NEW owner \in Owners, NEW ttl \in AskedTtls, RecoverLease(f, owner, ttl)
      PROVE  TicketInv'
  <2> DEFINE t == now + RequestedTtl(ttl)
             n == e.lease_generation + 1
             d == [e EXCEPT !.lease_owner = owner,
                            !.lease_generation = n,
                            !.lease_expires_at = t]
  <2>1. i \in DOMAIN entries /\ e \in Entry /\ e.status = "Assigned"
        /\ ExactFenceMatches(i, e, f)
    BY <1>4, AppliedMatches, KeptFacts DEF RecoverLease
  <2>2. t \in Nat /\ owner # None
    BY <1>2, RequestedTtlType, ConstantsAssumption
  <2>3. IsTicketed(e)
    BY <2>1 DEF TicketInv, TicketsMatchEntries, TicketMatchesEntry, ExactFenceMatches,
                IsTicketed
  <2>4. HasFence(e)
    BY <2>1, <2>3 DEF TicketInv, RunningTicketedHasTicket
  <2>5. n \in Nat /\ n > 0
    BY <2>1 DEF Entry
  <2> HIDE DEF n, t
  <2>6. /\ SameRun(e, d) /\ d.lease_owner = owner /\ d.lease_generation = n
        /\ d.lease_expires_at = t
    <3> HIDE DEF e
    <3> QED BY <2>1 DEF Entry, SameRun
  <2> HIDE DEF d
  <2>7. NewTicket(e, d)
    BY <1>2, <2>2, <2>4, <2>5, <2>6 DEF NewTicket, HasFence, SameRun, n
  <2> DEFINE E == [entries EXCEPT ![i] = d]
  <2>8. entries' = E /\ DOMAIN E = DOMAIN entries
        /\ E[i] = d /\ \A j \in DOMAIN entries : j # i => E[j] = entries[j]
    BY <1>4, <2>1 DEF RecoverLease, UpdateEntry, Commit, TypeInv, TypeOK, d, n, t
  <2>9. minted' = minted /\ issued' = issued \cup {ExecutionFence(i, d)}
    BY <1>4 DEF RecoverLease, UpdateEntry, d, n, t
  <2> HIDE DEF E
  <2>10. PICK L : L = {i}
    OBVIOUS
  <2>11. L \subseteq DOMAIN entries' /\ DOMAIN entries' \subseteq DOMAIN entries
    BY <2>1, <2>8, <2>10
  <2>12. issued' = issued \cup {ExecutionFence(j, entries'[j]) : j \in L}
    BY <2>8, <2>9, <2>10
  <2>13. \A j \in DOMAIN entries' \ L : KeepsTicket(entries[j], entries'[j])
    BY <2>8, <2>10, SameKeepsTicket
  <2>14. \A j \in L : NewTicket(entries[j], entries'[j])
    BY <2>7, <2>8, <2>10
  <2> QED BY <2>9, <2>11, <2>12, <2>13, <2>14, MintingStep
<1>5. ASSUME NEW outcome \in AskedOutcomes, CompletionV2(f, outcome)
      PROVE  TicketInv'
  BY <1>5, RemovalIsQuiet DEF CompletionV2, Remove, Without
<1>6. ASSUME NEW outcome \in AskedOutcomes, InterruptedCompletionV2(f, outcome)
      PROVE  TicketInv'
  BY <1>6, InterruptKeepsTickets DEF InterruptedCompletionV2
<1>7. ASSUME ReleasePendingV2(f)
      PROVE  TicketInv'
  <2> DEFINE d == [e EXCEPT !.status = "Pending"]
  <2>1. i \in DOMAIN entries /\ e \in Entry
    BY <1>7, AppliedMatches, KeptFacts DEF ReleasePendingV2
  <2>2. KeepsTicket(e, d)
    <3> HIDE DEF e
    <3> QED BY <2>1 DEF Entry, KeepsTicket, SameRun
  <2>3. Commit([entries EXCEPT ![i] = d], place, generations, {})
        /\ UNCHANGED <<minted, issued>>
    BY <1>7 DEF ReleasePendingV2, UpdateEntry
  <2> HIDE DEF d
  <2> QED BY <2>1, <2>2, <2>3, UpdateIsQuiet
<1> QED BY <1>1, <1>3, <1>4, <1>5, <1>6, <1>7

-----------------------------------------------------------------------------
(* The calls without a ticket. *)

(* queue/enqueue *)
LEMMA EnqueueKeepsTickets ==
    ASSUME TypeInv, TicketInv, NEW r \in Requests, Enqueue(r)
    PROVE  TicketInv'
<1> DEFINE d == FromDispatch(r)
<1>1. d.status # "Assigned"
  BY DEF FromDispatch
<1>2. \E P : Commit([i \in Kept \cup {minted + 1} |->
                        IF i = minted + 1 THEN d ELSE entries[i]], P, generations, SweptRecords)
  BY DEF Enqueue
<1>3. minted' = minted + 1 /\ issued' = issued
  BY DEF Enqueue
<1> HIDE DEF d
<1> QED BY <1>1, <1>2, <1>3, AddIsQuiet

(* An old-style assignment of an entry without identity touches no ticket.  *)
LEMMA AssignIsQuiet ==
    ASSUME NEW e \in Entry, ~IsTicketed(e), NEW w, NEW t
    PROVE  KeepsTicket(e, Assign(e, w, t))
<1>1. Assign(e, w, t).subject_generation = e.subject_generation
  BY DEF Assign, Entry
<1> QED BY <1>1 DEF KeepsTicket, IsTicketed

(* queue/lease hands out entries without identity only. *)
LEMMA OldLeaseKeepsTickets ==
    ASSUME TypeInv, TicketInv, NEW max \in 1..MaxOldBatch,
           NEW ids \in [1..max -> WorkflowIds], NEW exclude, Lease(max, ids, exclude)
    PROVE  TicketInv'
<1> DEFINE C == Chosen(max, exclude)
           w(i) == IF entries[i].workflow_id # None THEN entries[i].workflow_id
                   ELSE ids[1 + Cardinality(Ahead(C, i))]
           E == [i \in Kept |-> IF i \in C THEN Assign(entries[i], w(i), now) ELSE entries[i]]
<1>1. entries' = E /\ minted' = minted /\ issued' = issued
  BY DEF Lease, Commit
<1>2. \A i \in C : ~IsTicketed(entries[i])
  BY OldLeaseEntry
<1> HIDE DEF w, C
<1>3. \A i \in Kept : KeepsTicket(entries[i], E[i])
  BY <1>2, KeptFacts, AssignIsQuiet, SameKeepsTicket
<1>4. DOMAIN E = Kept /\ Kept \subseteq DOMAIN entries /\ minted \in Nat
  BY KeptFacts DEF TypeInv, TypeOK
<1> HIDE DEF E
<1> QED BY <1>1, <1>3, <1>4, QuietStep

(* hold, release, drop, completion, release_pending, mark_assigned: those   *)
(* that work on a ticketed entry change its status only, or remove it.     *)
LEMMA OneEntryCallKeepsTickets ==
    ASSUME TypeInv, TicketInv, SomeOperatorCall \/ SomeCompletion \/ SomeOldAssignment
    PROVE  TicketInv'
<1>1. \A i \in DOMAIN entries : entries[i] \in Entry
  BY KeptFacts
<1>2. ASSUME NEW i \in DOMAIN entries, Hold(i) \/ Release(i)
      PROVE  TicketInv'
  <2>1. PICK st : /\ st # "Assigned"
                  /\ UpdateOne(i, [entries[i] EXCEPT !.status = st])
    BY <1>2 DEF Hold, Release
  <2>2. KeepsTicket(entries[i], [entries[i] EXCEPT !.status = st])
    BY <1>1, <2>1 DEF Entry, KeepsTicket, SameRun
  <2> QED BY <2>1, <2>2, UpdateIsQuiet DEF UpdateOne
<1>3. ASSUME NEW i \in DOMAIN entries, NEW o,
             RemoveOne(i, o) \/ Interrupt({Finished(i, entries[i], o)})
      PROVE  TicketInv'
  BY <1>3, InterruptKeepsTickets, RemovalIsQuiet DEF RemoveOne
<1>4. CASE SomeOperatorCall
  BY <1>2, <1>3, <1>4 DEF SomeOperatorCall, DropEntry, InterruptedDrop
<1>5. CASE SomeCompletion
  BY <1>3, <1>5 DEF SomeCompletion, Completion, InterruptedCompletion
<1>6. ASSUME NEW i \in DOMAIN entries, NEW w \in WorkflowIds, NEW called \in 0..now,
             MarkAssigned(i, w, called)
      PROVE  TicketInv'
  BY <1>1, <1>6, AssignIsQuiet, UpdateIsQuiet DEF MarkAssigned, UpdateOne
<1>7. ASSUME NEW i \in DOMAIN entries, ReleasePending(i)
      PROVE  TicketInv'
  <2> DEFINE e == entries[i]
             d == [e EXCEPT !.status = "Pending", !.workflow_id = None,
                            !.lease_owner = None, !.lease_expires_at = None]
  <2>1. e \in Entry /\ ~IsTicketed(e) /\ UpdateOne(i, d)
    BY <1>1, <1>7 DEF ReleasePending
  <2>2. KeepsTicket(e, d)
    <3> HIDE DEF e
    <3> QED BY <2>1 DEF Entry, KeepsTicket
  <2> HIDE DEF d
  <2> QED BY <2>1, <2>2, UpdateIsQuiet DEF UpdateOne
<1>8. CASE SomeOldAssignment
  BY <1>6, <1>7, <1>8 DEF SomeOldAssignment
<1> QED BY <1>4, <1>5, <1>8

(* queue/reorder moves entries and changes none. *)
LEMMA ReorderKeepsTickets ==
    ASSUME TypeInv, TicketInv, NEW ids, Reorder(ids)
    PROVE  TicketInv'
<1>1. UNCHANGED <<minted, entries, issued>>
  BY DEF Reorder, Commit
<1> QED BY <1>1 DEF TicketInv, TicketsMatchEntries, TicketMatchesEntry,
        TicketsUnique, OneWorkflowPerEntry, RunningTicketedHasTicket

-----------------------------------------------------------------------------
(* The theorems. *)

(* At first there is no ticket, and no leftover of an older version is      *)
(* ticketed.                                                               *)
LEMMA InitTickets == Init => TicketInv
<1> SUFFICES ASSUME Init PROVE TicketInv
  OBVIOUS
<1>1. issued = {}
  BY DEF Init, FilesInit
<1>2. \A i \in DOMAIN entries : ~IsTicketed(entries[i])
  <2>1. PICK q \in Leftovers : entries = [i \in 1..Len(q) |-> q[i]]
    BY DEF Init, FilesInit
  <2>2. q \in Seq({e \in Entry : OldStyleEntry(e)})
    BY <2>1, FilesAssumption
  <2>3. \A i \in 1..Len(q) : OldStyleEntry(q[i])
    BY <2>2
  <2> QED BY <2>1, <2>3 DEF OldStyleEntry, IsTicketed
<1> QED BY <1>1, <1>2 DEF TicketInv, TicketsMatchEntries, TicketsUnique,
        OneWorkflowPerEntry, RunningTicketedHasTicket

(* Every step of the queue keeps the ticket invariant. *)
LEMMA NextTickets == TypeInv /\ TicketInv /\ [Next]_vars => TicketInv'
<1> SUFFICES ASSUME TypeInv, TicketInv, [Next]_vars PROVE TicketInv'
  OBVIOUS
<1>1. CASE SomeEnqueueV2
  BY <1>1, EnqueueV2KeepsTickets DEF SomeEnqueueV2
<1>2. CASE SomeLeaseV2
  BY <1>2, LeaseV2KeepsTickets DEF SomeLeaseV2
<1>3. CASE SomeTicketCall
  BY <1>3, TicketCallKeepsTickets
<1>4. CASE InterruptedSweep
  BY <1>4, InterruptKeepsTickets DEF InterruptedSweep
<1>5. CASE Tick \/ UNCHANGED vars
  <2>1. UNCHANGED <<minted, entries, issued>>
    BY <1>5 DEF Tick, vars, files
  <2> QED BY <2>1 DEF TicketInv, TicketsMatchEntries, TicketMatchesEntry,
          TicketsUnique, OneWorkflowPerEntry, RunningTicketedHasTicket
<1>6. CASE SomeEnqueue
  BY <1>6, EnqueueKeepsTickets DEF SomeEnqueue
<1>7. CASE SomeLease
  BY <1>7, OldLeaseKeepsTickets DEF SomeLease
<1>8. CASE NextDeadline
  BY <1>8, SweepKeepsTickets DEF NextDeadline
<1>9. CASE SomeOperatorCall \/ SomeCompletion \/ SomeOldAssignment
  BY <1>9, OneEntryCallKeepsTickets
<1>10. CASE SomeReorder
  BY <1>10, ReorderKeepsTickets DEF SomeReorder
<1> QED BY <1>1, <1>2, <1>3, <1>4, <1>5, <1>6, <1>7, <1>8, <1>9, <1>10
        DEF Next, FencedNext, ServiceNext

(* The two invariants together hold in every reachable state. *)
LEMMA TicketInvariant == Spec => [](TypeInv /\ TicketInv)
<1>1. Init => TypeInv /\ TicketInv
  BY InitTypes, InitTickets
<1>2. (TypeInv /\ TicketInv) /\ [Next]_vars => (TypeInv /\ TicketInv)'
  BY NextTypes, NextTickets
<1> QED BY <1>1, <1>2, PTL DEF Spec

(* The lease generations of an entry's tickets tell its holders apart.      *)
THEOREM TicketGenerationsAreUnique == Spec => []TicketsUnique
<1>1. TypeInv /\ TicketInv => TicketsUnique
  BY DEF TicketInv
<1> QED BY <1>1, TicketInvariant, PTL

(* All tickets of an entry name one run of one subject: put-back, takeover  *)
(* and further hand-outs never start a second workflow for it.             *)
THEOREM TicketsContinueOneRun == Spec => []OneWorkflowPerEntry
<1>1. TypeInv /\ TicketInv => OneWorkflowPerEntry
  BY DEF TicketInv
<1> QED BY <1>1, TicketInvariant, PTL

(* A ticketed entry runs under a ticket that was minted for it, never under *)
(* an old-style lease.                                                     *)
THEOREM TicketedRunsAreHeld == Spec => []RunningTicketedHasTicket
<1>1. TypeInv /\ TicketInv => RunningTicketedHasTicket
  BY DEF TicketInv
<1> QED BY <1>1, TicketInvariant, PTL

(* The current ticket of an entry has its lease generation; an earlier one  *)
(* is below it.                                                            *)
LEMMA EarlierTicketsAreInert == TypeInv /\ TicketInv => SupersededTicketIsInert
<1> SUFFICES ASSUME TypeInv, TicketInv, NEW f \in issued, NEW g \in issued,
                    f.entry_id = g.entry_id, f.generation < g.generation,
                    NEW op, NEW owner, FencedMutation(f, op, owner) = "Applied"
             PROVE  FALSE
  BY DEF SupersededTicketIsInert
<1>1. f.entry_id \in DOMAIN entries
      /\ f.generation = entries[f.entry_id].lease_generation
  BY AppliedMatches DEF ExactFenceMatches
<1>2. g.generation <= entries[g.entry_id].lease_generation
  BY <1>1 DEF TicketInv, TicketsMatchEntries, TicketMatchesEntry
<1>3. f.generation \in Nat /\ g.generation \in Nat
  BY DEF TypeInv, TypeOK, Fence
<1> QED BY <1>1, <1>2, <1>3

(* No call with a ticket is applied once a later ticket for the entry has   *)
(* been minted.                                                            *)
THEOREM SupersededTicketsAreInert == Spec => []SupersededTicketIsInert
BY EarlierTicketsAreInert, TicketInvariant, PTL

=============================================================================
