-------------------------- MODULE AnimusQueueProofs --------------------------
(***************************************************************************)
(* Proofs about the whole queue, for every value of the constants.         *)
(***************************************************************************)
EXTENDS AnimusQueue, FiniteSetTheorems, TLAPS

(* The recorded counter of a subject is at least the generation of every    *)
(* live entry about it.                                                    *)
GenerationsDominate ==
    \A i \in DOMAIN entries :
        entries[i].subject_generation <= generations[entries[i].subject_id]

TypeInv == TypeOK /\ GenerationsDominate

-----------------------------------------------------------------------------
(* Lemmas on the operators the handlers are built from. *)

(* Sets of live entries are finite. *)
LEMMA LiveIsFinite ==
    ASSUME TypeOK
    PROVE  /\ IsFiniteSet(DOMAIN entries)
           /\ \A S \in SUBSET DOMAIN entries : IsFiniteSet(S) /\ Cardinality(S) \in Nat
<1>1. DOMAIN entries \in SUBSET (1..minted) /\ minted \in Int /\ 1 \in Int
  BY DEF TypeOK
<1>2. IsFiniteSet(1..minted)
  BY <1>1, FS_Interval
<1>3. IsFiniteSet(DOMAIN entries)
  BY <1>1, <1>2, FS_Subset
<1>4. ASSUME NEW S \in SUBSET DOMAIN entries
      PROVE  IsFiniteSet(S) /\ Cardinality(S) \in Nat
  BY <1>3, FS_Subset, FS_CardinalityType
<1> QED BY <1>3, <1>4

(* Removing entries leaves an index for each that stays. *)
LEMMA ReindexType ==
    ASSUME NEW p, NEW S, IsFiniteSet(S)
    PROVE  Reindex(p, S) \in [S -> Nat]
<1>1. \A i \in S : Cardinality({j \in S : p[j] <= p[i]}) \in Nat
  <2> TAKE i \in S
  <2> DEFINE T == {j \in S : p[j] <= p[i]}
  <2>1. T \in SUBSET S
    OBVIOUS
  <2> HIDE DEF T
  <2>2. IsFiniteSet(T)
    BY <2>1, FS_Subset
  <2>3. Cardinality(T) \in Nat
    BY <2>2, FS_CardinalityType
  <2> QED BY <2>3 DEF T
<1> QED BY <1>1 DEF Reindex

(* A finished entry makes a well-typed history record. *)
LEMMA FinishedType ==
    ASSUME NEW i \in Nat, NEW e \in Entry, NEW o \in HistoryOutcome
    PROVE  Finished(i, e, o) \in HistoryRecord
<1>1. [e EXCEPT !.has_dispatch = FALSE] \in Entry
  BY DEF Entry
<1> QED BY <1>1 DEF Finished, HistoryRecord

(* The sweep splits the live entries and records what it drops. *)
LEMMA SweptType ==
    ASSUME TypeOK
    PROVE  /\ Swept \subseteq DOMAIN entries
           /\ Kept \subseteq DOMAIN entries
           /\ SweptRecords \subseteq HistoryRecord
<1>1. Swept \subseteq DOMAIN entries /\ Kept \subseteq DOMAIN entries
  BY DEF Swept, Kept
<1>2. \A i \in DOMAIN entries : i \in Nat /\ entries[i] \in Entry
  BY DEF TypeOK
<1>3. "Dropped" \in HistoryOutcome
  BY DEF HistoryOutcome
<1>4. \A i \in DOMAIN entries : Finished(i, entries[i], "Dropped") \in HistoryRecord
  BY <1>2, <1>3, FinishedType
<1> QED BY <1>1, <1>4 DEF SweptRecords

(* The counter is the highest generation in use, so the next is one more.   *)
LEMMA NextIsRecordedPlusOne ==
    ASSUME TypeInv, NEW s \in Subjects
    PROVE  NextGeneration(s) = generations[s] + 1
<1> DEFINE S == {generations[s]} \cup
                {entries[i].subject_generation :
                    i \in {j \in Kept : entries[j].subject_id = s}}
<1>1. generations[s] \in S
  OBVIOUS
<1>2. S \subseteq Nat /\ \A m \in S : m <= generations[s]
  <2>1. \A i \in Kept : i \in DOMAIN entries /\ entries[i] \in Entry
    BY SweptType DEF TypeInv, TypeOK
  <2>2. \A i \in Kept : entries[i].subject_generation \in Nat
    BY <2>1 DEF Entry
  <2>3. \A i \in Kept : entries[i].subject_id = s =>
           entries[i].subject_generation <= generations[s]
    BY <2>1 DEF TypeInv, GenerationsDominate
  <2>4. generations[s] \in Nat
    BY DEF TypeInv, TypeOK
  <2> QED BY <2>2, <2>3, <2>4
<1> HIDE DEF S
<1>3. generations[s] \in Nat
  BY <1>1, <1>2
<1>4. Highest(S) = generations[s]
  <2>1. \A n \in S : n \in Nat /\ n <= generations[s]
    BY <1>2
  <2>2. ASSUME NEW n \in S, \A m \in S : m <= n
        PROVE  n = generations[s]
    <3>1. generations[s] <= n
      BY <1>1, <2>2
    <3>2. n \in Nat /\ n <= generations[s]
      BY <2>1
    <3> QED BY <3>1, <3>2, <1>3
  <2>3. generations[s] \in S /\ \A m \in S : m <= generations[s]
    BY <1>1, <1>2
  <2> QED BY <2>2, <2>3 DEF Highest
<1>5. NextGeneration(s) = 1 + Highest(S)
  BY DEF NextGeneration, S
<1> QED BY <1>3, <1>4, <1>5

-----------------------------------------------------------------------------
(* Lemmas on the entries the handlers write. *)

(* A new entry is well typed and about the subject of the add. *)
LEMMA FromDispatchType ==
    ASSUME NEW r \in Requests
    PROVE  /\ FromDispatch(r) \in Entry
           /\ FromDispatch(r).subject_id = r.subject
           /\ FromDispatch(r).subject_generation = 0
           /\ FromDispatch(r).lease_generation = 0
           /\ r.subject \in Subjects
           /\ r.repository \in Repositories \cup {None}
<1>1. r \in Request
  BY ConstantsAssumption
<1>2. [k \in Keys |-> None] \in [Keys -> Requests \cup {None}]
  OBVIOUS
<1> QED BY <1>1, <1>2 DEF FromDispatch, Entry, Request, Status

(* Giving identity keeps the subject and a generation that is there. *)
LEMMA WithIdentityType ==
    ASSUME NEW e \in Entry, NEW g \in Nat
    PROVE  /\ WithIdentity(e, g) \in Entry
           /\ WithIdentity(e, g).subject_id = e.subject_id
           /\ WithIdentity(e, g).subject_generation
                = IF IsTicketed(e) THEN e.subject_generation ELSE g
BY DEF WithIdentity, IsTicketed, Entry

(* Binding a key changes nothing but the keys. *)
LEMMA BindType ==
    ASSUME NEW e \in Entry, NEW k, NEW r \in Requests
    PROVE  /\ Bind(e, k, r) \in Entry
           /\ Bind(e, k, r).subject_id = e.subject_id
           /\ Bind(e, k, r).subject_generation = e.subject_generation
BY DEF Bind, Entry

(* A hand-out keeps the identity of the entry. *)
LEMMA HandedOutType ==
    ASSUME TypeInv, NEW e \in Entry, NEW owner \in Owners, NEW w \in WorkflowIds
    PROVE  /\ HandedOut(e, owner, w) \in Entry
           /\ HandedOut(e, owner, w).subject_id = e.subject_id
           /\ HandedOut(e, owner, w).subject_generation = e.subject_generation
<1>1. now + LeaseTtl \in Nat
  BY FencedAssumption DEF TypeInv, TypeOK
<1> DEFINE n == IF e.workflow_generation = 0 THEN 1 ELSE e.workflow_generation
<1>2. n \in Nat /\ e.lease_generation + 1 \in Nat
  BY DEF Entry
<1>3. HandedOut(e, owner, w) =
        [e EXCEPT !.status = "Assigned", !.workflow_id = w, !.workflow_generation = n,
                  !.lease_owner = owner, !.lease_generation = e.lease_generation + 1,
                  !.lease_expires_at = now + LeaseTtl]
  BY DEF HandedOut, Entry
<1> HIDE DEF n
<1> QED BY <1>1, <1>2, <1>3 DEF Entry, Status, Times

(* An old-style assignment keeps the identity of the entry. *)
LEMMA AssignType ==
    ASSUME NEW e \in Entry, NEW w \in WorkflowIds, NEW t \in Nat
    PROVE  /\ Assign(e, w, t) \in Entry
           /\ Assign(e, w, t).subject_id = e.subject_id
           /\ Assign(e, w, t).subject_generation = e.subject_generation
<1>1. t + OldLeaseTtl \in Nat
  BY ServiceAssumption
<1> QED BY <1>1 DEF Assign, Entry, Status, Times

(* The ticket of a handed-out entry is well typed. *)
LEMMA FenceType ==
    ASSUME NEW i \in Nat, NEW e \in Entry,
           e.workflow_id \in WorkflowIds, e.lease_owner \in Owners
    PROVE  ExecutionFence(i, e) \in Fence
BY DEF ExecutionFence, Fence, Entry

(* A ticket's length is a number, whatever the caller asked for. *)
LEMMA RequestedTtlType ==
    ASSUME NEW ttl \in AskedTtls
    PROVE  RequestedTtl(ttl) \in Nat
BY FencedAssumption DEF RequestedTtl

(* A commit of well-typed contents keeps the type invariant. *)
LEMMA CommitType ==
    ASSUME TypeInv, NEW E, NEW P, NEW G, NEW F, Commit(E, P, G, F),
           now' \in Nat, minted' \in Nat, issued' \subseteq Fence,
           DOMAIN E \subseteq 1..minted', E \in [DOMAIN E -> Entry],
           P \in [DOMAIN E -> Nat], G \in [Subjects -> Nat],
           F \subseteq HistoryRecord,
           \A i \in DOMAIN E : E[i].subject_generation <= G[E[i].subject_id]
    PROVE  TypeInv'
<1>1. history' \in Seq(SUBSET HistoryRecord)
  <2>1. history \in Seq(SUBSET HistoryRecord) /\ F \in SUBSET HistoryRecord
    BY DEF TypeInv, TypeOK
  <2>2. Append(history, F) \in Seq(SUBSET HistoryRecord)
    BY <2>1
  <2> QED BY <2>1, <2>2 DEF Commit
<1>2. left' \subseteq HistoryRecord
  BY DEF Commit, TypeInv, TypeOK
<1>3. entries' = E /\ place' = P /\ generations' = G
  BY DEF Commit
<1>4. TypeOK'
  BY <1>1, <1>2, <1>3 DEF TypeOK
<1>5. GenerationsDominate'
  BY <1>3 DEF GenerationsDominate
<1> QED BY <1>4, <1>5 DEF TypeInv

-----------------------------------------------------------------------------
(* Every handler keeps the types and the dominance of the counters. *)

(* What every handler may assume of the entries it keeps. *)
LEMMA KeptFacts ==
    ASSUME TypeInv
    PROVE  /\ Kept \subseteq DOMAIN entries /\ Kept \subseteq 1..minted
           /\ IsFiniteSet(Kept) /\ Cardinality(Kept) \in Nat
           /\ Reindex(place, Kept) \in [Kept -> Nat]
           /\ \A i \in DOMAIN entries :
                 /\ i \in Nat /\ entries[i] \in Entry
                 /\ entries[i].subject_id \in Subjects
                 /\ entries[i].subject_generation <= generations[entries[i].subject_id]
           /\ SweptRecords \subseteq HistoryRecord
<1>1. Kept \subseteq DOMAIN entries /\ SweptRecords \subseteq HistoryRecord
  BY SweptType DEF TypeInv
<1>2. IsFiniteSet(Kept) /\ Cardinality(Kept) \in Nat
  BY <1>1, LiveIsFinite DEF TypeInv
<1>3. \A i \in DOMAIN entries : i \in Nat /\ entries[i] \in Entry
  BY DEF TypeInv, TypeOK
<1>4. \A i \in DOMAIN entries : entries[i].subject_id \in Subjects
  BY <1>3 DEF Entry
<1>5. DOMAIN entries \subseteq 1..minted
  BY DEF TypeInv, TypeOK
<1>6. \A i \in DOMAIN entries :
        entries[i].subject_generation <= generations[entries[i].subject_id]
  BY DEF TypeInv, GenerationsDominate
<1> QED BY <1>1, <1>2, <1>3, <1>4, <1>5, <1>6, ReindexType

(* A call that only sweeps. *)
LEMMA SweepKeepsTypes ==
    ASSUME TypeInv, CommitSweep
    PROVE  TypeInv'
<1> DEFINE E == [i \in Kept |-> entries[i]]
<1>1. Commit(E, Reindex(place, Kept), generations, SweptRecords)
  BY DEF CommitSweep
<1>2. now' = now /\ minted' = minted /\ issued' = issued
  BY DEF CommitSweep
<1>3. now \in Nat /\ minted \in Nat /\ issued \subseteq Fence /\ generations \in [Subjects -> Nat]
  BY DEF TypeInv, TypeOK
<1>4. DOMAIN E = Kept /\ \A i \in Kept : E[i] = entries[i]
  OBVIOUS
<1>5. E \in [DOMAIN E -> Entry]
  BY KeptFacts, <1>4
<1>6. \A i \in DOMAIN E : E[i].subject_generation <= generations[E[i].subject_id]
  BY KeptFacts, <1>4
<1>7. DOMAIN E \subseteq 1..minted' /\ Reindex(place, Kept) \in [DOMAIN E -> Nat]
  BY KeptFacts, <1>2, <1>4
<1> HIDE DEF E
<1> QED BY <1>1, <1>2, <1>3, <1>5, <1>6, <1>7, KeptFacts, CommitType

(* A call that rewrites one entry and keeps its identity. *)
LEMMA UpdateKeepsTypes ==
    ASSUME TypeInv, NEW i \in DOMAIN entries, NEW e \in Entry,
           e.subject_id = entries[i].subject_id,
           e.subject_generation = entries[i].subject_generation,
           Commit([entries EXCEPT ![i] = e], place, generations, {}),
           UNCHANGED <<now, minted>>, issued' \subseteq Fence
    PROVE  TypeInv'
<1> DEFINE E == [entries EXCEPT ![i] = e]
<1>1. now' \in Nat /\ minted' \in Nat /\ generations \in [Subjects -> Nat]
  BY DEF TypeInv, TypeOK
<1>2. DOMAIN E = DOMAIN entries /\ DOMAIN E \subseteq 1..minted'
  BY DEF TypeInv, TypeOK
<1>3. E \in [DOMAIN E -> Entry] /\ place \in [DOMAIN E -> Nat]
  BY <1>2 DEF TypeInv, TypeOK
<1>4. \A j \in DOMAIN E : E[j].subject_generation <= generations[E[j].subject_id]
  BY <1>2, KeptFacts DEF TypeInv, TypeOK
<1>5. Commit(E, place, generations, {})
  OBVIOUS
<1> HIDE DEF E
<1> QED BY <1>1, <1>2, <1>3, <1>4, <1>5, CommitType

(* A call that finishes one entry. *)
LEMMA RemoveKeepsTypes ==
    ASSUME TypeInv, NEW i \in DOMAIN entries, NEW o \in HistoryOutcome,
           Commit([j \in DOMAIN entries \ {i} |-> entries[j]],
                  Reindex(place, DOMAIN entries \ {i}), generations,
                  {Finished(i, entries[i], o)}),
           UNCHANGED <<now, minted, issued>>
    PROVE  TypeInv'
<1> DEFINE S == DOMAIN entries \ {i}
           E == [j \in S |-> entries[j]]
           F == {Finished(i, entries[i], o)}
<1>1. now' \in Nat /\ minted' \in Nat /\ issued' \subseteq Fence
      /\ generations \in [Subjects -> Nat]
  BY DEF TypeInv, TypeOK
<1>2. DOMAIN E = S /\ \A j \in S : E[j] = entries[j]
  OBVIOUS
<1>3. DOMAIN E \subseteq 1..minted'
  BY <1>2 DEF TypeInv, TypeOK
<1>4. E \in [DOMAIN E -> Entry]
  BY <1>2, KeptFacts
<1>5. Reindex(place, S) \in [DOMAIN E -> Nat]
  BY <1>2, LiveIsFinite, ReindexType DEF TypeInv
<1>6. F \subseteq HistoryRecord
  BY KeptFacts, FinishedType
<1>7. \A j \in DOMAIN E : E[j].subject_generation <= generations[E[j].subject_id]
  BY <1>2, KeptFacts
<1>8. Commit(E, Reindex(place, S), generations, F)
  OBVIOUS
<1> HIDE DEF E, F, S
<1> QED BY <1>1, <1>3, <1>4, <1>5, <1>6, <1>7, <1>8, CommitType

(* A commit that was cut short after the history. *)
LEMMA InterruptKeepsTypes ==
    ASSUME TypeInv, NEW F, F \subseteq HistoryRecord, Interrupt(F)
    PROVE  TypeInv'
<1>1. history' \in Seq(SUBSET HistoryRecord)
  BY DEF Interrupt, TypeInv, TypeOK
<1>2. UNCHANGED <<now, minted, entries, place, generations, issued, left>>
  BY DEF Interrupt
<1> QED BY <1>1, <1>2 DEF TypeInv, TypeOK, GenerationsDominate

(* A new entry at the back of the Vec, with generation g of its subject.    *)
LEMMA AddKeepsTypes ==
    ASSUME TypeInv, NEW e \in Entry, NEW G \in [Subjects -> Nat],
           \A s \in Subjects : generations[s] <= G[s],
           e.subject_generation <= G[e.subject_id],
           minted' = minted + 1,
           Commit([i \in Kept \cup {minted + 1} |-> IF i = minted + 1 THEN e ELSE entries[i]],
                  [i \in Kept \cup {minted + 1} |->
                      IF i = minted + 1 THEN Cardinality(Kept) + 1
                      ELSE Reindex(place, Kept)[i]],
                  G, SweptRecords),
           UNCHANGED <<now, issued>>
    PROVE  TypeInv'
<1> DEFINE n == minted + 1
           S == Kept \cup {n}
           E == [i \in S |-> IF i = n THEN e ELSE entries[i]]
           P == [i \in S |-> IF i = n THEN Cardinality(Kept) + 1
                             ELSE Reindex(place, Kept)[i]]
<1>1. minted \in Nat /\ now' \in Nat /\ minted' \in Nat /\ issued' \subseteq Fence
  BY DEF TypeInv, TypeOK
<1>2. n \notin Kept
  BY <1>1, KeptFacts
<1>3. DOMAIN E = S /\ E[n] = e /\ \A i \in Kept : E[i] = entries[i]
  BY <1>2
<1>4. DOMAIN E \subseteq 1..minted'
  BY <1>1, <1>3, KeptFacts
<1>5. E \in [DOMAIN E -> Entry]
  BY <1>3, KeptFacts
<1>6. P \in [DOMAIN E -> Nat]
  BY <1>3, KeptFacts
<1>7. ASSUME NEW i \in Kept
      PROVE  E[i].subject_generation <= G[E[i].subject_id]
  <2>1. entries[i].subject_generation \in Nat /\ entries[i].subject_id \in Subjects
    BY KeptFacts DEF Entry
  <2>2. entries[i].subject_generation <= generations[entries[i].subject_id]
    BY KeptFacts
  <2>3. generations[entries[i].subject_id] \in Nat /\ G[entries[i].subject_id] \in Nat
    BY <2>1 DEF TypeInv, TypeOK
  <2> QED BY <1>3, <2>1, <2>2, <2>3
<1>8. \A i \in DOMAIN E : E[i].subject_generation <= G[E[i].subject_id]
  BY <1>3, <1>7
<1>9. Commit(E, P, G, SweptRecords)
  OBVIOUS
<1> HIDE DEF E, P, S, n
<1> QED BY <1>1, <1>4, <1>5, <1>6, <1>8, <1>9, KeptFacts, CommitType

(* The next generation is above the recorded counter. *)
LEMMA RaisedCounter ==
    ASSUME TypeInv, NEW s \in Subjects
    PROVE  LET G == [generations EXCEPT ![s] = NextGeneration(s)] IN
           /\ NextGeneration(s) \in Nat
           /\ G \in [Subjects -> Nat]
           /\ G[s] = NextGeneration(s)
           /\ \A t \in Subjects : generations[t] <= G[t]
<1>1. NextGeneration(s) = generations[s] + 1 /\ generations \in [Subjects -> Nat]
  BY NextIsRecordedPlusOne DEF TypeInv, TypeOK
<1> QED BY <1>1

(* queue/v2/enqueue in each of its outcomes. *)
LEMMA EnqueueV2KeepsTypes ==
    ASSUME TypeInv, NEW r \in Requests, NEW k \in Keys \cup {None}, EnqueueV2(r, k)
    PROVE  TypeInv'
<1> DEFINE s == r.subject
           g == NextGeneration(s)
<1>0. s \in Subjects
  BY FromDispatchType
<1>1. CASE EnqueueReplay(r, k)
  BY <1>1, SweepKeepsTypes DEF EnqueueReplay
<1>2. CASE EnqueueExisting(r, k)
  <2>1. PICK b \in StopsAdd(s) :
           Commit([i \in Kept |-> IF i = b THEN Bind(WithIdentity(entries[i], g), k, r)
                                  ELSE entries[i]],
                  Reindex(place, Kept),
                  IF IsTicketed(entries[b]) THEN generations
                  ELSE [generations EXCEPT ![s] = g],
                  SweptRecords)
    BY <1>2 DEF EnqueueExisting
  <2> DEFINE e == Bind(WithIdentity(entries[b], g), k, r)
             E == [i \in Kept |-> IF i = b THEN Bind(WithIdentity(entries[i], g), k, r)
                                  ELSE entries[i]]
             G == IF IsTicketed(entries[b]) THEN generations
                  ELSE [generations EXCEPT ![s] = g]
  <2>2. b \in Kept /\ entries[b] \in Entry /\ entries[b].subject_id = s
    BY KeptFacts DEF StopsAdd, TicketedFor, WaitingFor
  <2>3. G \in [Subjects -> Nat] /\ \A t \in Subjects : generations[t] <= G[t]
    BY <1>0, RaisedCounter DEF TypeInv, TypeOK
  <2>4. /\ e \in Entry /\ e.subject_id = s
        /\ e.subject_generation = IF IsTicketed(entries[b])
                                  THEN entries[b].subject_generation ELSE g
    <3>1. g \in Nat
      BY <1>0, RaisedCounter
    <3> DEFINE w == WithIdentity(entries[b], g)
    <3>2. w \in Entry /\ w.subject_id = s
          /\ w.subject_generation = IF IsTicketed(entries[b])
                                    THEN entries[b].subject_generation ELSE g
      <4> HIDE DEF g
      <4> QED BY <2>2, <3>1, WithIdentityType
    <3> HIDE DEF w
    <3>3. Bind(w, k, r) \in Entry /\ Bind(w, k, r).subject_id = w.subject_id
          /\ Bind(w, k, r).subject_generation = w.subject_generation
      BY <3>2, BindType
    <3> QED BY <3>2, <3>3 DEF w
  <2>5. e.subject_generation <= G[s]
    BY <1>0, <2>2, <2>4, RaisedCounter, KeptFacts
  <2>6. DOMAIN E = Kept /\ E[b] = e /\ \A i \in Kept : i # b => E[i] = entries[i]
    BY <2>2
  <2>7. \A i \in DOMAIN E : E[i] \in Entry /\ E[i].subject_generation <= G[E[i].subject_id]
    <3> SUFFICES ASSUME NEW i \in Kept, i # b
                 PROVE  entries[i].subject_generation <= G[entries[i].subject_id]
      BY <2>4, <2>5, <2>6, KeptFacts
    <3>1. entries[i].subject_generation \in Nat /\ entries[i].subject_id \in Subjects
      BY KeptFacts DEF Entry
    <3>2. entries[i].subject_generation <= generations[entries[i].subject_id]
      BY KeptFacts
    <3>3. generations[entries[i].subject_id] \in Nat /\ G[entries[i].subject_id] \in Nat
      BY <2>3, <3>1 DEF TypeInv, TypeOK
    <3> HIDE DEF G
    <3> QED BY <2>3, <3>1, <3>2, <3>3
  <2>8. Commit(E, Reindex(place, Kept), G, SweptRecords)
    BY <2>1
  <2>9. now' \in Nat /\ minted' = minted /\ minted \in Nat /\ issued' \subseteq Fence
    BY <1>2 DEF EnqueueExisting, TypeInv, TypeOK
  <2>10. E \in [DOMAIN E -> Entry] /\ DOMAIN E \subseteq 1..minted'
         /\ Reindex(place, Kept) \in [DOMAIN E -> Nat]
    BY <2>6, <2>7, <2>9, KeptFacts
  <2> HIDE DEF E, G, e
  <2> QED BY <2>3, <2>7, <2>8, <2>9, <2>10, KeptFacts, CommitType
<1>3. CASE EnqueueNew(r, k)
  <2> DEFINE e0 == [WithIdentity(FromDispatch(r), g) EXCEPT !.repository = r.repository]
             e == Bind(e0, k, r)
             G == [generations EXCEPT ![s] = g]
  <2>1. WithIdentity(FromDispatch(r), g) \in Entry
        /\ WithIdentity(FromDispatch(r), g).subject_id = s
        /\ WithIdentity(FromDispatch(r), g).subject_generation = g
    <3>1. FromDispatch(r) \in Entry /\ FromDispatch(r).subject_id = s
          /\ ~IsTicketed(FromDispatch(r)) /\ g \in Nat
      BY <1>0, FromDispatchType, RaisedCounter DEF IsTicketed
    <3> HIDE DEF g
    <3> QED BY <3>1, WithIdentityType
  <2>2. e0 \in Entry /\ e0.subject_id = s /\ e0.subject_generation = g
    BY <2>1, FromDispatchType DEF Entry
  <2>3. e \in Entry /\ e.subject_id = s /\ e.subject_generation = g
    BY <2>2, BindType
  <2>4. G \in [Subjects -> Nat] /\ G[s] = g /\ g \in Nat
        /\ \A t \in Subjects : generations[t] <= G[t]
    BY <1>0, RaisedCounter
  <2>5. e.subject_generation <= G[e.subject_id]
    BY <2>3, <2>4
  <2>6. /\ minted' = minted + 1
        /\ Commit([i \in Kept \cup {minted + 1} |->
                      IF i = minted + 1 THEN e ELSE entries[i]],
                  [i \in Kept \cup {minted + 1} |->
                      IF i = minted + 1 THEN Cardinality(Kept) + 1
                      ELSE Reindex(place, Kept)[i]],
                  G, SweptRecords)
        /\ UNCHANGED <<now, issued>>
    BY <1>3 DEF EnqueueNew
  <2> HIDE DEF e, G
  <2> QED BY <2>3, <2>4, <2>5, <2>6, AddKeepsTypes
<1> QED BY <1>1, <1>2, <1>3 DEF EnqueueV2

-----------------------------------------------------------------------------
(* The hand-out. *)

(* Fewer entries of a set are ahead of a member than the set has. *)
LEMMA AheadIsSmaller ==
    ASSUME TypeInv, NEW S \in SUBSET DOMAIN entries, NEW i \in S
    PROVE  /\ Ahead(S, i) \in SUBSET DOMAIN entries
           /\ Cardinality(Ahead(S, i)) \in Nat /\ Cardinality(S) \in Nat
           /\ Cardinality(Ahead(S, i)) <= Cardinality(S) - 1
<1>1. place[i] \in Nat
  BY DEF TypeInv, TypeOK
<1>2. Ahead(S, i) \in SUBSET (S \ {i}) /\ Ahead(S, i) \in SUBSET DOMAIN entries
  BY <1>1 DEF Ahead
<1>3. IsFiniteSet(S) /\ Cardinality(S) \in Nat
  BY LiveIsFinite DEF TypeInv
<1>4. IsFiniteSet(S \ {i}) /\ Cardinality(S \ {i}) = Cardinality(S) - 1
  BY <1>3, FS_RemoveElement
<1>5. Cardinality(Ahead(S, i)) \in Nat
  BY <1>2, LiveIsFinite DEF TypeInv
<1>6. Cardinality(Ahead(S, i)) <= Cardinality(S \ {i})
  BY <1>2, <1>4, FS_Subset
<1> QED BY <1>2, <1>3, <1>4, <1>5, <1>6

(* A subset has no more members than the set. *)
LEMMA LiveSubset ==
    ASSUME TypeInv, NEW S \in SUBSET DOMAIN entries, NEW T \in SUBSET S
    PROVE  /\ Cardinality(T) \in Nat /\ Cardinality(S) \in Nat
           /\ Cardinality(T) <= Cardinality(S)
BY LiveIsFinite, FS_Subset DEF TypeInv

(* A hand-out looks at waiting entries only. *)
LEMMA CandidatesAreKept ==
    ASSUME NEW max
    PROVE  /\ Candidates(max) \subseteq Kept
           /\ \A i \in Candidates(max) : entries[i].status = "Pending"
BY DEF Candidates, FirstN, Due

(* What the hand-out of L makes of each entry and counter. *)
LeaseGenerations(L, max) ==
    [s \in Subjects |->
        IF IdentifiedOf(L, max, s) = {} THEN generations[s]
        ELSE NextGeneration(s) + Cardinality(IdentifiedOf(L, max, s)) - 1]

(* A hand-out gives new identities above the old counter and within the new. *)
LEMMA LeaseCounters ==
    ASSUME TypeInv, NEW max \in 1..MaxLeaseBatch, NEW L \in SUBSET Candidates(max)
    PROVE  /\ LeaseGenerations(L, max) \in [Subjects -> Nat]
           /\ \A s \in Subjects : generations[s] <= LeaseGenerations(L, max)[s]
           /\ \A i \in Identified(L, max) :
                 /\ i \in Kept /\ ~IsTicketed(entries[i])
                 /\ GenerationOf(i, L, max) \in Nat
                 /\ GenerationOf(i, L, max) > generations[entries[i].subject_id]
                 /\ GenerationOf(i, L, max)
                       <= LeaseGenerations(L, max)[entries[i].subject_id]
<1> DEFINE G == LeaseGenerations(L, max)
<1>1. \A s \in Subjects : /\ generations[s] \in Nat
                          /\ NextGeneration(s) = generations[s] + 1
  BY NextIsRecordedPlusOne DEF TypeInv, TypeOK
<1>2. Identified(L, max) \subseteq Kept
  BY CandidatesAreKept DEF Identified, Reached
<1>3. \A s : IdentifiedOf(L, max, s) \in SUBSET DOMAIN entries
  BY <1>2, KeptFacts DEF IdentifiedOf
<1>4. ASSUME NEW s \in Subjects
      PROVE  G[s] \in Nat /\ generations[s] <= G[s]
  <2> DEFINE n == Cardinality(IdentifiedOf(L, max, s))
  <2>1. n \in Nat /\ (IdentifiedOf(L, max, s) # {} => n > 0)
    <3>1. IsFiniteSet(IdentifiedOf(L, max, s)) /\ n \in Nat
      BY <1>3, LiveIsFinite DEF TypeInv
    <3> QED BY <3>1, FS_EmptySet
  <2>2. G[s] = IF IdentifiedOf(L, max, s) = {} THEN generations[s]
               ELSE NextGeneration(s) + n - 1
    BY DEF LeaseGenerations
  <2> HIDE DEF n, G
  <2> QED BY <1>1, <2>1, <2>2
<1>5. ASSUME NEW i \in Identified(L, max)
      PROVE  /\ i \in Kept /\ ~IsTicketed(entries[i])
             /\ GenerationOf(i, L, max) \in Nat
             /\ GenerationOf(i, L, max) > generations[entries[i].subject_id]
             /\ GenerationOf(i, L, max) <= G[entries[i].subject_id]
  <2> DEFINE s == entries[i].subject_id
             I == IdentifiedOf(L, max, s)
             n == Cardinality(Ahead(I, i))
             m == Cardinality(I)
  <2>1. i \in Kept /\ ~IsTicketed(entries[i])
    BY <1>2 DEF Identified
  <2>2. s \in Subjects
    BY <2>1, KeptFacts
  <2>3. i \in I /\ I \in SUBSET DOMAIN entries
    BY <1>3 DEF IdentifiedOf
  <2>4. n \in Nat /\ m \in Nat /\ n <= m - 1
    <3> HIDE DEF I
    <3> QED BY <2>3, AheadIsSmaller
  <2>5. GenerationOf(i, L, max) = NextGeneration(s) + n
    BY <2>1 DEF GenerationOf
  <2>6. G[s] = NextGeneration(s) + m - 1
    BY <2>2, <2>3 DEF LeaseGenerations
  <2> HIDE DEF n, m, I, G, s
  <2>7. NextGeneration(s) = generations[s] + 1 /\ generations[s] \in Nat
    BY <1>1, <2>2
  <2>8. /\ GenerationOf(i, L, max) \in Nat
        /\ GenerationOf(i, L, max) > generations[s]
        /\ GenerationOf(i, L, max) <= G[s]
    BY <2>4, <2>5, <2>6, <2>7
  <2> QED BY <2>1, <2>8 DEF s
<1>6. DOMAIN G = Subjects /\ G = [s \in Subjects |-> G[s]]
  BY DEF LeaseGenerations
<1> HIDE DEF G
<1>7. G \in [Subjects -> Nat]
  BY <1>4, <1>6
<1> QED BY <1>4, <1>5, <1>7 DEF G

(* The loop never runs out of the caller's workflow ids. *)
LEMMA WorkflowIdForType ==
    ASSUME TypeInv, NEW max \in 1..MaxLeaseBatch, NEW ids \in Lists(max, WorkflowIds),
           NEW L \in SUBSET Candidates(max), NEW i \in L, L \subseteq Reached(L, max)
    PROVE  WorkflowIdFor(i, L, ids) \in WorkflowIds
<1>0. i \in DOMAIN entries /\ entries[i] \in Entry /\ L \in SUBSET DOMAIN entries
  BY CandidatesAreKept, KeptFacts
<1>1. CASE entries[i].workflow_id # None
  BY <1>0, <1>1 DEF WorkflowIdFor, Entry
<1>2. CASE entries[i].workflow_id = None
  <2> DEFINE T == {j \in Ahead(L, i) : entries[j].workflow_id = None}
  <2>1. Cardinality(Ahead(L, i)) < max /\ Ahead(L, i) \in SUBSET DOMAIN entries
    BY <1>0, AheadIsSmaller DEF Reached
  <2>2. Cardinality(T) \in Nat /\ Cardinality(Ahead(L, i)) \in Nat
        /\ Cardinality(T) <= Cardinality(Ahead(L, i))
    <3>1. T \in SUBSET Ahead(L, i)
      OBVIOUS
    <3> HIDE DEF T
    <3> QED BY <2>1, <3>1, LiveSubset
  <2>3. max \in Nat
    BY FencedAssumption
  <2>4. WorkflowIdFor(i, L, ids) = ids[1 + Cardinality(T)]
    BY <1>2 DEF WorkflowIdFor
  <2> HIDE DEF T
  <2>5. 1 + Cardinality(T) \in 1..max
    BY <2>1, <2>2, <2>3
  <2> QED BY <2>4, <2>5 DEF Lists
<1> QED BY <1>1, <1>2

(* A hand-out writes well-typed entries and tickets. *)
LEMMA AfterLeaseType ==
    ASSUME TypeInv, NEW max \in 1..MaxLeaseBatch, NEW ids \in Lists(max, WorkflowIds),
           NEW owner \in Owners,
           NEW L \in SUBSET Candidates(max), L \subseteq Reached(L, max),
           NEW i \in Kept
    PROVE  LET d == AfterLease(i, L, max, owner, ids) IN
           /\ d \in Entry
           /\ d.subject_id = entries[i].subject_id
           /\ d.subject_generation =
                 IF i \in Identified(L, max) THEN GenerationOf(i, L, max)
                 ELSE entries[i].subject_generation
           /\ i \in L => ExecutionFence(i, d) \in Fence
<1> DEFINE g == GenerationOf(i, L, max)
           e == IF i \in Identified(L, max) THEN WithIdentity(entries[i], g) ELSE entries[i]
           w == WorkflowIdFor(i, L, ids)
<1>1. i \in Nat /\ entries[i] \in Entry
  BY KeptFacts
<1>2. /\ e \in Entry /\ e.subject_id = entries[i].subject_id
      /\ e.subject_generation = IF i \in Identified(L, max) THEN g
                                ELSE entries[i].subject_generation
  <2>1. CASE i \in Identified(L, max)
    <3>1. g \in Nat /\ ~IsTicketed(entries[i])
      BY <2>1, LeaseCounters
    <3> HIDE DEF g
    <3> QED BY <1>1, <2>1, <3>1, WithIdentityType
  <2>2. CASE i \notin Identified(L, max)
    BY <1>1, <2>2
  <2> QED BY <2>1, <2>2
<1>3. AfterLease(i, L, max, owner, ids) = IF i \in L THEN HandedOut(e, owner, w) ELSE e
  BY DEF AfterLease
<1>4. i \in L => w \in WorkflowIds
  BY WorkflowIdForType
<1> HIDE DEF g, e, w
<1>5. ASSUME i \in L
      PROVE  /\ HandedOut(e, owner, w) \in Entry
             /\ HandedOut(e, owner, w).subject_id = e.subject_id
             /\ HandedOut(e, owner, w).subject_generation = e.subject_generation
             /\ HandedOut(e, owner, w).workflow_id \in WorkflowIds
             /\ HandedOut(e, owner, w).lease_owner \in Owners
  <2>1. HandedOut(e, owner, w).workflow_id = w /\ HandedOut(e, owner, w).lease_owner = owner
    BY <1>2 DEF HandedOut, Entry
  <2> QED BY <1>2, <1>4, <1>5, <2>1, HandedOutType
<1>6. i \in L => ExecutionFence(i, HandedOut(e, owner, w)) \in Fence
  BY <1>1, <1>5, FenceType
<1> QED BY <1>2, <1>3, <1>5, <1>6 DEF g

(* queue/v2/lease *)
LEMMA LeaseV2KeepsTypes ==
    ASSUME TypeInv, NEW max \in 1..MaxLeaseBatch, NEW owner \in Owners,
           NEW ids \in Lists(max, WorkflowIds), NEW exclude,
           LeaseV2(max, owner, ids, exclude)
    PROVE  TypeInv'
<1>1. PICK L \in SUBSET Candidates(max) :
        /\ L \subseteq Reached(L, max)
        /\ Commit([i \in Kept |-> AfterLease(i, L, max, owner, ids)],
                  Reindex(place, Kept), LeaseGenerations(L, max), SweptRecords)
        /\ issued' = issued \cup
              {ExecutionFence(i, AfterLease(i, L, max, owner, ids)) : i \in L}
        /\ UNCHANGED <<now, minted>>
  BY DEF LeaseV2, LeaseGenerations
<1> DEFINE E == [i \in Kept |-> AfterLease(i, L, max, owner, ids)]
           G == LeaseGenerations(L, max)
<1>2. G \in [Subjects -> Nat] /\ \A s \in Subjects : generations[s] <= G[s]
  BY LeaseCounters
<1>3. \A i \in Kept :
        /\ E[i] \in Entry
        /\ E[i].subject_id = entries[i].subject_id
        /\ E[i].subject_generation =
              IF i \in Identified(L, max) THEN GenerationOf(i, L, max)
              ELSE entries[i].subject_generation
        /\ i \in L => ExecutionFence(i, AfterLease(i, L, max, owner, ids)) \in Fence
  BY <1>1, AfterLeaseType
<1>4. ASSUME NEW i \in Kept
      PROVE  E[i].subject_generation <= G[E[i].subject_id]
  <2>1. CASE i \in Identified(L, max)
    BY <1>3, <2>1, LeaseCounters
  <2>2. CASE i \notin Identified(L, max)
    <3> DEFINE s == entries[i].subject_id
               n == entries[i].subject_generation
    <3>1. s \in Subjects /\ n \in Nat /\ n <= generations[s]
      BY KeptFacts DEF Entry
    <3>2. generations[s] \in Nat /\ G[s] \in Nat /\ generations[s] <= G[s]
      BY <1>2, <3>1 DEF TypeInv, TypeOK
    <3>3. E[i].subject_generation = n /\ E[i].subject_id = s
      BY <1>3, <2>2
    <3> HIDE DEF E, G, s, n
    <3>4. n <= G[s]
      BY <3>1, <3>2
    <3> QED BY <3>3, <3>4
  <2> QED BY <2>1, <2>2
<1>5. DOMAIN E = Kept /\ Commit(E, Reindex(place, Kept), G, SweptRecords)
  BY <1>1
<1>6. issued' \subseteq Fence
  BY <1>1, <1>3, CandidatesAreKept DEF TypeInv, TypeOK
<1>7. now' \in Nat /\ minted' = minted /\ minted \in Nat
  BY <1>1 DEF TypeInv, TypeOK
<1> HIDE DEF E, G
<1>8. E \in [DOMAIN E -> Entry] /\ DOMAIN E \subseteq 1..minted'
      /\ Reindex(place, Kept) \in [DOMAIN E -> Nat]
  <2>1. E = [i \in DOMAIN E |-> E[i]]
    BY DEF E
  <2> QED BY <1>3, <1>5, <1>7, <2>1, KeptFacts
<1> QED BY <1>2, <1>4, <1>5, <1>6, <1>7, <1>8, KeptFacts, CommitType

-----------------------------------------------------------------------------
(* The calls with a ticket. *)

(* A call is applied to a running entry, with the entry's own ticket only;  *)
(* a takeover to a different owner and only once the ticket has expired.   *)
LEMMA AppliedMatches ==
    ASSUME NEW f, NEW op, NEW o, FencedMutation(f, op, o) = "Applied"
    PROVE  /\ f.entry_id \in DOMAIN entries
           /\ entries[f.entry_id].status = "Assigned"
           /\ ExactFenceMatches(f.entry_id, entries[f.entry_id], f)
           /\ op = "Recover" => ~LeaseIsLive(entries[f.entry_id], now)
BY DEF FencedMutation, FinishedEntryOutcome

(* renew, recover, completion and release_pending with a ticket. *)
LEMMA TicketCallKeepsTypes ==
    ASSUME TypeInv, SomeTicketCall
    PROVE  TypeInv'
<1>1. PICK f \in issued :
        \/ \E ttl \in AskedTtls : RenewLease(f, ttl)
        \/ \E owner \in Owners, ttl \in AskedTtls : RecoverLease(f, owner, ttl)
        \/ \E outcome \in AskedOutcomes :
              CompletionV2(f, outcome) \/ InterruptedCompletionV2(f, outcome)
        \/ ReleasePendingV2(f)
  BY DEF SomeTicketCall
<1> DEFINE i == f.entry_id
           e == entries[i]
<1>2. f \in Fence /\ now \in Nat /\ issued \subseteq Fence
  BY DEF TypeInv, TypeOK
<1>3. AskedOutcomes \subseteq HistoryOutcome
  BY FilesAssumption DEF CompletionStatus
<1>4. ASSUME NEW ttl \in AskedTtls, RenewLease(f, ttl)
      PROVE  TypeInv'
  <2> DEFINE t == now + RequestedTtl(ttl)
             x == IF e.lease_expires_at > t THEN e.lease_expires_at ELSE t
             d == [e EXCEPT !.lease_expires_at = x]
  <2>1. i \in DOMAIN entries /\ e \in Entry
    BY <1>4, AppliedMatches, KeptFacts DEF RenewLease
  <2>2. t \in Nat
    BY <1>2, RequestedTtlType
  <2>3. d \in Entry /\ d.subject_id = e.subject_id
        /\ d.subject_generation = e.subject_generation
    <3>1. x \in Times \cup {None}
      BY <2>1, <2>2 DEF Entry, Times
    <3> HIDE DEF x, e
    <3> QED BY <2>1, <3>1 DEF Entry
  <2>4. Commit([entries EXCEPT ![i] = d], place, generations, {})
        /\ UNCHANGED <<now, minted>> /\ issued' \subseteq Fence
    BY <1>2, <1>4 DEF RenewLease, UpdateEntry
  <2> HIDE DEF d
  <2> QED BY <2>1, <2>3, <2>4, UpdateKeepsTypes
<1>5. ASSUME NEW owner \in Owners, NEW ttl \in AskedTtls, RecoverLease(f, owner, ttl)
      PROVE  TypeInv'
  <2> DEFINE t == now + RequestedTtl(ttl)
             n == e.lease_generation + 1
             d == [e EXCEPT !.lease_owner = owner,
                            !.lease_generation = n,
                            !.lease_expires_at = t]
  <2>1. i \in DOMAIN entries /\ e \in Entry /\ ExactFenceMatches(i, e, f)
    BY <1>5, AppliedMatches, KeptFacts DEF RecoverLease
  <2>2. t \in Nat
    BY <1>2, RequestedTtlType
  <2>3. d \in Entry /\ d.subject_id = e.subject_id
        /\ d.subject_generation = e.subject_generation
        /\ d.workflow_id = e.workflow_id /\ d.lease_owner = owner
    <3>1. n \in Nat /\ t \in Times \cup {None}
          /\ owner \in Owners \cup WorkflowIds \cup {None}
      BY <2>1, <2>2 DEF Entry, Times
    <3> HIDE DEF n, t, e
    <3> QED BY <2>1, <3>1 DEF Entry
  <2>4. Commit([entries EXCEPT ![i] = d], place, generations, {})
        /\ UNCHANGED <<now, minted>>
        /\ issued' = issued \cup {ExecutionFence(i, d)}
    BY <1>5 DEF RecoverLease, UpdateEntry
  <2>5. d.workflow_id \in WorkflowIds /\ i \in Nat
    BY <1>2, <2>1, <2>3 DEF ExactFenceMatches, Fence
  <2> HIDE DEF d
  <2>6. issued' \subseteq Fence
    BY <1>2, <2>3, <2>4, <2>5, FenceType
  <2> QED BY <2>1, <2>3, <2>4, <2>6, UpdateKeepsTypes
<1>6. ASSUME NEW outcome \in AskedOutcomes, CompletionV2(f, outcome)
      PROVE  TypeInv'
  <2>1. i \in DOMAIN entries
    BY <1>6, AppliedMatches DEF CompletionV2
  <2> QED BY <1>3, <1>6, <2>1, RemoveKeepsTypes DEF CompletionV2, Remove, Without
<1>7. ASSUME NEW outcome \in AskedOutcomes, InterruptedCompletionV2(f, outcome)
      PROVE  TypeInv'
  <2>1. i \in DOMAIN entries
    BY <1>7, AppliedMatches DEF InterruptedCompletionV2
  <2>2. {Finished(i, e, outcome)} \subseteq HistoryRecord
    BY <1>3, <2>1, KeptFacts, FinishedType
  <2> QED BY <1>7, <2>2, InterruptKeepsTypes DEF InterruptedCompletionV2
<1>8. ASSUME ReleasePendingV2(f)
      PROVE  TypeInv'
  <2> DEFINE d == [e EXCEPT !.status = "Pending"]
  <2>1. i \in DOMAIN entries /\ e \in Entry
    BY <1>8, AppliedMatches, KeptFacts DEF ReleasePendingV2
  <2>2. d \in Entry /\ d.subject_id = e.subject_id
        /\ d.subject_generation = e.subject_generation
    <3> HIDE DEF e
    <3> QED BY <2>1 DEF Entry, Status
  <2>3. Commit([entries EXCEPT ![i] = d], place, generations, {})
        /\ UNCHANGED <<now, minted>> /\ issued' \subseteq Fence
    BY <1>2, <1>8 DEF ReleasePendingV2, UpdateEntry
  <2> HIDE DEF d
  <2> QED BY <2>1, <2>2, <2>3, UpdateKeepsTypes
<1> QED BY <1>1, <1>4, <1>5, <1>6, <1>7, <1>8

-----------------------------------------------------------------------------
(* The calls without a ticket. *)

(* queue/lease chooses kept entries without identity, an id for each. *)
LEMMA OldLeaseEntry ==
    ASSUME TypeInv, NEW max \in 1..MaxOldBatch, NEW ids \in [1..max -> WorkflowIds],
           NEW exclude, NEW i \in Chosen(max, exclude)
    PROVE  /\ i \in Kept /\ ~IsTicketed(entries[i])
           /\ (IF entries[i].workflow_id # None THEN entries[i].workflow_id
               ELSE ids[1 + Cardinality(Ahead(Chosen(max, exclude), i))]) \in WorkflowIds
<1> DEFINE C == Chosen(max, exclude)
           S == {j \in Leasable :
                    /\ entries[j].subject_id \notin exclude
                    /\ \A l \in Ahead(Leasable, j) :
                          entries[l].subject_id # entries[j].subject_id}
<1>1. C = FirstN(S, max)
  BY DEF Chosen
<1>2. S \subseteq Leasable /\ Leasable \subseteq Kept
  BY DEF Leasable
<1>3. S \in SUBSET DOMAIN entries
  BY <1>2, KeptFacts
<1> HIDE DEF S
<1>4. C \subseteq S /\ i \in S /\ Cardinality(Ahead(S, i)) < max
  BY <1>1 DEF FirstN
<1> HIDE DEF C
<1>5. i \in Kept /\ ~IsTicketed(entries[i]) /\ entries[i] \in Entry
  BY <1>2, <1>4, KeptFacts DEF Leasable
<1>6. Ahead(C, i) \in SUBSET Ahead(S, i) /\ Ahead(S, i) \in SUBSET DOMAIN entries
  BY <1>3, <1>4 DEF Ahead
<1>7. /\ Cardinality(Ahead(C, i)) \in Nat /\ Cardinality(Ahead(S, i)) \in Nat
      /\ Cardinality(Ahead(C, i)) <= Cardinality(Ahead(S, i))
  BY <1>6, LiveSubset
<1>8. max \in Nat
  BY ServiceAssumption
<1>9. 1 + Cardinality(Ahead(C, i)) \in 1..max
  BY <1>4, <1>7, <1>8
<1>10. ids[1 + Cardinality(Ahead(C, i))] \in WorkflowIds
  BY <1>9
<1>11. entries[i].workflow_id \in WorkflowIds \cup {None}
  BY <1>5 DEF Entry
<1> QED BY <1>5, <1>10, <1>11 DEF C

(* queue/lease *)
LEMMA OldLeaseKeepsTypes ==
    ASSUME TypeInv, NEW max \in 1..MaxOldBatch, NEW ids \in [1..max -> WorkflowIds],
           NEW exclude, Lease(max, ids, exclude)
    PROVE  TypeInv'
<1> DEFINE C == Chosen(max, exclude)
           w(i) == IF entries[i].workflow_id # None THEN entries[i].workflow_id
                   ELSE ids[1 + Cardinality(Ahead(C, i))]
           E == [i \in Kept |-> IF i \in C THEN Assign(entries[i], w(i), now) ELSE entries[i]]
<1>1. Commit(E, Reindex(place, Kept), generations, SweptRecords)
      /\ UNCHANGED <<now, minted, issued>>
  BY DEF Lease
<1>2. \A i \in C : w(i) \in WorkflowIds
  BY OldLeaseEntry
<1> HIDE DEF w, C
<1>3. \A i \in Kept : /\ E[i] \in Entry
                      /\ E[i].subject_id = entries[i].subject_id
                      /\ E[i].subject_generation = entries[i].subject_generation
  BY <1>2, KeptFacts, AssignType DEF TypeInv, TypeOK
<1>4. DOMAIN E = Kept /\ E = [i \in DOMAIN E |-> E[i]]
  OBVIOUS
<1> HIDE DEF E
<1>5. now' \in Nat /\ minted' = minted /\ minted \in Nat /\ issued' \subseteq Fence
      /\ generations \in [Subjects -> Nat]
  BY <1>1 DEF TypeInv, TypeOK
<1>6. E \in [DOMAIN E -> Entry] /\ DOMAIN E \subseteq 1..minted'
      /\ Reindex(place, Kept) \in [DOMAIN E -> Nat]
  BY <1>3, <1>4, <1>5, KeptFacts
<1>7. \A i \in DOMAIN E : E[i].subject_generation <= generations[E[i].subject_id]
  BY <1>3, <1>4, KeptFacts
<1> QED BY <1>1, <1>5, <1>6, <1>7, KeptFacts, CommitType

(* The one-entry calls write entries with the identity they had. *)
LEMMA UpdateOneKeepsTypes ==
    ASSUME TypeInv, NEW i \in DOMAIN entries, NEW e \in Entry,
           e.subject_id = entries[i].subject_id,
           e.subject_generation = entries[i].subject_generation,
           UpdateOne(i, e)
    PROVE  TypeInv'
<1>1. issued' \subseteq Fence
  BY DEF UpdateOne, TypeInv, TypeOK
<1> QED BY <1>1, UpdateKeepsTypes DEF UpdateOne

(* hold, release, drop, completion, release_pending, mark_assigned. *)
LEMMA OneEntryCallKeepsTypes ==
    ASSUME TypeInv, SomeOperatorCall \/ SomeCompletion \/ SomeOldAssignment
    PROVE  TypeInv'
<1>1. \A i \in DOMAIN entries : entries[i] \in Entry /\ i \in Nat
  BY KeptFacts
<1>2. AskedOutcomes \subseteq HistoryOutcome /\ "Dropped" \in HistoryOutcome
  BY FilesAssumption DEF CompletionStatus, HistoryOutcome
<1>3. ASSUME NEW i \in DOMAIN entries, Hold(i) \/ Release(i)
      PROVE  TypeInv'
  <2>1. PICK st \in Status : UpdateOne(i, [entries[i] EXCEPT !.status = st])
    BY <1>3 DEF Hold, Release, Status
  <2>2. [entries[i] EXCEPT !.status = st] \in Entry
        /\ [entries[i] EXCEPT !.status = st].subject_id = entries[i].subject_id
        /\ [entries[i] EXCEPT !.status = st].subject_generation
              = entries[i].subject_generation
    BY <1>1 DEF Entry
  <2> QED BY <2>1, <2>2, UpdateOneKeepsTypes
<1>4. ASSUME NEW i \in DOMAIN entries, NEW o \in HistoryOutcome,
             RemoveOne(i, o) \/ Interrupt({Finished(i, entries[i], o)})
      PROVE  TypeInv'
  <2>1. {Finished(i, entries[i], o)} \subseteq HistoryRecord
    BY <1>1, FinishedType
  <2>2. CASE RemoveOne(i, o)
    BY <2>2, RemoveKeepsTypes DEF RemoveOne
  <2>3. CASE Interrupt({Finished(i, entries[i], o)})
    BY <2>1, <2>3, InterruptKeepsTypes
  <2> QED BY <1>4, <2>2, <2>3
<1>5. CASE SomeOperatorCall
  BY <1>2, <1>3, <1>4, <1>5 DEF SomeOperatorCall, DropEntry, InterruptedDrop
<1>6. CASE SomeCompletion
  BY <1>2, <1>4, <1>6 DEF SomeCompletion, Completion, InterruptedCompletion
<1>7. ASSUME NEW i \in DOMAIN entries, NEW w \in WorkflowIds, NEW called \in 0..now,
             MarkAssigned(i, w, called)
      PROVE  TypeInv'
  <2>1. called \in Nat
    BY DEF TypeInv, TypeOK
  <2> QED BY <1>1, <1>7, <2>1, AssignType, UpdateOneKeepsTypes DEF MarkAssigned
<1>8. ASSUME NEW i \in DOMAIN entries, ReleasePending(i)
      PROVE  TypeInv'
  <2> DEFINE e == entries[i]
             d == [e EXCEPT !.status = "Pending", !.workflow_id = None,
                            !.lease_owner = None, !.lease_expires_at = None]
  <2>1. d \in Entry /\ d.subject_id = e.subject_id
        /\ d.subject_generation = e.subject_generation
    <3>1. e \in Entry
      BY <1>1
    <3> HIDE DEF e
    <3> QED BY <3>1 DEF Entry, Status
  <2>2. UpdateOne(i, d)
    BY <1>8 DEF ReleasePending
  <2> HIDE DEF d
  <2> QED BY <2>1, <2>2, UpdateOneKeepsTypes
<1>9. CASE SomeOldAssignment
  BY <1>7, <1>8, <1>9 DEF SomeOldAssignment
<1> QED BY <1>5, <1>6, <1>9

(* queue/reorder *)
LEMMA ReorderKeepsTypes ==
    ASSUME TypeInv, NEW ids, Reorder(ids)
    PROVE  TypeInv'
<1> DEFINE P == Reindex([i \in DOMAIN entries |-> NewRank(ids, i)], DOMAIN entries)
<1>1. Commit(entries, P, generations, {}) /\ UNCHANGED <<now, minted, issued>>
  BY DEF Reorder
<1>2. P \in [DOMAIN entries -> Nat]
  BY LiveIsFinite, ReindexType DEF TypeInv
<1> HIDE DEF P
<1>3. /\ now' \in Nat /\ minted' = minted /\ minted \in Nat /\ issued' \subseteq Fence
      /\ generations \in [Subjects -> Nat] /\ entries \in [DOMAIN entries -> Entry]
      /\ DOMAIN entries \subseteq 1..minted
  BY <1>1 DEF TypeInv, TypeOK
<1> QED BY <1>1, <1>2, <1>3, KeptFacts, CommitType

(* queue/enqueue *)
LEMMA EnqueueKeepsTypes ==
    ASSUME TypeInv, NEW r \in Requests, Enqueue(r)
    PROVE  TypeInv'
<1>1. generations \in [Subjects -> Nat]
  BY DEF TypeInv, TypeOK
<1>2. \A s \in Subjects : generations[s] \in Nat /\ generations[s] <= generations[s]
  BY <1>1
<1>3. /\ FromDispatch(r) \in Entry
      /\ FromDispatch(r).subject_generation <= generations[FromDispatch(r).subject_id]
  BY <1>2, FromDispatchType
<1> QED BY <1>1, <1>2, <1>3, AddKeepsTypes DEF Enqueue

-----------------------------------------------------------------------------

(* TypeInv is an invariant: every reachable state of the files, tickets and *)
(* history is well typed, and no counter falls behind a live generation.   *)
LEMMA InitTypes == Init => TypeInv
<1> SUFFICES ASSUME Init PROVE TypeInv
  OBVIOUS
<1>1. PICK q \in Leftovers :
        /\ minted = Len(q)
        /\ entries = [i \in 1..Len(q) |-> q[i]]
        /\ place = [i \in 1..Len(q) |-> i]
  BY DEF Init, FilesInit
<1>2. q \in Seq({e \in Entry : OldStyleEntry(e)})
  BY FilesAssumption
<1>3. Len(q) \in Nat /\ \A i \in 1..Len(q) : q[i] \in Entry /\ OldStyleEntry(q[i])
  BY <1>2
<1>4. /\ now = 0 /\ history = <<>> /\ generations = [s \in Subjects |-> 0]
      /\ issued = {} /\ left = {}
  BY DEF Init, FilesInit
<1>5. TypeOK
  BY <1>1, <1>3, <1>4 DEF TypeOK
<1>6. GenerationsDominate
  BY <1>1, <1>3, <1>4 DEF GenerationsDominate, OldStyleEntry, Entry
<1> QED BY <1>5, <1>6 DEF TypeInv

(* Every step of the queue keeps the type invariant. *)
LEMMA NextTypes == TypeInv /\ [Next]_vars => TypeInv'
<1> SUFFICES ASSUME TypeInv, [Next]_vars PROVE TypeInv'
  OBVIOUS
<1>1. CASE SomeEnqueueV2
  BY <1>1, EnqueueV2KeepsTypes DEF SomeEnqueueV2
<1>2. CASE SomeLeaseV2
  BY <1>2, LeaseV2KeepsTypes DEF SomeLeaseV2
<1>3. CASE SomeTicketCall
  BY <1>3, TicketCallKeepsTypes
<1>4. CASE InterruptedSweep
  <2>1. \A n : {Finished(i, entries[i], "Dropped") : i \in FirstN(Swept, n)}
                  \subseteq HistoryRecord
    BY KeptFacts DEF FirstN, SweptRecords
  <2> QED BY <1>4, <2>1, InterruptKeepsTypes DEF InterruptedSweep
<1>5. CASE Tick
  BY <1>5 DEF Tick, files, TypeInv, TypeOK, GenerationsDominate
<1>6. CASE SomeEnqueue
  BY <1>6, EnqueueKeepsTypes DEF SomeEnqueue
<1>7. CASE SomeLease
  BY <1>7, OldLeaseKeepsTypes DEF SomeLease
<1>8. CASE NextDeadline
  BY <1>8, SweepKeepsTypes DEF NextDeadline
<1>9. CASE SomeOperatorCall \/ SomeCompletion \/ SomeOldAssignment
  BY <1>9, OneEntryCallKeepsTypes
<1>10. CASE SomeReorder
  BY <1>10, ReorderKeepsTypes DEF SomeReorder
<1>11. CASE UNCHANGED vars
  BY <1>11 DEF vars, files, TypeInv, TypeOK, GenerationsDominate
<1> QED BY <1>1, <1>2, <1>3, <1>4, <1>5, <1>6, <1>7, <1>8, <1>9, <1>10, <1>11
        DEF Next, FencedNext, ServiceNext

(* Type correctness of the whole queue. *)
THEOREM TypeCorrect == Spec => []TypeOK
<1>1. Init => TypeInv
  BY InitTypes
<1>2. TypeInv /\ [Next]_vars => TypeInv'
  BY NextTypes
<1>3. TypeInv => TypeOK
  BY DEF TypeInv
<1> QED BY <1>1, <1>2, <1>3, PTL DEF Spec

=============================================================================
