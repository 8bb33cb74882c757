------------------------------ MODULE LoopProofs ------------------------------
(***************************************************************************)
(* The project binding is atomic, for any number of requests, workers and  *)
(* project roots, and in every order the runtime may run the tasks.        *)
(*                                                                         *)
(* The argument: the root bound now was bound by an initialize u such that *)
(* every accepted initialize sent after the answer to u still waits to run *)
(* (Current).  A queue call copies that root, and what was answered before *)
(* it was sent has run.                                                    *)
(***************************************************************************)
EXTENDS PluginLoop, FiniteSetTheorems, TLAPS

Unanswered == {"sent", "spawned", "handling", "locked"}

(* Requests are numbered, and hold the root they work on. *)
StageInv ==
    /\ TypeOK
    /\ Sent = 1..Cardinality(Sent)
    /\ \A t \in Sent : stage[t] \in {"handling", "locked"} =>
          root[t] # None /\ Method(t) = "queue"

(* The answers keep step with the stages. *)
AnswerInv ==
    /\ \A t \in Sent :
          /\ stage[t] \in Unanswered => answer[t] = "none"
          /\ stage[t] \in {"answering", "answered"} => answer[t] # "none"
          /\ \A u \in seen[t] : At(u, "answered")
    /\ \A r, t : <<r, t>> \in touched => t \in Sent /\ stage[t] \notin Unanswered

(* u bound root r, and no initialize of after its answer has run. *)
Current(u, r) ==
    /\ Binds(u) /\ request[u].root = r /\ answer[u] = "ok"
    /\ \A v \in Sent : Binds(v) /\ u \in seen[v] => answer[v] = "none"

BackendInv ==
    /\ backend # None => \E u \in Sent : Current(u, backend)
    /\ \A t \in Sent : Binds(t) /\ answer[t] # "none" => backend # None

LoopInv == StageInv /\ AnswerInv /\ BackendInv /\ BindingIsAtomic

-----------------------------------------------------------------------------
(* Sending. *)

(* The next request has the next number. *)
LEMMA NextNumber ==
    ASSUME StageInv
    PROVE  LET n == Cardinality(Sent) IN
           /\ n \in Nat /\ n + 1 \notin Sent
           /\ Sent \cup {n + 1} = 1..(n + 1)
           /\ Cardinality(1..(n + 1)) = n + 1
<1>1. Sent \subseteq 1..MaxRequests /\ MaxRequests \in Nat
  BY LoopAssumption DEF StageInv, TypeOK, Ids
<1>2. IsFiniteSet(Sent) /\ Cardinality(Sent) \in Nat
  <2>1. IsFiniteSet(1..MaxRequests)
    BY <1>1, FS_Interval
  <2> QED BY <1>1, <2>1, FS_Subset, FS_CardinalityType
<1>3. Sent = 1..Cardinality(Sent)
  BY DEF StageInv
<1>4. Cardinality(1..(Cardinality(Sent) + 1)) = Cardinality(Sent) + 1
  BY <1>2, FS_Interval
<1> QED BY <1>2, <1>3, <1>4

LEMMA SendShape ==
    ASSUME StageInv, Send
    PROVE  LET t == Cardinality(Sent) + 1 IN
           /\ t \notin Sent /\ t \in Ids /\ Sent' = Sent \cup {t} /\ Sent' = 1..t
           /\ Cardinality(Sent') = t
           /\ request' \in [Sent' -> Request] /\ stage' \in [Sent' -> Stages]
           /\ root' \in [Sent' -> Roots \cup {None}] /\ answer' \in [Sent' -> Answers]
           /\ seen' \in [Sent' -> SUBSET Ids]
           /\ stage'[t] = "sent" /\ root'[t] = None /\ answer'[t] = "none"
           /\ seen'[t] = {u \in Sent : stage[u] = "answered"}
           /\ \A u \in Sent : /\ request'[u] = request[u] /\ stage'[u] = stage[u]
                              /\ root'[u] = root[u] /\ answer'[u] = answer[u]
                              /\ seen'[u] = seen[u]
           /\ UNCHANGED <<backend, lock, touched, others, loop>>
<1> DEFINE t == Cardinality(Sent) + 1
           With(f, x) == [u \in Sent \cup {t} |-> IF u = t THEN x ELSE f[u]]
<1>1. t \notin Sent /\ Sent \cup {t} = 1..t /\ Cardinality(1..t) = t
  BY NextNumber
<1>2. PICK r \in Request : request' = With(request, r)
  BY DEF Send
<1>3. /\ t \in Ids /\ stage' = With(stage, "sent") /\ root' = With(root, None)
      /\ answer' = With(answer, "none")
      /\ seen' = With(seen, {u \in Sent : stage[u] = "answered"})
      /\ UNCHANGED <<backend, lock, touched, others, loop>>
  BY DEF Send
<1> HIDE DEF t
<1>4. Sent' = Sent \cup {t}
  BY <1>2 DEF Sent
<1>5. request' \in [Sent' -> Request]
  BY <1>2, <1>4 DEF StageInv, TypeOK
<1>6. stage' \in [Sent' -> Stages] /\ answer' \in [Sent' -> Answers]
  BY <1>3, <1>4 DEF StageInv, TypeOK, Stages, Answers
<1>7. root' \in [Sent' -> Roots \cup {None}]
  BY <1>3, <1>4 DEF StageInv, TypeOK
<1>8. seen' \in [Sent' -> SUBSET Ids]
  BY <1>3, <1>4 DEF StageInv, TypeOK
<1>9. \A u \in Sent : /\ request'[u] = request[u] /\ stage'[u] = stage[u]
                      /\ root'[u] = root[u] /\ answer'[u] = answer[u]
                      /\ seen'[u] = seen[u]
  BY <1>1, <1>2, <1>3
<1>10. /\ stage'[t] = "sent" /\ root'[t] = None /\ answer'[t] = "none"
       /\ seen'[t] = {u \in Sent : stage[u] = "answered"}
  BY <1>3
<1> QED BY <1>1, <1>3, <1>4, <1>5, <1>6, <1>7, <1>8, <1>9, <1>10 DEF t

LEMMA SendKeepsLoop ==
    ASSUME LoopInv, Send
    PROVE  LoopInv'
<1> DEFINE t == Cardinality(Sent) + 1
<1>1. /\ t \notin Sent /\ t \in Ids /\ Sent' = Sent \cup {t} /\ Sent' = 1..t
      /\ Cardinality(Sent') = t
      /\ request' \in [Sent' -> Request] /\ stage' \in [Sent' -> Stages]
      /\ root' \in [Sent' -> Roots \cup {None}] /\ answer' \in [Sent' -> Answers]
      /\ seen' \in [Sent' -> SUBSET Ids]
      /\ stage'[t] = "sent" /\ root'[t] = None /\ answer'[t] = "none"
      /\ seen'[t] = {u \in Sent : stage[u] = "answered"}
      /\ \A u \in Sent : /\ request'[u] = request[u] /\ stage'[u] = stage[u]
                         /\ root'[u] = root[u] /\ answer'[u] = answer[u]
                         /\ seen'[u] = seen[u]
      /\ UNCHANGED <<backend, lock, touched, others, loop>>
  BY SendShape DEF LoopInv
<1> HIDE DEF t
<1>2. TypeOK'
  <2>1. Sent' \subseteq Ids
    BY <1>1 DEF LoopInv, StageInv, TypeOK
  <2>2. \A r \in Roots, u \in Ids : lock[r] = u <=> At(u, "locked")' /\ root'[u] = r
    BY <1>1 DEF LoopInv, StageInv, TypeOK, At
  <2> QED BY <1>1, <2>1, <2>2 DEF LoopInv, StageInv, TypeOK
<1>3. StageInv'
  BY <1>1, <1>2 DEF LoopInv, StageInv, Method
<1>4. AnswerInv'
  BY <1>1 DEF LoopInv, StageInv, TypeOK, AnswerInv, At, Unanswered
<1>5. \A u \in Sent : Binds(u)' <=> Binds(u)
  BY <1>1 DEF Binds, Method
<1>6. BackendInv'
  <2>1. ASSUME NEW u \in Sent, Current(u, backend)
        PROVE  Current(u, backend)'
    BY <1>1, <1>5, <2>1 DEF Current
  <2> QED BY <1>1, <1>5, <2>1 DEF LoopInv, BackendInv
<1>7. BindingIsAtomic'
  <2>1. \A v \in Sent : \A w \in seen[v] : w \in Sent
    BY DEF LoopInv, AnswerInv, At
  <2>2. ASSUME NEW w \in Sent
        PROVE  /\ root'[w] # None =>
                    \E u \in Sent' :
                       /\ Binds(u)' /\ request'[u].root = root'[w] /\ answer'[u] = "ok"
                       /\ ~ \E v \in seen'[w] : Binds(v)' /\ u \in seen'[v]
               /\ answer'[w] = "not_initialized" => ~ \E u \in seen'[w] : Binds(u)'
               /\ \A r \in Roots : <<r, w>> \in touched' => r = root'[w]
    BY <1>1, <1>5, <2>1 DEF LoopInv, BindingIsAtomic
  <2>3. \A r \in Roots : <<r, t>> \notin touched'
    BY <1>1 DEF LoopInv, AnswerInv
  <2> QED BY <1>1, <2>2, <2>3 DEF BindingIsAtomic
<1> QED BY <1>3, <1>4, <1>6, <1>7 DEF LoopInv

-----------------------------------------------------------------------------
(* The other steps. *)

(* u runs an accepted initialize. *)
RunsInitialize(u) ==
    /\ u \in Sent /\ stage[u] = "spawned" /\ Binds(u)
    /\ backend' = request[u].root /\ answer'[u] = "ok"
    /\ \A v \in Sent : v # u => answer'[v] = answer[v]

(* What a step makes of task t. *)
TaskMoves(t) ==
    /\ stage[t] = "answered" => stage'[t] = "answered"
    /\ stage[t] \notin Unanswered => stage'[t] \notin Unanswered
    /\ stage'[t] \in Unanswered => answer'[t] = answer[t]
    /\ stage'[t] \in {"answering", "answered"} => answer'[t] # "none"
    /\ answer[t] # "none" => answer'[t] = answer[t]
    /\ answer'[t] = "not_initialized" => answer[t] = "not_initialized" \/ backend = None
    /\ root'[t] = root[t] \/ (root'[t] = backend /\ stage[t] = "spawned")

TaskShape ==
    /\ UNCHANGED <<request, seen>>
    /\ \A t \in Sent : TaskMoves(t)
    /\ \A r, t : <<r, t>> \in touched' =>
          \/ <<r, t>> \in touched
          \/ t \in Sent /\ r = root[t] /\ stage[t] = "locked" /\ stage'[t] \notin Unanswered
    /\ \/ backend' = backend /\ \A t \in Sent : Binds(t) => answer'[t] = answer[t]
       \/ \E u \in Sent : RunsInitialize(u)

LEMMA TaskKeepsLoop ==
    ASSUME LoopInv, StageInv', TaskShape
    PROVE  LoopInv'
<1>1. /\ Sent' = Sent /\ request' = request /\ seen' = seen
      /\ \A t \in Sent : Binds(t)' <=> Binds(t)
      /\ \A t \in Sent : TaskMoves(t)
  BY DEF TaskShape, Sent, Binds, Method
<1>2. \A t \in Sent : \A u \in seen[t] :
         u \in Sent /\ stage[u] = "answered" /\ answer[u] # "none"
  BY DEF LoopInv, AnswerInv, At
<1>3. AnswerInv'
  <2>1. ASSUME NEW t \in Sent
        PROVE  /\ stage'[t] \in Unanswered => answer'[t] = "none"
               /\ stage'[t] \in {"answering", "answered"} => answer'[t] # "none"
               /\ \A u \in seen'[t] : At(u, "answered")'
    BY <1>1, <1>2 DEF TaskMoves, LoopInv, AnswerInv, At
  <2>2. ASSUME NEW r, NEW t, <<r, t>> \in touched'
        PROVE  t \in Sent' /\ stage'[t] \notin Unanswered
    BY <1>1, <2>2 DEF TaskShape, TaskMoves, LoopInv, AnswerInv
  <2> QED BY <1>1, <2>1, <2>2 DEF AnswerInv, Unanswered
<1>4. BackendInv'
  <2>1. CASE backend' = backend /\ \A t \in Sent : Binds(t) => answer'[t] = answer[t]
    <3>1. ASSUME NEW u \in Sent, Current(u, backend)
          PROVE  Current(u, backend)'
      BY <1>1, <2>1, <3>1 DEF Current
    <3> QED BY <1>1, <2>1, <3>1 DEF LoopInv, BackendInv
  <2>2. CASE \E u \in Sent : RunsInitialize(u)
    <3>1. PICK u \in Sent : RunsInitialize(u)
      BY <2>2
    <3>2. \A v \in Sent : u \notin seen[v]
      BY <1>2, <3>1 DEF RunsInitialize
    <3>3. Current(u, backend)'
      BY <1>1, <3>1, <3>2 DEF Current, RunsInitialize
    <3>4. backend' # None
      <4>1. request[u] \in Request /\ Method(u) = "initialize"
        BY <3>1 DEF RunsInitialize, Binds, LoopInv, StageInv, TypeOK
      <4>2. request[u].root \in Roots
        BY <4>1 DEF Request, Method
      <4> QED BY <3>1, <4>2, LoopAssumption DEF RunsInitialize
    <3> QED BY <1>1, <3>3, <3>4 DEF BackendInv
  <2> QED BY <2>1, <2>2 DEF TaskShape
<1>5. BindingIsAtomic'
  <2>1. ASSUME NEW t \in Sent, root'[t] # None
        PROVE  \E u \in Sent :
                  /\ Binds(u) /\ request[u].root = root'[t] /\ answer'[u] = "ok"
                  /\ ~ \E v \in seen[t] : Binds(v) /\ u \in seen[v]
    <3>1. CASE root'[t] = root[t]
      <4>1. PICK u \in Sent :
              /\ Binds(u) /\ request[u].root = root[t] /\ answer[u] = "ok"
              /\ ~ \E v \in seen[t] : Binds(v) /\ u \in seen[v]
        BY <2>1, <3>1 DEF LoopInv, BindingIsAtomic
      <4>2. answer'[u] = "ok"
        BY <1>1, <4>1 DEF TaskMoves
      <4> QED BY <3>1, <4>1, <4>2
    <3>2. CASE root'[t] = backend
      <4>1. PICK u \in Sent : Current(u, backend)
        BY <2>1, <3>2 DEF LoopInv, BackendInv
      <4>2. answer'[u] = "ok"
        BY <1>1, <4>1 DEF TaskMoves, Current
      <4>3. ~ \E v \in seen[t] : Binds(v) /\ u \in seen[v]
        BY <1>2, <4>1 DEF Current
      <4> QED BY <3>2, <4>1, <4>2, <4>3 DEF Current
    <3> QED BY <1>1, <3>1, <3>2 DEF TaskMoves
  <2>2. ASSUME NEW t \in Sent, answer'[t] = "not_initialized", NEW u \in seen[t], Binds(u)
        PROVE  FALSE
    <3>1. backend # None
      BY <1>2, <2>2 DEF LoopInv, BackendInv
    <3> QED BY <1>1, <2>2, <3>1 DEF TaskMoves, LoopInv, BindingIsAtomic
  <2>3. ASSUME NEW t \in Sent, NEW r \in Roots, <<r, t>> \in touched'
        PROVE  r = root'[t]
    <3>1. CASE <<r, t>> \in touched
      <4>1. r = root[t] /\ stage[t] \notin Unanswered
        BY <3>1 DEF LoopInv, BindingIsAtomic, AnswerInv
      <4> QED BY <1>1, <4>1 DEF TaskMoves, Unanswered
    <3>2. CASE r = root[t] /\ stage[t] = "locked"
      BY <1>1, <3>2 DEF TaskMoves
    <3> QED BY <2>3, <3>1, <3>2 DEF TaskShape
  <2>4. ASSUME NEW t \in Sent, root'[t] # None
        PROVE  \E u \in Sent' :
                  /\ Binds(u)' /\ request'[u].root = root'[t] /\ answer'[u] = "ok"
                  /\ ~ \E v \in seen'[t] : Binds(v)' /\ u \in seen'[v]
    <3>1. PICK u \in Sent :
            /\ Binds(u) /\ request[u].root = root'[t] /\ answer'[u] = "ok"
            /\ ~ \E v \in seen[t] : Binds(v) /\ u \in seen[v]
      BY <2>1, <2>4
    <3>2. \A v \in seen[t] : v \in Sent
      BY <1>2
    <3> QED BY <1>1, <3>1, <3>2
  <2>5. ASSUME NEW t \in Sent, answer'[t] = "not_initialized"
        PROVE  ~ \E u \in seen'[t] : Binds(u)'
    BY <1>1, <1>2, <2>2, <2>5
  <2> QED BY <1>1, <2>3, <2>4, <2>5 DEF BindingIsAtomic
<1> QED BY <1>3, <1>4, <1>5 DEF LoopInv

(* What a step of one task leaves. *)
LEMMA MovedTask ==
    ASSUME TypeOK, NEW t \in Sent, NEW s \in Stages, Move(t, s)
    PROVE  /\ stage' \in [Sent -> Stages] /\ stage'[t] = s
           /\ \A u \in Sent : u # t => stage'[u] = stage[u]
BY DEF Move, TypeOK

LEMMA AnsweredTask ==
    ASSUME TypeOK, NEW t \in Sent, NEW a \in Answers, AnswerWith(t, a)
    PROVE  /\ stage' \in [Sent -> Stages] /\ stage'[t] \in {"dropped", "answering"}
           /\ \A u \in Sent : u # t => stage'[u] = stage[u]
           /\ answer' \in [Sent -> Answers] /\ answer'[t] = a
           /\ \A u \in Sent : u # t => answer'[u] = answer[u]
BY DEF AnswerWith, Move, TypeOK, Stages

(* The requests stay, and no lock changes hands. *)
LEMMA UnlockedStep ==
    ASSUME StageInv, UNCHANGED <<request, seen, lock, others>>,
           stage' \in [Sent -> Stages], answer' \in [Sent -> Answers],
           root' \in [Sent -> Roots \cup {None}], backend' \in Roots \cup {None},
           touched' \subseteq Roots \X Ids, loop' \in {"reading", "ended", "exited"},
           \A t \in Sent :
              /\ stage[t] = "locked" <=> stage'[t] = "locked"
              /\ stage[t] = "locked" => root'[t] = root[t]
              /\ stage'[t] \in {"handling", "locked"} =>
                    root'[t] # None /\ Method(t) = "queue"
    PROVE  StageInv'
<1>1. Sent' = Sent /\ \A t : Method(t)' = Method(t)
  BY DEF Sent, Method
<1>2. TypeOK'
  <2>1. \A r \in Roots, u \in Ids : lock[r] = u <=> At(u, "locked")' /\ root'[u] = r
    BY <1>1 DEF StageInv, TypeOK, At
  <2> QED BY <1>1, <2>1 DEF StageInv, TypeOK
<1> QED BY <1>1, <1>2 DEF StageInv

LEMMA SpawnStep ==
    ASSUME LoopInv, NEW t \in Ids, Spawn(t)
    PROVE  StageInv' /\ TaskShape
<1>1. /\ t \in Sent /\ stage[t] = "sent" /\ Move(t, "spawned")
      /\ UNCHANGED <<request, root, answer, backend, lock, touched, others, loop, seen>>
  BY DEF Spawn, At
<1>2. /\ stage' \in [Sent -> Stages] /\ stage'[t] = "spawned"
      /\ \A u \in Sent : u # t => stage'[u] = stage[u]
  BY <1>1, MovedTask DEF LoopInv, StageInv, Stages
<1>3. StageInv'
  BY <1>1, <1>2, UnlockedStep DEF LoopInv, StageInv, TypeOK
<1>4. \A u \in Sent : TaskMoves(u)
  BY <1>1, <1>2 DEF TaskMoves, Unanswered, LoopInv, AnswerInv
<1> QED BY <1>1, <1>3, <1>4 DEF TaskShape

LEMMA InitializeStep ==
    ASSUME LoopInv, NEW t \in Ids, Initialize(t)
    PROVE  StageInv' /\ TaskShape
<1> DEFINE a == IF request[t].accepted THEN "ok" ELSE "refused"
<1>1. /\ t \in Sent /\ stage[t] = "spawned" /\ AnswerWith(t, a)
      /\ Method(t) = "initialize"
      /\ backend' = IF request[t].accepted THEN request[t].root ELSE backend
      /\ UNCHANGED <<request, root, lock, touched, others, loop, seen>>
  BY DEF Initialize, At
<1>2. a \in Answers
  BY DEF Answers
<1>3. /\ stage' \in [Sent -> Stages] /\ stage'[t] \in {"dropped", "answering"}
      /\ \A u \in Sent : u # t => stage'[u] = stage[u]
      /\ answer' \in [Sent -> Answers] /\ answer'[t] = a
      /\ \A u \in Sent : u # t => answer'[u] = answer[u]
  BY <1>1, <1>2, AnsweredTask DEF LoopInv, StageInv
<1>4. request[t].root \in Roots /\ backend' \in Roots \cup {None}
  <2>1. request[t] \in Request /\ backend \in Roots \cup {None}
    BY <1>1 DEF LoopInv, StageInv, TypeOK
  <2> QED BY <1>1, <2>1 DEF Request, Method
<1>5. StageInv'
  BY <1>1, <1>3, <1>4, UnlockedStep DEF LoopInv, StageInv, TypeOK
<1>6. answer[t] = "none" /\ a \notin {"none", "not_initialized"}
  BY <1>1 DEF LoopInv, AnswerInv, Unanswered
<1> HIDE DEF a
<1>7. \A u \in Sent : TaskMoves(u)
  BY <1>1, <1>3, <1>6 DEF TaskMoves, Unanswered, LoopInv, AnswerInv
<1>8. \/ backend' = backend /\ \A u \in Sent : Binds(u) => answer'[u] = answer[u]
      \/ RunsInitialize(t)
  BY <1>1, <1>3 DEF Binds, RunsInitialize, a
<1> QED BY <1>1, <1>5, <1>7, <1>8 DEF TaskShape

(* A task that answers and binds nothing. *)
LEMMA AnswerShape ==
    ASSUME LoopInv, NEW t \in Sent, NEW a \in Answers \ {"none"}, AnswerWith(t, a),
           stage[t] \in Unanswered, Method(t) # "initialize",
           a = "not_initialized" => backend = None,
           root'[t] = root[t] \/ (root'[t] = backend /\ stage[t] = "spawned"),
           \A u \in Sent : u # t => root'[u] = root[u],
           \A r, u : <<r, u>> \in touched' =>
              <<r, u>> \in touched \/ (u = t /\ r = root[t] /\ stage[t] = "locked"),
           UNCHANGED <<request, backend, seen>>
    PROVE  TaskShape
<1>1. /\ stage' \in [Sent -> Stages] /\ stage'[t] \in {"dropped", "answering"}
      /\ \A u \in Sent : u # t => stage'[u] = stage[u]
      /\ answer' \in [Sent -> Answers] /\ answer'[t] = a
      /\ \A u \in Sent : u # t => answer'[u] = answer[u]
  BY AnsweredTask DEF LoopInv, StageInv
<1>2. \A u \in Sent : TaskMoves(u)
  BY <1>1 DEF TaskMoves, Unanswered, LoopInv, AnswerInv
<1>3. \A u \in Sent : Binds(u) => answer'[u] = answer[u]
  BY <1>1 DEF Binds
<1>4. \A r, u : <<r, u>> \in touched' =>
          \/ <<r, u>> \in touched
          \/ u \in Sent /\ r = root[u] /\ stage[u] = "locked" /\ stage'[u] \notin Unanswered
  BY <1>1 DEF Unanswered
<1> QED BY <1>2, <1>3, <1>4 DEF TaskShape

LEMMA AnswerAtOnceStep ==
    ASSUME LoopInv, NEW t \in Ids, AnswerAtOnce(t)
    PROVE  StageInv' /\ TaskShape
<1>1. /\ t \in Sent /\ stage[t] = "spawned" /\ AnswerWith(t, "ok")
      /\ Method(t) = "plain"
      /\ UNCHANGED <<request, root, backend, lock, touched, others, loop, seen>>
  BY DEF AnswerAtOnce, At
<1>2. /\ stage' \in [Sent -> Stages] /\ stage'[t] \in {"dropped", "answering"}
      /\ \A u \in Sent : u # t => stage'[u] = stage[u]
      /\ answer' \in [Sent -> Answers]
  BY <1>1, AnsweredTask DEF LoopInv, StageInv, Answers
<1>3. StageInv'
  BY <1>1, <1>2, UnlockedStep DEF LoopInv, StageInv, TypeOK
<1>4. TaskShape
  BY <1>1, AnswerShape DEF Answers, Unanswered
<1> QED BY <1>3, <1>4

LEMMA IgnoreStep ==
    ASSUME LoopInv, NEW t \in Ids, Ignore(t)
    PROVE  StageInv' /\ TaskShape
<1>1. /\ t \in Sent /\ stage[t] = "spawned" /\ Move(t, "silent")
      /\ UNCHANGED <<request, root, answer, backend, lock, touched, others, loop, seen>>
  BY DEF Ignore, At
<1>2. /\ stage' \in [Sent -> Stages] /\ stage'[t] = "silent"
      /\ \A u \in Sent : u # t => stage'[u] = stage[u]
  BY <1>1, MovedTask DEF LoopInv, StageInv, Stages
<1>3. StageInv'
  BY <1>1, <1>2, UnlockedStep DEF LoopInv, StageInv, TypeOK
<1>4. \A u \in Sent : TaskMoves(u)
  BY <1>1, <1>2 DEF TaskMoves, Unanswered, LoopInv, AnswerInv
<1> QED BY <1>1, <1>3, <1>4 DEF TaskShape

LEMMA RequireBackendStep ==
    ASSUME LoopInv, NEW t \in Ids, RequireBackend(t)
    PROVE  StageInv' /\ TaskShape
<1>1. /\ t \in Sent /\ stage[t] = "spawned" /\ Method(t) = "queue"
      /\ root' = [root EXCEPT ![t] = backend]
      /\ UNCHANGED <<request, backend, lock, touched, others, loop, seen>>
  BY DEF RequireBackend, At
<1>2. /\ root' \in [Sent -> Roots \cup {None}] /\ root'[t] = backend
      /\ \A u \in Sent : u # t => root'[u] = root[u]
  BY <1>1 DEF LoopInv, StageInv, TypeOK
<1>3. ASSUME NEW a \in {"not_initialized", "invalid"}, AnswerWith(t, a),
             a = "not_initialized" => backend = None
      PROVE  StageInv' /\ TaskShape
  <2>1. a \in Answers \ {"none"}
    BY <1>3 DEF Answers
  <2>2. /\ stage' \in [Sent -> Stages] /\ stage'[t] \in {"dropped", "answering"}
        /\ \A u \in Sent : u # t => stage'[u] = stage[u]
        /\ answer' \in [Sent -> Answers]
    BY <1>1, <1>3, <2>1, AnsweredTask DEF LoopInv, StageInv
  <2>3. StageInv'
    BY <1>1, <1>2, <2>2, UnlockedStep DEF LoopInv, StageInv, TypeOK
  <2>4. TaskShape
    BY <1>1, <1>2, <1>3, <2>1, AnswerShape DEF Unanswered
  <2> QED BY <2>3, <2>4
<1>4. ASSUME backend # None, Move(t, "handling"), UNCHANGED answer
      PROVE  StageInv' /\ TaskShape
  <2>1. /\ stage' \in [Sent -> Stages] /\ stage'[t] = "handling"
        /\ \A u \in Sent : u # t => stage'[u] = stage[u]
    BY <1>1, <1>4, MovedTask DEF LoopInv, StageInv, Stages
  <2>2. StageInv'
    BY <1>1, <1>2, <1>4, <2>1, UnlockedStep DEF LoopInv, StageInv, TypeOK
  <2>3. \A u \in Sent : TaskMoves(u)
    BY <1>1, <1>2, <1>4, <2>1 DEF TaskMoves, Unanswered, LoopInv, AnswerInv
  <2> QED BY <1>1, <1>4, <2>2, <2>3 DEF TaskShape
<1> QED BY <1>3, <1>4 DEF RequireBackend

(* The lock of a root goes from nobody to t, or back. *)
LEMMA LockStep ==
    ASSUME LoopInv, NEW t \in Ids, Lock(t)
    PROVE  StageInv' /\ TaskShape
<1>1. /\ t \in Sent /\ stage[t] = "handling" /\ Move(t, "locked")
      /\ lock[root[t]] = None /\ lock' = [lock EXCEPT ![root[t]] = t]
      /\ UNCHANGED <<request, root, answer, backend, touched, others, loop, seen>>
  BY DEF Lock, At
<1>2. /\ stage' \in [Sent -> Stages] /\ stage'[t] = "locked"
      /\ \A u \in Sent : u # t => stage'[u] = stage[u]
  BY <1>1, MovedTask DEF LoopInv, StageInv, Stages
<1>3. Sent' = Sent /\ root[t] \in Roots
  BY <1>1 DEF Sent, LoopInv, StageInv, TypeOK
<1>4. TypeOK'
  <2>1. lock' \in [Roots -> Ids \cup {Other, None}]
    BY <1>1, <1>3 DEF LoopInv, StageInv, TypeOK
  <2>2. ASSUME NEW r \in Roots, NEW u \in Ids
        PROVE  lock'[r] = u <=> At(u, "locked")' /\ root'[u] = r
    BY <1>1, <1>2, <1>3, LoopAssumption DEF LoopInv, StageInv, TypeOK, At
  <2> QED BY <1>1, <1>2, <1>3, <2>1, <2>2 DEF LoopInv, StageInv, TypeOK
<1>5. StageInv'
  BY <1>1, <1>2, <1>3, <1>4 DEF LoopInv, StageInv, Method
<1>6. \A u \in Sent : TaskMoves(u)
  BY <1>1, <1>2 DEF TaskMoves, Unanswered, LoopInv, AnswerInv
<1> QED BY <1>1, <1>5, <1>6 DEF TaskShape

LEMMA CommitStep ==
    ASSUME LoopInv, NEW t \in Ids, Commit(t)
    PROVE  StageInv' /\ TaskShape
<1>1. /\ t \in Sent /\ stage[t] = "locked" /\ AnswerWith(t, "ok")
      /\ touched' = touched \cup {<<root[t], t>>}
      /\ lock' = [lock EXCEPT ![root[t]] = None]
      /\ UNCHANGED <<request, root, backend, others, loop, seen>>
  BY DEF Commit, At
<1>2. /\ stage' \in [Sent -> Stages] /\ stage'[t] \in {"dropped", "answering"}
      /\ \A u \in Sent : u # t => stage'[u] = stage[u]
      /\ answer' \in [Sent -> Answers] /\ answer'[t] = "ok"
      /\ \A u \in Sent : u # t => answer'[u] = answer[u]
  BY <1>1, AnsweredTask DEF LoopInv, StageInv, Answers
<1>3. Sent' = Sent /\ root[t] \in Roots
  BY <1>1 DEF Sent, LoopInv, StageInv, TypeOK
<1>4. TypeOK'
  <2>1. /\ lock' \in [Roots -> Ids \cup {Other, None}] /\ touched' \subseteq Roots \X Ids
    BY <1>1, <1>3 DEF LoopInv, StageInv, TypeOK
  <2>2. ASSUME NEW r \in Roots, NEW u \in Ids
        PROVE  lock'[r] = u <=> At(u, "locked")' /\ root'[u] = r
    BY <1>1, <1>2, <1>3, LoopAssumption DEF LoopInv, StageInv, TypeOK, At
  <2> QED BY <1>1, <1>2, <1>3, <2>1, <2>2 DEF LoopInv, StageInv, TypeOK
<1>5. StageInv'
  BY <1>1, <1>2, <1>3, <1>4 DEF LoopInv, StageInv, Method
<1>6. TaskShape
  <2>1. Method(t) # "initialize"
    BY <1>1 DEF LoopInv, StageInv
  <2> QED BY <1>1, <2>1, AnswerShape DEF Answers, Unanswered
<1> QED BY <1>5, <1>6

LEMMA WriteFrameStep ==
    ASSUME LoopInv, NEW t \in Ids, WriteFrame(t)
    PROVE  StageInv' /\ TaskShape
<1>1. /\ t \in Sent /\ stage[t] = "answering" /\ Move(t, "answered")
      /\ UNCHANGED <<request, root, answer, backend, lock, touched, others, loop, seen>>
  BY DEF WriteFrame, At
<1>2. /\ stage' \in [Sent -> Stages] /\ stage'[t] = "answered"
      /\ \A u \in Sent : u # t => stage'[u] = stage[u]
  BY <1>1, MovedTask DEF LoopInv, StageInv, Stages
<1>3. StageInv'
  BY <1>1, <1>2, UnlockedStep DEF LoopInv, StageInv, TypeOK
<1>4. \A u \in Sent : TaskMoves(u)
  BY <1>1, <1>2 DEF TaskMoves, Unanswered, LoopInv, AnswerInv
<1> QED BY <1>1, <1>3, <1>4 DEF TaskShape

(* The runtime stops, and with it the tasks that are not on a worker. *)
LEMMA EndOfInputStep ==
    ASSUME LoopInv, EndOfInput
    PROVE  StageInv' /\ TaskShape
<1>1. /\ \A t \in Sent : stage[t] # "sent"
      /\ stage' = [t \in Sent |-> IF stage[t] \in {"spawned", "answering"}
                                  THEN "dropped" ELSE stage[t]]
      /\ loop' = "ended"
      /\ UNCHANGED <<request, root, answer, backend, lock, touched, others, seen>>
  BY DEF EndOfInput
<1>2. stage' \in [Sent -> Stages]
  BY <1>1 DEF LoopInv, StageInv, TypeOK, Stages
<1>3. StageInv'
  BY <1>1, <1>2, UnlockedStep DEF LoopInv, StageInv, TypeOK
<1>4. \A u \in Sent : TaskMoves(u)
  BY <1>1 DEF TaskMoves, Unanswered, LoopInv, AnswerInv
<1> QED BY <1>1, <1>3, <1>4 DEF TaskShape

LEMMA ExitStep ==
    ASSUME LoopInv, NEW t \in Ids, Exit(t)
    PROVE  StageInv' /\ TaskShape
<1>1. /\ loop' = "exited"
      /\ stage' = [u \in Sent |-> IF stage[u] \in {"answered", "silent"}
                                  THEN stage[u] ELSE "dropped"]
      /\ lock' = [r \in Roots |-> IF lock[r] = Other THEN Other ELSE None]
      /\ UNCHANGED <<request, root, answer, backend, touched, others, seen>>
  BY DEF Exit
<1>2. stage' \in [Sent -> Stages]
  BY <1>1 DEF LoopInv, StageInv, TypeOK, Stages
<1>3. Sent' = Sent /\ \A u \in Sent : stage'[u] \notin {"handling", "locked"}
  BY <1>1 DEF Sent
<1>4. TypeOK'
  <2>1. \A r \in Roots, u \in Ids : lock'[r] # u /\ ~At(u, "locked")'
    BY <1>1, <1>3, LoopAssumption DEF At
  <2> QED BY <1>1, <1>2, <1>3, <2>1 DEF LoopInv, StageInv, TypeOK
<1>5. StageInv'
  BY <1>3, <1>4 DEF LoopInv, StageInv
<1>6. \A u \in Sent : TaskMoves(u)
  BY <1>1 DEF TaskMoves, Unanswered, LoopInv, AnswerInv
<1> QED BY <1>1, <1>5, <1>6 DEF TaskShape

(* Another process takes and frees a lock. *)
LEMMA OtherStep ==
    ASSUME LoopInv, NEW r \in Roots, OtherLocks(r) \/ OtherUnlocks(r)
    PROVE  LoopInv'
<1>1. /\ lock[r] \in {None, Other}
      /\ lock' = [lock EXCEPT ![r] = Other] \/ lock' = [lock EXCEPT ![r] = None]
      /\ others' \in 0..MaxOther
      /\ UNCHANGED <<request, stage, root, answer, backend, touched, loop, seen>>
  BY LoopAssumption DEF OtherLocks, OtherUnlocks, LoopInv, StageInv, TypeOK
<1>2. TypeOK'
  <2>1. lock' \in [Roots -> Ids \cup {Other, None}]
    BY <1>1 DEF LoopInv, StageInv, TypeOK
  <2>2. \A q \in Roots, u \in Ids : lock'[q] = u <=> lock[q] = u
    BY <1>1, LoopAssumption DEF LoopInv, StageInv, TypeOK
  <2> QED BY <1>1, <2>1, <2>2 DEF LoopInv, StageInv, TypeOK, At, Sent
<1>3. StageInv'
  BY <1>1, <1>2 DEF LoopInv, StageInv, Sent, Method
<1>4. TaskShape
  BY <1>1 DEF TaskShape, TaskMoves, Unanswered, LoopInv, AnswerInv
<1> QED BY <1>3, <1>4, TaskKeepsLoop

LEMMA InitLoop == Init => LoopInv
<1> SUFFICES ASSUME Init PROVE LoopInv
  OBVIOUS
<1>1. Sent = {} /\ Cardinality(Sent) = 0 /\ 1..0 = {}
  BY FS_EmptySet DEF Init, Sent
<1>2. TypeOK
  <2>1. /\ request \in [Sent -> Request] /\ stage \in [Sent -> Stages]
        /\ root \in [Sent -> Roots \cup {None}] /\ answer \in [Sent -> Answers]
        /\ seen \in [Sent -> SUBSET Ids]
    BY <1>1 DEF Init
  <2>2. \A r \in Roots, t \in Ids : lock[r] # t
    BY LoopAssumption DEF Init
  <2> QED BY <1>1, <2>1, <2>2, LoopAssumption DEF Init, TypeOK, At
<1>3. StageInv
  BY <1>1, <1>2 DEF StageInv
<1> QED BY <1>1, <1>3 DEF Init, LoopInv, AnswerInv, BackendInv, BindingIsAtomic

LEMMA NextLoop == LoopInv /\ [Next]_vars => LoopInv'
<1> SUFFICES ASSUME LoopInv, [Next]_vars PROVE LoopInv'
  OBVIOUS
<1>1. CASE Send
  BY <1>1, SendKeepsLoop
<1>2. CASE EndOfInput
  BY <1>2, EndOfInputStep, TaskKeepsLoop
<1>3. CASE \E t \in Ids : Spawn(t) \/ Task(t)
  <2>1. PICK t \in Ids : Spawn(t) \/ Task(t)
    BY <1>3
  <2>2. StageInv' /\ TaskShape
    BY <2>1, SpawnStep, InitializeStep, AnswerAtOnceStep, IgnoreStep, RequireBackendStep,
       LockStep, CommitStep, WriteFrameStep, ExitStep DEF Task
  <2> QED BY <2>2, TaskKeepsLoop
<1>4. CASE \E r \in Roots : OtherLocks(r) \/ OtherUnlocks(r)
  BY <1>4, OtherStep
<1>5. CASE UNCHANGED vars
  BY <1>5 DEF vars, Sent, Method, At, Binds, Current, TypeOK, LoopInv, StageInv, AnswerInv,
              BackendInv, BindingIsAtomic
<1> QED BY <1>1, <1>2, <1>3, <1>4, <1>5 DEF Next

LEMMA LoopInvariant == Spec => []LoopInv
BY InitLoop, NextLoop, PTL DEF Spec

(* Each lock is held by the one task that works under it, on its own root.  *)
THEOREM LoopTypes == Spec => []TypeOK
<1>1. LoopInv => TypeOK
  BY DEF LoopInv, StageInv
<1> QED BY <1>1, LoopInvariant, PTL

(* A queue call works on the root of an accepted initialize that no later   *)
(* one, answered before the call was sent, had replaced; it is refused as   *)
(* not initialized only if none had been answered; and it writes the files *)
(* of that root only, for any order in which the tasks run.                *)
THEOREM BindingActsAtomically == Spec => []BindingIsAtomic
<1>1. LoopInv => BindingIsAtomic
  BY DEF LoopInv
<1> QED BY <1>1, LoopInvariant, PTL

=============================================================================
