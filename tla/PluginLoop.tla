----------------------------- MODULE PluginLoop -----------------------------
(***************************************************************************)
(* One plugin process (src/plugin.rs): the reader of stdin, a task per     *)
(* request on a pool of worker threads, the project binding that           *)
(* initialize writes, the blocking calls under queue.lock, and the answers *)
(* on stdout.  The host may send its requests without waiting.             *)
(*                                                                         *)
(* What a queue call does to the files is one step here (Commit); the      *)
(* other modules say what it does.                                         *)
(***************************************************************************)
EXTENDS Naturals, FiniteSets

CONSTANTS
    Roots,        \* project roots
    None,         \* no binding yet
    Other,        \* another process on the same project
    Workers,      \* worker threads of the runtime
    MaxRequests,  \* bound: requests the host sends
    MaxOther      \* bound: times another process takes the lock

(* The methods, as far as the loop tells them apart: initialize with a host *)
(* that check_host accepts or refuses, a queue call, a method answered at  *)
(* once (ping, health check, shutdown, unknown ones), a notification, exit.*)
Request ==
    [method : {"initialize"}, root : Roots, accepted : BOOLEAN] \cup
    [method : {"queue", "plain", "notification", "exit"}]

Ids == 1..MaxRequests

VARIABLES
    request,   \* the requests sent, by their position in the stream
    stage,     \* where each one is
    root,      \* the root of the backend each queue call works with
    answer,    \* what each one is answered
    backend,   \* the RwLock: the root bound now
    lock,      \* queue.lock of each root
    touched,   \* roots whose files this process wrote, by which call
    others,    \* times another process took a lock
    loop,      \* the reader: "reading", "ended" or "exited"
    seen       \* for the properties: the answers the host had when it sent each

vars == <<request, stage, root, answer, backend, lock, touched, others, loop, seen>>

Sent == DOMAIN request

Stages == {"sent", "spawned", "handling", "locked", "answering",
           "answered", "silent", "dropped"}
Answers == {"none", "ok", "refused", "not_initialized", "invalid"}

ASSUME LoopAssumption ==
    /\ None \notin Roots
    /\ Workers \in Nat \ {0} /\ MaxRequests \in Nat /\ MaxOther \in Nat
    /\ Other \notin Ids /\ None \notin Ids /\ Other # None

Method(t) == request[t].method
At(t, s) == t \in Sent /\ stage[t] = s

TypeOK ==
    /\ Sent \subseteq Ids
    /\ request \in [Sent -> Request]
    /\ stage \in [Sent -> Stages]
    /\ root \in [Sent -> Roots \cup {None}]
    /\ answer \in [Sent -> Answers]
    /\ backend \in Roots \cup {None}
    /\ lock \in [Roots -> Ids \cup {Other, None}]
    /\ touched \subseteq Roots \X Ids
    /\ others \in 0..MaxOther
    /\ loop \in {"reading", "ended", "exited"}
    /\ seen \in [Sent -> SUBSET Ids]
    /\ \A r \in Roots, t \in Ids : lock[r] = t <=> At(t, "locked") /\ root[t] = r

(* Handlers are synchronous: one that works or waits for the lock keeps its *)
(* worker thread.                                                          *)
Busy == {t \in Sent : stage[t] \in {"handling", "locked"}}
FreeWorker == Cardinality(Busy) < Workers

Move(t, s) == stage' = [stage EXCEPT ![t] = s]

(* The frame is written, unless the reader has ended and with it the        *)
(* runtime, which drops a task at its next await.                          *)
AnswerWith(t, a) ==
    /\ answer' = [answer EXCEPT ![t] = a]
    /\ Move(t, IF loop = "ended" THEN "dropped" ELSE "answering")

-----------------------------------------------------------------------------

(* The host writes its next request. *)
Send ==
    LET t == Cardinality(Sent) + 1
        With(f, x) == [u \in Sent \cup {t} |-> IF u = t THEN x ELSE f[u]]
    IN  /\ t \in Ids
        /\ loop = "reading"
        /\ \E r \in Request : request' = With(request, r)
        /\ stage' = With(stage, "sent")
        /\ root' = With(root, None)
        /\ answer' = With(answer, "none")
        /\ seen' = With(seen, {u \in Sent : stage[u] = "answered"})
        /\ UNCHANGED <<backend, lock, touched, others, loop>>

(* Frames are read in order; each request becomes a task of its own. *)
Spawn(t) ==
    /\ At(t, "sent")
    /\ \A u \in Sent : u < t => stage[u] # "sent"
    /\ loop = "reading"
    /\ Move(t, "spawned")
    /\ UNCHANGED <<request, root, answer, backend, lock, touched, others, loop, seen>>

(* Mutant: a refused initialize takes the binding away. *)
InitializeUnbinding(t) ==
    /\ At(t, "spawned") /\ FreeWorker
    /\ Method(t) = "initialize"
    /\ AnswerWith(t, IF request[t].accepted THEN "ok" ELSE "refused")
    /\ backend' = IF request[t].accepted THEN request[t].root ELSE None
    /\ UNCHANGED <<request, root, lock, touched, others, loop, seen>>

(* check_host comes first; a refused host leaves the binding as it is.      *)
Initialize(t) ==
    /\ At(t, "spawned") /\ FreeWorker
    /\ Method(t) = "initialize"
    /\ AnswerWith(t, IF request[t].accepted THEN "ok" ELSE "refused")
    /\ backend' = IF request[t].accepted THEN request[t].root ELSE backend
    /\ UNCHANGED <<request, root, lock, touched, others, loop, seen>>

AnswerAtOnce(t) ==
    /\ At(t, "spawned") /\ FreeWorker
    /\ Method(t) = "plain"
    /\ AnswerWith(t, "ok")
    /\ UNCHANGED <<request, root, backend, lock, touched, others, loop, seen>>

(* Notifications are not answered. *)
Ignore(t) ==
    /\ At(t, "spawned") /\ FreeWorker
    /\ Method(t) = "notification"
    /\ Move(t, "silent")
    /\ UNCHANGED <<request, root, answer, backend, lock, touched, others, loop, seen>>

(* require_backend: the binding is copied, then params are parsed. *)
RequireBackend(t) ==
    /\ At(t, "spawned") /\ FreeWorker
    /\ Method(t) = "queue"
    /\ root' = [root EXCEPT ![t] = backend]
    /\ \/ backend = None /\ AnswerWith(t, "not_initialized")
       \/ backend # None /\ AnswerWith(t, "invalid")
       \/ backend # None /\ Move(t, "handling") /\ UNCHANGED answer
    /\ UNCHANGED <<request, backend, lock, touched, others, loop, seen>>

(* lock_exclusive: every call opens queue.lock anew, so calls of one        *)
(* process exclude each other as well.                                     *)
Lock(t) ==
    /\ At(t, "handling")
    /\ lock[root[t]] = None
    /\ lock' = [lock EXCEPT ![root[t]] = t]
    /\ Move(t, "locked")
    /\ UNCHANGED <<request, root, answer, backend, touched, others, loop, seen>>

(* Mutant: the handler awaits under the lock and needs a worker to go on.   *)
CommitAfterAwait(t) ==
    /\ At(t, "locked") /\ FreeWorker
    /\ touched' = touched \cup {<<root[t], t>>}
    /\ lock' = [lock EXCEPT ![root[t]] = None]
    /\ AnswerWith(t, "ok")
    /\ UNCHANGED <<request, root, backend, others, loop, seen>>

(* Mutant: the binding of now is used, not the one the call began with.     *)
CommitAtBinding(t) ==
    /\ At(t, "locked")
    /\ touched' = touched \cup {<<backend, t>>}
    /\ lock' = [lock EXCEPT ![backend] = None]
    /\ AnswerWith(t, "ok")
    /\ UNCHANGED <<request, root, backend, others, loop, seen>>

Commit(t) ==
    /\ At(t, "locked")
    /\ touched' = touched \cup {<<root[t], t>>}
    /\ lock' = [lock EXCEPT ![root[t]] = None]
    /\ AnswerWith(t, "ok")
    /\ UNCHANGED <<request, root, backend, others, loop, seen>>

(* write_frame: whole frames, in the order the tasks get the stdout mutex.  *)
WriteFrame(t) ==
    /\ At(t, "answering")
    /\ Move(t, "answered")
    /\ UNCHANGED <<request, root, answer, backend, lock, touched, others, loop, seen>>

(* The host closes stdin and everything sent was read.  main returns, and   *)
(* the runtime drops every task that is not on a worker.                   *)
EndOfInput ==
    /\ loop = "reading"
    /\ \A t \in Sent : stage[t] # "sent"
    /\ loop' = "ended"
    /\ stage' = [t \in Sent |-> IF stage[t] \in {"spawned", "answering"}
                                THEN "dropped" ELSE stage[t]]
    /\ UNCHANGED <<request, root, answer, backend, lock, touched, others, seen>>

(* process::exit(0): nothing is waited for, and the locks are freed. *)
Exit(t) ==
    /\ At(t, "spawned") /\ FreeWorker
    /\ Method(t) = "exit"
    /\ loop' = "exited"
    /\ stage' = [u \in Sent |-> IF stage[u] \in {"answered", "silent"}
                                THEN stage[u] ELSE "dropped"]
    /\ lock' = [r \in Roots |-> IF lock[r] = Other THEN Other ELSE None]
    /\ UNCHANGED <<request, root, answer, backend, touched, others, seen>>

OtherLocks(r) ==
    /\ lock[r] = None
    /\ others < MaxOther
    /\ others' = others + 1
    /\ lock' = [lock EXCEPT ![r] = Other]
    /\ UNCHANGED <<request, stage, root, answer, backend, touched, loop, seen>>

OtherUnlocks(r) ==
    /\ lock[r] = Other
    /\ lock' = [lock EXCEPT ![r] = None]
    /\ UNCHANGED <<request, stage, root, answer, backend, touched, others, loop, seen>>

-----------------------------------------------------------------------------

Init ==
    /\ request = <<>> /\ stage = <<>> /\ root = <<>> /\ answer = <<>> /\ seen = <<>>
    /\ backend = None
    /\ lock = [r \in Roots |-> None]
    /\ touched = {}
    /\ others = 0
    /\ loop = "reading"

Task(t) ==
    \/ Initialize(t) \/ AnswerAtOnce(t) \/ Ignore(t) \/ RequireBackend(t)
    \/ Lock(t) \/ Commit(t) \/ WriteFrame(t) \/ Exit(t)

Next ==
    \/ Send \/ EndOfInput
    \/ \E t \in Ids : Spawn(t) \/ Task(t)
    \/ \E r \in Roots : OtherLocks(r) \/ OtherUnlocks(r)

(* The reader reads what is there, the runtime polls every task, and        *)
(* another process that took the lock is done with it some time.           *)
Fairness ==
    /\ \A t \in Ids : WF_vars(Spawn(t)) /\ WF_vars(Task(t))
    /\ \A r \in Roots : WF_vars(OtherUnlocks(r))

Spec == Init /\ [][Next]_vars /\ Fairness

-----------------------------------------------------------------------------

Binds(u) == Method(u) = "initialize" /\ request[u].accepted

(* The binding acts like an atomic register towards a host that does not    *)
(* wait for answers: a queue call works on the root of an initialize that  *)
(* was accepted and that no later one had replaced when the call was sent, *)
(* and is told not_initialized only if no accepted initialize had been     *)
(* answered by then.  A refused host therefore never reaches the files.     *)
(* A call that waits for the lock while the binding changes still writes   *)
(* the files it began with.                                                *)
BindingIsAtomic ==
    \A t \in Sent :
        /\ root[t] # None =>
              \E u \in Sent :
                  /\ Binds(u) /\ request[u].root = root[t] /\ answer[u] = "ok"
                  /\ ~ \E v \in seen[t] : Binds(v) /\ u \in seen[v]
        /\ answer[t] = "not_initialized" => ~ \E u \in seen[t] : Binds(u)
        /\ \A r \in Roots : <<r, t>> \in touched => r = root[t]

(* Every request the host sent is answered, or silently handled, unless the *)
(* process ends: no order of waiting for workers, for the lock, for stdout *)
(* and for another process leaves a task behind.                           *)
EveryRequestAnswered ==
    \A t \in Ids : At(t, "sent") ~>
        (At(t, "answered") \/ At(t, "silent") \/ loop # "reading")

=============================================================================
