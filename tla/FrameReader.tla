----------------------------- MODULE FrameReader -----------------------------
(***************************************************************************)
(* The reader of stdin in src/plugin.rs: bytes arrive in chunks that know  *)
(* nothing of frames, JSON values are peeled off the buffer, and what is   *)
(* no request is skipped up to the next newline.                           *)
(*                                                                         *)
(* A frame is two tokens, its open and its close half, on one line or, when*)
(* pretty-printed, on two.  A half that stays alone is a torn frame; "key" *)
(* is one torn where a JSON value may follow; "bad" is no JSON at all.     *)
(* Requests are named by numbers, in the order of the stream.              *)
(***************************************************************************)
EXTENDS Naturals, Sequences

CONSTANTS
    Inputs,     \* the byte streams a host may write
    ChunkSizes  \* tokens one read may return

VARIABLES
    input,    \* the whole stream
    read,     \* tokens read so far
    buffer,   \* read and not yet consumed
    waiting,  \* the inner loop has stopped: more bytes are needed
    spawned   \* the requests made into tasks, in order

vars == <<input, read, buffer, waiting, spawned>>

Newline == <<"newline", 0>>
Token == {"open", "close", "key", "bad"} \X Nat \cup {Newline}

ASSUME ReaderAssumption ==
    /\ Inputs \subseteq Seq(Token) /\ ChunkSizes \subseteq Nat \ {0}
    /\ \A s \in Inputs : \A m, n \in DOMAIN s :
          m < n /\ s[m][1] = "open" /\ s[n][1] = "open" => s[m][2] < s[n][2]

TypeOK ==
    /\ input \in Seq(Token)
    /\ read \in 0..Len(input)
    /\ buffer \in Seq(Token)
    /\ waiting \in BOOLEAN
    /\ spawned \in Seq(Nat)
    /\ \E n \in 0..read : buffer = SubSeq(input, n + 1, read)

Blank(s, m, n) == \A j \in m..n : s[j] = Newline

(* A whole request from place m of s to place k. *)
FrameAt(s, m, k) ==
    /\ m < k
    /\ s[m][1] = "open" /\ s[k] = <<"close", s[m][2]>>
    /\ Blank(s, m + 1, k - 1)

DropFirst(b, n) == SubSeq(b, n + 1, Len(b))

(* The buffer once its leading white space is dropped. *)
Leading(b) == CHOOSE n \in 0..Len(b) : Blank(b, 1, n) /\ (n < Len(b) => b[n + 1] # Newline)
Trimmed == DropFirst(buffer, Leading(buffer))

(* The deserializer has a whole request at the front. *)
WholeRequest(b) == \E k \in DOMAIN b : FrameAt(b, 1, k)

(* is_eof: what is there is the beginning of a JSON value. *)
Unfinished(b) ==
    /\ b # <<>>
    /\ \/ b[1][1] \in {"open", "key"} /\ Blank(b, 2, Len(b))
       \/ /\ b[1][1] = "key"
          /\ \E j, k \in 2..Len(b) :
                /\ Blank(b, 2, j - 1) /\ Blank(b, k + 1, Len(b))
                /\ (j = k /\ b[j][1] = "open") \/ FrameAt(b, j, k)

-----------------------------------------------------------------------------

Init ==
    /\ input \in Inputs
    /\ read = 0
    /\ buffer = <<>>
    /\ waiting = TRUE
    /\ spawned = <<>>

(* Mutant: what was left over goes behind the new bytes. *)
ReadBefore ==
    /\ waiting
    /\ \E n \in ChunkSizes :
          /\ read + n <= Len(input)
          /\ read' = read + n
          /\ buffer' = SubSeq(input, read + 1, read + n) \o buffer
    /\ waiting' = FALSE
    /\ UNCHANGED <<input, spawned>>

Read ==
    /\ waiting
    /\ \E n \in ChunkSizes :
          /\ read + n <= Len(input)
          /\ read' = read + n
          /\ buffer' = buffer \o SubSeq(input, read + 1, read + n)
    /\ waiting' = FALSE
    /\ UNCHANGED <<input, spawned>>

SpawnRequest ==
    /\ ~waiting
    /\ \E k \in DOMAIN Trimmed :
          /\ FrameAt(Trimmed, 1, k)
          /\ spawned' = Append(spawned, Trimmed[1][2])
          /\ buffer' = DropFirst(Trimmed, k)
    /\ UNCHANGED <<input, read, waiting>>

(* Nothing but white space, or a value that goes on. *)
NeedMore ==
    /\ ~waiting
    /\ Trimmed = <<>> \/ Unfinished(Trimmed)
    /\ buffer' = Trimmed
    /\ waiting' = TRUE
    /\ UNCHANGED <<input, read, spawned>>

Invalid(b) == b # <<>> /\ ~WholeRequest(b) /\ ~Unfinished(b)

(* Mutant: the buffer is cleared. *)
ClearInvalid ==
    /\ ~waiting
    /\ Invalid(Trimmed)
    /\ buffer' = <<>>
    /\ UNCHANGED <<input, read, waiting, spawned>>

(* The bytes up to the next newline are dropped; if none is in sight the    *)
(* loop waits for more.                                                    *)
SkipInvalid ==
    /\ ~waiting
    /\ Invalid(Trimmed)
    /\ \/ \E n \in DOMAIN Trimmed :
             /\ Trimmed[n] = Newline
             /\ \A m \in 1..(n - 1) : Trimmed[m] # Newline
             /\ buffer' = DropFirst(Trimmed, n)
             /\ UNCHANGED waiting
       \/ /\ \A n \in DOMAIN Trimmed : Trimmed[n] # Newline
          /\ buffer' = Trimmed
          /\ waiting' = TRUE
    /\ UNCHANGED <<input, read, spawned>>

Next == Read \/ SpawnRequest \/ NeedMore \/ SkipInvalid

Spec == Init /\ [][Next]_vars

-----------------------------------------------------------------------------

(* The requests among what was read that are whole and begin a line. *)
BeginsLine(m) == m = 1 \/ input[m - 1] = Newline

LineRequests ==
    {input[m][2] : m \in {x \in 1..read :
        BeginsLine(x) /\ \E k \in (x + 1)..read : FrameAt(input, x, k)}}

(* "Recover by discarding bytes up to the next newline so we can keep       *)
(* parsing any valid frames that arrived in the same read" and without     *)
(* dropping partial frames (plugin.rs:106-111): whatever broken or torn    *)
(* lines surround it and wherever the reads cut the stream, a request that *)
(* begins a line becomes one task, in its turn; the only thing it may have *)
(* to wait for is the end of a torn frame in front of it.                  *)
NoRequestLost ==
    /\ \A t \in LineRequests :
          \/ \E n \in DOMAIN spawned : spawned[n] = t
          \/ ~waiting /\ \E n \in DOMAIN buffer : buffer[n] = <<"open", t>>
          \/ waiting /\ buffer # <<>> /\ buffer[1][1] = "key"
    /\ \A m, n \in DOMAIN spawned : m < n => spawned[m] < spawned[n]

=============================================================================
