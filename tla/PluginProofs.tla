---------------------------- MODULE PluginProofs ----------------------------
(***************************************************************************)
(* What stands between the host and the calls: the reader of stdin, which   *)
(* loses no request and keeps their order; the version check, which serves *)
(* the right hosts and goes on serving them when they are upgraded; and    *)
(* the canonical ids, which keep a subject one however it is spelled.      *)
(***************************************************************************)
EXTENDS FrameReader, HostGuard, Identity, WellFoundedInduction, NaturalsInduction, TLAPS

-----------------------------------------------------------------------------
(* The reader of stdin. *)

LEMMA LeastNumber ==
    ASSUME NEW T \in SUBSET Nat, T # {}
    PROVE  \E x \in T : \A y \in T : x <= y
<1> DEFINE R == OpToRel(<, Nat)
<1>1. IsWellFoundedOn(R, Nat)
  BY NatLessThanWellFounded, Zenon
<1>2. \A x, y \in Nat : y < x => <<y, x>> \in R
  BY DEF OpToRel
<1> HIDE DEF R
<1>3. PICK x \in T : \A y \in T : ~ (<<y, x>> \in R)
  BY <1>1, WFMin
<1>4. x \in Nat /\ \A y \in T : y \in Nat /\ ~ (y < x)
  BY <1>2, <1>3
<1> QED BY <1>4

LEMMA LeadingIs ==
    ASSUME NEW b \in Seq(Token)
    PROVE  /\ Leading(b) \in 0..Len(b) /\ Blank(b, 1, Leading(b))
           /\ Leading(b) < Len(b) => b[Leading(b) + 1] # Newline
<1> DEFINE ink == {m \in 1..Len(b) : b[m] # Newline}
<1>1. Len(b) \in Nat
  OBVIOUS
<1>2. \E n \in 0..Len(b) : Blank(b, 1, n) /\ (n < Len(b) => b[n + 1] # Newline)
  <2>1. CASE ink = {}
    <3>1. Blank(b, 1, Len(b))
      BY <2>1 DEF Blank
    <3> QED BY <1>1, <3>1
  <2>2. CASE ink # {}
    <3>1. ink \in SUBSET Nat
      BY <1>1
    <3>2. PICK m \in ink : \A y \in ink : m <= y
      BY <2>2, <3>1, LeastNumber
    <3>3. m \in 1..Len(b) /\ b[m] # Newline /\ \A y \in 1..(m - 1) : y \notin ink
      BY <1>1, <3>2
    <3> DEFINE n == m - 1
    <3>4. n \in 0..Len(b) /\ n + 1 = m
      BY <1>1, <3>3
    <3>5. \A y \in 1..n : b[y] = Newline
      BY <1>1, <3>3
    <3> HIDE DEF n
    <3> QED BY <3>3, <3>4, <3>5 DEF Blank
  <2> QED BY <2>1, <2>2
<1> QED BY <1>2 DEF Leading

LEMMA DropFirstIs ==
    ASSUME NEW b \in Seq(Token), NEW n \in 0..Len(b)
    PROVE  /\ DropFirst(b, n) \in Seq(Token) /\ Len(DropFirst(b, n)) = Len(b) - n
           /\ \A j \in 1..(Len(b) - n) : DropFirst(b, n)[j] = b[n + j]
BY DEF DropFirst

(* How much of the stream is consumed, and what may be there. *)
Done == read - Len(buffer)

RequestAt(x, end) == BeginsLine(x) /\ \E k \in (x + 1)..end : FrameAt(input, x, k)

(* The buffer is what was read and not consumed. *)
BufferInv ==
    /\ input \in Inputs /\ read \in 0..Len(input) /\ waiting \in BOOLEAN
    /\ buffer \in Seq(Token) /\ Len(buffer) <= read
    /\ \A j \in 1..Len(buffer) : buffer[j] = input[Done + j]

(* No request that begins a line is passed over, even if its end is still   *)
(* to come.                                                                *)
Handled ==
    \A x \in 1..Done : RequestAt(x, Len(input)) => \E n \in DOMAIN spawned : spawned[n] = input[x][2]

(* What waits for more bytes is no whole request. *)
Waits ==
    waiting /\ buffer # <<>> /\ buffer[1][1] # "key"
        => \A x \in (Done + 1)..read : ~RequestAt(x, read)

InTurn ==
    /\ spawned \in Seq(Nat)
    /\ \A m, n \in DOMAIN spawned : m < n => spawned[m] < spawned[n]
    /\ \A n \in DOMAIN spawned, x \in (Done + 1)..Len(input) :
          input[x][1] = "open" => spawned[n] < input[x][2]

ReaderInv == BufferInv /\ Handled /\ Waits /\ InTurn

LEMMA Text ==
    ASSUME BufferInv
    PROVE  /\ input \in Seq(Token) /\ Len(input) \in Nat /\ DOMAIN input = 1..Len(input)
           /\ Len(buffer) \in Nat /\ DOMAIN buffer = 1..Len(buffer)
           /\ read \in Nat /\ Done \in 0..read /\ read <= Len(input)
BY ReaderAssumption DEF BufferInv, Done

(* The buffer without its leading white space, and where it begins. *)
LEMMA TrimmedIs ==
    ASSUME BufferInv
    PROVE  LET e == read - Len(Trimmed) IN
           /\ Trimmed \in Seq(Token) /\ Len(Trimmed) \in Nat /\ DOMAIN Trimmed = 1..Len(Trimmed)
           /\ e \in Done..read
           /\ \A j \in 1..Len(Trimmed) : Trimmed[j] = input[e + j]
           /\ \A x \in (Done + 1)..e : input[x] = Newline
<1> DEFINE l == Leading(buffer)
           t == Trimmed
<1>1. buffer \in Seq(Token) /\ Len(buffer) \in Nat /\ Len(buffer) <= read /\ read \in Nat
  BY Text DEF BufferInv
<1>2. l \in 0..Len(buffer) /\ \A j \in 1..l : buffer[j] = Newline
  BY <1>1, LeadingIs DEF Blank
<1> HIDE DEF l
<1>3. /\ t \in Seq(Token) /\ Len(t) = Len(buffer) - l
      /\ \A j \in 1..(Len(buffer) - l) : t[j] = buffer[l + j]
  BY <1>1, <1>2, DropFirstIs DEF Trimmed, l
<1> HIDE DEF t
<1>4. DOMAIN t = 1..Len(t) /\ Len(t) \in Nat
  BY <1>3
<1>5. read - Len(t) = Done + l /\ Done \in Nat
  BY <1>1, <1>2, <1>3 DEF Done
<1>6. \A j \in 1..Len(t) : t[j] = input[(Done + l) + j]
  <2>1. \A j \in 1..Len(t) : l + j \in 1..Len(buffer) /\ Done + (l + j) = (Done + l) + j
    BY <1>1, <1>2, <1>3, <1>4, <1>5
  <2> QED BY <1>3, <2>1 DEF BufferInv
<1>7. \A x \in (Done + 1)..(Done + l) : input[x] = Newline
  <2>1. ASSUME NEW x \in (Done + 1)..(Done + l)
        PROVE  input[x] = Newline
    <3> DEFINE j == x - Done
    <3>1. j \in 1..l /\ j \in 1..Len(buffer) /\ Done + j = x
      BY <1>1, <1>2, <1>5
    <3> HIDE DEF j
    <3> QED BY <1>2, <3>1 DEF BufferInv
  <2> QED BY <2>1
<1>8. Done + l \in Done..read
  BY <1>1, <1>2, <1>3, <1>5
<1> QED BY <1>3, <1>4, <1>5, <1>6, <1>7, <1>8 DEF t

(* A request in the buffer is one in the stream. *)
LEMMA FramesInText ==
    ASSUME BufferInv, NEW i \in 1..Len(Trimmed), NEW k \in 1..Len(Trimmed)
    PROVE  LET e == read - Len(Trimmed) IN
           FrameAt(Trimmed, i, k) <=> FrameAt(input, e + i, e + k)
<1> DEFINE t == Trimmed
           e == read - Len(t)
<1>1. Len(t) \in Nat /\ e \in Nat /\ \A j \in 1..Len(t) : t[j] = input[e + j]
  BY TrimmedIs, Text
<1>2. i \in 1..Len(t) /\ k \in 1..Len(t)
  OBVIOUS
<1> HIDE DEF t, e
<1>3. t[i] = input[e + i] /\ t[k] = input[e + k] /\ (i < k <=> e + i < e + k)
  BY <1>1, <1>2
<1>4. Blank(t, i + 1, k - 1) <=> Blank(input, (e + i) + 1, (e + k) - 1)
  <2>1. ASSUME Blank(t, i + 1, k - 1), NEW y \in ((e + i) + 1)..((e + k) - 1)
        PROVE  input[y] = Newline
    <3> DEFINE j == y - e
    <3>1. j \in (i + 1)..(k - 1) /\ j \in 1..Len(t) /\ e + j = y
      BY <1>1, <1>2
    <3> HIDE DEF j
    <3> QED BY <1>1, <2>1, <3>1 DEF Blank
  <2>2. ASSUME Blank(input, (e + i) + 1, (e + k) - 1), NEW j \in (i + 1)..(k - 1)
        PROVE  t[j] = Newline
    <3>1. e + j \in ((e + i) + 1)..((e + k) - 1) /\ j \in 1..Len(t)
      BY <1>1, <1>2
    <3> QED BY <1>1, <2>2, <3>1 DEF Blank
  <2> QED BY <2>1, <2>2 DEF Blank
<1> QED BY <1>3, <1>4 DEF FrameAt, t, e

(* Part of the buffer is consumed: what it holds of the stream moves on.     *)
LEMMA Consume ==
    ASSUME BufferInv, UNCHANGED <<input, read>>, waiting' \in BOOLEAN,
           NEW n \in 0..Len(Trimmed), buffer' = DropFirst(Trimmed, n)
    PROVE  /\ BufferInv' /\ Done' = (read - Len(Trimmed)) + n
           /\ Done' \in Done..read /\ Len(buffer') = Len(Trimmed) - n
<1> DEFINE t == Trimmed
           e == read - Len(t)
<1>1. /\ t \in Seq(Token) /\ Len(t) \in Nat /\ e \in Done..read /\ read \in Nat /\ Done \in Nat
      /\ \A j \in 1..Len(t) : t[j] = input[e + j]
  BY TrimmedIs, Text
<1>2. n \in 0..Len(t) /\ buffer' = DropFirst(t, n) /\ e = read - Len(t)
  OBVIOUS
<1> HIDE DEF t, e
<1>3. /\ buffer' \in Seq(Token) /\ Len(buffer') = Len(t) - n
      /\ \A j \in 1..(Len(t) - n) : buffer'[j] = t[n + j]
  BY <1>1, <1>2, DropFirstIs
<1>4. Done' = e + n
  BY <1>1, <1>2, <1>3 DEF Done
<1>5. \A j \in 1..Len(buffer') : buffer'[j] = input[(e + n) + j]
  <2>1. \A j \in 1..Len(buffer') : n + j \in 1..Len(t) /\ e + (n + j) = (e + n) + j
    BY <1>1, <1>2, <1>3
  <2> QED BY <1>1, <1>3, <2>1
<1>6. Len(buffer') <= read
  BY <1>1, <1>2, <1>3
<1>7. BufferInv'
  BY <1>3, <1>4, <1>5, <1>6 DEF BufferInv
<1>8. Done' \in Done..read
  BY <1>1, <1>2, <1>4
<1> QED BY <1>3, <1>4, <1>7, <1>8 DEF t, e

(* Nothing is passed over if no request begins in what is consumed. *)
LEMMA PassOver ==
    ASSUME ReaderInv, BufferInv', UNCHANGED <<input, read, spawned>>, Done' \in Done..read,
           \A x \in (Done + 1)..Done' : ~RequestAt(x, Len(input)), Waits'
    PROVE  ReaderInv'
<1>1. /\ Done \in Nat /\ Done' \in Nat /\ read \in Nat /\ Len(input) \in Nat
      /\ Done <= Done'
  <2>1. BufferInv
    BY DEF ReaderInv
  <2> QED BY <2>1, Text
<1>2. \A x, end : RequestAt(x, end)' <=> RequestAt(x, end)
  BY DEF RequestAt, BeginsLine, FrameAt, Blank
<1>3. Handled'
  <2>1. ASSUME NEW x \in 1..Done', RequestAt(x, Len(input))
        PROVE  \E n \in DOMAIN spawned : spawned[n] = input[x][2]
    <3>1. x \in 1..Done
      BY <1>1, <2>1
    <3> QED BY <2>1, <3>1 DEF ReaderInv, Handled
  <2> QED BY <1>2, <2>1 DEF Handled
<1>4. InTurn'
  <2>1. \A a, b, c \in Nat : a <= b => (b + 1)..c \subseteq (a + 1)..c
    OBVIOUS
  <2>2. (Done' + 1)..Len(input) \subseteq (Done + 1)..Len(input)
    BY <1>1, <2>1
  <2> QED BY <2>2 DEF ReaderInv, InTurn
<1> QED BY <1>3, <1>4 DEF ReaderInv

(* What is at the front of the buffer, while it is looked at.                *)
LEMMA OnlyTheFirst ==
    ASSUME BufferInv, NEW x \in (Done + 1)..read, NEW end, RequestAt(x, end)
    PROVE  LET e == read - Len(Trimmed) IN
           /\ x \in (e + 1)..read
           /\ x - e \in 1..Len(Trimmed)
           /\ Trimmed[x - e] = input[x] /\ input[x][1] = "open" /\ input[x] # Newline
           /\ x > e + 1 => Trimmed[x - e - 1] = Newline
<1> DEFINE t == Trimmed
           e == read - Len(t)
<1>1. /\ Len(t) \in Nat /\ e \in Done..read /\ read \in Nat /\ Done \in Nat
      /\ \A j \in 1..Len(t) : t[j] = input[e + j]
      /\ \A y \in (Done + 1)..e : input[y] = Newline
      /\ e + Len(t) = read
  BY TrimmedIs, Text
<1> HIDE DEF t, e
<1>2. input[x][1] = "open"
  BY DEF RequestAt, FrameAt
<1>3. input[x] # Newline
  BY <1>2 DEF Newline
<1>4. x \in (e + 1)..read
  BY <1>1, <1>3
<1>5. x - e \in 1..Len(t) /\ t[x - e] = input[x]
  <2> DEFINE j == x - e
  <2>1. j \in 1..Len(t) /\ e + j = x
    BY <1>1, <1>4
  <2> HIDE DEF j
  <2>2. t[j] = input[x]
    BY <1>1, <2>1
  <2> QED BY <2>1, <2>2 DEF j
<1>6. ASSUME x > e + 1
      PROVE  t[x - e - 1] = Newline
  <2>1. input[x - 1] = Newline
    BY <1>1, <1>6 DEF RequestAt, BeginsLine
  <2> DEFINE j == x - e - 1
  <2>2. j \in 1..Len(t) /\ e + j = x - 1
    BY <1>1, <1>4, <1>6
  <2> HIDE DEF j
  <2>3. t[j] = Newline
    BY <1>1, <2>1, <2>2
  <2> QED BY <2>3 DEF j
<1> QED BY <1>2, <1>3, <1>4, <1>5, <1>6 DEF t, e

(* A request that begins the buffer is whole or goes on. *)
LEMMA FirstIsNotInvalid ==
    ASSUME BufferInv, Trimmed # <<>>, RequestAt((read - Len(Trimmed)) + 1, Len(input))
    PROVE  \/ WholeRequest(Trimmed)
           \/ /\ Trimmed[1][1] = "open" /\ Blank(Trimmed, 2, Len(Trimmed))
              /\ Unfinished(Trimmed)
<1> DEFINE t == Trimmed
           e == read - Len(t)
<1>1. /\ Len(t) \in Nat /\ DOMAIN t = 1..Len(t) /\ e \in Nat /\ read \in Nat /\ Len(input) \in Nat
      /\ \A j \in 1..Len(t) : t[j] = input[e + j]
      /\ e + Len(t) = read /\ t # <<>> /\ t \in Seq(Token)
  BY TrimmedIs, Text
<1>2. 1 \in 1..Len(t)
  BY <1>1
<1>3. PICK k \in (e + 2)..Len(input) : FrameAt(input, e + 1, k)
  <2>1. \E k \in ((e + 1) + 1)..Len(input) : FrameAt(input, e + 1, k)
    BY DEF RequestAt
  <2>2. (e + 1) + 1 = e + 2
    BY <1>1
  <2> QED BY <2>1, <2>2
<1>4. CASE k <= read
  <2> DEFINE j == k - e
  <2>1. j \in 1..Len(t) /\ e + j = k
    BY <1>1, <1>3, <1>4
  <2>2. FrameAt(t, 1, j) <=> FrameAt(input, e + 1, e + j)
    <3> HIDE DEF j
    <3> QED BY <1>2, <2>1, FramesInText
  <2> HIDE DEF j, t, e
  <2>3. FrameAt(t, 1, j) /\ j \in DOMAIN t
    BY <1>1, <1>3, <2>1, <2>2
  <2>4. WholeRequest(t)
    BY <2>3 DEF WholeRequest
  <2> QED BY <2>4 DEF t
<1>5. CASE k > read
  <2> HIDE DEF t, e
  <2>1. t[1] = input[e + 1] /\ input[e + 1][1] = "open"
    BY <1>1, <1>2, <1>3 DEF FrameAt
  <2>2. \A y \in (e + 2)..(k - 1) : input[y] = Newline
    <3>1. Blank(input, (e + 1) + 1, k - 1) /\ (e + 1) + 1 = e + 2
      BY <1>1, <1>3 DEF FrameAt
    <3> QED BY <3>1 DEF Blank
  <2>3. \A j \in 2..Len(t) : j \in 1..Len(t) /\ e + j \in (e + 2)..(k - 1)
    BY <1>1, <1>3, <1>5
  <2>4. Blank(t, 2, Len(t))
    BY <1>1, <2>2, <2>3 DEF Blank
  <2>5. Unfinished(t)
    BY <1>1, <2>1, <2>4 DEF Unfinished
  <2> QED BY <2>1, <2>4, <2>5 DEF t
<1>6. k \in Nat
  BY <1>1, <1>3
<1> QED BY <1>1, <1>4, <1>5, <1>6

LEMMA PartIs ==
    ASSUME NEW s \in Seq(Token), NEW a \in Nat, NEW n \in Nat, a + n <= Len(s)
    PROVE  /\ SubSeq(s, a + 1, a + n) \in Seq(Token) /\ Len(SubSeq(s, a + 1, a + n)) = n
           /\ \A j \in 1..n : SubSeq(s, a + 1, a + n)[j] = s[a + j]
<1>1. \A j \in (a + 1)..(a + n) : j \in 1..Len(s)
  OBVIOUS
<1>2. SubSeq(s, a + 1, a + n) = [j \in 1..n |-> s[a + j]]
  BY <1>1
<1>3. \A j \in 1..n : s[a + j] \in Token
  BY <1>1
<1>4. [j \in 1..n |-> s[a + j]] \in Seq(Token) /\ Len([j \in 1..n |-> s[a + j]]) = n
  BY <1>3
<1> QED BY <1>2, <1>4

LEMMA JoinIs ==
    ASSUME NEW b \in Seq(Token), NEW c \in Seq(Token)
    PROVE  /\ b \o c \in Seq(Token) /\ Len(b \o c) = Len(b) + Len(c)
           /\ \A j \in 1..Len(b) : (b \o c)[j] = b[j]
           /\ \A j \in (Len(b) + 1)..(Len(b) + Len(c)) : (b \o c)[j] = c[j - Len(b)]
<1>1. b \o c \in Seq(Token)
  OBVIOUS
<1>2. Len(b \o c) = Len(b) + Len(c)
  OBVIOUS
<1>3. \A j \in 1..Len(b) : (b \o c)[j] = b[j]
  OBVIOUS
<1>4. \A j \in (Len(b) + 1)..(Len(b) + Len(c)) : (b \o c)[j] = c[j - Len(b)]
  OBVIOUS
<1> QED BY <1>1, <1>2, <1>3, <1>4

LEMMA ReadKeeps ==
    ASSUME ReaderInv, Read
    PROVE  ReaderInv'
<1>1. PICK n \in ChunkSizes :
        /\ read + n <= Len(input) /\ read' = read + n
        /\ buffer' = buffer \o SubSeq(input, read + 1, read + n)
  BY DEF Read
<1>2. UNCHANGED <<input, spawned>> /\ waiting' = FALSE
  BY DEF Read
<1>3. /\ n \in Nat /\ read \in Nat /\ Len(input) \in Nat /\ input \in Seq(Token)
      /\ buffer \in Seq(Token) /\ Len(buffer) \in Nat /\ Len(buffer) <= read /\ Done \in Nat
  BY ReaderAssumption, Text DEF ReaderInv, BufferInv
<1> DEFINE c == SubSeq(input, read + 1, read + n)
<1>4. c \in Seq(Token) /\ Len(c) = n /\ \A j \in 1..n : c[j] = input[read + j]
  BY <1>1, <1>3, PartIs
<1> HIDE DEF c
<1>5. /\ buffer' \in Seq(Token) /\ Len(buffer') = Len(buffer) + n
      /\ \A j \in 1..Len(buffer) : buffer'[j] = buffer[j]
      /\ \A j \in (Len(buffer) + 1)..(Len(buffer) + n) : buffer'[j] = c[j - Len(buffer)]
  <2>1. buffer' = buffer \o c
    BY <1>1 DEF c
  <2> DEFINE b == buffer \o c
  <2>2. /\ b \in Seq(Token) /\ Len(b) = Len(buffer) + n
        /\ \A j \in 1..Len(buffer) : b[j] = buffer[j]
        /\ \A j \in (Len(buffer) + 1)..(Len(buffer) + n) : b[j] = c[j - Len(buffer)]
    BY <1>3, <1>4, JoinIs
  <2> HIDE DEF b
  <2>3. buffer' = b
    BY <2>1 DEF b
  <2> QED BY <2>2, <2>3
<1>6. Done' = Done /\ Done + Len(buffer) = read
  BY <1>1, <1>3, <1>5 DEF Done
<1>7. BufferInv'
  <2>1. ASSUME NEW j \in 1..Len(buffer')
        PROVE  buffer'[j] = input[Done + j]
    <3>1. CASE j <= Len(buffer)
      <4>1. j \in 1..Len(buffer)
        BY <1>3, <2>1, <3>1
      <4> QED BY <1>5, <4>1 DEF ReaderInv, BufferInv
    <3>2. CASE j > Len(buffer)
      <4> DEFINE i == j - Len(buffer)
      <4>1. i \in 1..n /\ read + i = Done + j /\ j \in (Len(buffer) + 1)..(Len(buffer) + n)
        <5>1. j \in Nat /\ j <= Len(buffer) + n /\ Len(buffer) + i = j
          BY <1>3, <1>5, <2>1
        <5>2. i \in 1..n /\ j \in (Len(buffer) + 1)..(Len(buffer) + n)
          BY <1>3, <3>2, <5>1
        <5> HIDE DEF i
        <5>3. read + i = Done + j
          BY <1>3, <1>6, <5>1, <5>2
        <5> QED BY <5>2, <5>3
      <4>2. buffer'[j] = c[i]
        BY <1>5, <4>1
      <4> HIDE DEF i
      <4> QED BY <1>4, <4>1, <4>2
    <3> QED BY <1>3, <1>5, <2>1, <3>1, <3>2
  <2>2. read' \in 0..Len(input) /\ Len(buffer') <= read'
    BY <1>1, <1>3, <1>5
  <2> QED BY <1>2, <1>5, <1>6, <2>1, <2>2 DEF ReaderInv, BufferInv
<1>8. \A x, end : RequestAt(x, end)' <=> RequestAt(x, end)
  BY <1>2 DEF RequestAt, BeginsLine, FrameAt, Blank
<1>9. Handled'
  BY <1>2, <1>6, <1>8 DEF ReaderInv, Handled
<1>10. InTurn'
  BY <1>2, <1>6 DEF ReaderInv, InTurn
<1>11. Waits'
  BY <1>2 DEF Waits
<1> QED BY <1>7, <1>9, <1>10, <1>11 DEF ReaderInv

LEMMA NeedMoreKeeps ==
    ASSUME ReaderInv, NeedMore
    PROVE  ReaderInv'
<1> DEFINE t == Trimmed
           e == read - Len(t)
<1>1. /\ t = <<>> \/ Unfinished(t)
      /\ buffer' = t /\ waiting' = TRUE /\ UNCHANGED <<input, read, spawned>>
  BY DEF NeedMore
<1>2. BufferInv
  BY DEF ReaderInv
<1>3. /\ t \in Seq(Token) /\ Len(t) \in Nat /\ DOMAIN t = 1..Len(t) /\ e \in Done..read
      /\ read \in Nat /\ Done \in Nat
      /\ \A j \in 1..Len(t) : t[j] = input[e + j]
  BY <1>2, TrimmedIs, Text
<1>4. t = DropFirst(t, 0) /\ 0 \in 0..Len(t)
  BY <1>3 DEF DropFirst
<1>5. BufferInv' /\ Done' = e /\ Done' \in Done..read
  <2>1. BufferInv' /\ Done' = e + 0 /\ Done' \in Done..read
    BY <1>1, <1>2, <1>4, Consume
  <2> QED BY <1>3, <2>1
<1>6. \A x \in (Done + 1)..Done' : ~RequestAt(x, Len(input))
  <2>1. ASSUME NEW x \in (Done + 1)..Done', RequestAt(x, Len(input))
        PROVE  FALSE
    <3>1. x \in (Done + 1)..read
      BY <1>3, <1>5, <2>1
    <3>2. x \in (e + 1)..read
      BY <1>2, <2>1, <3>1, OnlyTheFirst
    <3> QED BY <1>3, <1>5, <2>1, <3>2
  <2> QED BY <2>1
<1>7. Waits'
  <2> SUFFICES ASSUME t # <<>>, t[1][1] # "key", NEW x \in (e + 1)..read, RequestAt(x, read)
               PROVE  FALSE
    <3>1. \A x, end : RequestAt(x, end)' <=> RequestAt(x, end)
      BY <1>1 DEF RequestAt, BeginsLine, FrameAt, Blank
    <3> QED BY <1>1, <1>5, <3>1 DEF Waits
  <2>1. x \in (Done + 1)..read
    BY <1>3
  <2>2. /\ x - e \in 1..Len(t) /\ t[x - e] = input[x] /\ input[x] # Newline
        /\ input[x][1] = "open"
    BY <1>2, <2>1, OnlyTheFirst
  <2>3. Blank(t, 2, Len(t))
    BY <1>1 DEF Unfinished
  <2>4. x = e + 1
    <3>1. x - e \notin 2..Len(t)
      BY <2>2, <2>3 DEF Blank
    <3> QED BY <1>3, <2>2, <3>1
  <2>5. PICK k \in (x + 1)..read : FrameAt(input, x, k)
    BY DEF RequestAt
  <2> DEFINE j == k - e
  <2>6. j \in 2..Len(t) /\ j \in 1..Len(t) /\ e + j = k
    BY <1>3, <2>4, <2>5
  <2> HIDE DEF j
  <2>7. t[j] = input[k]
    BY <1>3, <2>6
  <2>8. t[j] = Newline
    BY <2>3, <2>6 DEF Blank
  <2> QED BY <2>5, <2>7, <2>8 DEF FrameAt, Newline
<1> QED BY <1>1, <1>5, <1>6, <1>7, PassOver

LEMMA SkipInvalidKeeps ==
    ASSUME ReaderInv, SkipInvalid
    PROVE  ReaderInv'
<1> DEFINE t == Trimmed
           e == read - Len(t)
<1>1. Invalid(t) /\ ~waiting /\ UNCHANGED <<input, read, spawned>>
  BY DEF SkipInvalid
<1>2. BufferInv
  BY DEF ReaderInv
<1>3. /\ t \in Seq(Token) /\ Len(t) \in Nat /\ DOMAIN t = 1..Len(t) /\ e \in Done..read
      /\ read \in Nat /\ Done \in Nat /\ Len(input) \in Nat
  BY <1>2, TrimmedIs, Text
<1>4. t # <<>> /\ ~WholeRequest(t) /\ ~Unfinished(t)
  BY <1>1 DEF Invalid
<1>5. ~RequestAt(e + 1, Len(input))
  BY <1>2, <1>4, FirstIsNotInvalid
<1>6. ASSUME NEW n \in DOMAIN t, \A m \in 1..(n - 1) : t[m] # Newline,
             NEW x \in (Done + 1)..(e + n), NEW end, RequestAt(x, end)
      PROVE  x = e + 1
  <2>1. x \in (Done + 1)..read
    BY <1>3, <1>6
  <2>2. /\ x \in (e + 1)..read
        /\ x > e + 1 => t[x - e - 1] = Newline
    BY <1>2, <1>6, <2>1, OnlyTheFirst
  <2>3. x > e + 1 => x - e - 1 \in 1..(n - 1)
    BY <1>3, <1>6
  <2> QED BY <1>3, <1>6, <2>2, <2>3
<1>7. CASE \E n \in DOMAIN t :
             /\ t[n] = Newline /\ \A m \in 1..(n - 1) : t[m] # Newline
             /\ buffer' = DropFirst(t, n) /\ UNCHANGED waiting
  <2>1. PICK n \in DOMAIN t :
             /\ \A m \in 1..(n - 1) : t[m] # Newline
             /\ buffer' = DropFirst(t, n) /\ UNCHANGED waiting
    BY <1>7
  <2>2. n \in 0..Len(t)
    BY <1>3
  <2>3. waiting' \in BOOLEAN
    BY <1>2, <2>1 DEF BufferInv
  <2>4. BufferInv' /\ Done' = e + n /\ Done' \in Done..read
    BY <1>1, <1>2, <2>1, <2>2, <2>3, Consume
  <2>5. \A x \in (Done + 1)..Done' : ~RequestAt(x, Len(input))
    BY <1>5, <1>6, <2>1, <2>4
  <2>6. Waits'
    BY <1>1, <2>1 DEF Waits
  <2> QED BY <1>1, <2>4, <2>5, <2>6, PassOver
<1>8. CASE buffer' = t /\ waiting' = TRUE /\ \A n \in DOMAIN t : t[n] # Newline
  <2>1. t = DropFirst(t, 0) /\ 0 \in 0..Len(t)
    BY <1>3 DEF DropFirst
  <2>2. BufferInv' /\ Done' = e /\ Done' \in Done..read
    <3>1. BufferInv' /\ Done' = e + 0 /\ Done' \in Done..read
      BY <1>1, <1>2, <1>8, <2>1, Consume
    <3> QED BY <1>3, <3>1
  <2>3. \A x \in (Done + 1)..Done' : ~RequestAt(x, Len(input))
    <3>1. ASSUME NEW x \in (Done + 1)..Done', RequestAt(x, Len(input))
          PROVE  FALSE
      <4>1. x \in (Done + 1)..read
        BY <1>3, <2>2, <3>1
      <4>2. x \in (e + 1)..read
        BY <1>2, <3>1, <4>1, OnlyTheFirst
      <4> QED BY <1>3, <2>2, <3>1, <4>2
    <3> QED BY <3>1
  <2>4. Waits'
    <3>1. \A x, end : RequestAt(x, end)' <=> RequestAt(x, end)
      BY <1>1 DEF RequestAt, BeginsLine, FrameAt, Blank
    <3>2. ASSUME NEW x \in (e + 1)..read, RequestAt(x, read)
          PROVE  FALSE
      <4>1. Len(t) \in DOMAIN t /\ e + Len(t) = read
        BY <1>3, <1>4
      <4>2. x \in (Done + 1)..(e + Len(t))
        BY <1>3, <3>2, <4>1
      <4>3. \A m \in 1..(Len(t) - 1) : t[m] # Newline
        BY <1>3, <1>8
      <4>4. x = e + 1
        BY <1>6, <3>2, <4>1, <4>2, <4>3
      <4>5. RequestAt(x, Len(input))
        <5>1. PICK k \in (x + 1)..read : FrameAt(input, x, k)
          BY <3>2 DEF RequestAt
        <5>2. k \in (x + 1)..Len(input)
          BY <1>2, <1>3, <5>1, Text
        <5> QED BY <3>2, <5>1, <5>2 DEF RequestAt
      <4> QED BY <1>5, <4>4, <4>5
    <3> QED BY <1>1, <2>2, <3>1, <3>2 DEF Waits
  <2> QED BY <1>1, <2>2, <2>3, <2>4, PassOver
<1> QED BY <1>3, <1>7, <1>8 DEF SkipInvalid

LEMMA SpawnKeeps ==
    ASSUME ReaderInv, SpawnRequest
    PROVE  ReaderInv'
<1> DEFINE t == Trimmed
           e == read - Len(t)
<1>1. PICK k \in DOMAIN t : /\ FrameAt(t, 1, k) /\ spawned' = Append(spawned, t[1][2])
                            /\ buffer' = DropFirst(t, k)
  BY DEF SpawnRequest
<1>2. ~waiting /\ UNCHANGED <<input, read, waiting>>
  BY DEF SpawnRequest
<1>3. BufferInv /\ InTurn
  BY DEF ReaderInv
<1>4. /\ Len(t) \in Nat /\ DOMAIN t = 1..Len(t) /\ e \in Done..read
      /\ read \in Nat /\ Done \in Nat /\ Len(input) \in Nat /\ read <= Len(input)
      /\ \A j \in 1..Len(t) : t[j] = input[e + j]
      /\ \A x \in (Done + 1)..e : input[x] = Newline
      /\ e + Len(t) = read
  BY <1>3, TrimmedIs, Text
<1>5. k \in 1..Len(t) /\ k \in 0..Len(t) /\ 1 \in 1..Len(t)
  BY <1>4
<1>6. FrameAt(input, e + 1, e + k)
  BY <1>1, <1>3, <1>5, FramesInText
<1>7. BufferInv' /\ Done' = e + k /\ Done' \in Done..read
  <2>1. waiting' \in BOOLEAN
    BY <1>2, <1>3 DEF BufferInv
  <2> QED BY <1>1, <1>2, <1>3, <1>5, <2>1, Consume
<1> HIDE DEF t, e
<1>8. t[1] = input[e + 1] /\ input[e + 1][1] = "open" /\ e + 1 \in 1..Len(input)
  BY <1>4, <1>5, <1>6 DEF FrameAt
<1>9. input[e + k][1] # "open" /\ Newline[1] # "open"
  BY <1>6 DEF FrameAt, Newline
<1>10. \A x \in (Done + 1)..(e + k) : input[x][1] = "open" => x = e + 1
  <2>1. \A y \in (e + 2)..(e + k - 1) : input[y] = Newline
    <3>1. Blank(input, (e + 1) + 1, (e + k) - 1) /\ (e + 1) + 1 = e + 2
      BY <1>4, <1>6 DEF FrameAt
    <3>2. \A y \in ((e + 1) + 1)..((e + k) - 1) : input[y] = Newline
      BY <3>1 DEF Blank
    <3>3. (e + k) - 1 = e + k - 1 /\ (e + 1) + 1 = e + 2
      BY <1>4, <1>5
    <3> QED BY <3>2, <3>3
  <2> SUFFICES ASSUME NEW x \in (Done + 1)..(e + k), input[x][1] = "open"
               PROVE  x = e + 1
    OBVIOUS
  <2>2. x \notin (Done + 1)..e /\ x \notin (e + 2)..(e + k - 1) /\ x # e + k
    BY <1>4, <1>9, <2>1
  <2> QED BY <1>4, <1>5, <2>2
<1>11. spawned \in Seq(Nat) /\ t[1][2] \in Nat
  <2>1. input[e + 1] \in Token
    BY <1>3, <1>8, Text
  <2>2. input[e + 1][2] \in Nat
    BY <1>8, <1>9, <2>1 DEF Token
  <2> QED BY <1>3, <1>8, <2>2 DEF InTurn
<1> DEFINE c == t[1][2]
<1>12. /\ spawned' \in Seq(Nat) /\ DOMAIN spawned' = 1..(Len(spawned) + 1)
       /\ DOMAIN spawned = 1..Len(spawned) /\ Len(spawned) \in Nat
       /\ \A n \in 1..Len(spawned) : spawned'[n] = spawned[n]
       /\ spawned'[Len(spawned) + 1] = c
  BY <1>1, <1>11
<1>13. c = input[e + 1][2]
  BY <1>8
<1> HIDE DEF c
<1>14. \A x, end : RequestAt(x, end)' <=> RequestAt(x, end)
  BY <1>2 DEF RequestAt, BeginsLine, FrameAt, Blank
<1>15. Handled'
  <2>1. ASSUME NEW x \in 1..Done', RequestAt(x, Len(input))
        PROVE  \E n \in DOMAIN spawned' : spawned'[n] = input[x][2]
    <3>1. CASE x \in 1..Done
      <4>1. PICK n \in DOMAIN spawned : spawned[n] = input[x][2]
        BY <2>1, <3>1 DEF ReaderInv, Handled
      <4>2. n \in DOMAIN spawned' /\ spawned'[n] = spawned[n]
        BY <1>12
      <4> QED BY <4>1, <4>2
    <3>2. CASE x \notin 1..Done
      <4>1. x \in (Done + 1)..(e + k)
        BY <1>4, <1>7, <3>2
      <4>2. x = e + 1
        BY <1>10, <2>1, <4>1 DEF RequestAt, FrameAt
      <4>3. Len(spawned) + 1 \in DOMAIN spawned'
        BY <1>12
      <4> QED BY <1>12, <1>13, <4>2, <4>3
    <3> QED BY <3>1, <3>2
  <2> QED BY <1>2, <1>14, <2>1 DEF Handled
<1>16. InTurn'
  <2>1. \A n \in 1..Len(spawned) : spawned[n] < c
    <3>1. e + 1 \in (Done + 1)..Len(input)
      BY <1>4, <1>8
    <3> QED BY <1>3, <1>8, <1>12, <1>13, <3>1 DEF InTurn
  <2>2. ASSUME NEW m \in DOMAIN spawned', NEW n \in DOMAIN spawned', m < n
        PROVE  spawned'[m] < spawned'[n]
    <3>1. CASE n = Len(spawned) + 1
      <4>1. m \in 1..Len(spawned)
        BY <1>12, <2>2, <3>1
      <4> QED BY <1>12, <2>1, <3>1, <4>1
    <3>2. CASE n # Len(spawned) + 1
      <4>1. m \in DOMAIN spawned /\ n \in DOMAIN spawned
        BY <1>12, <2>2, <3>2
      <4> QED BY <1>3, <1>12, <2>2, <4>1 DEF InTurn
    <3> QED BY <3>1, <3>2
  <2>3. ASSUME NEW n \in DOMAIN spawned', NEW x \in (Done' + 1)..Len(input), input[x][1] = "open"
        PROVE  spawned'[n] < input[x][2]
    <3>1. x \in (Done + 1)..Len(input) /\ e + 1 < x /\ x \in 1..Len(input)
      BY <1>4, <1>5, <1>7, <2>3
    <3>2. CASE n = Len(spawned) + 1
      <4>1. input \in Inputs /\ DOMAIN input = 1..Len(input)
        BY <1>3, Text DEF BufferInv
      <4>2. input[e + 1][2] < input[x][2]
        BY <1>8, <2>3, <3>1, <4>1, ReaderAssumption
      <4> QED BY <1>12, <1>13, <3>2, <4>2
    <3>3. CASE n # Len(spawned) + 1
      <4>1. n \in DOMAIN spawned /\ spawned'[n] = spawned[n]
        BY <1>12, <2>3, <3>3
      <4> QED BY <1>3, <2>3, <3>1, <4>1 DEF InTurn
    <3> QED BY <3>2, <3>3
  <2> QED BY <1>2, <1>12, <2>2, <2>3 DEF InTurn
<1>17. Waits'
  BY <1>2 DEF Waits
<1> QED BY <1>7, <1>15, <1>16, <1>17 DEF ReaderInv

LEMMA ReaderStarts == Init => ReaderInv
<1> SUFFICES ASSUME Init
             PROVE  ReaderInv
  OBVIOUS
<1>1. /\ input \in Inputs /\ read = 0 /\ buffer = <<>> /\ waiting = TRUE /\ spawned = <<>>
      /\ input \in Seq(Token)
  BY ReaderAssumption DEF Init
<1>2. Len(buffer) = 0 /\ buffer \in Seq(Token) /\ Done = 0 /\ Len(input) \in Nat
  <2>1. <<>> \in Seq(Token) /\ Len(<<>>) = 0
    OBVIOUS
  <2>2. buffer \in Seq(Token) /\ Len(buffer) = 0
    BY <1>1, <2>1
  <2>3. Done = 0
    <3>1. read = 0 /\ Len(buffer) = 0
      BY <1>1, <2>2
    <3>2. read - Len(buffer) = 0
      BY ONLY <3>1
    <3> QED BY <3>2 DEF Done
  <2>4. Len(input) \in Nat
    BY <1>1
  <2> QED BY <2>2, <2>3, <2>4
<1>3. BufferInv
  BY <1>1, <1>2 DEF BufferInv
<1>4. spawned \in Seq(Nat) /\ DOMAIN spawned = {}
  BY <1>1
<1> QED BY <1>1, <1>2, <1>3, <1>4 DEF ReaderInv, Handled, Waits, InTurn

LEMMA ReaderGoesOn == ReaderInv /\ [Next]_vars => ReaderInv'
<1> SUFFICES ASSUME ReaderInv, [Next]_vars
             PROVE  ReaderInv'
  OBVIOUS
<1>1. CASE UNCHANGED vars
  BY <1>1 DEF vars, ReaderInv, BufferInv, Handled, Waits, InTurn, Done, RequestAt, BeginsLine,
              FrameAt, Blank
<1> QED BY <1>1, ReadKeeps, SpawnKeeps, NeedMoreKeeps, SkipInvalidKeeps DEF Next

(* What a read loop has in its buffer is what was read and not yet consumed, *)
(* in one piece.                                                           *)
THEOREM ReaderTypes == Spec => []TypeOK
<1>1. ReaderInv => TypeOK
  <2> SUFFICES ASSUME ReaderInv
               PROVE  TypeOK
    OBVIOUS
  <2>1. /\ input \in Seq(Token) /\ Len(input) \in Nat /\ read \in Nat /\ read <= Len(input)
        /\ Done \in 0..read /\ buffer \in Seq(Token) /\ Done + Len(buffer) = read
        /\ Len(buffer) \in Nat
        /\ \A j \in 1..Len(buffer) : buffer[j] = input[Done + j]
    BY Text DEF ReaderInv, BufferInv, Done
  <2> DEFINE c == SubSeq(input, Done + 1, Done + Len(buffer))
  <2>2. c \in Seq(Token) /\ Len(c) = Len(buffer) /\ \A j \in 1..Len(buffer) : c[j] = input[Done + j]
    BY <2>1, PartIs
  <2> HIDE DEF c
  <2>3. buffer = c
    BY <2>1, <2>2
  <2>4. buffer = SubSeq(input, Done + 1, read)
    BY <2>1, <2>3 DEF c
  <2> QED BY <2>1, <2>4 DEF TypeOK, ReaderInv, BufferInv, InTurn
<1> QED BY <1>1, ReaderStarts, ReaderGoesOn, PTL DEF Spec

(* For every stream, every way of cutting it into reads and every kind of    *)
(* broken line: a request that begins a line becomes one task, and requests *)
(* become tasks in their order.                                            *)
THEOREM RequestsAreNotLost == Spec => []NoRequestLost
<1>1. ReaderInv => NoRequestLost
  <2> SUFFICES ASSUME ReaderInv
               PROVE  NoRequestLost
    OBVIOUS
  <2>1. \A m, n \in DOMAIN spawned : m < n => spawned[m] < spawned[n]
    BY DEF ReaderInv, InTurn
  <2>2. ASSUME NEW x \in 1..read, RequestAt(x, read)
        PROVE  \/ \E n \in DOMAIN spawned : spawned[n] = input[x][2]
               \/ ~waiting /\ \E n \in DOMAIN buffer : buffer[n] = <<"open", input[x][2]>>
               \/ waiting /\ buffer # <<>> /\ buffer[1][1] = "key"
    <3>1. /\ read \in Nat /\ Len(input) \in Nat /\ read <= Len(input) /\ input \in Seq(Token)
          /\ Done \in 0..read /\ Done + Len(buffer) = read
          /\ buffer \in Seq(Token) /\ DOMAIN buffer = 1..Len(buffer) /\ Len(buffer) \in Nat
      BY Text DEF ReaderInv, BufferInv, Done
    <3>2. CASE x <= Done
      <4>1. RequestAt(x, Len(input))
        <5>1. PICK k \in (x + 1)..read : FrameAt(input, x, k)
          BY <2>2 DEF RequestAt
        <5>2. k \in (x + 1)..Len(input)
          BY <3>1, <5>1
        <5> QED BY <2>2, <5>1, <5>2 DEF RequestAt
      <4>2. x \in 1..Done
        BY <3>1, <3>2
      <4> QED BY <4>1, <4>2 DEF ReaderInv, Handled
    <3>3. CASE x > Done
      <4> DEFINE j == x - Done
      <4>1. j \in 1..Len(buffer) /\ Done + j = x /\ x \in (Done + 1)..read
        BY <3>1, <3>3
      <4> HIDE DEF j
      <4>2. buffer[j] = input[x]
        BY <4>1 DEF ReaderInv, BufferInv
      <4>3. input[x] \in Token /\ input[x][1] = "open"
        BY <2>2, <3>1 DEF RequestAt, FrameAt
      <4>4. input[x] = <<"open", input[x][2]>>
        BY <4>3 DEF Token, Newline
      <4>5. CASE ~waiting
        BY <3>1, <4>1, <4>2, <4>4, <4>5
      <4>6. CASE waiting
        <5>1. buffer # <<>>
          BY <3>1, <4>1
        <5> QED BY <2>2, <4>1, <4>6, <5>1 DEF ReaderInv, Waits
      <4> QED BY <4>5, <4>6
    <3> QED BY <3>1, <3>2, <3>3
  <2> QED BY <2>1, <2>2 DEF NoRequestLost, LineRequests, RequestAt
<1> QED BY <1>1, ReaderStarts, ReaderGoesOn, PTL DEF Spec

-----------------------------------------------------------------------------
(* The order of versions is used only against the three limits of the code,*)
(* where no general transitivity is needed: two are releases, and the third*)
(* is the lowest pre-release there is.                                     *)

(* The triples alone. *)
TripleAbove(v, w) ==
    \/ v.major > w.major
    \/ v.major = w.major /\ v.minor > w.minor
    \/ v.major = w.major /\ v.minor = w.minor /\ v.patch > w.patch

SameTriple(v, w) == v.major = w.major /\ v.minor = w.minor /\ v.patch = w.patch

LEMMA AtLeastByTriple ==
    ASSUME NEW v, NEW w
    PROVE  AtLeast(v, w) <=> TripleAbove(v, w) \/ (SameTriple(v, w) /\ PreAtLeast(v.pre, w.pre))
BY Zenon DEF AtLeast, TripleAbove, SameTriple

LEMMA TriplesAreOrdered ==
    ASSUME NEW v \in Version, NEW w \in Version, NEW u \in Version
    PROVE  /\ TripleAbove(v, w) /\ TripleAbove(w, u) => TripleAbove(v, u)
           /\ TripleAbove(v, w) /\ SameTriple(w, u) => TripleAbove(v, u)
           /\ SameTriple(v, w) /\ TripleAbove(w, u) => TripleAbove(v, u)
           /\ SameTriple(v, w) /\ SameTriple(w, u) => SameTriple(v, u)
BY DEF Version, TripleAbove, SameTriple

(* Only a release is as late as a release. *)
LEMMA ReleaseIsLast ==
    ASSUME NEW p
    PROVE  PreAtLeast(p, <<>>) <=> p = <<>>
BY DEF PreAtLeast

(* Every list of pre-release identifiers is as late as <<0>>. *)
LEMMA ZeroIsFirst ==
    ASSUME NEW p \in Seq(Nat)
    PROVE  PreAtLeast(p, <<0>>)
<1>1. CASE p = <<>>
  BY <1>1 DEF PreAtLeast
<1>2. CASE p # <<>>
  <2>1. Len(p) \in Nat /\ Len(p) >= 1 /\ p[1] \in Nat
    BY <1>2
  <2>2. <<0>> # <<>> /\ Len(<<0>>) = 1 /\ <<0>>[1] = 0
    OBVIOUS
  <2>3. CASE p[1] = 0
    <3>1. \A n \in 1..1 : p[n] = <<0>>[n]
      BY <2>2, <2>3
    <3>2. QED
      BY <2>1, <2>2, <3>1 DEF PreAtLeast
  <2>4. CASE p[1] > 0
    <3>1. \E n \in 1..1 : n <= Len(p) /\ p[n] > <<0>>[n] /\ \A k \in 1..(n - 1) : p[k] = <<0>>[k]
      <4>1. \A k \in 1..(1 - 1) : p[k] = <<0>>[k]
        OBVIOUS
      <4>2. 1 \in 1..1 /\ 1 <= Len(p) /\ p[1] > <<0>>[1]
        BY <2>1, <2>2, <2>4
      <4>3. QED
        BY <4>1, <4>2
    <3>2. QED
      BY <2>2, <3>1 DEF PreAtLeast
  <2>5. QED
    BY <2>1, <2>3, <2>4
<1>3. QED
  BY <1>1, <1>2

(* The limits the code compares with. *)
Limit(u) == u \in Version /\ u.pre \in {<<>>, <<0>>}

(* What is newer than a version past a limit is past it too. *)
LEMMA NewerPassesLimit ==
    ASSUME NEW v \in Version, NEW w \in Version, NEW u, Limit(u),
           AtLeast(v, w), AtLeast(w, u)
    PROVE  AtLeast(v, u)
<1>1. u \in Version /\ v.pre \in Seq(Nat) /\ w.pre \in Seq(Nat)
  BY DEF Limit, Version
<1>2. CASE TripleAbove(v, w) \/ TripleAbove(w, u)
  <2>1. SameTriple(v, w) \/ TripleAbove(v, w)
    BY AtLeastByTriple
  <2>2. SameTriple(w, u) \/ TripleAbove(w, u)
    BY AtLeastByTriple
  <2>3. TripleAbove(v, u)
    BY <1>1, <1>2, <2>1, <2>2, TriplesAreOrdered
  <2>4. QED
    BY <2>3, AtLeastByTriple
<1>3. CASE ~TripleAbove(v, w) /\ ~TripleAbove(w, u)
  <2>1. SameTriple(v, w) /\ PreAtLeast(v.pre, w.pre)
    BY <1>3, AtLeastByTriple
  <2>2. SameTriple(w, u) /\ PreAtLeast(w.pre, u.pre)
    BY <1>3, AtLeastByTriple
  <2>3. SameTriple(v, u)
    BY <1>1, <2>1, <2>2, TriplesAreOrdered
  <2>4. PreAtLeast(v.pre, u.pre)
    <3>1. CASE u.pre = <<>>
      BY <2>1, <2>2, <3>1, ReleaseIsLast
    <3>2. CASE u.pre = <<0>>
      BY <1>1, <3>2, ZeroIsFirst
    <3>3. QED
      BY <3>1, <3>2 DEF Limit
  <2>5. QED
    BY <2>3, <2>4, AtLeastByTriple
<1>4. QED
  BY <1>2, <1>3

LEMMA TheLimits ==
    /\ Limit(HOST_PROTOCOL_WITHOUT_VERSION_CHECK)
    /\ Limit(MIN_HOST_PROTOCOL_VERSION)
    /\ Limit(MinimumHostVersion)
<1>1. <<>> \in Seq(Nat) /\ <<0>> \in Seq(Nat)
  OBVIOUS
<1>2. QED
  BY <1>1 DEF Limit, Version, V, HOST_PROTOCOL_WITHOUT_VERSION_CHECK,
              MIN_HOST_PROTOCOL_VERSION, MinimumHostVersion, MIN_HOST_VERSION

(* A host that announces no less than one that is served is served. *)
LEMMA NewerHostIsServed ==
    ASSUME NEW h \in Host, NEW g \in Host,
           NewerField(g.protocol, h.protocol), NewerField(g.version, h.version),
           CheckHost(h)
    PROVE  CheckHost(g)
<1>1. h.protocol \in Version /\ g.protocol \in Version /\ g.protocol # None
      /\ AtLeast(g.protocol, h.protocol)
  BY DEF Host, CheckHost, NewerField
<1>2. CASE AtLeast(h.protocol, HOST_PROTOCOL_WITHOUT_VERSION_CHECK)
  <2>1. AtLeast(g.protocol, HOST_PROTOCOL_WITHOUT_VERSION_CHECK)
    BY <1>1, <1>2, NewerPassesLimit, TheLimits
  <2>2. QED
    BY <1>1, <2>1 DEF CheckHost
<1>3. CASE /\ AtLeast(h.protocol, MIN_HOST_PROTOCOL_VERSION)
           /\ h.version # None
           /\ AtLeast(h.version, MinimumHostVersion)
  <2>1. h.version \in Version /\ g.version \in Version /\ g.version # None
        /\ AtLeast(g.version, h.version)
    BY <1>3 DEF Host, NewerField
  <2>2. AtLeast(g.protocol, MIN_HOST_PROTOCOL_VERSION)
    BY <1>1, <1>3, NewerPassesLimit, TheLimits
  <2>3. AtLeast(g.version, MinimumHostVersion)
    BY <1>3, <2>1, NewerPassesLimit, TheLimits
  <2>4. QED
    BY <1>1, <2>1, <2>2, <2>3 DEF CheckHost
<1>4. QED
  BY <1>2, <1>3 DEF CheckHost

(* At protocol 1.1 the version decides, and every pre-release of 0.7.0 is   *)
(* past the minimum, <<0>> being the lowest there is.                      *)
LEMMA VersionDecides ==
    ASSUME NEW v \in Version
    PROVE  AtLeast(v, MinimumHostVersion) <=> v.major > 0 \/ v.minor >= 7
<1>1. /\ v.major \in Nat /\ v.minor \in Nat /\ v.patch \in Nat /\ v.pre \in Seq(Nat)
      /\ MinimumHostVersion.major = 0 /\ MinimumHostVersion.minor = 7
      /\ MinimumHostVersion.patch = 0 /\ MinimumHostVersion.pre = <<0>>
  BY DEF Version, MinimumHostVersion, MIN_HOST_VERSION, V
<1>2. PreAtLeast(v.pre, <<0>>)
  BY <1>1, ZeroIsFirst
<1>3. AtLeast(v, MinimumHostVersion) <=>
         TripleAbove(v, MinimumHostVersion) \/ SameTriple(v, MinimumHostVersion)
  BY <1>1, <1>2, AtLeastByTriple
<1>4. QED
  BY <1>1, <1>3 DEF TripleAbove, SameTriple

LEMMA OldProtocol ==
    /\ AtLeast(V(1, 1, 0), MIN_HOST_PROTOCOL_VERSION)
    /\ ~AtLeast(V(1, 1, 0), HOST_PROTOCOL_WITHOUT_VERSION_CHECK)
BY DEF AtLeast, PreAtLeast, V, MIN_HOST_PROTOCOL_VERSION, HOST_PROTOCOL_WITHOUT_VERSION_CHECK

(* check_host is monotonic: whatever sequence of newer hosts a machine      *)
(* goes through, once its Animus is served by the queue it stays served.   *)
THEOREM UpgradesKeepTheQueue == HostSpec => UpgradeKeepsQueue
<1>1. Hosts \subseteq Host
  BY HostsAssumption
<1>2. host \in Hosts => host \in Hosts
  OBVIOUS
<1>3. host \in Hosts /\ [Upgrade]_host => (host \in Hosts)'
  BY DEF Upgrade
<1>4. host \in Hosts /\ [Upgrade]_host => [CheckHost(host) => CheckHost(host')]_host
  <2>1. SUFFICES ASSUME host \in Hosts, Upgrade, CheckHost(host)
                 PROVE  CheckHost(host')
    OBVIOUS
  <2>2. host \in Host /\ host' \in Host
    BY <1>1, <2>1 DEF Upgrade
  <2>3. NewerField(host'.protocol, host.protocol) /\ NewerField(host'.version, host.version)
    BY <2>1 DEF Upgrade
  <2>4. QED
    BY <2>1, <2>2, <2>3, NewerHostIsServed
<1>5. QED
  BY <1>2, <1>3, <1>4, PTL DEF HostSpec, UpgradeKeepsQueue

(* check_host tells the hosts apart: of those that announce protocol 1.1,   *)
(* whatever their version, exactly the ones of 0.7 and later are served,   *)
(* with every candidate of 0.7.0.                                          *)
THEOREM CandidatesAreServed == HostSpec => []CandidatesCount
<1>1. host \in Hosts => CandidatesCount
  <2>1. SUFFICES ASSUME host \in Hosts, host.protocol = V(1, 1, 0), host.version # None
                 PROVE  CheckHost(host) <=> host.version.major > 0 \/ host.version.minor >= 7
    BY DEF CandidatesCount
  <2>2. host.version \in Version
    BY <2>1, HostsAssumption DEF Host
  <2>3. V(1, 1, 0) \in Version
    BY TheLimits DEF Limit, MIN_HOST_PROTOCOL_VERSION
  <2>4. CheckHost(host) <=> AtLeast(host.version, MinimumHostVersion)
    BY <2>1, <2>3, OldProtocol, HostsAssumption DEF CheckHost
  <2>5. QED
    BY <2>2, <2>4, VersionDecides
<1>2. host \in Hosts /\ [Upgrade]_host => (host \in Hosts)'
  BY DEF Upgrade
<1>3. QED
  BY <1>1, <1>2, PTL DEF HostSpec

-----------------------------------------------------------------------------
(* The canonical ids of subjects. *)

(* The first and the last place of s that are not white space. *)
Spans(s, a, b) ==
    /\ a \in DOMAIN s /\ b \in DOMAIN s /\ a <= b
    /\ s[a] # Space /\ s[b] # Space
    /\ \A n \in DOMAIN s : n < a \/ b < n => s[n] = Space

IsTrimmed(s) == s # <<>> => s[1] # Space /\ s[Len(s)] # Space

LEMMA SameString ==
    ASSUME NEW s \in Strings, NEW t \in Strings, Len(s) = Len(t), \A j \in 1..Len(s) : s[j] = t[j]
    PROVE  s = t
BY DEF Strings

LEMMA SliceIs ==
    ASSUME NEW s \in Strings, NEW a \in 1..Len(s), NEW b \in a..Len(s)
    PROVE  /\ SubSeq(s, a, b) \in Strings /\ Len(SubSeq(s, a, b)) = b - a + 1
           /\ \A j \in 1..(b - a + 1) : SubSeq(s, a, b)[j] = s[a + j - 1]
<1>1. /\ a \in Nat /\ b \in Nat /\ Len(s) \in Nat /\ a >= 1 /\ b <= Len(s)
      /\ b - a + 1 \in Nat
  BY DEF Strings
<1>2. \A j \in a..b : s[j] \in Words \cup {":", Space}
  BY <1>1 DEF Strings
<1>3. SubSeq(s, a, b) = [j \in 1..(b - a + 1) |-> s[a + j - 1]]
  BY <1>1 DEF Strings
<1>4. \A j \in 1..(b - a + 1) : s[a + j - 1] \in Words \cup {":", Space}
  BY <1>1, <1>2
<1> DEFINE f == [j \in 1..(b - a + 1) |-> s[a + j - 1]]
<1>5. f \in Seq(Words \cup {":", Space}) /\ Len(f) = b - a + 1
  BY <1>1, <1>4
<1> QED BY <1>3, <1>5 DEF Strings

LEMMA TrimFrom ==
    ASSUME NEW s \in Strings, NEW a, NEW b, Spans(s, a, b)
    PROVE  Trim(s) = SubSeq(s, a, b)
<1> DEFINE first == CHOOSE n \in Ink(s) : \A m \in Ink(s) : n <= m
           last == CHOOSE n \in Ink(s) : \A m \in Ink(s) : m <= n
<1>1. /\ a \in Ink(s) /\ b \in Ink(s) /\ \A m \in Ink(s) : m \in Nat /\ a <= m /\ m <= b
  <2>1. DOMAIN s \subseteq Nat
    BY DEF Strings
  <2> QED BY <2>1 DEF Spans, Ink
<1>2. first = a
  <2>1. first \in Ink(s) /\ \A m \in Ink(s) : first <= m
    BY <1>1
  <2> QED BY <1>1, <2>1
<1>3. last = b
  <2>1. last \in Ink(s) /\ \A m \in Ink(s) : m <= last
    BY <1>1
  <2> QED BY <1>1, <2>1
<1>4. Ink(s) # {}
  BY <1>1
<1> QED BY <1>2, <1>3, <1>4 DEF Trim

LEMMA TrimOf ==
    ASSUME NEW s \in Strings, Ink(s) # {}
    PROVE  \E a, b : Spans(s, a, b)
<1>1. Len(s) \in Nat /\ DOMAIN s = 1..Len(s) /\ Ink(s) \subseteq 1..Len(s)
  BY DEF Strings, Ink
<1>2. PICK a \in Ink(s) : \A m \in Ink(s) : a <= m
  <2>1. Ink(s) \in SUBSET Nat
    BY <1>1
  <2> QED BY <2>1, LeastNumber
<1> DEFINE F == {Len(s) - n : n \in Ink(s)}
<1>3. F \in SUBSET Nat /\ F # {}
  BY <1>1
<1>4. PICK f \in F : \A g \in F : f <= g
  BY <1>3, LeastNumber
<1>5. PICK b \in Ink(s) : f = Len(s) - b
  BY <1>4
<1>6. \A m \in Ink(s) : m <= b
  <2> SUFFICES ASSUME NEW m \in Ink(s) PROVE m <= b
    OBVIOUS
  <2>1. f <= Len(s) - m
    BY <1>4
  <2> QED BY <1>1, <1>5, <2>1
<1> HIDE DEF F
<1>7. \A n \in DOMAIN s : n < a \/ b < n => n \notin Ink(s)
  BY <1>1, <1>2, <1>6
<1>8. Spans(s, a, b)
  BY <1>1, <1>2, <1>6, <1>7 DEF Spans, Ink
<1> QED BY <1>8

(* What is trimmed begins and ends with no white space. *)
LEMMA TrimIs ==
    ASSUME NEW s \in Strings
    PROVE  Trim(s) \in Strings /\ IsTrimmed(Trim(s))
<1>1. CASE Ink(s) = {}
  <2>1. Trim(s) = <<>> /\ <<>> \in Strings
    BY <1>1 DEF Trim, Strings
  <2> QED BY <2>1 DEF IsTrimmed
<1>2. CASE Ink(s) # {}
  <2>1. PICK a, b : Spans(s, a, b)
    BY <1>2, TrimOf
  <2>2. /\ a \in 1..Len(s) /\ b \in a..Len(s) /\ Len(s) \in Nat /\ s[a] # Space /\ s[b] # Space
        /\ b - a + 1 \in 1..(b - a + 1) /\ 1 \in 1..(b - a + 1)
        /\ a + 1 - 1 = a /\ a + (b - a + 1) - 1 = b
    BY <2>1 DEF Spans, Strings
  <2> DEFINE t == Trim(s)
  <2>3. /\ t \in Strings /\ Len(t) = b - a + 1
        /\ \A j \in 1..(b - a + 1) : t[j] = s[a + j - 1]
    <3>1. t = SubSeq(s, a, b)
      BY <2>1, TrimFrom
    <3> QED BY ONLY <2>2, <3>1, s \in Strings, SliceIs
  <2> HIDE DEF t
  <2>4. t[1] # Space /\ t[Len(t)] # Space
    BY <2>2, <2>3
  <2> QED BY <2>3, <2>4 DEF IsTrimmed, t
<1> QED BY <1>1, <1>2

LEMMA TrimmedStays ==
    ASSUME NEW s \in Strings, IsTrimmed(s)
    PROVE  Trim(s) = s
<1>1. CASE s = <<>>
  <2>1. Ink(s) = {}
    BY <1>1 DEF Ink
  <2> QED BY <1>1, <2>1 DEF Trim
<1>2. CASE s # <<>>
  <2>1. Len(s) \in Nat \ {0} /\ DOMAIN s = 1..Len(s)
    BY <1>2 DEF Strings
  <2>2. Spans(s, 1, Len(s))
    BY <1>2, <2>1 DEF Spans, IsTrimmed
  <2>3. SubSeq(s, 1, Len(s)) = s
    BY DEF Strings
  <2> QED BY <2>2, <2>3, TrimFrom
<1> QED BY <1>1, <1>2

LEMMA SpaceIsApart == Space \notin {":", "TASK", "task", "requirement", "animus.task", "animus.requirement"}
BY Zenon DEF Space

(* White space around a string does not change what trim makes of it. *)
LEMMA PadKeeps ==
    ASSUME NEW s \in Strings
    PROVE  /\ <<Space>> \o s \in Strings /\ Trim(<<Space>> \o s) = Trim(s)
           /\ Append(s, Space) \in Strings /\ Trim(Append(s, Space)) = Trim(s)
<1> DEFINE l == <<Space>> \o s
           r == Append(s, Space)
<1>1. /\ l \in Strings /\ Len(l) = Len(s) + 1 /\ l[1] = Space
      /\ \A j \in 1..Len(s) : l[j + 1] = s[j]
      /\ Len(s) \in Nat /\ DOMAIN s = 1..Len(s) /\ DOMAIN l = 1..(Len(s) + 1)
  BY DEF Strings
<1>2. /\ r \in Strings /\ Len(r) = Len(s) + 1 /\ r[Len(s) + 1] = Space
      /\ \A j \in 1..Len(s) : r[j] = s[j]
      /\ DOMAIN r = 1..(Len(s) + 1)
  BY DEF Strings
<1> HIDE DEF l, r
<1>3. \A n \in DOMAIN l : n = 1 \/ (n - 1 \in DOMAIN s /\ l[n] = s[n - 1])
  <2> SUFFICES ASSUME NEW n \in DOMAIN l, n # 1
               PROVE  n - 1 \in DOMAIN s /\ l[n] = s[n - 1]
    OBVIOUS
  <2>1. n - 1 \in 1..Len(s) /\ (n - 1) + 1 = n
    BY <1>1
  <2> QED BY <1>1, <2>1
<1>4. CASE Ink(s) = {}
  <2>1. \A n \in DOMAIN s : s[n] = Space
    BY <1>4 DEF Ink
  <2>2. Ink(l) = {}
    BY <1>1, <1>3, <2>1 DEF Ink
  <2>3. Ink(r) = {}
    <3>1. \A n \in DOMAIN r : n = Len(s) + 1 \/ n \in DOMAIN s
      BY <1>1, <1>2
    <3> QED BY <1>1, <1>2, <2>1, <3>1 DEF Ink
  <2>4. Trim(s) = <<>> /\ Trim(l) = <<>> /\ Trim(r) = <<>>
    BY <1>4, <2>2, <2>3 DEF Trim
  <2> QED BY <1>1, <1>2, <2>4 DEF l, r
<1>5. CASE Ink(s) # {}
  <2>1. PICK a, b : Spans(s, a, b)
    BY <1>5, TrimOf
  <2>2. /\ a \in 1..Len(s) /\ b \in a..Len(s) /\ a \in Nat /\ b \in Nat
        /\ a + 1 \in 1..(Len(s) + 1) /\ b + 1 \in (a + 1)..(Len(s) + 1)
        /\ a \in 1..(Len(s) + 1) /\ b \in a..(Len(s) + 1)
        /\ b - a + 1 \in Nat /\ (b + 1) - (a + 1) + 1 = b - a + 1
    BY <1>1, <2>1 DEF Spans
  <2>3. Spans(l, a + 1, b + 1)
    <3>1. l[a + 1] # Space /\ l[b + 1] # Space
      <4>1. a \in 1..Len(s) /\ b \in 1..Len(s)
        BY <1>1, <2>1 DEF Spans
      <4>2. l[a + 1] = s[a] /\ l[b + 1] = s[b]
        BY <1>1, <4>1
      <4> QED BY <2>1, <4>2 DEF Spans
    <3>2. ASSUME NEW n \in DOMAIN l, n < a + 1 \/ b + 1 < n
          PROVE  l[n] = Space
      <4>1. CASE n = 1
        BY <1>1, <4>1
      <4>2. CASE n # 1
        <5>1. n - 1 \in DOMAIN s /\ l[n] = s[n - 1]
          BY <1>3, <4>2
        <5>2. n - 1 < a \/ b < n - 1
          BY <1>1, <2>2, <3>2
        <5> QED BY <2>1, <5>1, <5>2 DEF Spans
      <4> QED BY <4>1, <4>2
    <3>3. a + 1 \in DOMAIN l /\ b + 1 \in DOMAIN l
      <4>1. b + 1 \in 1..(Len(s) + 1)
        BY <1>1, <2>2
      <4> QED BY <1>1, <2>2, <4>1
    <3>4. a + 1 <= b + 1
      BY <2>2
    <3> QED BY <3>1, <3>2, <3>3, <3>4 DEF Spans
  <2>4. Spans(r, a, b)
    <3>1. r[a] # Space /\ r[b] # Space
      <4>1. a \in 1..Len(s) /\ b \in 1..Len(s)
        BY <1>1, <2>1 DEF Spans
      <4>2. r[a] = s[a] /\ r[b] = s[b]
        BY <1>2, <4>1
      <4> QED BY <2>1, <4>2 DEF Spans
    <3>2. ASSUME NEW n \in DOMAIN r, n < a \/ b < n
          PROVE  r[n] = Space
      <4>1. n = Len(s) + 1 \/ n \in 1..Len(s)
        BY <1>1, <1>2
      <4>2. CASE n = Len(s) + 1
        BY <1>2, <4>2
      <4>3. CASE n \in 1..Len(s)
        <5>1. n \in DOMAIN s /\ r[n] = s[n]
          BY <1>1, <1>2, <4>3
        <5> QED BY <2>1, <3>2, <5>1 DEF Spans
      <4> QED BY <4>1, <4>2, <4>3
    <3>3. a \in DOMAIN r /\ b \in DOMAIN r /\ a <= b
      <4>1. a \in 1..(Len(s) + 1) /\ b \in 1..(Len(s) + 1) /\ a <= b
        BY <1>1, <2>2
      <4> QED BY <1>2, <4>1
    <3> QED BY <3>1, <3>2, <3>3 DEF Spans
  <2> DEFINE t == SubSeq(s, a, b)
             tl == SubSeq(l, a + 1, b + 1)
             tr == SubSeq(r, a, b)
  <2>5. /\ t \in Strings /\ Len(t) = b - a + 1
        /\ \A j \in 1..(b - a + 1) : t[j] = s[a + j - 1]
    BY <2>2, SliceIs
  <2>6. /\ tl \in Strings /\ Len(tl) = b - a + 1
        /\ \A j \in 1..(b - a + 1) : tl[j] = l[(a + 1) + j - 1]
    <3>1. a + 1 \in 1..Len(l) /\ b + 1 \in (a + 1)..Len(l)
      BY <1>1, <2>2
    <3> QED BY <1>1, <2>2, <3>1, SliceIs
  <2>7. /\ tr \in Strings /\ Len(tr) = b - a + 1
        /\ \A j \in 1..(b - a + 1) : tr[j] = r[a + j - 1]
    <3>1. a \in 1..Len(r) /\ b \in a..Len(r)
      BY <1>2, <2>2
    <3> QED BY <1>2, <3>1, SliceIs
  <2>8. Trim(s) = t /\ Trim(l) = tl /\ Trim(r) = tr
    BY <1>1, <1>2, <2>1, <2>3, <2>4, TrimFrom
  <2> HIDE DEF t, tl, tr
  <2>9. \A j \in 1..(b - a + 1) : tl[j] = t[j] /\ tr[j] = t[j]
    <3> SUFFICES ASSUME NEW j \in 1..(b - a + 1)
                 PROVE  tl[j] = t[j] /\ tr[j] = t[j]
      OBVIOUS
    <3>1. a + j - 1 \in 1..Len(s) /\ (a + 1) + j - 1 = (a + j - 1) + 1
      BY <1>1, <2>2
    <3>2. l[(a + 1) + j - 1] = s[a + j - 1] /\ r[a + j - 1] = s[a + j - 1]
      BY <1>1, <1>2, <3>1
    <3> QED BY <2>5, <2>6, <2>7, <3>2
  <2>10. tl = t /\ tr = t
    BY <2>5, <2>6, <2>7, <2>9, SameString
  <2> QED BY <1>1, <1>2, <2>8, <2>10 DEF l, r
<1> QED BY <1>4, <1>5

(* Lower case keeps length and white space, and is reached at once. *)
LEMMA LowerIs ==
    ASSUME NEW s \in Strings
    PROVE  /\ Lower(s) \in Strings /\ Len(Lower(s)) = Len(s)
           /\ \A n \in 1..Len(s) : Lower(s)[n] = Space <=> s[n] = Space
           /\ Lower(Lower(s)) = Lower(s)
<1>1. Len(s) \in Nat /\ DOMAIN s = 1..Len(s) /\ \A n \in 1..Len(s) : s[n] \in Words \cup {":", Space}
  BY DEF Strings
<1> DEFINE low == [n \in 1..Len(s) |-> IF s[n] = "TASK" THEN "task" ELSE s[n]]
<1>2. Lower(s) = low
  BY <1>1 DEF Lower
<1>3. "task" \in Words /\ "task" # "TASK"
  BY Zenon DEF Words
<1>4. \A n \in 1..Len(s) : low[n] \in Words \cup {":", Space}
  BY <1>1, <1>3
<1>5. low \in Seq(Words \cup {":", Space}) /\ Len(low) = Len(s) /\ DOMAIN low = 1..Len(s)
  BY <1>1, <1>4
<1>6. \A n \in 1..Len(s) : low[n] = Space <=> s[n] = Space
  BY <1>1, SpaceIsApart
<1>7. \A n \in 1..Len(s) : (IF low[n] = "TASK" THEN "task" ELSE low[n]) = low[n]
  BY <1>3
<1>8. Lower(low) = low
  <2>1. Lower(low) = [n \in 1..Len(s) |-> IF low[n] = "TASK" THEN "task" ELSE low[n]]
    BY <1>5 DEF Lower
  <2>2. [n \in 1..Len(s) |-> low[n]] = low
    OBVIOUS
  <2> HIDE DEF low
  <2> QED BY <1>7, <2>1, <2>2
<1> HIDE DEF low
<1> QED BY <1>2, <1>5, <1>6, <1>8 DEF Strings

(* A name p with the letters of k, a colon and a native id: such an id says *)
(* its kind, and what follows is the native id.                            *)
LEMMA Qualified ==
    ASSUME NEW k \in Strings, NEW p \in Strings, NEW v \in Strings,
           Lower(p) = Lower(k), k # <<>>, v # <<>>, k[1] # Space, v[Len(v)] # Space
    PROVE  LET c == Append(p, ":") \o v IN
           /\ c \in Strings /\ c # <<>> /\ Trim(c) = c
           /\ Native(k, c) = v
<1> DEFINE c == Append(p, ":") \o v
           q == Append(k, ":")
<1>1. /\ Len(k) \in Nat \ {0} /\ Len(v) \in Nat \ {0} /\ Len(p) = Len(k)
      /\ \A n \in 1..Len(k) : p[n] = Space <=> k[n] = Space
  <2>1. Len(k) \in Nat \ {0} /\ Len(v) \in Nat \ {0}
    BY DEF Strings
  <2>2. Len(p) = Len(k)
    BY LowerIs
  <2> QED BY <2>1, <2>2, LowerIs
<1>2. /\ c \in Strings /\ Len(c) = Len(k) + 1 + Len(v)
      /\ \A n \in 1..Len(k) : c[n] = p[n]
      /\ c[Len(k) + 1] = ":"
      /\ \A n \in 1..Len(v) : c[Len(k) + 1 + n] = v[n]
  <2> DEFINE b == Append(p, ":")
  <2>1. /\ b \in Strings /\ Len(b) = Len(k) + 1 /\ b[Len(k) + 1] = ":"
        /\ \A n \in 1..Len(k) : b[n] = p[n]
    BY <1>1 DEF Strings
  <2> HIDE DEF b
  <2>2. b \o v \in Strings /\ Len(b \o v) = Len(k) + 1 + Len(v)
    BY <1>1, <2>1 DEF Strings
  <2>3. \A n \in 1..(Len(k) + 1) : (b \o v)[n] = b[n]
    BY <1>1, <2>1 DEF Strings
  <2>4. \A n \in 1..Len(v) : (b \o v)[Len(k) + 1 + n] = v[n]
    BY <1>1, <2>1 DEF Strings
  <2>5. 1..Len(k) \subseteq 1..(Len(k) + 1) /\ Len(k) + 1 \in 1..(Len(k) + 1)
    BY <1>1
  <2>6. c = b \o v
    BY DEF b
  <2> HIDE DEF c
  <2> QED BY <2>1, <2>2, <2>3, <2>4, <2>5, <2>6
<1>3. /\ q \in Strings /\ Len(q) = Len(k) + 1 /\ q[Len(k) + 1] = ":"
      /\ \A n \in 1..Len(k) : q[n] = k[n]
  BY <1>1 DEF Strings
<1> HIDE DEF c, q
<1>4. c # <<>>
  BY <1>1, <1>2
<1>5. Trim(c) = c
  <2>1. c[1] # Space
    BY <1>1, <1>2
  <2>2. Len(c) = Len(k) + 1 + Len(v) /\ Len(v) \in 1..Len(v)
    BY <1>1, <1>2
  <2>3. c[Len(c)] # Space
    BY <1>2, <2>2
  <2> QED BY <1>2, <2>1, <2>3, TrimmedStays DEF IsTrimmed
<1>6. StartsWith(c, q)
  <2> DEFINE h == SubSeq(c, 1, Len(q))
  <2>1. 1 \in 1..Len(c) /\ Len(q) \in 1..Len(c) /\ Len(q) - 1 + 1 = Len(k) + 1
    BY <1>1, <1>2, <1>3
  <2>2. /\ h \in Strings /\ Len(h) = Len(k) + 1
        /\ \A j \in 1..(Len(k) + 1) : h[j] = c[1 + j - 1]
    BY <1>2, <2>1, SliceIs
  <2> HIDE DEF h
  <2>3. \A j \in 1..(Len(k) + 1) : h[j] = c[j]
    BY <1>1, <2>2
  <2>4. \A j \in 1..(Len(k) + 1) : Lower(h)[j] = Lower(q)[j]
    <3> SUFFICES ASSUME NEW j \in 1..(Len(k) + 1)
                 PROVE  Lower(h)[j] = Lower(q)[j]
      OBVIOUS
    <3>1. CASE j = Len(k) + 1
      <4>1. h[j] = q[j]
        BY <1>2, <1>3, <2>3, <3>1
      <4>2. j \in DOMAIN h /\ j \in DOMAIN q
        BY <1>3, <2>2 DEF Strings
      <4> QED BY <4>1, <4>2 DEF Lower
    <3>2. CASE j # Len(k) + 1
      <4>1. j \in 1..Len(k)
        BY <1>1, <3>2
      <4>2. h[j] = p[j] /\ q[j] = k[j]
        BY <1>2, <1>3, <2>3, <4>1
      <4>3. j \in DOMAIN h /\ j \in DOMAIN q /\ j \in DOMAIN p /\ j \in DOMAIN k
        BY <1>1, <1>3, <2>2, <4>1 DEF Strings
      <4>4. Lower(h)[j] = Lower(p)[j] /\ Lower(q)[j] = Lower(k)[j]
        BY <4>2, <4>3 DEF Lower
      <4> QED BY <4>4
    <3> QED BY <3>1, <3>2
  <2>5. Lower(h) = Lower(q)
    <3>1. /\ Lower(h) \in Strings /\ Lower(q) \in Strings
          /\ Len(Lower(h)) = Len(k) + 1 /\ Len(Lower(q)) = Len(k) + 1
      BY <1>3, <2>2, LowerIs
    <3> QED BY <2>4, <3>1, SameString
  <2>6. Len(c) >= Len(q)
    BY <1>1, <1>2, <1>3
  <2> QED BY <2>5, <2>6 DEF StartsWith, h
<1>7. SubSeq(c, Len(q) + 1, Len(c)) = v
  <2> DEFINE r == SubSeq(c, Len(q) + 1, Len(c))
  <2>1. /\ Len(q) + 1 \in 1..Len(c) /\ Len(c) \in (Len(q) + 1)..Len(c)
        /\ Len(c) - (Len(q) + 1) + 1 = Len(v)
    BY <1>1, <1>2, <1>3
  <2>2. /\ r \in Strings /\ Len(r) = Len(v)
        /\ \A j \in 1..Len(v) : r[j] = c[Len(q) + 1 + j - 1]
    BY <1>2, <2>1, SliceIs
  <2> HIDE DEF r
  <2>3. \A j \in 1..Len(v) : Len(q) + 1 + j - 1 = Len(k) + 1 + j
    BY <1>1, <1>3
  <2>4. \A j \in 1..Len(v) : r[j] = v[j]
    BY <1>2, <2>2, <2>3
  <2>5. r = v
    BY <2>2, <2>4, SameString
  <2> QED BY <2>5 DEF r
<1>8. Native(k, c) = v
  BY <1>6, <1>7 DEF Native, q
<1> QED BY <1>2, <1>4, <1>5, <1>8 DEF c

(* What follows a kind in a trimmed id ends where the id ends. *)
LEMMA NativeIs ==
    ASSUME NEW k \in Strings, NEW i \in Strings, IsTrimmed(i), i # <<>>, Native(k, i) # <<>>
    PROVE  /\ Native(k, i) \in Strings
           /\ Native(k, i)[Len(Native(k, i))] # Space
<1> DEFINE q == Append(k, ":")
<1>1. Len(i) \in Nat \ {0} /\ i[Len(i)] # Space /\ Len(q) \in Nat
  BY DEF Strings, IsTrimmed
<1> HIDE DEF q
<1>2. CASE ~StartsWith(i, q)
  BY <1>1, <1>2 DEF Native, q
<1>3. CASE StartsWith(i, q)
  <2> DEFINE r == SubSeq(i, Len(q) + 1, Len(i))
  <2>1. Native(k, i) = r /\ r # <<>>
    BY <1>3 DEF Native, q
  <2>2. Len(q) <= Len(i)
    BY <1>1, <1>3 DEF StartsWith
  <2>3. Len(q) # Len(i)
    <3>1. SUFFICES ASSUME Len(q) = Len(i) PROVE r = <<>>
      BY <2>1
    <3> QED BY <1>1, <3>1 DEF Strings
  <2>4. /\ Len(q) + 1 \in 1..Len(i) /\ Len(i) \in (Len(q) + 1)..Len(i)
        /\ Len(i) - (Len(q) + 1) + 1 = Len(i) - Len(q)
        /\ Len(i) - Len(q) \in 1..(Len(i) - Len(q))
        /\ Len(q) + 1 + (Len(i) - Len(q)) - 1 = Len(i)
    BY <1>1, <2>2, <2>3
  <2>5. /\ r \in Strings /\ Len(r) = Len(i) - Len(q)
        /\ \A j \in 1..(Len(i) - Len(q)) : r[j] = i[Len(q) + 1 + j - 1]
    BY <2>4, SliceIs
  <2> HIDE DEF r
  <2>6. r[Len(r)] = i[Len(i)]
    BY <2>4, <2>5
  <2> QED BY <1>1, <2>1, <2>5, <2>6
<1> QED BY <1>2, <1>3

(* What the kind and the id are made of where they name a subject at all.   *)
LEMMA CanonicalIs ==
    ASSUME NEW k \in Strings, NEW i \in Strings, CanonicalSubjectId(k, i) # Missing
    PROVE  LET n == Trim(Short(k)) v == Native(n, Trim(i)) IN
           /\ n # <<>> /\ Trim(i) # <<>> /\ v # <<>>
           /\ CanonicalSubjectId(k, i) = Append(n, ":") \o v
BY Zenon DEF CanonicalSubjectId

LEMMA CanonicalOf ==
    ASSUME NEW k, NEW i,
           Trim(Short(k)) # <<>>, Trim(i) # <<>>, Native(Trim(Short(k)), Trim(i)) # <<>>
    PROVE  CanonicalSubjectId(k, i) = Append(Trim(Short(k)), ":") \o Native(Trim(Short(k)), Trim(i))
BY Zenon DEF CanonicalSubjectId

LEMMA ShortIs ==
    ASSUME NEW k \in Strings
    PROVE  /\ Short(k) \in Strings
           /\ Short(k) = k \/ k \in {<<"animus.task">>, <<"animus.requirement">>}
           /\ k \in {<<"animus.task">>, <<"animus.requirement">>} =>
                 /\ Trim(Short(k)) = Short(k) /\ Short(Short(k)) = Short(k) /\ Short(k) # k
<1>1. /\ "task" \in Words /\ "requirement" \in Words
      /\ "task" # Space /\ "requirement" # Space
  BY SpaceIsApart, Zenon DEF Words
<1>2. <<"task">> \in Strings /\ <<"requirement">> \in Strings
  BY <1>1 DEF Strings
<1>3. IsTrimmed(<<"task">>) /\ IsTrimmed(<<"requirement">>)
  BY <1>1 DEF IsTrimmed
<1>4. Trim(<<"task">>) = <<"task">> /\ Trim(<<"requirement">>) = <<"requirement">>
  BY <1>2, <1>3, TrimmedStays
<1>5. CASE k = <<"animus.task">>
  <2>1. Short(k) = <<"task">> /\ Short(<<"task">>) = <<"task">> /\ <<"task">> # k
    BY <1>5 DEF Short
  <2> QED BY <1>2, <1>4, <1>5, <2>1
<1>6. CASE k = <<"animus.requirement">>
  <2>1. /\ Short(k) = <<"requirement">> /\ Short(<<"requirement">>) = <<"requirement">>
        /\ <<"requirement">> # k
    BY <1>6 DEF Short
  <2> QED BY <1>2, <1>4, <1>6, <2>1
<1>7. CASE k \notin {<<"animus.task">>, <<"animus.requirement">>}
  <2>1. Short(k) = k
    BY <1>7 DEF Short
  <2> QED BY <1>7, <2>1
<1> QED BY <1>5, <1>6, <1>7

(* No kind is the long name of another with white space around it: trim     *)
(* comes after the short name was looked up (identity.rs:43-48).           *)
KindsSpelled ==
    \A k \in Kinds : Trim(k) \in {<<"animus.task">>, <<"animus.requirement">>} => Trim(k) = k

(* The name of a kind is not a long name any more. *)
SpellingInv == kind \in Strings /\ id \in Strings /\ Short(Named) = Named

LEMMA SpellingStarts ==
    ASSUME KindsSpelled, IdentityInit
    PROVE  SpellingInv
<1>1. kind \in Strings /\ id \in Strings
  BY IdentityAssumption DEF IdentityInit
<1>2. CASE Short(kind) = kind
  <2>1. Trim(kind) \in Strings
    BY <1>1, TrimIs
  <2>2. Short(Trim(kind)) = Trim(kind)
    BY <1>1, <1>2, <2>1, ShortIs DEF KindsSpelled, IdentityInit
  <2> QED BY <1>1, <1>2, <2>2 DEF SpellingInv, Named
<1>3. CASE Short(kind) # kind
  BY <1>1, <1>3, ShortIs DEF SpellingInv, Named
<1> QED BY <1>2, <1>3

(* A spelling with the same name, whose id is the name with the native id.  *)
LEMMA StaysCanonical ==
    ASSUME SpellingInv, Canonical # Missing,
           NEW p \in Strings, Lower(p) = Lower(Named), NEW v, v = Native(Named, Trim(id)),
           id' = Append(p, ":") \o v, Named' = Named
    PROVE  Canonical' = Canonical /\ id' \in Strings
<1>1. /\ Named # <<>> /\ Trim(id) # <<>> /\ v # <<>> /\ Canonical = Append(Named, ":") \o v
  BY CanonicalIs DEF SpellingInv, Canonical, Named
<1>2. Named \in Strings /\ Named[1] # Space
  <2>1. Short(kind) \in Strings
    BY ShortIs DEF SpellingInv
  <2> QED BY <1>1, <2>1, TrimIs DEF Named, IsTrimmed
<1>3. v \in Strings /\ v[Len(v)] # Space
  <2>1. Trim(id) \in Strings /\ IsTrimmed(Trim(id))
    BY TrimIs DEF SpellingInv
  <2> QED BY <1>1, <1>2, <2>1, NativeIs
<1>4. /\ id' \in Strings /\ id' # <<>> /\ Trim(id') = id' /\ Native(Named, id') = v
  BY <1>1, <1>2, <1>3, Qualified
<1>5. Trim(Short(kind')) = Named
  BY DEF Named
<1>6. CanonicalSubjectId(kind', id') = Append(Named, ":") \o v
  BY <1>1, <1>4, <1>5, CanonicalOf
<1> QED BY <1>1, <1>4, <1>6 DEF Canonical

LEMMA RequalifyKeeps ==
    ASSUME SpellingInv, Requalify
    PROVE  SpellingInv' /\ Canonical' = Canonical
<1> DEFINE v == Native(Named, Trim(id))
<1>1. Named \in Strings /\ IsTrimmed(Named)
  <2>1. Short(kind) \in Strings
    BY ShortIs DEF SpellingInv
  <2> QED BY <2>1, TrimIs DEF Named
<1>2. kind' \in Strings /\ Named' = Named
  <2>1. CASE kind' = kind
    BY <2>1 DEF SpellingInv, Named
  <2>2. CASE kind' = Named
    <3>1. Trim(Short(Named)) = Named
      BY <1>1, TrimmedStays DEF SpellingInv
    <3>2. Trim(Short(kind')) = Named
      BY <2>2, <3>1
    <3> QED BY <1>1, <2>2, <3>2 DEF Named
  <2> QED BY <2>1, <2>2 DEF Requalify
<1>3. Canonical # Missing /\ id' = Append(Named, ":") \o v
  BY CanonicalIs DEF Requalify, SpellingInv, Canonical, Named
<1> HIDE DEF v
<1>4. Canonical' = Canonical /\ id' \in Strings
  BY <1>1, <1>2, <1>3, StaysCanonical DEF v
<1> QED BY <1>2, <1>4 DEF SpellingInv

LEMMA QualifyKeeps ==
    ASSUME SpellingInv, Qualify
    PROVE  SpellingInv' /\ Canonical' = Canonical
<1>1. Named \in Strings
  <2>1. Short(kind) \in Strings
    BY ShortIs DEF SpellingInv
  <2> QED BY <2>1, TrimIs DEF Named
<1>2. kind' = kind /\ Named' = Named
  BY DEF Qualify, Named
<1>3. PICK p \in {Named, Lower(Named)} : id' = Append(p, ":") \o Trim(id)
  BY DEF Qualify
<1>4. p \in Strings /\ Lower(p) = Lower(Named)
  BY <1>1, <1>3, LowerIs
<1>5. Native(Named, Trim(id)) = Trim(id) /\ Canonical # Missing
  BY DEF Qualify, Native
<1>6. Canonical' = Canonical /\ id' \in Strings
  BY <1>2, <1>3, <1>4, <1>5, StaysCanonical
<1> QED BY <1>2, <1>6 DEF SpellingInv

LEMMA PadIdKeeps ==
    ASSUME SpellingInv, PadId
    PROVE  SpellingInv' /\ Canonical' = Canonical
<1>1. kind' = kind /\ Named' = Named
  BY DEF PadId, Named
<1>2. id' \in Strings /\ Trim(id') = Trim(id)
  BY PadKeeps DEF PadId, SpellingInv
<1>3. CanonicalSubjectId(kind, id') = CanonicalSubjectId(kind, id)
  BY <1>2 DEF CanonicalSubjectId
<1> QED BY <1>1, <1>2, <1>3 DEF SpellingInv, Canonical

(* A kind with white space around it is no long name. *)
LEMMA PaddedIsShort ==
    ASSUME NEW k \in Strings, NEW l \in {<<Space>> \o k, Append(k, Space)}
    PROVE  Short(l) = l
<1>1. Len(l) = Len(k) + 1 /\ Len(k) \in Nat /\ (l[1] = Space \/ l[Len(l)] = Space)
  <2>1. CASE l = <<Space>> \o k
    BY <2>1 DEF Strings
  <2>2. CASE l = Append(k, Space)
    BY <2>2 DEF Strings
  <2> QED BY <2>1, <2>2
<1>2. l # <<"animus.task">> /\ l # <<"animus.requirement">>
  <2>1. "animus.task" # Space /\ "animus.requirement" # Space
    BY SpaceIsApart
  <2> QED BY <1>1, <2>1
<1> QED BY <1>2 DEF Short

LEMMA PadKindKeeps ==
    ASSUME SpellingInv, PadKind
    PROVE  SpellingInv' /\ Canonical' = Canonical
<1>1. /\ kind \in Strings /\ Short(kind) = kind /\ id' = id
      /\ kind' \in {<<Space>> \o kind, Append(kind, Space)}
  BY DEF SpellingInv, PadKind
<1>2. kind' \in Strings /\ Trim(kind') = Trim(kind) /\ Short(kind') = kind'
  BY <1>1, PadKeeps, PaddedIsShort
<1>3. Trim(Short(kind')) = Trim(Short(kind))
  BY <1>1, <1>2
<1>4. Named' = Named
  BY <1>3 DEF Named
<1>5. CanonicalSubjectId(kind', id) = CanonicalSubjectId(kind, id)
  BY <1>3 DEF CanonicalSubjectId
<1> QED BY <1>1, <1>2, <1>4, <1>5 DEF SpellingInv, Canonical

LEMMA PassKeeps ==
    ASSUME SpellingInv, Pass
    PROVE  SpellingInv' /\ Canonical' = Canonical
BY RequalifyKeeps, QualifyKeeps, PadIdKeeps, PadKindKeeps DEF Pass

(* For kinds and ids of any length, however often and in whatever order     *)
(* producers qualify, shorten and pad them: a subject keeps its canonical  *)
(* id, unless a kind pads a long name.                                     *)
THEOREM SubjectStaysOne == KindsSpelled => (IdentitySpec => OneSubject)
<1> SUFFICES ASSUME KindsSpelled
             PROVE  IdentitySpec => OneSubject
  OBVIOUS
<1>1. IdentityInit => SpellingInv
  BY SpellingStarts
<1>2. SpellingInv /\ [Pass]_spelling => SpellingInv'
  <2> SUFFICES ASSUME SpellingInv, [Pass]_spelling
               PROVE  SpellingInv'
    OBVIOUS
  <2>1. CASE UNCHANGED spelling
    BY <2>1 DEF spelling, SpellingInv, Named
  <2> QED BY <2>1, PassKeeps
<1>3. SpellingInv /\ [Pass]_spelling => [Canonical' = Canonical]_spelling
  BY PassKeeps
<1> QED BY <1>1, <1>2, <1>3, PTL DEF IdentitySpec, OneSubject

=============================================================================
