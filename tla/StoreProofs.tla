----------------------------- MODULE StoreProofs -----------------------------
(***************************************************************************)
(* The two queue files change as one and what was answered survives, for    *)
(* any processes, ids and disks.                                           *)
(*                                                                         *)
(* A power loss leaves one of the disks in Images, and every record of the  *)
(* history in Durable.  StoreInv therefore speaks of all images at once:    *)
(* AnswersInv says that what was answered holds on each of them, and        *)
(* ProcInv says of each process what its next steps need to keep that.     *)
(* FlushShape, NoteShape and PowerShape say how the images change; then     *)
(* one lemma per file operation, and the refinement of AtomicQueue.        *)
(***************************************************************************)
EXTENDS StoreCommit, FiniteSetTheorems, TLAPS

-----------------------------------------------------------------------------
(* Lines of the history. *)

(* The ids whose record a history has, whole. *)
Closed(h) == {i \in Ids : \E m \in DOMAIN h : h[m] = <<"close", i>>}

(* A line is begun on a fresh line only, and only its own begun line is      *)
(* completed; anything may be broken off.                                  *)
MayFollow(s, t) ==
    /\ t[1] = "open" => s = Newline
    /\ t[1] = "close" => s = <<"open", t[2]>>
    /\ s[1] = "close" => t = Newline

Fits(h, t) == IF h = <<>> THEN t[1] # "close" ELSE MayFollow(h[Len(h)], t)

Chained(h) == \A m \in DOMAIN h : m > 1 => MayFollow(h[m - 1], h[m])

WellFormed(h) == (h # <<>> => h[1][1] # "close") /\ Chained(h)

LEMMA ReadableIsClosed ==
    ASSUME NEW h \in Seq(Token), WellFormed(h)
    PROVE  Readable(h) = Closed(h)
<1>1. Readable(h) \subseteq Closed(h)
  BY DEF Readable, Closed
<1>2. ASSUME NEW i \in Ids, NEW m \in DOMAIN h, h[m] = <<"close", i>>
      PROVE  i \in Readable(h)
  <2>1. DOMAIN h = 1..Len(h) /\ Len(h) \in Nat
    OBVIOUS
  <2>2. m > 1
    BY <1>2, <2>1 DEF WellFormed
  <2>3. m - 1 \in DOMAIN h /\ h[m - 1] = <<"open", i>>
    BY <1>2, <2>1, <2>2 DEF WellFormed, Chained, MayFollow
  <2>4. m - 1 = 1 \/ h[m - 2] = Newline
    <3>1. m - 1 > 1 => MayFollow(h[m - 2], h[m - 1])
      BY <2>1, <2>2, <2>3 DEF WellFormed, Chained
    <3> QED BY <2>1, <2>2, <2>3, <3>1 DEF MayFollow
  <2>5. m = Len(h) \/ h[m + 1] = Newline
    <3>1. m # Len(h) => m + 1 \in DOMAIN h /\ m + 1 > 1 /\ m + 1 - 1 = m
      BY <2>1
    <3>2. m # Len(h) => MayFollow(h[m], h[m + 1])
      BY <3>1 DEF WellFormed, Chained
    <3> QED BY <1>2, <3>2 DEF MayFollow
  <2> DEFINE k == m - 1
  <2>6. k \in DOMAIN h /\ k + 1 = m /\ k - 1 = m - 2 /\ k + 2 = m + 1 /\ k < Len(h)
    BY <2>1, <2>2
  <2>7. /\ h[k] = <<"open", i>>
        /\ k = 1 \/ h[k - 1] = Newline
        /\ k < Len(h) /\ h[k + 1] = <<"close", i>>
        /\ k + 1 = Len(h) \/ h[k + 2] = Newline
    BY <1>2, <2>3, <2>4, <2>5, <2>6
  <2> HIDE DEF k
  <2> QED BY <2>6, <2>7 DEF Readable
<1> QED BY <1>1, <1>2 DEF Closed

LEMMA AppendToken ==
    ASSUME NEW h \in Seq(Token), NEW t \in Token
    PROVE  /\ Append(h, t) \in Seq(Token) /\ Len(Append(h, t)) = Len(h) + 1
           /\ Closed(Append(h, t)) = Closed(h) \cup {i \in Ids : t = <<"close", i>>}
           /\ WellFormed(h) /\ Fits(h, t) => WellFormed(Append(h, t))
           /\ Append(h, t) # <<>> /\ Append(h, t)[Len(Append(h, t))] = t
<1> DEFINE g == Append(h, t)
<1>1. /\ g \in Seq(Token) /\ Len(h) \in Nat /\ Len(g) = Len(h) + 1
      /\ DOMAIN g = 1..(Len(h) + 1) /\ DOMAIN h = 1..Len(h)
      /\ \A m \in 1..Len(h) : g[m] = h[m]
      /\ g[Len(h) + 1] = t
  OBVIOUS
<1>2. h = <<>> <=> Len(h) = 0
  OBVIOUS
<1> HIDE DEF g
<1>3. Closed(g) = Closed(h) \cup {i \in Ids : t = <<"close", i>>}
  <2>1. ASSUME NEW i \in Ids, NEW m \in DOMAIN g, g[m] = <<"close", i>>
        PROVE  i \in Closed(h) \/ t = <<"close", i>>
    <3>1. (m \in DOMAIN h /\ h[m] = g[m]) \/ g[m] = t
      BY <1>1
    <3> QED BY <2>1, <3>1 DEF Closed
  <2>2. ASSUME NEW i \in Ids, NEW m \in DOMAIN h, h[m] = <<"close", i>>
        PROVE  i \in Closed(g)
    <3>1. m \in DOMAIN g /\ g[m] = h[m]
      BY <1>1
    <3> QED BY <2>2, <3>1 DEF Closed
  <2>3. ASSUME NEW i \in Ids, t = <<"close", i>>
        PROVE  i \in Closed(g)
    <3>1. Len(h) + 1 \in DOMAIN g
      BY <1>1
    <3> QED BY <1>1, <2>3, <3>1 DEF Closed
  <2> QED BY <2>1, <2>2, <2>3 DEF Closed
<1>4. ASSUME WellFormed(h), Fits(h, t)
      PROVE  WellFormed(g)
  <2>1. g[1][1] # "close"
    BY <1>1, <1>2, <1>4 DEF WellFormed, Fits
  <2>2. ASSUME NEW m \in DOMAIN g, m > 1
        PROVE  MayFollow(g[m - 1], g[m])
    <3>1. CASE m \in 1..Len(h)
      BY <1>1, <1>4, <2>2, <3>1 DEF WellFormed, Chained
    <3>2. CASE m = Len(h) + 1
      BY <1>1, <1>2, <1>4, <2>2, <3>2 DEF Fits
    <3> QED BY <1>1, <3>1, <3>2
  <2> QED BY <2>1, <2>2 DEF WellFormed, Chained
<1>5. g # <<>>
  BY <1>1
<1> QED BY <1>1, <1>3, <1>4, <1>5 DEF g

LEMMA Prefix ==
    ASSUME NEW h \in Seq(Token), NEW n \in 0..Len(h)
    PROVE  LET g == SubSeq(h, 1, n) IN
           /\ g \in Seq(Token) /\ Len(g) = n
           /\ Closed(g) = {i \in Ids : \E m \in 1..n : h[m] = <<"close", i>>}
           /\ WellFormed(h) => WellFormed(g)
<1> DEFINE g == SubSeq(h, 1, n)
<1>1. /\ g \in Seq(Token) /\ Len(g) = n /\ DOMAIN g = 1..n /\ n \in Nat
      /\ \A m \in 1..n : g[m] = h[m] /\ m \in DOMAIN h
      /\ DOMAIN h = 1..Len(h) /\ Len(h) \in Nat
  OBVIOUS
<1>2. g # <<>> => n > 0 /\ h # <<>>
  BY <1>1
<1> HIDE DEF g
<1>3. Closed(g) = {i \in Ids : \E m \in 1..n : h[m] = <<"close", i>>}
  BY <1>1 DEF Closed
<1>4. ASSUME WellFormed(h)
      PROVE  WellFormed(g)
  <2>1. g # <<>> => g[1][1] # "close"
    BY <1>1, <1>2, <1>4 DEF WellFormed
  <2>2. ASSUME NEW m \in DOMAIN g, m > 1
        PROVE  MayFollow(g[m - 1], g[m])
    <3>1. m \in 1..n /\ m - 1 \in 1..n
      BY <1>1, <2>2
    <3> QED BY <1>1, <1>4, <2>2, <3>1 DEF WellFormed, Chained
  <2> QED BY <2>1, <2>2 DEF WellFormed, Chained
<1> QED BY <1>1, <1>3, <1>4 DEF g

LEMMA NoTokens == Closed(<<>>) = {} /\ WellFormed(<<>>) /\ <<>> \in Seq(Token)
BY DEF Closed, WellFormed, Chained

(* What is left to write, after its head was written. *)
LEMMA RestOfLines ==
    ASSUME NEW l \in Seq(Token), l # <<>>, Chained(l)
    PROVE  /\ Head(l) \in Token /\ Head(l) = l[1] /\ Tail(l) \in Seq(Token)
           /\ Closed(l) = Closed(Tail(l)) \cup {i \in Ids : Head(l) = <<"close", i>>}
           /\ Chained(Tail(l))
           /\ Tail(l) # <<>> => MayFollow(Head(l), Tail(l)[1])
<1> DEFINE r == Tail(l)
<1>1. /\ r \in Seq(Token) /\ Len(l) \in Nat /\ Len(l) > 0 /\ Len(r) = Len(l) - 1
      /\ DOMAIN r = 1..(Len(l) - 1) /\ DOMAIN l = 1..Len(l)
      /\ \A m \in 1..(Len(l) - 1) : r[m] = l[m + 1]
      /\ Head(l) = l[1] /\ Head(l) \in Token
  OBVIOUS
<1>2. r # <<>> => Len(l) > 1
  BY <1>1
<1> HIDE DEF r
<1>3. Closed(l) = Closed(r) \cup {i \in Ids : Head(l) = <<"close", i>>}
  <2>1. ASSUME NEW i \in Ids, NEW m \in DOMAIN l, l[m] = <<"close", i>>
        PROVE  i \in Closed(r) \/ Head(l) = <<"close", i>>
    <3>1. CASE m = 1
      BY <1>1, <2>1, <3>1
    <3>2. CASE m # 1
      <4>1. m - 1 \in DOMAIN r /\ r[m - 1] = l[m]
        BY <1>1, <3>2
      <4> QED BY <2>1, <4>1 DEF Closed
    <3> QED BY <3>1, <3>2
  <2>2. ASSUME NEW i \in Ids, NEW m \in DOMAIN r, r[m] = <<"close", i>>
        PROVE  i \in Closed(l)
    <3>1. m + 1 \in DOMAIN l /\ l[m + 1] = r[m]
      BY <1>1
    <3> QED BY <2>2, <3>1 DEF Closed
  <2>3. ASSUME NEW i \in Ids, Head(l) = <<"close", i>>
        PROVE  i \in Closed(l)
    <3>1. 1 \in DOMAIN l
      BY <1>1
    <3> QED BY <1>1, <2>3, <3>1 DEF Closed
  <2> QED BY <2>1, <2>2, <2>3 DEF Closed
<1>4. ASSUME NEW m \in DOMAIN r, m > 1
      PROVE  MayFollow(r[m - 1], r[m])
  <2>1. m + 1 \in DOMAIN l /\ m + 1 > 1 /\ m + 1 - 1 = m /\ r[m] = l[m + 1] /\ r[m - 1] = l[m]
    BY <1>1, <1>4
  <2>2. MayFollow(l[m + 1 - 1], l[m + 1])
    BY <2>1 DEF Chained
  <2> QED BY <2>1, <2>2
<1>5. r # <<>> => MayFollow(Head(l), r[1])
  <2>1. r # <<>> => 2 \in DOMAIN l /\ 2 > 1 /\ 2 - 1 = 1 /\ r[1] = l[2]
    BY <1>1, <1>2
  <2>2. r # <<>> => MayFollow(l[1], l[2])
    BY <2>1 DEF Chained
  <2> QED BY <1>1, <2>1, <2>2
<1> QED BY <1>1, <1>3, <1>4, <1>5 DEF r, Chained

-----------------------------------------------------------------------------
(* The lines a call appends: every id has a rank, and every rank an id. *)

Below(S, i) == {j \in S : j < i}
Nth(S, n) == CHOOSE i \in S : Cardinality(Below(S, i)) = n - 1

LEMMA Ranks ==
    ASSUME NEW S \in SUBSET Ids
    PROVE  /\ IsFiniteSet(S) /\ Cardinality(S) \in Nat
           /\ \A n \in 1..Cardinality(S) : Nth(S, n) \in S
           /\ \A i \in S : \E n \in 1..Cardinality(S) : Nth(S, n) = i
<1> DEFINE c == Cardinality(S)
           rank == [i \in S |-> Cardinality(Below(S, i)) + 1]
<1>1. IsFiniteSet(S) /\ c \in Nat /\ S \subseteq Nat
  <2>1. MaxIds \in Nat /\ IsFiniteSet(1..MaxIds)
    BY StoreAssumption, FS_Interval
  <2>2. S \in SUBSET (1..MaxIds) /\ S \subseteq Nat
    BY <2>1 DEF Ids
  <2>3. IsFiniteSet(S)
    BY <2>1, <2>2, FS_Subset
  <2> QED BY <2>2, <2>3, FS_CardinalityType
<1>2. \A i \in S : IsFiniteSet(Below(S, i)) /\ Cardinality(Below(S, i)) \in Nat
  <2>1. \A i \in S : Below(S, i) \in SUBSET S
    BY DEF Below
  <2> QED BY <1>1, <2>1, FS_Subset, FS_CardinalityType
<1>3. ASSUME NEW i \in S
      PROVE  Cardinality(Below(S, i)) < c
  <2>1. Below(S, i) \in SUBSET S /\ Below(S, i) # S
    BY <1>1 DEF Below
  <2>2. Cardinality(Below(S, i)) <= c /\ (c = Cardinality(Below(S, i)) => S = Below(S, i))
    BY <1>1, <2>1, FS_Subset
  <2> QED BY <1>1, <1>2, <2>1, <2>2
<1>4. ASSUME NEW i \in S, NEW j \in S, i < j
      PROVE  Cardinality(Below(S, i)) < Cardinality(Below(S, j))
  <2>0. \A k \in S : k < i => k < j
    BY <1>1, <1>4
  <2>1. Below(S, i) \in SUBSET Below(S, j)
    BY <2>0 DEF Below
  <2>2. Below(S, i) # Below(S, j)
    BY <1>1, <1>4 DEF Below
  <2>3. /\ Cardinality(Below(S, i)) <= Cardinality(Below(S, j))
        /\ Cardinality(Below(S, j)) = Cardinality(Below(S, i)) => Below(S, j) = Below(S, i)
    BY <1>2, <2>1, FS_Subset
  <2> QED BY <1>2, <2>2, <2>3
<1>5. \A i, j \in S : Cardinality(Below(S, i)) = Cardinality(Below(S, j)) => i = j
  <2>1. \A i, j \in S : i < j \/ j < i \/ i = j
    BY <1>1
  <2> QED BY <1>2, <1>4, <2>1
<1>6. rank \in [S -> 1..c]
  BY <1>1, <1>2, <1>3
<1>7. \A i, j \in S : rank[i] = rank[j] => i = j
  BY <1>2, <1>5
<1>8. rank \in Injection(S, 1..c)
  BY <1>6, <1>7 DEF Injection, IsInjective
<1>9. \A n \in 1..c : \E i \in S : rank[i] = n
  <2>1. IsFiniteSet(1..c) /\ Cardinality(1..c) = c
    BY <1>1, FS_Interval
  <2>2. rank \in Surjection(S, 1..c)
    <3> HIDE DEF rank
    <3> QED BY <1>8, <2>1, FS_Injection
  <2> QED BY <2>2 DEF Surjection
<1>10. ASSUME NEW n \in 1..c
       PROVE  \E i \in S : Cardinality(Below(S, i)) = n - 1
  <2>1. PICK i \in S : rank[i] = n
    BY <1>9
  <2>2. n = Cardinality(Below(S, i)) + 1
    BY <2>1
  <2> QED BY <1>2, <2>2
<1>11. ASSUME NEW i \in S
       PROVE  \E n \in 1..c : Nth(S, n) = i
  <2> DEFINE n == Cardinality(Below(S, i)) + 1
  <2>1. n \in 1..c /\ Cardinality(Below(S, i)) = n - 1
    BY <1>1, <1>2, <1>3
  <2> HIDE DEF n
  <2>2. Nth(S, n) \in S /\ Cardinality(Below(S, Nth(S, n))) = n - 1
    BY <2>1 DEF Nth
  <2>3. Nth(S, n) = i
    BY <1>5, <2>1, <2>2
  <2> QED BY <2>1, <2>3
<1> QED BY <1>1, <1>10, <1>11 DEF Nth

LEMMA LinesOfShape ==
    ASSUME NEW S \in SUBSET Ids
    PROVE  LET l == LinesOf(S) IN
           /\ l \in Seq(Token) /\ Closed(l) = S /\ Chained(l)
           /\ S # {} => l # <<>> /\ l[1][1] = "open"
<1> DEFINE c == Cardinality(S)
           l == LinesOf(S)
           n(k) == (k + 2) \div 3
           r(k) == (k + 2) % 3
           Part(i) == <<<<"open", i>>, <<"close", i>>, Newline>>
<1>1. c \in Nat /\ (\A m \in 1..c : Nth(S, m) \in S) /\ (S # {} => c > 0)
  BY Ranks, FS_EmptySet
<1>2. l = [k \in 1..(3 * c) |-> Part(Nth(S, n(k)))[r(k) + 1]]
  BY DEF LinesOf, Nth, Below
<1>3. ASSUME NEW k \in 1..(3 * c)
      PROVE  n(k) \in 1..c /\ r(k) \in 0..2 /\ k + 2 = 3 * n(k) + r(k)
  BY <1>1
<1>4. ASSUME NEW k \in 1..(3 * c), k > 1
      PROVE  \/ r(k) = 0 /\ r(k - 1) = 2
             \/ r(k) > 0 /\ r(k - 1) = r(k) - 1 /\ n(k - 1) = n(k)
  BY <1>1
<1>5. \A i \in Ids : Part(i)[1] = <<"open", i>> /\ Part(i)[2] = <<"close", i>> /\ Part(i)[3] = Newline
  OBVIOUS
<1> HIDE DEF n, r, Part, l
<1>6. ASSUME NEW k \in 1..(3 * c)
      PROVE  LET i == Nth(S, n(k)) IN
             /\ i \in S
             /\ r(k) = 0 => l[k] = <<"open", i>>
             /\ r(k) = 1 => l[k] = <<"close", i>>
             /\ r(k) = 2 => l[k] = Newline
  <2>1. Nth(S, n(k)) \in S /\ l[k] = Part(Nth(S, n(k)))[r(k) + 1]
    BY <1>1, <1>2, <1>3
  <2> QED BY <2>1, <1>5
<1>7. l \in Seq(Token) /\ DOMAIN l = 1..(3 * c)
  <2>1. \A k \in 1..(3 * c) : l[k] \in Token
    <3>1. \A i \in Ids : <<"open", i>> \in Token /\ <<"close", i>> \in Token /\ Newline \in Token
      BY DEF Token, Newline
    <3>2. ASSUME NEW k \in 1..(3 * c)
          PROVE  l[k] \in Token
      <4>1. Nth(S, n(k)) \in Ids /\ r(k) \in {0, 1, 2}
        BY <1>3, <1>6
      <4> QED BY <1>6, <3>1, <4>1
    <3> QED BY <3>2
  <2>2. l \in [1..(3 * c) -> Token] /\ 3 * c \in Nat
    BY <1>1, <1>2, <2>1
  <2> QED BY <2>2
<1>8. Closed(l) \subseteq S
  <2>1. ASSUME NEW i \in Ids, NEW k \in 1..(3 * c), l[k] = <<"close", i>>
        PROVE  i \in S
    BY <1>3, <1>6, <2>1 DEF Newline
  <2> QED BY <1>7, <2>1 DEF Closed
<1>9. ASSUME NEW i \in S
      PROVE  i \in Closed(l)
  <2>1. PICK m \in 1..c : Nth(S, m) = i
    BY Ranks
  <2>2. 3 * m - 1 \in 1..(3 * c) /\ n(3 * m - 1) = m /\ r(3 * m - 1) = 1
    BY <1>1 DEF n, r
  <2>3. l[3 * m - 1] = <<"close", i>>
    BY <1>6, <2>1, <2>2
  <2> QED BY <1>7, <2>2, <2>3 DEF Closed
<1>10. ASSUME NEW k \in DOMAIN l, k > 1
       PROVE  MayFollow(l[k - 1], l[k])
  <2>1. k \in 1..(3 * c) /\ k - 1 \in 1..(3 * c)
    BY <1>1, <1>7, <1>10
  <2>2. CASE r(k) = 0 /\ r(k - 1) = 2
    BY <1>6, <2>1, <2>2 DEF MayFollow, Newline
  <2>3. CASE r(k) > 0 /\ r(k - 1) = r(k) - 1 /\ n(k - 1) = n(k)
    <3>1. \/ r(k) = 1 /\ r(k - 1) = 0
          \/ r(k) = 2 /\ r(k - 1) = 1
      <4>1. r(k) \in {0, 1, 2}
        BY <1>3, <2>1
      <4> QED BY <2>3, <4>1
    <3> QED BY <1>6, <2>1, <2>3, <3>1 DEF MayFollow, Newline
  <2> QED BY <1>4, <1>10, <2>1, <2>2, <2>3
<1>11. S # {} => l # <<>> /\ l[1][1] = "open"
  <2>1. S # {} => 1 \in 1..(3 * c) /\ r(1) = 0
    BY <1>1 DEF r
  <2>2. S # {} => l # <<>>
    <3>1. DOMAIN <<>> = {}
      OBVIOUS
    <3>2. S # {} => DOMAIN l # {}
      BY <1>7, <2>1
    <3> QED BY <3>1, <3>2
  <2>3. S # {} => l[1][1] = "open"
    BY <1>6, <2>1
  <2> QED BY <2>2, <2>3
<1> QED BY <1>7, <1>8, <1>9, <1>10, <1>11 DEF l, Chained

-----------------------------------------------------------------------------
(* The disk: what a power loss may leave of it now. *)

Images == {With(K) : K \in Cuts}

FilesType ==
    /\ disk \in Disk
    /\ pending \in [DOMAIN pending -> Change]
    /\ \E n \in Nat : DOMAIN pending \subseteq 1..n

(* A disk with one more change. *)
Apply(c, d) ==
    [ ordered |-> d.ordered,
      dir   |-> d.dir \/ c.op = "mkdir",
      made  |-> d.made \/ c.op = "creat",
      queue |-> IF c.op = "rename" THEN c.queue ELSE d.queue ]

LEMMA LeastNumber ==
    ASSUME NEW T \in SUBSET Nat, T # {}
    PROVE  \E x \in T : \A y \in T : x <= y
<1> DEFINE R == OpToRel(<, Nat)
<1>1. IsWellFoundedOn(R, Nat)
  BY NatLessThanWellFounded, Zenon
<1>2. \A x, y \in Nat : y < x => <<y, x>> \in R
  BY DEF OpToRel
<1> HIDE DEF R
<1>3. PICK x \in T : \A y \in T : ~ (<<y, x>> \in R)
  BY <1>1, WFMin
<1>4. x \in Nat /\ \A y \in T : y \in Nat /\ ~ (y < x)
  BY <1>2, <1>3
<1> QED BY <1>4

LEMMA LatestIs ==
    ASSUME NEW n \in Nat, NEW T \in SUBSET (1..n), T # {}
    PROVE  Latest(T) \in T /\ \A y \in T : y <= Latest(T)
<1> DEFINE U == {n - t : t \in T}
<1>1. \A t \in T : t \in Nat /\ n - t \in Nat
  OBVIOUS
<1>2. U \in SUBSET Nat /\ U # {} /\ \A t \in T : n - t \in U
  BY <1>1
<1> HIDE DEF U
<1>3. PICK u \in U : \A v \in U : u <= v
  BY <1>2, LeastNumber
<1>4. PICK x \in T : u = n - x
  BY DEF U
<1>5. \A y \in T : n - x <= n - y
  BY <1>2, <1>3, <1>4
<1>6. \A y \in T : y <= x
  BY <1>1, <1>5
<1> QED BY <1>6 DEF Latest

(* The last change of a set, if all others of another set are before it. *)
LEMMA LatestOfMore ==
    ASSUME NEW n \in Nat, NEW T \in SUBSET (1..n), NEW S \in SUBSET T, S # {},
           \A y \in T \ S : \A x \in S : y <= x
    PROVE  Latest(T) = Latest(S)
<1>1. Latest(S) \in S /\ \A y \in S : y <= Latest(S)
  BY LatestIs
<1>2. Latest(T) \in T /\ \A y \in T : y <= Latest(T)
  BY LatestIs
<1>3. Latest(T) <= Latest(S)
  BY <1>1, <1>2
<1>4. Latest(S) \in T /\ Latest(S) <= Latest(T)
  BY <1>1, <1>2
<1>5. Latest(S) \in 1..n /\ Latest(T) \in 1..n
  BY <1>2, <1>4
<1> QED BY <1>3, <1>4, <1>5

LEMMA RenamesAre ==
    ASSUME FilesType, NEW K \in SUBSET DOMAIN pending
    PROVE  /\ Renames(K) \subseteq K
           /\ Renames(K) # {} => /\ Latest(Renames(K)) \in Renames(K)
                                 /\ \A y \in Renames(K) : y <= Latest(Renames(K))
           /\ \A k \in Renames(K) : pending[k].queue \subseteq Ids \cup {Unnamed}
<1>1. PICK n \in Nat : DOMAIN pending \subseteq 1..n
  BY DEF FilesType
<1>2. Renames(K) \subseteq K
  BY DEF Renames
<1>3. Renames(K) \in SUBSET (1..n)
  BY <1>1, <1>2
<1>4. \A k \in Renames(K) : pending[k] \in Change /\ pending[k].op = "rename"
  BY <1>2 DEF Renames, FilesType
<1>5. \A c \in Change : c.op = "rename" => c.queue \subseteq Ids \cup {Unnamed}
  BY DEF Change
<1> QED BY <1>2, <1>3, <1>4, <1>5, LatestIs

LEMMA WithIsDisk ==
    ASSUME FilesType, NEW K \in SUBSET DOMAIN pending
    PROVE  With(K) \in Disk
<1>1. disk \in Disk
  BY DEF FilesType
<1>2. With(K).queue \subseteq Ids \cup {Unnamed}
  BY <1>1, RenamesAre DEF With, Disk
<1>3. With(K).ordered \in BOOLEAN /\ With(K).dir \in BOOLEAN /\ With(K).made \in BOOLEAN
  BY <1>1 DEF With, Disk
<1> QED BY <1>2, <1>3 DEF With, Disk

LEMMA ImagesAreDisks ==
    ASSUME FilesType
    PROVE  Seen \in Images /\ Images \subseteq Disk /\ \A I \in Images : I.ordered = disk.ordered
<1>1. DOMAIN pending \in Cuts
  BY DEF Cuts
<1>2. \A K \in Cuts : K \in SUBSET DOMAIN pending
  BY DEF Cuts
<1>3. \A K \in Cuts : With(K) \in Disk
  BY <1>2, WithIsDisk
<1>4. \A K \in Cuts : With(K).ordered = disk.ordered
  BY DEF With
<1> QED BY <1>1, <1>3, <1>4 DEF Seen, Images

(* An fsync takes possible disks away: what the machine has then is one of   *)
(* those it might have had, and processes see no difference.               *)
LEMMA FlushShape ==
    ASSUME FilesType, NEW ops, NEW here \in BOOLEAN, Flush(ops, here)
    PROVE  /\ FilesType' /\ disk'.ordered = disk.ordered
           /\ Seen' = Seen /\ Images' \subseteq Images
           /\ {"creat", "rename"} \subseteq ops => \A I \in Images' : I.queue = Seen.queue
           /\ disk.ordered /\ here => \A I \in Images' : I = Seen
<1> DEFINE F == Flushed(ops, here)
           rest == DOMAIN pending \ F
<1>1. /\ F \subseteq DOMAIN pending
      /\ disk' = With(F) /\ pending' = [k \in rest |-> pending[k]]
  BY DEF Flush, Flushed
<1>2. DOMAIN pending' = rest /\ \A k \in rest : pending'[k] = pending[k]
  BY <1>1
<1>3. disk' \in Disk /\ disk'.ordered = disk.ordered /\ disk \in Disk
  BY <1>1, WithIsDisk DEF With, FilesType
<1>4. PICK n \in Nat : DOMAIN pending \subseteq 1..n
  BY DEF FilesType
<1>5. disk.ordered => \A k \in F, m \in DOMAIN pending : m <= k => m \in F
  <2>1. ASSUME disk.ordered, NEW k \in F, NEW m \in DOMAIN pending, m <= k
        PROVE  m \in F
    <3>1. here \/ \E l \in DOMAIN pending : l >= k /\ pending[l].op \in ops
      BY <2>1 DEF Flushed
    <3>2. \A l \in DOMAIN pending : l >= k => l >= m
      BY <1>1, <1>4, <2>1
    <3>3. here \/ \E l \in DOMAIN pending : l >= m /\ pending[l].op \in ops
      BY <3>1, <3>2
    <3> QED BY <2>1, <3>3 DEF Flushed
  <2> QED BY <2>1
<1>6. ~disk.ordered => F = {k \in DOMAIN pending : pending[k].op \in ops}
  BY DEF Flushed
<1>7. \A k \in DOMAIN pending : pending[k].op \in ops => k \in F
  <2>1. disk.ordered => \A k \in DOMAIN pending : pending[k].op \in ops => k \in F
    BY <1>4 DEF Flushed
  <2> QED BY <1>6, <2>1
<1>8. disk.ordered /\ here => F = DOMAIN pending
  BY DEF Flushed
<1> HIDE DEF F, rest
<1>9. FilesType'
  <2>1. pending \in [DOMAIN pending -> Change]
    BY DEF FilesType
  <2>2. rest \subseteq DOMAIN pending
    BY DEF rest
  <2>3. pending' \in [rest -> Change]
    BY <1>1, <2>1, <2>2
  <2>4. rest \subseteq 1..n
    BY <1>4, <2>2
  <2> QED BY <1>2, <1>3, <1>4, <2>3, <2>4 DEF FilesType
<1>10. ASSUME NEW K \in SUBSET rest, disk.ordered => \A k \in K, m \in rest : m <= k => m \in K
       PROVE  F \cup K \in Cuts /\ With(K)' = With(F \cup K)
  <2> DEFINE M == F \cup K
             R == Renames(K)
  <2>1. K \subseteq rest /\ K \subseteq DOMAIN pending /\ K \cap F = {} /\ M \in SUBSET DOMAIN pending
    BY <1>1, <1>10 DEF rest
  <2>2. Renames(K)' = R
    BY <1>2, <2>1 DEF Renames
  <2>3. Renames(M) = Renames(F) \cup R
    BY DEF Renames
  <2>4. M \in Cuts
    <3>1. ASSUME disk.ordered, NEW k \in M, NEW m \in DOMAIN pending, m <= k
          PROVE  m \in M
      BY <1>5, <1>10, <3>1 DEF rest
    <3> QED BY <2>1, <3>1 DEF Cuts
  <2>5. With(K)'.queue = With(M).queue
    <3>1. CASE R = {}
      <4>1. With(K)'.queue = disk'.queue
        BY <2>2, <3>1 DEF With
      <4>2. Renames(M) = Renames(F)
        BY <2>3, <3>1
      <4> QED BY <1>1, <4>1, <4>2 DEF With
    <3>2. CASE R # {}
      <4>1. Latest(R) \in R /\ R \subseteq K /\ Renames(M) \subseteq M
        BY <2>1, <3>2, RenamesAre DEF Renames
      <4>2. \A y \in Renames(M) \ R : \A x \in R : y <= x
        <5>1. CASE disk.ordered
          <6>1. ASSUME NEW y \in F, NEW x \in K
                PROVE  y <= x
            <7>1. y \in Nat /\ x \in Nat /\ x \in DOMAIN pending /\ x \notin F
              BY <1>1, <1>4, <2>1
            <7>2. x <= y => x \in F
              BY <1>5, <5>1, <7>1
            <7> QED BY <7>1, <7>2
          <6>2. Renames(M) \ R \subseteq F
            BY <2>3, <4>1 DEF Renames
          <6> QED BY <4>1, <6>1, <6>2
        <5>2. CASE ~disk.ordered
          <6>1. "rename" \notin ops
            BY <1>6, <2>1, <4>1, <5>2 DEF Renames
          <6>2. Renames(F) = {}
            BY <1>6, <5>2, <6>1 DEF Renames
          <6> QED BY <2>3, <6>2
        <5> QED BY <5>1, <5>2
      <4>3. Latest(Renames(M)) = Latest(R)
        <5>1. Renames(M) \in SUBSET (1..n) /\ R \in SUBSET Renames(M)
          BY <1>4, <2>1, <2>3, <4>1
        <5> QED BY <3>2, <4>2, <5>1, LatestOfMore
      <4>4. With(K)'.queue = pending'[Latest(R)].queue
        BY <2>2, <3>2 DEF With
      <4>5. With(M).queue = pending[Latest(R)].queue
        BY <2>3, <3>2, <4>3 DEF With
      <4>6. pending'[Latest(R)] = pending[Latest(R)]
        BY <1>2, <2>1, <4>1
      <4> QED BY <4>4, <4>5, <4>6
    <3> QED BY <3>1, <3>2
  <2>6. /\ With(K)'.ordered = With(M).ordered
        /\ With(K)'.dir = With(M).dir
        /\ With(K)'.made = With(M).made
    <3>1. \A k \in K : pending'[k] = pending[k]
      BY <1>2, <2>1
    <3>2. /\ With(K)'.ordered = disk'.ordered
          /\ With(K)'.dir = (disk'.dir \/ \E k \in K : pending[k].op = "mkdir")
          /\ With(K)'.made = (disk'.made \/ \E k \in K : pending[k].op = "creat")
      BY <3>1 DEF With
    <3>3. /\ disk'.ordered = disk.ordered
          /\ disk'.dir = (disk.dir \/ \E k \in F : pending[k].op = "mkdir")
          /\ disk'.made = (disk.made \/ \E k \in F : pending[k].op = "creat")
      BY <1>1 DEF With
    <3>4. /\ With(M).ordered = disk.ordered
          /\ With(M).dir = (disk.dir \/ \E k \in M : pending[k].op = "mkdir")
          /\ With(M).made = (disk.made \/ \E k \in M : pending[k].op = "creat")
      BY DEF With
    <3>5. /\ (\E k \in M : pending[k].op = "mkdir") <=>
               (\E k \in F : pending[k].op = "mkdir") \/ (\E k \in K : pending[k].op = "mkdir")
          /\ (\E k \in M : pending[k].op = "creat") <=>
               (\E k \in F : pending[k].op = "creat") \/ (\E k \in K : pending[k].op = "creat")
      OBVIOUS
    <3> HIDE DEF M
    <3> QED BY <3>2, <3>3, <3>4, <3>5
  <2>7. With(K)' \in Disk /\ With(M) \in Disk
    <3>1. With(M) \in Disk
      BY <2>1, WithIsDisk
    <3>2. With(K)' = [ordered |-> With(K)'.ordered, dir |-> With(K)'.dir,
                      made |-> With(K)'.made, queue |-> With(K)'.queue]
      BY DEF With
    <3>3. With(M) = [ordered |-> With(M).ordered, dir |-> With(M).dir,
                     made |-> With(M).made, queue |-> With(M).queue]
      BY DEF With
    <3> HIDE DEF M
    <3> QED BY <2>5, <2>6, <3>1, <3>2, <3>3
  <2>8. With(K)' = With(M)
    <3> HIDE DEF M
    <3> QED BY <2>5, <2>6, <2>7 DEF Disk
  <2> QED BY <2>4, <2>8
<1>11. \A K \in Cuts' : /\ K \in SUBSET rest
                        /\ disk.ordered => \A k \in K, m \in rest : m <= k => m \in K
  BY <1>2, <1>3 DEF Cuts
<1>12. Images' \subseteq Images
  BY <1>10, <1>11 DEF Images
<1>13. PICK top \in SUBSET rest : top = rest
  OBVIOUS
<1>14. Seen' = With(top)'
  BY <1>2, <1>13 DEF Seen
<1>15. Seen' = Seen
  <2>1. F \cup top = DOMAIN pending
    BY <1>1, <1>13 DEF rest
  <2>2. With(top)' = With(F \cup top)
    BY <1>10, <1>13
  <2> QED BY <1>14, <2>1, <2>2 DEF Seen
<1>16. ASSUME {"creat", "rename"} \subseteq ops, NEW K \in Cuts'
       PROVE  With(K)'.queue = Seen.queue
  <2>1. K \subseteq rest
    BY <1>11
  <2>2. Renames(K)' = {} /\ Renames(top)' = {}
    BY <1>2, <1>7, <1>13, <1>16, <2>1 DEF Renames, rest
  <2>3. With(K)'.queue = disk'.queue /\ With(top)'.queue = disk'.queue
    BY <2>2 DEF With
  <2> QED BY <1>14, <1>15, <2>3
<1>17. ASSUME disk.ordered, here, NEW K \in Cuts'
       PROVE  With(K)' = Seen
  <2>1. K = top
    BY <1>8, <1>11, <1>13, <1>17 DEF rest
  <2> QED BY <1>14, <1>15, <2>1
<1> QED BY <1>3, <1>9, <1>12, <1>15, <1>16, <1>17 DEF Images

(* A change just made is on the disk or not; where changes keep their order, *)
(* it is there only after all earlier ones.                                *)
LEMMA NoteShape ==
    ASSUME FilesType, NEW c \in Change, Note(c), disk' = disk
    PROVE  /\ FilesType' /\ Seen' = Apply(c, Seen)
           /\ \A J \in Images' : \/ J \in Images
                                 \/ \E I \in Images : /\ J = Apply(c, I)
                                                      /\ disk.ordered => I = Seen
<1> DEFINE D == DOMAIN pending
           n == IF D = {} THEN 1 ELSE Latest(D) + 1
<1>1. pending' = [k \in D \cup {n} |-> IF k = n THEN c ELSE pending[k]]
  BY DEF Note
<1>2. PICK b \in Nat : D \subseteq 1..b
  BY DEF FilesType
<1>3. n \in Nat /\ n >= 1 /\ \A k \in D : k < n
  <2>1. D # {} => Latest(D) \in D /\ \A k \in D : k <= Latest(D)
    BY <1>2, LatestIs
  <2>2. D # {} => Latest(D) \in 1..b
    BY <1>2, <2>1
  <2>3. \A k \in D : k \in Nat
    BY <1>2
  <2>4. D = {} => n = 1
    OBVIOUS
  <2>5. D # {} => n = Latest(D) + 1
    OBVIOUS
  <2> HIDE DEF n, D
  <2> QED BY <2>1, <2>2, <2>3, <2>4, <2>5
<1> HIDE DEF n
<1>4. n \notin D /\ DOMAIN pending' = D \cup {n} /\ pending'[n] = c
  BY <1>1, <1>2, <1>3
<1>5. \A k \in D : pending'[k] = pending[k]
  BY <1>1, <1>4
<1>6. FilesType'
  <2>1. pending \in [D -> Change] /\ disk' \in Disk
    BY DEF FilesType
  <2>2. pending' \in [D \cup {n} -> Change]
    BY <1>1, <2>1
  <2>3. D \cup {n} \subseteq 1..n
    BY <1>2, <1>3
  <2> QED BY <1>3, <1>4, <2>1, <2>2, <2>3 DEF FilesType
<1>7. ASSUME NEW K \in SUBSET D
      PROVE  With(K)' = With(K)
  <2>1. Renames(K)' = Renames(K) /\ Renames(K) \subseteq K
    BY <1>5 DEF Renames
  <2>2. Renames(K) # {} => pending'[Latest(Renames(K))] = pending[Latest(Renames(K))]
    BY <1>5, <2>1, RenamesAre
  <2>3. With(K)'.queue = With(K).queue
    BY <2>1, <2>2 DEF With
  <2>4. /\ With(K)'.ordered = With(K).ordered
        /\ With(K)'.dir = With(K).dir
        /\ With(K)'.made = With(K).made
    BY <1>5 DEF With
  <2> QED BY <2>3, <2>4 DEF With
<1>8. ASSUME NEW K \in SUBSET D, NEW M, M = K \cup {n}
      PROVE  With(M)' = Apply(c, With(K))
  <2>1. Renames(M)' = Renames(K) \cup (IF c.op = "rename" THEN {n} ELSE {})
    BY <1>4, <1>5, <1>8 DEF Renames
  <2>2. Renames(K) # {} => pending'[Latest(Renames(K))] = pending[Latest(Renames(K))]
    BY <1>5, RenamesAre
  <2>3. c.op = "rename" => Latest(Renames(M)') = n
    <3>1. ASSUME c.op = "rename"
          PROVE  Latest(Renames(M)') = Latest({n})
      <4>1. Renames(M)' \subseteq D \cup {n} /\ {n} \in SUBSET Renames(M)'
        BY <2>1, <3>1 DEF Renames
      <4>2. Renames(M)' \in SUBSET (1..n)
        BY <1>2, <1>3, <4>1
      <4>3. \A y \in Renames(M)' \ {n} : y <= n
        BY <1>2, <1>3, <4>1
      <4> QED BY <1>3, <4>1, <4>2, <4>3, LatestOfMore
    <3>2. Latest({n}) = n
      BY <1>3 DEF Latest
    <3> QED BY <3>1, <3>2
  <2>4. With(M)'.queue = Apply(c, With(K)).queue
    <3>1. CASE c.op = "rename"
      <4>1. With(M)'.queue = pending'[n].queue
        BY <2>1, <2>3, <3>1 DEF With
      <4> QED BY <1>4, <3>1, <4>1 DEF Apply
    <3>2. CASE c.op # "rename"
      <4>1. Renames(M)' = Renames(K)
        BY <2>1, <3>2
      <4> QED BY <2>2, <3>2, <4>1 DEF With, Apply
    <3> QED BY <3>1, <3>2
  <2>5. /\ With(M)'.ordered = Apply(c, With(K)).ordered
        /\ With(M)'.dir = Apply(c, With(K)).dir
        /\ With(M)'.made = Apply(c, With(K)).made
    <3>1. \A o : (\E k \in M : pending'[k].op = o) <=> (\E k \in K : pending[k].op = o) \/ c.op = o
      BY <1>4, <1>5, <1>8
    <3> QED BY <3>1 DEF With, Apply
  <2> QED BY <2>4, <2>5 DEF With, Apply
<1>9. PICK top \in SUBSET (D \cup {n}) : top = D \cup {n}
  OBVIOUS
<1>10. Seen' = Apply(c, Seen)
  <2>1. Seen' = With(top)'
    BY <1>4, <1>9 DEF Seen
  <2> QED BY <1>8, <1>9, <2>1 DEF Seen
<1>11. ASSUME NEW K \in Cuts'
       PROVE  \/ With(K)' \in Images
              \/ \E I \in Images : With(K)' = Apply(c, I) /\ (disk.ordered => I = Seen)
  <2>1. /\ K \subseteq D \cup {n}
        /\ disk.ordered => \A k \in K, m \in D \cup {n} : m <= k => m \in K
    BY <1>4 DEF Cuts
  <2> DEFINE M == K \ {n}
  <2>2. M \in SUBSET D
    BY <2>1
  <2>3. M \in Cuts
    <3>1. ASSUME disk.ordered, NEW k \in M, NEW m \in D, m <= k
          PROVE  m \in M
      BY <1>4, <2>1, <3>1
    <3> QED BY <2>2, <3>1 DEF Cuts
  <2>4. CASE n \notin K
    <3>1. K = M
      BY <2>4
    <3> QED BY <1>7, <2>2, <2>3, <3>1 DEF Images
  <2>5. CASE n \in K
    <3>1. K = M \cup {n}
      BY <2>5
    <3>2. With(K)' = Apply(c, With(M))
      BY <1>8, <2>2, <3>1
    <3>3. disk.ordered => M = D
      <4>1. ASSUME disk.ordered, NEW m \in D
            PROVE  m \in K
        <5>1. m <= n
          BY <1>2, <1>3
        <5> QED BY <2>1, <2>5, <4>1, <5>1
      <4> QED BY <1>4, <2>2, <4>1
    <3>4. disk.ordered => With(M) = Seen
      BY <3>3 DEF Seen
    <3> QED BY <2>3, <3>2, <3>4 DEF Images
  <2> QED BY <2>4, <2>5
<1> QED BY <1>6, <1>10, <1>11 DEF Images

(* Nothing is pending after a power loss. *)
LEMMA PowerShape ==
    ASSUME disk' \in Disk, pending' = <<>>
    PROVE  FilesType' /\ Seen' = disk' /\ Images' = {disk'}
<1>1. DOMAIN <<>> = {} /\ <<>> \in [DOMAIN <<>> -> Change]
  OBVIOUS
<1>2. FilesType'
  <2>1. DOMAIN pending' \subseteq 1..0
    BY <1>1
  <2>2. pending' \in [DOMAIN pending' -> Change]
    BY <1>1
  <2> QED BY <2>1, <2>2 DEF FilesType
<1>3. With({})' = disk'
  <2>1. Renames({})' = {}
    BY DEF Renames
  <2>2. With({})'.queue = disk'.queue
    BY <2>1 DEF With
  <2>3. /\ With({})'.ordered = disk'.ordered
        /\ With({})'.dir = (disk'.dir \/ FALSE)
        /\ With({})'.made = (disk'.made \/ FALSE)
    BY DEF With
  <2>4. disk'.dir \in BOOLEAN /\ disk'.made \in BOOLEAN
    BY DEF Disk
  <2>5. With({})' \in Disk
    <3>1. With({})' = [ordered |-> disk'.ordered, dir |-> disk'.dir, made |-> disk'.made,
                       queue |-> disk'.queue]
      BY <2>1, <2>4 DEF With
    <3> QED BY <3>1 DEF Disk
  <2> QED BY <2>2, <2>3, <2>4, <2>5 DEF Disk
<1>4. Cuts' = {{}}
  BY <1>1 DEF Cuts
<1> QED BY <1>1, <1>2, <1>3, <1>4 DEF Seen, Images

-----------------------------------------------------------------------------
(* Types. *)

LocksMatch == \A p \in Procs : pc[p] \in Holding <=> lock = p

FilesTyped == FilesType /\ history \in Seq(Token) /\ synced \in 0..Len(history)
LocalTyped == /\ lock \in Procs \cup {Nobody} /\ pc \in [Procs -> Steps] /\ LocksMatch
              /\ minted \in 0..MaxIds /\ work \in [Procs -> Work]
AnswersTyped == promised \subseteq Ids /\ settled \subseteq Ids /\ repeated \subseteq Ids

Typed == FilesTyped /\ LocalTyped /\ AnswersTyped

LEMMA TypedIsOK == Typed => TypeOK
<1>1. FilesType => DOMAIN pending \subseteq Nat
  BY DEF FilesType
<1>2. FilesType => disk \in Disk /\ pending \in [DOMAIN pending -> Change]
  BY DEF FilesType
<1> QED BY <1>1, <1>2 DEF TypeOK, Typed, FilesTyped, LocalTyped, LocksMatch, AnswersTyped

LEMMA NoWorkType == NoWork \in Work
<1>1. NoWork.call \in Call
  BY DEF NoWork, Call
<1> QED BY <1>1 DEF NoWork, Work

LEMMA WorkFields ==
    ASSUME NEW w \in Work
    PROVE  /\ w.call \in Call /\ w.next \in SUBSET (Ids \cup {Unnamed}) /\ w.left \in Seq(Token)
           /\ w.created \in BOOLEAN /\ w.after \in {"load", "reply"}
           /\ w.added \in SUBSET Ids /\ w.finished \in SUBSET Ids /\ w.found \in SUBSET Ids
BY DEF Work

(* A process goes on: with the lock if it has it, without if it has not. *)
LEMMA StepTyped ==
    ASSUME LocalTyped, NEW p \in Procs, NEW s \in Steps, Goto(p, s), lock' = lock,
           s \in Holding <=> pc[p] \in Holding,
           minted' \in 0..MaxIds,
           \/ work' = work
           \/ \E w \in Work : work' = [work EXCEPT ![p] = w]
    PROVE  LocalTyped'
<1>1. pc' \in [Procs -> Steps] /\ LocksMatch'
  BY DEF LocalTyped, Goto, LocksMatch
<1>2. work' \in [Procs -> Work]
  BY DEF LocalTyped
<1> QED BY <1>1, <1>2 DEF LocalTyped

(* A process is idle again, and nobody has the lock if it had it. *)
LEMMA LeaveTyped ==
    ASSUME LocalTyped, NEW p \in Procs, Goto(p, "idle"), minted' = minted,
           lock' = IF lock = p THEN Nobody ELSE lock,
           work' = [work EXCEPT ![p] = NoWork]
    PROVE  LocalTyped'
<1>1. "idle" \in Steps /\ "idle" \notin Holding
  BY DEF Steps, Holding
<1>2. pc' \in [Procs -> Steps] /\ LocksMatch'
  BY <1>1, StoreAssumption DEF LocalTyped, Goto, LocksMatch
<1>3. work' \in [Procs -> Work] /\ lock' \in Procs \cup {Nobody}
  BY NoWorkType DEF LocalTyped
<1> QED BY <1>2, <1>3 DEF LocalTyped

(* Files that are flushed, and files that are left alone. *)
LEMMA FlushTyped ==
    ASSUME FilesTyped, NEW ops, NEW here \in BOOLEAN, Flush(ops, here), history' = history,
           synced' \in 0..Len(history)
    PROVE  FilesTyped'
BY FlushShape DEF FilesTyped

LEMMA SameFilesTyped ==
    ASSUME FilesTyped, UNCHANGED files
    PROVE  FilesTyped'
BY DEF FilesTyped, FilesType, files

LEMMA NoteTyped ==
    ASSUME FilesTyped, NEW c \in Change, Note(c), UNCHANGED <<disk, history, synced>>
    PROVE  FilesTyped'
BY NoteShape DEF FilesTyped

LEMMA SameAnswersTyped ==
    ASSUME AnswersTyped, UNCHANGED answers
    PROVE  AnswersTyped'
BY DEF AnswersTyped, answers

LEMMA BeginTyped ==
    ASSUME Typed, NEW p \in Procs, Begin(p) \/ Mkdir(p) \/ SyncProjectRoot(p) \/ AcquireQueueLock(p)
    PROVE  Typed'
<1> USE DEF Typed
<1>1. CASE Begin(p)
  <2>1. PICK call \in Call : work' = [work EXCEPT ![p] = [NoWork EXCEPT !.call = call]]
    BY <1>1 DEF Begin
  <2>2. [NoWork EXCEPT !.call = call] \in Work
    BY NoWorkType DEF Work
  <2>3. PICK s \in {"flock", "mkdir"} : Goto(p, s)
    BY <1>1 DEF Begin
  <2>4. s \in Steps /\ s \notin Holding /\ pc[p] \notin Holding
    BY <1>1, <2>3 DEF Begin, Steps, Holding
  <2>5. LocalTyped'
    <3>1. lock' = lock /\ minted' \in 0..MaxIds
      BY <1>1 DEF Begin, LocalTyped
    <3> QED BY <2>1, <2>2, <2>3, <2>4, <3>1, StepTyped
  <2> QED BY <1>1, <2>5, SameFilesTyped, SameAnswersTyped DEF Begin
<1>2. CASE Mkdir(p)
  <2>1. "sync_root" \in Steps \ Holding /\ pc[p] \notin Holding
    BY <1>2 DEF Mkdir, Steps, Holding
  <2>2. LocalTyped'
    <3>1. Goto(p, "sync_root") /\ lock' = lock /\ minted' \in 0..MaxIds /\ work' = work
      BY <1>2 DEF Mkdir, LocalTyped
    <3> QED BY <2>1, <3>1, StepTyped
  <2>3. FilesTyped'
    <3>1. [op |-> "mkdir"] \in Change
      BY DEF Change
    <3>2. \/ UNCHANGED files
          \/ Note([op |-> "mkdir"]) /\ UNCHANGED <<disk, history, synced>>
      BY <1>2 DEF Mkdir, files
    <3> QED BY <3>1, <3>2, NoteTyped, SameFilesTyped
  <2> QED BY <1>2, <2>2, <2>3, SameAnswersTyped DEF Mkdir
<1>3. CASE SyncProjectRoot(p)
  <2>1. "flock" \in Steps \ Holding /\ pc[p] \notin Holding
    BY <1>3 DEF SyncProjectRoot, Steps, Holding
  <2>2. LocalTyped'
    <3>1. Goto(p, "flock") /\ lock' = lock /\ minted' \in 0..MaxIds /\ work' = work
      BY <1>3 DEF SyncProjectRoot, LocalTyped
    <3> QED BY <2>1, <3>1, StepTyped
  <2>3. FilesTyped'
    BY <1>3, FlushTyped DEF SyncProjectRoot, SyncRoot, FilesTyped
  <2> QED BY <1>3, <2>2, <2>3, SameAnswersTyped DEF SyncProjectRoot
<1>4. CASE AcquireQueueLock(p)
  <2>1. lock = Nobody /\ lock' = p /\ Goto(p, "load") /\ pc[p] = "flock"
    BY <1>4 DEF AcquireQueueLock
  <2>2. "load" \in Steps /\ "load" \in Holding
    BY DEF Steps, Holding
  <2>3. LocalTyped'
    <3>1. pc' \in [Procs -> Steps] /\ LocksMatch'
      BY <2>1, <2>2, StoreAssumption DEF LocalTyped, LocksMatch, Goto
    <3>2. minted' = minted /\ work' = work
      BY <1>4 DEF AcquireQueueLock
    <3> QED BY <2>1, <3>1, <3>2 DEF LocalTyped
  <2> QED BY <1>4, <2>3, SameFilesTyped, SameAnswersTyped DEF AcquireQueueLock
<1> QED BY <1>1, <1>2, <1>3, <1>4

LEMMA LoadTyped ==
    ASSUME Typed, NEW p \in Procs,
           LoadAndMigrate(p) \/ LoadForAdd(p) \/ LoadForFinish(p) \/ LoadOnly(p)
    PROVE  Typed'
<1> USE DEF Typed
<1>1. work[p] \in Work /\ Seen.queue \subseteq Ids \cup {Unnamed}
  <2>1. Seen \in Disk
    BY ImagesAreDisks DEF FilesTyped
  <2> QED BY <2>1 DEF LocalTyped, Disk
<1>2. "save" \in Steps /\ "open" \in Steps /\ "reply" \in Steps
      /\ "save" \in Holding /\ "open" \in Holding /\ "reply" \in Holding /\ "load" \in Holding
  BY DEF Steps, Holding
<1>3. minted \in 0..MaxIds /\ MaxIds \in Nat
  BY StoreAssumption DEF LocalTyped
<1>4. CASE LoadAndMigrate(p)
  <2> DEFINE m == minted + 1
             w == [work[p] EXCEPT !.next = (Seen.queue \ {Unnamed}) \cup {m},
                                  !.added = {m}, !.after = "load"]
  <2>1. m \in Ids /\ minted' = m /\ m \in 0..MaxIds
    BY <1>3, <1>4 DEF LoadAndMigrate, Ids
  <2>2. work' = [work EXCEPT ![p] = w]
    BY <1>4, <2>1 DEF LoadAndMigrate, LocalTyped
  <2> HIDE DEF m
  <2>3. w \in Work
    BY <1>1, <2>1 DEF Work
  <2>4. LocalTyped'
    <3> HIDE DEF w
    <3>1. pc[p] = "load" /\ Goto(p, "save") /\ lock' = lock
      BY <1>4 DEF LoadAndMigrate
    <3> QED BY <1>2, <2>1, <2>2, <2>3, <3>1, StepTyped
  <2> QED BY <1>4, <2>4, SameFilesTyped, SameAnswersTyped DEF LoadAndMigrate
<1>5. CASE LoadForAdd(p)
  <2> DEFINE m == minted + 1
             w == [work[p] EXCEPT !.next = Seen.queue \cup {m},
                                  !.added = @ \cup {m}, !.after = "reply"]
  <2>1. m \in Ids /\ minted' = m /\ m \in 0..MaxIds
    BY <1>3, <1>5 DEF LoadForAdd, Ids
  <2>2. work' = [work EXCEPT ![p] = w]
    BY <1>5, <2>1 DEF LoadForAdd, LocalTyped
  <2> HIDE DEF m
  <2>3. w \in Work
    BY <1>1, <2>1 DEF Work
  <2>4. LocalTyped'
    <3> HIDE DEF w
    <3>1. pc[p] = "load" /\ Goto(p, "save") /\ lock' = lock
      BY <1>5 DEF LoadForAdd
    <3> QED BY <1>2, <2>1, <2>2, <2>3, <3>1, StepTyped
  <2> QED BY <1>5, <2>4, SameFilesTyped, SameAnswersTyped DEF LoadForAdd
<1>6. CASE LoadForFinish(p)
  <2> DEFINE F == work[p].call.ids \cap Seen.queue
             w == [work[p] EXCEPT !.next = Seen.queue \ F, !.left = LinesOf(F),
                                  !.finished = F, !.after = "reply"]
  <2>1. F \in SUBSET Ids
    BY <1>1, <1>6, StoreAssumption DEF LoadForFinish
  <2>2. work' = [work EXCEPT ![p] = w]
    BY <1>6 DEF LoadForFinish, LocalTyped
  <2>3. LinesOf(F) \in Seq(Token)
    BY <2>1, LinesOfShape
  <2> HIDE DEF F
  <2>4. w \in Work
    BY <1>1, <2>1, <2>3 DEF Work
  <2>5. LocalTyped'
    <3> HIDE DEF w
    <3>1. pc[p] = "load" /\ Goto(p, "open") /\ lock' = lock /\ minted' = minted
      BY <1>6 DEF LoadForFinish
    <3> QED BY <1>2, <1>3, <2>2, <2>4, <3>1, StepTyped
  <2> QED BY <1>6, <2>5, SameFilesTyped, SameAnswersTyped DEF LoadForFinish
<1>7. CASE LoadOnly(p)
  <2>1. work' = work \/ \E w \in Work : work' = [work EXCEPT ![p] = w]
    <3>1. CASE work' = work
      BY <3>1
    <3>2. CASE work' # work
      <4> DEFINE G == work[p].call.ids \cap Readable(history)
                 w == [work[p] EXCEPT !.found = G]
      <4>1. work' = [work EXCEPT ![p] = w]
        BY <1>7, <3>2 DEF LoadOnly, LocalTyped
      <4>2. G \in SUBSET Ids
        BY DEF Readable
      <4> HIDE DEF G
      <4>3. w \in Work
        BY <1>1, <4>2 DEF Work
      <4> QED BY <4>1, <4>3
    <3> QED BY <3>1, <3>2
  <2>2. LocalTyped'
    <3>1. pc[p] = "load" /\ Goto(p, "reply") /\ lock' = lock /\ minted' = minted
      BY <1>7 DEF LoadOnly
    <3> QED BY <1>2, <1>3, <2>1, <3>1, StepTyped
  <2> QED BY <1>7, <2>2, SameFilesTyped, SameAnswersTyped DEF LoadOnly
<1> QED BY <1>4, <1>5, <1>6, <1>7

LEMMA HistoryTyped ==
    ASSUME Typed, NEW p \in Procs,
           OpenHistory(p) \/ EndTornLine(p) \/ WriteLine(p) \/ SyncHistory(p) \/ SyncNewHistory(p)
    PROVE  Typed'
<1> USE DEF Typed
<1>1. work[p] \in Work /\ minted \in 0..MaxIds /\ MaxIds \in Nat
  BY StoreAssumption DEF LocalTyped
<1>2. {"open", "end_line", "write", "sync_new", "save"} \subseteq Steps \cap Holding
  BY DEF Steps, Holding
<1>3. history \in Seq(Token) /\ Len(history) \in Nat /\ synced \in 0..Len(history)
  BY DEF FilesTyped
<1>4. CASE OpenHistory(p)
  <2> DEFINE w == [work[p] EXCEPT !.created = ~Seen.made]
  <2>1. work' = [work EXCEPT ![p] = w]
    BY <1>4 DEF OpenHistory, LocalTyped
  <2>2. w \in Work
    BY <1>1 DEF Work
  <2>3. LocalTyped'
    <3> HIDE DEF w
    <3>1. pc[p] = "open" /\ Goto(p, "end_line") /\ lock' = lock /\ minted' = minted
      BY <1>4 DEF OpenHistory
    <3> QED BY <1>1, <1>2, <2>1, <2>2, <3>1, StepTyped
  <2>4. FilesTyped'
    <3>1. [op |-> "creat"] \in Change
      BY DEF Change
    <3>2. \/ UNCHANGED files
          \/ Note([op |-> "creat"]) /\ UNCHANGED <<disk, history, synced>>
      BY <1>4 DEF OpenHistory, files
    <3> QED BY <3>1, <3>2, NoteTyped, SameFilesTyped
  <2> QED BY <1>4, <2>3, <2>4, SameAnswersTyped DEF OpenHistory
<1>5. CASE EndTornLine(p)
  <2>1. LocalTyped'
    <3>1. pc[p] = "end_line" /\ Goto(p, "write") /\ lock' = lock /\ minted' = minted /\ work' = work
      BY <1>5 DEF EndTornLine
    <3> QED BY <1>1, <1>2, <3>1, StepTyped
  <2>2. FilesTyped'
    <3>1. Newline \in Token
      BY DEF Token, Newline
    <3>2. history' \in Seq(Token) /\ synced' \in 0..Len(history')
      BY <1>3, <1>5, <3>1, AppendToken DEF EndTornLine
    <3> QED BY <1>5, <3>2 DEF EndTornLine, FilesTyped, FilesType
  <2> QED BY <1>5, <2>1, <2>2, SameAnswersTyped DEF EndTornLine
<1>6. CASE WriteLine(p)
  <2> DEFINE w == [work[p] EXCEPT !.left = Tail(@)]
  <2>1. work[p].left \in Seq(Token) /\ work[p].left # <<>>
    BY <1>1, <1>6, WorkFields DEF WriteLine
  <2>2. Head(work[p].left) \in Token /\ Tail(work[p].left) \in Seq(Token)
    BY <2>1
  <2>3. work' = [work EXCEPT ![p] = w]
    BY <1>6 DEF WriteLine, LocalTyped
  <2>4. w \in Work
    BY <1>1, <2>2 DEF Work
  <2>5. LocalTyped'
    <3> HIDE DEF w
    <3>1. lock' = lock /\ minted' = minted /\ pc' = pc
      BY <1>6 DEF WriteLine
    <3>2. work' \in [Procs -> Work]
      BY <2>3, <2>4 DEF LocalTyped
    <3> QED BY <3>1, <3>2 DEF LocalTyped, LocksMatch
  <2>6. FilesTyped'
    <3>1. history' \in Seq(Token) /\ synced' \in 0..Len(history')
      BY <1>3, <1>6, <2>2, AppendToken DEF WriteLine
    <3> QED BY <1>6, <3>1 DEF WriteLine, FilesTyped, FilesType
  <2> QED BY <1>6, <2>5, <2>6, SameAnswersTyped DEF WriteLine
<1>7. CASE SyncHistory(p)
  <2>1. PICK s \in {"sync_new", "save"} : Goto(p, s)
    BY <1>7 DEF SyncHistory
  <2>2. LocalTyped'
    <3>1. pc[p] = "write" /\ lock' = lock /\ minted' = minted /\ work' = work
      BY <1>7 DEF SyncHistory
    <3>2. s \in Steps /\ s \in Holding
      BY <1>2, <2>1
    <3> QED BY <1>1, <1>2, <2>1, <3>1, <3>2, StepTyped
  <2>3. FilesTyped'
    <3>1. Flush({}, TRUE) /\ history' = history /\ synced' = Len(history)
      BY <1>7 DEF SyncHistory, SyncFile
    <3>2. synced' \in 0..Len(history)
      BY <1>3, <3>1
    <3> QED BY <3>1, <3>2, FlushTyped
  <2> QED BY <1>7, <2>2, <2>3, SameAnswersTyped DEF SyncHistory
<1>8. CASE SyncNewHistory(p)
  <2>1. LocalTyped'
    <3>1. pc[p] = "sync_new" /\ Goto(p, "save") /\ lock' = lock /\ minted' = minted /\ work' = work
      BY <1>8 DEF SyncNewHistory
    <3> QED BY <1>1, <1>2, <3>1, StepTyped
  <2>2. FilesTyped'
    BY <1>3, <1>8, FlushTyped DEF SyncNewHistory, SyncAnimus
  <2> QED BY <1>8, <2>1, <2>2, SameAnswersTyped DEF SyncNewHistory
<1> QED BY <1>4, <1>5, <1>6, <1>7, <1>8

LEMMA SaveTyped ==
    ASSUME Typed, NEW p \in Procs,
           WriteTmp(p) \/ Publish(p) \/ SyncQueue(p) \/ Reply(p)
    PROVE  Typed'
<1> USE DEF Typed
<1>1. work[p] \in Work /\ minted \in 0..MaxIds /\ MaxIds \in Nat
  BY StoreAssumption DEF LocalTyped
<1>2. {"save", "rename", "sync_dir", "load", "reply"} \subseteq Steps \cap Holding
  BY DEF Steps, Holding
<1>3. history \in Seq(Token) /\ Len(history) \in Nat /\ synced \in 0..Len(history)
  BY DEF FilesTyped
<1>4. CASE WriteTmp(p)
  <2>1. LocalTyped'
    <3>1. pc[p] = "save" /\ Goto(p, "rename") /\ lock' = lock /\ minted' = minted /\ work' = work
      BY <1>4 DEF WriteTmp
    <3> QED BY <1>1, <1>2, <3>1, StepTyped
  <2>2. FilesTyped'
    BY <1>3, <1>4, FlushTyped DEF WriteTmp, SyncFile
  <2> QED BY <1>4, <2>1, <2>2, SameAnswersTyped DEF WriteTmp
<1>5. CASE Publish(p)
  <2>1. LocalTyped'
    <3>1. pc[p] = "rename" /\ Goto(p, "sync_dir") /\ lock' = lock /\ minted' = minted /\ work' = work
      BY <1>5 DEF Publish
    <3> QED BY <1>1, <1>2, <3>1, StepTyped
  <2>2. FilesTyped'
    <3> DEFINE c == [op |-> "rename", queue |-> work[p].next]
    <3>1. c \in Change
      BY <1>1, WorkFields DEF Change
    <3>2. Note(c) /\ UNCHANGED <<disk, history, synced>>
      BY <1>5 DEF Publish
    <3> HIDE DEF c
    <3> QED BY <3>1, <3>2, NoteTyped
  <2> QED BY <1>5, <2>1, <2>2, SameAnswersTyped DEF Publish
<1>6. CASE SyncQueue(p)
  <2>1. LocalTyped'
    <3>1. pc[p] = "sync_dir" /\ Goto(p, work[p].after) /\ lock' = lock /\ minted' = minted /\ work' = work
      BY <1>6 DEF SyncQueue
    <3>2. work[p].after \in Steps /\ work[p].after \in Holding
      BY <1>1, <1>2, WorkFields
    <3> QED BY <1>1, <1>2, <3>1, <3>2, StepTyped
  <2>2. FilesTyped'
    BY <1>3, <1>6, FlushTyped DEF SyncQueue, SyncAnimus
  <2> QED BY <1>6, <2>1, <2>2, SameAnswersTyped DEF SyncQueue
<1>7. CASE Reply(p)
  <2>1. lock = p
    BY <1>2, <1>7 DEF Reply, LocalTyped, LocksMatch
  <2>2. LocalTyped'
    <3>1. Goto(p, "idle") /\ minted' = minted /\ work' = [work EXCEPT ![p] = NoWork]
          /\ lock' = IF lock = p THEN Nobody ELSE lock
      BY <1>7, <2>1 DEF Reply
    <3> QED BY <3>1, LeaveTyped
  <2>3. AnswersTyped'
    BY <1>1, <1>7, WorkFields DEF Reply, AnswersTyped
  <2> QED BY <1>7, <2>2, <2>3, SameFilesTyped DEF Reply
<1> QED BY <1>4, <1>5, <1>6, <1>7

LEMMA StopTyped ==
    ASSUME Typed, NEW p \in Procs, Stop(p)
    PROVE  Typed'
BY LeaveTyped, SameFilesTyped, SameAnswersTyped DEF Typed, Stop

(* What survives a power loss. *)
Survivor(d) == IF d.dir THEN d ELSE [d EXCEPT !.made = FALSE, !.queue = {}]

LEMMA PowerLossShape ==
    ASSUME Typed, PowerLoss
    PROVE  \E I \in Images, n \in synced..Len(history) :
              /\ disk' = Survivor(I) /\ pending' = <<>>
              /\ history' = IF I.dir /\ I.made THEN SubSeq(history, 1, n) ELSE <<>>
              /\ synced' = Len(history')
BY DEF PowerLoss, Images, Survivor

LEMMA PowerLossTyped ==
    ASSUME Typed, PowerLoss
    PROVE  Typed'
<1>1. PICK I \in Images, n \in synced..Len(history) :
        /\ disk' = Survivor(I) /\ pending' = <<>>
        /\ history' = IF I.dir /\ I.made THEN SubSeq(history, 1, n) ELSE <<>>
        /\ synced' = Len(history')
  BY PowerLossShape
<1>2. I \in Disk /\ disk' \in Disk
  <2>1. I \in Disk
    BY ImagesAreDisks DEF Typed, FilesTyped
  <2> QED BY <1>1, <2>1 DEF Survivor, Disk
<1>3. history' \in Seq(Token) /\ synced' \in 0..Len(history')
  <2>1. history \in Seq(Token) /\ n \in 0..Len(history)
    BY DEF Typed, FilesTyped
  <2>2. SubSeq(history, 1, n) \in Seq(Token)
    BY <2>1, Prefix
  <2>3. history' \in Seq(Token)
    BY <1>1, <2>2, NoTokens
  <2> QED BY <1>1, <2>3
<1>4. FilesTyped'
  BY <1>1, <1>2, <1>3, PowerShape DEF FilesTyped
<1>5. LocalTyped'
  <2>1. /\ lock' = Nobody /\ pc' = [p \in Procs |-> "idle"] /\ work' = [p \in Procs |-> NoWork]
        /\ minted' = minted
    BY DEF PowerLoss
  <2>2. "idle" \in Steps /\ "idle" \notin Holding
    BY DEF Steps, Holding
  <2> QED BY <2>1, <2>2, NoWorkType, StoreAssumption DEF LocalTyped, LocksMatch, Typed
<1>6. AnswersTyped'
  BY SameAnswersTyped DEF PowerLoss, Typed
<1> QED BY <1>4, <1>5, <1>6 DEF Typed

LEMMA InitTyped == Init => Typed
<1> SUFFICES ASSUME Init
             PROVE  Typed
  OBVIOUS
<1> USE DEF Init
<1>1. FilesTyped
  <2>1. disk \in Disk
    BY StoreAssumption
  <2>2. DOMAIN <<>> = {} /\ <<>> \in [DOMAIN <<>> -> Change]
    OBVIOUS
  <2>3. DOMAIN pending \subseteq 1..0
    BY <2>2
  <2>4. FilesType
    BY <2>1, <2>2, <2>3 DEF FilesType
  <2> QED BY <2>4 DEF FilesTyped
<1>2. LocalTyped
  <2>1. "idle" \in Steps /\ "idle" \notin Holding
    BY DEF Steps, Holding
  <2> QED BY <2>1, NoWorkType, StoreAssumption DEF LocalTyped, LocksMatch
<1> QED BY <1>1, <1>2 DEF Typed, AnswersTyped

LEMMA StepsAreTyped == Typed /\ [Next]_vars => Typed'
<1> SUFFICES ASSUME Typed, [Next]_vars
             PROVE  Typed'
  OBVIOUS
<1>1. CASE Next
  BY <1>1, BeginTyped, LoadTyped, HistoryTyped, SaveTyped, StopTyped, PowerLossTyped
     DEF Next, Handler
<1>2. CASE UNCHANGED vars
  BY <1>2, SameFilesTyped, SameAnswersTyped DEF vars, Typed, LocalTyped, LocksMatch
<1> QED BY <1>1, <1>2

-----------------------------------------------------------------------------
(* What holds of the files between the operations of all processes. *)

(* The ids whose record survives any power loss. *)
Durable == {i \in Ids : \E m \in 1..synced : history[m] = <<"close", i>>}

(* What may be lost is lost from the outside in: no files without .animus,   *)
(* and neither once something of the history is durable.                   *)
DiskInv ==
    /\ \A I \in Images : ~disk.ordered => I.dir /\ I.made
    /\ \A I \in Images : ~I.dir => ~I.made /\ I.queue = {}
    /\ synced > 0 => \A I \in Images : I.dir /\ I.made

(* An entry that is in an older queue.json only is in the history.           *)
LinesInv ==
    /\ \A I \in Images : I.queue \subseteq Seen.queue \cup Closed(history) \cup {Unnamed}
    /\ Closed(history) \cup (Seen.queue \ {Unnamed}) \subseteq 1..minted
    /\ WellFormed(history)

(* What was answered is so on whatever disk a power loss leaves.             *)
AnswersInv ==
    \A I \in Images : /\ promised \subseteq I.queue \cup Durable
                      /\ settled \subseteq Durable \ I.queue

Committing == {"open", "end_line", "write", "sync_new", "save", "rename"}

(* What the call of w would answer holds on any such disk.                   *)
Answerable(w) ==
    \A I \in Images : /\ w.added \subseteq I.queue \cup Durable
                      /\ w.finished \subseteq Durable \ I.queue

(* How the queue a call is about to save differs from the one there is.      *)
Changes(w) ==
    /\ (w.next \ Seen.queue) \cap Closed(history) = {}
    /\ w.next \ Seen.queue \subseteq 1..minted
    /\ Seen.queue \ w.next \subseteq w.finished \cup {Unnamed}
    /\ w.finished \subseteq Seen.queue \ w.next
    /\ w.added \subseteq w.next \cup w.finished \cup Durable

(* What a call has left to write continues what is written.                  *)
Writes(w, step) ==
    /\ step # "write" => w.left # <<>> /\ w.left[1][1] = "open"
    /\ step = "write" /\ w.left # <<>> => Fits(history, w.left[1])
    /\ step # "open" => Seen.made
    /\ w.finished \subseteq Closed(history) \cup Closed(w.left)
    /\ Closed(w.left) \subseteq w.finished
    /\ Chained(w.left)

HolderInv(p) ==
    LET w == work[p] IN
    /\ pc[p] \in {"load", "reply"} => Answerable(w)
    /\ pc[p] = "load" => w.finished = {}
    /\ pc[p] \in Committing => Changes(w)
    /\ pc[p] \in {"open", "end_line", "write"} => Writes(w, pc[p])
    /\ pc[p] \in {"sync_new", "save", "rename"} => w.finished \subseteq Durable
    /\ pc[p] = "sync_dir" => /\ w.next = Seen.queue
                             /\ w.finished \subseteq Durable \ Seen.queue
                             /\ w.added \subseteq Seen.queue \cup Durable
    /\ pc[p] \in Committing \cup {"sync_dir"} /\ w.after = "load" => w.finished = {}

ProcInv(p) ==
    /\ pc[p] \notin Holding => work[p].added = {} /\ work[p].finished = {}
    /\ pc[p] \notin {"idle", "mkdir"} => Seen.dir
    /\ HolderInv(p)

FilesInv == DiskInv /\ LinesInv /\ AnswersInv
StoreInv == FilesInv /\ \A p \in Procs : ProcInv(p)

-----------------------------------------------------------------------------
(* Operations that leave the two files as they are. *)

LEMMA DurableIsClosed ==
    ASSUME FilesTyped
    PROVE  /\ Durable \subseteq Closed(history) /\ Durable \subseteq Ids
           /\ synced = Len(history) => Durable = Closed(history)
<1>1. history \in Seq(Token) /\ synced \in 0..Len(history) /\ Len(history) \in Nat
      /\ DOMAIN history = 1..Len(history)
  BY DEF FilesTyped
<1>2. 1..synced \subseteq DOMAIN history
  BY <1>1
<1> QED BY <1>1, <1>2 DEF Durable, Closed

(* The same queue.json for processes, and no new one for the disk.           *)
SameQueues ==
    /\ Seen'.queue = Seen.queue
    /\ \A J \in Images' : \E I \in Images : J.queue = I.queue

Calm ==
    /\ Seen' = Seen /\ Images' \subseteq Images /\ disk'.ordered = disk.ordered
    /\ UNCHANGED <<history, synced>>

LEMMA UnchangedIsCalm == ASSUME UNCHANGED files PROVE Calm /\ Images' = Images
<1>1. Seen' = Seen
  BY DEF files, Seen, With, Renames
<1>2. Cuts' = Cuts
  BY DEF files, Cuts
<1>3. \A K \in Cuts : With(K)' = With(K)
  BY DEF files, With, Renames
<1>4. Images' = Images
  BY <1>2, <1>3 DEF Images
<1> QED BY <1>1, <1>4 DEF Calm, files

LEMMA FlushIsCalm ==
    ASSUME FilesTyped, NEW ops, NEW here \in BOOLEAN, Flush(ops, here),
           UNCHANGED <<history, synced>>
    PROVE  Calm
BY FlushShape DEF FilesTyped, Calm

LEMMA QueuesKept ==
    ASSUME LinesInv, SameQueues, UNCHANGED <<history, synced>>,
           minted \in Nat, minted' \in Nat, minted <= minted'
    PROVE  LinesInv' /\ (AnswersInv /\ UNCHANGED <<promised, settled>> => AnswersInv')
<1>1. Closed(history)' = Closed(history) /\ Durable' = Durable /\ WellFormed(history)'
  BY DEF Closed, Durable, WellFormed, Chained, LinesInv
<1>2. 1..minted \subseteq 1..minted'
  OBVIOUS
<1>3. Closed(history)' \cup (Seen'.queue \ {Unnamed}) \subseteq 1..minted'
  BY <1>1, <1>2 DEF LinesInv, SameQueues
<1>4. \A J \in Images' : J.queue \subseteq Seen'.queue \cup Closed(history)' \cup {Unnamed}
  BY <1>1 DEF LinesInv, SameQueues
<1>5. LinesInv'
  BY <1>1, <1>3, <1>4 DEF LinesInv
<1>6. AnswersInv /\ UNCHANGED <<promised, settled>> => AnswersInv'
  BY <1>1 DEF AnswersInv, SameQueues
<1> QED BY <1>5, <1>6

LEMMA CalmFiles ==
    ASSUME DiskInv, LinesInv, Calm, minted \in Nat, minted' \in Nat, minted <= minted'
    PROVE  /\ DiskInv' /\ LinesInv'
           /\ AnswersInv /\ UNCHANGED <<promised, settled>> => AnswersInv'
<1>1. SameQueues
  BY DEF Calm, SameQueues
<1>2. DiskInv'
  BY DEF Calm, DiskInv
<1> QED BY <1>1, <1>2, QueuesKept DEF Calm

(* A process that does nothing while another leaves the files as they are.   *)
LEMMA CalmProc ==
    ASSUME NEW q \in Procs, ProcInv(q), Calm, minted \in Nat, minted' \in Nat, minted <= minted',
           pc'[q] = pc[q], work'[q] = work[q]
    PROVE  ProcInv(q)'
<1>1. Closed(history)' = Closed(history) /\ Durable' = Durable
  BY DEF Closed, Durable, Calm
<1>2. 1..minted \subseteq 1..minted'
  OBVIOUS
<1>3. Answerable(work[q]) => Answerable(work[q])'
  BY <1>1 DEF Answerable, Calm
<1>4. Changes(work[q]) => Changes(work[q])'
  BY <1>1, <1>2 DEF Changes, Calm
<1>5. Writes(work[q], pc[q]) => Writes(work[q], pc[q])'
  BY <1>1 DEF Writes, Calm, Fits, Closed, Chained
<1>6. HolderInv(q)'
  BY <1>1, <1>3, <1>4, <1>5 DEF HolderInv, ProcInv, Calm
<1> QED BY <1>6 DEF ProcInv, Calm

(* A process without the lock while .animus stays.                           *)
LEMMA AwayProc ==
    ASSUME NEW q \in Procs, ProcInv(q), pc[q] \notin Holding, Seen.dir => Seen'.dir,
           pc'[q] = pc[q], work'[q] = work[q]
    PROVE  ProcInv(q)'
<1>1. HolderInv(q)'
  BY DEF HolderInv, Holding, Committing
<1> QED BY <1>1 DEF ProcInv

(* What the others do while p makes a step. *)
LEMMA OthersRest ==
    ASSUME Typed, NEW p \in Procs, NEW s, Goto(p, s) \/ pc' = pc,
           work' = work \/ \E w : work' = [work EXCEPT ![p] = w]
    PROVE  /\ \A q \in Procs \ {p} : pc'[q] = pc[q] /\ work'[q] = work[q]
           /\ Goto(p, s) => pc'[p] = s
           /\ pc[p] \in Holding => \A q \in Procs \ {p} : pc[q] \notin Holding
BY DEF Typed, LocalTyped, LocksMatch, Goto

LEMMA MintedTyped == Typed => minted \in Nat
BY StoreAssumption DEF Typed, LocalTyped

(* A step of p that leaves the files as they are. *)
LEMMA CalmStep ==
    ASSUME Typed, StoreInv, NEW p \in Procs, NEW s, Goto(p, s),
           work' = work \/ \E w : work' = [work EXCEPT ![p] = w],
           Calm, minted' \in Nat, minted <= minted', UNCHANGED <<promised, settled>>,
           ProcInv(p)'
    PROVE  StoreInv'
<1>1. FilesInv'
  BY CalmFiles, MintedTyped DEF StoreInv, FilesInv
<1>2. \A q \in Procs \ {p} : ProcInv(q)'
  <2>1. \A q \in Procs \ {p} : pc'[q] = pc[q] /\ work'[q] = work[q]
    BY OthersRest
  <2> QED BY <2>1, CalmProc, MintedTyped DEF StoreInv
<1> QED BY <1>1, <1>2 DEF StoreInv

(* A step of the holder of the lock that changes the files.                  *)
LEMMA HolderStep ==
    ASSUME Typed, StoreInv, NEW p \in Procs, NEW s, Goto(p, s) \/ pc' = pc, pc[p] \in Holding,
           work' = work \/ \E w : work' = [work EXCEPT ![p] = w],
           Seen.dir => Seen'.dir, FilesInv', ProcInv(p)'
    PROVE  StoreInv'
<1>1. \A q \in Procs \ {p} : ProcInv(q)'
  <2>1. \A q \in Procs \ {p} : pc'[q] = pc[q] /\ work'[q] = work[q] /\ pc[q] \notin Holding
    BY OthersRest
  <2> QED BY <2>1, AwayProc DEF StoreInv
<1> QED BY <1>1 DEF StoreInv

(* A process without the lock, after its step. *)
LEMMA WithoutLock ==
    ASSUME NEW p \in Procs, pc'[p] \notin Holding,
           work'[p].added = {} /\ work'[p].finished = {},
           pc'[p] \in {"idle", "mkdir"} \/ Seen'.dir
    PROVE  ProcInv(p)'
<1>1. HolderInv(p)'
  BY DEF HolderInv, Holding, Committing
<1> QED BY <1>1 DEF ProcInv

LEMMA NothingYet == NoWork.added = {} /\ NoWork.finished = {}
BY DEF NoWork

LEMMA SeenDisk == Typed => Seen \in Images /\ Seen \in Disk /\ Images \subseteq Disk
BY ImagesAreDisks DEF Typed, FilesTyped

-----------------------------------------------------------------------------
(* Before the lock. *)

LEMMA BeginKeeps ==
    ASSUME Typed, StoreInv, NEW p \in Procs, Begin(p)
    PROVE  StoreInv'
<1>1. PICK call \in Call : work' = [work EXCEPT ![p] = [NoWork EXCEPT !.call = call]]
  BY DEF Begin
<1>2. PICK s \in {"flock", "mkdir"} : Goto(p, s) /\ (s = "flock" => Seen.dir)
  BY DEF Begin
<1>3. pc'[p] = s /\ work'[p].added = {} /\ work'[p].finished = {}
  BY <1>1, <1>2, NothingYet, OthersRest DEF Typed, LocalTyped, NoWork
<1>4. Calm /\ minted' = minted /\ UNCHANGED <<promised, settled>>
  BY UnchangedIsCalm DEF Begin, answers
<1>5. ProcInv(p)'
  <2>1. s \notin Holding /\ (s # "mkdir" => Seen'.dir)
    BY <1>2, <1>4 DEF Holding, Calm
  <2> QED BY <1>3, <2>1, WithoutLock
<1>6. \E w : work' = [work EXCEPT ![p] = w]
  BY <1>1
<1>7. minted' \in Nat /\ minted <= minted'
  BY <1>4, MintedTyped
<1> QED BY <1>2, <1>4, <1>5, <1>6, <1>7, CalmStep

LEMMA MkdirKeeps ==
    ASSUME Typed, StoreInv, NEW p \in Procs, Mkdir(p)
    PROVE  StoreInv'
<1>1. /\ pc[p] = "mkdir" /\ Goto(p, "sync_root") /\ work' = work /\ minted' = minted
      /\ UNCHANGED <<disk, history, synced, promised, settled>>
  BY DEF Mkdir, answers
<1>2. pc'[p] = "sync_root" /\ work'[p].added = {} /\ work'[p].finished = {}
  BY <1>1, OthersRest DEF StoreInv, ProcInv, Holding
<1>3. CASE Seen.dir
  <2>1. Calm
    BY <1>1, <1>3, UnchangedIsCalm DEF Mkdir, files
  <2>2. ProcInv(p)'
    BY <1>2, <1>3, <2>1, WithoutLock DEF Calm, Holding
  <2> QED BY <1>1, <2>1, <2>2, CalmStep, MintedTyped
<1>4. CASE ~Seen.dir
  <2> DEFINE c == [op |-> "mkdir"]
  <2>1. c \in Change /\ Note(c)
    BY <1>1, <1>4 DEF Mkdir, Change
  <2> HIDE DEF c
  <2>2. /\ Seen' = Apply(c, Seen)
        /\ \A J \in Images' : J \in Images \/ \E I \in Images : J = Apply(c, I)
    BY <1>1, <2>1, NoteShape DEF Typed, FilesTyped
  <2>3. \A d : Apply(c, d).dir = TRUE /\ Apply(c, d).queue = d.queue
    BY DEF Apply, c
  <2>4. Seen'.dir /\ Seen \in Images
    BY <2>2, <2>3, SeenDisk
  <2>5. SameQueues
    BY <2>2, <2>3 DEF SameQueues
  <2>6. DiskInv'
    <3>1. disk'.ordered = disk.ordered /\ disk.ordered
      BY <1>1, <1>4, <2>4 DEF StoreInv, FilesInv, DiskInv, Typed, FilesTyped, FilesType, Disk
    <3>2. ~ (synced' > 0)
      BY <1>1, <1>4, <2>4 DEF StoreInv, FilesInv, DiskInv
    <3>3. \A J \in Images' : ~J.dir => ~J.made /\ J.queue = {}
      BY <2>2, <2>3 DEF StoreInv, FilesInv, DiskInv
    <3> QED BY <3>1, <3>2, <3>3 DEF DiskInv
  <2>7. LinesInv' /\ AnswersInv'
    BY <1>1, <2>5, QueuesKept, MintedTyped DEF StoreInv, FilesInv
  <2>8. \A q \in Procs : pc[q] \notin Holding
    BY <1>4 DEF StoreInv, ProcInv, Holding
  <2>9. \A q \in Procs \ {p} : ProcInv(q)'
    <3>1. \A q \in Procs \ {p} : pc'[q] = pc[q] /\ work'[q] = work[q]
      BY <1>1, OthersRest
    <3> QED BY <2>4, <2>8, <3>1, AwayProc DEF StoreInv
  <2>10. ProcInv(p)'
    BY <1>2, <2>4, WithoutLock DEF Holding
  <2> QED BY <2>6, <2>7, <2>9, <2>10 DEF StoreInv, FilesInv
<1> QED BY <1>3, <1>4

LEMMA SyncProjectRootKeeps ==
    ASSUME Typed, StoreInv, NEW p \in Procs, SyncProjectRoot(p)
    PROVE  StoreInv'
<1>1. /\ pc[p] = "sync_root" /\ Goto(p, "flock") /\ work' = work /\ minted' = minted
      /\ Flush({"mkdir"}, FALSE) /\ UNCHANGED <<history, synced, promised, settled>>
  BY DEF SyncProjectRoot, SyncRoot, answers
<1>2. Calm
  BY <1>1, FlushIsCalm DEF Typed
<1>3. ProcInv(p)'
  <2>1. pc'[p] = "flock" /\ work'[p].added = {} /\ work'[p].finished = {} /\ Seen.dir
    BY <1>1, OthersRest DEF StoreInv, ProcInv, Holding
  <2> QED BY <1>2, <2>1, WithoutLock DEF Calm, Holding
<1> QED BY <1>1, <1>2, <1>3, CalmStep, MintedTyped

LEMMA AcquireKeeps ==
    ASSUME Typed, StoreInv, NEW p \in Procs, AcquireQueueLock(p)
    PROVE  StoreInv'
<1>1. /\ pc[p] = "flock" /\ Goto(p, "load") /\ work' = work /\ minted' = minted
      /\ UNCHANGED <<promised, settled>>
  BY DEF AcquireQueueLock, answers
<1>2. Calm
  BY UnchangedIsCalm DEF AcquireQueueLock
<1>3. pc'[p] = "load" /\ work'[p].added = {} /\ work'[p].finished = {} /\ Seen'.dir
  BY <1>1, <1>2, OthersRest DEF StoreInv, ProcInv, Holding, Calm
<1>4. Answerable(work[p])'
  BY <1>3 DEF Answerable
<1>5. ProcInv(p)'
  BY <1>3, <1>4 DEF ProcInv, HolderInv, Holding, Committing
<1> QED BY <1>1, <1>2, <1>5, CalmStep, MintedTyped

LEMMA StopKeeps ==
    ASSUME Typed, StoreInv, NEW p \in Procs, Stop(p)
    PROVE  StoreInv'
<1>1. /\ Goto(p, "idle") /\ work' = [work EXCEPT ![p] = NoWork] /\ minted' = minted
      /\ UNCHANGED <<promised, settled>>
  BY DEF Stop, answers
<1>2. Calm
  BY UnchangedIsCalm DEF Stop
<1>3. ProcInv(p)'
  <2>1. pc'[p] = "idle" /\ work'[p] = NoWork
    BY <1>1, OthersRest DEF Typed, LocalTyped
  <2> QED BY <2>1, NothingYet, WithoutLock DEF Holding
<1>4. \E w : work' = [work EXCEPT ![p] = w]
  BY <1>1
<1>5. minted' \in Nat /\ minted <= minted'
  BY <1>1, MintedTyped
<1> QED BY <1>1, <1>2, <1>3, <1>4, <1>5, CalmStep

-----------------------------------------------------------------------------
(* Loading. *)

LEMMA QueueFacts ==
    ASSUME Typed, StoreInv
    PROVE  /\ Seen.queue \subseteq Ids \cup {Unnamed} /\ Unnamed \notin Ids
           /\ Seen.queue \ {Unnamed} \subseteq 1..minted /\ Closed(history) \subseteq 1..minted
           /\ minted \in Nat /\ minted + 1 \notin Closed(history)
           /\ Durable \subseteq Closed(history) /\ promised \subseteq Ids /\ settled \subseteq Ids
<1>1. Seen.queue \subseteq Ids \cup {Unnamed} /\ Unnamed \notin Ids
  BY SeenDisk, StoreAssumption DEF Disk
<1>2. Seen.queue \ {Unnamed} \subseteq 1..minted /\ Closed(history) \subseteq 1..minted
  BY DEF StoreInv, FilesInv, LinesInv
<1>3. minted \in Nat /\ minted + 1 \notin Closed(history)
  BY <1>2, MintedTyped
<1>4. Durable \subseteq Closed(history)
  BY DurableIsClosed DEF Typed
<1>5. promised \subseteq Ids /\ settled \subseteq Ids
  BY DEF Typed, AnswersTyped
<1> QED BY <1>1, <1>2, <1>3, <1>4, <1>5

(* An entry gets an id that is not in use: migration and add.                *)
LEMMA MintKeeps ==
    ASSUME Typed, StoreInv, NEW p \in Procs, pc[p] = "load", Goto(p, "save"),
           minted < MaxIds, minted' = minted + 1, UNCHANGED <<files, promised, settled>>,
           NEW N, NEW w \in Work, work' = [work EXCEPT ![p] = w],
           N \subseteq Seen.queue, Seen.queue \ N \subseteq {Unnamed},
           w.next = N \cup {minted + 1}, w.finished = {},
           w.added \subseteq {minted + 1} \cup (IF Unnamed \in Seen.queue THEN {} ELSE work[p].added)
    PROVE  StoreInv'
<1> DEFINE m == minted + 1
<1>1. Calm
  BY UnchangedIsCalm
<1>2. m \in Nat /\ minted <= m /\ m \in 1..m
  BY QueueFacts
<1>3. pc'[p] = "save" /\ work'[p] = w
  BY OthersRest DEF Typed, LocalTyped
<1>4. Answerable(work[p]) /\ Seen.dir
  BY DEF StoreInv, ProcInv, HolderInv
<1>5. m \notin Closed(history)
  BY QueueFacts
<1> HIDE DEF m
<1>6. Changes(w)'
  <2>1. Closed(history)' = Closed(history) /\ Durable' = Durable /\ Seen' = Seen
    BY <1>1 DEF Closed, Durable, Calm
  <2>2. w.next \ Seen.queue \subseteq {m}
    BY DEF m
  <2>3. work[p].added \subseteq Seen.queue \cup Durable
    BY <1>4, SeenDisk DEF Answerable
  <2>4. work[p].added \subseteq Ids
    BY WorkFields DEF Typed, LocalTyped
  <2>5. w.added \subseteq w.next \cup Durable
    BY <2>3, <2>4, StoreAssumption DEF m
  <2>6. Seen.queue \ w.next \subseteq {Unnamed}
    OBVIOUS
  <2>7. minted' = m
    BY DEF m
  <2> QED BY <1>2, <1>5, <2>1, <2>2, <2>5, <2>6, <2>7 DEF Changes
<1>7. ProcInv(p)'
  <2>1. Changes(work[p])'
    BY <1>3, <1>6 DEF Changes
  <2>2. HolderInv(p)'
    BY <1>3, <2>1 DEF HolderInv
  <2> QED BY <1>1, <1>3, <1>4, <2>2 DEF ProcInv, Holding, Calm
<1>8. \E v : work' = [work EXCEPT ![p] = v]
  OBVIOUS
<1>9. minted' = m
  BY DEF m
<1> QED BY <1>1, <1>2, <1>7, <1>8, <1>9, CalmStep

LEMMA LoadAndMigrateKeeps ==
    ASSUME Typed, StoreInv, NEW p \in Procs, LoadAndMigrate(p)
    PROVE  StoreInv'
<1> DEFINE m == minted + 1
           N == Seen.queue \ {Unnamed}
           w == [work[p] EXCEPT !.next = N \cup {m}, !.added = {m}, !.after = "load"]
<1>1. /\ pc[p] = "load" /\ Goto(p, "save") /\ minted < MaxIds /\ minted' = minted + 1
      /\ UNCHANGED <<files, promised, settled>> /\ Unnamed \in Seen.queue
  BY DEF LoadAndMigrate, answers
<1>2. work' = [work EXCEPT ![p] = w]
  BY DEF LoadAndMigrate, Typed, LocalTyped
<1>3. work[p].finished = {} /\ work[p] \in Work
  BY <1>1 DEF StoreInv, ProcInv, HolderInv, Typed, LocalTyped
<1>4. m \in Ids
  BY <1>1, MintedTyped, StoreAssumption DEF Ids
<1>5. w \in Work /\ w.next = N \cup {m} /\ w.finished = {} /\ w.added = {m}
  <2>1. N \cup {m} \subseteq Ids \cup {Unnamed}
    BY <1>4, QueueFacts
  <2> HIDE DEF m, N
  <2> QED BY <1>3, <1>4, <2>1 DEF Work
<1> HIDE DEF w
<1>6. N \subseteq Seen.queue /\ Seen.queue \ N \subseteq {Unnamed}
  OBVIOUS
<1> HIDE DEF N
<1> QED BY <1>1, <1>2, <1>5, <1>6, MintKeeps

LEMMA LoadForAddKeeps ==
    ASSUME Typed, StoreInv, NEW p \in Procs, LoadForAdd(p)
    PROVE  StoreInv'
<1> DEFINE m == minted + 1
           w == [work[p] EXCEPT !.next = Seen.queue \cup {m}, !.added = @ \cup {m},
                                !.after = "reply"]
<1>1. /\ pc[p] = "load" /\ Goto(p, "save") /\ minted < MaxIds /\ minted' = minted + 1
      /\ UNCHANGED <<files, promised, settled>> /\ Unnamed \notin Seen.queue
  BY DEF LoadForAdd, answers
<1>2. work' = [work EXCEPT ![p] = w]
  BY DEF LoadForAdd, Typed, LocalTyped
<1>3. work[p].finished = {} /\ work[p] \in Work
  BY <1>1 DEF StoreInv, ProcInv, HolderInv, Typed, LocalTyped
<1>4. m \in Ids
  BY <1>1, MintedTyped, StoreAssumption DEF Ids
<1>5. /\ w \in Work /\ w.next = Seen.queue \cup {m} /\ w.finished = {}
      /\ w.added = work[p].added \cup {m}
  <2>1. Seen.queue \cup {m} \subseteq Ids \cup {Unnamed}
    BY <1>4, QueueFacts
  <2> HIDE DEF m
  <2> QED BY <1>3, <1>4, <2>1 DEF Work
<1> HIDE DEF w
<1>6. Seen.queue \subseteq Seen.queue /\ Seen.queue \ Seen.queue \subseteq {Unnamed}
  OBVIOUS
<1> QED BY <1>1, <1>2, <1>5, <1>6, MintKeeps

LEMMA LoadForFinishKeeps ==
    ASSUME Typed, StoreInv, NEW p \in Procs, LoadForFinish(p)
    PROVE  StoreInv'
<1> DEFINE F == work[p].call.ids \cap Seen.queue
           w == [work[p] EXCEPT !.next = Seen.queue \ F, !.left = LinesOf(F),
                                !.finished = F, !.after = "reply"]
<1>1. /\ pc[p] = "load" /\ Goto(p, "open") /\ minted' = minted
      /\ UNCHANGED <<files, promised, settled>> /\ Unnamed \notin Seen.queue /\ F # {}
  BY DEF LoadForFinish, answers
<1>2. work' = [work EXCEPT ![p] = w]
  BY DEF LoadForFinish, Typed, LocalTyped
<1>3. work[p] \in Work /\ Answerable(work[p]) /\ Seen.dir
  BY <1>1 DEF StoreInv, ProcInv, HolderInv, Typed, LocalTyped
<1>4. F \in SUBSET Ids /\ F \subseteq Seen.queue
  BY <1>1, QueueFacts
<1> HIDE DEF F
<1>5. /\ w.next = Seen.queue \ F /\ w.left = LinesOf(F) /\ w.finished = F
      /\ w.added = work[p].added /\ w.after = "reply"
  BY <1>3 DEF Work
<1> HIDE DEF w
<1>6. pc'[p] = "open" /\ work'[p] = w
  BY <1>1, <1>2, OthersRest DEF Typed, LocalTyped
<1>7. Calm
  BY <1>1, UnchangedIsCalm
<1>8. Closed(history)' = Closed(history) /\ Durable' = Durable /\ Seen' = Seen
  BY <1>1, <1>7 DEF Closed, Durable, files, Calm
<1>9. Changes(work[p])'
  <2>1. work[p].added \subseteq Seen.queue \cup Durable
    BY <1>3, SeenDisk DEF Answerable
  <2> QED BY <1>4, <1>5, <1>6, <1>8, <2>1 DEF Changes
<1>10. Writes(work[p], pc[p])'
  <2>1. Closed(LinesOf(F)) = F /\ Chained(LinesOf(F)) /\ LinesOf(F) # <<>>
        /\ LinesOf(F)[1][1] = "open"
    BY <1>1, <1>4, LinesOfShape
  <2>2. Closed(work[p].left)' = F /\ Chained(work[p].left)'
    <3> DEFINE l == LinesOf(F)
    <3>1. work'[p].left = l /\ Closed(l) = F /\ Chained(l)
      BY <1>5, <1>6, <2>1
    <3> HIDE DEF l
    <3> QED BY <3>1 DEF Closed, Chained
  <2> QED BY <1>5, <1>6, <2>1, <2>2 DEF Writes
<1>11. ProcInv(p)'
  <2>1. HolderInv(p)'
    BY <1>5, <1>6, <1>9, <1>10 DEF HolderInv
  <2> QED BY <1>3, <1>6, <1>8, <2>1 DEF ProcInv, Holding
<1>12. \E v : work' = [work EXCEPT ![p] = v]
  BY <1>2
<1>13. minted' \in Nat /\ minted <= minted'
  BY <1>1, MintedTyped
<1> QED BY <1>1, <1>7, <1>11, <1>12, <1>13, CalmStep

LEMMA LoadOnlyKeeps ==
    ASSUME Typed, StoreInv, NEW p \in Procs, LoadOnly(p)
    PROVE  StoreInv'
<1>1. /\ pc[p] = "load" /\ Goto(p, "reply") /\ minted' = minted
      /\ UNCHANGED <<files, promised, settled>>
  BY DEF LoadOnly, answers
<1>2. work' = work \/ \E w : work' = [work EXCEPT ![p] = w]
  <2>1. CASE work' = work
    BY <2>1
  <2>2. CASE work' # work
    <3>1. work' = [work EXCEPT ![p] = [work[p] EXCEPT !.found = work[p].call.ids \cap Readable(history)]]
      BY <2>2 DEF LoadOnly, Typed, LocalTyped
    <3> QED BY <3>1
  <2> QED BY <2>1, <2>2
<1>3. work'[p].added = work[p].added /\ work'[p].finished = work[p].finished
  BY DEF LoadOnly, Typed, LocalTyped, Work
<1>4. Calm
  BY <1>1, UnchangedIsCalm
<1>5. Durable' = Durable
  BY <1>1 DEF Durable, files
<1>6. pc'[p] = "reply" /\ Answerable(work[p]) /\ Seen.dir
  BY <1>1, <1>2, OthersRest DEF StoreInv, ProcInv, HolderInv
<1>7. Answerable(work[p])'
  BY <1>3, <1>4, <1>5, <1>6 DEF Answerable, Calm
<1>8. ProcInv(p)'
  BY <1>4, <1>6, <1>7 DEF ProcInv, HolderInv, Holding, Committing, Calm
<1>9. minted' \in Nat /\ minted <= minted'
  BY <1>1, MintedTyped
<1> QED BY <1>1, <1>2, <1>4, <1>8, <1>9, CalmStep

-----------------------------------------------------------------------------
(* Appending. *)

LEMMA OpenHistoryKeeps ==
    ASSUME Typed, StoreInv, NEW p \in Procs, OpenHistory(p)
    PROVE  StoreInv'
<1> DEFINE w == [work[p] EXCEPT !.created = ~Seen.made]
<1>1. /\ pc[p] = "open" /\ Goto(p, "end_line") /\ minted' = minted
      /\ UNCHANGED <<disk, history, synced, promised, settled>>
      /\ work' = [work EXCEPT ![p] = w]
  BY DEF OpenHistory, answers, Typed, LocalTyped
<1>2. /\ w.next = work[p].next /\ w.left = work[p].left /\ w.finished = work[p].finished
      /\ w.added = work[p].added /\ w.after = work[p].after
  BY DEF Typed, LocalTyped, Work
<1> HIDE DEF w
<1>3. \E v : work' = [work EXCEPT ![p] = v]
  BY <1>1
<1>4. pc'[p] = "end_line" /\ work'[p] = w
  BY <1>1, <1>3, OthersRest DEF Typed, LocalTyped
<1>5. /\ Seen.dir /\ Changes(work[p]) /\ Writes(work[p], "open")
      /\ w.after = "load" => w.finished = {}
  BY <1>1, <1>2 DEF StoreInv, ProcInv, HolderInv, Committing
<1>6. /\ Seen'.dir /\ Seen'.made /\ SameQueues /\ DiskInv'
  <2>1. CASE Seen.made
    <3>1. Calm
      BY <1>1, <2>1, UnchangedIsCalm DEF OpenHistory, files
    <3> QED BY <1>1, <1>5, <2>1, <3>1, CalmFiles, MintedTyped
            DEF Calm, SameQueues, StoreInv, FilesInv
  <2>2. CASE ~Seen.made
    <3> DEFINE c == [op |-> "creat"]
    <3>1. c \in Change /\ Note(c)
      BY <1>1, <2>2 DEF OpenHistory, Change
    <3> HIDE DEF c
    <3>2. /\ Seen' = Apply(c, Seen)
          /\ \A J \in Images' : \/ J \in Images
                                \/ \E I \in Images : J = Apply(c, I) /\ (disk.ordered => I = Seen)
      BY <1>1, <3>1, NoteShape DEF Typed, FilesTyped
    <3>3. \A d : Apply(c, d).made = TRUE /\ Apply(c, d).queue = d.queue
      BY DEF Apply, c
    <3>4. Apply(c, Seen).dir
      BY <1>5 DEF Apply, c
    <3>5. disk'.ordered = disk.ordered /\ disk.ordered /\ ~ (synced' > 0)
      <4>1. disk.ordered
        BY <2>2, SeenDisk DEF StoreInv, FilesInv, DiskInv, Typed, FilesTyped, FilesType, Disk
      <4>2. ~ (synced' > 0)
        BY <1>1, <2>2, SeenDisk DEF StoreInv, FilesInv, DiskInv
      <4> QED BY <1>1, <4>1, <4>2
    <3>6. \A J \in Images' : ~J.dir => ~J.made /\ J.queue = {}
      BY <3>2, <3>4, <3>5 DEF StoreInv, FilesInv, DiskInv
    <3>7. DiskInv'
      BY <3>5, <3>6 DEF DiskInv
    <3>8. SameQueues
      BY <3>2, <3>3 DEF SameQueues
    <3> QED BY <3>2, <3>3, <3>4, <3>7, <3>8
  <2> QED BY <2>1, <2>2
<1>7. FilesInv'
  BY <1>1, <1>6, QueuesKept, MintedTyped DEF StoreInv, FilesInv
<1>8. ProcInv(p)'
  <2>1. Closed(history)' = Closed(history) /\ Durable' = Durable
    BY <1>1 DEF Closed, Durable
  <2>2. Changes(work[p])'
    BY <1>1, <1>2, <1>4, <1>5, <1>6, <2>1 DEF Changes, SameQueues
  <2>3. Writes(work[p], pc[p])'
    <3>1. work'[p].left = work[p].left /\ work'[p].finished = work[p].finished
      BY <1>2, <1>4
    <3>2. Closed(work[p].left)' = Closed(work[p].left) /\ Chained(work[p].left)' = Chained(work[p].left)
      BY <3>1 DEF Closed, Chained
    <3> QED BY <1>4, <1>5, <1>6, <2>1, <3>1, <3>2 DEF Writes
  <2>4. HolderInv(p)'
    BY <1>4, <1>5, <2>2, <2>3 DEF HolderInv
  <2> QED BY <1>4, <1>6, <2>4 DEF ProcInv, Holding
<1> QED BY <1>1, <1>3, <1>6, <1>7, <1>8, HolderStep DEF Holding

(* Tokens are appended to the history, none of them completes a line of an   *)
(* entry that is not in the queue.                                         *)
LEMMA AppendKeepsFiles ==
    ASSUME Typed, Typed', StoreInv, UNCHANGED <<disk, pending, synced, minted, promised, settled>>,
           WellFormed(history'), Closed(history) \subseteq Closed(history'),
           Closed(history') \ Closed(history) \subseteq Seen.queue \ {Unnamed},
           \A m \in 1..Len(history) : history'[m] = history[m]
    PROVE  FilesInv' /\ Seen' = Seen /\ Images' = Images /\ Durable' = Durable
<1>1. Seen' = Seen
  BY DEF Seen, With, Renames
<1>2. Images' = Images
  <2>1. Cuts' = Cuts
    BY DEF Cuts
  <2>2. \A K \in Cuts : With(K)' = With(K)
    BY DEF With, Renames
  <2> QED BY <2>1, <2>2 DEF Images
<1>3. Durable' = Durable
  <2>1. synced \in 0..Len(history) /\ Len(history) \in Nat
    BY DEF Typed, FilesTyped
  <2>2. \A m \in 1..synced : history'[m] = history[m]
    BY <2>1
  <2> QED BY <2>2 DEF Durable
<1>4. DiskInv'
  BY <1>2 DEF DiskInv, StoreInv, FilesInv
<1>5. LinesInv'
  <2>1. Closed(history)' = Closed(history')
    BY DEF Closed
  <2>2. WellFormed(history)'
    BY DEF WellFormed, Chained
  <2>3. Closed(history') \cup (Seen.queue \ {Unnamed}) \subseteq 1..minted
    BY DEF StoreInv, FilesInv, LinesInv
  <2>4. \A I \in Images : I.queue \subseteq Seen.queue \cup Closed(history') \cup {Unnamed}
    BY DEF StoreInv, FilesInv, LinesInv
  <2> QED BY <1>1, <1>2, <2>1, <2>2, <2>3, <2>4 DEF LinesInv
<1>6. AnswersInv'
  BY <1>2, <1>3 DEF AnswersInv, StoreInv, FilesInv
<1> QED BY <1>1, <1>2, <1>3, <1>4, <1>5, <1>6 DEF FilesInv

LEMMA EndTornLineKeeps ==
    ASSUME Typed, Typed', StoreInv, NEW p \in Procs, EndTornLine(p)
    PROVE  StoreInv'
<1>1. /\ pc[p] = "end_line" /\ Goto(p, "write") /\ work' = work
      /\ UNCHANGED <<disk, pending, synced, minted, promised, settled>>
      /\ history' = IF EndsWithoutNewline(history) THEN Append(history, Newline) ELSE history
  BY DEF EndTornLine, answers
<1>2. history \in Seq(Token) /\ Newline \in Token /\ WellFormed(history)
  BY DEF Typed, FilesTyped, Token, Newline, StoreInv, FilesInv, LinesInv
<1>3. Fits(history, Newline)
  BY DEF Fits, MayFollow, Newline
<1>4. \A i \in Ids : Newline # <<"close", i>>
  BY DEF Newline
<1>5. /\ WellFormed(history') /\ Closed(history') = Closed(history)
      /\ history' # <<>> => history'[Len(history')] = Newline
      /\ \A m \in 1..Len(history) : history'[m] = history[m]
  <2>1. CASE EndsWithoutNewline(history)
    <3>1. history' = Append(history, Newline)
      BY <1>1, <2>1
    <3>2. \A m \in 1..Len(history) : Append(history, Newline)[m] = history[m]
      BY <1>2
    <3>3. /\ WellFormed(history') /\ history'[Len(history')] = Newline
          /\ Closed(history') = Closed(history) \cup {i \in Ids : Newline = <<"close", i>>}
      BY <1>2, <1>3, <3>1, AppendToken
    <3>4. Closed(history') = Closed(history)
      BY <1>4, <3>3
    <3>5. \A m \in 1..Len(history) : history'[m] = history[m]
      BY <3>1, <3>2
    <3> QED BY <3>3, <3>4, <3>5
  <2>2. CASE ~EndsWithoutNewline(history)
    BY <1>1, <1>2, <2>2 DEF EndsWithoutNewline
  <2> QED BY <2>1, <2>2
<1>6. FilesInv' /\ Seen' = Seen /\ Images' = Images /\ Durable' = Durable
  BY <1>1, <1>5, AppendKeepsFiles
<1>7. pc'[p] = "write" /\ work'[p] = work[p]
  BY <1>1, OthersRest
<1>8. /\ Seen.dir /\ Changes(work[p]) /\ Writes(work[p], "end_line")
      /\ work[p].after = "load" => work[p].finished = {}
  BY <1>1 DEF StoreInv, ProcInv, HolderInv, Committing
<1>9. Fits(history', work[p].left[1])
  BY <1>5, <1>8 DEF Writes, Fits, MayFollow, Newline
<1>10. ProcInv(p)'
  <2>1. Closed(history)' = Closed(history)
    BY <1>5 DEF Closed
  <2>2. Changes(work[p])'
    BY <1>1, <1>6, <1>7, <1>8, <2>1 DEF Changes
  <2>3. Writes(work[p], pc[p])'
    <3>1. Closed(work[p].left)' = Closed(work[p].left) /\ Chained(work[p].left)' = Chained(work[p].left)
      BY <1>7 DEF Closed, Chained
    <3>2. Fits(history, work[p].left[1])'
      BY <1>7, <1>9 DEF Fits
    <3> QED BY <1>6, <1>7, <1>8, <2>1, <3>1, <3>2 DEF Writes
  <2>4. HolderInv(p)'
    BY <1>7, <1>8, <2>2, <2>3 DEF HolderInv
  <2> QED BY <1>6, <1>7, <1>8, <2>4 DEF ProcInv, Holding
<1> QED BY <1>1, <1>6, <1>10, HolderStep DEF Holding

LEMMA WriteLineKeeps ==
    ASSUME Typed, Typed', StoreInv, NEW p \in Procs, WriteLine(p)
    PROVE  StoreInv'
<1> DEFINE l == work[p].left
           w == [work[p] EXCEPT !.left = Tail(@)]
<1>1. /\ pc[p] = "write" /\ pc' = pc /\ l # <<>> /\ history' = Append(history, Head(l))
      /\ UNCHANGED <<disk, pending, synced, minted, promised, settled>>
      /\ work' = [work EXCEPT ![p] = w]
  BY DEF WriteLine, answers, Typed, LocalTyped
<1>2. /\ w.next = work[p].next /\ w.left = Tail(l) /\ w.finished = work[p].finished
      /\ w.added = work[p].added /\ w.after = work[p].after /\ l \in Seq(Token)
  BY WorkFields DEF Typed, LocalTyped, Work
<1> HIDE DEF w
<1>3. work'[p] = w /\ pc'[p] = "write"
  BY <1>1 DEF Typed, LocalTyped
<1>4. /\ Seen.dir /\ Changes(work[p]) /\ Writes(work[p], "write")
      /\ work[p].after = "load" => work[p].finished = {}
  BY <1>1 DEF StoreInv, ProcInv, HolderInv, Committing
<1>5. /\ Chained(l) /\ Fits(history, l[1]) /\ Closed(l) \subseteq work[p].finished
      /\ work[p].finished \subseteq Closed(history) \cup Closed(l)
      /\ Seen.made
  BY <1>1, <1>4 DEF Writes
<1> HIDE DEF l
<1>6. /\ Head(l) \in Token /\ Head(l) = l[1] /\ Tail(l) \in Seq(Token)
      /\ Closed(l) = Closed(Tail(l)) \cup {i \in Ids : Head(l) = <<"close", i>>}
      /\ Chained(Tail(l))
      /\ Tail(l) # <<>> => MayFollow(Head(l), Tail(l)[1])
  BY <1>1, <1>2, <1>5, RestOfLines
<1>7. history \in Seq(Token) /\ WellFormed(history)
  BY DEF Typed, FilesTyped, StoreInv, FilesInv, LinesInv
<1>8. /\ Closed(history') = Closed(history) \cup {i \in Ids : Head(l) = <<"close", i>>}
      /\ WellFormed(history') /\ history' # <<>> /\ history'[Len(history')] = Head(l)
      /\ \A m \in 1..Len(history) : history'[m] = history[m]
  <2>1. \A m \in 1..Len(history) : Append(history, Head(l))[m] = history[m]
    BY <1>6, <1>7
  <2> QED BY <1>1, <1>5, <1>6, <1>7, <2>1, AppendToken
<1>9. /\ Closed(history') \ Closed(history) \subseteq work[p].finished
      /\ work[p].finished \subseteq Seen.queue /\ Unnamed \notin work[p].finished
  <2>1. work[p].finished \subseteq Ids
    BY WorkFields DEF Typed, LocalTyped
  <2> QED BY <1>4, <1>5, <1>6, <1>8, <2>1, StoreAssumption DEF Changes
<1>10. FilesInv' /\ Seen' = Seen /\ Images' = Images /\ Durable' = Durable
  BY <1>1, <1>8, <1>9, AppendKeepsFiles
<1>11. ProcInv(p)'
  <2>1. Closed(history)' = Closed(history')
    BY DEF Closed
  <2>2. Changes(work[p])'
    BY <1>1, <1>2, <1>3, <1>4, <1>9, <1>10, <2>1 DEF Changes
  <2>3. Writes(work[p], pc[p])'
    <3> DEFINE r == Tail(l)
    <3>1. work'[p].left = r /\ work'[p].finished = work[p].finished
      BY <1>2, <1>3
    <3>2. r # <<>> => Fits(history', r[1])
      BY <1>6, <1>8 DEF Fits
    <3>3. /\ work[p].finished \subseteq Closed(history') \cup Closed(r)
          /\ Closed(r) \subseteq work[p].finished /\ Chained(r)
      BY <1>5, <1>6, <1>8
    <3> HIDE DEF r
    <3>4. Closed(work[p].left)' = Closed(r) /\ Chained(work[p].left)' = Chained(r)
      BY <3>1 DEF Closed, Chained
    <3>5. work'[p].left # <<>> => Fits(history, work[p].left[1])'
      BY <3>1, <3>2 DEF Fits
    <3> QED BY <1>3, <1>5, <1>10, <2>1, <3>1, <3>3, <3>4, <3>5 DEF Writes
  <2>4. HolderInv(p)'
    BY <1>2, <1>3, <1>4, <2>2, <2>3 DEF HolderInv
  <2> QED BY <1>3, <1>4, <1>10, <2>4 DEF ProcInv, Holding
<1>12. \E v : work' = [work EXCEPT ![p] = v]
  BY <1>1
<1> QED BY <1>1, <1>10, <1>11, <1>12, HolderStep DEF Holding

-----------------------------------------------------------------------------
(* Flushing the history and the new queue.json. *)

(* Nothing of the history that was written can be lost any more. *)
LEMMA SyncHistoryKeeps ==
    ASSUME Typed, Typed', StoreInv, NEW p \in Procs, SyncHistory(p)
    PROVE  StoreInv'
<1>1. /\ pc[p] = "write" /\ work[p].left = <<>> /\ work' = work
      /\ UNCHANGED <<history, minted, promised, settled>> /\ synced' = Len(history)
      /\ Flush({}, TRUE)
  BY DEF SyncHistory, SyncFile, answers
<1>2. PICK s \in {"sync_new", "save"} : Goto(p, s)
  BY DEF SyncHistory
<1>3. FilesType /\ FilesType' /\ history \in Seq(Token) /\ synced \in 0..Len(history)
  BY DEF Typed, FilesTyped
<1>4. Seen' = Seen /\ Images' \subseteq Images /\ disk'.ordered = disk.ordered
  BY <1>1, <1>3, FlushShape
<1>5. disk.ordered => \A I \in Images' : I = Seen
  BY <1>1, <1>3, FlushShape
<1>6. /\ Seen.dir /\ Seen.made /\ Changes(work[p])
      /\ work[p].finished \subseteq Closed(history) \cup Closed(<<>>)
      /\ work[p].after = "load" => work[p].finished = {}
  BY <1>1 DEF StoreInv, ProcInv, HolderInv, Holding, Committing, Writes
<1>7. Closed(history)' = Closed(history) /\ WellFormed(history)' = WellFormed(history)
  BY <1>1 DEF Closed, WellFormed, Chained
<1>8. Durable' = Closed(history) /\ Durable \subseteq Closed(history)
  <2>1. DOMAIN history = 1..Len(history)
    BY <1>3
  <2>2. Durable' = Closed(history)
    BY <1>1, <2>1 DEF Durable, Closed
  <2> QED BY <2>2, DurableIsClosed DEF Typed
<1>9. DiskInv'
  <2>1. \A I \in Images' : I.dir /\ I.made
    BY <1>4, <1>5, <1>6 DEF StoreInv, FilesInv, DiskInv
  <2> QED BY <2>1 DEF DiskInv
<1>10. LinesInv'
  BY <1>1, <1>4, <1>7 DEF StoreInv, FilesInv, LinesInv
<1>11. AnswersInv'
  BY <1>1, <1>4, <1>8 DEF StoreInv, FilesInv, AnswersInv
<1>12. pc'[p] = s /\ work'[p] = work[p]
  BY <1>1, <1>2, OthersRest
<1>13. ProcInv(p)'
  <2>1. Changes(work[p])'
    BY <1>1, <1>4, <1>6, <1>7, <1>8 DEF Changes
  <2>2. work[p].finished \subseteq Durable'
    BY <1>6, <1>8, NoTokens
  <2>3. HolderInv(p)'
    BY <1>2, <1>6, <1>12, <2>1, <2>2 DEF HolderInv
  <2> QED BY <1>2, <1>4, <1>6, <1>12, <2>3 DEF ProcInv, Holding
<1> QED BY <1>1, <1>2, <1>4, <1>9, <1>10, <1>11, <1>13, HolderStep DEF Holding, FilesInv

(* A flush between the operations of a commit: of .animus for the new history *)
(* file, of the temporary file.                                            *)
LEMMA CommitGoesOn ==
    ASSUME Typed, StoreInv, NEW p \in Procs, pc[p] \in {"sync_new", "save"},
           NEW s \in {"save", "rename"}, Goto(p, s), Calm,
           UNCHANGED <<work, minted, promised, settled>>
    PROVE  StoreInv'
<1>1. pc'[p] = s /\ work'[p] = work[p]
  BY OthersRest
<1>2. Closed(history)' = Closed(history) /\ Durable' = Durable
  BY DEF Closed, Durable, Calm
<1>3. /\ Seen.dir /\ Changes(work[p]) /\ work[p].finished \subseteq Durable
      /\ work[p].after = "load" => work[p].finished = {}
  BY DEF StoreInv, ProcInv, HolderInv, Holding, Committing
<1>4. Changes(work[p])'
  BY <1>2, <1>3 DEF Changes, Calm
<1>5. HolderInv(p)'
  BY <1>1, <1>2, <1>3, <1>4 DEF HolderInv
<1>6. ProcInv(p)'
  BY <1>1, <1>3, <1>5 DEF ProcInv, Holding, Calm
<1>7. minted' \in Nat /\ minted <= minted'
  BY MintedTyped
<1> QED BY <1>6, <1>7, CalmStep

LEMMA FlushKeeps ==
    ASSUME Typed, StoreInv, NEW p \in Procs, SyncNewHistory(p) \/ WriteTmp(p)
    PROVE  StoreInv'
<1>1. CASE SyncNewHistory(p)
  <2>1. Calm
    BY <1>1, FlushIsCalm DEF SyncNewHistory, SyncAnimus, Typed
  <2> QED BY <1>1, <2>1, CommitGoesOn DEF SyncNewHistory, answers
<1>2. CASE WriteTmp(p)
  <2>1. Calm
    BY <1>2, FlushIsCalm DEF WriteTmp, SyncFile, Typed
  <2> QED BY <1>2, <2>1, CommitGoesOn DEF WriteTmp, answers
<1> QED BY <1>1, <1>2

-----------------------------------------------------------------------------
(* Replacing queue.json. *)

(* What is answered and what is in the history's durable part is so whether *)
(* a disk has the old queue.json or the new one.                           *)
LEMMA PublishKeeps ==
    ASSUME Typed, Typed', StoreInv, NEW p \in Procs, Publish(p)
    PROVE  StoreInv'
<1> DEFINE N == work[p].next
           c == [op |-> "rename", queue |-> N]
<1>1. /\ pc[p] = "rename" /\ Goto(p, "sync_dir") /\ work' = work
      /\ UNCHANGED <<disk, history, synced, minted, promised, settled>> /\ Note(c)
  BY DEF Publish, answers
<1>2. N \in SUBSET (Ids \cup {Unnamed}) /\ work[p].finished \subseteq Ids /\ work[p].added \subseteq Ids
  BY WorkFields DEF Typed, LocalTyped
<1>3. /\ Seen.dir /\ Changes(work[p]) /\ work[p].finished \subseteq Durable
      /\ work[p].after = "load" => work[p].finished = {}
  BY <1>1 DEF StoreInv, ProcInv, HolderInv, Holding, Committing
<1>4. c \in Change
  BY <1>2 DEF Change
<1>5. \A d : /\ Apply(c, d).queue = N /\ Apply(c, d).dir = (d.dir \/ FALSE)
             /\ Apply(c, d).made = (d.made \/ FALSE)
  BY DEF Apply
<1> HIDE DEF c
<1>6. /\ Seen' = Apply(c, Seen)
      /\ \A J \in Images' : \/ J \in Images
                            \/ \E I \in Images : J = Apply(c, I) /\ (disk.ordered => I = Seen)
  BY <1>1, <1>4, NoteShape DEF Typed, FilesTyped
<1>7. \A I \in Images : I.dir \in BOOLEAN /\ I.made \in BOOLEAN
  BY SeenDisk DEF Disk
<1>8. Seen'.queue = N /\ Seen'.dir
  BY <1>3, <1>5, <1>6
<1>9. \A J \in Images' :
        \/ J \in Images
        \/ \E I \in Images : /\ J.queue = N /\ J.dir = I.dir /\ J.made = I.made
                             /\ disk.ordered => I = Seen
  BY <1>5, <1>6, <1>7
<1>10. Closed(history)' = Closed(history) /\ Durable' = Durable /\ WellFormed(history)' = WellFormed(history)
  BY <1>1 DEF Closed, Durable, WellFormed, Chained
<1> HIDE DEF N
<1>11. /\ N \ Seen.queue \subseteq 1..minted /\ (N \ Seen.queue) \cap Closed(history) = {}
       /\ Seen.queue \ N \subseteq work[p].finished \cup {Unnamed}
       /\ work[p].finished \cap N = {}
       /\ work[p].added \subseteq N \cup work[p].finished \cup Durable
  BY <1>3 DEF Changes, N
<1>12. DiskInv'
  <2>1. \A J \in Images' : ~disk.ordered => J.dir /\ J.made
    BY <1>9 DEF StoreInv, FilesInv, DiskInv
  <2>2. \A J \in Images' : ~J.dir => ~J.made /\ J.queue = {}
    <3>1. ASSUME NEW J \in Images', ~J.dir
          PROVE  J \in Images
      BY <1>3, <1>9, <3>1 DEF StoreInv, FilesInv, DiskInv
    <3> QED BY <3>1 DEF StoreInv, FilesInv, DiskInv
  <2>3. synced > 0 => \A J \in Images' : J.dir /\ J.made
    BY <1>9 DEF StoreInv, FilesInv, DiskInv
  <2> QED BY <1>1, <2>1, <2>2, <2>3 DEF DiskInv
<1>13. LinesInv'
  <2>1. Durable \subseteq Closed(history) /\ Seen.queue \ {Unnamed} \subseteq 1..minted
    BY QueueFacts
  <2>2. \A J \in Images' : J.queue \subseteq N \cup Closed(history) \cup {Unnamed}
    <3>1. \A I \in Images : I.queue \subseteq Seen.queue \cup Closed(history) \cup {Unnamed}
      BY DEF StoreInv, FilesInv, LinesInv
    <3>2. Seen.queue \subseteq N \cup Closed(history) \cup {Unnamed}
      BY <1>3, <1>11, <2>1
    <3> QED BY <1>9, <3>1, <3>2
  <2>3. N \ {Unnamed} \subseteq 1..minted
    BY <1>11, <2>1
  <2>4. Closed(history) \subseteq 1..minted /\ WellFormed(history)
    BY DEF StoreInv, FilesInv, LinesInv
  <2> QED BY <1>1, <1>8, <1>10, <2>2, <2>3, <2>4 DEF LinesInv
<1>14. promised \subseteq N \cup Durable /\ settled \subseteq Durable \ N
  <2>1. promised \subseteq Seen.queue \cup Durable /\ settled \subseteq Durable \ Seen.queue
    BY SeenDisk DEF StoreInv, FilesInv, AnswersInv
  <2>2. promised \subseteq Ids /\ Unnamed \notin Ids
    BY QueueFacts
  <2>3. Durable \subseteq Closed(history)
    BY QueueFacts
  <2> QED BY <1>3, <1>11, <2>1, <2>2, <2>3
<1>15. AnswersInv'
  BY <1>1, <1>9, <1>10, <1>14 DEF StoreInv, FilesInv, AnswersInv
<1>16. pc'[p] = "sync_dir" /\ work'[p] = work[p]
  BY <1>1, OthersRest
<1>17. ProcInv(p)'
  <2>1. work[p].added \subseteq N \cup Durable /\ work[p].finished \subseteq Durable \ N
    BY <1>3, <1>11
  <2>2. HolderInv(p)'
    BY <1>3, <1>8, <1>10, <1>16, <2>1 DEF HolderInv, N, Committing
  <2> QED BY <1>8, <1>16, <2>2 DEF ProcInv, Holding
<1> QED BY <1>1, <1>8, <1>12, <1>13, <1>15, <1>17, HolderStep DEF Holding, FilesInv

(* Every disk has the new queue.json now: the call may be answered. *)
LEMMA SyncQueueKeeps ==
    ASSUME Typed, StoreInv, NEW p \in Procs, SyncQueue(p)
    PROVE  StoreInv'
<1>1. /\ pc[p] = "sync_dir" /\ Goto(p, work[p].after) /\ Flush({"creat", "rename"}, FALSE)
      /\ UNCHANGED <<work, history, synced, minted, promised, settled>>
  BY DEF SyncQueue, SyncAnimus, answers
<1>2. work[p].after \in {"load", "reply"}
  BY WorkFields DEF Typed, LocalTyped
<1>3. Calm /\ \A I \in Images' : I.queue = Seen.queue
  BY <1>1, FlushIsCalm, FlushShape DEF Typed, FilesTyped
<1>4. /\ Seen.dir /\ work[p].finished \subseteq Durable \ Seen.queue
      /\ work[p].added \subseteq Seen.queue \cup Durable
      /\ work[p].after = "load" => work[p].finished = {}
  BY <1>1 DEF StoreInv, ProcInv, HolderInv, Holding
<1>5. Durable' = Durable
  BY <1>3 DEF Durable, Calm
<1>6. pc'[p] = work[p].after /\ work'[p] = work[p]
  BY <1>1, OthersRest
<1>7. Answerable(work[p])'
  BY <1>3, <1>4, <1>5, <1>6 DEF Answerable
<1>8. HolderInv(p)'
  BY <1>2, <1>4, <1>6, <1>7 DEF HolderInv, Committing
<1>9. ProcInv(p)'
  BY <1>2, <1>3, <1>4, <1>6, <1>8 DEF ProcInv, Holding, Calm
<1>10. minted' \in Nat /\ minted <= minted'
  BY <1>1, MintedTyped
<1> QED BY <1>1, <1>3, <1>9, <1>10, CalmStep

LEMMA ReplyKeeps ==
    ASSUME Typed, StoreInv, NEW p \in Procs, Reply(p)
    PROVE  StoreInv'
<1>1. /\ pc[p] = "reply" /\ Goto(p, "idle") /\ minted' = minted /\ UNCHANGED files
      /\ work' = [work EXCEPT ![p] = NoWork]
      /\ promised' = promised \cup work[p].added /\ settled' = settled \cup work[p].finished
  BY DEF Reply
<1>2. Calm
  BY <1>1, UnchangedIsCalm
<1>3. Answerable(work[p])
  BY <1>1 DEF StoreInv, ProcInv, HolderInv
<1>4. Durable' = Durable
  BY <1>2 DEF Durable, Calm
<1>5. minted \in Nat /\ minted' \in Nat /\ minted <= minted'
  BY <1>1, MintedTyped
<1>6. DiskInv' /\ LinesInv'
  BY <1>2, <1>5, CalmFiles DEF StoreInv, FilesInv
<1>7. AnswersInv'
  BY <1>1, <1>2, <1>3, <1>4 DEF AnswersInv, Answerable, StoreInv, FilesInv, Calm
<1>8. pc'[p] = "idle" /\ work'[p] = NoWork
  BY <1>1, OthersRest DEF Typed, LocalTyped
<1>9. ProcInv(p)'
  BY <1>8, NothingYet, WithoutLock DEF Holding
<1>10. \E v : work' = [work EXCEPT ![p] = v]
  BY <1>1
<1>11. Seen.dir => Seen'.dir
  BY <1>2 DEF Calm
<1> QED BY <1>1, <1>6, <1>7, <1>9, <1>10, <1>11, HolderStep DEF Holding, FilesInv

-----------------------------------------------------------------------------
(* Power losses. *)

(* One of the possible disks is left, and of the history a part that has     *)
(* every record an fsync was made of.                                      *)
LEMMA PowerLossLeaves ==
    ASSUME Typed, Typed', StoreInv, PowerLoss
    PROVE  \E I \in Images :
              /\ Seen' = I /\ Images' = {I} /\ disk'.ordered = disk.ordered
              /\ synced' > 0 => I.dir /\ I.made
              /\ WellFormed(history') /\ synced' = Len(history')
              /\ Closed(history') \subseteq Closed(history) /\ Durable \subseteq Closed(history')
<1>1. PICK I \in Images, n \in synced..Len(history) :
        /\ disk' = Survivor(I) /\ pending' = <<>>
        /\ history' = IF I.dir /\ I.made THEN SubSeq(history, 1, n) ELSE <<>>
        /\ synced' = Len(history')
  BY PowerLossShape
<1>2. I \in Disk /\ I.ordered = disk.ordered
  BY ImagesAreDisks DEF Typed, FilesTyped
<1>3. ~I.dir => ~I.made /\ I.queue = {}
  BY DEF StoreInv, FilesInv, DiskInv
<1>4. disk' = I
  <2>1. CASE I.dir
    BY <1>1, <2>1 DEF Survivor
  <2>2. CASE ~I.dir
    <3>1. [I EXCEPT !.made = FALSE, !.queue = {}] = I
      BY <1>2, <1>3, <2>2 DEF Disk
    <3> QED BY <1>1, <2>2, <3>1 DEF Survivor
  <2> QED BY <2>1, <2>2
<1>5. Seen' = I /\ Images' = {I} /\ disk'.ordered = disk.ordered
  BY <1>1, <1>2, <1>4, PowerShape
<1>6. /\ history \in Seq(Token) /\ synced \in 0..Len(history) /\ n \in 0..Len(history)
      /\ DOMAIN history = 1..Len(history) /\ WellFormed(history) /\ Len(history) \in Nat
  BY DEF Typed, FilesTyped, StoreInv, FilesInv, LinesInv
<1>7. CASE I.dir /\ I.made
  <2> DEFINE g == SubSeq(history, 1, n)
  <2>1. /\ Closed(g) = {i \in Ids : \E m \in 1..n : history[m] = <<"close", i>>}
        /\ WellFormed(g)
    BY <1>6, Prefix
  <2>2. 1..n \subseteq DOMAIN history /\ 1..synced \subseteq 1..n
    BY <1>6
  <2>3. history' = g
    BY <1>1, <1>7
  <2> HIDE DEF g
  <2>4. Closed(g) \subseteq Closed(history) /\ Durable \subseteq Closed(g)
    BY <2>1, <2>2 DEF Closed, Durable
  <2> QED BY <1>1, <1>5, <1>7, <2>1, <2>3, <2>4
<1>8. CASE ~(I.dir /\ I.made)
  <2>1. history' = <<>> /\ synced' = 0
    BY <1>1, <1>8
  <2>2. ~(synced > 0)
    BY <1>8 DEF StoreInv, FilesInv, DiskInv
  <2>3. 1..synced = {}
    BY <1>6, <2>2
  <2>4. Durable = {}
    BY <2>3 DEF Durable
  <2>5. Closed(history') = {} /\ WellFormed(history')
    BY <2>1, NoTokens
  <2> QED BY <1>1, <1>5, <2>1, <2>4, <2>5
<1> QED BY <1>7, <1>8

LEMMA PowerLossKeeps ==
    ASSUME Typed, Typed', StoreInv, PowerLoss
    PROVE  StoreInv'
<1>1. PICK I \in Images :
              /\ Seen' = I /\ Images' = {I} /\ disk'.ordered = disk.ordered
              /\ synced' > 0 => I.dir /\ I.made
              /\ WellFormed(history') /\ synced' = Len(history')
              /\ Closed(history') \subseteq Closed(history) /\ Durable \subseteq Closed(history')
  BY PowerLossLeaves
<1>2. /\ UNCHANGED <<minted, promised, settled>> /\ pc' = [p \in Procs |-> "idle"]
      /\ work' = [p \in Procs |-> NoWork]
  BY DEF PowerLoss, answers
<1>3. /\ Closed(history)' = Closed(history') /\ WellFormed(history)' = WellFormed(history')
  BY DEF Closed, WellFormed, Chained
<1>4. Durable' = Closed(history')
  <2>1. history' \in Seq(Token)
    BY DEF Typed, FilesTyped
  <2>2. DOMAIN history' = 1..synced'
    BY <1>1, <2>1
  <2> QED BY <2>2 DEF Durable, Closed
<1>5. DiskInv'
  BY <1>1 DEF StoreInv, FilesInv, DiskInv
<1>6. LinesInv'
  <2>1. I.queue \ {Unnamed} \subseteq (Seen.queue \ {Unnamed}) \cup Closed(history)
    BY DEF StoreInv, FilesInv, LinesInv
  <2>2. Closed(history) \cup (Seen.queue \ {Unnamed}) \subseteq 1..minted
    BY DEF StoreInv, FilesInv, LinesInv
  <2>3. Closed(history') \cup (I.queue \ {Unnamed}) \subseteq 1..minted
    BY <1>1, <2>1, <2>2
  <2> QED BY <1>1, <1>2, <1>3, <2>3 DEF LinesInv
<1>7. AnswersInv'
  BY <1>1, <1>2, <1>4 DEF StoreInv, FilesInv, AnswersInv
<1>8. ASSUME NEW p \in Procs
      PROVE  ProcInv(p)'
  BY <1>2, NothingYet, WithoutLock DEF Holding
<1> QED BY <1>5, <1>6, <1>7, <1>8 DEF StoreInv, FilesInv

-----------------------------------------------------------------------------
(* The invariant. *)

(* Where directory changes reach the disk in any order, .animus and the      *)
(* history file are there from the start.  Who finds them made by another  *)
(* process flushes no directory entry of theirs (ensure_state_dir,         *)
(* `created` in append_history), and a creator that is killed never does:  *)
(* only such a file system shows that gap.                                 *)
DisksReady == \A d \in Disks : d.ordered \/ (d.dir /\ d.made)

LEMMA InitStore == DisksReady /\ Init => StoreInv
<1> SUFFICES ASSUME DisksReady, Init
             PROVE  StoreInv
  OBVIOUS
<1>1. /\ disk \in Disk /\ disk.queue \subseteq {Unnamed} /\ (disk.ordered \/ (disk.dir /\ disk.made))
      /\ ~disk.dir => ~disk.made /\ disk.queue = {}
      /\ pending = <<>> /\ history = <<>> /\ synced = 0 /\ minted = 0
      /\ promised = {} /\ settled = {}
      /\ pc = [p \in Procs |-> "idle"] /\ work = [p \in Procs |-> NoWork]
  BY StoreAssumption DEF Init, DisksReady
<1>2. DOMAIN <<>> = {}
  OBVIOUS
<1>3. With({}) = disk
  <2>1. Renames({}) = {}
    BY DEF Renames
  <2>2. With({}) = [ordered |-> disk.ordered, dir |-> disk.dir, made |-> disk.made,
                    queue |-> disk.queue]
    BY <1>1, <2>1 DEF With, Disk
  <2> QED BY <1>1, <2>2 DEF Disk
<1>4. Cuts = {{}}
  BY <1>1, <1>2 DEF Cuts
<1>5. Seen = disk /\ Images = {disk}
  BY <1>1, <1>2, <1>3, <1>4 DEF Seen, Images
<1>6. DiskInv
  BY <1>1, <1>5 DEF DiskInv
<1>7. LinesInv
  BY <1>1, <1>5, NoTokens DEF LinesInv
<1>8. AnswersInv
  BY <1>1 DEF AnswersInv
<1>9. ASSUME NEW p \in Procs
      PROVE  ProcInv(p)
  BY <1>1, NothingYet DEF ProcInv, HolderInv, Holding, Committing
<1> QED BY <1>6, <1>7, <1>8, <1>9 DEF StoreInv, FilesInv

LEMMA StepsKeep == Typed /\ StoreInv /\ [Next]_vars => Typed' /\ StoreInv'
<1> SUFFICES ASSUME Typed, StoreInv, [Next]_vars
             PROVE  Typed' /\ StoreInv'
  OBVIOUS
<1>1. Typed'
  BY StepsAreTyped
<1>2. CASE UNCHANGED vars
  <2>1. Calm /\ UNCHANGED <<minted, promised, settled, pc, work>>
    BY <1>2, UnchangedIsCalm DEF vars, answers
  <2>2. minted' \in Nat /\ minted \in Nat /\ minted <= minted'
    BY <2>1, MintedTyped
  <2>3. FilesInv'
    BY <2>1, <2>2, CalmFiles DEF StoreInv, FilesInv
  <2>4. \A p \in Procs : ProcInv(p)'
    BY <2>1, <2>2, CalmProc DEF StoreInv
  <2> QED BY <1>1, <2>3, <2>4 DEF StoreInv
<1>3. CASE PowerLoss
  BY <1>1, <1>3, PowerLossKeeps
<1>4. ASSUME NEW p \in Procs, Stop(p)
      PROVE  StoreInv'
  BY <1>4, StopKeeps
<1>5. ASSUME NEW p \in Procs, Handler(p)
      PROVE  StoreInv'
  <2>1. CASE Begin(p) \/ Mkdir(p) \/ SyncProjectRoot(p) \/ AcquireQueueLock(p)
    BY <2>1, BeginKeeps, MkdirKeeps, SyncProjectRootKeeps, AcquireKeeps
  <2>2. CASE LoadAndMigrate(p) \/ LoadForAdd(p) \/ LoadForFinish(p) \/ LoadOnly(p)
    BY <2>2, LoadAndMigrateKeeps, LoadForAddKeeps, LoadForFinishKeeps, LoadOnlyKeeps
  <2>3. CASE OpenHistory(p) \/ EndTornLine(p) \/ WriteLine(p)
    BY <1>1, <2>3, OpenHistoryKeeps, EndTornLineKeeps, WriteLineKeeps
  <2>4. CASE SyncHistory(p) \/ SyncNewHistory(p) \/ WriteTmp(p)
    BY <1>1, <2>4, SyncHistoryKeeps, FlushKeeps
  <2>5. CASE Publish(p) \/ SyncQueue(p) \/ Reply(p)
    BY <1>1, <2>5, PublishKeeps, SyncQueueKeeps, ReplyKeeps
  <2> QED BY <1>5, <2>1, <2>2, <2>3, <2>4, <2>5 DEF Handler
<1> QED BY <1>1, <1>2, <1>3, <1>4, <1>5 DEF Next

LEMMA StoreInvariance == DisksReady => (Spec => [](Typed /\ StoreInv))
<1> SUFFICES ASSUME DisksReady
             PROVE  Spec => [](Typed /\ StoreInv)
  OBVIOUS
<1>1. Init => Typed /\ StoreInv
  BY InitTyped, InitStore
<1>2. Typed /\ StoreInv /\ [Next]_vars => (Typed /\ StoreInv)'
  BY StepsKeep
<1> QED BY <1>1, <1>2, PTL DEF Spec

-----------------------------------------------------------------------------
(* Theorems. *)

(* Every variable has its type, and the process that is between taking and   *)
(* dropping queue.lock is the one that holds it.                           *)
THEOREM StoreTypes == Spec => []TypeOK
<1>1. Typed /\ [Next]_vars => Typed'
  BY StepsAreTyped
<1> QED BY <1>1, InitTyped, TypedIsOK, PTL DEF Spec

(* Whatever kills, failed operations and power losses there were, an entry   *)
(* whose id a caller was given is in the queue or in the history, and one   *)
(* whose finish was answered is in the history and out of the queue.       *)
THEOREM CommitsSurvive == DisksReady => (Spec => []CommittedSurvives)
<1> SUFFICES ASSUME DisksReady
             PROVE  Spec => []CommittedSurvives
  OBVIOUS
<1>1. Typed /\ StoreInv => CommittedSurvives
  <2> SUFFICES ASSUME Typed, StoreInv
               PROVE  CommittedSurvives
    OBVIOUS
  <2>1. Readable(history) = Closed(history)
    BY ReadableIsClosed DEF Typed, FilesTyped, StoreInv, FilesInv, LinesInv
  <2>2. promised \subseteq Seen.queue \cup Durable /\ settled \subseteq Durable \ Seen.queue
    BY SeenDisk DEF StoreInv, FilesInv, AnswersInv
  <2>3. Durable \subseteq Closed(history)
    BY QueueFacts
  <2> QED BY <2>1, <2>2, <2>3 DEF CommittedSurvives
<1>2. DisksReady => (Spec => [](Typed /\ StoreInv))
  BY StoreInvariance
<1>3. Spec => [](Typed /\ StoreInv)
  BY <1>2
<1> QED BY <1>1, <1>3, PTL

(* What a step leaves of the two files. *)
QueueStays == /\ Seen'.queue = Seen.queue /\ Closed(history') = Closed(history)
              /\ UNCHANGED <<promised, settled>>

LEMMA QuietSteps ==
    ASSUME Typed, Typed', StoreInv, NEW p \in Procs,
           \/ Begin(p) \/ Mkdir(p) \/ SyncProjectRoot(p) \/ AcquireQueueLock(p)
           \/ LoadAndMigrate(p) \/ LoadForAdd(p) \/ LoadForFinish(p) \/ LoadOnly(p)
           \/ OpenHistory(p) \/ SyncHistory(p) \/ SyncNewHistory(p)
           \/ WriteTmp(p) \/ SyncQueue(p) \/ Stop(p)
    PROVE  QueueStays /\ UNCHANGED history
<1>1. UNCHANGED <<history, promised, settled>>
  BY DEF Begin, Mkdir, SyncProjectRoot, AcquireQueueLock, LoadAndMigrate, LoadForAdd,
         LoadForFinish, LoadOnly, OpenHistory, SyncHistory, SyncNewHistory, WriteTmp,
         SyncQueue, Stop, files, answers
<1>2. CASE UNCHANGED files
  BY <1>1, <1>2, UnchangedIsCalm DEF QueueStays, Calm
<1>3. CASE \E c \in {[op |-> "mkdir"], [op |-> "creat"]} : Note(c) /\ disk' = disk
  <2>1. PICK c \in {[op |-> "mkdir"], [op |-> "creat"]} : Note(c) /\ disk' = disk
    BY <1>3
  <2>2. c \in Change /\ c.op # "rename"
    BY DEF Change
  <2>3. Seen' = Apply(c, Seen)
    BY <2>1, <2>2, NoteShape DEF Typed, FilesTyped
  <2> QED BY <1>1, <2>2, <2>3 DEF QueueStays, Apply
<1>4. CASE \E ops : \E here \in BOOLEAN : Flush(ops, here)
  <2>1. PICK ops : \E here \in BOOLEAN : Flush(ops, here)
    BY <1>4
  <2>2. Seen' = Seen
    BY <2>1, FlushShape DEF Typed, FilesTyped
  <2> QED BY <1>1, <2>2 DEF QueueStays
<1>5. \/ UNCHANGED files
      \/ \E c \in {[op |-> "mkdir"], [op |-> "creat"]} : Note(c) /\ disk' = disk
      \/ Flush({"mkdir"}, FALSE) \/ Flush({"creat", "rename"}, FALSE) \/ Flush({}, TRUE)
  BY DEF Begin, Mkdir, SyncProjectRoot, AcquireQueueLock, LoadAndMigrate, LoadForAdd,
         LoadForFinish, LoadOnly, OpenHistory, SyncHistory, SyncNewHistory, WriteTmp,
         SyncQueue, Stop, files, SyncRoot, SyncAnimus, SyncFile
<1> QED BY <1>2, <1>3, <1>4, <1>5

(* Appending to the history: lines are added, only of entries that are still *)
(* in queue.json.                                                          *)
LEMMA AppendSteps ==
    ASSUME Typed, Typed', StoreInv, NEW p \in Procs, EndTornLine(p) \/ WriteLine(p)
    PROVE  /\ Seen' = Seen /\ UNCHANGED <<promised, settled>>
           /\ Closed(history) \subseteq Closed(history')
           /\ Closed(history') \ Closed(history) \subseteq Seen.queue
<1>1. UNCHANGED <<disk, pending, promised, settled>>
  BY DEF EndTornLine, WriteLine, answers
<1>2. Seen' = Seen
  BY <1>1 DEF Seen, With, Renames
<1>3. history \in Seq(Token) /\ Newline \in Token
  BY DEF Typed, FilesTyped, Token, Newline
<1>4. CASE EndTornLine(p)
  <2>1. \A i \in Ids : Newline # <<"close", i>>
    BY DEF Newline
  <2>2. history' = history \/ history' = Append(history, Newline)
    BY <1>4 DEF EndTornLine
  <2>3. Closed(Append(history, Newline)) = Closed(history)
    <3>1. Closed(Append(history, Newline))
            = Closed(history) \cup {i \in Ids : Newline = <<"close", i>>}
      BY <1>3, AppendToken
    <3> QED BY <2>1, <3>1
  <2> QED BY <1>1, <1>2, <2>2, <2>3
<1>5. CASE WriteLine(p)
  <2> DEFINE l == work[p].left
  <2>1. pc[p] = "write" /\ l # <<>> /\ history' = Append(history, Head(l))
    BY <1>5 DEF WriteLine
  <2>2. /\ Chained(l) /\ Closed(l) \subseteq work[p].finished
        /\ work[p].finished \subseteq Seen.queue
    BY <2>1 DEF StoreInv, ProcInv, HolderInv, Committing, Writes, Changes
  <2>3. l \in Seq(Token)
    BY WorkFields DEF Typed, LocalTyped
  <2> HIDE DEF l
  <2>4. /\ Head(l) \in Token
        /\ Closed(l) = Closed(Tail(l)) \cup {i \in Ids : Head(l) = <<"close", i>>}
    BY <2>1, <2>2, <2>3, RestOfLines
  <2>5. Closed(history') = Closed(history) \cup {i \in Ids : Head(l) = <<"close", i>>}
    BY <1>3, <2>1, <2>4, AppendToken
  <2> QED BY <1>1, <1>2, <2>2, <2>4, <2>5
<1> QED BY <1>4, <1>5

LEMMA ReadableNow == Typed /\ StoreInv => Readable(history) = Closed(history)
BY ReadableIsClosed DEF Typed, FilesTyped, StoreInv, FilesInv, LinesInv

LEMMA ReadableNext ==
    ASSUME Typed', StoreInv'
    PROVE  Readable(history') = Closed(history')
<1>1. history' \in Seq(Token)
  BY DEF Typed, FilesTyped
<1>2. WellFormed(history')
  BY DEF StoreInv, FilesInv, LinesInv, WellFormed, Chained
<1> QED BY <1>1, <1>2, ReadableIsClosed

(* A line that was flushed is readable after every append and power loss,    *)
(* whatever torn line a crash left in front of it or behind it.            *)
THEOREM FlushedLinesStayReadable == DisksReady => (Spec => LinesStayReadable)
<1> SUFFICES ASSUME DisksReady
             PROVE  Spec => LinesStayReadable
  OBVIOUS
<1>1. Typed /\ StoreInv /\ [Next]_vars
        => [Readable(SubSeq(history, 1, synced)) \subseteq Readable(history')]_history
  <2> SUFFICES ASSUME Typed, StoreInv, [Next]_vars, history' # history
               PROVE  Readable(SubSeq(history, 1, synced)) \subseteq Readable(history')
    OBVIOUS
  <2>1. Typed' /\ StoreInv'
    BY StepsKeep
  <2>2. Readable(SubSeq(history, 1, synced)) = Durable
    <3> DEFINE g == SubSeq(history, 1, synced)
    <3>1. history \in Seq(Token) /\ synced \in 0..Len(history) /\ WellFormed(history)
      BY DEF Typed, FilesTyped, StoreInv, FilesInv, LinesInv
    <3>2. /\ g \in Seq(Token) /\ WellFormed(g)
          /\ Closed(g) = {i \in Ids : \E m \in 1..synced : history[m] = <<"close", i>>}
      BY <3>1, Prefix
    <3> HIDE DEF g
    <3>3. Readable(g) = Closed(g)
      BY <3>2, ReadableIsClosed
    <3> QED BY <3>2, <3>3 DEF Durable, g
  <2>3. Durable \subseteq Closed(history)
    BY QueueFacts
  <2>4. Durable \subseteq Closed(history')
    <3>1. CASE PowerLoss
      BY <2>1, <3>1, PowerLossLeaves
    <3>2. ASSUME NEW p \in Procs, Handler(p) \/ Stop(p)
          PROVE  Durable \subseteq Closed(history')
      <4>1. CASE EndTornLine(p) \/ WriteLine(p)
        BY <2>1, <2>3, <4>1, AppendSteps
      <4>2. CASE Publish(p) \/ Reply(p)
        BY <2>3, <4>2 DEF Publish, Reply, files
      <4>3. CASE ~(EndTornLine(p) \/ WriteLine(p) \/ Publish(p) \/ Reply(p))
        <5>1. history' = history
          BY <2>1, <3>2, <4>3, QuietSteps DEF Handler
        <5> QED BY <2>3, <5>1
      <4> QED BY <4>1, <4>2, <4>3
    <3> QED BY <3>1, <3>2 DEF Next, vars, files
  <2> QED BY <2>1, <2>2, <2>4, ReadableNext
<1>2. DisksReady => (Spec => [](Typed /\ StoreInv))
  BY StoreInvariance
<1>3. Spec => [](Typed /\ StoreInv)
  BY <1>2
<1> QED BY <1>1, <1>3, PTL DEF Spec, LinesStayReadable

-----------------------------------------------------------------------------
(* The refinement: a step of the files is one step of the two of them, as    *)
(* AtomicQueue has it, or none.                                            *)

LEMMA StoreStepIsAtomic ==
    ASSUME Typed, StoreInv, [Next]_vars
    PROVE  [Atomic!Next]_(Atomic!vars)
<1> DEFINE done == Closed(history) \ Seen.queue
           done2 == Closed(history') \ Seen'.queue
<1>1. Typed' /\ StoreInv'
  BY StepsKeep
<1>2. Readable(history) = Closed(history) /\ Readable(history') = Closed(history')
  BY <1>1, ReadableNow, ReadableNext
<1>3. ASSUME QueueStays
      PROVE  UNCHANGED Atomic!vars
  BY <1>2, <1>3 DEF QueueStays, Atomic!vars
<1>4. CASE UNCHANGED vars
  BY <1>3, <1>4, UnchangedIsCalm DEF vars, answers, QueueStays, Calm, files
<1>5. CASE PowerLoss
  <2>1. PICK I \in Images :
              /\ Seen' = I
              /\ Closed(history') \subseteq Closed(history) /\ Durable \subseteq Closed(history')
    BY <1>1, <1>5, PowerLossLeaves
  <2>2. I.queue \subseteq Seen.queue \cup Closed(history) \cup {Unnamed}
    BY DEF StoreInv, FilesInv, LinesInv
  <2>3. promised \subseteq I.queue \cup Durable /\ settled \subseteq Durable \ I.queue
    BY DEF StoreInv, FilesInv, AnswersInv
  <2>4. UNCHANGED <<promised, settled>>
    BY <1>5 DEF PowerLoss, answers
  <2>5. Atomic!Crash
    BY <1>2, <2>1, <2>2, <2>3, <2>4 DEF Atomic!Crash
  <2> QED BY <2>5 DEF Atomic!Next
<1>6. ASSUME NEW p \in Procs, EndTornLine(p) \/ WriteLine(p)
      PROVE  UNCHANGED Atomic!vars
  <2>1. /\ Seen' = Seen /\ UNCHANGED <<promised, settled>>
        /\ Closed(history) \subseteq Closed(history')
        /\ Closed(history') \ Closed(history) \subseteq Seen.queue
    BY <1>1, <1>6, AppendSteps
  <2>2. Closed(history') \ Seen'.queue = Closed(history) \ Seen.queue
    BY <2>1
  <2> QED BY <1>2, <2>1, <2>2 DEF Atomic!vars
<1>7. ASSUME NEW p \in Procs, Reply(p)
      PROVE  [Atomic!Next]_(Atomic!vars)
  <2>1. /\ UNCHANGED files /\ pc[p] = "reply"
        /\ promised' = promised \cup work[p].added /\ settled' = settled \cup work[p].finished
    BY <1>7 DEF Reply
  <2>2. Seen' = Seen /\ history' = history
    BY <2>1, UnchangedIsCalm DEF Calm
  <2>3. Answerable(work[p])
    BY <2>1 DEF StoreInv, ProcInv, HolderInv
  <2>4. Durable \subseteq Closed(history)
    BY QueueFacts
  <2>5. /\ work[p].added \subseteq Seen.queue \cup Durable
        /\ work[p].finished \subseteq Durable \ Seen.queue
        /\ promised \subseteq Seen.queue \cup Durable /\ settled \subseteq Durable \ Seen.queue
    BY <2>3, SeenDisk DEF Answerable, StoreInv, FilesInv, AnswersInv
  <2>6. /\ promised' \subseteq Seen.queue \cup (Closed(history) \ Seen.queue)
        /\ settled' \subseteq Closed(history) \ Seen.queue
    BY <2>1, <2>4, <2>5
  <2>7. Atomic!Answer
    BY <1>2, <2>1, <2>2, <2>6 DEF Atomic!Answer
  <2> QED BY <2>7 DEF Atomic!Next
<1>8. ASSUME NEW p \in Procs, Publish(p)
      PROVE  [Atomic!Next]_(Atomic!vars)
  <2> DEFINE N == work[p].next
             c == [op |-> "rename", queue |-> N]
  <2>1. /\ pc[p] = "rename" /\ Note(c) /\ disk' = disk
        /\ UNCHANGED <<history, promised, settled>>
    BY <1>8 DEF Publish, answers
  <2>2. /\ Changes(work[p]) /\ work[p].finished \subseteq Durable
    BY <2>1 DEF StoreInv, ProcInv, HolderInv, Committing
  <2>3. N \in SUBSET (Ids \cup {Unnamed})
    BY WorkFields DEF Typed, LocalTyped
  <2>4. c \in Change
    BY <2>3 DEF Change
  <2>5. Apply(c, Seen).queue = N
    BY DEF Apply
  <2> HIDE DEF c
  <2>6. Seen'.queue = N
    BY <2>1, <2>4, <2>5, NoteShape DEF Typed, FilesTyped
  <2>7. /\ (N \ Seen.queue) \cap Closed(history) = {}
        /\ Seen.queue \ N \subseteq work[p].finished \cup {Unnamed}
    BY <2>2 DEF Changes
  <2> HIDE DEF N
  <2>8. Durable \subseteq Closed(history)
    BY QueueFacts
  <2>9. /\ Closed(history) \ Seen.queue \subseteq Closed(history) \ N
        /\ (Closed(history) \ N) \ (Closed(history) \ Seen.queue) \subseteq Seen.queue
        /\ Seen.queue \ N \subseteq (Closed(history) \ N) \cup {Unnamed}
        /\ N \cap (Closed(history) \ N) = {}
    BY <2>2, <2>7, <2>8
  <2>10. CASE N = Seen.queue
    BY <1>3, <2>1, <2>6, <2>10 DEF QueueStays
  <2>11. CASE N # Seen.queue
    <3>1. Atomic!Commit
      BY <1>2, <2>1, <2>3, <2>6, <2>9, <2>11 DEF Atomic!Commit
    <3> QED BY <3>1 DEF Atomic!Next
  <2> QED BY <2>10, <2>11
<1>9. ASSUME NEW p \in Procs, Handler(p) \/ Stop(p)
      PROVE  [Atomic!Next]_(Atomic!vars)
  <2>1. CASE EndTornLine(p) \/ WriteLine(p)
    BY <1>6, <2>1
  <2>2. CASE Publish(p) \/ Reply(p)
    BY <1>7, <1>8, <2>2
  <2>3. CASE ~(EndTornLine(p) \/ WriteLine(p) \/ Publish(p) \/ Reply(p))
    <3>1. QueueStays
      BY <1>1, <1>9, <2>3, QuietSteps DEF Handler
    <3> QED BY <1>3, <3>1
  <2> QED BY <2>1, <2>2, <2>3
<1> QED BY <1>4, <1>5, <1>9 DEF Next

(* Kills, failed operations and power losses between the file operations of  *)
(* a commit never show: queue.json and the history change as one, at the   *)
(* rename, and what a power loss undoes nobody was told of.                *)
THEOREM CommitsAreAtomic == DisksReady => (Spec => AtomicSpec)
<1> SUFFICES ASSUME DisksReady
             PROVE  Spec => AtomicSpec
  OBVIOUS
<1>1. Init => Atomic!Init
  <2> SUFFICES ASSUME Init
               PROVE  Atomic!Init
    OBVIOUS
  <2>1. Typed /\ StoreInv
    BY InitTyped, InitStore
  <2>2. Readable(history) = {}
    BY <2>1, ReadableNow, NoTokens DEF Init
  <2>3. Seen.queue \subseteq {Unnamed}
    <3>1. disk.queue \subseteq {Unnamed} /\ DOMAIN <<>> = {}
      BY StoreAssumption DEF Init
    <3>2. DOMAIN pending = {}
      BY <3>1 DEF Init
    <3>3. Renames(DOMAIN pending) = {}
      BY <3>2 DEF Renames
    <3> QED BY <3>1, <3>3 DEF Seen, With
  <2> QED BY <2>2, <2>3 DEF Atomic!Init, Init
<1>2. Typed /\ StoreInv /\ [Next]_vars => [Atomic!Next]_(Atomic!vars)
  BY StoreStepIsAtomic
<1>3. DisksReady => (Spec => [](Typed /\ StoreInv))
  BY StoreInvariance
<1>4. Spec => [](Typed /\ StoreInv)
  BY <1>3
<1> QED BY <1>1, <1>2, <1>4, PTL DEF Spec, AtomicSpec, Atomic!Spec

=============================================================================
