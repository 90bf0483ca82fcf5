------------------------ MODULE ChunkReplicationProofs ------------------------
(***************************************************************************)
(* What a client shows of the world, for every set of dimensions, columns  *)
(* and places, any queue capacities and any number of mutations, walks and *)
(* transfers.  A column reaches the client by two ways, whole through the  *)
(* mailbox and change by change through the reliable queue, and one may    *)
(* overtake the other.  Two theorems:                                      *)
(*   1. a presented column has no hole (GapFreeInv): a column goes out     *)
(*      once, its changes go out in the order they were made, and from the *)
(*      column on none of them is missing;                                 *)
(*   2. once nothing is on its way, all that was wanted is there and       *)
(*      complete (CaughtUpInv): a wanted column is queued, on its way      *)
(*      behind every transfer, refused, or presented.                      *)
(* The first invariant speaks of one column at a time; a step is seen from *)
(* a column that it is about and from any other.                           *)
(***************************************************************************)
EXTENDS ChunkReplication, TLAPS, SequenceTheorems, FiniteSetTheorems, WellFoundedInduction

\* What may travel, and the five queues it travels through: towards the client in
\* the order wire, out, host, outbox, with the mailbox beside them.
ChunkPacket == [kind : {"chunk"}, col : Columns, rev : Nat, blocks : SUBSET Nat]
AnyPacket ==
  ChunkPacket \union [kind : {"block", "entity"}, col : Columns, rev : Nat]
    \union [kind : {"transfer"}, dim : Dimensions, pos : Positions]
Lanes == <<wire, out, host, outbox, mailbox>>
Underway(L) == UNION {PacketsOf(L[n]) : n \in 1 .. 5}

Chunk(p, c) == p.kind = "chunk" /\ p.col = c
Block(p, c) == p.kind = "block" /\ p.col = c
Change(p, c) == p.kind \in {"block", "entity"} /\ p.col = c
Sent(L, c) == {p.rev : p \in {q \in Underway(L) : Block(q, c)}}
NoChunk(L, c) == \A p \in Underway(L) : ~Chunk(p, c)

\* The block of a mutation comes before its block entity, and both before a later one.
Rank(p) == IF p.kind = "block" THEN 2 * p.rev ELSE 2 * p.rev + 1
Ahead(m, i, n, j) == m < n \/ (m = n /\ i < j)
Ascending(L, c) ==
  \A m, n \in 1 .. 5 : \A i \in DOMAIN L[m], j \in DOMAIN L[n] :
    Ahead(m, i, n, j) /\ Change(L[m][i], c) /\ Change(L[n][j], c)
      => Rank(L[m][i]) < Rank(L[n][j])
OneChunk(L, c) ==
  \A m, n \in 1 .. 5 : \A i \in DOMAIN L[m], j \in DOMAIN L[n] :
    Chunk(L[m][i], c) /\ Chunk(L[n][j], c) => m = n /\ i = j

Presented ==
  [resident : BOOLEAN, blocks : SUBSET Nat, ents : SUBSET Nat, rev : Nat, waiting : SUBSET Nat]
LaneTypes ==
  /\ wire \in Seq(AnyPacket) /\ out \in Seq(AnyPacket) /\ host \in Seq(AnyPacket)
  /\ outbox \in Seq(AnyPacket) /\ mailbox \in Seq(ChunkPacket)
ServerTypes ==
  /\ clock \in [Dimensions -> Nat]
  /\ content \in [Columns -> SUBSET Nat]
  /\ \A c \in Columns : \A r \in content[c] : r <= clock[c[1]]
  /\ resident \subseteq Columns /\ demanded \subseteq Columns
  /\ place \in Places /\ interest = View[place.pos]
  /\ pending \in Seq(Columns)
  /\ \A i, j \in DOMAIN pending : pending[i] = pending[j] => i = j
  /\ fresh \in Seq([col : Columns, rev : Nat])
ClientTypes ==
  /\ where \in Places
  /\ applied \in [Columns -> Nat \union {Unseen}]
  /\ buffered \in [Columns -> SUBSET Nat]
  /\ shown \in [Columns -> Presented]
Typed == LaneTypes /\ ServerTypes /\ ClientTypes

FreshOf(c) == {fresh[i].rev : i \in {j \in DOMAIN fresh : fresh[j].col = c}}
Known(c) == Sent(Lanes, c) \union buffered[c]

\* The changes of a column go out, and arrive, in the order they were made.
InOrder(c) ==
  /\ Ascending(Lanes, c)
  /\ \A i, j \in DOMAIN fresh :
       i < j /\ fresh[i].col = c /\ fresh[j].col = c => fresh[i].rev < fresh[j].rev
  /\ \A x \in buffered[c], r \in Sent(Lanes, c) : x < r
  /\ \A p \in Underway(Lanes), x \in FreshOf(c) : Change(p, c) => p.rev < x
  /\ \A x \in buffered[c], r \in FreshOf(c) : x < r

\* What is on its way is what was done; a block entity comes after its block.
Genuine(c) ==
  /\ Known(c) \union FreshOf(c) \subseteq content[c]
  /\ \A p \in Underway(Lanes) : Chunk(p, c) =>
       p.rev <= clock[c[1]] /\ p.blocks = {r \in content[c] : r <= p.rev}
  /\ \A p \in Underway(Lanes) : p.kind = "entity" /\ p.col = c =>
       p.rev \in Known(c) \/ (applied[c] # Unseen /\ p.rev <= applied[c])
  /\ applied[c] # Unseen => applied[c] <= clock[c[1]]

Absent(s) == ~s.resident /\ s.rev = 0 /\ s.waiting = {}

\* A column goes out at most once, and the client has it after that or not at all.
Once(c) ==
  /\ OneChunk(Lanes, c)
  /\ c \in PacketsOf(pending) => visits[c] = 1
  /\ c \in PacketsOf(pending) \/ visits[c] = 0 => applied[c] = Unseen /\ NoChunk(Lanes, c)
  /\ applied[c] = Unseen => Absent(shown[c])
  /\ shown[c].resident => c[1] = where.dim
  /\ applied[c] # Unseen =>
       /\ buffered[c] = {} /\ NoChunk(Lanes, c)
       /\ shown[c].resident =>
            shown[c].rev = applied[c] /\ shown[c].blocks = {r \in content[c] : r <= applied[c]}

\* From the column on no change is missing: before one that is on its way, and, while
\* the session wants the column, up to now.
Bases(c) ==
  IF applied[c] # Unseen THEN {applied[c]}
  ELSE {p.rev : p \in {q \in Underway(Lanes) : Chunk(q, c)}}
NoGap(c) ==
  \A b \in Bases(c) :
    /\ \A x \in Known(c), r \in content[c] : b < r /\ r < x => r \in Known(c)
    /\ Wanted(c) => \A r \in content[c] : b < r => r \in Known(c) \union FreshOf(c)

ColumnInv(c) == InOrder(c) /\ Genuine(c) /\ Once(c) /\ NoGap(c)
Visited == visits \in [Columns -> Nat] /\ hostFull \in BOOLEAN
GapFreeInv == Visited /\ (Undisturbed => Typed /\ \A c \in Columns : ColumnInv(c))

\* The transfers of a queue: the last of them, and those behind a column's chunk.
Moves(p) == p.kind = "transfer"
NoMoves(s) == \A i \in DOMAIN s : ~Moves(s[i])
NoMovesAfter(s, k) == \A i \in DOMAIN s : k < i => ~Moves(s[i])
LastMove(s, d) == \A i \in DOMAIN s : Moves(s[i]) /\ NoMovesAfter(s, i) => s[i].dim = d
Trails(s, c) == \A i \in DOMAIN s : Chunk(s[i], c) => NoMovesAfter(s, i)
HasChunk(s, c) == \E i \in DOMAIN s : Chunk(s[i], c)

\* The last transfer on its way leads to where the session is.
Heading ==
  /\ NoMoves(outbox)
  /\ LastMove(host, place.dim)
  /\ NoMoves(host) => LastMove(out, place.dim)
  /\ NoMoves(host) /\ NoMoves(out) => LastMove(wire, place.dim)
  /\ NoMoves(host) /\ NoMoves(out) /\ NoMoves(wire) => where.dim = place.dim

\* The writer is told of what waits in the mailbox, and of nothing else.
WriterInv ==
  /\ \A i \in DOMAIN out : out[i].kind # "chunk"
  /\ permit \/ writer = "catchup" => mailbox # << >>
  /\ permit /\ writer = "catchup" => Tail(mailbox) # << >>

\* A column the session wants is on its way or there, behind every transfer.
InReach(c) ==
  Wanted(c) /\ visits[c] = 1 =>
    /\ c \in PacketsOf(pending) \/ applied[c] # Unseen \/ c \in dropped \/ ~NoChunk(Lanes, c)
    /\ applied[c] # Unseen =>
         /\ NoMoves(wire) /\ NoMoves(out) /\ NoMoves(host)
         /\ shown[c].resident \/ c[2] \notin Ring[where.pos]
    /\ Trails(wire, c) /\ (HasChunk(wire, c) => NoMoves(out) /\ NoMoves(host))
    /\ HasChunk(mailbox, c) => NoMoves(host)
    /\ HasChunk(mailbox, c) /\ Chunk(Head(mailbox), c) /\ writer = "catchup" => NoMoves(out)
    /\ Trails(host, c)

Steady == Heading /\ WriterInv /\ \A c \in Columns : InReach(c)
CaughtUpInv == Undisturbed => Steady

-----------------------------------------------------------------------------
(* Lemmas about numbers and sequences.                                       *)

LEMMA QueueAppended ==
  ASSUME NEW S, NEW s \in Seq(S), NEW x \in S
  PROVE  /\ Append(s, x) \in Seq(S) /\ Len(s) \in Nat
         /\ DOMAIN s = 1 .. Len(s) /\ DOMAIN Append(s, x) = 1 .. Len(s) + 1
         /\ \A i \in 1 .. Len(s) : Append(s, x)[i] = s[i]
         /\ Append(s, x)[Len(s) + 1] = x
  <1>1. /\ Append(s, x) \in Seq(S) /\ Len(Append(s, x)) = Len(s) + 1
        /\ \A i \in 1 .. Len(s) : Append(s, x)[i] = s[i]
        /\ Append(s, x)[Len(s) + 1] = x
    BY AppendProperties
  <1>2. DOMAIN Append(s, x) = 1 .. Len(s) + 1 /\ Len(s) \in Nat /\ DOMAIN s = 1 .. Len(s)
    BY <1>1, LenProperties
  <1>3. QED
    BY <1>1, <1>2

LEMMA QueueTaken ==
  ASSUME NEW S, NEW s \in Seq(S), s # << >>
  PROVE  /\ Head(s) \in S /\ Head(s) = s[1] /\ Tail(s) \in Seq(S)
         /\ Len(s) \in Nat \ {0} /\ DOMAIN s = 1 .. Len(s)
         /\ DOMAIN Tail(s) = 1 .. Len(s) - 1
         /\ \A i \in DOMAIN Tail(s) : Tail(s)[i] = s[i + 1]
  <1>1. /\ Head(s) \in S /\ Tail(s) \in Seq(S) /\ Len(Tail(s)) = Len(s) - 1
        /\ \A i \in 1 .. Len(Tail(s)) : Tail(s)[i] = s[i + 1]
    BY HeadTailProperties
  <1>2. DOMAIN Tail(s) = 1 .. Len(s) - 1 /\ Len(s) \in Nat /\ DOMAIN s = 1 .. Len(s)
    BY <1>1, LenProperties
  <1>3. Len(s) # 0 /\ Head(s) = s[1]
    BY EmptySeq, SeqEqual, <1>2
  <1>4. QED
    BY <1>1, <1>2, <1>3

\* A bounded set of revisions has a newest.
LEMMA NewestIsMember ==
  ASSUME NEW S \in SUBSET Nat, S # {}, NEW n \in Nat, \A r \in S : r <= n
  PROVE  Newest(S) \in S /\ \A r \in S : r <= Newest(S)
  <1> DEFINE T == {r .. n : r \in S}
             R == StrictSubsetOrdering(Nat)
  <1>1. T \subseteq FiniteSubsetsOf(Nat) /\ T # {}
    <2>1. ASSUME NEW r \in S PROVE r .. n \in FiniteSubsetsOf(Nat)
      <3>1. n \in Int /\ r \in Int /\ r .. n \in SUBSET Nat
        OBVIOUS
      <3>2. IsFiniteSet(r .. n)
        BY <3>1, FS_Interval
      <3>3. QED
        BY <3>1, <3>2 DEF FiniteSubsetsOf
    <2>2. QED
      BY <2>1
  <1>2. PICK I \in T : \A J \in T : ~(<<J, I>> \in R)
    <2>1. IsWellFoundedOn(R, FiniteSubsetsOf(Nat))
      BY FS_StrictSubsetOrderingWellFounded
    <2> HIDE DEF T, R
    <2>2. QED
      BY <1>1, <2>1, WFMin
  <1>3. PICK x \in S : I = x .. n
    BY <1>2
  <1>4. \A y \in S : y <= x
    <2> SUFFICES ASSUME NEW y \in S, x < y PROVE FALSE
      OBVIOUS
    <2>1. y .. n \in T /\ x .. n \in T
      OBVIOUS
    <2>2. y .. n \subseteq x .. n /\ y .. n # x .. n /\ y .. n \subseteq Nat /\ x .. n \subseteq Nat
      OBVIOUS
    <2>3. <<y .. n, x .. n>> \in R
      BY <2>2 DEF StrictSubsetOrdering
    <2>4. QED
      BY <1>2, <1>3, <2>1, <2>3
  <1>5. QED
    BY <1>4 DEF Newest

\* Kept(s, I) runs through the places in I, each once and in ascending order.
LEMMA PlacesOfKept ==
  ASSUME NEW n \in Nat, NEW I \in SUBSET (1 .. n)
  PROVE  /\ Cardinality(I) \in Nat
         /\ \A k \in 1 .. Cardinality(I) : Place(I, k) \in I
         /\ \A k, l \in 1 .. Cardinality(I) : k < l => Place(I, k) < Place(I, l)
         /\ \A i \in I : \E k \in 1 .. Cardinality(I) : Place(I, k) = i
  <1> DEFINE Upto(i) == {j \in I : j <= i}
             rank == [i \in I |-> Cardinality(Upto(i))]
             m == Cardinality(I)
  <1>1. IsFiniteSet(I) /\ m \in Nat
    <2>1. IsFiniteSet(1 .. n)
      BY FS_Interval
    <2>2. IsFiniteSet(I)
      BY <2>1, FS_Subset
    <2>3. QED
      BY <2>2, FS_CardinalityType
  <1>2. ASSUME NEW i \in I PROVE IsFiniteSet(Upto(i)) /\ rank[i] \in 1 .. m
    <2>1. Upto(i) \in SUBSET I /\ i \in Upto(i)
      OBVIOUS
    <2> HIDE DEF Upto
    <2>2. IsFiniteSet(Upto(i)) /\ Cardinality(Upto(i)) <= m
      BY <1>1, <2>1, FS_Subset
    <2>3. Cardinality(Upto(i)) \in Nat /\ Cardinality(Upto(i)) # 0
      BY <2>1, <2>2, FS_CardinalityType, FS_EmptySet
    <2>4. QED
      BY <1>1, <2>2, <2>3
  <1>3. ASSUME NEW i \in I, NEW j \in I, i < j PROVE rank[i] < rank[j]
    <2>1. Upto(i) \in SUBSET Upto(j) /\ j \in Upto(j) /\ j \notin Upto(i)
      <3>1. i \in Nat /\ j \in Nat /\ \A k \in I : k \in Nat
        OBVIOUS
      <3>2. \A k \in I : k <= i => k <= j
        BY <1>3, <3>1
      <3>3. j <= j /\ ~(j <= i)
        BY <1>3, <3>1
      <3>4. QED
        BY <3>2, <3>3
    <2> HIDE DEF Upto
    <2>2. Cardinality(Upto(i)) <= Cardinality(Upto(j)) /\ Cardinality(Upto(i)) # Cardinality(Upto(j))
      BY <1>2, <2>1, FS_Subset
    <2>3. QED
      BY <1>2, <2>2
  <1> HIDE DEF Upto
  <1>4. rank \in Injection(I, 1 .. m)
    <2>1. rank \in [I -> 1 .. m]
      BY <1>2
    <2>2. \A i, j \in I : rank[i] = rank[j] => i = j
      <3> SUFFICES ASSUME NEW i \in I, NEW j \in I, rank[i] = rank[j], i # j PROVE FALSE
        OBVIOUS
      <3>1. i < j \/ j < i
        OBVIOUS
      <3>2. rank[i] < rank[j] \/ rank[j] < rank[i]
        BY <1>3, <3>1
      <3> HIDE DEF rank
      <3>3. QED
        BY <1>2, <3>2
    <2> HIDE DEF rank
    <2>3. QED
      BY <2>1, <2>2 DEF Injection, IsInjective
  <1>5. rank \in Surjection(I, 1 .. m)
    <2>1. IsFiniteSet(1 .. m) /\ Cardinality(1 .. m) = m
      BY <1>1, FS_Interval
    <2> HIDE DEF rank
    <2>2. QED
      BY <1>4, <2>1, FS_Injection
  <1>6. ASSUME NEW k \in 1 .. m
        PROVE  Place(I, k) \in I /\ rank[Place(I, k)] = k
    <2>1. \E i \in I : rank[i] = k
      <3> HIDE DEF rank
      <3>1. QED
        BY <1>5 DEF Surjection
    <2>2. \E i \in I : Cardinality({j \in I : j <= i}) = k
      BY <2>1 DEF Upto
    <2>3. Place(I, k) \in I /\ Cardinality({j \in I : j <= Place(I, k)}) = k
      BY <2>2 DEF Place
    <2>4. QED
      BY <2>3 DEF Upto
  <1>7. ASSUME NEW k \in 1 .. m, NEW l \in 1 .. m, k < l PROVE Place(I, k) < Place(I, l)
    <2>1. /\ Place(I, k) \in I /\ Place(I, l) \in I
          /\ rank[Place(I, k)] = k /\ rank[Place(I, l)] = l
      BY <1>6
    <2> HIDE DEF rank
    <2> DEFINE p == Place(I, k)
               q == Place(I, l)
    <2> HIDE DEF p, q
    <2>2. p \in I /\ q \in I /\ rank[p] = k /\ rank[q] = l
      BY <2>1 DEF p, q
    <2>3. p \in Nat /\ q \in Nat
      BY <2>2
    <2>4. ~(q < p)
      <3>1. q < p => rank[q] < rank[p]
        BY <1>3, <2>2
      <3>2. QED
        BY <1>7, <2>2, <3>1
    <2>5. p # q
      BY <1>7, <2>2
    <2>6. p < q
      BY <2>3, <2>4, <2>5
    <2>7. QED
      BY <2>6 DEF p, q
  <1>8. ASSUME NEW i \in I PROVE \E k \in 1 .. m : Place(I, k) = i
    <2>1. rank[i] \in 1 .. m
      BY <1>2
    <2>2. rank[Place(I, rank[i])] = rank[i] /\ Place(I, rank[i]) \in I
      BY <1>6, <2>1
    <2>3. Place(I, rank[i]) = i
      <3> HIDE DEF rank
      <3>1. QED
        BY <1>4, <2>2 DEF Injection, IsInjective
    <2>4. QED
      BY <2>1, <2>3
  <1>9. QED
    BY <1>1, <1>6, <1>7, <1>8

LEMMA KeptIsPart ==
  ASSUME NEW S, NEW s \in Seq(S), NEW I \in SUBSET DOMAIN s
  PROVE  /\ Kept(s, I) \in Seq({s[i] : i \in I})
         /\ Kept(s, I) \in Seq(S)
         /\ \A k \in DOMAIN Kept(s, I) : Place(I, k) \in I /\ Kept(s, I)[k] = s[Place(I, k)]
         /\ \A k, l \in DOMAIN Kept(s, I) : k < l => Place(I, k) < Place(I, l)
         /\ \A i \in I : \E k \in DOMAIN Kept(s, I) : Place(I, k) = i
  <1>1. DOMAIN s = 1 .. Len(s) /\ Len(s) \in Nat /\ \A i \in DOMAIN s : s[i] \in S
    BY LenProperties, ElementOfSeq
  <1>2. /\ Cardinality(I) \in Nat
        /\ \A k \in 1 .. Cardinality(I) : Place(I, k) \in I
        /\ \A k, l \in 1 .. Cardinality(I) : k < l => Place(I, k) < Place(I, l)
        /\ \A i \in I : \E k \in 1 .. Cardinality(I) : Place(I, k) = i
    BY <1>1, PlacesOfKept
  <1>3. /\ DOMAIN Kept(s, I) = 1 .. Cardinality(I)
        /\ \A k \in 1 .. Cardinality(I) : Kept(s, I)[k] = s[Place(I, k)]
    BY DEF Kept
  <1>4. /\ Kept(s, I) \in [1 .. Cardinality(I) -> S]
        /\ Kept(s, I) \in [1 .. Cardinality(I) -> {s[i] : i \in I}]
    BY <1>1, <1>2 DEF Kept
  <1> DEFINE n == Cardinality(I)
             T == {s[i] : i \in I}
  <1>5. Kept(s, I) \in Seq(T) /\ Kept(s, I) \in Seq(S)
    <2>1. n \in Nat /\ Kept(s, I) \in [1 .. n -> T] /\ Kept(s, I) \in [1 .. n -> S]
      BY <1>2, <1>4
    <2> HIDE DEF n, T
    <2>2. QED
      BY <2>1, SeqDef
  <1>6. QED
    BY <1>2, <1>3, <1>5

LEMMA KeptCovers ==
  ASSUME NEW S, NEW s \in Seq(S), NEW I \in SUBSET DOMAIN s
  PROVE  \A i \in I : \E k \in DOMAIN Kept(s, I) : Place(I, k) = i
  BY KeptIsPart

-----------------------------------------------------------------------------
(* Lemmas about the queues.                                                  *)

LEMMA UnderwayMember ==
  ASSUME NEW L, NEW p
  PROVE  p \in Underway(L) <=> \E k \in 1 .. 5 : \E i \in DOMAIN L[k] : L[k][i] = p
  <1>1. p \in Underway(L) <=> \E k \in 1 .. 5 : p \in PacketsOf(L[k])
    BY DEF Underway
  <1>2. \A k : p \in PacketsOf(L[k]) <=> \E i \in DOMAIN L[k] : L[k][i] = p
    BY DEF PacketsOf
  <1>3. QED
    BY <1>1, <1>2

\* F[k][i] and G[k][i] say in which queue of L, and where, packet i of queue k of M was.
From(L, M, F, G) ==
  \A k \in 1 .. 5 : \A i \in DOMAIN M[k] :
    /\ F[k][i] \in 1 .. 5 /\ G[k][i] \in DOMAIN L[F[k][i]]
    /\ M[k][i] = L[F[k][i]][G[k][i]]

Apart(M, F, G) ==
  \A k, l \in 1 .. 5 : \A i \in DOMAIN M[k], j \in DOMAIN M[l] :
    F[k][i] = F[l][j] /\ G[k][i] = G[l][j] => k = l /\ i = j
KeepsOrder(M, F, G, c) ==
  \A k, l \in 1 .. 5 : \A i \in DOMAIN M[k], j \in DOMAIN M[l] :
    Ahead(k, i, l, j) /\ Change(M[k][i], c) /\ Change(M[l][j], c)
      => Ahead(F[k][i], G[k][i], F[l][j], G[l][j])

LEMMA Embedded ==
  ASSUME NEW L, NEW M, NEW F, NEW G, From(L, M, F, G), NEW c
  PROVE  /\ Underway(M) \subseteq Underway(L)
         /\ OneChunk(L, c) /\ Apart(M, F, G) => OneChunk(M, c)
         /\ Ascending(L, c) /\ KeepsOrder(M, F, G, c) => Ascending(M, c)
  <1>1. Underway(M) \subseteq Underway(L)
    <2> SUFFICES ASSUME NEW p \in Underway(M) PROVE p \in Underway(L)
      OBVIOUS
    <2>1. PICK k \in 1 .. 5 : \E i \in DOMAIN M[k] : M[k][i] = p
      BY UnderwayMember
    <2>2. PICK i \in DOMAIN M[k] : M[k][i] = p
      BY <2>1
    <2>3. F[k][i] \in 1 .. 5 /\ G[k][i] \in DOMAIN L[F[k][i]] /\ p = L[F[k][i]][G[k][i]]
      BY <2>2 DEF From
    <2>4. QED
      BY <2>3, UnderwayMember
  <1>2. ASSUME OneChunk(L, c), Apart(M, F, G)
        PROVE  OneChunk(M, c)
    <2> SUFFICES ASSUME NEW k \in 1 .. 5, NEW l \in 1 .. 5,
                        NEW i \in DOMAIN M[k], NEW j \in DOMAIN M[l],
                        Chunk(M[k][i], c), Chunk(M[l][j], c)
                 PROVE  k = l /\ i = j
      BY DEF OneChunk
    <2> DEFINE f == F[k][i]
               g == G[k][i]
               h == F[l][j]
               t == G[l][j]
    <2>1. /\ f \in 1 .. 5 /\ g \in DOMAIN L[f] /\ M[k][i] = L[f][g]
          /\ h \in 1 .. 5 /\ t \in DOMAIN L[h] /\ M[l][j] = L[h][t]
      BY DEF From
    <2>2. f = h /\ g = t => k = l /\ i = j
      BY <1>2 DEF Apart
    <2> HIDE DEF f, g, h, t
    <2>3. f = h /\ g = t
      BY <1>2, <2>1 DEF OneChunk
    <2>4. QED
      BY <2>2, <2>3
  <1>3. ASSUME Ascending(L, c), KeepsOrder(M, F, G, c)
        PROVE  Ascending(M, c)
    <2> SUFFICES ASSUME NEW k \in 1 .. 5, NEW l \in 1 .. 5,
                        NEW i \in DOMAIN M[k], NEW j \in DOMAIN M[l],
                        Ahead(k, i, l, j), Change(M[k][i], c), Change(M[l][j], c)
                 PROVE  Rank(M[k][i]) < Rank(M[l][j])
      BY DEF Ascending
    <2> DEFINE f == F[k][i]
               g == G[k][i]
               h == F[l][j]
               t == G[l][j]
    <2>1. /\ f \in 1 .. 5 /\ g \in DOMAIN L[f] /\ M[k][i] = L[f][g]
          /\ h \in 1 .. 5 /\ t \in DOMAIN L[h] /\ M[l][j] = L[h][t]
      BY DEF From
    <2>2. Ahead(f, g, h, t)
      BY <1>3 DEF KeepsOrder
    <2> HIDE DEF f, g, h, t
    <2>3. Rank(L[f][g]) < Rank(L[h][t])
      BY <1>3, <2>1, <2>2 DEF Ascending
    <2>4. QED
      BY <2>1, <2>3
  <1>4. QED
    BY <1>1, <1>2, <1>3

LEMMA ApartIs ==
  ASSUME NEW M, NEW F, NEW G,
         \A k, l \in 1 .. 5 : \A i \in DOMAIN M[k], j \in DOMAIN M[l] :
           F[k][i] = F[l][j] /\ G[k][i] = G[l][j] => k = l /\ i = j
  PROVE  Apart(M, F, G)
  BY Zenon DEF Apart

\* The head of one queue goes to the end of another.
LanesTyped(L) == \A k \in 1 .. 5 : L[k] \in Seq(AnyPacket)
MovesHead(L, M, m, n) ==
  /\ L[m] # << >> /\ m # n
  /\ M[n] = Append(L[n], Head(L[m])) /\ M[m] = Tail(L[m])
  /\ \A k \in (1 .. 5) \ {m, n} : M[k] = L[k]

LEMMA LanesMoved ==
  ASSUME NEW L, NEW M, NEW m \in 1 .. 5, NEW n \in 1 .. 5,
         LanesTyped(L), MovesHead(L, M, m, n), NEW c
  PROVE  /\ LanesTyped(M)
         /\ Underway(M) = Underway(L)
         /\ OneChunk(L, c) => OneChunk(M, c)
         /\ Ascending(L, c) /\ (m = n + 1 \/ ~Change(Head(L[m]), c)) => Ascending(M, c)
  <1> DEFINE y == Len(L[m])
             z == Len(L[n]) + 1
  <1>0. m # n
    BY DEF MovesHead
  <1>1. /\ Head(L[m]) \in AnyPacket /\ Head(L[m]) = L[m][1] /\ M[m] \in Seq(AnyPacket)
        /\ y \in Nat \ {0} /\ DOMAIN L[m] = 1 .. y /\ DOMAIN M[m] = 1 .. y - 1
        /\ \A i \in DOMAIN M[m] : M[m][i] = L[m][i + 1]
    <2>1. L[m] \in Seq(AnyPacket) /\ L[m] # << >> /\ M[m] = Tail(L[m])
      BY DEF LanesTyped, MovesHead
    <2>2. QED
      BY <2>1, QueueTaken
  <1>2. /\ M[n] \in Seq(AnyPacket) /\ z \in Nat
        /\ DOMAIN L[n] = 1 .. z - 1 /\ DOMAIN M[n] = 1 .. z
        /\ \A i \in DOMAIN L[n] : M[n][i] = L[n][i]
        /\ M[n][z] = L[m][1]
    <2>1. /\ M[n] \in Seq(AnyPacket) /\ Len(L[n]) \in Nat
          /\ DOMAIN L[n] = 1 .. Len(L[n]) /\ DOMAIN M[n] = 1 .. Len(L[n]) + 1
          /\ \A i \in 1 .. Len(L[n]) : M[n][i] = L[n][i]
          /\ M[n][Len(L[n]) + 1] = L[m][1]
      <3>1. L[n] \in Seq(AnyPacket) /\ M[n] = Append(L[n], L[m][1]) /\ L[m][1] \in AnyPacket
        BY <1>1 DEF LanesTyped, MovesHead
      <3>2. QED
        BY <3>1, QueueAppended
    <2>2. QED
      BY <2>1
  <1> HIDE DEF y, z
  <1>3. LanesTyped(M) /\ \A k \in (1 .. 5) \ {m, n} : M[k] = L[k]
    BY <1>1, <1>2 DEF LanesTyped, MovesHead
  <1>4. \A k \in 1 .. 5 : \A i \in DOMAIN M[k] : i \in Nat
    <2> SUFFICES ASSUME NEW k \in 1 .. 5 PROVE DOMAIN M[k] \subseteq Nat
      OBVIOUS
    <2>1. M[k] \in Seq(AnyPacket)
      BY <1>3 DEF LanesTyped
    <2>2. QED
      BY <2>1, LenProperties
  <1> DEFINE F == [k \in 1 .. 5 |-> [i \in DOMAIN M[k] |-> IF k = n /\ i = z THEN m ELSE k]]
             G == [k \in 1 .. 5 |-> [i \in DOMAIN M[k] |->
                     IF k = n /\ i = z THEN 1 ELSE IF k = m THEN i + 1 ELSE i]]
  <1>5. ASSUME NEW k \in 1 .. 5, NEW i \in DOMAIN M[k]
        PROVE  \/ k = m /\ F[k][i] = m /\ G[k][i] = i + 1 /\ i \in 1 .. y - 1
               \/ k = n /\ i = z /\ F[k][i] = m /\ G[k][i] = 1
               \/ k = n /\ F[k][i] = n /\ G[k][i] = i /\ i \in 1 .. z - 1
               \/ k \notin {m, n} /\ F[k][i] = k /\ G[k][i] = i /\ i \in Nat
    <2>1. CASE k = m
      <3>1. i \in 1 .. y - 1
        BY <1>1, <2>1
      <3>2. QED
        BY <2>1, <3>1
    <2>2. CASE k = n /\ i = z
      BY <1>0, <2>2
    <2>3. CASE k = n /\ i # z
      <3>1. i \in 1 .. z
        BY <1>2, <2>3
      <3>2. i \in 1 .. z - 1
        BY <1>2, <2>3, <3>1
      <3>3. QED
        BY <1>0, <2>3, <3>2
    <2>4. CASE k \notin {m, n}
      BY <1>4, <2>4
    <2>5. QED
      BY <2>1, <2>2, <2>3, <2>4
  <1> HIDE DEF F, G
  <1>6. From(L, M, F, G)
    <2> SUFFICES ASSUME NEW k \in 1 .. 5, NEW i \in DOMAIN M[k]
                 PROVE  /\ F[k][i] \in 1 .. 5 /\ G[k][i] \in DOMAIN L[F[k][i]]
                        /\ M[k][i] = L[F[k][i]][G[k][i]]
      BY DEF From
    <2>1. CASE k = m /\ F[k][i] = m /\ G[k][i] = i + 1 /\ i \in 1 .. y - 1
      <3>1. i + 1 \in 1 .. y
        BY <1>1, <2>1
      <3>2. QED
        BY <1>1, <2>1, <3>1
    <2>2. CASE k = n /\ i = z /\ F[k][i] = m /\ G[k][i] = 1
      <3>1. 1 \in 1 .. y
        BY <1>1
      <3>2. QED
        BY <1>1, <1>2, <2>2, <3>1
    <2>3. CASE k = n /\ F[k][i] = n /\ G[k][i] = i /\ i \in 1 .. z - 1
      BY <1>2, <2>3
    <2>4. CASE k \notin {m, n} /\ F[k][i] = k /\ G[k][i] = i /\ i \in Nat
      BY <1>3, <2>4
    <2>5. QED
      BY <1>5, <2>1, <2>2, <2>3, <2>4
  <1>7. Apart(M, F, G)
    <2> SUFFICES ASSUME NEW k \in 1 .. 5, NEW l \in 1 .. 5,
                        NEW i \in DOMAIN M[k], NEW j \in DOMAIN M[l],
                        F[k][i] = F[l][j], G[k][i] = G[l][j]
                 PROVE  k = l /\ i = j
      BY ApartIs
    <2> DEFINE f == F[k][i]
               g == G[k][i]
               h == F[l][j]
               t == G[l][j]
    <2>1. /\ \/ k = m /\ f = m /\ g = i + 1 /\ i \in 1 .. y - 1
             \/ k = n /\ i = z /\ f = m /\ g = 1
             \/ k = n /\ f = n /\ g = i /\ i \in 1 .. z - 1
             \/ k \notin {m, n} /\ f = k /\ g = i /\ i \in Nat
          /\ \/ l = m /\ h = m /\ t = j + 1 /\ j \in 1 .. y - 1
             \/ l = n /\ j = z /\ h = m /\ t = 1
             \/ l = n /\ h = n /\ t = j /\ j \in 1 .. z - 1
             \/ l \notin {m, n} /\ h = l /\ t = j /\ j \in Nat
      BY <1>5
    <2>2. f = h /\ g = t
      OBVIOUS
    <2> HIDE DEF f, g, h, t
    <2>3. QED
      BY <1>0, <1>1, <1>2, <2>1, <2>2
  <1>8. ASSUME m = n + 1 \/ ~Change(Head(L[m]), c) PROVE KeepsOrder(M, F, G, c)
    <2> SUFFICES ASSUME NEW k \in 1 .. 5, NEW l \in 1 .. 5,
                        NEW i \in DOMAIN M[k], NEW j \in DOMAIN M[l],
                        Ahead(k, i, l, j), Change(M[k][i], c), Change(M[l][j], c)
                 PROVE  Ahead(F[k][i], G[k][i], F[l][j], G[l][j])
      BY DEF KeepsOrder
    <2> DEFINE f == F[k][i]
               g == G[k][i]
               h == F[l][j]
               t == G[l][j]
    <2>1. /\ \/ k = m /\ f = m /\ g = i + 1 /\ i \in 1 .. y - 1
             \/ k = n /\ i = z /\ f = m /\ g = 1
             \/ k = n /\ f = n /\ g = i /\ i \in 1 .. z - 1
             \/ k \notin {m, n} /\ f = k /\ g = i /\ i \in Nat
          /\ \/ l = m /\ h = m /\ t = j + 1 /\ j \in 1 .. y - 1
             \/ l = n /\ j = z /\ h = m /\ t = 1
             \/ l = n /\ h = n /\ t = j /\ j \in 1 .. z - 1
             \/ l \notin {m, n} /\ h = l /\ t = j /\ j \in Nat
      BY <1>5
    <2> SUFFICES Ahead(f, g, h, t)
      OBVIOUS
    <2> HIDE DEF f, g, h, t
    <2>2. CASE m = n + 1
      BY <1>0, <1>1, <1>2, <2>1, <2>2 DEF Ahead
    <2>3. CASE ~Change(Head(L[m]), c)
      <3>1. ~(k = n /\ i = z) /\ ~(l = n /\ j = z)
        BY <1>1, <1>2, <2>3
      <3>2. QED
        BY <1>0, <1>1, <1>2, <2>1, <3>1 DEF Ahead
    <2>4. QED
      BY <1>8, <2>2, <2>3
  <1>9. Underway(L) \subseteq Underway(M)
    <2> SUFFICES ASSUME NEW p \in Underway(L)
                 PROVE  \E l \in 1 .. 5 : \E j \in DOMAIN M[l] : M[l][j] = p
      BY UnderwayMember
    <2>0. PICK k \in 1 .. 5 : \E i \in DOMAIN L[k] : L[k][i] = p
      BY UnderwayMember
    <2>1. PICK i \in DOMAIN L[k] : L[k][i] = p
      BY <2>0
    <2>2. CASE k = m /\ i = 1
      <3>1. z \in 1 .. z
        BY <1>2, LenProperties DEF z
      <3>2. z \in DOMAIN M[n] /\ M[n][z] = L[k][i]
        BY <1>2, <2>2, <3>1
      <3>3. QED
        BY <2>1, <3>2
    <2>3. CASE k = m /\ i # 1
      <3>1. i \in 1 .. y
        BY <1>1, <2>3
      <3>2. i - 1 \in 1 .. y - 1 /\ (i - 1) + 1 = i
        BY <1>1, <2>3, <3>1
      <3>3. i - 1 \in DOMAIN M[m] /\ M[m][i - 1] = L[m][i]
        BY <1>1, <3>2
      <3>4. QED
        BY <2>1, <2>3, <3>3
    <2>4. CASE k = n
      <3>1. i \in 1 .. z - 1
        BY <1>2, <2>4
      <3>2. i \in DOMAIN M[n] /\ M[n][i] = L[n][i]
        BY <1>2, <3>1
      <3>3. QED
        BY <2>1, <2>4, <3>2
    <2>5. CASE k \notin {m, n}
      BY <1>3, <2>1, <2>5
    <2>6. QED
      BY <2>2, <2>3, <2>4, <2>5
  <1>10. QED
    <2>1. Underway(M) \subseteq Underway(L)
      BY <1>6, Embedded
    <2>2. OneChunk(L, c) => OneChunk(M, c)
      BY <1>6, <1>7, Embedded
    <2>3. Ascending(L, c) /\ (m = n + 1 \/ ~Change(Head(L[m]), c)) => Ascending(M, c)
      BY <1>6, <1>8, Embedded
    <2>4. QED
      BY <1>3, <1>9, <2>1, <2>2, <2>3

\* The head of a queue leaves it.
TakesHead(L, M, m) ==
  /\ L[m] # << >> /\ M[m] = Tail(L[m])
  /\ \A k \in (1 .. 5) \ {m} : M[k] = L[k]

LEMMA LanesTaken ==
  ASSUME NEW L, NEW M, NEW m \in 1 .. 5, LanesTyped(L), TakesHead(L, M, m), NEW c
  PROVE  /\ LanesTyped(M)
         /\ Underway(M) \subseteq Underway(L)
         /\ \A p \in Underway(L) : p \in Underway(M) \/ p = Head(L[m])
         /\ Head(L[m]) \in Underway(L) /\ Head(L[m]) \in AnyPacket /\ Head(L[m]) = L[m][1]
         /\ OneChunk(L, c) => OneChunk(M, c)
         /\ Ascending(L, c) => Ascending(M, c)
         /\ OneChunk(L, c) /\ Chunk(Head(L[m]), c) => NoChunk(M, c)
         /\ m = 1 /\ Ascending(L, c) /\ Change(Head(L[m]), c) =>
              \A p \in Underway(M) : Change(p, c) => Rank(Head(L[m])) < Rank(p)
  <1> DEFINE y == Len(L[m])
             F == [k \in 1 .. 5 |-> [i \in DOMAIN M[k] |-> k]]
             G == [k \in 1 .. 5 |-> [i \in DOMAIN M[k] |-> IF k = m THEN i + 1 ELSE i]]
  <1>1. /\ Head(L[m]) \in AnyPacket /\ Head(L[m]) = L[m][1] /\ M[m] \in Seq(AnyPacket)
        /\ y \in Nat \ {0} /\ DOMAIN L[m] = 1 .. y /\ DOMAIN M[m] = 1 .. y - 1
        /\ \A i \in DOMAIN M[m] : M[m][i] = L[m][i + 1]
    <2>1. L[m] \in Seq(AnyPacket) /\ L[m] # << >> /\ M[m] = Tail(L[m])
      BY DEF LanesTyped, TakesHead
    <2>2. QED
      BY <2>1, QueueTaken
  <1> HIDE DEF y
  <1>2. LanesTyped(M) /\ \A k \in (1 .. 5) \ {m} : M[k] = L[k]
    BY <1>1 DEF LanesTyped, TakesHead
  <1>3. \A k \in 1 .. 5 : \A i \in DOMAIN M[k] : i \in Nat
    <2> SUFFICES ASSUME NEW k \in 1 .. 5 PROVE DOMAIN M[k] \subseteq Nat
      OBVIOUS
    <2>1. M[k] \in Seq(AnyPacket)
      BY <1>2 DEF LanesTyped
    <2>2. QED
      BY <2>1, LenProperties
  <1>4. ASSUME NEW k \in 1 .. 5, NEW i \in DOMAIN M[k]
        PROVE  /\ F[k][i] = k /\ i \in Nat
               /\ G[k][i] = IF k = m THEN i + 1 ELSE i
               /\ k = m => i \in 1 .. y - 1
    BY <1>1, <1>3
  <1> HIDE DEF F, G
  <1>5. From(L, M, F, G)
    <2> SUFFICES ASSUME NEW k \in 1 .. 5, NEW i \in DOMAIN M[k]
                 PROVE  /\ F[k][i] \in 1 .. 5 /\ G[k][i] \in DOMAIN L[F[k][i]]
                        /\ M[k][i] = L[F[k][i]][G[k][i]]
      BY DEF From
    <2>1. CASE k = m
      <3>1. F[k][i] = m /\ G[k][i] = i + 1 /\ i + 1 \in 1 .. y
        BY <1>1, <1>4, <2>1
      <3>2. QED
        BY <1>1, <2>1, <3>1
    <2>2. CASE k # m
      BY <1>2, <1>4, <2>2
    <2>3. QED
      BY <2>1, <2>2
  <1>6. Apart(M, F, G)
    <2> SUFFICES ASSUME NEW k \in 1 .. 5, NEW l \in 1 .. 5,
                        NEW i \in DOMAIN M[k], NEW j \in DOMAIN M[l],
                        F[k][i] = F[l][j], G[k][i] = G[l][j]
                 PROVE  k = l /\ i = j
      BY ApartIs
    <2>1. k = l /\ i \in Nat /\ j \in Nat
      BY <1>4
    <2>2. QED
      BY <1>4, <2>1
  <1>7. KeepsOrder(M, F, G, c)
    <2> SUFFICES ASSUME NEW k \in 1 .. 5, NEW l \in 1 .. 5,
                        NEW i \in DOMAIN M[k], NEW j \in DOMAIN M[l], Ahead(k, i, l, j)
                 PROVE  Ahead(F[k][i], G[k][i], F[l][j], G[l][j])
      BY DEF KeepsOrder
    <2>1. F[k][i] = k /\ F[l][j] = l /\ i \in Nat /\ j \in Nat
      BY <1>4
    <2>2. k = l => G[k][i] - i = G[l][j] - j /\ G[k][i] \in Nat /\ G[l][j] \in Nat
      BY <1>4, <2>1
    <2>3. QED
      BY <2>1, <2>2 DEF Ahead
  <1>8. 1 \in DOMAIN L[m] /\ Head(L[m]) \in Underway(L)
    <2>1. 1 \in DOMAIN L[m]
      BY <1>1
    <2>2. QED
      BY <1>1, <2>1, UnderwayMember
  <1>9. \A p \in Underway(L) : p \in Underway(M) \/ p = Head(L[m])
    <2> SUFFICES ASSUME NEW p \in Underway(L), p # Head(L[m])
                 PROVE  \E l \in 1 .. 5 : \E j \in DOMAIN M[l] : M[l][j] = p
      BY UnderwayMember
    <2>1. PICK k \in 1 .. 5 : \E i \in DOMAIN L[k] : L[k][i] = p
      BY UnderwayMember
    <2>2. PICK i \in DOMAIN L[k] : L[k][i] = p
      BY <2>1
    <2>3. CASE k = m
      <3>1. i \in 1 .. y /\ i # 1
        BY <1>1, <2>2, <2>3
      <3>2. i - 1 \in 1 .. y - 1 /\ (i - 1) + 1 = i
        BY <1>1, <3>1
      <3>3. i - 1 \in DOMAIN M[m] /\ M[m][i - 1] = L[m][i]
        BY <1>1, <3>2
      <3>4. QED
        BY <2>2, <2>3, <3>3
    <2>4. CASE k # m
      BY <1>2, <2>2, <2>4
    <2>5. QED
      BY <2>3, <2>4
  <1>10. ASSUME OneChunk(L, c), Chunk(Head(L[m]), c) PROVE NoChunk(M, c)
    <2> SUFFICES ASSUME NEW p \in Underway(M), Chunk(p, c) PROVE FALSE
      BY DEF NoChunk
    <2>1. PICK k \in 1 .. 5 : \E i \in DOMAIN M[k] : M[k][i] = p
      BY UnderwayMember
    <2>2. PICK i \in DOMAIN M[k] : M[k][i] = p
      BY <2>1
    <2>3. CASE k = m
      <3>1. i + 1 \in DOMAIN L[m] /\ L[m][i + 1] = p /\ i + 1 # 1
        BY <1>1, <2>2, <2>3
      <3>2. Chunk(L[m][1], c) /\ Chunk(L[m][i + 1], c)
        BY <1>1, <1>10, <2>2, <3>1
      <3>3. QED
        BY <1>8, <1>10, <3>1, <3>2 DEF OneChunk
    <2>4. CASE k # m
      <3>1. i \in DOMAIN L[k] /\ L[k][i] = p
        BY <1>2, <2>2, <2>4
      <3>2. QED
        BY <1>1, <1>8, <1>10, <2>4, <3>1 DEF OneChunk
    <2>5. QED
      BY <2>3, <2>4
  <1>11. ASSUME m = 1, Ascending(L, c), Change(Head(L[m]), c), NEW p \in Underway(M), Change(p, c)
         PROVE  Rank(Head(L[m])) < Rank(p)
    <2>1. PICK k \in 1 .. 5 : \E i \in DOMAIN M[k] : M[k][i] = p
      BY UnderwayMember
    <2>2. PICK i \in DOMAIN M[k] : M[k][i] = p
      BY <2>1
    <2>3. CASE k = m
      <3>1. i + 1 \in DOMAIN L[m] /\ L[m][i + 1] = p /\ 1 < i + 1
        <4>1. i \in DOMAIN M[m] /\ M[m][i] = p
          BY <2>2, <2>3
        <4>2. i \in 1 .. y - 1 /\ L[m][i + 1] = p
          BY <1>1, <4>1
        <4>3. i + 1 \in 1 .. y /\ 1 < i + 1
          BY <1>1, <4>2
        <4>4. QED
          BY <1>1, <4>2, <4>3
      <3>2. Ahead(m, 1, m, i + 1)
        BY <3>1 DEF Ahead
      <3>3. QED
        BY <1>1, <1>8, <1>11, <3>1, <3>2 DEF Ascending
    <2>4. CASE k # m
      <3>1. i \in DOMAIN L[k] /\ L[k][i] = p
        BY <1>2, <2>2, <2>4
      <3>2. Ahead(m, 1, k, i)
        BY <1>11, <2>4 DEF Ahead
      <3>3. QED
        BY <1>1, <1>8, <1>11, <3>1, <3>2 DEF Ascending
    <2>5. QED
      BY <2>3, <2>4
  <1>12. QED
    <2>1. Underway(M) \subseteq Underway(L)
      BY <1>5, Embedded
    <2>2. OneChunk(L, c) => OneChunk(M, c)
      BY <1>5, <1>6, Embedded
    <2>3. Ascending(L, c) => Ascending(M, c)
      BY <1>5, <1>7, Embedded
    <2>4. QED
      BY <1>1, <1>2, <1>8, <1>9, <1>10, <1>11, <2>1, <2>2, <2>3

\* A packet that is about no column joins a queue.
AddsPacket(L, M, n, p) ==
  /\ p \in AnyPacket /\ p.kind = "transfer"
  /\ M[n] = Append(L[n], p) /\ \A k \in (1 .. 5) \ {n} : M[k] = L[k]

LEMMA LanesAdded ==
  ASSUME NEW L, NEW M, NEW n \in 1 .. 5, NEW p, LanesTyped(L), AddsPacket(L, M, n, p), NEW c
  PROVE  /\ LanesTyped(M)
         /\ Underway(L) \subseteq Underway(M)
         /\ \A q \in Underway(M) : q \in Underway(L) \/ q.kind = "transfer"
         /\ OneChunk(L, c) => OneChunk(M, c)
         /\ Ascending(L, c) => Ascending(M, c)
  <1> DEFINE z == Len(L[n]) + 1
  <1>1. /\ M[n] \in Seq(AnyPacket) /\ z \in Nat
        /\ DOMAIN L[n] = 1 .. z - 1 /\ DOMAIN M[n] = 1 .. z
        /\ \A i \in DOMAIN L[n] : M[n][i] = L[n][i]
        /\ M[n][z] = p
    <2>1. /\ M[n] \in Seq(AnyPacket) /\ Len(L[n]) \in Nat
          /\ DOMAIN L[n] = 1 .. Len(L[n]) /\ DOMAIN M[n] = 1 .. Len(L[n]) + 1
          /\ \A i \in 1 .. Len(L[n]) : M[n][i] = L[n][i]
          /\ M[n][Len(L[n]) + 1] = p
      <3>1. L[n] \in Seq(AnyPacket) /\ M[n] = Append(L[n], p) /\ p \in AnyPacket
        BY DEF LanesTyped, AddsPacket
      <3>2. QED
        BY <3>1, QueueAppended
    <2>2. QED
      BY <2>1
  <1> HIDE DEF z
  <1>2. LanesTyped(M) /\ p.kind = "transfer" /\ \A k \in (1 .. 5) \ {n} : M[k] = L[k]
    BY <1>1 DEF LanesTyped, AddsPacket
  <1>3. ASSUME NEW k \in 1 .. 5, NEW i \in DOMAIN M[k]
        PROVE  M[k][i].kind = "transfer" \/ (i \in DOMAIN L[k] /\ M[k][i] = L[k][i])
    <2>1. CASE k = n
      <3>1. i \in 1 .. z /\ (i # z => i \in 1 .. z - 1)
        BY <1>1, <2>1
      <3>2. QED
        BY <1>1, <1>2, <2>1, <3>1
    <2>2. CASE k # n
      BY <1>2, <2>2
    <2>3. QED
      BY <2>1, <2>2
  <1>4. ASSUME NEW k \in 1 .. 5, NEW i \in DOMAIN L[k]
        PROVE  i \in DOMAIN M[k] /\ M[k][i] = L[k][i]
    <2>1. CASE k = n
      <3>1. i \in 1 .. z
        BY <1>1, <2>1
      <3>2. QED
        BY <1>1, <2>1, <3>1
    <2>2. CASE k # n
      BY <1>2, <2>2
    <2>3. QED
      BY <2>1, <2>2
  <1>5. Underway(L) \subseteq Underway(M)
    <2> SUFFICES ASSUME NEW q \in Underway(L) PROVE q \in Underway(M)
      OBVIOUS
    <2>1. PICK k \in 1 .. 5 : \E i \in DOMAIN L[k] : L[k][i] = q
      BY UnderwayMember
    <2>2. QED
      BY <1>4, <2>1, UnderwayMember
  <1>6. ASSUME NEW q \in Underway(M) PROVE q \in Underway(L) \/ q.kind = "transfer"
    <2>1. PICK k \in 1 .. 5 : \E i \in DOMAIN M[k] : M[k][i] = q
      BY UnderwayMember
    <2>2. QED
      BY <1>3, <2>1, UnderwayMember
  <1>7. ASSUME OneChunk(L, c) PROVE OneChunk(M, c)
    <2> SUFFICES ASSUME NEW k \in 1 .. 5, NEW l \in 1 .. 5,
                        NEW i \in DOMAIN M[k], NEW j \in DOMAIN M[l],
                        Chunk(M[k][i], c), Chunk(M[l][j], c)
                 PROVE  k = l /\ i = j
      BY DEF OneChunk
    <2>1. /\ i \in DOMAIN L[k] /\ M[k][i] = L[k][i]
          /\ j \in DOMAIN L[l] /\ M[l][j] = L[l][j]
      BY <1>3 DEF Chunk
    <2>2. QED
      BY <1>7, <2>1 DEF OneChunk
  <1>8. ASSUME Ascending(L, c) PROVE Ascending(M, c)
    <2> SUFFICES ASSUME NEW k \in 1 .. 5, NEW l \in 1 .. 5,
                        NEW i \in DOMAIN M[k], NEW j \in DOMAIN M[l],
                        Ahead(k, i, l, j), Change(M[k][i], c), Change(M[l][j], c)
                 PROVE  Rank(M[k][i]) < Rank(M[l][j])
      BY DEF Ascending
    <2>1. /\ i \in DOMAIN L[k] /\ M[k][i] = L[k][i]
          /\ j \in DOMAIN L[l] /\ M[l][j] = L[l][j]
      BY <1>3 DEF Change
    <2>2. QED
      BY <1>8, <2>1 DEF Ascending
  <1>9. QED
    BY <1>2, <1>5, <1>6, <1>7, <1>8

-----------------------------------------------------------------------------
(* A column while packets travel.                                            *)

\* What the invariant of a column says of all but the lanes and what is shown.
ColumnVars(c) ==
  <<clock, content, fresh, pending, place, interest, visits, applied[c], buffered[c]>>

\* Between L and M chunks and block entities may go, transfers come and go.
BlocksStay(L, M, c) ==
  /\ \A p \in Underway(M) : p \in Underway(L) \/ p.kind = "transfer"
  /\ \A p \in Underway(L) : Block(p, c) => p \in Underway(M)

LEMMA SentStays ==
  ASSUME NEW L, NEW M, NEW c, BlocksStay(L, M, c)
  PROVE  /\ Sent(M, c) = Sent(L, c)
         /\ NoChunk(L, c) => NoChunk(M, c)
         /\ \A p \in Underway(M) : Change(p, c) \/ Chunk(p, c) => p \in Underway(L)
  <1>1. \A p \in Underway(M) : Change(p, c) \/ Chunk(p, c) => p \in Underway(L)
    BY DEF BlocksStay, Change, Chunk
  <1>2. \A p : Block(p, c) => (p \in Underway(M) <=> p \in Underway(L))
    BY DEF BlocksStay, Block
  <1>3. Sent(M, c) = Sent(L, c)
    BY <1>2 DEF Sent
  <1>4. NoChunk(L, c) => NoChunk(M, c)
    BY <1>1 DEF NoChunk
  <1>5. QED
    BY <1>1, <1>3, <1>4

LEMMA Transported ==
  ASSUME NEW c \in Columns, ColumnInv(c), UNCHANGED ColumnVars(c),
         UNCHANGED <<shown[c], where.dim>> \/ Absent(shown[c])',
         BlocksStay(Lanes, Lanes', c), Ascending(Lanes', c), OneChunk(Lanes', c)
  PROVE  ColumnInv(c)'
  <1> DEFINE L == Lanes
             M == Lanes'
  <1>1. /\ Sent(M, c) = Sent(L, c)
        /\ NoChunk(L, c) => NoChunk(M, c)
        /\ \A p \in Underway(M) : Change(p, c) \/ Chunk(p, c) => p \in Underway(L)
    BY SentStays
  <1>2. /\ Known(c)' = Known(c) /\ FreshOf(c)' = FreshOf(c) /\ Wanted(c)' = Wanted(c)
        /\ UNCHANGED <<content, clock, fresh, pending, visits>>
        /\ applied'[c] = applied[c] /\ buffered'[c] = buffered[c]
    BY <1>1 DEF Known, FreshOf, Wanted, ColumnVars
  <1>3. Bases(c)' \subseteq Bases(c)
    <2>1. {p.rev : p \in {q \in Underway(M) : Chunk(q, c)}}
            \subseteq {p.rev : p \in {q \in Underway(L) : Chunk(q, c)}}
      BY <1>1
    <2>2. QED
      BY <1>2, <2>1 DEF Bases
  <1>4. InOrder(c)'
    BY <1>1, <1>2 DEF ColumnInv, InOrder
  <1>5. Genuine(c)'
    <2>1. \A p \in Underway(M) : p.kind = "entity" /\ p.col = c => p \in Underway(L)
      BY <1>1 DEF Change
    <2>2. QED
      BY <1>1, <1>2, <2>1 DEF ColumnInv, Genuine
  <1>6. Once(c)'
    BY <1>1, <1>2 DEF ColumnInv, Once, Absent
  <1>7. NoGap(c)'
    BY <1>2, <1>3 DEF ColumnInv, NoGap
  <1>8. QED
    BY <1>4, <1>5, <1>6, <1>7 DEF ColumnInv

LEMMA LanesAreTyped == LaneTypes => LanesTyped(Lanes) /\ mailbox \in Seq(ChunkPacket)
  <1>1. Seq(ChunkPacket) \subseteq Seq(AnyPacket)
    BY SeqMonotonic DEF AnyPacket
  <1>2. /\ Lanes[1] = wire /\ Lanes[2] = out /\ Lanes[3] = host
        /\ Lanes[4] = outbox /\ Lanes[5] = mailbox
    BY DEF Lanes
  <1>3. ASSUME LaneTypes PROVE LanesTyped(Lanes)
    <2> SUFFICES ASSUME NEW k \in 1 .. 5 PROVE Lanes[k] \in Seq(AnyPacket)
      BY DEF LanesTyped
    <2>1. k = 1 \/ k = 2 \/ k = 3 \/ k = 4 \/ k = 5
      OBVIOUS
    <2>2. QED
      BY <1>1, <1>2, <1>3, <2>1 DEF LaneTypes
  <1>4. QED
    BY <1>3 DEF LaneTypes

\* What a step on the way between the two sides leaves alone.
LEMMA Elsewhere ==
  ASSUME Typed, LanesTyped(Lanes'), (mailbox \in Seq(ChunkPacket))',
         UNCHANGED <<clock, content, resident, place, interest, pending, fresh, clientVars>>,
         demanded' \subseteq Columns
  PROVE  Typed'
  <1>1. LaneTypes'
    <2>1. \A k \in {1, 2, 3, 4} : Lanes'[k] \in Seq(AnyPacket)
      BY DEF LanesTyped
    <2>2. QED
      BY <2>1 DEF LaneTypes, Lanes
  <1>2. ServerTypes'
    BY DEF Typed, ServerTypes
  <1>3. ClientTypes'
    BY DEF Typed, ClientTypes, clientVars
  <1>4. QED
    BY <1>1, <1>2, <1>3 DEF Typed

\* A packet goes from one queue to the next, towards the client, or is a chunk.
LEMMA PassedOn ==
  ASSUME Typed, NEW m \in 1 .. 5, NEW n \in 1 .. 5, MovesHead(Lanes, Lanes', m, n),
         NEW c \in Columns, ColumnInv(c), UNCHANGED <<ColumnVars(c), clientVars>>,
         m = n + 1 \/ Head(Lanes[m]).kind = "chunk"
  PROVE  ColumnInv(c)'
  <1>1. LanesTyped(Lanes)
    BY LanesAreTyped DEF Typed
  <1>2. /\ Underway(Lanes') = Underway(Lanes)
        /\ OneChunk(Lanes, c) => OneChunk(Lanes', c)
        /\ Ascending(Lanes, c) /\ (m = n + 1 \/ ~Change(Head(Lanes[m]), c)) => Ascending(Lanes', c)
    BY <1>1, LanesMoved
  <1>3. m = n + 1 \/ ~Change(Head(Lanes[m]), c)
    BY DEF Change
  <1>4. OneChunk(Lanes', c) /\ Ascending(Lanes', c)
    BY <1>2, <1>3 DEF ColumnInv, Once, InOrder
  <1>5. BlocksStay(Lanes, Lanes', c)
    BY <1>2 DEF BlocksStay
  <1>6. QED
    BY <1>4, <1>5, Transported DEF clientVars

LEMMA Sending ==
  ASSUME Typed, Undisturbed', Send
  PROVE  Typed' /\ \A c \in Columns : ColumnInv(c) => ColumnInv(c)'
  <1>1. /\ outbox # << >> /\ outbox' = Tail(outbox) /\ host' = Append(host, Head(outbox))
        /\ UNCHANGED <<clock, content, resident, demanded, place, interest, pending, fresh,
                       mailbox, out, wire, clientVars, visits>>
    BY DEF Send, EnqueueHost, Undisturbed
  <1>2. MovesHead(Lanes, Lanes', 4, 3)
    BY <1>1 DEF MovesHead, Lanes
  <1>3. LanesTyped(Lanes')
    BY <1>2, LanesAreTyped, LanesMoved DEF Typed
  <1>4. Typed'
    BY <1>1, <1>3, Elsewhere DEF Typed, LaneTypes, ServerTypes
  <1>5. \A c : UNCHANGED <<ColumnVars(c), clientVars>>
    BY <1>1 DEF ColumnVars, clientVars
  <1>6. QED
    BY <1>2, <1>4, <1>5, PassedOn

LEMMA Delivering ==
  ASSUME Typed, DeliverReliable \/ WriteReliable
  PROVE  Typed' /\ \A c \in Columns : ColumnInv(c) => ColumnInv(c)'
  <1>1. UNCHANGED <<serverVars, mailbox, clientVars, visits>>
    BY DEF DeliverReliable, WriteReliable, history
  <1>2. PICK n \in {1, 2} : MovesHead(Lanes, Lanes', n + 1, n)
    <2>1. CASE DeliverReliable
      <3>1. MovesHead(Lanes, Lanes', 2 + 1, 2)
        BY <2>1 DEF DeliverReliable, MovesHead, Lanes, serverVars
      <3>2. QED
        BY <3>1
    <2>2. CASE WriteReliable
      <3>1. MovesHead(Lanes, Lanes', 1 + 1, 1)
        BY <2>2 DEF WriteReliable, MovesHead, Lanes, serverVars
      <3>2. QED
        BY <3>1
    <2>3. QED
      BY <2>1, <2>2
  <1>3. LanesTyped(Lanes')
    <2>1. LanesTyped(Lanes) /\ n \in 1 .. 5 /\ n + 1 \in 1 .. 5
      BY LanesAreTyped DEF Typed
    <2>2. QED
      BY <1>2, <2>1, LanesMoved
  <1>4. Typed'
    BY <1>1, <1>3, Elsewhere DEF Typed, LaneTypes, ServerTypes, serverVars
  <1>5. \A c : UNCHANGED <<ColumnVars(c), clientVars>>
    BY <1>1 DEF ColumnVars, clientVars, serverVars
  <1>6. QED
    BY <1>2, <1>4, <1>5, PassedOn

LEMMA Catchup ==
  ASSUME Typed, ChooseCatchup \/ PopCatchup
  PROVE  Typed' /\ \A c \in Columns : ColumnInv(c) => ColumnInv(c)'
  <1>1. UNCHANGED <<serverVars, host, out, clientVars, visits>>
    BY DEF ChooseCatchup, PopCatchup, history
  <1>2. \A c : UNCHANGED <<ColumnVars(c), clientVars>>
    BY <1>1 DEF ColumnVars, clientVars, serverVars
  <1>3. CASE UNCHANGED <<mailbox, wire>>
    <2>1. Lanes' = Lanes
      BY <1>1, <1>3 DEF Lanes, serverVars
    <2>2. LanesTyped(Lanes') /\ (mailbox \in Seq(ChunkPacket))'
      BY <1>3, <2>1, LanesAreTyped DEF Typed
    <2>3. Typed'
      BY <1>1, <2>2, Elsewhere DEF Typed, ServerTypes, serverVars
    <2>4. \A c : BlocksStay(Lanes, Lanes', c)
      BY <2>1 DEF BlocksStay
    <2>5. QED
      BY <1>2, <2>1, <2>3, <2>4, Transported DEF ColumnInv, InOrder, Once, clientVars
  <1>4. CASE PopCatchup /\ mailbox # << >>
    <2>1. wire' = Append(wire, Head(mailbox)) /\ mailbox' = Tail(mailbox)
      BY <1>4 DEF PopCatchup
    <2>2. MovesHead(Lanes, Lanes', 5, 1)
      BY <1>1, <1>4, <2>1 DEF MovesHead, Lanes, serverVars
    <2>3. Head(mailbox) \in ChunkPacket /\ (mailbox \in Seq(ChunkPacket))'
      BY <1>4, <2>1, QueueTaken DEF Typed, LaneTypes
    <2>4. Head(Lanes[5]).kind = "chunk"
      BY <2>3 DEF Lanes, ChunkPacket
    <2>5. LanesTyped(Lanes')
      BY <2>2, LanesAreTyped, LanesMoved DEF Typed
    <2>6. Typed'
      BY <1>1, <2>3, <2>5, Elsewhere DEF Typed, ServerTypes, serverVars
    <2>7. QED
      BY <1>2, <2>2, <2>4, <2>6, PassedOn
  <1>5. QED
    BY <1>3, <1>4 DEF ChooseCatchup, PopCatchup

\* A column that comes to the mailbox has no place there yet.
LEMMA MailboxHasNone ==
  ASSUME Typed, \A c \in Columns : ColumnInv(c), DeliverChunk
  PROVE  /\ Head(host) \in ChunkPacket
         /\ \/ mailbox' = Append(mailbox, Head(host)) /\ permit' = TRUE /\ UNCHANGED dropped
            \/ dropped' = dropped \union {Head(host).col} /\ UNCHANGED <<mailbox, permit>>
  <1> DEFINE p == Head(host)
  <1>1. /\ host # << >> /\ p.kind = "chunk" /\ Replace(p) /\ host' = Tail(host)
        /\ UNCHANGED <<serverVars, out, wire, clientVars, visits>>
    BY DEF DeliverChunk
  <1>3. p \in ChunkPacket /\ p = host[1] /\ 1 \in DOMAIN host
    <2>1. p \in AnyPacket /\ p = host[1] /\ 1 \in DOMAIN host
      BY <1>1, QueueTaken DEF Typed, LaneTypes
    <2>2. QED
      BY <1>1, <2>1 DEF AnyPacket
  <1> HIDE DEF p
  <1>5. ~\E i \in DOMAIN mailbox : mailbox[i].col = p.col
    <2> SUFFICES ASSUME NEW i \in DOMAIN mailbox, mailbox[i].col = p.col PROVE FALSE
      OBVIOUS
    <2>1. p.col \in Columns /\ Chunk(p, p.col)
      BY <1>3 DEF ChunkPacket, Chunk
    <2>2. mailbox[i] \in ChunkPacket
      BY ElementOfSeq, LenProperties DEF Typed, LaneTypes
    <2>3. Chunk(mailbox[i], p.col)
      BY <2>2 DEF Chunk, ChunkPacket
    <2>4. OneChunk(Lanes, p.col)
      BY <2>1 DEF ColumnInv, Once
    <2>5. /\ 1 \in DOMAIN Lanes[3] /\ Lanes[3][1] = p
          /\ i \in DOMAIN Lanes[5] /\ Lanes[5][i] = mailbox[i]
      BY <1>3 DEF Lanes
    <2>6. 3 \in 1 .. 5 /\ 5 \in 1 .. 5 /\ 3 # 5
      OBVIOUS
    <2>7. QED
      BY <2>1, <2>3, <2>4, <2>5, <2>6 DEF OneChunk
  <1>6. QED
    BY <1>1, <1>3, <1>5 DEF Replace, p

\* A column enters the mailbox or is refused.
LEMMA DeliveringChunk ==
  ASSUME Typed, \A c \in Columns : ColumnInv(c), DeliverChunk
  PROVE  Typed' /\ \A c \in Columns : ColumnInv(c)'
  <1> DEFINE p == Head(host)
  <1>1. /\ host # << >> /\ p.kind = "chunk" /\ host' = Tail(host)
        /\ UNCHANGED <<serverVars, out, wire, clientVars, visits>>
    BY DEF DeliverChunk
  <1>2. \A c : UNCHANGED <<ColumnVars(c), clientVars>>
    BY <1>1 DEF ColumnVars, clientVars, serverVars
  <1>3. p \in ChunkPacket /\ (mailbox' = Append(mailbox, p) \/ UNCHANGED mailbox)
    BY MailboxHasNone
  <1>4. LanesTyped(Lanes)
    BY LanesAreTyped DEF Typed
  <1> HIDE DEF p
  <1>5. CASE mailbox' = Append(mailbox, p)
    <2>1. MovesHead(Lanes, Lanes', 3, 5)
      BY <1>1, <1>5 DEF MovesHead, Lanes, p, serverVars
    <2>2. LanesTyped(Lanes')
      BY <1>4, <2>1, LanesMoved
    <2>3. (mailbox \in Seq(ChunkPacket))'
      BY <1>3, <1>5, QueueAppended DEF Typed, LaneTypes
    <2>4. Typed'
      BY <1>1, <2>2, <2>3, Elsewhere DEF Typed, ServerTypes, serverVars
    <2>5. Head(Lanes[3]).kind = "chunk"
      BY <1>1 DEF Lanes, p
    <2>6. QED
      BY <1>2, <2>1, <2>4, <2>5, PassedOn
  <1>6. CASE UNCHANGED mailbox
    <2>1. TakesHead(Lanes, Lanes', 3) /\ Head(Lanes[3]) = p
      BY <1>1, <1>6 DEF TakesHead, Lanes, p, serverVars
    <2>2. 3 \in 1 .. 5
      OBVIOUS
    <2>3. /\ LanesTyped(Lanes')
          /\ Underway(Lanes') \subseteq Underway(Lanes)
          /\ \A q \in Underway(Lanes) : q \in Underway(Lanes') \/ q = p
      BY <1>4, <2>1, <2>2, LanesTaken
    <2>4. \A c : BlocksStay(Lanes, Lanes', c)
      BY <1>1, <2>3 DEF BlocksStay, Block
    <2>5. \A c \in Columns : OneChunk(Lanes', c) /\ Ascending(Lanes', c)
      BY <1>4, <2>1, <2>2, LanesTaken DEF ColumnInv, InOrder, Once
    <2>6. Typed'
      BY <1>1, <1>6, <2>3, Elsewhere DEF Typed, ServerTypes, LaneTypes, serverVars
    <2>7. QED
      BY <1>2, <2>4, <2>5, <2>6, Transported DEF clientVars
  <1>7. QED
    BY <1>3, <1>5, <1>6

\* Worldgen, and the player's walk, touch no packet.
LEMMA Generating ==
  ASSUME Typed, NEW g \in Columns, Generate(g)
  PROVE  Typed' /\ \A c \in Columns : ColumnInv(c) => ColumnInv(c)'
  <1>1. /\ UNCHANGED <<clock, content, place, interest, pending, fresh, outbox, networkVars,
                       clientVars, visits>>
        /\ resident' = resident \union {g} /\ demanded' = demanded \ {g}
    BY DEF Generate, history
  <1>2. Lanes' = Lanes
    BY <1>1 DEF Lanes, networkVars
  <1>3. Typed'
    BY <1>1 DEF Typed, ServerTypes, ClientTypes, LaneTypes, networkVars, clientVars
  <1>4. \A c : UNCHANGED <<ColumnVars(c), clientVars>> /\ BlocksStay(Lanes, Lanes', c)
    BY <1>1, <1>2 DEF ColumnVars, clientVars, BlocksStay
  <1>5. QED
    BY <1>2, <1>3, <1>4, Transported DEF ColumnInv, InOrder, Once, clientVars

LEMMA Walking ==
  ASSUME Typed, NEW p \in Positions, Move(p)
  PROVE  Typed' /\ \A c \in Columns : ColumnInv(c) => ColumnInv(c)'
  <1>1. /\ UNCHANGED <<serverVars, networkVars, applied, buffered, visits>>
        /\ where' = [where EXCEPT !.pos = p]
        /\ shown' = [c \in Columns |->
                       IF c[2] \in Ring[p] THEN shown[c]
                       ELSE [shown[c] EXCEPT !.resident = FALSE, !.blocks = {}, !.ents = {}]]
    BY DEF Move, history
  <1>2. Lanes' = Lanes
    BY <1>1 DEF Lanes, networkVars, serverVars
  <1>3. ASSUME NEW c \in Columns
        PROVE  /\ shown'[c] \in Presented /\ UNCHANGED where.dim
               /\ shown'[c].rev = shown[c].rev /\ shown'[c].waiting = shown[c].waiting
               /\ shown'[c].resident => shown[c].resident /\ shown'[c].blocks = shown[c].blocks
    <2>1. shown[c] \in Presented
      BY DEF Typed, ClientTypes
    <2>2. QED
      BY <1>1, <2>1 DEF Presented, Typed, ClientTypes, Places
  <1>4. Typed'
    <2>1. shown' \in [Columns -> Presented]
      BY <1>1, <1>3
    <2>2. where' \in Places
      BY <1>1 DEF Typed, ClientTypes, Places
    <2>3. ClientTypes'
      BY <1>1, <2>1, <2>2 DEF Typed, ClientTypes
    <2>4. ServerTypes' /\ LaneTypes'
      BY <1>1 DEF Typed, ServerTypes, LaneTypes, serverVars, networkVars
    <2>5. QED
      BY <2>3, <2>4 DEF Typed
  <1>5. ASSUME NEW c \in Columns, ColumnInv(c) PROVE ColumnInv(c)'
    <2>1. /\ Known(c)' = Known(c) /\ FreshOf(c)' = FreshOf(c) /\ Wanted(c)' = Wanted(c)
          /\ Bases(c)' = Bases(c)
          /\ UNCHANGED <<buffered, content, clock, applied, fresh, pending, visits>>
      BY <1>1, <1>2 DEF Known, FreshOf, Wanted, Bases, serverVars
    <2>2. InOrder(c)' /\ Genuine(c)' /\ NoGap(c)'
      BY <1>2, <1>5, <2>1 DEF ColumnInv, InOrder, Genuine, NoGap
    <2>3. Once(c)'
      BY <1>2, <1>3, <1>5, <2>1 DEF ColumnInv, Once, Absent
    <2>4. QED
      BY <2>2, <2>3 DEF ColumnInv
  <1>6. QED
    BY <1>4, <1>5
-----------------------------------------------------------------------------
(* A column as packets arrive.                                               *)

\* The revisions that are news to what is shown, and the last of them.
\* What apply_remote_block_change takes of some revisions, and the last of them.
Newer(revs, s) == {r \in revs : r > s.rev}
Last(revs, s) == Newest(Newer(revs, s) \union {s.rev})

LEMMA BlocksPresented ==
  ASSUME NEW s \in Presented, NEW revs \in SUBSET Nat, NEW n \in Nat,
         \A r \in revs : r <= n, s.rev <= n
  PROVE  /\ PresentBlocks(s, revs) \in Presented
         /\ PresentBlocks(s, revs).resident = s.resident
         /\ s.resident => /\ PresentBlocks(s, revs).blocks = s.blocks \union Newer(revs, s)
                          /\ PresentBlocks(s, revs).rev = Last(revs, s)
         /\ Last(revs, s) \in Newer(revs, s) \union {s.rev}
         /\ \A r \in Newer(revs, s) \union {s.rev} : r <= Last(revs, s)
  <1> DEFINE newer == Newer(revs, s)
             a == Last(revs, s)
  <1>1. /\ s.rev \in Nat /\ s.blocks \in SUBSET Nat /\ s.waiting \in SUBSET Nat
        /\ newer \in SUBSET Nat /\ newer \subseteq revs /\ s.resident \in BOOLEAN
    BY DEF Presented, Newer
  <1>2. PresentBlocks(s, revs) =
          IF s.resident THEN [s EXCEPT !.blocks = s.blocks \union newer, !.rev = a]
                        ELSE [s EXCEPT !.waiting = s.waiting \union newer]
    BY DEF PresentBlocks, Newer, Last
  <1>3. a = Newest(newer \union {s.rev})
    BY DEF Last
  <1> HIDE DEF newer, a
  <1>4. a \in newer \union {s.rev} /\ \A r \in newer \union {s.rev} : r <= a
    <2>1. /\ newer \union {s.rev} \in SUBSET Nat /\ newer \union {s.rev} # {}
          /\ \A r \in newer \union {s.rev} : r <= n
      BY <1>1
    <2>2. QED
      BY <1>3, <2>1, NewestIsMember
  <1>5. a \in Nat
    BY <1>1, <1>4
  <1>6. /\ PresentBlocks(s, revs) \in Presented
        /\ PresentBlocks(s, revs).resident = s.resident
        /\ s.resident => /\ PresentBlocks(s, revs).blocks = s.blocks \union newer
                         /\ PresentBlocks(s, revs).rev = a
    BY <1>1, <1>2, <1>5 DEF Presented
  <1>7. QED
    BY <1>4, <1>6 DEF newer, a

LEMMA Shown ==
  ASSUME NEW c \in Columns, NEW s \in Presented, shown \in [Columns -> Presented], Present(c, s)
  PROVE  /\ shown' \in [Columns -> Presented]
         /\ \A d \in Columns : d # c => shown'[d] = shown[d]
         /\ c[1] = where.dim => shown'[c] = s
         /\ c[1] # where.dim => shown'[c] = shown[c]
  BY DEF Present

\* The arrival of packet p, seen from column c.
Arrives(p, c) ==
  /\ p \in AnyPacket /\ p \in Underway(Lanes)
  /\ \A q \in Underway(Lanes') : q \in Underway(Lanes)
  /\ \A q \in Underway(Lanes) : q \in Underway(Lanes') \/ q = p
  /\ OneChunk(Lanes', c) /\ Ascending(Lanes', c)
  /\ Chunk(p, c) => NoChunk(Lanes', c)
  /\ Change(p, c) => \A q \in Underway(Lanes') : Change(q, c) => Rank(p) < Rank(q)

LEMMA Arriving ==
  ASSUME LaneTypes, wire # << >>, wire' = Tail(wire), UNCHANGED <<out, host, outbox, mailbox>>
  PROVE  /\ LanesTyped(Lanes') /\ (mailbox \in Seq(ChunkPacket))'
         /\ \A c \in Columns : OneChunk(Lanes, c) /\ Ascending(Lanes, c) => Arrives(Head(wire), c)
  <1>1. TakesHead(Lanes, Lanes', 1) /\ Head(Lanes[1]) = Head(wire) /\ 1 \in 1 .. 5
    BY DEF TakesHead, Lanes
  <1>2. LanesTyped(Lanes)
    BY LanesAreTyped
  <1>3. LanesTyped(Lanes') /\ (mailbox \in Seq(ChunkPacket))'
    BY <1>1, <1>2, LanesTaken DEF LaneTypes
  <1>4. ASSUME NEW c \in Columns, OneChunk(Lanes, c), Ascending(Lanes, c)
        PROVE  Arrives(Head(wire), c)
    <2>1. /\ Underway(Lanes') \subseteq Underway(Lanes)
          /\ \A q \in Underway(Lanes) : q \in Underway(Lanes') \/ q = Head(wire)
          /\ Head(wire) \in Underway(Lanes) /\ Head(wire) \in AnyPacket
          /\ OneChunk(Lanes', c) /\ Ascending(Lanes', c)
          /\ Chunk(Head(wire), c) => NoChunk(Lanes', c)
          /\ Change(Head(wire), c) =>
               \A q \in Underway(Lanes') : Change(q, c) => Rank(Head(wire)) < Rank(q)
      BY <1>1, <1>2, <1>4, LanesTaken
    <2>2. QED
      BY <2>1 DEF Arrives
  <1>5. QED
    BY <1>3, <1>4

\* The packet is about another column, or says nothing new about this one.
LEMMA ArrivesElsewhere ==
  ASSUME NEW p, NEW c \in Columns, ColumnInv(c), Arrives(p, c), UNCHANGED ColumnVars(c),
         UNCHANGED <<shown[c], where.dim>> \/ Absent(shown[c])', ~Block(p, c)
  PROVE  ColumnInv(c)'
  <1>1. BlocksStay(Lanes, Lanes', c) /\ Ascending(Lanes', c) /\ OneChunk(Lanes', c)
    BY DEF Arrives, BlocksStay
  <1>2. QED
    BY <1>1, Transported

LEMMA RevisionIsNumber ==
  ASSUME NEW p \in AnyPacket, NEW c, Change(p, c) \/ Chunk(p, c)
  PROVE  p.rev \in Nat
  BY DEF AnyPacket, ChunkPacket, Change, Chunk

LEMMA RankIs ==
  ASSUME NEW p, p.rev \in Nat
  PROVE  Rank(p) \in Nat /\ Rank(p) <= 2 * p.rev + 1 /\ 2 * p.rev <= Rank(p)
  <1>1. CASE p.kind = "block"
    BY <1>1 DEF Rank
  <1>2. CASE p.kind # "block"
    BY <1>2 DEF Rank
  <1>3. QED
    BY <1>1, <1>2

LEMMA UnderwayIsTyped ==
  ASSUME Typed, NEW p \in Underway(Lanes)
  PROVE  p \in AnyPacket
  <1>1. PICK k \in 1 .. 5 : \E i \in DOMAIN Lanes[k] : Lanes[k][i] = p
    BY UnderwayMember
  <1>2. Lanes[k] \in Seq(AnyPacket)
    BY LanesAreTyped DEF Typed, LanesTyped
  <1>3. QED
    BY <1>1, <1>2, LenProperties, ElementOfSeq

\* A block change that comes before its column waits at the gate for it.
LEMMA BlockComesEarly ==
  ASSUME Typed, NEW p, NEW c \in Columns, ColumnInv(c), Arrives(p, c), Block(p, c),
         applied[c] = Unseen, buffered'[c] = buffered[c] \union {p.rev},
         UNCHANGED <<clock, content, fresh, pending, place, interest, visits, applied[c],
                     shown[c], where.dim>>
  PROVE  ColumnInv(c)'
  <1> DEFINE r == p.rev
  <1>1. r \in Nat /\ r \in Sent(Lanes, c) /\ Change(p, c)
    <2>1. p.rev \in Nat
      BY RevisionIsNumber DEF Arrives, Block, Change
    <2>2. QED
      BY <2>1 DEF Arrives, Sent, Block, Change
  <1>2. /\ Sent(Lanes, c)' \subseteq Sent(Lanes, c)
        /\ Sent(Lanes, c) \subseteq Sent(Lanes, c)' \union {r}
    BY DEF Arrives, Sent
  <1>3. \A x \in Sent(Lanes, c)' : r < x
    <2> SUFFICES ASSUME NEW q \in Underway(Lanes'), Block(q, c) PROVE r < q.rev
      BY DEF Sent
    <2>1. Rank(p) < Rank(q) /\ q \in AnyPacket
      <3>1. Change(q, c) /\ q \in Underway(Lanes)
        BY DEF Block, Change, Arrives
      <3>2. q \in AnyPacket
        BY <3>1, UnderwayIsTyped
      <3>3. QED
        BY <1>1, <3>1, <3>2 DEF Arrives
    <2>2. Rank(p) = 2 * r /\ Rank(q) = 2 * q.rev /\ q.rev \in Nat
      BY <2>1, RevisionIsNumber DEF Rank, Block, Change
    <2>3. QED
      BY <1>1, <2>1, <2>2
  <1>4. /\ Known(c)' = Known(c) /\ FreshOf(c)' = FreshOf(c) /\ Wanted(c)' = Wanted(c)
        /\ Bases(c)' \subseteq Bases(c)
    <2>1. Known(c)' = Known(c)
      BY <1>1, <1>2 DEF Known
    <2>2. Bases(c)' \subseteq Bases(c)
      BY DEF Bases, Arrives
    <2>3. QED
      BY <2>1, <2>2 DEF FreshOf, Wanted
  <1> HIDE DEF r
  <1>5. InOrder(c)'
    <2>1. \A x \in buffered'[c], y \in Sent(Lanes, c)' : x < y
      BY <1>2, <1>3 DEF ColumnInv, InOrder, r
    <2>2. \A x \in buffered'[c], y \in FreshOf(c)' : x < y
      BY <1>1, <1>4 DEF ColumnInv, InOrder, Arrives, r
    <2>3. \A q \in Underway(Lanes'), x \in FreshOf(c)' : Change(q, c) => q.rev < x
      BY <1>4 DEF ColumnInv, InOrder, Arrives
    <2>4. Ascending(Lanes', c)
      BY DEF Arrives
    <2>5. QED
      BY <2>1, <2>2, <2>3, <2>4 DEF ColumnInv, InOrder
  <1>6. Genuine(c)'
    BY <1>4 DEF ColumnInv, Genuine, Arrives
  <1>7. Once(c)'
    BY DEF ColumnInv, Once, Arrives, NoChunk
  <1>8. NoGap(c)'
    BY <1>4 DEF ColumnInv, NoGap
  <1>9. QED
    BY <1>5, <1>6, <1>7, <1>8 DEF ColumnInv

\* A block change that is not stale is presented, if the column is.
LEMMA BlockIsApplied ==
  ASSUME Typed, NEW p, NEW c \in Columns, ColumnInv(c), Arrives(p, c), Block(p, c),
         applied[c] # Unseen, p.rev > applied[c], applied'[c] = p.rev,
         IF c[1] = where.dim THEN shown'[c] = PresentBlocks(shown[c], {p.rev})
                             ELSE shown'[c] = shown[c],
         UNCHANGED <<clock, content, fresh, pending, place, interest, visits, buffered[c],
                     where.dim>>
  PROVE  ColumnInv(c)'
  <1> DEFINE r == p.rev
             a == applied[c]
  <1>1. /\ r \in Nat /\ r \in Sent(Lanes, c) /\ Change(p, c) /\ a \in Nat /\ a < r
        /\ clock[c[1]] \in Nat /\ r <= clock[c[1]] /\ r \in content[c] /\ content[c] \in SUBSET Nat
    <2>1. p.rev \in Nat
      BY RevisionIsNumber DEF Arrives, Block, Change
    <2>2. r \in Sent(Lanes, c) /\ Change(p, c)
      BY DEF Arrives, Sent, Block, Change
    <2>3. r \in content[c] /\ r <= clock[c[1]] /\ clock[c[1]] \in Nat /\ content[c] \in SUBSET Nat
      BY <2>2 DEF ColumnInv, Genuine, Known, Typed, ServerTypes, Columns
    <2>4. QED
      BY <2>1, <2>2, <2>3 DEF Typed, ClientTypes
  <1>2. /\ Sent(Lanes, c)' \subseteq Sent(Lanes, c)
        /\ Sent(Lanes, c) \subseteq Sent(Lanes, c)' \union {r}
    BY DEF Arrives, Sent
  <1>3. \A x \in Sent(Lanes, c)' : r < x
    <2> SUFFICES ASSUME NEW q \in Underway(Lanes'), Block(q, c) PROVE r < q.rev
      BY DEF Sent
    <2>1. Rank(p) < Rank(q) /\ q \in AnyPacket
      <3>1. Change(q, c) /\ q \in Underway(Lanes)
        BY DEF Block, Change, Arrives
      <3>2. q \in AnyPacket
        BY <3>1, UnderwayIsTyped
      <3>3. QED
        BY <1>1, <3>1, <3>2 DEF Arrives
    <2>2. Rank(p) = 2 * r /\ Rank(q) = 2 * q.rev /\ q.rev \in Nat
      BY <2>1, RevisionIsNumber DEF Rank, Block, Change
    <2>3. QED
      BY <1>1, <2>1, <2>2
  <1>4. /\ buffered[c] = {} /\ Known(c) = Sent(Lanes, c) /\ Known(c)' = Sent(Lanes, c)'
        /\ FreshOf(c)' = FreshOf(c) /\ Wanted(c)' = Wanted(c)
        /\ r # Unseen /\ Bases(c) = {a} /\ Bases(c)' = {r}
    <2>1. buffered[c] = {} /\ r # Unseen
      BY <1>1, ChunkReplicationAssumption DEF ColumnInv, Once
    <2>2. QED
      BY <2>1 DEF Known, FreshOf, Wanted, Bases
  <1>5. /\ \A x \in Known(c), q \in content[c] : a < q /\ q < x => q \in Known(c)
        /\ Wanted(c) => \A q \in content[c] : a < q => q \in Known(c) \union FreshOf(c)
    BY <1>4 DEF ColumnInv, NoGap
  <1>6. InOrder(c)'
    BY <1>2, <1>4 DEF ColumnInv, InOrder, Arrives
  <1>7. Genuine(c)'
    <2>1. Known(c)' \union FreshOf(c)' \subseteq content[c]
      BY <1>2, <1>4 DEF ColumnInv, Genuine
    <2>2. \A q \in Underway(Lanes') : q.kind = "entity" /\ q.col = c =>
            q.rev \in Known(c)' \/ q.rev <= r
      <3> SUFFICES ASSUME NEW q \in Underway(Lanes'), q.kind = "entity" /\ q.col = c
                   PROVE  q.rev \in Known(c)' \/ q.rev <= r
        OBVIOUS
      <3>1. q.rev \in Known(c) \/ q.rev <= a
        BY DEF ColumnInv, Genuine, Arrives
      <3>2. q.rev \in Nat
        <4>1. q \in AnyPacket
          BY UnderwayIsTyped DEF Arrives
        <4>2. QED
          BY <4>1, RevisionIsNumber DEF Change
      <3>3. QED
        BY <1>1, <1>2, <1>4, <3>1, <3>2
    <2>3. QED
      BY <1>1, <1>4, <2>1, <2>2 DEF ColumnInv, Genuine, Arrives
  <1>8. shown[c].resident => c[1] = where.dim /\ shown[c].rev = a
                             /\ shown[c].blocks = {q \in content[c] : q <= a}
    BY DEF ColumnInv, Once
  <1>9. shown'[c].resident => c[1] = where'.dim /\ shown'[c].rev = r
                              /\ shown'[c].blocks = {q \in content[c] : q <= r}
    <2> SUFFICES ASSUME shown'[c].resident
                 PROVE  c[1] = where'.dim /\ shown'[c].rev = r
                        /\ shown'[c].blocks = {q \in content[c] : q <= r}
      OBVIOUS
    <2> DEFINE s == shown[c]
               t == PresentBlocks(s, {r})
    <2>1. s \in Presented /\ {r} \in SUBSET Nat /\ s.rev \in Nat
      BY <1>1 DEF Typed, ClientTypes, Presented
    <2> DEFINE n == IF s.rev <= r THEN r ELSE s.rev
    <2>2. n \in Nat /\ (\A q \in {r} : q <= n) /\ s.rev <= n
      BY <1>1, <2>1
    <2> HIDE DEF n
    <2>3. /\ t.resident = s.resident
          /\ s.resident => t.blocks = s.blocks \union Newer({r}, s) /\ t.rev = Last({r}, s)
          /\ Last({r}, s) \in Newer({r}, s) \union {s.rev}
          /\ \A q \in Newer({r}, s) \union {s.rev} : q <= Last({r}, s)
      BY <2>1, <2>2, BlocksPresented
    <2> HIDE DEF s, r
    <2>4. shown'[c] = s \/ shown'[c] = t
      BY DEF s, r
    <2>5. s.resident
      BY <2>3, <2>4
    <2>6. c[1] = where.dim /\ s.rev = a /\ s.blocks = {q \in content[c] : q <= a} /\ shown'[c] = t
      BY <1>8, <2>5 DEF s, r
    <2>7. Newer({r}, s) = {r}
      BY <1>1, <2>6 DEF Newer
    <2>8. t.blocks = s.blocks \union {r} /\ t.rev = r
      <3>1. Last({r}, s) \in {r, s.rev} /\ r <= Last({r}, s)
        BY <2>3, <2>7
      <3>2. s.rev < r /\ r \in Nat
        BY <1>1, <2>6
      <3>3. Last({r}, s) = r
        BY <2>1, <3>1, <3>2
      <3>4. QED
        BY <2>3, <2>5, <2>7, <3>3
    <2>9. {q \in content[c] : q <= r} = {q \in content[c] : q <= a} \union {r}
      <3>1. ASSUME NEW q \in content[c], a < q, q <= r, q # r PROVE FALSE
        <4>1. q \in Nat /\ q < r
          BY <1>1, <3>1
        <4>2. q \in Sent(Lanes, c)
          BY <1>1, <1>4, <1>5, <3>1, <4>1
        <4>3. QED
          BY <1>1, <1>2, <1>3, <3>1, <4>1, <4>2
      <3>2. \A q \in content[c] : q \in Nat
        BY <1>1
      <3> HIDE DEF a
      <3>3. QED
        BY <1>1, <3>1, <3>2
    <2>10. QED
      BY <2>6, <2>8, <2>9
  <1>10. Once(c)'
    <2>1. \A q \in Underway(Lanes') : q \in Underway(Lanes)
      BY DEF Arrives
    <2>2. OneChunk(Lanes', c) /\ NoChunk(Lanes', c)
      BY <2>1 DEF Arrives, ColumnInv, Once, NoChunk
    <2>3. QED
      BY <1>4, <1>9, <2>2 DEF ColumnInv, Once
  <1>11. NoGap(c)'
    <2>1. \A x \in Known(c)', q \in content[c] : r < q /\ q < x => q \in Known(c)'
      BY <1>1, <1>2, <1>4, <1>5
    <2>2. Wanted(c) => \A q \in content[c] : r < q => q \in Known(c)' \union FreshOf(c)
      BY <1>1, <1>2, <1>4, <1>5
    <2>3. QED
      BY <1>4, <2>1, <2>2 DEF NoGap
  <1>12. QED
    BY <1>6, <1>7, <1>10, <1>11 DEF ColumnInv

\* A stale block change is dropped.
LEMMA BlockIsStale ==
  ASSUME Typed, NEW p, NEW c \in Columns, ColumnInv(c), Arrives(p, c), Block(p, c),
         applied[c] # Unseen, p.rev <= applied[c],
         UNCHANGED <<ColumnVars(c), shown[c], where.dim>>
  PROVE  ColumnInv(c)'
  <1> DEFINE r == p.rev
             a == applied[c]
  <1>1. r \in Nat /\ a \in Nat /\ content[c] \in SUBSET Nat /\ r <= a
    <2>1. p.rev \in Nat
      BY RevisionIsNumber DEF Arrives, Block, Change
    <2>2. QED
      BY <2>1 DEF Typed, ClientTypes, ServerTypes
  <1>2. /\ Sent(Lanes, c)' \subseteq Sent(Lanes, c)
        /\ Sent(Lanes, c) \subseteq Sent(Lanes, c)' \union {r}
    BY DEF Arrives, Sent
  <1>3. /\ Known(c)' \subseteq Known(c) /\ Known(c) \subseteq Known(c)' \union {r}
        /\ FreshOf(c)' = FreshOf(c) /\ Wanted(c)' = Wanted(c)
        /\ Bases(c)' = {a} /\ Bases(c) = {a} /\ buffered'[c] = buffered[c]
    BY <1>2 DEF Known, FreshOf, Wanted, Bases, ColumnVars
  <1>4. InOrder(c)'
    BY <1>2, <1>3 DEF ColumnInv, InOrder, Arrives, ColumnVars
  <1>5. Genuine(c)'
    BY <1>1, <1>3 DEF ColumnInv, Genuine, Arrives, ColumnVars
  <1>6. Once(c)'
    BY DEF ColumnInv, Once, Arrives, NoChunk, ColumnVars
  <1>7. NoGap(c)'
    BY <1>1, <1>3 DEF ColumnInv, NoGap, ColumnVars
  <1>8. QED
    BY <1>4, <1>5, <1>6, <1>7 DEF ColumnInv

\* A column arrives: with it all the changes that waited for it are presented.
LEMMA ChunkComes ==
  ASSUME Typed, NEW p, NEW c \in Columns, ColumnInv(c), Arrives(p, c), Chunk(p, c),
         applied'[c] = Newest(Flushed(c, p.rev) \union {p.rev}), buffered'[c] = {},
         IF c[1] = where.dim
           THEN shown'[c] = PresentBlocks(PresentChunk(shown[c], p), Flushed(c, p.rev))
           ELSE shown'[c] = shown[c],
         UNCHANGED <<clock, content, fresh, pending, place, interest, visits, where.dim>>
  PROVE  /\ ColumnInv(c)' /\ applied'[c] \in Nat
         /\ c[1] = where.dim => shown'[c] \in Presented /\ shown'[c].resident
  <1> DEFINE R == p.rev
             A == applied'[c]
             F == Flushed(c, p.rev)
             n == clock[c[1]]
  <1>1. /\ p \in ChunkPacket /\ R \in Nat /\ n \in Nat /\ R <= n
        /\ content[c] \in SUBSET Nat /\ \A q \in content[c] : q <= n
        /\ p.blocks = {q \in content[c] : q <= R}
    <2>1. p \in ChunkPacket
      BY DEF Arrives, AnyPacket, Chunk
    <2>2. R <= n /\ p.blocks = {q \in content[c] : q <= R}
      BY DEF Arrives, ColumnInv, Genuine
    <2>3. QED
      BY <2>1, <2>2 DEF ChunkPacket, Typed, ServerTypes, Columns
  <1>2. F = {q \in buffered[c] : q > R} /\ F \subseteq content[c]
    BY DEF Flushed, ColumnInv, Genuine, Known
  <1>3. A \in F \union {R} /\ (\A q \in F \union {R} : q <= A) /\ A \in Nat /\ A <= n /\ R <= A
    <2>1. /\ F \union {R} \in SUBSET Nat /\ F \union {R} # {}
          /\ (\A q \in F \union {R} : q <= n) /\ A = Newest(F \union {R})
      BY <1>1, <1>2
    <2> HIDE DEF F, R, A, n
    <2>2. QED
      BY <1>1, <2>1, NewestIsMember
  <1>4. applied[c] = Unseen /\ Absent(shown[c]) /\ c \notin PacketsOf(pending) /\ visits[c] # 0
    <2>1. ~NoChunk(Lanes, c)
      BY DEF NoChunk, Arrives
    <2>2. applied[c] = Unseen /\ c \notin PacketsOf(pending) /\ visits[c] # 0
      BY <2>1 DEF ColumnInv, Once
    <2>3. QED
      BY <2>2 DEF ColumnInv, Once
  <1>5. Sent(Lanes, c)' = Sent(Lanes, c)
    <2>1. BlocksStay(Lanes, Lanes', c)
      BY DEF BlocksStay, Arrives, Block, Chunk
    <2>2. QED
      BY <2>1, SentStays
  <1>6. /\ Known(c) = Sent(Lanes, c) \union buffered[c] /\ Known(c)' = Sent(Lanes, c)
        /\ FreshOf(c)' = FreshOf(c) /\ Wanted(c)' = Wanted(c)
        /\ A # Unseen /\ R \in Bases(c) /\ Bases(c)' = {A}
    <2>1. A # Unseen
      BY <1>3, ChunkReplicationAssumption
    <2>2. R \in Bases(c)
      BY <1>4 DEF Bases, Arrives
    <2> HIDE DEF A
    <2>3. Known(c) = Sent(Lanes, c) \union buffered[c]
      BY DEF Known
    <2>4. Known(c)' = Sent(Lanes, c)
      BY <1>5 DEF Known
    <2>5. Bases(c)' = {A}
      BY <2>1 DEF Bases, A
    <2>6. QED
      BY <2>1, <2>2, <2>3, <2>4, <2>5 DEF FreshOf, Wanted
  <1>7. /\ \A x \in Known(c), q \in content[c] : R < q /\ q < x => q \in Known(c)
        /\ Wanted(c) => \A q \in content[c] : R < q => q \in Known(c) \union FreshOf(c)
    BY <1>6 DEF ColumnInv, NoGap
  <1>8. \A x \in buffered[c] : x \in Nat /\ x <= A
    <2>1. \A x \in buffered[c] : x \in Nat
      BY DEF Typed, ClientTypes
    <2>2. \A x \in buffered[c] : x > R => x \in F
      BY <1>2
    <2> HIDE DEF F, A, R
    <2>3. QED
      BY <1>1, <1>3, <2>1, <2>2
  <1>9. InOrder(c)'
    BY <1>5, <1>6 DEF ColumnInv, InOrder, Arrives
  <1>10. Genuine(c)'
    <2>1. Known(c)' \union FreshOf(c)' \subseteq content[c]
      BY <1>6 DEF ColumnInv, Genuine
    <2>2. \A q \in Underway(Lanes') : q.kind = "entity" /\ q.col = c =>
            q.rev \in Known(c)' \/ q.rev <= A
      <3> SUFFICES ASSUME NEW q \in Underway(Lanes'), q.kind = "entity" /\ q.col = c
                   PROVE  q.rev \in Known(c)' \/ q.rev <= A
        OBVIOUS
      <3>1. q.rev \in Known(c)
        BY <1>4 DEF ColumnInv, Genuine, Arrives
      <3>2. QED
        BY <1>6, <1>8, <3>1
    <2> HIDE DEF A
    <2>3. \A q \in Underway(Lanes') : ~Chunk(q, c)
      BY DEF Arrives, NoChunk
    <2>4. QED
      BY <1>3, <1>6, <2>1, <2>2, <2>3 DEF Genuine, A
  <1>11. F \subseteq Nat /\ \A q \in F : q > R /\ q <= n
    BY <1>1, <1>2
  <1>12. c[1] = where.dim =>
           /\ shown'[c] \in Presented /\ shown'[c].resident /\ shown'[c].rev = A
           /\ shown'[c].blocks = p.blocks \union F
    <2> SUFFICES ASSUME c[1] = where.dim
                 PROVE  /\ shown'[c] \in Presented /\ shown'[c].resident /\ shown'[c].rev = A
                        /\ shown'[c].blocks = p.blocks \union F
      OBVIOUS
    <2> DEFINE s == [resident |-> TRUE, blocks |-> p.blocks, ents |-> p.blocks,
                     rev |-> p.rev, waiting |-> {}]
               t == PresentBlocks(s, {})
    <2>1. PresentChunk(shown[c], p) = t
      BY <1>1, <1>4 DEF PresentChunk, Absent
    <2>2. s \in Presented /\ s.resident /\ s.blocks = p.blocks /\ s.rev = R
      BY <1>1 DEF ChunkPacket, Presented
    <2>3. t \in Presented /\ t.resident /\ t.blocks = p.blocks /\ t.rev = R
      <3>1. {} \in SUBSET Nat /\ (\A r \in {} : r <= n) /\ s.rev <= n
        BY <1>1, <2>2
      <3>2. Newer({}, s) = {}
        BY DEF Newer
      <3> HIDE DEF s, n
      <3>3. /\ t \in Presented /\ t.resident = s.resident
            /\ s.resident => t.blocks = s.blocks \union Newer({}, s) /\ t.rev = Last({}, s)
            /\ Last({}, s) \in Newer({}, s) \union {s.rev}
        BY <1>1, <2>2, <3>1, BlocksPresented
      <3>4. QED
        BY <2>2, <3>2, <3>3
    <2> DEFINE u == PresentBlocks(t, F)
    <2>4. shown'[c] = u
      BY <2>1
    <2> HIDE DEF s, t, F, n, R
    <2>5. F \in SUBSET Nat /\ (\A q \in F : q <= n) /\ t.rev <= n /\ n \in Nat
      BY <1>1, <1>11, <2>3
    <2>6. Newer(F, t) = F
      BY <1>11, <2>3 DEF Newer
    <2>7. /\ u \in Presented /\ u.resident
          /\ u.blocks = p.blocks \union F /\ u.rev = Last(F, t)
      BY <2>3, <2>5, <2>6, BlocksPresented
    <2>8. Last(F, t) = A
      BY <2>3, <2>6 DEF Last, F, R
    <2>9. QED
      BY <2>4, <2>7, <2>8
  <1>13. p.blocks \union F = {q \in content[c] : q <= A}
    <2>1. ASSUME NEW q \in content[c], q <= A, R < q PROVE q \in F
      <3>1. q \in Nat /\ A \in F
        <4> HIDE DEF A, F, R
        <4>1. QED
          BY <1>1, <1>3, <2>1
      <3>2. A \in buffered[c] /\ A \in Known(c)
        BY <1>2, <1>6, <3>1
      <3>3. q \in Known(c)
        <4> HIDE DEF A, F, R
        <4>1. q = A \/ q < A
          BY <1>3, <2>1, <3>1
        <4>2. QED
          BY <1>7, <2>1, <3>2, <4>1
      <3>4. q \notin Sent(Lanes, c)
        <4>1. q \in Sent(Lanes, c) => A < q
          BY <3>2 DEF ColumnInv, InOrder
        <4> HIDE DEF A
        <4>2. QED
          BY <1>3, <2>1, <3>1, <4>1
      <3>5. QED
        BY <1>2, <1>6, <2>1, <3>3, <3>4
    <2> HIDE DEF A, F, R
    <2>2. \A q \in F : q <= A /\ q \in content[c]
      BY <1>2, <1>3
    <2>3. \A q \in content[c] : q \in Nat /\ (q <= R => q <= A)
      BY <1>1, <1>3
    <2>4. \A q \in content[c] : q <= R \/ R < q
      BY <1>1
    <2>5. QED
      BY <1>1, <2>1, <2>2, <2>3, <2>4
  <1>14. Once(c)'
    <2>1. OneChunk(Lanes', c) /\ NoChunk(Lanes', c)
      BY DEF Arrives
    <2>2. shown'[c].resident => c[1] = where.dim
      BY <1>4 DEF Absent
    <2> HIDE DEF A, F
    <2>3. QED
      BY <1>4, <1>6, <1>12, <1>13, <2>1, <2>2 DEF Once, A
  <1>15. NoGap(c)'
    <2> HIDE DEF A, F, R
    <2>1. \A q \in content[c] : A < q => R < q /\ q \notin buffered[c]
      BY <1>1, <1>3, <1>8
    <2>2. \A x \in Known(c)', q \in content[c] : A < q /\ q < x => q \in Known(c)'
      BY <1>6, <1>7, <2>1
    <2>3. Wanted(c) => \A q \in content[c] : A < q => q \in Known(c)' \union FreshOf(c)
      BY <1>6, <1>7, <2>1
    <2>4. QED
      BY <1>6, <2>2, <2>3 DEF NoGap
  <1>16. QED
    BY <1>3, <1>9, <1>10, <1>12, <1>14, <1>15 DEF ColumnInv

\* A block entity never is news: its block came before it and took its revision.
LEMMA EntityIsStale ==
  ASSUME Typed, NEW p, NEW c \in Columns, ColumnInv(c), Arrives(p, c),
         p.kind = "entity", p.col = c
  PROVE  PresentEntity(shown[c], p.rev) = shown[c]
  <1> SUFFICES ASSUME shown[c].resident PROVE ~(p.rev > shown[c].rev)
    BY DEF PresentEntity
  <1>1. /\ applied[c] # Unseen /\ shown[c].rev = applied[c] /\ buffered[c] = {}
        /\ applied[c] \in Nat
    BY DEF ColumnInv, Once, Absent, Typed, ClientTypes
  <1>2. Change(p, c) /\ p.rev \in Nat
    BY RevisionIsNumber DEF Change, Arrives
  <1>3. p.rev \notin Sent(Lanes, c)
    <2> SUFFICES ASSUME NEW q \in Underway(Lanes), Block(q, c), q.rev = p.rev PROVE FALSE
      BY DEF Sent
    <2>1. q \in Underway(Lanes') /\ Change(q, c)
      BY DEF Arrives, Block, Change
    <2>2. Rank(p) < Rank(q)
      BY <1>2, <2>1 DEF Arrives
    <2>3. Rank(p) = 2 * p.rev + 1 /\ Rank(q) = 2 * p.rev
      BY DEF Rank, Block
    <2>4. QED
      BY <1>2, <2>2, <2>3
  <1>4. p.rev <= applied[c]
    BY <1>1, <1>3 DEF ColumnInv, Genuine, Known, Arrives
  <1>5. QED
    BY <1>1, <1>2, <1>4

\* What the arrival of packet p shows of column c: only the column itself brings it, and
\* only a transfer takes it away.
Takes(p, c) ==
  /\ IF Moves(p) THEN where'.dim = p.dim ELSE UNCHANGED where
  /\ applied[c] # Unseen =>
       applied'[c] # Unseen /\ (~Moves(p) => shown'[c].resident = shown[c].resident)
  /\ Chunk(p, c) => applied'[c] # Unseen /\ (c[1] = where.dim => shown'[c].resident)
  /\ applied[c] = Unseen /\ applied'[c] # Unseen => Chunk(p, c)

LEMMA Receiving ==
  ASSUME Typed, \A c \in Columns : ColumnInv(c), Receive
  PROVE  Typed' /\ \A c \in Columns : ColumnInv(c)' /\ Takes(Head(wire), c)
  <1> DEFINE p == Head(wire)
  <1>1. /\ wire # << >> /\ wire' = Tail(wire)
        /\ UNCHANGED <<serverVars, host, mailbox, out, visits>>
    BY DEF Receive, history
  <1>2. \/ p.kind = "chunk" /\ ReceiveChunk(p) /\ UNCHANGED where
        \/ p.kind = "block" /\ ReceiveBlock(p.col, p.rev) /\ UNCHANGED where
        \/ /\ p.kind = "entity"
           /\ Present(p.col, PresentEntity(shown[p.col], p.rev))
           /\ UNCHANGED <<applied, buffered, where>>
        \/ p.kind = "transfer" /\ ReceiveTransfer(p)
    BY DEF Receive
  <1>3. LanesTyped(Lanes') /\ (mailbox \in Seq(ChunkPacket))' /\ \A c \in Columns : Arrives(p, c)
    BY <1>1, Arriving DEF Typed, ColumnInv, InOrder, Once, serverVars
  <1>4. ServerTypes' /\ LaneTypes'
    <2>1. \A k \in {1, 2, 3, 4} : Lanes'[k] \in Seq(AnyPacket)
      BY <1>3 DEF LanesTyped
    <2>2. QED
      BY <1>1, <1>3, <2>1 DEF LaneTypes, Lanes, Typed, ServerTypes, serverVars
  <1>5. p \in AnyPacket
    BY <1>1, QueueTaken DEF Typed, LaneTypes
  <1>6. p.kind # "transfer" => p.col \in Columns
    BY <1>5 DEF AnyPacket, ChunkPacket
  <1>7. /\ where \in Places /\ applied \in [Columns -> Nat \union {Unseen}]
        /\ buffered \in [Columns -> SUBSET Nat] /\ shown \in [Columns -> Presented]
    BY DEF Typed, ClientTypes
  <1>7a. Unseen \notin Nat
    BY ChunkReplicationAssumption
  <1> HIDE DEF p
  <1>8. CASE p.kind = "chunk" /\ ReceiveChunk(p) /\ UNCHANGED where
    <2>0. PICK d \in Columns : d = p.col
      BY <1>6, <1>8
    <2> DEFINE s == PresentBlocks(PresentChunk(shown[d], p), Flushed(d, p.rev))
    <2>1. d \in Columns /\ Arrives(p, d) /\ Chunk(p, d) /\ ColumnInv(d)
      BY <1>3, <1>8, <2>0 DEF Chunk
    <2>2. applied[d] = Unseen
      BY <2>1 DEF ColumnInv, Once, NoChunk, Arrives
    <2>3. /\ applied' = [applied EXCEPT ![d] = Newest(Flushed(d, p.rev) \union {p.rev})]
          /\ buffered' = [buffered EXCEPT ![d] = {}]
          /\ Present(d, s)
      BY <1>8, <2>0, <2>2 DEF ReceiveChunk, Stale
    <2>4. shown' = IF d[1] = where.dim THEN [shown EXCEPT ![d] = s] ELSE shown
      BY <2>3 DEF Present
    <2>5. /\ applied'[d] = Newest(Flushed(d, p.rev) \union {p.rev}) /\ buffered'[d] = {}
          /\ IF d[1] = where.dim THEN shown'[d] = s ELSE shown'[d] = shown[d]
      BY <1>7, <2>1, <2>3, <2>4
    <2>6. UNCHANGED <<clock, content, fresh, pending, place, interest, visits, where.dim>>
      BY <1>1, <1>8 DEF serverVars
    <2>7. /\ ColumnInv(d)' /\ applied'[d] \in Nat
          /\ d[1] = where.dim => shown'[d] \in Presented /\ shown'[d].resident
      BY <2>1, <2>5, <2>6, ChunkComes
    <2>7a. ASSUME NEW c \in Columns PROVE Takes(p, c)
      <3>1. ~Moves(p)
        BY <1>8 DEF Moves
      <3>2. CASE c = d
        BY <1>8, <1>7a, <2>1, <2>2, <2>7, <3>1, <3>2 DEF Takes
      <3>3. CASE c # d
        <4>1. applied'[c] = applied[c] /\ shown'[c] = shown[c] /\ ~Chunk(p, c)
          BY <1>7, <2>0, <2>3, <2>4, <3>3 DEF Chunk
        <4>2. QED
          BY <1>8, <3>1, <4>1 DEF Takes
      <3>4. QED
        BY <3>2, <3>3
    <2>8. ASSUME NEW c \in Columns, c # d PROVE ColumnInv(c)'
      <3>1. UNCHANGED <<ColumnVars(c), shown[c], where.dim>>
        BY <1>1, <1>8, <2>3, <2>4, <2>8 DEF ColumnVars, serverVars
      <3>2. ~Block(p, c)
        BY <1>8 DEF Block
      <3>3. QED
        BY <1>3, <3>1, <3>2, ArrivesElsewhere
    <2>9. ClientTypes'
      <3>1. shown' \in [Columns -> Presented]
        BY <1>7, <2>1, <2>4, <2>5, <2>7
      <3>2. applied' \in [Columns -> Nat \union {Unseen}]
        BY <1>7, <2>1, <2>3, <2>5, <2>7
      <3>3. buffered' \in [Columns -> SUBSET Nat]
        BY <1>7, <2>1, <2>3
      <3>4. QED
        BY <1>7, <1>8, <3>1, <3>2, <3>3 DEF ClientTypes
    <2>10. QED
      BY <1>4, <2>7, <2>8, <2>9, <2>7a DEF Typed, p
  <1>9. CASE p.kind = "block" /\ ReceiveBlock(p.col, p.rev) /\ UNCHANGED where
    <2>0. PICK d \in Columns : d = p.col
      BY <1>6, <1>9
    <2> DEFINE r == p.rev
               s == PresentBlocks(shown[d], {r})
    <2>1. d \in Columns /\ Arrives(p, d) /\ Block(p, d) /\ ColumnInv(d)
      BY <1>3, <1>9, <2>0 DEF Block
    <2>2. \/ /\ applied[d] = Unseen
             /\ buffered' = [buffered EXCEPT ![d] = buffered[d] \union {r}]
             /\ UNCHANGED <<applied, shown>>
          \/ /\ applied[d] # Unseen /\ ~(r <= applied[d])
             /\ applied' = [applied EXCEPT ![d] = r]
             /\ shown' = IF d[1] = where.dim THEN [shown EXCEPT ![d] = s] ELSE shown
             /\ UNCHANGED buffered
          \/ /\ applied[d] # Unseen /\ r <= applied[d]
             /\ UNCHANGED <<applied, buffered, shown>>
      BY <1>9, <2>0 DEF ReceiveBlock, Stale, Present, BufferEarly
    <2>3. r \in Nat
      BY <1>5, <2>1, RevisionIsNumber DEF Block, Change
    <2>4. s \in Presented /\ s.resident = shown[d].resident
      <3> DEFINE t == shown[d]
                 n == IF t.rev <= r THEN r ELSE t.rev
      <3>1. t \in Presented /\ t.rev \in Nat /\ {r} \in SUBSET Nat
        BY <1>7, <2>1, <2>3 DEF Presented
      <3>2. n \in Nat /\ (\A q \in {r} : q <= n) /\ t.rev <= n
        BY <2>3, <3>1
      <3> HIDE DEF n, t, r
      <3>3. PresentBlocks(t, {r}) \in Presented /\ PresentBlocks(t, {r}).resident = t.resident
        BY <3>1, <3>2, BlocksPresented
      <3>4. QED
        BY <3>3 DEF t
    <2> HIDE DEF s
    <2>5. /\ shown' \in [Columns -> Presented] /\ applied' \in [Columns -> Nat \union {Unseen}]
          /\ buffered' \in [Columns -> SUBSET Nat]
      BY <1>7, <2>1, <2>2, <2>3, <2>4
    <2>6. ClientTypes'
      BY <1>7, <1>9, <2>5 DEF ClientTypes
    <2>7. UNCHANGED <<clock, content, fresh, pending, place, interest, visits, where.dim>>
      BY <1>1, <1>9 DEF serverVars
    <2>8. ColumnInv(d)'
      <3>1. CASE /\ applied[d] = Unseen
                 /\ buffered' = [buffered EXCEPT ![d] = buffered[d] \union {r}]
                 /\ UNCHANGED <<applied, shown>>
        BY <1>7, <2>1, <2>7, <3>1, BlockComesEarly
      <3>2. CASE /\ applied[d] # Unseen /\ ~(r <= applied[d])
                 /\ applied' = [applied EXCEPT ![d] = r]
                 /\ shown' = IF d[1] = where.dim THEN [shown EXCEPT ![d] = s] ELSE shown
                 /\ UNCHANGED buffered
        <4>1. applied[d] \in Nat
          BY <1>7, <2>1, <3>2
        <4>2. p.rev > applied[d]
          BY <2>3, <3>2, <4>1
        <4>3. /\ applied'[d] = p.rev
              /\ IF d[1] = where.dim THEN shown'[d] = PresentBlocks(shown[d], {p.rev})
                                     ELSE shown'[d] = shown[d]
          BY <1>7, <2>1, <3>2 DEF s
        <4>4. QED
          BY <2>1, <2>7, <3>2, <4>2, <4>3, BlockIsApplied
      <3>3. CASE /\ applied[d] # Unseen /\ r <= applied[d]
                 /\ UNCHANGED <<applied, buffered, shown>>
        BY <2>1, <2>7, <3>3, BlockIsStale DEF ColumnVars
      <3>4. QED
        BY <2>2, <3>1, <3>2, <3>3
    <2>9. ASSUME NEW c \in Columns, c # d PROVE ColumnInv(c)'
      <3>1. UNCHANGED <<ColumnVars(c), shown[c], where.dim>>
        BY <1>7, <2>2, <2>7, <2>9 DEF ColumnVars
      <3>2. ~Block(p, c)
        BY <2>0, <2>9 DEF Block
      <3>3. QED
        BY <1>3, <3>1, <3>2, ArrivesElsewhere
    <2>9a. ASSUME NEW c \in Columns PROVE Takes(p, c)
      <3>1. ~Moves(p) /\ ~Chunk(p, c) /\ UNCHANGED where
        BY <1>9 DEF Moves, Chunk
      <3>2. /\ applied[c] # Unseen => applied'[c] # Unseen
            /\ applied[c] = Unseen => applied'[c] = Unseen
            /\ shown'[c].resident = shown[c].resident
        <4>1. CASE c = d
          BY <1>7, <1>7a, <2>1, <2>2, <2>3, <2>4, <4>1
        <4>2. CASE c # d
          BY <1>7, <2>1, <2>2, <4>2
        <4>3. QED
          BY <4>1, <4>2
      <3>3. QED
        BY <3>1, <3>2 DEF Takes
    <2>10. QED
      BY <1>4, <2>6, <2>8, <2>9, <2>9a DEF Typed, p
  <1>10. CASE /\ p.kind = "entity"
              /\ Present(p.col, PresentEntity(shown[p.col], p.rev))
              /\ UNCHANGED <<applied, buffered, where>>
    <2>1. PresentEntity(shown[p.col], p.rev) = shown[p.col] /\ p.col \in Columns
      BY <1>3, <1>6, <1>10, EntityIsStale
    <2>2. shown' = shown
      BY <1>7, <1>10, <2>1 DEF Present
    <2>3. \A c : UNCHANGED <<ColumnVars(c), shown[c], where.dim>>
      BY <1>1, <1>10, <2>2 DEF ColumnVars, serverVars
    <2>4. \A c \in Columns : ColumnInv(c)'
      BY <1>3, <1>10, <2>3, ArrivesElsewhere DEF Block
    <2>5. ClientTypes'
      BY <1>7, <1>10, <2>2 DEF ClientTypes
    <2>6. \A c \in Columns : Takes(p, c)
      BY <1>10, <2>2 DEF Takes, Moves, Chunk
    <2>7. QED
      BY <1>4, <2>4, <2>5, <2>6 DEF Typed, p
  <1>11. CASE p.kind = "transfer" /\ ReceiveTransfer(p)
    <2>1. /\ where' = [dim |-> p.dim, pos |-> p.pos] /\ UNCHANGED <<applied, buffered>>
          /\ shown' = IF p.dim = where.dim THEN shown ELSE [c \in Columns |-> Blank]
      BY <1>11 DEF ReceiveTransfer
    <2>2. p.dim \in Dimensions /\ p.pos \in Positions
      BY <1>5, <1>11 DEF AnyPacket, ChunkPacket
    <2>3. Blank \in Presented /\ Absent(Blank)
      BY DEF Blank, Presented, Absent
    <2>4. ClientTypes'
      BY <1>7, <2>1, <2>2, <2>3 DEF ClientTypes, Places
    <2>5. ASSUME NEW c \in Columns PROVE ColumnInv(c)'
      <3>1. UNCHANGED <<shown[c], where.dim>> \/ Absent(shown[c])'
        <4>1. CASE p.dim = where.dim
          BY <2>1, <4>1
        <4>2. CASE p.dim # where.dim
          <5>1. shown'[c] = Blank
            BY <2>1, <4>2
          <5>2. QED
            BY <2>3, <5>1
        <4>3. QED
          BY <4>1, <4>2
      <3>2. UNCHANGED ColumnVars(c)
        BY <1>1, <2>1 DEF ColumnVars, serverVars
      <3>3. QED
        BY <1>3, <1>11, <3>1, <3>2, ArrivesElsewhere DEF Block
    <2>6. \A c \in Columns : Takes(p, c)
      BY <1>11, <2>1 DEF Takes, Moves, Chunk
    <2>7. QED
      BY <1>4, <2>4, <2>5, <2>6 DEF Typed, p
  <1>12. QED
    BY <1>2, <1>8, <1>9, <1>10, <1>11

-----------------------------------------------------------------------------
(* A column as the world changes and the session moves.                      *)

LEMMA Mutating ==
  ASSUME Typed, \A c \in Columns : ColumnInv(c), NEW m \in Columns, Mutate(m)
  PROVE  Typed' /\ \A c \in Columns : ColumnInv(c)'
  <1> DEFINE new == clock[m[1]] + 1
  <1>1. /\ clock' = [clock EXCEPT ![m[1]] = new]
        /\ content' = [content EXCEPT ![m] = content[m] \union {new}]
        /\ fresh' = Append(fresh, [col |-> m, rev |-> new])
        /\ UNCHANGED <<resident, demanded, place, interest, pending, outbox, networkVars,
                       clientVars, visits>>
    BY DEF Mutate, history
  <1>2. m[1] \in Dimensions /\ clock[m[1]] \in Nat /\ new \in Nat /\ clock[m[1]] < new
    BY DEF Typed, ServerTypes, Columns
  <1> HIDE DEF new
  <1>3. Lanes' = Lanes /\ UNCHANGED <<applied, buffered, shown, where>>
    BY <1>1 DEF Lanes, networkVars, clientVars
  <1>4. /\ fresh \in Seq([col : Columns, rev : Nat]) /\ Len(fresh) \in Nat
        /\ DOMAIN fresh = 1 .. Len(fresh) /\ DOMAIN fresh' = 1 .. Len(fresh) + 1
        /\ \A i \in DOMAIN fresh : fresh'[i] = fresh[i] /\ i \in DOMAIN fresh'
        /\ fresh'[Len(fresh) + 1] = [col |-> m, rev |-> new]
        /\ fresh' \in Seq([col : Columns, rev : Nat])
    BY <1>1, <1>2, QueueAppended DEF Typed, ServerTypes
  <1>5. /\ clock' \in [Dimensions -> Nat] /\ content' \in [Columns -> SUBSET Nat]
        /\ \A c \in Columns : clock[c[1]] \in Nat /\ clock'[c[1]] \in Nat
                              /\ clock[c[1]] <= clock'[c[1]]
        /\ clock'[m[1]] = new
        /\ content'[m] = content[m] \union {new}
        /\ \A c \in Columns : content[c] \in SUBSET Nat /\ \A r \in content[c] : r <= clock[c[1]]
        /\ \A c \in Columns : c # m => content'[c] = content[c]
    BY <1>1, <1>2 DEF Typed, ServerTypes, Columns
  <1>6. Typed'
    <2>1. \A c \in Columns : \A r \in content'[c] : r <= clock'[c[1]]
      <3> SUFFICES ASSUME NEW c \in Columns, NEW r \in content'[c] PROVE r <= clock'[c[1]]
        OBVIOUS
      <3>1. CASE r \in content[c]
        BY <1>5, <3>1
      <3>2. CASE r \notin content[c]
        <4>1. c = m /\ r = new
          BY <1>5, <3>2
        <4>2. QED
          BY <1>2, <1>5, <4>1
      <3>3. QED
        BY <3>1, <3>2
    <2>2. ServerTypes'
      BY <1>1, <1>4, <1>5, <2>1 DEF Typed, ServerTypes
    <2>3. LaneTypes' /\ ClientTypes'
      BY <1>1 DEF Typed, LaneTypes, ClientTypes, networkVars, clientVars
    <2>4. QED
      BY <2>2, <2>3 DEF Typed
  <1>7. ASSUME NEW c \in Columns
        PROVE  /\ Known(c)' = Known(c) /\ Wanted(c)' = Wanted(c) /\ Bases(c)' = Bases(c)
               /\ FreshOf(c) \subseteq FreshOf(c)'
               /\ FreshOf(c)' \subseteq FreshOf(c) \union {new}
               /\ c = m => new \in FreshOf(c)'
               /\ c # m => FreshOf(c)' = FreshOf(c)
    <2>1. Known(c)' = Known(c) /\ Wanted(c)' = Wanted(c) /\ Bases(c)' = Bases(c)
      BY <1>1, <1>3 DEF Known, Wanted, Bases
    <2>2. FreshOf(c) \subseteq FreshOf(c)'
      BY <1>4 DEF FreshOf
    <2>3. ASSUME NEW i \in DOMAIN fresh', fresh'[i].col = c
          PROVE  fresh'[i].rev \in FreshOf(c) \/ (fresh'[i].rev = new /\ c = m)
      <3>1. i \in DOMAIN fresh \/ i = Len(fresh) + 1
        BY <1>4
      <3>2. CASE i \in DOMAIN fresh
        BY <1>4, <2>3, <3>2 DEF FreshOf
      <3>3. CASE i = Len(fresh) + 1
        BY <1>4, <2>3, <3>3
      <3>4. QED
        BY <3>1, <3>2, <3>3
    <2>4. c = m => new \in FreshOf(c)'
      <3>1. Len(fresh) + 1 \in DOMAIN fresh'
        BY <1>4
      <3>2. fresh'[Len(fresh) + 1].col = m /\ fresh'[Len(fresh) + 1].rev = new
        BY <1>4
      <3>3. QED
        BY <3>1, <3>2 DEF FreshOf
    <2>5. FreshOf(c)' \subseteq FreshOf(c) \union {new} /\ (c # m => FreshOf(c)' \subseteq FreshOf(c))
      BY <2>3 DEF FreshOf
    <2>6. QED
      BY <2>1, <2>2, <2>4, <2>5
  <1>8. ASSUME NEW p \in Underway(Lanes), Change(p, m) PROVE p.rev < new
    <2>1. p.rev \in Nat /\ p.col = m
      BY <1>8, UnderwayIsTyped, RevisionIsNumber DEF Change
    <2>2. CASE p.kind = "block"
      <3>1. p.rev \in Sent(Lanes, m)
        BY <2>1, <2>2 DEF Sent, Block
      <3>2. p.rev \in content[m]
        BY <3>1 DEF ColumnInv, Genuine, Known
      <3>3. QED
        BY <1>2, <1>5, <2>1, <3>2
    <2>3. CASE p.kind = "entity"
      <3>1. p.rev \in content[m] \/ (applied[m] # Unseen /\ p.rev <= applied[m]
                                     /\ applied[m] <= clock[m[1]])
        BY <2>1, <2>3 DEF ColumnInv, Genuine
      <3>2. applied[m] # Unseen => applied[m] \in Nat
        BY DEF Typed, ClientTypes
      <3>3. QED
        BY <1>2, <1>5, <2>1, <3>1, <3>2
    <2>4. QED
      BY <1>8, <2>2, <2>3 DEF Change
  <1>9. ASSUME NEW c \in Columns PROVE ColumnInv(c)'
    <2>1. /\ \A r \in content[c] : r \in Nat /\ r <= clock[c[1]]
          /\ \A x \in Known(c) \union FreshOf(c) : x \in content[c]
          /\ c = m => \A x \in Known(c) \union FreshOf(c) : x < new
      <3>1. /\ \A r \in content[c] : r \in Nat /\ r <= clock[c[1]]
            /\ \A x \in Known(c) \union FreshOf(c) : x \in content[c]
        BY <1>5 DEF ColumnInv, Genuine
      <3>2. c = m => \A r \in content[c] : r < new
        BY <1>2, <3>1
      <3>3. QED
        BY <3>1, <3>2
    <2>2. /\ applied[c] # Unseen => applied[c] \in Nat /\ applied[c] <= clock[c[1]]
      BY DEF ColumnInv, Genuine, Typed, ClientTypes
    <2>3. /\ \A r \in content[c] : r \in content'[c]
          /\ \A r \in content'[c] : r \in content[c] \/ (c = m /\ r = new)
          /\ \A r \in content'[c] : r \in Nat
      BY <1>2, <1>5
    <2>4. ASSUME NEW k \in Nat, k <= clock[c[1]]
          PROVE  {r \in content'[c] : r <= k} = {r \in content[c] : r <= k}
      <3>1. c = m => ~(new <= k)
        BY <1>2, <2>4
      <3>2. QED
        BY <2>3, <3>1
    <2>5. InOrder(c)'
      <3>1. \A i, j \in DOMAIN fresh' :
              i < j /\ fresh'[i].col = c /\ fresh'[j].col = c => fresh'[i].rev < fresh'[j].rev
        <4> SUFFICES ASSUME NEW i \in DOMAIN fresh', NEW j \in DOMAIN fresh',
                            i < j, fresh'[i].col = c, fresh'[j].col = c
                     PROVE  fresh'[i].rev < fresh'[j].rev
          OBVIOUS
        <4>1. i \in DOMAIN fresh /\ (j \in DOMAIN fresh \/ j = Len(fresh) + 1)
          BY <1>4
        <4>2. CASE j \in DOMAIN fresh
          BY <1>4, <4>1, <4>2 DEF ColumnInv, InOrder
        <4>3. CASE j = Len(fresh) + 1
          <5>1. c = m /\ fresh'[j].rev = new /\ fresh'[i].rev \in FreshOf(c)
            BY <1>4, <4>1, <4>3 DEF FreshOf
          <5>2. QED
            BY <2>1, <5>1
        <4>4. QED
          BY <4>1, <4>2, <4>3
      <3>2. \A p \in Underway(Lanes), x \in FreshOf(c)' : Change(p, c) => p.rev < x
        BY <1>7, <1>8 DEF ColumnInv, InOrder
      <3>3. \A x \in buffered[c], r \in FreshOf(c)' : x < r
        <4>1. c = m => \A x \in buffered[c] : x < new
          BY <2>1 DEF Known
        <4>2. QED
          BY <1>7, <4>1 DEF ColumnInv, InOrder
      <3>4. QED
        BY <1>3, <3>1, <3>2, <3>3 DEF ColumnInv, InOrder
    <2>6. Genuine(c)'
      <3>1. Known(c) \union FreshOf(c)' \subseteq content'[c]
        BY <1>5, <1>7, <2>1, <2>3
      <3>2. \A p \in Underway(Lanes) : Chunk(p, c) =>
              p.rev <= clock'[c[1]] /\ p.blocks = {r \in content'[c] : r <= p.rev}
        <4> SUFFICES ASSUME NEW p \in Underway(Lanes), Chunk(p, c)
                     PROVE  p.rev <= clock'[c[1]] /\ p.blocks = {r \in content'[c] : r <= p.rev}
          OBVIOUS
        <4>1. p.rev \in Nat
          BY UnderwayIsTyped, RevisionIsNumber
        <4>2. p.rev <= clock[c[1]] /\ p.blocks = {r \in content[c] : r <= p.rev}
          BY DEF ColumnInv, Genuine
        <4>3. p.rev <= clock'[c[1]]
          BY <1>5, <4>1, <4>2
        <4>4. QED
          BY <2>4, <4>1, <4>2, <4>3
      <3>3. applied[c] # Unseen => applied[c] <= clock'[c[1]]
        BY <1>5, <2>2
      <3>4. QED
        BY <1>3, <1>7, <3>1, <3>2, <3>3 DEF ColumnInv, Genuine
    <2>7. Once(c)'
      <3>1. applied[c] # Unseen =>
              {r \in content'[c] : r <= applied[c]} = {r \in content[c] : r <= applied[c]}
        BY <2>2, <2>4
      <3>2. QED
        BY <1>1, <1>3, <3>1 DEF ColumnInv, Once
    <2>8. NoGap(c)'
      <3> SUFFICES ASSUME NEW b \in Bases(c)
                   PROVE  /\ \A x \in Known(c), r \in content'[c] : b < r /\ r < x => r \in Known(c)
                          /\ Wanted(c) => \A r \in content'[c] : b < r => r \in Known(c) \union FreshOf(c)'
        BY <1>7 DEF NoGap
      <3>1. \A x \in Known(c) : c = m => x \in Nat /\ x < new
        BY <2>1
      <3>2. \A x \in Known(c), r \in content[c] : b < r /\ r < x => r \in Known(c)
        BY DEF ColumnInv, NoGap
      <3>3. Wanted(c) => \A r \in content[c] : b < r => r \in Known(c) \union FreshOf(c)
        BY DEF ColumnInv, NoGap
      <3>4. \A x \in Known(c), r \in content'[c] : b < r /\ r < x => r \in Known(c)
        BY <1>2, <2>3, <3>1, <3>2
      <3>5. QED
        BY <1>7, <2>3, <3>3, <3>4
    <2>9. QED
      BY <2>5, <2>6, <2>7, <2>8 DEF ColumnInv
  <1>10. QED
    BY <1>6, <1>9

LEMMA QueuesJoined ==
  ASSUME NEW S, NEW s \in Seq(S), NEW t \in Seq(S)
  PROVE  /\ s \o t \in Seq(S) /\ Len(s) \in Nat /\ Len(t) \in Nat
         /\ DOMAIN s = 1 .. Len(s) /\ DOMAIN t = 1 .. Len(t)
         /\ DOMAIN (s \o t) = 1 .. Len(s) + Len(t)
         /\ \A i \in 1 .. Len(s) : (s \o t)[i] = s[i]
         /\ \A i \in 1 .. Len(t) : (s \o t)[Len(s) + i] = t[i]
         /\ \A i \in DOMAIN (s \o t) :
              i \in DOMAIN s \/ (i - Len(s) \in DOMAIN t /\ (s \o t)[i] = t[i - Len(s)])
  <1>1. Len(s) \in Nat /\ Len(t) \in Nat /\ DOMAIN s = 1 .. Len(s) /\ DOMAIN t = 1 .. Len(t)
    BY LenProperties
  <1>2. /\ s \o t \in Seq(S) /\ Len(s \o t) = Len(s) + Len(t)
        /\ \A i \in 1 .. Len(s) + Len(t) :
             (s \o t)[i] = IF i <= Len(s) THEN s[i] ELSE t[i - Len(s)]
    BY ConcatProperties
  <1>3. DOMAIN (s \o t) = 1 .. Len(s) + Len(t)
    BY <1>2, LenProperties
  <1>4. ASSUME NEW i \in 1 .. Len(s) PROVE (s \o t)[i] = s[i]
    BY <1>1, <1>2
  <1>5. ASSUME NEW i \in 1 .. Len(t) PROVE (s \o t)[Len(s) + i] = t[i]
    BY <1>1, <1>2
  <1>6. ASSUME NEW i \in DOMAIN (s \o t)
        PROVE  i \in DOMAIN s \/ (i - Len(s) \in DOMAIN t /\ (s \o t)[i] = t[i - Len(s)])
    BY <1>1, <1>2, <1>3
  <1>7. QED
    BY <1>1, <1>2, <1>3, <1>4, <1>5, <1>6

\* Two queues of different elements, with none in common, joined.
LEMMA QueuesApart ==
  ASSUME NEW S, NEW s \in Seq(S), NEW t \in Seq(S),
         \A i, j \in DOMAIN s : s[i] = s[j] => i = j,
         \A i, j \in DOMAIN t : t[i] = t[j] => i = j,
         PacketsOf(s) \intersect PacketsOf(t) = {}
  PROVE  /\ PacketsOf(s \o t) = PacketsOf(s) \union PacketsOf(t)
         /\ \A i, j \in DOMAIN (s \o t) : (s \o t)[i] = (s \o t)[j] => i = j
  <1> DEFINE u == s \o t
             n == Len(s)
  <1>1. /\ n \in Nat /\ Len(t) \in Nat /\ DOMAIN s = 1 .. n /\ DOMAIN t = 1 .. Len(t)
        /\ DOMAIN u = 1 .. n + Len(t)
        /\ \A i \in DOMAIN s : u[i] = s[i]
        /\ \A i \in DOMAIN t : u[n + i] = t[i]
        /\ \A i \in DOMAIN u : i \in DOMAIN s \/ (i - n \in DOMAIN t /\ u[i] = t[i - n])
    BY QueuesJoined
  <1> HIDE DEF u, n
  <1>2. PacketsOf(u) \subseteq PacketsOf(s) \union PacketsOf(t)
    BY <1>1 DEF PacketsOf
  <1>3. PacketsOf(s) \subseteq PacketsOf(u)
    BY <1>1 DEF PacketsOf
  <1>4. PacketsOf(t) \subseteq PacketsOf(u)
    <2> SUFFICES ASSUME NEW i \in DOMAIN t PROVE t[i] \in PacketsOf(u)
      BY DEF PacketsOf
    <2>1. n + i \in DOMAIN u /\ u[n + i] = t[i]
      BY <1>1
    <2>2. QED
      BY <2>1 DEF PacketsOf
  <1>5. ASSUME NEW i \in DOMAIN u, NEW j \in DOMAIN u, u[i] = u[j] PROVE i = j
    <2>1. CASE i \in DOMAIN s /\ j \in DOMAIN s
      BY <1>1, <1>5, <2>1
    <2>2. CASE i \notin DOMAIN s /\ j \notin DOMAIN s
      <3>1. i - n = j - n
        BY <1>1, <1>5, <2>2
      <3>2. QED
        BY <1>1, <3>1
    <2>3. \A k \in DOMAIN s : u[k] \in PacketsOf(s)
      BY <1>1 DEF PacketsOf
    <2>4. \A k \in DOMAIN u : k \notin DOMAIN s => u[k] \in PacketsOf(t)
      BY <1>1 DEF PacketsOf
    <2>5. ~(u[i] \in PacketsOf(s) /\ u[i] \in PacketsOf(t))
      OBVIOUS
    <2>6. QED
      BY <1>5, <2>1, <2>2, <2>3, <2>4, <2>5
  <1>6. QED
    BY <1>2, <1>3, <1>4, <1>5 DEF u

LEMMA KeptAreDistinct ==
  ASSUME NEW S, NEW s \in Seq(S), NEW I \in SUBSET DOMAIN s,
         \A i, j \in DOMAIN s : s[i] = s[j] => i = j
  PROVE  /\ Kept(s, I) \in Seq(S)
         /\ PacketsOf(Kept(s, I)) = {s[i] : i \in I}
         /\ \A i, j \in DOMAIN Kept(s, I) : Kept(s, I)[i] = Kept(s, I)[j] => i = j
  <1> DEFINE t == Kept(s, I)
  <1>1. /\ t \in Seq(S)
        /\ \A k \in DOMAIN t : Place(I, k) \in I /\ t[k] = s[Place(I, k)]
        /\ \A k, l \in DOMAIN t : k < l => Place(I, k) < Place(I, l)
        /\ \A i \in I : \E k \in DOMAIN t : Place(I, k) = i
    BY KeptIsPart
  <1>2. DOMAIN t \subseteq Nat /\ I \subseteq Nat
    BY <1>1, LenProperties
  <1> HIDE DEF t
  <1>3. \A i, j \in DOMAIN t : t[i] = t[j] => i = j
    <2> SUFFICES ASSUME NEW i \in DOMAIN t, NEW j \in DOMAIN t, t[i] = t[j], i < j PROVE FALSE
      <3>1. \A i, j \in DOMAIN t : i < j \/ j < i \/ i = j
        BY <1>2
      <3>2. QED
        BY <3>1
    <2>1. Place(I, i) = Place(I, j)
      BY <1>1
    <2>2. Place(I, i) < Place(I, j) /\ Place(I, i) \in Nat
      BY <1>1, <1>2
    <2>3. QED
      BY <2>1, <2>2
  <1>4. PacketsOf(t) = {s[i] : i \in I}
    BY <1>1 DEF PacketsOf
  <1>5. QED
    BY <1>1, <1>3, <1>4 DEF t

\* An order of a finite set holds each of its elements once.
LEMMA OrderOfSet ==
  ASSUME NEW S, NEW T, IsFiniteSet(S), S \subseteq T, NEW s \in Orders(S)
  PROVE  /\ s \in Seq(S) /\ s \in Seq(T) /\ PacketsOf(s) = S
         /\ \A i, j \in DOMAIN s : s[i] = s[j] => i = j
  <1> DEFINE n == Cardinality(S)
  <1>1. n \in Nat
    BY FS_CardinalityType
  <1>2. /\ s \in [1 .. n -> S] /\ DOMAIN s = 1 .. n
        /\ \A i, j \in DOMAIN s : s[i] = s[j] => i = j
    BY DEF Orders
  <1>3. IsFiniteSet(1 .. n) /\ Cardinality(1 .. n) = n
    BY <1>1, FS_Interval
  <1>4. s \in Injection(1 .. n, S)
    BY <1>2 DEF Injection, IsInjective
  <1> DEFINE D == 1 .. n
  <1>5. s \in Surjection(D, S)
    <2>1. /\ IsFiniteSet(D) /\ s \in Injection(D, S)
          /\ Cardinality(D) = Cardinality(S)
      BY <1>3, <1>4
    <2> HIDE DEF D
    <2>2. QED
      BY <2>1, FS_Injection
  <1>6. PacketsOf(s) = S
    BY <1>2, <1>5 DEF PacketsOf, Surjection
  <1> HIDE DEF n
  <1>7. s \in Seq(S) /\ s \in Seq(T)
    BY <1>1, <1>2, SeqDef, SeqMonotonic
  <1>8. QED
    BY <1>2, <1>6, <1>7

\* A column that counts is queued for the first time, or is wanted as before and as long.
Counts(c) ==
  Wanted(c)' /\ visits'[c] = 1 =>
    \/ visits[c] = 0 /\ c \in PacketsOf(pending')
    \/ /\ Wanted(c) /\ visits[c] = 1
       /\ c \in PacketsOf(pending) => c \in PacketsOf(pending')

\* The session moves to place p of dimension d.
LEMMA Refreshed ==
  ASSUME Visited, Typed, \A c \in Columns : ColumnInv(c), Undisturbed',
         NEW d \in Dimensions, NEW p \in Positions, NEW queued,
         queued = pending \/ (queued = << >> /\ d # place.dim),
         RefreshInterest(d, p, queued),
         UNCHANGED <<clock, content, resident, demanded, fresh, clientVars>>,
         LanesTyped(Lanes'), (mailbox \in Seq(ChunkPacket))',
         \A c \in Columns : /\ BlocksStay(Lanes, Lanes', c)
                            /\ Ascending(Lanes', c) /\ OneChunk(Lanes', c)
  PROVE  Typed' /\ \A c \in Columns : ColumnInv(c)' /\ Counts(c)
  <1> DEFINE entered == {d} \X (View[p] \ interest)
             I == PlacesIn(queued, {d} \X View[p])
             kept == Kept(queued, I)
  <1>1. /\ place' = [dim |-> d, pos |-> p] /\ interest' = View[p]
        /\ View[p] \subseteq Coords /\ IsFiniteSet(View[p])
    BY ChunkReplicationAssumption DEF RefreshInterest
  <1>2. PICK s \in Orders(entered) : pending' = kept \o s
    BY DEF RefreshInterest
  <1>3. ASSUME NEW c \in Columns
        PROVE  /\ visits[c] \in Nat /\ visits[c] <= visits'[c] /\ visits'[c] <= 1
               /\ c \in entered => visits[c] = 0 /\ visits'[c] = 1
               /\ c \in {d} \X View[p] => Wanted(c) \/ visits[c] = 0
    <2> DEFINE returned == {r \in {d} \X View[p] : ~Wanted(r) /\ visits[r] = 1}
    <2>1. /\ visits[c] \in Nat /\ visits'[c] <= 1
          /\ visits'[c] = IF c \in entered \union returned /\ visits[c] < 2
                            THEN visits[c] + 1 ELSE visits[c]
      BY DEF Visited, Undisturbed, RefreshInterest
    <2>2. c \in entered \union returned => visits[c] = 0 /\ visits'[c] = 1
      BY <2>1
    <2>3. c \in {d} \X View[p] /\ ~Wanted(c) => visits[c] = 0
      <3>1. visits[c] = 0 \/ visits[c] = 1
        BY <2>1
      <3>2. c \in {d} \X View[p] /\ ~Wanted(c) /\ visits[c] = 1 => c \in returned
        OBVIOUS
      <3>3. QED
        BY <2>2, <3>1, <3>2
    <2>4. QED
      BY <2>1, <2>2, <2>3
  <1>4. queued \in Seq(Columns) /\ \A i, j \in DOMAIN queued : queued[i] = queued[j] => i = j
    <2>1. << >> \in Seq(Columns) /\ DOMAIN << >> = {}
      BY EmptySeq
    <2>2. QED
      BY <2>1 DEF Typed, ServerTypes
  <1>5. /\ kept \in Seq(Columns) /\ PacketsOf(kept) = {queued[i] : i \in I}
        /\ \A i, j \in DOMAIN kept : kept[i] = kept[j] => i = j
    <2>1. I \in SUBSET DOMAIN queued
      BY DEF PlacesIn
    <2> HIDE DEF I
    <2>2. QED
      BY <1>4, <2>1, KeptAreDistinct
  <1>6. PacketsOf(kept) \subseteq PacketsOf(pending)
    <2>1. PacketsOf(kept) \subseteq PacketsOf(queued)
      BY <1>5 DEF PlacesIn, PacketsOf
    <2>2. DOMAIN << >> = {}
      BY EmptySeq
    <2>3. PacketsOf(queued) \subseteq PacketsOf(pending)
      BY <2>2 DEF PacketsOf
    <2>4. QED
      BY <2>1, <2>3
  <1>7. entered \subseteq Columns
    BY <1>1 DEF Columns
  <1>8. s \in Seq(Columns) /\ PacketsOf(s) = entered
        /\ \A i, j \in DOMAIN s : s[i] = s[j] => i = j
    <2>1. IsFiniteSet(entered)
      <3>1. IsFiniteSet({d}) /\ IsFiniteSet(View[p] \ interest)
        BY <1>1, FS_Singleton, FS_Subset
      <3>2. QED
        BY <3>1, FS_Product
    <2> HIDE DEF entered
    <2>2. QED
      BY <1>2, <1>7, <2>1, OrderOfSet
  <1>9. \A c \in Columns : c \in PacketsOf(kept) => visits[c] = 1 /\ visits'[c] = 1
    <2> HIDE DEF kept, entered
    <2>1. \A c \in Columns : c \in PacketsOf(kept) => visits[c] = 1
      BY <1>6 DEF ColumnInv, Once
    <2>2. ASSUME NEW c \in Columns, visits[c] = 1 PROVE visits'[c] = 1
      <3>1. visits'[c] \in Nat
        BY DEF Visited, RefreshInterest
      <3>2. QED
        BY <1>3, <2>2, <3>1
    <2>3. QED
      BY <2>1, <2>2
  <1>10. PacketsOf(kept) \intersect PacketsOf(s) = {}
    <2> HIDE DEF kept, entered
    <2>1. QED
      BY <1>3, <1>7, <1>8, <1>9
  <1> HIDE DEF kept, entered, I
  <1>11. /\ pending' \in Seq(Columns) /\ PacketsOf(pending') = PacketsOf(kept) \union PacketsOf(s)
         /\ \A i, j \in DOMAIN pending' : pending'[i] = pending'[j] => i = j
    <2>1. kept \o s \in Seq(Columns)
      BY <1>5, <1>8, ConcatProperties
    <2>2. /\ PacketsOf(kept \o s) = PacketsOf(kept) \union PacketsOf(s)
          /\ \A i, j \in DOMAIN (kept \o s) : (kept \o s)[i] = (kept \o s)[j] => i = j
      BY <1>5, <1>8, <1>10, QueuesApart
    <2>3. QED
      BY <1>2, <2>1, <2>2
  <1>12. Typed'
    <2>1. ServerTypes'
      BY <1>1, <1>11 DEF Typed, ServerTypes, Places
    <2>2. ClientTypes'
      BY DEF Typed, ClientTypes, clientVars
    <2>3. LaneTypes'
      <3>1. \A k \in {1, 2, 3, 4} : Lanes'[k] \in Seq(AnyPacket)
        BY DEF LanesTyped
      <3>2. QED
        BY <3>1 DEF LaneTypes, Lanes
    <2>4. QED
      BY <2>1, <2>2, <2>3 DEF Typed
  <1>13. ASSUME NEW c \in Columns PROVE ColumnInv(c)'
    <2>1. /\ Sent(Lanes', c) = Sent(Lanes, c)
          /\ NoChunk(Lanes, c) => NoChunk(Lanes', c)
          /\ \A q \in Underway(Lanes') : Change(q, c) \/ Chunk(q, c) => q \in Underway(Lanes)
      BY SentStays
    <2>2. UNCHANGED <<clock, content, fresh, applied, buffered, shown, where>>
      BY DEF clientVars
    <2>3. Known(c)' = Known(c) /\ FreshOf(c)' = FreshOf(c)
      BY <2>1, <2>2 DEF Known, FreshOf
    <2>4. Bases(c)' \subseteq Bases(c)
      <3>1. {q.rev : q \in {x \in Underway(Lanes') : Chunk(x, c)}}
              \subseteq {q.rev : q \in {x \in Underway(Lanes) : Chunk(x, c)}}
        BY <2>1
      <3>2. QED
        BY <2>2, <3>1 DEF Bases
    <2>5. InOrder(c)'
      BY <2>1, <2>2, <2>3 DEF ColumnInv, InOrder
    <2>6. Genuine(c)'
      <3>1. \A q \in Underway(Lanes') : q.kind = "entity" /\ q.col = c => q \in Underway(Lanes)
        BY <2>1 DEF Change
      <3>2. QED
        BY <2>1, <2>2, <2>3, <3>1 DEF ColumnInv, Genuine
    <2>7. Once(c)'
      <3>1. c \in PacketsOf(pending') =>
              /\ visits'[c] = 1
              /\ c \in PacketsOf(pending) \/ visits[c] = 0
        BY <1>3, <1>6, <1>8, <1>9, <1>11
      <3>2. visits'[c] = 0 => visits[c] = 0
        BY <1>3
      <3>3. c \in PacketsOf(pending') \/ visits'[c] = 0 => applied[c] = Unseen /\ NoChunk(Lanes', c)
        BY <2>1, <3>1, <3>2 DEF ColumnInv, Once
      <3>4. applied[c] # Unseen => NoChunk(Lanes', c)
        BY <2>1 DEF ColumnInv, Once
      <3>5. QED
        BY <2>2, <3>1, <3>3, <3>4 DEF ColumnInv, Once
    <2>8. NoGap(c)'
      <3>1. Wanted(c)' => c \in {d} \X View[p]
        <4>1. c = <<c[1], c[2]>>
          BY DEF Columns
        <4>2. QED
          BY <1>1, <4>1 DEF Wanted
      <3>2. visits[c] = 0 => Bases(c) = {}
        BY DEF ColumnInv, Once, Bases, NoChunk
      <3>3. Wanted(c)' => Wanted(c) \/ Bases(c) = {}
        BY <1>3, <3>1, <3>2
      <3>4. QED
        BY <2>2, <2>3, <2>4, <3>3 DEF ColumnInv, NoGap
    <2>9. QED
      BY <2>5, <2>6, <2>7, <2>8 DEF ColumnInv
  <1>14. ASSUME NEW c \in Columns PROVE Counts(c)
    <2> SUFFICES ASSUME Wanted(c)', visits'[c] = 1
                 PROVE  \/ visits[c] = 0 /\ c \in PacketsOf(pending')
                        \/ /\ Wanted(c) /\ visits[c] = 1
                           /\ c \in PacketsOf(pending) => c \in PacketsOf(pending')
      BY DEF Counts
    <2>1. c = <<c[1], c[2]>> /\ c[1] = d /\ c[2] \in View[p]
      BY <1>1 DEF Columns, Wanted
    <2>2. c \in {d} \X View[p]
      BY <2>1
    <2>3. CASE c \in entered
      BY <1>3, <1>8, <1>11, <2>3
    <2>4. CASE c \notin entered
      <3>1. c[2] \in interest
        BY <2>1, <2>2, <2>4 DEF entered
      <3>2. Wanted(c) /\ visits[c] = 1
        <4>1. visits'[c] = IF c \in {d} \X View[p] /\ ~Wanted(c) /\ visits[c] = 1 /\ visits[c] < 2
                             THEN visits[c] + 1 ELSE visits[c]
          BY <2>4 DEF RefreshInterest, entered
        <4>2. visits[c] = 1
          BY <1>3, <2>2, <4>1
        <4>3. QED
          BY <2>2, <4>1, <4>2
      <3>3. c \in PacketsOf(pending) => c \in PacketsOf(kept)
        <4>1. ASSUME c \in PacketsOf(pending) PROVE c \in PacketsOf(kept)
          <5>1. queued = pending
            BY <2>1, <3>2 DEF Wanted
          <5>2. PICK i \in DOMAIN queued : queued[i] = c
            BY <4>1, <5>1 DEF PacketsOf
          <5>3. i \in I
            BY <2>2, <5>2 DEF I, PlacesIn
          <5>4. QED
            BY <1>5, <5>2, <5>3
        <4>2. QED
          BY <4>1
      <3>4. QED
        BY <1>11, <3>2, <3>3
    <2>5. QED
      BY <2>3, <2>4
  <1>15. QED
    BY <1>12, <1>13, <1>14

LEMMA Refreshing ==
  ASSUME Visited, Typed, \A c \in Columns : ColumnInv(c), Undisturbed',
         PoseArrives \/ \E d \in Dimensions, p \in Positions : Transfer(d, p)
  PROVE  Typed' /\ \A c \in Columns : ColumnInv(c)' /\ Counts(c)
  <1>1. LanesTyped(Lanes) /\ mailbox \in Seq(ChunkPacket) /\ place \in Places /\ where \in Places
    BY LanesAreTyped DEF Typed, ServerTypes, ClientTypes
  <1>2. CASE PoseArrives
    <2>1. PICK d \in Dimensions, p \in Positions : d = place.dim /\ p = where.pos
      BY <1>1 DEF Places
    <2>2. PICK queued : queued = pending
      OBVIOUS
    <2>3. /\ RefreshInterest(d, p, queued)
          /\ UNCHANGED <<clock, content, resident, demanded, fresh, outbox, networkVars, clientVars>>
      BY <1>2, <2>1, <2>2 DEF PoseArrives
    <2>4. Lanes' = Lanes
      BY <2>3 DEF Lanes, networkVars
    <2>5. \A c \in Columns : /\ BlocksStay(Lanes, Lanes', c)
                             /\ Ascending(Lanes', c) /\ OneChunk(Lanes', c)
      BY <2>4 DEF BlocksStay, ColumnInv, InOrder, Once
    <2>6. LanesTyped(Lanes') /\ (mailbox \in Seq(ChunkPacket))'
      BY <1>1, <2>3, <2>4 DEF networkVars
    <2>7. QED
      BY <2>2, <2>3, <2>5, <2>6, Refreshed
  <1>3. CASE \E d \in Dimensions, p \in Positions : Transfer(d, p)
    <2>1. PICK d \in Dimensions, p \in Positions : Transfer(d, p) /\ d # place.dim
      BY <1>3 DEF Transfer
    <2>2. PICK queued : queued = << >>
      OBVIOUS
    <2> DEFINE packet == DimensionTransfer(d, p)
    <2>3. /\ RefreshInterest(d, p, queued) /\ host' = Append(host, packet)
          /\ UNCHANGED <<clock, content, resident, demanded, fresh, outbox, mailbox, out, wire,
                         clientVars>>
      BY <2>1, <2>2 DEF Transfer, EnqueueHost, Undisturbed
    <2>4. packet \in AnyPacket /\ packet.kind = "transfer"
      BY DEF AnyPacket, DimensionTransfer
    <2> HIDE DEF packet
    <2>5. AddsPacket(Lanes, Lanes', 3, packet) /\ 3 \in 1 .. 5
      BY <2>3, <2>4 DEF AddsPacket, Lanes
    <2>6. /\ LanesTyped(Lanes')
          /\ Underway(Lanes) \subseteq Underway(Lanes')
          /\ \A q \in Underway(Lanes') : q \in Underway(Lanes) \/ q.kind = "transfer"
      BY <1>1, <2>5, LanesAdded
    <2>7. ASSUME NEW c \in Columns PROVE OneChunk(Lanes', c) /\ Ascending(Lanes', c)
      <3>1. OneChunk(Lanes, c) /\ Ascending(Lanes, c)
        BY DEF ColumnInv, InOrder, Once
      <3>2. QED
        BY <1>1, <2>5, <3>1, LanesAdded
    <2>8. \A c \in Columns : BlocksStay(Lanes, Lanes', c)
      BY <2>6 DEF BlocksStay
    <2>9. QED
      BY <1>1, <2>1, <2>2, <2>3, <2>6, <2>7, <2>8, Refreshed
  <1>4. QED
    BY <1>2, <1>3

-----------------------------------------------------------------------------
(* A column as the tick is routed.                                           *)

LEMMA InspectedIsPlace ==
  ASSUME pending \in Seq(Columns)
  PROVE  Inspected \in Nat /\ Inspected <= Len(pending)
  <1> DEFINE N == Looks
             size(n) == Cardinality(ReadyAmong(n))
             Fits(n) == /\ size(n) <= Batch
                        /\ \/ size(n) = Batch /\ n \in ReadyAmong(n)
                           \/ size(n) < Batch /\ n = N
  <1>1. Len(pending) \in Nat /\ Batch \in Nat \ {0}
    BY LenProperties, ChunkReplicationAssumption
  <1>2. N \in Nat /\ N <= Len(pending)
    BY <1>1 DEF Looks
  <1>3. ASSUME NEW n \in Nat PROVE IsFiniteSet(ReadyAmong(n)) /\ size(n) \in Nat
    <2>1. IsFiniteSet(1 .. n)
      BY FS_Interval
    <2>2. ReadyAmong(n) \in SUBSET (1 .. n)
      BY DEF ReadyAmong
    <2>3. IsFiniteSet(ReadyAmong(n))
      BY <2>1, <2>2, FS_Subset
    <2>4. QED
      BY <2>3, FS_CardinalityType
  <1>4. ASSUME NEW n \in Nat
        PROVE  /\ size(n + 1) <= size(n) + 1
               /\ n + 1 \notin ReadyAmong(n + 1) => size(n + 1) <= size(n)
    <2> DEFINE R == ReadyAmong(n)
               Q == ReadyAmong(n + 1)
    <2>1. Q \in SUBSET (R \union {n + 1}) /\ (n + 1 \notin Q => Q \in SUBSET R)
      BY DEF ReadyAmong
    <2>2. IsFiniteSet(R) /\ Cardinality(R) \in Nat
      BY <1>3
    <2>3. n + 1 \in Nat /\ IsFiniteSet(Q) /\ Cardinality(Q) \in Nat
      <3>1. n + 1 \in Nat
        OBVIOUS
      <3>2. QED
        BY <1>3, <3>1
    <2> HIDE DEF R, Q
    <2>4. /\ IsFiniteSet(R \union {n + 1})
          /\ Cardinality(R \union {n + 1}) <= Cardinality(R) + 1
      <3>1. /\ IsFiniteSet(R \union {n + 1})
            /\ Cardinality(R \union {n + 1}) =
                 IF n + 1 \in R THEN Cardinality(R) ELSE Cardinality(R) + 1
        BY <2>2, FS_AddElement
      <3>2. QED
        BY <2>2, <3>1
    <2>5. Cardinality(Q) <= Cardinality(R \union {n + 1}) /\ Cardinality(R \union {n + 1}) \in Nat
      BY <2>1, <2>4, FS_Subset, FS_CardinalityType
    <2>6. n + 1 \notin Q => Cardinality(Q) <= Cardinality(R)
      BY <2>1, <2>2, FS_Subset
    <2>7. Cardinality(Q) <= Cardinality(R) + 1
      BY <2>2, <2>3, <2>4, <2>5
    <2>8. QED
      BY <2>6, <2>7 DEF R, Q
  <1> DEFINE S == {n \in 0 .. N : size(n) < Batch}
  <1>5. 0 \in S
    <2>1. ReadyAmong(0) = {}
      BY DEF ReadyAmong
    <2>2. size(0) = 0
      BY <2>1, FS_EmptySet
    <2> HIDE DEF size, N
    <2>3. QED
      BY <1>1, <1>2, <2>2
  <1>6. PICK m \in S : \A n \in S : n <= m
    <2>1. S \in SUBSET Nat /\ S # {} /\ \A n \in S : n <= N
      BY <1>2, <1>5
    <2> HIDE DEF S, N
    <2>2. QED
      BY <1>2, <2>1, NewestIsMember
  <1>7. m \in Nat /\ m <= N /\ size(m) \in Nat /\ size(m) < Batch
    <2>1. m \in 0 .. N /\ size(m) < Batch
      OBVIOUS
    <2> HIDE DEF size, S, N
    <2>2. m \in Nat
      BY <1>2, <2>1
    <2>3. size(m) \in Nat
      BY <1>3, <2>2 DEF size
    <2>4. QED
      BY <1>2, <2>1, <2>2, <2>3
  <1>8. \E n \in 0 .. N : Fits(n)
    <2>1. CASE m = N
      <3>1. m \in 0 .. N /\ size(m) <= Batch
        <4> HIDE DEF size, S, N
        <4>1. QED
          BY <1>1, <1>2, <1>7
      <3>2. QED
        BY <1>7, <2>1, <3>1
    <2>2. CASE m # N
      <3>1. m + 1 \in 0 .. N /\ m + 1 \in Nat
        <4> HIDE DEF size, S, N
        <4>1. QED
          BY <1>2, <1>7, <2>2
      <3>2. ~(size(m + 1) < Batch)
        <4>1. m + 1 \in S => m + 1 <= m
          BY <1>6
        <4>2. m + 1 \notin S
          <5> HIDE DEF S
          <5>1. QED
            BY <1>7, <4>1
        <4>3. QED
          BY <3>1, <4>2
      <3>3. /\ size(m + 1) \in Nat
            /\ size(m + 1) <= size(m) + 1
            /\ m + 1 \notin ReadyAmong(m + 1) => size(m + 1) <= size(m)
        BY <1>3, <1>4, <1>7, <3>1
      <3>4. size(m + 1) = Batch /\ m + 1 \in ReadyAmong(m + 1)
        <4> HIDE DEF size, S, N
        <4>1. QED
          BY <1>1, <1>7, <3>2, <3>3
      <3>5. Fits(m + 1)
        <4>1. size(m + 1) <= Batch
          <5> HIDE DEF size
          <5>1. QED
            BY <1>1, <3>4
        <4>2. QED
          BY <3>4, <4>1
      <3>6. QED
        BY <3>1, <3>5
    <2>3. QED
      BY <2>1, <2>2
  <1>9. Inspected \in 0 .. N
    <2>1. Inspected = CHOOSE n \in 0 .. N : Fits(n)
      BY DEF Inspected
    <2> HIDE DEF Fits, N
    <2>2. QED
      BY <1>8, <2>1
  <1> HIDE DEF N
  <1>10. QED
    BY <1>1, <1>2, <1>9

\* Each mutation gives its block change and, after it, its block entity.
LEMMA DeltasOfMutations ==
  ASSUME NEW ms \in Seq([col : Columns, rev : Nat])
  PROVE  /\ Deltas(ms) \in Seq(AnyPacket)
         /\ DOMAIN Deltas(ms) = 1 .. 2 * Len(ms) /\ DOMAIN ms = 1 .. Len(ms) /\ Len(ms) \in Nat
         /\ \A i \in DOMAIN Deltas(ms) : \E j \in DOMAIN ms :
              \/ i = 2 * j - 1 /\ Deltas(ms)[i] = BlockChange(ms[j])
              \/ i = 2 * j /\ Deltas(ms)[i] = BlockEntityDelta(ms[j])
         /\ \A j \in DOMAIN ms : /\ 2 * j - 1 \in DOMAIN Deltas(ms)
                                 /\ Deltas(ms)[2 * j - 1] = BlockChange(ms[j])
  <1> DEFINE D == Deltas(ms)
             n == Len(ms)
             D1(i) == BlockChange(ms[(i + 1) \div 2])
             D2(i) == BlockEntityDelta(ms[i \div 2])
  <1>1. n \in Nat /\ DOMAIN ms = 1 .. n /\ \A j \in 1 .. n : ms[j] \in [col : Columns, rev : Nat]
    BY LenProperties, ElementOfSeq
  <1>2. /\ DOMAIN D = 1 .. 2 * n
        /\ \A i \in 1 .. 2 * n : D[i] = IF i % 2 = 1 THEN D1(i) ELSE D2(i)
    BY DEF Deltas
  <1> HIDE DEF n, D, D1, D2
  <1>3. ASSUME NEW i \in 1 .. 2 * n
        PROVE  \E j \in 1 .. n : \/ i = 2 * j - 1 /\ D[i] = BlockChange(ms[j])
                                 \/ i = 2 * j /\ D[i] = BlockEntityDelta(ms[j])
    <2>1. CASE i % 2 = 1
      <3>1. (i + 1) \div 2 \in 1 .. n /\ i = 2 * ((i + 1) \div 2) - 1
        BY <1>1, <2>1
      <3>2. D[i] = BlockChange(ms[(i + 1) \div 2])
        BY <1>2, <2>1 DEF D1
      <3>3. QED
        BY <3>1, <3>2
    <2>2. CASE i % 2 # 1
      <3>1. i \div 2 \in 1 .. n /\ i = 2 * (i \div 2)
        BY <1>1, <2>2
      <3>2. D[i] = BlockEntityDelta(ms[i \div 2])
        BY <1>2, <2>2 DEF D2
      <3>3. QED
        BY <3>1, <3>2
    <2>3. QED
      BY <2>1, <2>2
  <1>4. ASSUME NEW j \in 1 .. n
        PROVE  2 * j - 1 \in 1 .. 2 * n /\ D[2 * j - 1] = BlockChange(ms[j])
    <2>1. 2 * j - 1 \in 1 .. 2 * n /\ (2 * j - 1) % 2 = 1 /\ (2 * j - 1 + 1) \div 2 = j
      BY <1>1
    <2>2. D[2 * j - 1] = BlockChange(ms[(2 * j - 1 + 1) \div 2])
      BY <1>2, <2>1 DEF D1
    <2>3. QED
      BY <2>1, <2>2
  <1>5. D \in Seq(AnyPacket)
    <2>1. ASSUME NEW i \in 1 .. 2 * n PROVE D[i] \in AnyPacket
      <3>1. PICK j \in 1 .. n : D[i] = BlockChange(ms[j]) \/ D[i] = BlockEntityDelta(ms[j])
        BY <1>3
      <3>2. ms[j].col \in Columns /\ ms[j].rev \in Nat
        BY <1>1
      <3>3. QED
        BY <3>1, <3>2 DEF BlockChange, BlockEntityDelta, AnyPacket
    <2>2. D \in [1 .. 2 * n -> AnyPacket]
      <3>1. D = [i \in 1 .. 2 * n |-> D[i]]
        BY <1>2 DEF D, Deltas, n
      <3>2. QED
        BY <2>1, <3>1
    <2>3. 2 * n \in Nat
      BY <1>1
    <2>4. QED
      BY <2>2, <2>3, SeqDef
  <1>6. QED
    BY <1>1, <1>2, <1>3, <1>4, <1>5 DEF n, D

\* The columns that are ready leave the queue, the others stay in it.
LEMMA QueueIsDrained ==
  ASSUME ServerTypes, Route
  PROVE  \E ready \in Seq(Columns) :
           /\ outbox' = [i \in DOMAIN ready |-> ChunkData(ready[i])]
                          \o Deltas(Kept(fresh, {i \in DOMAIN fresh : Wanted(fresh[i].col)}))
           /\ \A i, j \in DOMAIN ready : ready[i] = ready[j] => i = j
           /\ pending' \in Seq(Columns)
           /\ \A i, j \in DOMAIN pending' : pending'[i] = pending'[j] => i = j
           /\ PacketsOf(pending) = PacketsOf(pending') \union PacketsOf(ready)
           /\ PacketsOf(pending') \intersect PacketsOf(ready) = {}
           /\ demanded' \subseteq Columns
  <1> DEFINE k == Inspected
             n == Len(pending)
             looked == SubSeq(pending, 1, k)
             rest == SubSeq(pending, k + 1, n)
             I == PlacesIn(looked, resident)
             J == DOMAIN looked \ I
             ready == Kept(looked, I)
             again == Kept(looked, J)
  <1>1. /\ pending' = rest \o again
        /\ outbox' = [i \in DOMAIN ready |-> ChunkData(ready[i])]
                       \o Deltas(Kept(fresh, {i \in DOMAIN fresh : Wanted(fresh[i].col)}))
        /\ demanded' = demanded \union ({looked[i] : i \in DOMAIN looked} \ resident)
    BY DEF Route, Requeued
  <1>2. /\ n \in Nat /\ DOMAIN pending = 1 .. n /\ \A i \in 1 .. n : pending[i] \in Columns
        /\ k \in Nat /\ k <= n
        /\ \A i, j \in 1 .. n : pending[i] = pending[j] => i = j
    BY InspectedIsPlace, LenProperties, ElementOfSeq DEF ServerTypes
  <1>3. I \in SUBSET DOMAIN looked /\ J \in SUBSET DOMAIN looked
    BY DEF PlacesIn
  <1> HIDE DEF k, n, I
  <1>4. /\ looked \in Seq(Columns) /\ DOMAIN looked = 1 .. k
        /\ \A i \in 1 .. k : looked[i] = pending[i]
    <2>1. \A i \in 1 .. k : pending[i] \in Columns
      BY <1>2
    <2>2. /\ looked \in Seq(Columns) /\ Len(looked) = IF 1 <= k THEN k - 1 + 1 ELSE 0
          /\ \A i \in 1 .. k - 1 + 1 : looked[i] = pending[1 + i - 1]
      <3>1. 1 \in Int /\ k \in Int
        BY <1>2
      <3>2. QED
        BY <2>1, <3>1, SubSeqProperties
    <2> HIDE DEF looked
    <2>3. Len(looked) = k
      BY <1>2, <2>2
    <2>4. \A i \in 1 .. k : looked[i] = pending[i]
      BY <1>2, <2>2
    <2>5. QED
      BY <2>2, <2>3, <2>4, LenProperties
  <1>5. /\ rest \in Seq(Columns) /\ DOMAIN rest = 1 .. n - k
        /\ \A i \in 1 .. n - k : rest[i] = pending[k + i] /\ k + i \in 1 .. n
    <2>1. \A i \in k + 1 .. n : pending[i] \in Columns
      BY <1>2
    <2>2. /\ rest \in Seq(Columns) /\ Len(rest) = IF k + 1 <= n THEN n - (k + 1) + 1 ELSE 0
          /\ \A i \in 1 .. n - (k + 1) + 1 : rest[i] = pending[k + 1 + i - 1]
      <3>1. k + 1 \in Int /\ n \in Int
        BY <1>2
      <3>2. QED
        BY <2>1, <3>1, SubSeqProperties
    <2> HIDE DEF rest
    <2>3. Len(rest) = n - k
      BY <1>2, <2>2
    <2>4. \A i \in 1 .. n - k : rest[i] = pending[k + i] /\ k + i \in 1 .. n
      BY <1>2, <2>2
    <2>5. QED
      BY <2>2, <2>3, <2>4, LenProperties
  <1> HIDE DEF looked, rest
  <1>6. /\ ready \in Seq(Columns) /\ PacketsOf(ready) = {looked[i] : i \in I}
        /\ \A i, j \in DOMAIN ready : ready[i] = ready[j] => i = j
        /\ again \in Seq(Columns) /\ PacketsOf(again) = {looked[i] : i \in J}
        /\ \A i, j \in DOMAIN again : again[i] = again[j] => i = j
    <2>1. \A i, j \in DOMAIN looked : looked[i] = looked[j] => i = j
      BY <1>2, <1>4
    <2>5. looked \in Seq(Columns) /\ I \in SUBSET DOMAIN looked /\ J \in SUBSET DOMAIN looked
      BY <1>3, <1>4
    <2> HIDE DEF J
    <2>2. /\ ready \in Seq(Columns) /\ PacketsOf(ready) = {looked[i] : i \in I}
          /\ \A i, j \in DOMAIN ready : ready[i] = ready[j] => i = j
      BY <2>1, <2>5, KeptAreDistinct
    <2>3. /\ again \in Seq(Columns) /\ PacketsOf(again) = {looked[i] : i \in J}
          /\ \A i, j \in DOMAIN again : again[i] = again[j] => i = j
      BY <2>1, <2>5, KeptAreDistinct
    <2>4. QED
      BY <2>2, <2>3
  <1> HIDE DEF ready, again
  <1>7. \A i, j \in DOMAIN rest : rest[i] = rest[j] => i = j
    <2> SUFFICES ASSUME NEW i \in 1 .. n - k, NEW j \in 1 .. n - k, rest[i] = rest[j] PROVE i = j
      BY <1>5
    <2>1. k + i = k + j
      BY <1>2, <1>5
    <2>2. QED
      BY <1>2, <2>1
  <1>8. /\ PacketsOf(rest) \intersect PacketsOf(again) = {}
        /\ PacketsOf(rest) \intersect PacketsOf(ready) = {}
        /\ PacketsOf(again) \intersect PacketsOf(ready) = {}
    <2>1. ASSUME NEW i \in 1 .. n - k, NEW j \in 1 .. k PROVE rest[i] # looked[j]
      <3>1. rest[i] = pending[k + i] /\ looked[j] = pending[j] /\ k + i \in 1 .. n /\ j \in 1 .. n
        BY <1>2, <1>4, <1>5
      <3>2. k + i # j
        BY <1>2
      <3>3. QED
        BY <1>2, <3>1, <3>2
    <2>2. PacketsOf(rest) = {rest[i] : i \in 1 .. n - k}
      BY <1>5 DEF PacketsOf
    <2>3. \A j \in I \union J : j \in 1 .. k
      BY <1>3, <1>4
    <2>4. ASSUME NEW i \in I, NEW j \in J PROVE looked[i] # looked[j]
      <3>1. i # j /\ i \in 1 .. k /\ j \in 1 .. k
        BY <2>3
      <3>2. QED
        BY <1>2, <1>4, <3>1
    <2> HIDE DEF J
    <2>5. QED
      BY <1>6, <2>1, <2>2, <2>3, <2>4
  <1>9. PacketsOf(pending) = PacketsOf(rest) \union PacketsOf(again) \union PacketsOf(ready)
    <2>1. ASSUME NEW i \in 1 .. n
          PROVE  pending[i] \in PacketsOf(rest) \union PacketsOf(again) \union PacketsOf(ready)
      <3>1. CASE i <= k
        <4>1. i \in I \union J /\ looked[i] = pending[i]
          BY <1>2, <1>4, <3>1
        <4>2. QED
          BY <1>6, <4>1
      <3>2. CASE ~(i <= k)
        <4>1. i - k \in 1 .. n - k /\ k + (i - k) = i
          BY <1>2, <3>2
        <4>2. i - k \in DOMAIN rest /\ rest[i - k] = pending[i]
          BY <1>5, <4>1
        <4>3. QED
          BY <4>2 DEF PacketsOf
      <3>3. QED
        BY <3>1, <3>2
    <2>2. ASSUME NEW i \in 1 .. n - k PROVE rest[i] \in PacketsOf(pending)
      BY <1>2, <1>5 DEF PacketsOf
    <2>3. ASSUME NEW i \in I \union J PROVE looked[i] \in PacketsOf(pending)
      <3>1. i \in 1 .. n /\ looked[i] = pending[i]
        BY <1>2, <1>3, <1>4
      <3>2. QED
        BY <1>2, <3>1 DEF PacketsOf
    <2>4. PacketsOf(rest) = {rest[i] : i \in 1 .. n - k} /\ PacketsOf(pending) = {pending[i] : i \in 1 .. n}
      BY <1>2, <1>5 DEF PacketsOf
    <2> HIDE DEF J
    <2>5. PacketsOf(pending) \subseteq PacketsOf(rest) \union PacketsOf(again) \union PacketsOf(ready)
      BY <2>1, <2>4
    <2>6. PacketsOf(rest) \union PacketsOf(again) \union PacketsOf(ready) \subseteq PacketsOf(pending)
      BY <1>6, <2>2, <2>3, <2>4
    <2>7. QED
      BY <2>5, <2>6
  <1>10. /\ pending' \in Seq(Columns) /\ PacketsOf(pending') = PacketsOf(rest) \union PacketsOf(again)
         /\ \A i, j \in DOMAIN pending' : pending'[i] = pending'[j] => i = j
    <2>1. rest \o again \in Seq(Columns)
      BY <1>5, <1>6, ConcatProperties
    <2>2. /\ PacketsOf(rest \o again) = PacketsOf(rest) \union PacketsOf(again)
          /\ \A i, j \in DOMAIN (rest \o again) : (rest \o again)[i] = (rest \o again)[j] => i = j
      BY <1>5, <1>6, <1>7, <1>8, QueuesApart
    <2>3. QED
      BY <1>1, <2>1, <2>2
  <1>11. demanded' \subseteq Columns
    BY <1>1, <1>2, <1>4 DEF ServerTypes
  <1>12. /\ ready \in Seq(Columns)
         /\ outbox' = [i \in DOMAIN ready |-> ChunkData(ready[i])]
                          \o Deltas(Kept(fresh, {i \in DOMAIN fresh : Wanted(fresh[i].col)}))
         /\ \A i, j \in DOMAIN ready : ready[i] = ready[j] => i = j
         /\ PacketsOf(pending) = PacketsOf(pending') \union PacketsOf(ready)
         /\ PacketsOf(pending') \intersect PacketsOf(ready) = {}
    BY <1>1, <1>6, <1>8, <1>9, <1>10
  <1>13. QED
    BY <1>10, <1>11, <1>12

\* The packets of a tick, seen from column c: ready says which columns are sent.
Routed(ready, c) ==
  /\ \A i \in DOMAIN outbox' : Chunk(outbox'[i], c) =>
       i \in DOMAIN ready /\ ready[i] = c /\ outbox'[i] = ChunkData(c)
  /\ \A i \in DOMAIN outbox' : Change(outbox'[i], c) =>
       Wanted(c) /\ outbox'[i].rev \in FreshOf(c)
  /\ \A i, j \in DOMAIN outbox' : i < j /\ Change(outbox'[i], c) /\ Change(outbox'[j], c) =>
       Rank(outbox'[i]) < Rank(outbox'[j])
  /\ Wanted(c) => \A x \in FreshOf(c) : \E i \in DOMAIN outbox' :
       Block(outbox'[i], c) /\ outbox'[i].rev = x
  /\ \A i \in DOMAIN ready : i \in DOMAIN outbox' /\ outbox'[i] = ChunkData(ready[i])

LEMMA OutboxIsFilled ==
  ASSUME ServerTypes, NEW ready \in Seq(Columns),
         \A c \in Columns : InOrder(c) /\ ChunkData(c) \in ChunkPacket,
         outbox' = [i \in DOMAIN ready |-> ChunkData(ready[i])]
                     \o Deltas(Kept(fresh, {i \in DOMAIN fresh : Wanted(fresh[i].col)}))
  PROVE  /\ outbox' \in Seq(AnyPacket) /\ NoMoves(outbox')
         /\ \A c \in Columns : Routed(ready, c)
  <1> DEFINE Ms == [col : Columns, rev : Nat]
             J == {i \in DOMAIN fresh : Wanted(fresh[i].col)}
             ms == Kept(fresh, J)
             chunks == [i \in DOMAIN ready |-> ChunkData(ready[i])]
             D == Deltas(ms)
             n == Len(ready)
             out4 == chunks \o D
  <1>1. fresh \in Seq(Ms) /\ J \in SUBSET DOMAIN fresh /\ DOMAIN fresh \subseteq Nat
    BY LenProperties DEF ServerTypes
  <1>2. /\ ms \in Seq(Ms)
        /\ \A k \in DOMAIN ms : Place(J, k) \in J /\ ms[k] = fresh[Place(J, k)]
        /\ \A k, l \in DOMAIN ms : k < l => Place(J, k) < Place(J, l)
        /\ \A i \in J : \E k \in DOMAIN ms : Place(J, k) = i
    <2> HIDE DEF J, Ms
    <2>1. ms \in Seq(Ms)
      BY <1>1, KeptIsPart
    <2>2. \A k \in DOMAIN ms : Place(J, k) \in J /\ ms[k] = fresh[Place(J, k)]
      BY <1>1, KeptIsPart
    <2>3. \A k, l \in DOMAIN ms : k < l => Place(J, k) < Place(J, l)
      BY <1>1, KeptIsPart
    <2>4. \A i \in J : \E k \in DOMAIN ms : Place(J, k) = i
      BY <1>1, KeptCovers
    <2>5. QED
      BY <2>1, <2>2, <2>3, <2>4
  <1>3. /\ n \in Nat /\ DOMAIN ready = 1 .. n /\ DOMAIN chunks = 1 .. n
        /\ \A i \in 1 .. n : ready[i] \in Columns /\ chunks[i] = ChunkData(ready[i])
        /\ chunks \in Seq(AnyPacket)
    <2>1. n \in Nat /\ DOMAIN ready = 1 .. n /\ \A i \in 1 .. n : ready[i] \in Columns
      BY LenProperties, ElementOfSeq
    <2>2. chunks \in [1 .. n -> AnyPacket]
      BY <2>1 DEF AnyPacket
    <2>3. chunks \in Seq(AnyPacket)
      <3> HIDE DEF chunks, n
      <3>1. QED
        BY <2>1, <2>2, SeqDef
    <2>4. QED
      BY <2>1, <2>3
  <1>4. /\ D \in Seq(AnyPacket)
        /\ DOMAIN D = 1 .. 2 * Len(ms) /\ DOMAIN ms = 1 .. Len(ms) /\ Len(ms) \in Nat
        /\ \A i \in DOMAIN D : \E j \in DOMAIN ms :
              \/ i = 2 * j - 1 /\ D[i] = BlockChange(ms[j])
              \/ i = 2 * j /\ D[i] = BlockEntityDelta(ms[j])
        /\ \A j \in DOMAIN ms : 2 * j - 1 \in DOMAIN D /\ D[2 * j - 1] = BlockChange(ms[j])
    <2> HIDE DEF ms
    <2>1. QED
      BY <1>2, DeltasOfMutations
  <1>5. outbox' = out4
    OBVIOUS
  <1> HIDE DEF ms, D, chunks
  <1>6. Len(chunks) = n
    BY <1>3, LenProperties
  <1>7. /\ out4 \in Seq(AnyPacket)
        /\ DOMAIN out4 = 1 .. n + Len(D)
        /\ DOMAIN D = 1 .. Len(D) /\ Len(D) \in Nat
        /\ \A i \in 1 .. n : out4[i] = ChunkData(ready[i])
        /\ \A i \in 1 .. Len(D) : out4[n + i] = D[i]
        /\ \A i \in DOMAIN out4 : i \in 1 .. n \/ (i - n \in DOMAIN D /\ out4[i] = D[i - n])
    <2> DEFINE l == Len(chunks)
    <2>1. /\ out4 \in Seq(AnyPacket) /\ Len(D) \in Nat
          /\ DOMAIN D = 1 .. Len(D) /\ DOMAIN chunks = 1 .. l
          /\ DOMAIN out4 = 1 .. l + Len(D)
          /\ \A i \in 1 .. l : out4[i] = chunks[i]
          /\ \A i \in 1 .. Len(D) : out4[l + i] = D[i]
          /\ \A i \in DOMAIN out4 :
               i \in DOMAIN chunks \/ (i - l \in DOMAIN D /\ out4[i] = D[i - l])
      BY <1>3, <1>4, QueuesJoined
    <2> HIDE DEF l, out4
    <2>2. l = n
      BY <1>6 DEF l
    <2>3. QED
      BY <1>3, <2>1, <2>2
  <1> HIDE DEF out4, n
  <1>8. /\ \A i \in DOMAIN ms : i \in Nat /\ ms[i] \in Ms /\ ms[i].rev \in Nat
        /\ \A i \in DOMAIN out4 : i \in Nat
        /\ n \in Nat
    <2>1. \A i \in DOMAIN ms : i \in Nat /\ ms[i] \in Ms
      <3>1. ms \in Seq(Ms)
        BY <1>2
      <3> HIDE DEF Ms
      <3>2. QED
        BY <3>1, LenProperties, ElementOfSeq
    <2>2. \A i \in DOMAIN out4 : i \in Nat
      BY <1>7, LenProperties
    <2>3. QED
      BY <1>3, <2>1, <2>2
  <1>9. \A i \in 1 .. n : out4[i].kind = "chunk" /\ out4[i].col = ready[i]
    BY <1>3, <1>7 DEF ChunkData
  <1>10. ASSUME NEW i \in DOMAIN out4, i \notin 1 .. n
         PROVE  \E j \in DOMAIN ms :
                  \/ i = n + 2 * j - 1 /\ out4[i] = BlockChange(ms[j])
                  \/ i = n + 2 * j /\ out4[i] = BlockEntityDelta(ms[j])
    <2>1. i - n \in DOMAIN D /\ out4[i] = D[i - n]
      BY <1>7, <1>10
    <2>2. PICK j \in DOMAIN ms :
              \/ i - n = 2 * j - 1 /\ D[i - n] = BlockChange(ms[j])
              \/ i - n = 2 * j /\ D[i - n] = BlockEntityDelta(ms[j])
      BY <1>4, <2>1
    <2>3. j \in Nat /\ i \in Nat /\ n \in Nat
      BY <1>8, <1>10
    <2>4. (i - n = 2 * j - 1 => i = n + 2 * j - 1) /\ (i - n = 2 * j => i = n + 2 * j)
      BY <2>3
    <2>5. QED
      BY <2>1, <2>2, <2>4
  <1>11. ASSUME NEW c \in Columns PROVE Routed(ready, c)
    <2>1. ASSUME NEW i \in DOMAIN out4, Change(out4[i], c)
           PROVE  \E j \in DOMAIN ms :
                    /\ ms[j].col = c /\ out4[i].rev = ms[j].rev
                    /\ \/ i = n + 2 * j - 1 /\ Rank(out4[i]) = 2 * ms[j].rev
                       \/ i = n + 2 * j /\ Rank(out4[i]) = 2 * ms[j].rev + 1
      <3>1. i \notin 1 .. n
        BY <1>9, <2>1 DEF Change
      <3>2. PICK j \in DOMAIN ms :
                    \/ i = n + 2 * j - 1 /\ out4[i] = BlockChange(ms[j])
                    \/ i = n + 2 * j /\ out4[i] = BlockEntityDelta(ms[j])
        BY <1>10, <3>1
      <3>3. CASE i = n + 2 * j - 1 /\ out4[i] = BlockChange(ms[j])
        BY <2>1, <3>3 DEF BlockChange, Rank, Change
      <3>4. CASE i = n + 2 * j /\ out4[i] = BlockEntityDelta(ms[j])
        BY <2>1, <3>4 DEF BlockEntityDelta, Rank, Change
      <3>5. QED
        BY <3>2, <3>3, <3>4
    <2>2. ASSUME NEW j \in DOMAIN ms, ms[j].col = c
           PROVE  Wanted(c) /\ ms[j].rev \in FreshOf(c)
      BY <1>2, <2>2 DEF FreshOf
    <2>3. ASSUME NEW i \in DOMAIN ms, NEW j \in DOMAIN ms, i < j, ms[i].col = c, ms[j].col = c
           PROVE  ms[i].rev < ms[j].rev
      <3>1. /\ Place(J, i) \in DOMAIN fresh /\ Place(J, j) \in DOMAIN fresh
            /\ Place(J, i) < Place(J, j)
            /\ ms[i] = fresh[Place(J, i)] /\ ms[j] = fresh[Place(J, j)]
        BY <1>2, <2>3
      <3>2. QED
        BY <2>3, <3>1 DEF InOrder
    <2>4. ASSUME NEW i \in DOMAIN out4, NEW j \in DOMAIN out4, i < j,
                  Change(out4[i], c), Change(out4[j], c)
           PROVE  Rank(out4[i]) < Rank(out4[j])
      <3>1. PICK k \in DOMAIN ms :
                    /\ ms[k].col = c
                    /\ \/ i = n + 2 * k - 1 /\ Rank(out4[i]) = 2 * ms[k].rev
                       \/ i = n + 2 * k /\ Rank(out4[i]) = 2 * ms[k].rev + 1
        BY <2>1, <2>4
      <3>2. PICK l \in DOMAIN ms :
                    /\ ms[l].col = c
                    /\ \/ j = n + 2 * l - 1 /\ Rank(out4[j]) = 2 * ms[l].rev
                       \/ j = n + 2 * l /\ Rank(out4[j]) = 2 * ms[l].rev + 1
        BY <2>1, <2>4
      <3>3. k \in Nat /\ l \in Nat /\ ms[k].rev \in Nat /\ ms[l].rev \in Nat
        BY <1>8
      <3>4. k < l \/ k = l
        BY <1>3, <2>4, <3>1, <3>2, <3>3
      <3>5. k < l => ms[k].rev < ms[l].rev
        BY <2>3, <3>1, <3>2
      <3>6. CASE k < l
        <4>1. ms[k].rev < ms[l].rev
          BY <3>5, <3>6
        <4>2. Rank(out4[i]) = 2 * ms[k].rev \/ Rank(out4[i]) = 2 * ms[k].rev + 1
          BY <3>1
        <4>3. Rank(out4[j]) = 2 * ms[l].rev \/ Rank(out4[j]) = 2 * ms[l].rev + 1
          BY <3>2
        <4>4. QED
          BY <3>3, <4>1, <4>2, <4>3
      <3>7. CASE k = l
        <4>1. i = n + 2 * k - 1 /\ j = n + 2 * k
          BY <1>3, <2>4, <3>1, <3>2, <3>3, <3>7
        <4>2. Rank(out4[i]) = 2 * ms[k].rev /\ Rank(out4[j]) = 2 * ms[k].rev + 1
          BY <1>3, <3>1, <3>2, <3>3, <3>7, <4>1
        <4>3. QED
          BY <3>3, <4>2
      <3>8. QED
        BY <3>4, <3>6, <3>7
    <2>5. ASSUME Wanted(c), NEW x \in FreshOf(c)
           PROVE  \E i \in DOMAIN out4 : Block(out4[i], c) /\ out4[i].rev = x
      <3>1. PICK f \in DOMAIN fresh : fresh[f].col = c /\ fresh[f].rev = x
        BY DEF FreshOf
      <3>2. PICK k \in DOMAIN ms : Place(J, k) = f
        BY <1>2, <2>5, <3>1
      <3>3. ms[k].col = c /\ ms[k].rev = x
        BY <1>2, <3>1, <3>2
      <3>4. 2 * k - 1 \in 1 .. Len(D) /\ D[2 * k - 1] = BlockChange(ms[k])
        BY <1>4, <1>7
      <3>5. n + (2 * k - 1) \in DOMAIN out4 /\ out4[n + (2 * k - 1)] = BlockChange(ms[k])
        BY <1>3, <1>7, <3>4
      <3>6. Block(BlockChange(ms[k]), c) /\ BlockChange(ms[k]).rev = x
        BY <3>3 DEF Block, BlockChange
      <3>7. QED
        BY <3>5, <3>6
    <2>6. ASSUME NEW i \in DOMAIN out4
           PROVE  Chunk(out4[i], c) => i \in DOMAIN ready /\ ready[i] = c /\ out4[i] = ChunkData(c)
      <3>1. CASE i \in 1 .. n
        BY <1>3, <1>7, <1>9, <3>1 DEF Chunk
      <3>2. CASE i \notin 1 .. n
        <4>1. \E m : out4[i] = BlockChange(m) \/ out4[i] = BlockEntityDelta(m)
          BY <1>10, <3>2
        <4>2. QED
          BY <4>1 DEF BlockChange, BlockEntityDelta, Chunk
      <3>3. QED
        BY <3>1, <3>2
    <2>7. \A i \in DOMAIN ready : i \in DOMAIN out4 /\ out4[i] = ChunkData(ready[i])
      BY <1>3, <1>7
    <2>8. \A i \in DOMAIN out4 : Change(out4[i], c) => Wanted(c) /\ out4[i].rev \in FreshOf(c)
      BY <2>1, <2>2
    <2>9. QED
      BY <1>5, <2>4, <2>5, <2>6, <2>7, <2>8 DEF Routed
  <1>12. ASSUME NEW i \in DOMAIN out4 PROVE ~Moves(out4[i])
    <2>1. CASE i \in 1 .. n
      BY <1>9, <2>1 DEF Moves
    <2>2. CASE i \notin 1 .. n
      <3>1. \E m : out4[i] = BlockChange(m) \/ out4[i] = BlockEntityDelta(m)
        BY <1>10, <2>2
      <3>2. QED
        BY <3>1 DEF BlockChange, BlockEntityDelta, Moves
    <2>3. QED
      BY <2>1, <2>2
  <1>13. QED
    BY <1>5, <1>7, <1>11, <1>12 DEF NoMoves

LEMMA ChunkIsCurrent ==
  ASSUME ServerTypes, NEW c \in Columns
  PROVE  /\ ChunkData(c) \in ChunkPacket /\ Chunk(ChunkData(c), c)
         /\ ChunkData(c).rev <= clock[c[1]] /\ ChunkData(c).blocks = content[c]
         /\ \A r \in content[c] : r <= ChunkData(c).rev
  <1> DEFINE S == content[c] \union {0}
             n == clock[c[1]]
  <1>1. S \in SUBSET Nat /\ S # {} /\ n \in Nat /\ \A r \in S : r <= n
    BY DEF ServerTypes, Columns
  <1>2. Newest(S) \in S /\ \A r \in S : r <= Newest(S)
    <2> HIDE DEF S, n
    <2>1. QED
      BY <1>1, NewestIsMember
  <1>3. ChunkData(c) = [kind |-> "chunk", col |-> c, rev |-> Newest(S), blocks |-> content[c]]
    BY DEF ChunkData, ChunkRevision
  <1>4. Newest(S) \in Nat /\ Newest(S) <= n
    <2> HIDE DEF S, n
    <2>1. QED
      BY <1>1, <1>2
  <1>5. content[c] \in SUBSET Nat
    BY DEF ServerTypes
  <1>6. ChunkData(c) \in ChunkPacket /\ Chunk(ChunkData(c), c)
    <2> HIDE DEF S
    <2>1. QED
      BY <1>3, <1>4, <1>5 DEF ChunkPacket, Chunk
  <1>7. \A r \in content[c] : r <= Newest(S)
    BY <1>2
  <1>8. QED
    <2> HIDE DEF S
    <2>1. QED
      BY <1>3, <1>4, <1>6, <1>7

\* The packets of a routed tick are queued behind nothing, and none leads elsewhere.
LEMMA TickIsRouted ==
  ASSUME Typed, \A c \in Columns : ColumnInv(c), Route
  PROVE  /\ outbox' \in Seq(AnyPacket) /\ NoMoves(outbox')
         /\ \E ready \in Seq(Columns) :
              /\ \A c \in Columns : Routed(ready, c)
              /\ \A i, j \in DOMAIN ready : ready[i] = ready[j] => i = j
              /\ pending' \in Seq(Columns)
              /\ \A i, j \in DOMAIN pending' : pending'[i] = pending'[j] => i = j
              /\ PacketsOf(pending) = PacketsOf(pending') \union PacketsOf(ready)
              /\ PacketsOf(pending') \intersect PacketsOf(ready) = {}
         /\ demanded' \subseteq Columns
         /\ Underway(Lanes) \subseteq Underway(Lanes')
         /\ \A i \in DOMAIN outbox' : outbox'[i] \in Underway(Lanes')
         /\ \A p \in Underway(Lanes') : p \in Underway(Lanes) \/ \E i \in DOMAIN outbox' : p = outbox'[i]
  <1>1. outbox = << >> /\ UNCHANGED networkVars
    BY DEF Route, InTick
  <1>2. ServerTypes
    BY DEF Typed
  <1>3. PICK ready \in Seq(Columns) :
           /\ outbox' = [i \in DOMAIN ready |-> ChunkData(ready[i])]
                          \o Deltas(Kept(fresh, {i \in DOMAIN fresh : Wanted(fresh[i].col)}))
           /\ \A i, j \in DOMAIN ready : ready[i] = ready[j] => i = j
           /\ pending' \in Seq(Columns)
           /\ \A i, j \in DOMAIN pending' : pending'[i] = pending'[j] => i = j
           /\ PacketsOf(pending) = PacketsOf(pending') \union PacketsOf(ready)
           /\ PacketsOf(pending') \intersect PacketsOf(ready) = {}
           /\ demanded' \subseteq Columns
    BY <1>2, QueueIsDrained
  <1>4. /\ outbox' \in Seq(AnyPacket) /\ NoMoves(outbox')
        /\ \A c \in Columns : Routed(ready, c)
    <2>1. \A c \in Columns : InOrder(c) /\ ChunkData(c) \in ChunkPacket
      BY <1>2, ChunkIsCurrent DEF ColumnInv
    <2>2. QED
      BY <1>2, <1>3, <2>1, OutboxIsFilled
  <1>5. DOMAIN << >> = {}
    OBVIOUS
  <1>6. \A k \in (1 .. 5) \ {4} : Lanes'[k] = Lanes[k]
    BY <1>1 DEF Lanes, networkVars
  <1>7. Lanes'[4] = outbox' /\ Lanes[4] = << >> /\ 4 \in 1 .. 5
    BY <1>1 DEF Lanes
  <1>8. /\ Underway(Lanes) \subseteq Underway(Lanes')
        /\ \A i \in DOMAIN outbox' : outbox'[i] \in Underway(Lanes')
        /\ \A p \in Underway(Lanes') : p \in Underway(Lanes) \/ \E i \in DOMAIN outbox' : p = outbox'[i]
    <2>1. Underway(Lanes) \subseteq Underway(Lanes')
      <3> SUFFICES ASSUME NEW p \in Underway(Lanes) PROVE p \in Underway(Lanes')
        OBVIOUS
      <3>1. PICK k \in 1 .. 5 : \E i \in DOMAIN Lanes[k] : Lanes[k][i] = p
        BY UnderwayMember
      <3>2. k # 4
        BY <1>5, <1>7, <3>1
      <3>3. QED
        BY <1>6, <3>1, <3>2, UnderwayMember
    <2>2. \A i \in DOMAIN outbox' : outbox'[i] \in Underway(Lanes')
      BY <1>7, UnderwayMember
    <2>3. ASSUME NEW p \in Underway(Lanes')
          PROVE  p \in Underway(Lanes) \/ \E i \in DOMAIN outbox' : p = outbox'[i]
      <3>1. PICK k \in 1 .. 5 : \E i \in DOMAIN Lanes'[k] : Lanes'[k][i] = p
        BY UnderwayMember
      <3>2. CASE k = 4
        BY <1>7, <3>1, <3>2
      <3>3. CASE k # 4
        BY <1>6, <3>1, <3>3, UnderwayMember
      <3>4. QED
        BY <3>2, <3>3
    <2>4. QED
      BY <2>1, <2>2, <2>3
  <1>9. QED
    BY <1>3, <1>4, <1>8

LEMMA Routing ==
  ASSUME Typed, \A c \in Columns : ColumnInv(c), Route
  PROVE  Typed' /\ \A c \in Columns : ColumnInv(c)'
  <1>1. /\ outbox = << >> /\ fresh' = << >>
        /\ UNCHANGED <<clock, content, resident, place, interest, networkVars, clientVars, visits>>
    BY DEF Route, InTick, history
  <1>2. ServerTypes /\ LaneTypes /\ ClientTypes
    BY DEF Typed
  <1>3. PICK ready \in Seq(Columns) :
           /\ \A c \in Columns : Routed(ready, c)
           /\ \A i, j \in DOMAIN ready : ready[i] = ready[j] => i = j
           /\ pending' \in Seq(Columns)
           /\ \A i, j \in DOMAIN pending' : pending'[i] = pending'[j] => i = j
           /\ PacketsOf(pending) = PacketsOf(pending') \union PacketsOf(ready)
           /\ PacketsOf(pending') \intersect PacketsOf(ready) = {}
    BY TickIsRouted
  <1>4. \A c \in Columns : Routed(ready, c)
    BY <1>3
  <1>5. /\ << >> \in Seq([col : Columns, rev : Nat]) /\ DOMAIN << >> = {}
    BY EmptySeq
  <1>6. \A k \in (1 .. 5) \ {4} : Lanes'[k] = Lanes[k]
    BY <1>1 DEF Lanes, networkVars
  <1>7. Lanes'[4] = outbox' /\ Lanes[4] = << >> /\ 4 \in 1 .. 5
    BY <1>1 DEF Lanes
  <1>8. Typed'
    <2>1. LaneTypes'
      BY <1>1, <1>2, TickIsRouted DEF LaneTypes, networkVars
    <2>2. ServerTypes'
      <3>1. demanded' \subseteq Columns
        BY TickIsRouted
      <3>2. QED
        BY <1>1, <1>2, <1>3, <1>5, <3>1 DEF ServerTypes
    <2>3. ClientTypes'
      BY <1>1, <1>2 DEF ClientTypes, clientVars
    <2>4. QED
      BY <2>1, <2>2, <2>3 DEF Typed
  <1>9. /\ Underway(Lanes) \subseteq Underway(Lanes')
        /\ \A i \in DOMAIN outbox' : outbox'[i] \in Underway(Lanes')
        /\ \A p \in Underway(Lanes') : p \in Underway(Lanes) \/ \E i \in DOMAIN outbox' : p = outbox'[i]
    BY TickIsRouted
  <1>10. ASSUME NEW c \in Columns PROVE ColumnInv(c)'
    <2> DEFINE new == IF Wanted(c) THEN FreshOf(c) ELSE {}
    <2>1. UNCHANGED <<clock, content, place, interest, visits, applied, buffered, shown, where>>
      BY <1>1 DEF clientVars
    <2>2. /\ \A i \in DOMAIN outbox' : Chunk(outbox'[i], c) =>
               i \in DOMAIN ready /\ ready[i] = c /\ outbox'[i] = ChunkData(c)
          /\ \A i \in DOMAIN outbox' : Change(outbox'[i], c) => outbox'[i].rev \in new
          /\ \A i, j \in DOMAIN outbox' : i < j /\ Change(outbox'[i], c) /\ Change(outbox'[j], c) =>
               Rank(outbox'[i]) < Rank(outbox'[j])
          /\ \A x \in new : \E i \in DOMAIN outbox' : Block(outbox'[i], c) /\ outbox'[i].rev = x
      BY <1>4 DEF Routed
    <2>3. new \subseteq FreshOf(c) /\ (Wanted(c) => new = FreshOf(c))
      OBVIOUS
    <2> HIDE DEF new
    <2>4. Sent(Lanes', c) = Sent(Lanes, c) \union new
      <3>1. Sent(Lanes', c) \subseteq Sent(Lanes, c) \union new
        BY <1>9, <2>2 DEF Sent, Block, Change
      <3>2. Sent(Lanes, c) \subseteq Sent(Lanes', c)
        BY <1>9 DEF Sent
      <3>3. new \subseteq Sent(Lanes', c)
        BY <1>9, <2>2 DEF Sent
      <3>4. QED
        BY <3>1, <3>2, <3>3
    <2>5. /\ Known(c)' = Known(c) \union new /\ FreshOf(c)' = {} /\ Wanted(c)' = Wanted(c)
      <3>1. FreshOf(c)' = {}
        BY <1>1, <1>5 DEF FreshOf
      <3>2. QED
        BY <2>1, <2>4, <3>1 DEF Known, Wanted
    <2>6. NoChunk(Lanes, c) \/ ~\E i \in DOMAIN ready : ready[i] = c
      <3>1. (\E i \in DOMAIN ready : ready[i] = c) => c \in PacketsOf(pending)
        BY <1>3 DEF PacketsOf
      <3>2. QED
        BY <3>1 DEF ColumnInv, Once
    <2>7. c \notin PacketsOf(ready) /\ NoChunk(Lanes, c) => NoChunk(Lanes', c)
      BY <1>9, <2>2 DEF NoChunk, PacketsOf
    <2>8. \A i \in DOMAIN outbox' : i \in Nat /\ outbox'[i] \in AnyPacket
      BY TickIsRouted, LenProperties, ElementOfSeq
    <2>9. InOrder(c)'
      <3>1. Ascending(Lanes', c)
        <4> SUFFICES ASSUME NEW k \in 1 .. 5, NEW l \in 1 .. 5,
                            NEW i \in DOMAIN Lanes'[k], NEW j \in DOMAIN Lanes'[l],
                            Ahead(k, i, l, j), Change(Lanes'[k][i], c), Change(Lanes'[l][j], c)
                     PROVE  Rank(Lanes'[k][i]) < Rank(Lanes'[l][j])
          BY DEF Ascending
        <4>1. CASE k # 4 /\ l # 4
          <5>1. Lanes'[k] = Lanes[k] /\ Lanes'[l] = Lanes[l]
            BY <1>6, <4>1
          <5>2. QED
            BY <5>1 DEF ColumnInv, InOrder, Ascending
        <4>2. CASE k = 4 /\ l = 4
          BY <1>7, <2>2, <4>2 DEF Ahead
        <4>3. CASE k # 4 /\ l = 4
          <5>1. Lanes[k][i] = Lanes'[k][i] /\ i \in DOMAIN Lanes[k]
            BY <1>6, <4>3
          <5>2. Lanes[k][i] \in Underway(Lanes)
            BY <5>1, UnderwayMember
          <5>3. Lanes'[l][j].rev \in FreshOf(c) /\ Lanes'[l][j] \in AnyPacket
            BY <1>7, <2>2, <2>3, <2>8, <4>3
          <5>4. Lanes[k][i].rev < Lanes'[l][j].rev
            BY <5>1, <5>2, <5>3 DEF ColumnInv, InOrder
          <5>5. Lanes[k][i].rev \in Nat /\ Lanes'[l][j].rev \in Nat
            BY <5>1, <5>2, <5>3, UnderwayIsTyped, RevisionIsNumber
          <5>6. /\ Rank(Lanes[k][i]) <= 2 * Lanes[k][i].rev + 1
                /\ 2 * Lanes'[l][j].rev <= Rank(Lanes'[l][j])
            BY <5>5, RankIs
          <5>7. Rank(Lanes[k][i]) \in Nat /\ Rank(Lanes'[l][j]) \in Nat
            BY <5>5, RankIs
          <5>8. QED
            BY <5>1, <5>4, <5>5, <5>6, <5>7
        <4>4. CASE k = 4 /\ l # 4
          <5>1. l = 5
            BY <4>4 DEF Ahead
          <5>2. Lanes'[l] = mailbox
            BY <1>6, <5>1 DEF Lanes
          <5>3. mailbox[j] \in ChunkPacket
            BY <1>2, <5>2, LenProperties, ElementOfSeq DEF LaneTypes
          <5>4. QED
            BY <5>2, <5>3 DEF ChunkPacket, Change
        <4>5. QED
          BY <4>1, <4>2, <4>3, <4>4
      <3>2. \A x \in buffered[c], r \in Sent(Lanes', c) : x < r
        BY <2>3, <2>4 DEF ColumnInv, InOrder
      <3>3. DOMAIN fresh' = {}
        BY <1>1, <1>5
      <3>4. QED
        BY <2>1, <2>5, <3>1, <3>2, <3>3 DEF InOrder
    <2>10. Genuine(c)'
      <3>1. Known(c)' \union FreshOf(c)' \subseteq content[c]
        BY <2>3, <2>5 DEF ColumnInv, Genuine
      <3>2. \A p \in Underway(Lanes') : Chunk(p, c) =>
              p.rev <= clock[c[1]] /\ p.blocks = {r \in content[c] : r <= p.rev}
        <4>1. \A p \in Underway(Lanes') : Chunk(p, c) => p \in Underway(Lanes) \/ p = ChunkData(c)
          BY <1>9, <2>2
        <4>2. /\ ChunkData(c).rev <= clock[c[1]] /\ ChunkData(c).blocks = content[c]
              /\ \A r \in content[c] : r <= ChunkData(c).rev
          BY <1>2, ChunkIsCurrent
        <4>3. QED
          BY <4>1, <4>2 DEF ColumnInv, Genuine
      <3>3. \A p \in Underway(Lanes') : p.kind = "entity" /\ p.col = c =>
              p.rev \in Known(c)' \/ (applied[c] # Unseen /\ p.rev <= applied[c])
        <4> SUFFICES ASSUME NEW p \in Underway(Lanes'), p.kind = "entity" /\ p.col = c
                     PROVE  p.rev \in Known(c)' \/ (applied[c] # Unseen /\ p.rev <= applied[c])
          OBVIOUS
        <4>1. CASE p \in Underway(Lanes)
          BY <2>5, <4>1 DEF ColumnInv, Genuine
        <4>2. CASE \E i \in DOMAIN outbox' : p = outbox'[i]
          BY <2>2, <2>5, <4>2 DEF Change
        <4>3. QED
          BY <1>9, <4>1, <4>2
      <3>4. applied[c] # Unseen => applied[c] <= clock[c[1]]
        BY DEF ColumnInv, Genuine
      <3>5. QED
        BY <2>1, <3>1, <3>2, <3>3, <3>4 DEF Genuine
    <2>11. Once(c)'
      <3>1. OneChunk(Lanes', c)
        <4> SUFFICES ASSUME NEW k \in 1 .. 5, NEW l \in 1 .. 5,
                            NEW i \in DOMAIN Lanes'[k], NEW j \in DOMAIN Lanes'[l],
                            Chunk(Lanes'[k][i], c), Chunk(Lanes'[l][j], c)
                     PROVE  k = l /\ i = j
          BY DEF OneChunk
        <4>1. CASE k # 4 /\ l # 4
          <5>1. Lanes'[k] = Lanes[k] /\ Lanes'[l] = Lanes[l]
            BY <1>6, <4>1
          <5>2. QED
            BY <5>1 DEF ColumnInv, Once, OneChunk
        <4>2. CASE k = 4 /\ l = 4
          <5>1. /\ i \in DOMAIN outbox' /\ Chunk(outbox'[i], c)
                /\ j \in DOMAIN outbox' /\ Chunk(outbox'[j], c)
            BY <1>7, <4>2
          <5>2. i \in DOMAIN ready /\ ready[i] = c /\ j \in DOMAIN ready /\ ready[j] = c
            BY <2>2, <5>1
          <5>3. QED
            BY <1>3, <4>2, <5>2
        <4>3. ASSUME NEW u \in 1 .. 5, u # 4, NEW a \in DOMAIN Lanes'[u], Chunk(Lanes'[u][a], c)
              PROVE  ~NoChunk(Lanes, c)
          <5>1. Lanes'[u] = Lanes[u]
            BY <1>6, <4>3
          <5>2. Lanes[u][a] \in Underway(Lanes)
            BY <4>3, <5>1, UnderwayMember
          <5>3. QED
            BY <4>3, <5>1, <5>2 DEF NoChunk
        <4>4. (k = 4 \/ l = 4) => \E a \in DOMAIN ready : ready[a] = c
          BY <1>7, <2>2
        <4>5. QED
          BY <2>6, <4>1, <4>2, <4>3, <4>4
      <3>2. c \in PacketsOf(pending') => c \in PacketsOf(pending) /\ c \notin PacketsOf(ready)
        BY <1>3
      <3>3. c \in PacketsOf(ready) => c \in PacketsOf(pending)
        BY <1>3
      <3>4. c \in PacketsOf(pending) => visits[c] = 1 /\ visits[c] # 0 /\ applied[c] = Unseen
        BY DEF ColumnInv, Once
      <3>5. c \in PacketsOf(pending') \/ visits[c] = 0 => applied[c] = Unseen /\ NoChunk(Lanes', c)
        BY <2>7, <3>2, <3>3, <3>4 DEF ColumnInv, Once
      <3>6. applied[c] # Unseen => NoChunk(Lanes', c)
        BY <2>7, <3>3, <3>4 DEF ColumnInv, Once
      <3>7. QED
        BY <2>1, <3>1, <3>2, <3>4, <3>5, <3>6 DEF ColumnInv, Once
    <2>12. NoGap(c)'
      <3> SUFFICES ASSUME NEW b \in Bases(c)'
                   PROVE  /\ \A x \in Known(c)', r \in content[c] : b < r /\ r < x => r \in Known(c)'
                          /\ Wanted(c) => \A r \in content[c] : b < r => r \in Known(c)' \union FreshOf(c)'
        BY <2>1, <2>5 DEF NoGap
      <3>1. b \in Bases(c) \/ b = ChunkData(c).rev
        BY <1>9, <2>1, <2>2 DEF Bases
      <3>2. CASE b \in Bases(c)
        <4>1. /\ \A x \in Known(c), r \in content[c] : b < r /\ r < x => r \in Known(c)
              /\ Wanted(c) => \A r \in content[c] : b < r => r \in Known(c) \union FreshOf(c)
          BY <3>2 DEF ColumnInv, NoGap
        <4>2. \A x \in new : Wanted(c)
          BY DEF new
        <4>3. QED
          BY <2>3, <2>5, <4>1, <4>2
      <3>3. CASE b = ChunkData(c).rev
        <4>1. /\ b \in Nat /\ content[c] \in SUBSET Nat /\ \A r \in content[c] : r <= b
          BY <1>2, <3>3, ChunkIsCurrent DEF ChunkPacket, ServerTypes
        <4>2. \A r \in content[c] : ~(b < r)
          BY <4>1
        <4>3. QED
          BY <4>2
      <3>4. QED
        BY <3>1, <3>2, <3>3
    <2>13. QED
      BY <2>9, <2>10, <2>11, <2>12 DEF ColumnInv
  <1>11. QED
    BY <1>8, <1>10

-----------------------------------------------------------------------------
(* The invariant.                                                            *)

LEMMA QuietUntilDisturbed ==
  ASSUME Visited, [Next]_vars
  PROVE  Visited' /\ (Undisturbed' => Undisturbed)
  <1>1. CASE UNCHANGED <<visits, hostFull>>
    BY <1>1 DEF Visited, Undisturbed
  <1>2. CASE \E d, p, queued : RefreshInterest(d, p, queued) /\ (UNCHANGED hostFull \/ hostFull' = TRUE)
    <2>1. PICK d, p, queued : /\ RefreshInterest(d, p, queued)
                              /\ UNCHANGED hostFull \/ hostFull' = TRUE
      BY <1>2
    <2> DEFINE Again(c) ==
          c \in ({d} \X (View[p] \ interest))
                  \union {r \in {d} \X View[p] : ~Wanted(r) /\ visits[r] = 1}
    <2>2. visits' = [c \in Columns |->
                       IF Again(c) /\ visits[c] < 2 THEN visits[c] + 1 ELSE visits[c]]
      BY <2>1 DEF RefreshInterest
    <2> HIDE DEF Again
    <2>3. visits' \in [Columns -> Nat] /\ \A c \in Columns : visits[c] <= visits'[c] /\ visits[c] \in Nat
      BY <2>2 DEF Visited
    <2>4. (\A c \in Columns : visits'[c] <= 1) => \A c \in Columns : visits[c] <= 1
      <3>1. ASSUME NEW c \in Columns, visits'[c] <= 1 PROVE visits[c] <= 1
        BY <2>3, <3>1
      <3>2. QED
        BY <3>1
    <2>5. hostFull' \in BOOLEAN /\ (~hostFull' => ~hostFull)
      <3>1. CASE UNCHANGED hostFull
        BY <3>1 DEF Visited
      <3>2. CASE hostFull' = TRUE
        BY <3>2
      <3>3. QED
        BY <2>1, <3>1, <3>2
    <2>6. QED
      BY <2>3, <2>4, <2>5 DEF Visited, Undisturbed
  <1>3. CASE UNCHANGED visits /\ hostFull' = TRUE
    BY <1>3 DEF Visited, Undisturbed
  <1>4. CASE PoseArrives
    BY <1>2, <1>4 DEF PoseArrives
  <1>5. ASSUME NEW d \in Dimensions, NEW p \in Positions, Transfer(d, p)
        PROVE  Visited' /\ (Undisturbed' => Undisturbed)
    BY <1>2, <1>5 DEF Transfer, EnqueueHost
  <1>6. CASE Send
    BY <1>1, <1>3, <1>6 DEF Send, EnqueueHost
  <1>7. ASSUME NEW c \in Columns, Mutate(c) \/ Generate(c) PROVE UNCHANGED <<visits, hostFull>>
    BY <1>7 DEF Mutate, Generate, history
  <1>8. ASSUME Route \/ Network \/ Writer \/ Receive PROVE UNCHANGED <<visits, hostFull>>
    BY <1>8 DEF Route, Network, DeliverChunk, DeliverReliable, Writer, WriteReliable, ChooseCatchup,
                PopCatchup, Receive, history
  <1>9. ASSUME NEW p \in Positions, Move(p) PROVE UNCHANGED <<visits, hostFull>>
    BY <1>9 DEF Move, history
  <1>10. CASE UNCHANGED vars
    BY <1>1, <1>10 DEF vars, history
  <1>11. QED
    BY <1>1, <1>4, <1>5, <1>6, <1>7, <1>8, <1>9, <1>10 DEF Next, Tick

LEMMA GapFreeInit == Init => GapFreeInv
  <1> SUFFICES ASSUME Init PROVE GapFreeInv
    OBVIOUS
  <1>1. Joined /\ << >> \in Seq(AnyPacket) /\ DOMAIN << >> = {}
    BY EmptySeq DEF Init
  <1>2. View[Start] \subseteq Coords /\ IsFiniteSet(View[Start])
    BY ChunkReplicationAssumption
  <1> DEFINE S == {StartDimension} \X View[Start]
  <1>3. S \subseteq Columns /\ IsFiniteSet(S)
    <2>1. IsFiniteSet({StartDimension})
      BY FS_Singleton
    <2>2. IsFiniteSet(S)
      BY <1>2, <2>1, FS_Product
    <2>3. QED
      BY <1>2, <2>2, ChunkReplicationAssumption DEF Columns
  <1>4. pending \in Seq(Columns) /\ PacketsOf(pending) = S
        /\ \A i, j \in DOMAIN pending : pending[i] = pending[j] => i = j
    <2>1. pending \in Orders(S)
      BY <1>1 DEF Joined
    <2> HIDE DEF S
    <2>2. QED
      BY <1>3, <2>1, OrderOfSet
  <1>5. \A c \in Columns : Wanted(c) <=> c \in S
    <2>1. ASSUME NEW c \in Columns PROVE Wanted(c) <=> c \in S
      <3>1. c = <<c[1], c[2]>>
        BY DEF Columns
      <3>2. Wanted(c) <=> c[1] = StartDimension /\ c[2] \in View[Start]
        BY <1>1 DEF Joined, Wanted
      <3>3. QED
        BY <3>1, <3>2
    <2>2. QED
      BY <2>1
  <1>6. Lanes = << << >>, << >>, << >>, << >>, << >> >>
    BY <1>1 DEF Joined, Lanes
  <1>7. Underway(Lanes) = {}
    <2>1. \A k \in 1 .. 5 : DOMAIN Lanes[k] = {}
      BY <1>1, <1>6
    <2>2. \A p : p \notin Underway(Lanes)
      BY <2>1, UnderwayMember
    <2>3. QED
      BY <2>2
  <1>8. Visited
    BY <1>1 DEF Joined, Visited
  <1>9. Blank \in Presented /\ Absent(Blank)
    BY DEF Blank, Presented, Absent
  <1>10. Typed
    <2>1. LaneTypes
      <3>1. << >> \in Seq(ChunkPacket)
        BY EmptySeq
      <3>2. QED
        BY <1>1, <3>1 DEF Joined, LaneTypes
    <2>2. ServerTypes
      <3>1. << >> \in Seq([col : Columns, rev : Nat])
        BY EmptySeq
      <3>2. resident \subseteq Columns /\ demanded \subseteq Columns
        BY <1>1, ChunkReplicationAssumption DEF Joined, Columns
      <3>3. place \in Places /\ interest = View[place.pos]
        BY <1>1, ChunkReplicationAssumption DEF Joined, Places
      <3>4. clock \in [Dimensions -> Nat] /\ content \in [Columns -> SUBSET Nat]
        BY <1>1 DEF Joined
      <3>5. \A c \in Columns : content[c] = {}
        BY <1>1 DEF Joined
      <3>6. fresh \in Seq([col : Columns, rev : Nat])
        BY <1>1, <3>1 DEF Joined
      <3>7. QED
        BY <1>4, <3>2, <3>3, <3>4, <3>5, <3>6 DEF ServerTypes
    <2>3. ClientTypes
      <3>1. where \in Places
        BY <1>1, ChunkReplicationAssumption DEF Joined, Places
      <3>2. /\ applied \in [Columns -> Nat \union {Unseen}] /\ buffered \in [Columns -> SUBSET Nat]
        BY <1>1 DEF Joined
      <3>3. shown \in [Columns -> Presented]
        BY <1>1, <1>9 DEF Joined
      <3>4. QED
        BY <3>1, <3>2, <3>3 DEF ClientTypes
    <2>4. QED
      BY <2>1, <2>2, <2>3 DEF Typed
  <1>11. ASSUME NEW c \in Columns PROVE ColumnInv(c)
    <2>1. /\ fresh = << >> /\ applied[c] = Unseen /\ buffered[c] = {} /\ Absent(shown[c])
          /\ ~shown[c].resident
      BY <1>1, <1>9 DEF Joined, Absent
    <2>2. visits[c] = (IF Wanted(c) THEN 1 ELSE 0)
      BY <1>1 DEF Joined
    <2>3. Sent(Lanes, c) = {} /\ FreshOf(c) = {} /\ Known(c) = {} /\ Bases(c) = {} /\ NoChunk(Lanes, c)
      BY <1>1, <1>7, <2>1 DEF Sent, FreshOf, Known, Bases, NoChunk
    <2>4. \A k \in 1 .. 5 : DOMAIN Lanes[k] = {}
      BY <1>1, <1>6
    <2>5. InOrder(c)
      BY <1>1, <1>7, <2>1, <2>3, <2>4 DEF InOrder, Ascending
    <2>6. Genuine(c)
      BY <1>7, <2>1, <2>3 DEF Genuine
    <2>7. Once(c)
      <3>1. OneChunk(Lanes, c)
        BY <2>4 DEF OneChunk
      <3>2. c \in PacketsOf(pending) => visits[c] = 1
        BY <1>4, <1>5, <2>2
      <3>3. QED
        BY <2>1, <2>3, <3>1, <3>2 DEF Once
    <2>8. NoGap(c)
      BY <2>3 DEF NoGap
    <2>9. QED
      BY <2>5, <2>6, <2>7, <2>8 DEF ColumnInv
  <1>12. QED
    BY <1>8, <1>10, <1>11 DEF GapFreeInv

LEMMA GapFreeStep == GapFreeInv /\ [Next]_vars => GapFreeInv'
  <1> SUFFICES ASSUME GapFreeInv, [Next]_vars, Undisturbed'
               PROVE  Typed' /\ \A c \in Columns : ColumnInv(c)'
    BY QuietUntilDisturbed DEF GapFreeInv
  <1>1. Visited /\ Typed /\ \A c \in Columns : ColumnInv(c)
    BY QuietUntilDisturbed DEF GapFreeInv
  <1>2. ASSUME NEW c \in Columns, Mutate(c)
        PROVE  Typed' /\ \A d \in Columns : ColumnInv(d)'
    BY <1>1, <1>2, Mutating
  <1>3. ASSUME NEW c \in Columns, Generate(c)
        PROVE  Typed' /\ \A d \in Columns : ColumnInv(d)'
    BY <1>1, <1>3, Generating
  <1>4. CASE PoseArrives
    BY <1>1, <1>4, Refreshing
  <1>5. ASSUME NEW d \in Dimensions, NEW p \in Positions, Transfer(d, p)
        PROVE  Typed' /\ \A c \in Columns : ColumnInv(c)'
    BY <1>1, <1>5, Refreshing
  <1>6. CASE Route
    BY <1>1, <1>6, Routing
  <1>7. CASE Send
    BY <1>1, <1>7, Sending
  <1>8. CASE DeliverChunk
    BY <1>1, <1>8, DeliveringChunk
  <1>9. CASE DeliverReliable \/ WriteReliable
    BY <1>1, <1>9, Delivering
  <1>10. CASE ChooseCatchup \/ PopCatchup
    BY <1>1, <1>10, Catchup
  <1>11. CASE Receive
    BY <1>1, <1>11, Receiving
  <1>12. ASSUME NEW p \in Positions, Move(p)
         PROVE  Typed' /\ \A c \in Columns : ColumnInv(c)'
    BY <1>1, <1>12, Walking
  <1>13. CASE UNCHANGED vars
    <2>1. /\ UNCHANGED <<clock, content, resident, demanded, place, interest, pending, fresh,
                         wire, out, host, outbox, mailbox>>
          /\ UNCHANGED <<where, applied, buffered, shown, visits>>
      BY <1>13 DEF vars, serverVars, networkVars, clientVars, history
    <2>2. Lanes' = Lanes
      BY <2>1 DEF Lanes
    <2>3. Typed'
      BY <1>1, <2>1 DEF Typed, LaneTypes, ServerTypes, ClientTypes
    <2>4. \A c : UNCHANGED <<ColumnVars(c), shown[c], where.dim>> /\ BlocksStay(Lanes, Lanes', c)
      BY <2>1, <2>2 DEF ColumnVars, BlocksStay
    <2>5. QED
      BY <1>1, <2>2, <2>3, <2>4, Transported DEF ColumnInv, InOrder, Once
  <1>14. QED
    BY <1>2, <1>3, <1>4, <1>5, <1>6, <1>7, <1>8, <1>9, <1>10, <1>11, <1>12, <1>13
       DEF Next, Tick, Network, Writer

\* However a column and its changes overtake one another on their way through the mailbox
\* and the reliable queue, the revision gate of the client puts them together so that a
\* presented column shows every change up to its revision and none later.
THEOREM PresentedWithoutGaps == Spec => []GapFree
  <1>1. GapFreeInv => GapFree
    <2> SUFFICES ASSUME GapFreeInv, Undisturbed, NEW c \in Columns, shown[c].resident
                 PROVE  shown[c].blocks = {r \in content[c] : r <= shown[c].rev}
      BY DEF GapFree
    <2>1. Once(c)
      BY DEF GapFreeInv, ColumnInv
    <2>2. QED
      BY <2>1 DEF Once, Absent
  <1>2. QED
    BY <1>1, GapFreeInit, GapFreeStep, PTL DEF Spec

-----------------------------------------------------------------------------
(* Columns and transfers on their way.                                       *)

LEMMA AppendedMoves ==
  ASSUME NEW S, NEW s \in Seq(S), NEW x \in S, NEW c, NEW d
  PROVE  /\ NoMoves(Append(s, x)) <=> NoMoves(s) /\ ~Moves(x)
         /\ LastMove(Append(s, x), d) <=> IF Moves(x) THEN x.dim = d ELSE LastMove(s, d)
         /\ Trails(Append(s, x), c) <=> Trails(s, c) /\ (HasChunk(s, c) => ~Moves(x))
         /\ HasChunk(Append(s, x), c) <=> HasChunk(s, c) \/ Chunk(x, c)
  <1> DEFINE t == Append(s, x)
             n == Len(s) + 1
  <1>1. /\ n \in Nat /\ DOMAIN s \subseteq Nat /\ n \notin DOMAIN s /\ t[n] = x
        /\ DOMAIN t = DOMAIN s \union {n}
        /\ \A i \in DOMAIN s : t[i] = s[i] /\ i < n /\ ~(n < i)
    <2>1. /\ Len(s) \in Nat /\ DOMAIN s = 1 .. Len(s) /\ DOMAIN t = 1 .. Len(s) + 1
          /\ \A i \in 1 .. Len(s) : t[i] = s[i]
          /\ t[Len(s) + 1] = x
      BY QueueAppended
    <2> HIDE DEF t
    <2>2. QED
      BY <2>1
  <1> HIDE DEF t, n
  <1>2. NoMoves(t) <=> NoMoves(s) /\ ~Moves(x)
    BY <1>1 DEF NoMoves
  <1>3. \A i \in DOMAIN s : NoMovesAfter(t, i) <=> NoMovesAfter(s, i) /\ ~Moves(x)
    BY <1>1 DEF NoMovesAfter
  <1>4. NoMovesAfter(t, n)
    BY <1>1 DEF NoMovesAfter
  <1>5. LastMove(t, d) <=> IF Moves(x) THEN x.dim = d ELSE LastMove(s, d)
    BY <1>1, <1>3, <1>4 DEF LastMove
  <1>6. Trails(t, c) <=> Trails(s, c) /\ (HasChunk(s, c) => ~Moves(x))
    BY <1>1, <1>3, <1>4 DEF Trails, HasChunk
  <1>7. HasChunk(t, c) <=> HasChunk(s, c) \/ Chunk(x, c)
    BY <1>1 DEF HasChunk
  <1>8. QED
    BY <1>2, <1>5, <1>6, <1>7 DEF t

LEMMA TakenMoves ==
  ASSUME NEW S, NEW s \in Seq(S), s # << >>, NEW c, NEW d
  PROVE  /\ NoMoves(s) <=> ~Moves(Head(s)) /\ NoMoves(Tail(s))
         /\ LastMove(s, d) <=>
              LastMove(Tail(s), d) /\ (Moves(Head(s)) /\ NoMoves(Tail(s)) => Head(s).dim = d)
         /\ Trails(s, c) <=> Trails(Tail(s), c) /\ (Chunk(Head(s), c) => NoMoves(Tail(s)))
         /\ HasChunk(s, c) <=> Chunk(Head(s), c) \/ HasChunk(Tail(s), c)
  <1> DEFINE t == Tail(s)
             x == Head(s)
  <1>1. /\ x = s[1] /\ 1 \in DOMAIN s
        /\ \A i \in DOMAIN t : i \in Nat \ {0} /\ i + 1 \in DOMAIN s /\ t[i] = s[i + 1]
        /\ \A i \in DOMAIN s : i \in Nat \ {0} /\ (i # 1 => i - 1 \in DOMAIN t /\ t[i - 1] = s[i])
    <2>1. /\ x = s[1] /\ Len(s) \in Nat \ {0} /\ DOMAIN s = 1 .. Len(s)
          /\ DOMAIN t = 1 .. Len(s) - 1
          /\ \A i \in DOMAIN t : t[i] = s[i + 1]
      BY QueueTaken
    <2> HIDE DEF t, x
    <2>2. 1 \in DOMAIN s /\ \A i \in DOMAIN t : i \in Nat \ {0} /\ i + 1 \in DOMAIN s
      BY <2>1
    <2>3. ASSUME NEW i \in DOMAIN s
          PROVE  i \in Nat \ {0} /\ (i # 1 => i - 1 \in DOMAIN t /\ t[i - 1] = s[i])
      <3>1. i \in Nat \ {0}
        BY <2>1
      <3>2. i # 1 => i - 1 \in DOMAIN t /\ (i - 1) + 1 = i
        BY <2>1, <3>1
      <3>3. QED
        BY <2>1, <3>1, <3>2
    <2>4. QED
      BY <2>1, <2>2, <2>3
  <1> HIDE DEF t, x
  <1>2. NoMoves(s) <=> ~Moves(x) /\ NoMoves(t)
    <2>1. NoMoves(s) => ~Moves(x) /\ NoMoves(t)
      BY <1>1 DEF NoMoves
    <2>2. ~Moves(x) /\ NoMoves(t) => NoMoves(s)
      BY <1>1 DEF NoMoves
    <2>3. QED
      BY <2>1, <2>2
  <1>3. NoMovesAfter(s, 1) <=> NoMoves(t)
    <2>1. NoMovesAfter(s, 1) => NoMoves(t)
      BY <1>1 DEF NoMoves, NoMovesAfter
    <2>2. ASSUME NoMoves(t), NEW i \in DOMAIN s, 1 < i PROVE ~Moves(s[i])
      <3>1. i - 1 \in DOMAIN t /\ t[i - 1] = s[i]
        BY <1>1, <2>2
      <3>2. QED
        BY <2>2, <3>1 DEF NoMoves
    <2>3. QED
      BY <2>1, <2>2 DEF NoMovesAfter
  <1>4. ASSUME NEW k \in DOMAIN t
        PROVE  NoMovesAfter(t, k) <=> NoMovesAfter(s, k + 1)
    <2>1. ASSUME NoMovesAfter(s, k + 1), NEW i \in DOMAIN t, k < i PROVE ~Moves(t[i])
      <3>1. i + 1 \in DOMAIN s /\ t[i] = s[i + 1] /\ k + 1 < i + 1
        BY <1>1, <2>1
      <3>2. QED
        BY <2>1, <3>1 DEF NoMovesAfter
    <2>2. ASSUME NoMovesAfter(t, k), NEW i \in DOMAIN s, k + 1 < i PROVE ~Moves(s[i])
      <3>1. i - 1 \in DOMAIN t /\ t[i - 1] = s[i] /\ k < i - 1
        BY <1>1, <2>2
      <3>2. QED
        BY <2>2, <3>1 DEF NoMovesAfter
    <2>3. QED
      BY <2>1, <2>2 DEF NoMovesAfter
  <1>5. ASSUME NEW i \in DOMAIN s, i # 1
        PROVE  \E k \in DOMAIN t : t[k] = s[i] /\ i = k + 1
    BY <1>1, <1>5
  <1>6. LastMove(s, d) <=> LastMove(t, d) /\ (Moves(x) /\ NoMoves(t) => x.dim = d)
    <2>1. LastMove(s, d) => LastMove(t, d) /\ (Moves(x) /\ NoMoves(t) => x.dim = d)
      BY <1>1, <1>3, <1>4 DEF LastMove
    <2>2. ASSUME LastMove(t, d), Moves(x) /\ NoMoves(t) => x.dim = d,
                 NEW i \in DOMAIN s, Moves(s[i]), NoMovesAfter(s, i)
          PROVE  s[i].dim = d
      <3>1. CASE i = 1
        BY <1>1, <1>3, <2>2, <3>1
      <3>2. CASE i # 1
        BY <1>4, <1>5, <2>2, <3>2 DEF LastMove
      <3>3. QED
        BY <3>1, <3>2
    <2>3. QED
      BY <2>1, <2>2 DEF LastMove
  <1>7. Trails(s, c) <=> Trails(t, c) /\ (Chunk(x, c) => NoMoves(t))
    <2>1. Trails(s, c) => Trails(t, c) /\ (Chunk(x, c) => NoMoves(t))
      BY <1>1, <1>3, <1>4 DEF Trails
    <2>2. ASSUME Trails(t, c), Chunk(x, c) => NoMoves(t), NEW i \in DOMAIN s, Chunk(s[i], c)
          PROVE  NoMovesAfter(s, i)
      <3>1. CASE i = 1
        BY <1>1, <1>3, <2>2, <3>1
      <3>2. CASE i # 1
        BY <1>4, <1>5, <2>2, <3>2 DEF Trails
      <3>3. QED
        BY <3>1, <3>2
    <2>3. QED
      BY <2>1, <2>2 DEF Trails
  <1>8. HasChunk(s, c) <=> Chunk(x, c) \/ HasChunk(t, c)
    BY <1>1, <1>5 DEF HasChunk
  <1>9. QED
    BY <1>2, <1>6, <1>7, <1>8 DEF t, x

LEMMA ChunkIsNoMove ==
  ASSUME NEW p, NEW c, Chunk(p, c) \/ p.kind # "transfer"
  PROVE  ~Moves(p)
  BY DEF Chunk, Moves

LEMMA SendingSteadily ==
  ASSUME Typed, Undisturbed', Steady, Send
  PROVE  Steady'
  <1> DEFINE h == Head(outbox)
  <1>1. /\ outbox # << >> /\ outbox' = Tail(outbox) /\ host' = Append(host, h)
        /\ UNCHANGED <<place, interest, pending, mailbox, permit, out, writer, wire, clientVars,
                       visits, dropped>>
    BY DEF Send, EnqueueHost, Undisturbed
  <1>2. outbox \in Seq(AnyPacket) /\ host \in Seq(AnyPacket)
    BY DEF Typed, LaneTypes
  <1>3. h \in AnyPacket /\ ~Moves(h) /\ NoMoves(outbox')
    <2>1. h \in AnyPacket
      BY <1>1, <1>2, QueueTaken
    <2>2. NoMoves(outbox) => ~Moves(h) /\ NoMoves(Tail(outbox))
      BY <1>1, <1>2, TakenMoves
    <2>3. QED
      BY <1>1, <2>1, <2>2 DEF Steady, Heading
  <1> HIDE DEF h
  <1>4. \A c, d : /\ NoMoves(host') <=> NoMoves(host)
                  /\ LastMove(host', d) <=> LastMove(host, d)
                  /\ Trails(host', c) <=> Trails(host, c)
    BY <1>1, <1>2, <1>3, AppendedMoves
  <1>5. Underway(Lanes') = Underway(Lanes)
    <2>1. MovesHead(Lanes, Lanes', 4, 3)
      BY <1>1 DEF MovesHead, Lanes, h
    <2>2. QED
      BY <2>1, LanesAreTyped, LanesMoved DEF Typed
  <1>6. Heading'
    BY <1>1, <1>3, <1>4 DEF Steady, Heading, clientVars
  <1>7. WriterInv'
    BY <1>1 DEF Steady, WriterInv
  <1>8. ASSUME NEW c \in Columns PROVE InReach(c)'
    <2>1. InReach(c) /\ (NoChunk(Lanes', c) <=> NoChunk(Lanes, c)) /\ (Wanted(c)' <=> Wanted(c))
      BY <1>1, <1>5 DEF Steady, NoChunk, Wanted
    <2>2. QED
      BY <1>1, <1>4, <2>1 DEF InReach, clientVars
  <1>9. QED
    BY <1>6, <1>7, <1>8 DEF Steady

LEMMA DeliveringSteadily ==
  ASSUME Typed, Steady, DeliverReliable
  PROVE  Steady'
  <1> DEFINE h == Head(host)
  <1>1. /\ host # << >> /\ h.kind # "chunk" /\ host' = Tail(host) /\ out' = Append(out, h)
        /\ UNCHANGED <<place, interest, pending, outbox, mailbox, permit, writer, wire, clientVars,
                       visits, dropped>>
    BY DEF DeliverReliable, serverVars, history
  <1>2. host \in Seq(AnyPacket) /\ out \in Seq(AnyPacket) /\ h \in AnyPacket
    BY <1>1, QueueTaken DEF Typed, LaneTypes
  <1>3. Underway(Lanes') = Underway(Lanes)
    <2>1. MovesHead(Lanes, Lanes', 3, 2)
      BY <1>1 DEF MovesHead, Lanes
    <2>2. QED
      BY <2>1, LanesAreTyped, LanesMoved DEF Typed
  <1> HIDE DEF h
  <1>4. \A c, d :
          /\ NoMoves(host) <=> ~Moves(h) /\ NoMoves(host')
          /\ LastMove(host, d) <=> LastMove(host', d) /\ (Moves(h) /\ NoMoves(host') => h.dim = d)
          /\ Trails(host, c) <=> Trails(host', c) /\ (Chunk(h, c) => NoMoves(host'))
    BY <1>1, <1>2, TakenMoves DEF h
  <1>5. \A d : /\ NoMoves(out') <=> NoMoves(out) /\ ~Moves(h)
               /\ LastMove(out', d) <=> IF Moves(h) THEN h.dim = d ELSE LastMove(out, d)
    BY <1>1, <1>2, AppendedMoves
  <1>6. Heading'
    BY <1>1, <1>4, <1>5 DEF Steady, Heading, clientVars
  <1>7. WriterInv'
    <2>1. \A i \in DOMAIN out' : out'[i].kind # "chunk"
      <3>1. /\ DOMAIN out = 1 .. Len(out) /\ DOMAIN out' = 1 .. Len(out) + 1 /\ Len(out) \in Nat
            /\ \A i \in DOMAIN out : out'[i] = out[i]
            /\ out'[Len(out) + 1] = h
        BY <1>1, <1>2, QueueAppended
      <3>2. \A i \in DOMAIN out' : i \in DOMAIN out \/ i = Len(out) + 1
        BY <3>1
      <3>3. QED
        BY <1>1, <3>1, <3>2 DEF Steady, WriterInv, h
    <2>2. QED
      BY <1>1, <2>1 DEF Steady, WriterInv
  <1>8. ASSUME NEW c \in Columns PROVE InReach(c)'
    <2>1. InReach(c) /\ (NoChunk(Lanes', c) <=> NoChunk(Lanes, c)) /\ (Wanted(c)' <=> Wanted(c))
      BY <1>1, <1>3 DEF Steady, NoChunk, Wanted
    <2>2. QED
      BY <1>1, <1>4, <1>5, <2>1 DEF InReach, clientVars
  <1>9. QED
    BY <1>6, <1>7, <1>8 DEF Steady

LEMMA WritingSteadily ==
  ASSUME Typed, Steady, WriteReliable
  PROVE  Steady'
  <1> DEFINE h == Head(out)
  <1>1. /\ out # << >> /\ out' = Tail(out) /\ wire' = Append(wire, h) /\ writer = "idle"
        /\ UNCHANGED <<place, interest, pending, outbox, host, mailbox, permit, writer, clientVars,
                       visits, dropped>>
    BY DEF WriteReliable, serverVars, history
  <1>2. out \in Seq(AnyPacket) /\ wire \in Seq(AnyPacket) /\ h \in AnyPacket
    BY <1>1, QueueTaken DEF Typed, LaneTypes
  <1>3. Underway(Lanes') = Underway(Lanes)
    <2>1. MovesHead(Lanes, Lanes', 2, 1)
      BY <1>1 DEF MovesHead, Lanes
    <2>2. QED
      BY <2>1, LanesAreTyped, LanesMoved DEF Typed
  <1>4. h.kind # "chunk" /\ \A i \in DOMAIN out' : out'[i].kind # "chunk"
    <2>1. /\ h = out[1] /\ Len(out) \in Nat \ {0} /\ DOMAIN out = 1 .. Len(out)
          /\ DOMAIN out' = 1 .. Len(out) - 1
          /\ \A i \in DOMAIN out' : out'[i] = out[i + 1]
      BY <1>1, <1>2, QueueTaken
    <2> HIDE DEF h
    <2>2. 1 \in DOMAIN out /\ \A i \in DOMAIN out' : i + 1 \in DOMAIN out
      BY <2>1
    <2>3. QED
      BY <2>1, <2>2 DEF Steady, WriterInv
  <1> HIDE DEF h
  <1>5. \A c, d :
          /\ NoMoves(out) <=> ~Moves(h) /\ NoMoves(out')
          /\ LastMove(out, d) <=> LastMove(out', d) /\ (Moves(h) /\ NoMoves(out') => h.dim = d)
    BY <1>1, <1>2, TakenMoves DEF h
  <1>6. \A c, d :
          /\ NoMoves(wire') <=> NoMoves(wire) /\ ~Moves(h)
          /\ LastMove(wire', d) <=> IF Moves(h) THEN h.dim = d ELSE LastMove(wire, d)
          /\ Trails(wire', c) <=> Trails(wire, c) /\ (HasChunk(wire, c) => ~Moves(h))
          /\ HasChunk(wire', c) <=> HasChunk(wire, c) \/ Chunk(h, c)
    BY <1>1, <1>2, AppendedMoves
  <1>7. \A c : ~Chunk(h, c)
    BY <1>4 DEF Chunk
  <1>8. Heading'
    BY <1>1, <1>5, <1>6 DEF Steady, Heading, clientVars
  <1>9. WriterInv'
    BY <1>1, <1>4 DEF Steady, WriterInv
  <1>10. ASSUME NEW c \in Columns PROVE InReach(c)'
    <2>1. InReach(c) /\ (NoChunk(Lanes', c) <=> NoChunk(Lanes, c)) /\ (Wanted(c)' <=> Wanted(c))
      BY <1>1, <1>3 DEF Steady, NoChunk, Wanted
    <2>2. QED
      BY <1>1, <1>5, <1>6, <1>7, <2>1 DEF InReach, clientVars
  <1>11. QED
    BY <1>8, <1>9, <1>10 DEF Steady

LEMMA CatchingUpSteadily ==
  ASSUME Typed, Steady, ChooseCatchup \/ PopCatchup
  PROVE  Steady'
  <1> DEFINE h == Head(mailbox)
  <1>1. UNCHANGED <<place, interest, pending, outbox, host, out, clientVars, visits, dropped>>
    BY DEF ChooseCatchup, PopCatchup, serverVars, history
  <1>2. mailbox \in Seq(ChunkPacket) /\ mailbox \in Seq(AnyPacket) /\ wire \in Seq(AnyPacket)
    <2>1. Seq(ChunkPacket) \subseteq Seq(AnyPacket)
      BY SeqMonotonic DEF AnyPacket
    <2>2. QED
      BY <2>1 DEF Typed, LaneTypes
  <1>3. mailbox # << >>
    BY DEF ChooseCatchup, PopCatchup, Steady, WriterInv
  <1>4. CASE ChooseCatchup
    <2>1. /\ permit' = FALSE /\ writer' = "catchup" /\ permit /\ out = << >>
          /\ UNCHANGED <<mailbox, wire>>
      BY <1>4 DEF ChooseCatchup
    <2>2. NoMoves(out)
      <3>1. DOMAIN << >> = {}
        BY EmptySeq
      <3>2. QED
        BY <2>1, <3>1 DEF NoMoves
    <2>3. Lanes' = Lanes
      BY <1>1, <2>1 DEF Lanes
    <2>4. Heading' /\ WriterInv'
      BY <1>1, <1>3, <2>1 DEF Steady, Heading, WriterInv, clientVars
    <2>5. ASSUME NEW c \in Columns PROVE InReach(c)'
      <3>1. InReach(c) /\ (NoChunk(Lanes', c) <=> NoChunk(Lanes, c)) /\ (Wanted(c)' <=> Wanted(c))
        BY <1>1, <2>3 DEF Steady, NoChunk, Wanted
      <3>2. QED
        BY <1>1, <2>1, <2>2, <3>1 DEF InReach, clientVars
    <2>6. QED
      BY <2>4, <2>5 DEF Steady
  <1>5. CASE PopCatchup
    <2>1. /\ mailbox' = Tail(mailbox) /\ wire' = Append(wire, h) /\ writer = "catchup"
          /\ writer' = "idle" /\ permit' = (permit \/ Tail(mailbox) # << >>)
      BY <1>3, <1>5 DEF PopCatchup
    <2>2. h \in ChunkPacket /\ h \in AnyPacket
      BY <1>2, <1>3, QueueTaken
    <2>3. ~Moves(h)
      BY <2>2 DEF ChunkPacket, Moves
    <2>4. Underway(Lanes') = Underway(Lanes)
      <3>1. MovesHead(Lanes, Lanes', 5, 1)
        BY <1>1, <1>3, <2>1 DEF MovesHead, Lanes
      <3>2. QED
        BY <3>1, LanesAreTyped, LanesMoved DEF Typed
    <2> HIDE DEF h
    <2>5. \A c, d : HasChunk(mailbox, c) <=> Chunk(h, c) \/ HasChunk(mailbox', c)
      BY <1>2, <1>3, <2>1, TakenMoves DEF h
    <2>6. \A c, d :
            /\ NoMoves(wire') <=> NoMoves(wire)
            /\ LastMove(wire', d) <=> LastMove(wire, d)
            /\ Trails(wire', c) <=> Trails(wire, c)
            /\ HasChunk(wire', c) <=> HasChunk(wire, c) \/ Chunk(h, c)
      BY <1>2, <2>1, <2>2, <2>3, AppendedMoves
    <2>7. Heading'
      BY <1>1, <2>6 DEF Steady, Heading, clientVars
    <2>8. WriterInv'
      BY <1>1, <2>1 DEF Steady, WriterInv
    <2>9. ASSUME NEW c \in Columns PROVE InReach(c)'
      <3>1. InReach(c) /\ (NoChunk(Lanes', c) <=> NoChunk(Lanes, c)) /\ (Wanted(c)' <=> Wanted(c))
        BY <1>1, <2>4 DEF Steady, NoChunk, Wanted
      <3>2. QED
        BY <1>1, <2>1, <2>5, <2>6, <3>1 DEF InReach, clientVars, h
    <2>10. QED
      BY <2>7, <2>8, <2>9 DEF Steady
  <1>6. QED
    BY <1>4, <1>5

\* Mutations and worldgen do not touch what has been queued.
LEMMA StayingSteadily ==
  ASSUME Steady,
         UNCHANGED <<place, interest, pending, outbox, networkVars, clientVars, visits, dropped>>
  PROVE  Steady'
  <1>1. Lanes' = Lanes
    BY DEF Lanes, networkVars
  <1>2. Heading' /\ WriterInv'
    BY DEF Steady, Heading, WriterInv, networkVars, clientVars
  <1>3. ASSUME NEW c \in Columns PROVE InReach(c)'
    <2>1. InReach(c) /\ (NoChunk(Lanes', c) <=> NoChunk(Lanes, c)) /\ (Wanted(c)' <=> Wanted(c))
      BY <1>1 DEF Steady, NoChunk, Wanted
    <2>2. QED
      BY <2>1 DEF InReach, networkVars, clientVars
  <1>4. QED
    BY <1>2, <1>3 DEF Steady

LEMMA QueueingSteadily ==
  ASSUME Typed, \A c \in Columns : ColumnInv(c), Steady, DeliverChunk
  PROVE  Steady'
  <1> DEFINE p == Head(host)
  <1>1. /\ host # << >> /\ host' = Tail(host) /\ p.kind = "chunk"
        /\ UNCHANGED <<place, interest, pending, outbox, out, writer, wire, clientVars, visits>>
    BY DEF DeliverChunk, serverVars
  <1>2. /\ p \in ChunkPacket
        /\ \/ mailbox' = Append(mailbox, p) /\ permit' = TRUE /\ UNCHANGED dropped
           \/ dropped' = dropped \union {p.col} /\ UNCHANGED <<mailbox, permit>>
    BY MailboxHasNone
  <1>3. /\ host \in Seq(AnyPacket) /\ mailbox \in Seq(ChunkPacket) /\ ~Moves(p)
        /\ LanesTyped(Lanes)
    BY <1>2, LanesAreTyped DEF Typed, LaneTypes, Moves, ChunkPacket
  <1> HIDE DEF p
  <1>4. \A c, d :
          /\ NoMoves(host) <=> NoMoves(host')
          /\ LastMove(host, d) <=> LastMove(host', d)
          /\ Trails(host, c) <=> Trails(host', c) /\ (Chunk(p, c) => NoMoves(host'))
    BY <1>1, <1>3, TakenMoves DEF p
  <1>5. Heading'
    BY <1>1, <1>4 DEF Steady, Heading, clientVars
  <1>6. CASE mailbox' = Append(mailbox, p) /\ permit' = TRUE /\ UNCHANGED dropped
    <2>1. \A c : HasChunk(mailbox', c) <=> HasChunk(mailbox, c) \/ Chunk(p, c)
      BY <1>2, <1>3, <1>6, AppendedMoves
    <2>2. /\ mailbox' # << >>
          /\ mailbox # << >> => Head(mailbox') = Head(mailbox) /\ Tail(mailbox') # << >>
      <3>1. /\ mailbox' \in Seq(ChunkPacket) /\ Len(mailbox) \in Nat
            /\ DOMAIN mailbox = 1 .. Len(mailbox) /\ DOMAIN mailbox' = 1 .. Len(mailbox) + 1
            /\ \A i \in 1 .. Len(mailbox) : mailbox'[i] = mailbox[i]
        BY <1>2, <1>3, <1>6, QueueAppended
      <3>2. DOMAIN << >> = {}
        BY EmptySeq
      <3>3. 1 \in DOMAIN mailbox'
        BY <3>1
      <3>4. mailbox' # << >>
        BY <3>2, <3>3
      <3>5. ASSUME mailbox # << >>
            PROVE  Head(mailbox') = Head(mailbox) /\ Tail(mailbox') # << >>
        <4>1. Head(mailbox) = mailbox[1] /\ Len(mailbox) \in Nat \ {0}
          BY <1>3, <3>5, QueueTaken
        <4>2. Head(mailbox') = mailbox'[1] /\ DOMAIN Tail(mailbox') = 1 .. Len(mailbox') - 1
          BY <3>1, <3>4, QueueTaken
        <4>3. Len(mailbox') = Len(mailbox) + 1
          BY <3>1, LenProperties
        <4>4. 1 \in DOMAIN Tail(mailbox')
          BY <4>1, <4>2, <4>3
        <4>5. Tail(mailbox') # << >>
          BY <3>2, <4>4
        <4>6. QED
          BY <3>1, <4>1, <4>2, <4>5
      <3>6. QED
        BY <3>4, <3>5
    <2>3. WriterInv'
      BY <1>1, <1>6, <2>2 DEF Steady, WriterInv
    <2>4. Underway(Lanes') = Underway(Lanes)
      <3>1. MovesHead(Lanes, Lanes', 3, 5)
        BY <1>1, <1>6 DEF MovesHead, Lanes, p
      <3>2. QED
        BY <1>3, <3>1, LanesMoved
    <2>5. ASSUME NEW c \in Columns PROVE InReach(c)'
      <3>1. InReach(c) /\ (NoChunk(Lanes', c) <=> NoChunk(Lanes, c)) /\ (Wanted(c)' <=> Wanted(c))
        BY <1>1, <2>4 DEF Steady, NoChunk, Wanted
      <3>2. writer = "catchup" => mailbox # << >>
        BY DEF Steady, WriterInv
      <3>3. mailbox # << >> /\ Chunk(Head(mailbox), c) => HasChunk(mailbox, c)
        BY <1>3, TakenMoves
      <3>4. QED
        BY <1>1, <1>4, <1>6, <2>1, <2>2, <3>1, <3>2, <3>3 DEF InReach, clientVars
    <2>6. QED
      BY <1>5, <2>3, <2>5 DEF Steady
  <1>7. CASE dropped' = dropped \union {p.col} /\ UNCHANGED <<mailbox, permit>>
    <2>1. WriterInv'
      BY <1>1, <1>7 DEF Steady, WriterInv
    <2>2. \A q \in Underway(Lanes) : q \in Underway(Lanes') \/ q = p
      <3>1. TakesHead(Lanes, Lanes', 3) /\ Head(Lanes[3]) = p
        BY <1>1, <1>7 DEF TakesHead, Lanes, p
      <3>2. 3 \in 1 .. 5
        OBVIOUS
      <3>3. QED
        BY <1>3, <3>1, <3>2, LanesTaken
    <2>3. ASSUME NEW c \in Columns PROVE InReach(c)'
      <3>1. InReach(c) /\ (Wanted(c)' <=> Wanted(c))
        BY <1>1 DEF Steady, Wanted
      <3>2. ~NoChunk(Lanes, c) => ~NoChunk(Lanes', c) \/ c \in dropped'
        BY <1>7, <2>2 DEF NoChunk, Chunk
      <3>3. c \in dropped => c \in dropped'
        BY <1>7
      <3>4. QED
        BY <1>1, <1>4, <1>7, <3>1, <3>2, <3>3 DEF InReach, clientVars
    <2>4. QED
      BY <1>5, <2>1, <2>3 DEF Steady
  <1>8. QED
    BY <1>2, <1>6, <1>7

LEMMA WalkingSteadily ==
  ASSUME Typed, Steady, NEW p \in Positions, Move(p)
  PROVE  Steady'
  <1>1. /\ UNCHANGED <<place, interest, pending, outbox, networkVars, applied, visits, dropped>>
        /\ where = place /\ where' = [where EXCEPT !.pos = p]
        /\ shown' = [c \in Columns |->
                       IF c[2] \in Ring[p] THEN shown[c]
                       ELSE [shown[c] EXCEPT !.resident = FALSE, !.blocks = {}, !.ents = {}]]
    BY DEF Move, history, serverVars
  <1>2. /\ where'.dim = where.dim /\ where'.pos = p /\ where.pos \in Positions
        /\ interest = View[where.pos]
    BY <1>1 DEF Typed, ClientTypes, ServerTypes, Places
  <1>3. Lanes' = Lanes
    BY <1>1 DEF Lanes, networkVars
  <1>4. Heading' /\ WriterInv'
    BY <1>1, <1>2 DEF Steady, Heading, WriterInv, networkVars
  <1>5. ASSUME NEW c \in Columns PROVE InReach(c)'
    <2>1. InReach(c) /\ (NoChunk(Lanes', c) <=> NoChunk(Lanes, c)) /\ (Wanted(c)' <=> Wanted(c))
      BY <1>1, <1>3 DEF Steady, NoChunk, Wanted
    <2>2. Wanted(c) => c[2] \in Ring[where.pos]
      BY <1>2, ChunkReplicationAssumption DEF Wanted
    <2>3. c[2] \in Ring[where'.pos] => shown'[c] = shown[c]
      BY <1>1, <1>2
    <2>4. QED
      BY <1>1, <2>1, <2>2, <2>3 DEF InReach, networkVars
  <1>6. QED
    BY <1>4, <1>5 DEF Steady

LEMMA NothingUnderway ==
  ASSUME NEW L, NEW c, NoChunk(L, c)
  PROVE  Trails(L[1], c) /\ Trails(L[3], c) /\ ~HasChunk(L[1], c) /\ ~HasChunk(L[5], c)
  <1>1. \A k \in 1 .. 5 : \A i \in DOMAIN L[k] : L[k][i] \in Underway(L)
    BY UnderwayMember
  <1>2. 1 \in 1 .. 5 /\ 3 \in 1 .. 5 /\ 5 \in 1 .. 5
    OBVIOUS
  <1>3. QED
    BY <1>1, <1>2 DEF NoChunk, Trails, HasChunk

LEMMA RoutingSteadily ==
  ASSUME Typed, \A c \in Columns : ColumnInv(c), Steady, Route
  PROVE  Steady'
  <1>1. UNCHANGED <<place, interest, networkVars, clientVars, visits, dropped>>
    BY DEF Route, history
  <1>2. NoMoves(outbox') /\ Underway(Lanes) \subseteq Underway(Lanes')
        /\ \A i \in DOMAIN outbox' : outbox'[i] \in Underway(Lanes')
    BY TickIsRouted
  <1>3. PICK ready \in Seq(Columns) :
           /\ \A c \in Columns : Routed(ready, c)
           /\ PacketsOf(pending) = PacketsOf(pending') \union PacketsOf(ready)
    BY TickIsRouted
  <1>4. Heading' /\ WriterInv'
    BY <1>1, <1>2 DEF Steady, Heading, WriterInv, networkVars, clientVars
  <1>5. ASSUME NEW c \in Columns PROVE InReach(c)'
    <2>1. InReach(c) /\ (Wanted(c)' <=> Wanted(c)) /\ (NoChunk(Lanes', c) => NoChunk(Lanes, c))
      BY <1>1, <1>2 DEF Steady, NoChunk, Wanted
    <2>2. c \in PacketsOf(pending) => c \in PacketsOf(pending') \/ ~NoChunk(Lanes', c)
      <3>1. ASSUME c \in PacketsOf(ready) PROVE ~NoChunk(Lanes', c)
        <4>1. PICK i \in DOMAIN ready : ready[i] = c
          BY <3>1 DEF PacketsOf
        <4>2. outbox'[i] = ChunkData(c) /\ outbox'[i] \in Underway(Lanes')
          BY <1>2, <1>3, <4>1 DEF Routed
        <4>3. Chunk(ChunkData(c), c)
          BY DEF Chunk, ChunkData
        <4>4. QED
          BY <4>2, <4>3 DEF NoChunk
      <3>2. QED
        BY <1>3, <3>1
    <2>3. QED
      BY <1>1, <2>1, <2>2 DEF InReach, networkVars, clientVars
  <1>6. QED
    BY <1>4, <1>5 DEF Steady

\* The session's new place is what the last transfer leads to; a column that it wants for
\* the first time has been sent nothing.
LEMMA RefreshingSteadily ==
  ASSUME Visited, Typed, \A c \in Columns : ColumnInv(c), Undisturbed', Steady,
         PoseArrives \/ \E d \in Dimensions, p \in Positions : Transfer(d, p)
  PROVE  Steady'
  <1>1. \A c \in Columns : ColumnInv(c)' /\ Counts(c)
    BY Refreshing
  <1>2. UNCHANGED <<outbox, mailbox, out, wire, permit, writer, clientVars, dropped>>
    BY DEF PoseArrives, Transfer, networkVars
  <1>3. WriterInv'
    BY <1>2 DEF Steady, WriterInv
  <1>4. CASE PoseArrives
    <2>1. place'.dim = place.dim /\ UNCHANGED host
      BY <1>4 DEF PoseArrives, RefreshInterest, networkVars
    <2>2. Lanes' = Lanes
      BY <1>2, <2>1 DEF Lanes
    <2>3. Heading'
      BY <1>2, <2>1 DEF Steady, Heading, clientVars
    <2>4. ASSUME NEW c \in Columns, Wanted(c)', visits'[c] = 1 PROVE InReach(c)'
      <3>1. CASE visits[c] = 0 /\ c \in PacketsOf(pending')
        <4>1. applied'[c] = Unseen /\ NoChunk(Lanes, c)
          BY <1>2, <3>1 DEF ColumnInv, Once, clientVars
        <4>2. /\ Trails(wire, c) /\ Trails(host, c)
              /\ ~HasChunk(wire, c) /\ ~HasChunk(mailbox, c)
          BY <4>1, NothingUnderway DEF Lanes
        <4>3. QED
          BY <1>2, <2>1, <3>1, <4>1, <4>2 DEF InReach
      <3>2. CASE /\ Wanted(c) /\ visits[c] = 1
                 /\ c \in PacketsOf(pending) => c \in PacketsOf(pending')
        <4>1. InReach(c) /\ (NoChunk(Lanes', c) <=> NoChunk(Lanes, c))
          BY <2>2 DEF Steady, NoChunk
        <4>2. QED
          BY <1>2, <2>1, <3>2, <4>1 DEF InReach, clientVars
      <3>3. QED
        BY <1>1, <2>4, <3>1, <3>2 DEF Counts
    <2>5. QED
      BY <1>3, <2>3, <2>4 DEF Steady, InReach
  <1>5. ASSUME NEW d \in Dimensions, NEW p \in Positions, Transfer(d, p) PROVE Steady'
    <2> DEFINE packet == DimensionTransfer(d, p)
    <2>1. /\ d # place.dim /\ place' = [dim |-> d, pos |-> p]
          /\ host' = Append(host, packet)
      BY <1>5 DEF Transfer, RefreshInterest, EnqueueHost, Undisturbed
    <2>2. packet \in AnyPacket /\ Moves(packet) /\ packet.dim = d
      BY DEF AnyPacket, DimensionTransfer, Moves
    <2> HIDE DEF packet
    <2>3. ~NoMoves(host') /\ LastMove(host', d)
      BY <2>1, <2>2, AppendedMoves DEF Typed, LaneTypes
    <2>4. Heading'
      BY <1>2, <2>1, <2>3 DEF Steady, Heading
    <2>5. ASSUME NEW c \in Columns, Wanted(c)', visits'[c] = 1 PROVE InReach(c)'
      <3>1. ~Wanted(c)
        BY <2>1, <2>5 DEF Wanted
      <3>2. visits[c] = 0 /\ c \in PacketsOf(pending')
        BY <1>1, <2>5, <3>1 DEF Counts
      <3>3. applied'[c] = Unseen /\ NoChunk(Lanes, c)'
        BY <1>1, <3>2 DEF ColumnInv, Once
      <3>4. /\ Trails(wire, c)' /\ Trails(host, c)'
            /\ ~HasChunk(wire, c)' /\ ~HasChunk(mailbox, c)'
        BY <3>3, NothingUnderway DEF Lanes
      <3>5. QED
        BY <3>2, <3>3, <3>4 DEF InReach
    <2>6. QED
      BY <1>3, <2>4, <2>5 DEF Steady, InReach
  <1>6. QED
    BY <1>4, <1>5

LEMMA ReceivingSteadily ==
  ASSUME Typed, \A c \in Columns : ColumnInv(c), Steady, Receive
  PROVE  Steady'
  <1> DEFINE p == Head(wire)
  <1>1. /\ wire # << >> /\ wire' = Tail(wire)
        /\ UNCHANGED <<place, interest, pending, outbox, host, mailbox, out, permit, writer,
                       visits, dropped>>
    BY DEF Receive, history, serverVars
  <1>2. wire \in Seq(AnyPacket) /\ LanesTyped(Lanes)
    BY LanesAreTyped DEF Typed, LaneTypes
  <1>3. \A c \in Columns : Takes(p, c)
    BY Receiving
  <1>4. IF Moves(p) THEN where'.dim = p.dim ELSE UNCHANGED where
    BY DEF Receive, ReceiveTransfer, Moves
  <1>5. \A q \in Underway(Lanes) : q \in Underway(Lanes') \/ q = p
    <2>1. TakesHead(Lanes, Lanes', 1) /\ Head(Lanes[1]) = p /\ 1 \in 1 .. 5
      BY <1>1 DEF TakesHead, Lanes
    <2>2. QED
      BY <1>2, <2>1, LanesTaken
  <1> HIDE DEF p
  <1>6. \A c, d :
          /\ NoMoves(wire) <=> ~Moves(p) /\ NoMoves(wire')
          /\ LastMove(wire, d) <=> LastMove(wire', d) /\ (Moves(p) /\ NoMoves(wire') => p.dim = d)
          /\ Trails(wire, c) <=> Trails(wire', c) /\ (Chunk(p, c) => NoMoves(wire'))
          /\ HasChunk(wire, c) <=> Chunk(p, c) \/ HasChunk(wire', c)
    BY <1>1, <1>2, TakenMoves DEF p
  <1>7. Heading'
    <2>1. NoMoves(host) /\ NoMoves(out) /\ NoMoves(wire') => where'.dim = place.dim
      BY <1>4, <1>6 DEF Steady, Heading
    <2>2. QED
      BY <1>1, <1>6, <2>1 DEF Steady, Heading
  <1>8. WriterInv'
    BY <1>1 DEF Steady, WriterInv
  <1>9. ASSUME NEW c \in Columns, Wanted(c)', visits'[c] = 1 PROVE InReach(c)'
    <2>1. InReach(c) /\ Wanted(c) /\ visits[c] = 1 /\ Takes(p, c)
      BY <1>1, <1>3, <1>9 DEF Steady, Wanted
    <2>2. \/ c \in PacketsOf(pending') \/ applied'[c] # Unseen \/ c \in dropped'
          \/ ~NoChunk(Lanes', c)
      <3>1. ~NoChunk(Lanes, c) => ~NoChunk(Lanes', c) \/ Chunk(p, c)
        BY <1>5 DEF NoChunk
      <3>2. QED
        BY <1>1, <2>1, <3>1 DEF InReach, Takes
    <2>3. ASSUME applied'[c] # Unseen
          PROVE  /\ NoMoves(wire') /\ NoMoves(out) /\ NoMoves(host)
                 /\ shown'[c].resident \/ c[2] \notin Ring[where'.pos]
      <3>1. CASE applied[c] # Unseen
        <4>1. /\ NoMoves(wire) /\ NoMoves(out) /\ NoMoves(host)
              /\ shown[c].resident \/ c[2] \notin Ring[where.pos]
          BY <2>1, <3>1 DEF InReach
        <4>2. ~Moves(p) /\ NoMoves(wire')
          BY <1>6, <4>1
        <4>3. QED
          BY <1>4, <2>1, <3>1, <4>1, <4>2 DEF Takes
      <3>2. CASE applied[c] = Unseen
        <4>1. Chunk(p, c)
          BY <2>1, <2>3, <3>2 DEF Takes
        <4>2. ~Moves(p) /\ NoMoves(wire') /\ NoMoves(out) /\ NoMoves(host)
          BY <1>6, <2>1, <4>1 DEF InReach, Moves, Chunk
        <4>3. where.dim = c[1]
          BY <1>6, <2>1, <4>2 DEF Steady, Heading, Wanted
        <4>4. QED
          BY <2>1, <4>1, <4>2, <4>3 DEF Takes
      <3>3. QED
        BY <3>1, <3>2
    <2>4. QED
      BY <1>1, <1>6, <2>1, <2>2, <2>3 DEF InReach
  <1>10. QED
    BY <1>7, <1>8, <1>9 DEF Steady, InReach

LEMMA CaughtUpInit == Init => CaughtUpInv
  <1> SUFFICES ASSUME Init PROVE Steady
    BY DEF CaughtUpInv
  <1>1. Joined /\ DOMAIN << >> = {}
    BY EmptySeq DEF Init
  <1> DEFINE S == {StartDimension} \X View[Start]
  <1>2. PacketsOf(pending) = S
    <2>1. IsFiniteSet(S)
      BY FS_Singleton, FS_Product, ChunkReplicationAssumption
    <2>2. pending \in Orders(S)
      BY <1>1 DEF Joined
    <2> HIDE DEF S
    <2>3. QED
      BY <2>1, <2>2, OrderOfSet
  <1>3. NoMoves(<< >>)
    BY <1>1 DEF NoMoves
  <1>4. Heading /\ WriterInv
    <2>1. /\ outbox = << >> /\ host = << >> /\ out = << >> /\ wire = << >> /\ where = place
          /\ permit = FALSE /\ writer = "idle"
      BY <1>1 DEF Joined
    <2>2. \A d : LastMove(<< >>, d)
      BY <1>1 DEF LastMove
    <2>3. Heading
      BY <1>3, <2>1, <2>2 DEF Heading
    <2>4. WriterInv
      BY <1>1, <2>1 DEF WriterInv
    <2>5. QED
      BY <2>3, <2>4
  <1>5. ASSUME NEW c \in Columns, Wanted(c) PROVE InReach(c)
    <2>1. c \in PacketsOf(pending)
      <3>1. c = <<c[1], c[2]>> /\ c[1] = StartDimension /\ c[2] \in View[Start]
        BY <1>1, <1>5 DEF Columns, Joined, Wanted
      <3>2. QED
        BY <1>2, <3>1
    <2>2. applied[c] = Unseen /\ wire = << >> /\ host = << >> /\ mailbox = << >>
      BY <1>1 DEF Joined
    <2>3. Trails(<< >>, c) /\ ~HasChunk(<< >>, c)
      BY <1>1 DEF Trails, HasChunk
    <2>4. QED
      BY <2>1, <2>2, <2>3 DEF InReach
  <1>6. QED
    BY <1>4, <1>5 DEF Steady, InReach

LEMMA CaughtUpStep == GapFreeInv /\ CaughtUpInv /\ [Next]_vars => CaughtUpInv'
  <1> SUFFICES ASSUME GapFreeInv, CaughtUpInv, [Next]_vars, Undisturbed' PROVE Steady'
    BY DEF CaughtUpInv
  <1>1. Visited /\ Typed /\ (\A c \in Columns : ColumnInv(c)) /\ Steady
    BY QuietUntilDisturbed DEF GapFreeInv, CaughtUpInv
  <1>2. ASSUME NEW c \in Columns, Mutate(c) \/ Generate(c) PROVE Steady'
    BY <1>1, <1>2, StayingSteadily DEF Mutate, Generate, history
  <1>3. CASE UNCHANGED vars
    BY <1>1, <1>3, StayingSteadily DEF vars, serverVars, history
  <1>4. ASSUME PoseArrives \/ \E d \in Dimensions, p \in Positions : Transfer(d, p) PROVE Steady'
    BY <1>1, <1>4, RefreshingSteadily
  <1>5. CASE Route
    BY <1>1, <1>5, RoutingSteadily
  <1>6. CASE Send
    BY <1>1, <1>6, SendingSteadily
  <1>7. CASE DeliverChunk
    BY <1>1, <1>7, QueueingSteadily
  <1>8. CASE DeliverReliable
    BY <1>1, <1>8, DeliveringSteadily
  <1>9. CASE WriteReliable
    BY <1>1, <1>9, WritingSteadily
  <1>10. CASE ChooseCatchup \/ PopCatchup
    BY <1>1, <1>10, CatchingUpSteadily
  <1>11. CASE Receive
    BY <1>1, <1>11, ReceivingSteadily
  <1>12. ASSUME NEW p \in Positions, Move(p) PROVE Steady'
    BY <1>1, <1>12, WalkingSteadily
  <1>13. QED
    BY <1>2, <1>3, <1>4, <1>5, <1>6, <1>7, <1>8, <1>9, <1>10, <1>11, <1>12
       DEF Next, Tick, Network, Writer

\* Once the queues between the tick thread and the client are empty, a column the session
\* wants and the server has is presented with all its changes, unless the mailbox counted
\* its loss: neither the two ways, nor a walk, nor a transfer on its way make the client
\* throw away or wait for ever for a column that was sent.
THEOREM NothingIsForgotten == Spec => []CaughtUp
  <1>1. GapFreeInv /\ CaughtUpInv => CaughtUp
    <2> SUFFICES ASSUME GapFreeInv, CaughtUpInv, Quiet, Undisturbed, NEW c \in Columns,
                        Wanted(c), visits[c] = 1, c \in resident, c \notin dropped
                 PROVE  shown[c].resident /\ shown[c].blocks = content[c]
      BY DEF CaughtUp
    <2>1. Typed /\ ColumnInv(c) /\ InReach(c)
      BY DEF GapFreeInv, CaughtUpInv, Steady
    <2>2. Underway(Lanes) = {}
      <3>1. \A k \in 1 .. 5 : Lanes[k] = << >>
        BY DEF Quiet, Lanes
      <3>2. \A q : q \notin Underway(Lanes)
        BY <3>1, EmptySeq, UnderwayMember
      <3>3. QED
        BY <3>2
    <2>3. c \notin PacketsOf(pending)
      BY DEF Quiet, PacketsOf
    <2>4. applied[c] # Unseen
      BY <2>1, <2>2, <2>3 DEF InReach, NoChunk
    <2>5. shown[c].resident
      <3>1. c[2] \in Ring[where.pos]
        BY <2>1, ChunkReplicationAssumption DEF Quiet, Wanted, Typed, ServerTypes, Places
      <3>2. QED
        BY <2>1, <2>4, <3>1 DEF InReach
    <2>6. buffered[c] = {} /\ shown[c].blocks = {r \in content[c] : r <= applied[c]}
      BY <2>1, <2>4, <2>5 DEF ColumnInv, Once
    <2>7. Known(c) \union FreshOf(c) = {}
      BY <2>2, <2>6, EmptySeq DEF Known, Sent, FreshOf, Quiet
    <2>8. \A r \in content[c] : ~(applied[c] < r)
      BY <2>1, <2>4, <2>7 DEF ColumnInv, NoGap, Bases
    <2>9. applied[c] \in Nat /\ content[c] \in SUBSET Nat
      BY <2>1, <2>4 DEF Typed, ClientTypes, ServerTypes
    <2>10. QED
      BY <2>5, <2>6, <2>8, <2>9
  <1>2. Init => GapFreeInv /\ CaughtUpInv
    BY GapFreeInit, CaughtUpInit
  <1>3. (GapFreeInv /\ CaughtUpInv) /\ [Next]_vars => (GapFreeInv /\ CaughtUpInv)'
    BY GapFreeStep, CaughtUpStep
  <1>4. QED
    BY <1>1, <1>2, <1>3, PTL DEF Spec

=============================================================================
