-------------------------- MODULE SectionMeshesProofs --------------------------
(***************************************************************************)
(* For any world, any sizes of sections, regions and queues and any number *)
(* of workers: what a fresh section mesh shows is the world as it is       *)
(* (ShowInv: no job is newer than its section, and the snapshot of a job   *)
(* as new as its section is what is to be shown); a stale section has a    *)
(* job on its way or will be found again (KnowInv: nothing dropped is      *)
(* queued); and an arena hands out exactly the units held in its region,   *)
(* one to a holder, and counts the columns that live there (ArenasAre, of  *)
(* regions and of the levels the section meshes hold).                     *)
(***************************************************************************)
EXTENDS SectionMeshes, FiniteSetTheorems, SequenceTheorems, TLAPS

-----------------------------------------------------------------------------
(* Induction on a number, and sets taken one element after the other.        *)

\* Every non-empty set of naturals has a least element.
LEMMA LeastNatural ==
  ASSUME NEW T \in SUBSET Nat, T # {}
  PROVE  \E n \in T : \A m \in T : n =< m
  <1> DEFINE R == OpToRel(<, Nat)
  <1>1. IsWellFoundedOn(R, Nat)
    BY NatLessThanWellFounded
  <1>2. \A x, y \in Nat : <<x, y>> \in R <=> x < y
    BY DEF OpToRel
  <1> HIDE DEF R
  <1>3. PICK n \in T : \A m \in T : <<m, n>> \notin R
    BY <1>1, WFMin
  <1>4. \A m \in T : ~(m < n)
    BY <1>2, <1>3, Zenon
  <1>5. QED
    BY <1>4

\* Induction up to n, for a set of good numbers.
LEMMA UpToInduction ==
  ASSUME NEW n \in Nat, NEW G, 0 \in G, \A k \in 1..n : k - 1 \in G => k \in G
  PROVE  0..n \subseteq G
  <1> DEFINE Bad == {k \in 0..n : k \notin G}
  <1> SUFFICES ASSUME Bad # {} PROVE FALSE
    OBVIOUS
  <1>0. Bad \in SUBSET Nat
    OBVIOUS
  <1>1. PICK k \in Bad : \A m \in Bad : k =< m
    <2> HIDE DEF Bad
    <2>1. QED
      BY <1>0, LeastNatural
  <1>2. k # 0 /\ k \in 1..n /\ k - 1 \in 0..n
    BY <1>1
  <1>3. k - 1 \in G
    BY <1>1, <1>2
  <1>4. QED
    BY <1>1, <1>2, <1>3

\* SetToSeq lists every element of a finite set once.
LEMMA OrderVisitsAll ==
  ASSUME NEW D, IsFiniteSet(D)
  PROVE  \E n \in Nat :
           /\ SetToSeq(D) \in [1..n -> D] /\ Len(SetToSeq(D)) = n
           /\ \A x \in D : \E k \in 1..n : SetToSeq(D)[k] = x
           /\ \A j, k \in 1..n : SetToSeq(D)[j] = SetToSeq(D)[k] => j = k
  <1> DEFINE n == Cardinality(D)
             q == SetToSeq(D)
  <1>1. n \in Nat /\ ExistsBijection(1..n, D)
    BY FS_CardinalityType
  <1>2. PICK f : f \in Bijection(1..n, D)
    BY <1>1 DEF ExistsBijection
  <1>3. f \in [1..n -> D] /\ IsInjective(f)
    BY <1>2 DEF Bijection, Injection, IsInjective
  <1>4. q \in [1..n -> D] /\ IsInjective(q)
    BY <1>3 DEF SetToSeq
  <1> HIDE DEF q, n
  <1>5. q \in Injection(1..n, D)
    BY <1>4 DEF Injection
  <1>6. Cardinality(1..n) = n
    <2>1. 1 \in Int /\ n \in Int
      BY <1>1
    <2>2. Cardinality(1..n) = IF 1 > n THEN 0 ELSE n - 1 + 1
      BY <2>1, FS_Interval
    <2>3. QED
      BY <1>1, <2>2
  <1>7. q \in Surjection(1..n, D)
    BY <1>5, <1>6, FS_Injection DEF n
  <1>8. Len(q) = n
    BY <1>1, <1>4, LenProperties, SeqDef
  <1>9. QED
    BY <1>1, <1>4, <1>7, <1>8 DEF Surjection, IsInjective, q

\* What the queue becomes as the sections are put into it one by one.
EnqueueRun(u, n, q, order, ms, lt) ==
  /\ u = [k \in 0 .. n |-> u[k]] /\ u[0] = q
  /\ \A k \in 1 .. n : u[k] = Enqueue(u[k - 1], order[k], Identity(order[k], ms, lt))

LEMMA EnqueueRuns ==
  ASSUME NEW n \in Nat, NEW q, NEW order, NEW ms, NEW lt
  PROVE  \E u : EnqueueRun(u, n, q, order, ms, lt)
  <1> DEFINE G == {m \in 0 .. n : \E u : EnqueueRun(u, m, q, order, ms, lt)}
  <1>1. 0 \in G
    <2>1. EnqueueRun([k \in 0 .. 0 |-> q], 0, q, order, ms, lt)
      BY DEF EnqueueRun
    <2>2. QED
      BY <2>1
  <1>2. ASSUME NEW m \in 1 .. n, m - 1 \in G PROVE m \in G
    <2>1. PICK u : EnqueueRun(u, m - 1, q, order, ms, lt)
      BY <1>2
    <2> DEFINE step == Enqueue(u[m - 1], order[m], Identity(order[m], ms, lt))
               v == [k \in 0 .. m |-> IF k = m THEN step ELSE u[k]]
    <2> HIDE DEF step
    <2>2. v = [k \in 0 .. m |-> v[k]] /\ v[0] = q /\ v[m] = step
      BY <2>1 DEF EnqueueRun
    <2>3. \A k \in 0 .. m - 1 : v[k] = u[k]
      OBVIOUS
    <2> HIDE DEF v
    <2>4. ASSUME NEW k \in 1 .. m
          PROVE  v[k] = Enqueue(v[k - 1], order[k], Identity(order[k], ms, lt))
      <3>1. k - 1 \in 0 .. m - 1 /\ v[k - 1] = u[k - 1]
        BY <2>3
      <3>2. CASE k = m
        BY <2>2, <3>1, <3>2 DEF step
      <3>3. CASE k # m
        <4>1. k \in 1 .. m - 1 /\ v[k] = u[k]
          BY <2>3, <3>3
        <4>2. u[k] = Enqueue(u[k - 1], order[k], Identity(order[k], ms, lt))
          BY <2>1, <4>1 DEF EnqueueRun
        <4>3. QED
          BY <3>1, <4>1, <4>2
      <3>4. QED
        BY <3>2, <3>3
    <2>5. EnqueueRun(v, m, q, order, ms, lt)
      BY <2>2, <2>4 DEF EnqueueRun
    <2>6. QED
      BY <2>5
  <1> HIDE DEF G
  <1>3. 0 .. n \subseteq G
    BY <1>1, <1>2, UpToInduction
  <1>4. n \in G
    BY <1>3
  <1>5. QED
    BY <1>4 DEF G

LEMMA EnqueueAllRuns ==
  ASSUME NEW S, IsFiniteSet(S), NEW q, NEW ms, NEW lt, NEW n \in Nat, Len(SetToSeq(S)) = n
  PROVE  \E u : /\ EnqueueRun(u, n, q, SetToSeq(S), ms, lt)
                /\ EnqueueAll(q, S, ms, lt) = u[n]
  <1> DEFINE order == SetToSeq(S)
             Is(u) == u = [k \in 0 .. n |-> IF k = 0 THEN q ELSE
                              Enqueue(u[k - 1], order[k], Identity(order[k], ms, lt))]
             run == CHOOSE u : Is(u)
  <1>1. EnqueueAll(q, S, ms, lt) = run[n]
    BY DEF EnqueueAll
  <1> HIDE DEF order
  <1>2. PICK u : EnqueueRun(u, n, q, order, ms, lt)
    BY EnqueueRuns
  <1>3. Is(u)
    <2>1. u = [k \in 0 .. n |-> u[k]]
      BY <1>2 DEF EnqueueRun
    <2>2. ASSUME NEW k \in 0 .. n
          PROVE  u[k] = IF k = 0 THEN q ELSE
                          Enqueue(u[k - 1], order[k], Identity(order[k], ms, lt))
      <3>1. CASE k = 0
        BY <1>2, <3>1 DEF EnqueueRun
      <3>2. CASE k # 0
        <4>1. k \in 1 .. n
          BY <3>2
        <4>2. QED
          BY <1>2, <3>2, <4>1 DEF EnqueueRun
      <3>3. QED
        BY <3>1, <3>2
    <2>3. QED
      BY <2>1, <2>2, Zenon
  <1>4. Is(run)
    <2> HIDE DEF Is
    <2>1. QED
      BY <1>3
  <1> HIDE DEF run
  <1>5. EnqueueRun(run, n, q, order, ms, lt)
    <2>1. run = [k \in 0 .. n |-> run[k]] /\ run[0] = q
      BY <1>4
    <2>2. ASSUME NEW k \in 1 .. n
          PROVE  run[k] = Enqueue(run[k - 1], order[k], Identity(order[k], ms, lt))
      <3>1. k \in 0 .. n /\ k # 0
        OBVIOUS
      <3>2. QED
        BY <1>4, <3>1
    <2>3. QED
      BY <2>1, <2>2 DEF EnqueueRun
  <1>6. QED
    BY <1>1, <1>5 DEF order

\* However full the queue is, a section that is in it afterwards is there under its
\* identity if it was put in, and as it was before otherwise.
LEMMA EnqueueAllKeeps ==
  ASSUME NEW S, IsFiniteSet(S), NEW q, NEW ms, NEW lt
  PROVE  LET r == EnqueueAll(q, S, ms, lt) IN
         /\ DOMAIN r \subseteq DOMAIN q \union S
         /\ \A k \in DOMAIN r : r[k].id = IF k \in S THEN Identity(k, ms, lt) ELSE q[k].id
  <1> DEFINE order == SetToSeq(S)
  <1>1. PICK n \in Nat : /\ order \in [1 .. n -> S] /\ Len(order) = n
                         /\ \A x \in S : \E k \in 1 .. n : order[k] = x
    BY OrderVisitsAll
  <1>2. PICK u : EnqueueRun(u, n, q, order, ms, lt) /\ EnqueueAll(q, S, ms, lt) = u[n]
    BY <1>1, EnqueueAllRuns
  <1> HIDE DEF order
  <1> DEFINE Put(m) == {order[i] : i \in 1 .. m}
             Good(m) == /\ DOMAIN u[m] \subseteq DOMAIN q \union Put(m)
                        /\ \A k \in DOMAIN u[m] :
                             u[m][k].id = IF k \in Put(m) THEN Identity(k, ms, lt) ELSE q[k].id
             G == {m \in 0 .. n : Good(m)}
  <1>3. 0 \in G
    <2>1. u[0] = q
      BY <1>2 DEF EnqueueRun
    <2>2. Put(0) = {}
      OBVIOUS
    <2> HIDE DEF Put
    <2>3. Good(0)
      BY <2>1, <2>2
    <2>4. QED
      BY <2>3
  <1>4. ASSUME NEW m \in 1 .. n, m - 1 \in G PROVE m \in G
    <2> DEFINE p == u[m - 1]
               x == order[m]
               id == Identity(x, ms, lt)
    <2>1. Good(m - 1)
      BY <1>4
    <2>2. u[m] = Enqueue(p, x, id)
      BY <1>2 DEF EnqueueRun
    <2>3. Put(m) = Put(m - 1) \union {x}
      <3>1. 1 .. m = (1 .. m - 1) \union {m}
        OBVIOUS
      <3>2. QED
        BY <3>1
    <2>4. /\ DOMAIN u[m] \subseteq DOMAIN p \union {x}
          /\ \A k \in DOMAIN u[m] : u[m][k] = IF k = x THEN QueuedWork(id, x) ELSE p[k]
      <3> HIDE DEF p, x, id
      <3>1. QED
        BY <2>2 DEF Enqueue, Without
    <2>5. QueuedWork(id, x).id = id
      BY DEF QueuedWork
    <2> HIDE DEF Put
    <2>6. Good(m)
      <3>1. DOMAIN u[m] \subseteq DOMAIN q \union Put(m)
        BY <2>1, <2>3, <2>4
      <3>2. ASSUME NEW k \in DOMAIN u[m]
            PROVE  u[m][k].id = IF k \in Put(m) THEN Identity(k, ms, lt) ELSE q[k].id
        <4>1. CASE k = x
          <5>1. u[m][k].id = id /\ k \in Put(m)
            BY <2>3, <2>4, <2>5, <4>1
          <5>2. QED
            BY <4>1, <5>1
        <4>2. CASE k # x
          <5>1. k \in DOMAIN p /\ u[m][k] = p[k] /\ (k \in Put(m) <=> k \in Put(m - 1))
            BY <2>3, <2>4, <4>2
          <5>2. QED
            BY <2>1, <5>1
        <4>3. QED
          BY <4>1, <4>2
      <3>3. QED
        BY <3>1, <3>2
    <2> HIDE DEF Good
    <2>7. QED
      BY <2>6
  <1>5. n \in G
    <2> HIDE DEF G
    <2>1. 0 .. n \subseteq G
      BY <1>1, <1>3, <1>4, UpToInduction
    <2>2. QED
      BY <1>1, <2>1
  <1>6. Put(n) = S
    BY <1>1
  <1> HIDE DEF Put
  <1>7. QED
    BY <1>2, <1>5, <1>6

-----------------------------------------------------------------------------
(* The invariants.                                                           *)

Works == jobs \union {results[i] : i \in DOMAIN results}
Id == [revision : Nat, lifetime : Nat]
Work == [key : Keys, id : Id, generation : Nat, lod : Lods, data : SUBSET Cells]
Region == [instance : Nat, active : Nat, capacity : Nat \ {0}, live : SUBSET Nat]
Mesh == [SectionYs -> SectionMesh]

\* A column that is resident holds cells of its own only.
WorldOf(cs) ==
  /\ cs \in [Columns -> (SUBSET Cells) \union {Absent}]
  /\ \A c \in Columns : cs[c] # Absent => \A p \in cs[c] : ColumnOf(p) = c
MeshesOf(ms) ==
  /\ ms \in [Columns -> Mesh \union {Absent}]
  /\ \A c \in Columns, y \in SectionYs :
       ms[c] # Absent /\ ms[c][y].meshed # Absent => ms[c][y].meshed <= ms[c][y].revision
RegionsOf(rs) ==
  /\ DOMAIN rs \subseteq Int /\ rs \in [DOMAIN rs -> Region]
  /\ \A x \in DOMAIN rs : rs[x].live \subseteq 0 .. rs[x].capacity - 1

\* A column has meshes while it has a lifetime, and only while it is resident.
OwnersOf(cs, ms, lt, next) ==
  /\ next \in Nat \ {0}
  /\ lt \in [Columns -> Nat]
  /\ \A c \in Columns : /\ lt[c] < next
                        /\ ms[c] # Absent <=> lt[c] # 0
                        /\ ms[c] # Absent => cs[c] # Absent
WorkTypes ==
  /\ generation \in Nat
  /\ jobs \subseteq Work /\ results \in Seq(Work)
  /\ \A w \in Works : w.id.lifetime # 0 /\ w.id.lifetime < nextLifetime

TypeInv ==
  /\ WorldOf(columns) /\ unreported \subseteq Int \X SectionYs
  /\ MeshesOf(meshes) /\ OwnersOf(columns, meshes, lifetimes, nextLifetime)
  /\ WorkTypes
  /\ RegionsOf(regions) /\ nextInstance \in Nat

\* What a job was made for is no newer than the section, as long as its column lives;
\* and if it is as new, its snapshot is what the section is to show.
WorkInv ==
  \A w \in Works :
    lifetimes[w.key[1]] = w.id.lifetime =>
      /\ w.generation = generation
      /\ w.id.revision <= Section(w.key).revision
      /\ w.id.revision = Section(w.key).revision /\ w.key \notin unreported
           => w.data = Snapshot(w.key)

-----------------------------------------------------------------------------
(* Cells, sections and columns.                                              *)

LEMMA Division ==
  ASSUME NEW n \in Nat \ {0, 1}, NEW x \in Int
  PROVE  /\ x \div n \in Int /\ x % n \in 0 .. n - 1
         /\ x = (n * (x \div n)) + (x % n)
  OBVIOUS

LEMMA TwiceAsFar ==
  ASSUME NEW n \in Nat \ {0, 1}, NEW d \in Int
  PROVE  /\ n * d \in Int
         /\ d >= 2 => n * d >= 2 * n
         /\ d <= -2 => n * d <= -2 * n
  OBVIOUS

\* A coordinate within one of the a-th interval of n lies in it, or in a neighbour
\* at the border towards it.
LEMMA StepsReach ==
  ASSUME NEW n \in Nat \ {0, 1}, NEW a \in Int, NEW x \in n * a - 1 .. n * a + n
  PROVE  \E d \in Steps(x % n, n) : d \in {-1, 0, 1} /\ a = x \div n + d
  <1> DEFINE q == x \div n
             r == x % n
             d == a - q
  <1>1. q \in Int /\ r \in 0 .. n - 1 /\ x = (n * q) + r
    BY Division
  <1> HIDE DEF q, r
  <1>2. n * a = n * q + n * d
    BY <1>1
  <1>3. d \in Int /\ a = q + d /\ n * d \in Int /\ n * q \in Int
    BY <1>1
  <1> HIDE DEF d
  <1>4. n * d - 1 <= r /\ r <= n * d + n
    BY <1>1, <1>2, <1>3
  <1>5. d \in {-1, 0, 1}
    BY <1>1, <1>3, <1>4, TwiceAsFar
  <1>6. CASE d = 0
    BY <1>3, <1>6 DEF Steps, q, r
  <1>7. CASE d = 1
    <2>1. r = n - 1 /\ r # 0
      BY <1>1, <1>4, <1>7
    <2>2. QED
      BY <1>3, <1>7, <2>1 DEF Steps, q, r
  <1>8. CASE d = -1
    <2>1. r = 0
      BY <1>1, <1>4, <1>8
    <2>2. QED
      BY <1>3, <1>8, <2>1 DEF Steps, q, r
  <1>9. QED
    BY <1>5, <1>6, <1>7, <1>8

LEMMA KeyTypes ==
  ASSUME NEW k \in Keys
  PROVE  k[1] \in Columns /\ k[1] \in Int /\ k[2] \in SectionYs /\ k[2] \in Int /\ k = <<k[1], k[2]>>
  <1>1. k[1] \in Columns /\ k[2] \in SectionYs /\ k = <<k[1], k[2]>>
    BY DEF Keys
  <1>2. QED
    BY <1>1, SectionMeshesAssumption

LEMMA CellTypes ==
  ASSUME NEW p \in Cells
  PROVE  p[1] \in Int /\ p[2] \in Int /\ p = <<p[1], p[2]>> /\ ColumnOf(p) \in Int
  <1>1. p[1] \in Int /\ p[2] \in Int /\ p = <<p[1], p[2]>>
    BY SectionMeshesAssumption
  <1>2. Width \in Nat \ {0, 1}
    BY SectionMeshesAssumption
  <1>3. QED
    BY <1>1, <1>2, Division DEF ColumnOf

\* A cell that a section's snapshot may show has the section among its dependents and
\* lies in the section's column or one beside it.
LEMMA HaloDepends ==
  ASSUME NEW k \in Keys, NEW p \in Cells, p \in Halo(k)
  PROVE  /\ k \in Dependents(p)
         /\ k[1] = ColumnOf(p) \/ k[1] \in Surrounding(ColumnOf(p))
  <1>1. Width \in Nat \ {0, 1} /\ Height \in Nat \ {0, 1}
    BY SectionMeshesAssumption
  <1>2. /\ k[1] \in Int /\ k[2] \in Int /\ k = <<k[1], k[2]>>
        /\ p[1] \in Int /\ p[2] \in Int /\ ColumnOf(p) \in Int
    BY KeyTypes, CellTypes
  <1>3. /\ p[1] \in Width * k[1] - 1 .. Width * k[1] + Width
        /\ p[2] \in Height * k[2] - 1 .. Height * k[2] + Height
    BY DEF Halo
  <1>4. PICK dx \in Steps(p[1] % Width, Width) :
          dx \in {-1, 0, 1} /\ k[1] = p[1] \div Width + dx
    BY <1>1, <1>2, <1>3, StepsReach
  <1>5. PICK dy \in Steps(p[2] % Height, Height) : k[2] = p[2] \div Height + dy
    BY <1>1, <1>2, <1>3, StepsReach
  <1>6. k \in Dependents(p)
    BY <1>2, <1>4, <1>5 DEF Dependents
  <1>7. QED
    BY <1>2, <1>4, <1>6 DEF ColumnOf, Surrounding

\* What a section shows of a world.
SeenIn(cs, k) == {p \in Halo(k) : \E c \in Columns : cs[c] # Absent /\ p \in cs[c]}

LEMMA SnapshotIs ==
  ASSUME NEW k
  PROVE  Snapshot(k) = SeenIn(columns, k) /\ Snapshot(k)' = SeenIn(columns', k)
  <1>1. Halo(k)' = Halo(k)
    BY DEF Halo
  <1>2. ASSUME NEW cs
        PROVE  Halo(k) \intersect UNION {cs[c] : c \in {d \in Columns : cs[d] # Absent}} = SeenIn(cs, k)
    <2> DEFINE there == {d \in Columns : cs[d] # Absent}
               held == {cs[c] : c \in there}
    <2>1. \A c : c \in there <=> c \in Columns /\ cs[c] # Absent
      OBVIOUS
    <2> HIDE DEF there
    <2>2. ASSUME NEW p PROVE p \in UNION held <=> \E c \in there : p \in cs[c]
      OBVIOUS
    <2> HIDE DEF held
    <2>3. Halo(k) \intersect UNION held = {p \in Halo(k) : \E c \in there : p \in cs[c]}
      BY <2>2
    <2>4. QED
      BY <2>1, <2>3 DEF SeenIn, held, there
  <1>3. QED
    BY <1>1, <1>2 DEF Snapshot

LEMMA SnapshotType ==
  ASSUME WorldOf(columns), NEW k
  PROVE  Snapshot(k) \in SUBSET Cells
  <1>1. Snapshot(k) = SeenIn(columns, k)
    BY SnapshotIs
  <1>2. ASSUME NEW c \in Columns, columns[c] # Absent PROVE columns[c] \subseteq Cells
    <2>1. columns[c] \in (SUBSET Cells) \union {Absent}
      BY DEF WorldOf
    <2>2. QED
      BY <1>2, <2>1
  <1>3. QED
    BY <1>1, <1>2 DEF SeenIn

\* The same world around a section is the same snapshot.
LEMMA SameSnapshot ==
  ASSUME NEW k \in Keys,
         \A p \in Halo(k) : (\E c \in Columns : columns[c] # Absent /\ p \in columns[c])
                        <=> (\E c \in Columns : columns'[c] # Absent /\ p \in columns'[c])
  PROVE  Snapshot(k)' = Snapshot(k)
  <1>1. SeenIn(columns', k) = SeenIn(columns, k)
    BY DEF SeenIn
  <1>2. QED
    BY <1>1, SnapshotIs

-----------------------------------------------------------------------------
(* Meshes and columns as the handlers rewrite them.                          *)

LEMMA AbsentIsNone ==
  /\ \A n \in Int : n # Absent
  /\ \A h \in Handle : h # Absent
  /\ \A cells \in SUBSET Cells : cells # Absent
  /\ \A f \in [Lods -> Level] : f # Absent
  /\ \A m \in Mesh : m # Absent
  BY SectionMeshesAssumption DEF Mesh

LEMMA SectionTypes ==
  ASSUME NEW ms, MeshesOf(ms), NEW c \in Columns, NEW y \in SectionYs, ms[c] # Absent
  PROVE  /\ ms[c] \in Mesh /\ ms[c][y] \in SectionMesh
         /\ ms[c][y].revision \in Nat /\ ms[c][y].meshed \in Nat \union {Absent}
         /\ ms[c][y].levels \in [Lods -> Level] \union {Absent}
         /\ ms[c][y].built \in SUBSET Lods
         /\ ms[c][y].meshed # Absent => ms[c][y].meshed <= ms[c][y].revision
  <1>1. ms[c] \in Mesh
    BY DEF MeshesOf
  <1>2. ms[c][y] \in SectionMesh
    BY <1>1 DEF Mesh
  <1>3. QED
    BY <1>1, <1>2 DEF SectionMesh, MeshesOf

\* Invalidating sections raises their revisions and changes nothing else.
Raised(s) == [s EXCEPT !.revision = @ + 1]

LEMMA RaisedType ==
  ASSUME NEW s \in SectionMesh
  PROVE  /\ Raised(s) \in SectionMesh
         /\ Raised(s).revision = s.revision + 1 /\ Raised(s).meshed = s.meshed
         /\ Raised(s).levels = s.levels /\ Raised(s).built = s.built
  BY DEF Raised, SectionMesh

LEMMA InvalidatedTypes ==
  ASSUME NEW ms, MeshesOf(ms), NEW S
  PROVE  LET newer == InvalidatedMeshes(ms, S) IN
         /\ MeshesOf(newer)
         /\ \A c \in Columns : newer[c] # Absent <=> ms[c] # Absent
         /\ \A k \in Keys : ms[k[1]] # Absent =>
              newer[k[1]][k[2]] = IF k \in S THEN Raised(ms[k[1]][k[2]]) ELSE ms[k[1]][k[2]]
  <1> DEFINE newer == InvalidatedMeshes(ms, S)
  <1>1. ASSUME NEW c \in Columns, ms[c] # Absent
        PROVE  /\ newer[c] = [y \in SectionYs |-> IF <<c, y>> \in S THEN Raised(ms[c][y]) ELSE ms[c][y]]
               /\ newer[c] \in Mesh /\ newer[c] # Absent
    <2>1. newer[c] = [y \in SectionYs |-> IF <<c, y>> \in S THEN Raised(ms[c][y]) ELSE ms[c][y]]
      BY <1>1 DEF InvalidatedMeshes, Raised
    <2>2. \A y \in SectionYs : ms[c][y] \in SectionMesh /\ Raised(ms[c][y]) \in SectionMesh
      BY <1>1, SectionTypes, RaisedType
    <2>3. newer[c] \in Mesh
      <3> HIDE DEF newer
      <3>1. QED
        BY <2>1, <2>2 DEF Mesh
    <2>4. QED
      BY <2>1, <2>3, AbsentIsNone
  <1>2. ASSUME NEW c \in Columns, ms[c] = Absent PROVE newer[c] = Absent
    BY <1>2 DEF InvalidatedMeshes
  <1>3. newer = [c \in Columns |-> newer[c]]
    BY DEF InvalidatedMeshes
  <1> HIDE DEF newer
  <1>4. newer \in [Columns -> Mesh \union {Absent}]
    BY <1>1, <1>2, <1>3
  <1>5. ASSUME NEW c \in Columns, NEW y \in SectionYs, newer[c] # Absent, newer[c][y].meshed # Absent
        PROVE  newer[c][y].meshed <= newer[c][y].revision
    <2>1. ms[c] # Absent
      BY <1>2, <1>5
    <2>2. newer[c][y] = IF <<c, y>> \in S THEN Raised(ms[c][y]) ELSE ms[c][y]
      BY <1>1, <2>1
    <2>3. ms[c][y] \in SectionMesh /\ ms[c][y].revision \in Nat /\ ms[c][y].meshed \in Nat \union {Absent}
          /\ (ms[c][y].meshed # Absent => ms[c][y].meshed <= ms[c][y].revision)
      BY <2>1, SectionTypes
    <2>4. newer[c][y].meshed = ms[c][y].meshed
          /\ newer[c][y].revision \in {ms[c][y].revision, ms[c][y].revision + 1}
      BY <2>2, <2>3, RaisedType
    <2>5. QED
      BY <1>5, <2>3, <2>4
  <1>6. MeshesOf(newer)
    BY <1>4, <1>5 DEF MeshesOf
  <1>7. ASSUME NEW k \in Keys, ms[k[1]] # Absent
        PROVE  newer[k[1]][k[2]] = IF k \in S THEN Raised(ms[k[1]][k[2]]) ELSE ms[k[1]][k[2]]
    <2> DEFINE c == k[1]
               y == k[2]
    <2>1. c \in Columns /\ y \in SectionYs /\ k = <<c, y>>
      BY KeyTypes
    <2> HIDE DEF c, y
    <2>2. newer[c][y] = IF <<c, y>> \in S THEN Raised(ms[c][y]) ELSE ms[c][y]
      <3>1. ms[c] # Absent
        BY <1>7 DEF c
      <3>2. QED
        BY <1>1, <2>1, <3>1
    <2>3. QED
      BY <2>1, <2>2 DEF c, y
  <1>8. QED
    BY <1>1, <1>2, <1>6, <1>7 DEF newer

\* Known sections are those of the columns that have meshes.
LEMMA KnownIs ==
  ASSUME NEW cs, NEW ms, NEW lt, NEW next, OwnersOf(cs, ms, lt, next), NEW k
  PROVE  Known(k, ms, lt) <=> k \in Keys /\ ms[k[1]] # Absent
  BY KeyTypes DEF Known, OwnersOf

LEMMA SectionsAre ==
  ASSUME NEW k
  PROVE  /\ k \in Sections <=> k \in Keys /\ meshes[k[1]] # Absent
         /\ k \in Sections' <=> k \in Keys /\ meshes'[k[1]] # Absent
  <1>1. Keys' = Keys
    BY DEF Keys
  <1>2. QED
    BY <1>1 DEF Sections

\* Toggling cells changes the resident columns they lie in, and those only there.
LEMMA MarkedTypes ==
  ASSUME NEW cs, WorldOf(cs), NEW cells \in SUBSET Cells
  PROVE  LET m == Marked(cs, cells) IN
         /\ WorldOf(m)
         /\ \A c \in Columns : m[c] # Absent <=> cs[c] # Absent
         /\ \A c \in Columns : cs[c] # Absent =>
              \A p : p \notin cells => (p \in m[c] <=> p \in cs[c])
  <1> DEFINE m == Marked(cs, cells)
             own(c) == {p \in cells : ColumnOf(p) = c}
  <1>1. ASSUME NEW c \in Columns, cs[c] # Absent
        PROVE  /\ m[c] = (cs[c] \ own(c)) \union (own(c) \ cs[c])
               /\ m[c] \in SUBSET Cells /\ m[c] # Absent
               /\ \A p \in m[c] : ColumnOf(p) = c
    <2>1. m[c] = (cs[c] \ own(c)) \union (own(c) \ cs[c])
      BY <1>1 DEF Marked
    <2>2. cs[c] \in SUBSET Cells /\ \A p \in cs[c] : ColumnOf(p) = c
      BY <1>1 DEF WorldOf
    <2>3. m[c] \in SUBSET Cells /\ \A p \in m[c] : ColumnOf(p) = c
      <3> HIDE DEF m
      <3>1. QED
        BY <2>1, <2>2
    <2>4. QED
      BY <2>1, <2>3, AbsentIsNone
  <1>2. ASSUME NEW c \in Columns, cs[c] = Absent PROVE m[c] = Absent
    BY <1>2 DEF Marked
  <1>3. m = [c \in Columns |-> m[c]]
    BY DEF Marked
  <1>4. \A c \in Columns : own(c) \subseteq cells
    OBVIOUS
  <1> HIDE DEF m, own
  <1>5. m \in [Columns -> (SUBSET Cells) \union {Absent}]
    BY <1>1, <1>2, <1>3
  <1>6. WorldOf(m)
    BY <1>1, <1>2, <1>5 DEF WorldOf
  <1>7. QED
    BY <1>1, <1>2, <1>4, <1>6 DEF m

\* A section's snapshot changes only with the columns around it, and there only with
\* cells the section depends on.
LEMMA SnapshotKept ==
  ASSUME NEW k \in Keys, WorldOf(columns), WorldOf(columns'),
         \A d \in Columns : k[1] = d \/ k[1] \in Surrounding(d) =>
           /\ columns'[d] # Absent <=> columns[d] # Absent
           /\ columns[d] # Absent =>
                \A p \in Cells : k \in Dependents(p) => (p \in columns'[d] <=> p \in columns[d])
  PROVE  Snapshot(k)' = Snapshot(k)
  <1>1. ASSUME NEW cs, WorldOf(cs), NEW p \in Halo(k), NEW d \in Columns, cs[d] # Absent, p \in cs[d]
        PROVE  /\ p \in Cells /\ k \in Dependents(p)
               /\ k[1] = d \/ k[1] \in Surrounding(d)
    <2>1. cs[d] \in SUBSET Cells /\ ColumnOf(p) = d
      BY <1>1 DEF WorldOf
    <2>2. p \in Cells
      BY <1>1, <2>1
    <2>3. QED
      BY <1>1, <2>1, <2>2, HaloDepends
  <1>2. ASSUME NEW p \in Halo(k), NEW d \in Columns, columns[d] # Absent, p \in columns[d]
        PROVE  columns'[d] # Absent /\ p \in columns'[d]
    BY <1>1, <1>2
  <1>3. ASSUME NEW p \in Halo(k), NEW d \in Columns, columns'[d] # Absent, p \in columns'[d]
        PROVE  columns[d] # Absent /\ p \in columns[d]
    BY <1>1, <1>3
  <1>4. QED
    BY <1>2, <1>3, SameSnapshot

-----------------------------------------------------------------------------
(* What a step may do to a section without showing what is no longer so.     *)

Renewed(k) ==
  /\ lifetimes'[k[1]] >= nextLifetime
  /\ meshes'[k[1]][k[2]].levels = Absent
Outdated(k) ==
  /\ lifetimes'[k[1]] = lifetimes[k[1]]
  /\ meshes'[k[1]][k[2]] = Raised(meshes[k[1]][k[2]])
Untouched(k) ==
  /\ lifetimes'[k[1]] = lifetimes[k[1]]
  /\ meshes'[k[1]][k[2]] = meshes[k[1]][k[2]]
  /\ k \notin unreported' => k \notin unreported /\ Snapshot(k)' = Snapshot(k)

LEMMA WorkIs ==
  ASSUME WorkTypes, NEW w \in Works
  PROVE  /\ w \in Work /\ w.key \in Keys /\ w.id \in Id /\ w.id.revision \in Nat
         /\ w.id.lifetime \in Nat /\ w.id.lifetime # 0 /\ w.id.lifetime < nextLifetime
         /\ w.lod \in Lods /\ w.data \in SUBSET Cells
  <1>1. w \in Work
    <2>1. CASE w \in jobs
      BY <2>1 DEF WorkTypes
    <2>2. CASE \E i \in DOMAIN results : w = results[i]
      BY <2>2, ElementOfSeq, LenProperties DEF WorkTypes
    <2>3. QED
      BY <2>1, <2>2 DEF Works
  <1>2. w.id.lifetime # 0 /\ w.id.lifetime < nextLifetime
    BY DEF WorkTypes
  <1>3. QED
    BY <1>1, <1>2 DEF Work, Id

LEMMA SectionIs ==
  ASSUME TypeInv, NEW k \in Keys, lifetimes[k[1]] # 0
  PROVE  /\ meshes[k[1]] # Absent /\ k \in Sections /\ Section(k) \in SectionMesh
         /\ Section(k).revision \in Nat /\ Section(k).meshed \in Nat \union {Absent}
         /\ Section(k).levels \in [Lods -> Level] \union {Absent}
         /\ Section(k).built \in SUBSET Lods
         /\ Section(k).meshed # Absent => Section(k).meshed <= Section(k).revision
  <1>1. k[1] \in Columns /\ k[2] \in SectionYs
    BY KeyTypes
  <1>2. meshes[k[1]] # Absent /\ MeshesOf(meshes)
    BY <1>1 DEF TypeInv, OwnersOf
  <1>3. QED
    BY <1>1, <1>2, SectionTypes, SectionsAre DEF Section

LEMMA StillShows ==
  ASSUME TypeInv, TypeInv', WorkInv, ShowsCurrent,
         Works' \subseteq Works, generation' = generation,
         \A k \in Keys : meshes'[k[1]] # Absent => Renewed(k) \/ Outdated(k) \/ Untouched(k)
  PROVE  WorkInv' /\ ShowsCurrent'
  <1>1. ASSUME NEW k \in Keys, meshes'[k[1]] # Absent, ~Renewed(k)
        PROVE  /\ lifetimes[k[1]] # 0 /\ lifetimes'[k[1]] = lifetimes[k[1]]
               /\ k \in Sections /\ Section(k) \in SectionMesh /\ Section(k).revision \in Nat
               /\ Section(k).meshed \in Nat \union {Absent}
               /\ Section(k).meshed # Absent => Section(k).meshed <= Section(k).revision
    <2>1. lifetimes'[k[1]] = lifetimes[k[1]]
      BY <1>1 DEF Outdated, Untouched
    <2>2. lifetimes'[k[1]] # 0
      BY <1>1, KeyTypes DEF TypeInv, OwnersOf
    <2>3. QED
      BY <2>1, <2>2, SectionIs
  <1>2. ASSUME NEW w \in Works', lifetimes'[w.key[1]] = w.id.lifetime
        PROVE  /\ w.generation = generation'
               /\ w.id.revision <= Section(w.key)'.revision
               /\ w.id.revision = Section(w.key)'.revision /\ w.key \notin unreported'
                    => w.data = Snapshot(w.key)'
    <2> DEFINE k == w.key
    <2>1. /\ w \in Works /\ k \in Keys /\ w.id.revision \in Nat
          /\ w.id.lifetime # 0 /\ w.id.lifetime \in Nat /\ w.id.lifetime < nextLifetime
      BY <1>2, WorkIs DEF TypeInv
    <2>2. meshes'[k[1]] # Absent
      BY <1>2, <2>1, KeyTypes DEF TypeInv, OwnersOf
    <2>3. ~Renewed(k)
      BY <1>2, <2>1 DEF Renewed, TypeInv, OwnersOf
    <2>4. lifetimes[k[1]] = w.id.lifetime /\ Section(k) \in SectionMesh /\ Section(k).revision \in Nat
      BY <1>1, <1>2, <2>1, <2>2, <2>3
    <2>5. /\ w.generation = generation
          /\ w.id.revision <= Section(k).revision
          /\ w.id.revision = Section(k).revision /\ k \notin unreported => w.data = Snapshot(k)
      BY <2>1, <2>4 DEF WorkInv
    <2>6. Section(k)' = meshes'[k[1]][k[2]] /\ Section(k) = meshes[k[1]][k[2]]
      BY DEF Section
    <2> HIDE DEF k
    <2>7. CASE Outdated(k)
      <3>1. Section(k)'.revision = Section(k).revision + 1
        BY <2>4, <2>6, <2>7, RaisedType DEF Outdated
      <3>2. QED
        BY <2>1, <2>4, <2>5, <3>1 DEF k
    <2>8. CASE Untouched(k)
      <3>1. Section(k)' = Section(k)
        BY <2>6, <2>8 DEF Untouched
      <3>2. QED
        BY <2>5, <2>8, <3>1 DEF Untouched, k
    <2>9. QED
      BY <2>1, <2>2, <2>3, <2>7, <2>8
  <1>3. ASSUME NEW k \in Sections' \ unreported', ~NeedsRebuild(Section(k)'), NEW l \in Section(k)'.built
        PROVE  Section(k)'.levels[l].data = Snapshot(k)'
    <2>1. k \in Keys /\ meshes'[k[1]] # Absent
      BY SectionsAre
    <2>2. Section(k)' = meshes'[k[1]][k[2]] /\ Section(k) = meshes[k[1]][k[2]]
      BY DEF Section
    <2>3. ~Renewed(k)
      BY <1>3, <2>2 DEF Renewed, NeedsRebuild
    <2>4. /\ k \in Sections /\ Section(k) \in SectionMesh /\ Section(k).revision \in Nat
          /\ Section(k).meshed \in Nat \union {Absent}
          /\ Section(k).meshed # Absent => Section(k).meshed <= Section(k).revision
      BY <1>1, <2>1, <2>3
    <2>5. ~Outdated(k)
      <3>1. SUFFICES ASSUME Outdated(k) PROVE FALSE
        OBVIOUS
      <3>2. Section(k)'.revision = Section(k).revision + 1 /\ Section(k)'.meshed = Section(k).meshed
        BY <2>2, <2>4, <3>1, RaisedType DEF Outdated
      <3>3. Section(k)'.meshed = Section(k)'.revision
        BY <1>3 DEF NeedsRebuild
      <3>4. Section(k).meshed # Absent
        BY <2>4, <3>2, <3>3, AbsentIsNone
      <3>5. QED
        BY <2>4, <3>2, <3>3, <3>4
    <2>6. Untouched(k)
      BY <2>1, <2>3, <2>5
    <2>7. Section(k)' = Section(k) /\ k \notin unreported /\ Snapshot(k)' = Snapshot(k)
      BY <1>3, <2>2, <2>6 DEF Untouched
    <2>8. Section(k).levels[l].data = Snapshot(k)
      BY <1>3, <2>4, <2>7 DEF ShowsCurrent
    <2>9. QED
      BY <2>7, <2>8
  <1>4. WorkInv'
    BY <1>2 DEF WorkInv
  <1>5. ShowsCurrent'
    BY <1>3 DEF ShowsCurrent, NeedsRebuild
  <1>6. QED
    BY <1>4, <1>5

-----------------------------------------------------------------------------
(* Regions and their arenas.                                                 *)

RegionIs(g) == g \in Region /\ g.live \subseteq 0 .. g.capacity - 1

LEMMA RegionParts ==
  ASSUME NEW g, RegionIs(g)
  PROVE  /\ g.instance \in Nat /\ g.active \in Nat /\ g.capacity \in Nat \ {0}
         /\ g.live \in SUBSET Nat /\ g.live \subseteq 0 .. g.capacity - 1
         /\ IsFiniteSet(g.live)
  <1>1. /\ g.instance \in Nat /\ g.active \in Nat /\ g.capacity \in Nat \ {0}
        /\ g.live \in SUBSET Nat /\ g.live \subseteq 0 .. g.capacity - 1
    BY DEF RegionIs, Region
  <1>2. IsFiniteSet(0 .. g.capacity - 1)
    <2>1. 0 \in Int /\ g.capacity - 1 \in Int
      BY <1>1
    <2>2. QED
      BY <2>1, FS_Interval
  <1>3. QED
    BY <1>1, <1>2, FS_Subset

LEMMA NewRegionIs ==
  ASSUME NEW n \in Nat
  PROVE  /\ RegionIs(NewRegion(n))
         /\ NewRegion(n).instance = n /\ NewRegion(n).active = 0 /\ NewRegion(n).live = {}
  BY SectionMeshesAssumption DEF RegionIs, NewRegion, Region

LEMMA FreedIs ==
  ASSUME NEW g, RegionIs(g), NEW hs
  PROVE  /\ RegionIs(Freed(g, hs))
         /\ Freed(g, hs).instance = g.instance /\ Freed(g, hs).active = g.active
         /\ Freed(g, hs).live = g.live \ {h.token : h \in {x \in hs : IsLive(g, x)}}
  <1> DEFINE T == {h.token : h \in {x \in hs : IsLive(g, x)}}
  <1>1. Freed(g, hs) = [g EXCEPT !.live = @ \ T]
    BY DEF Freed
  <1> HIDE DEF T
  <1>2. QED
    BY <1>1 DEF RegionIs, Region, T

\* There is a free token, after the live ones at the latest.
LEMMA FreeTokenIs ==
  ASSUME NEW g, RegionIs(g)
  PROVE  FreeToken(g) \in 0 .. g.capacity /\ FreeToken(g) \notin g.live
  <1> DEFINE F == (0 .. g.capacity) \ g.live
  <1>1. g.capacity \in Nat \ {0} /\ g.live \subseteq 0 .. g.capacity - 1
    BY RegionParts
  <1>2. F \in SUBSET Nat /\ g.capacity \in F
    BY <1>1
  <1> HIDE DEF F
  <1>3. \E n \in F : \A m \in F : n =< m
    BY <1>2, LeastNatural
  <1>4. Min(F) \in F
    BY <1>3 DEF Min
  <1>5. QED
    BY <1>4 DEF FreeToken, F

LEMMA AllocatedIs ==
  ASSUME NEW g, RegionIs(g)
  PROVE  /\ RegionIs(Allocated(g))
         /\ Allocated(g).instance = g.instance /\ Allocated(g).active = g.active
         /\ Allocated(g).live = g.live \union {FreeToken(g)}
  <1> DEFINE t == FreeToken(g)
             n == g.capacity
             m == IF t < n THEN n ELSE 2 * n
  <1>1. t \in 0 .. n
    BY FreeTokenIs
  <1>2. Allocated(g) = [g EXCEPT !.live = @ \union {t}, !.capacity = m]
    BY DEF Allocated
  <1>3. n \in Nat \ {0} /\ g.live \subseteq 0 .. n - 1
    BY RegionParts
  <1> HIDE DEF t
  <1>4. m \in Nat \ {0} /\ n <= m /\ t \in 0 .. m - 1
    BY <1>1, <1>3
  <1>5. g.live \union {t} \subseteq 0 .. m - 1 /\ g.live \union {t} \in SUBSET Nat
    BY <1>3, <1>4
  <1> HIDE DEF m, n
  <1>6. g \in Region
    BY DEF RegionIs
  <1>7. /\ Allocated(g) \in Region /\ Allocated(g).capacity = m
        /\ Allocated(g).instance = g.instance /\ Allocated(g).active = g.active
        /\ Allocated(g).live = g.live \union {t}
    BY <1>2, <1>4, <1>5, <1>6 DEF Region
  <1>8. QED
    BY <1>5, <1>7 DEF RegionIs, t

LEMMA RegionsAre ==
  ASSUME NEW rs
  PROVE  /\ RegionsOf(rs) => \A x \in DOMAIN rs : RegionIs(rs[x])
         /\ DOMAIN rs \subseteq Int /\ rs = [x \in DOMAIN rs |-> rs[x]]
              /\ (\A x \in DOMAIN rs : RegionIs(rs[x])) => RegionsOf(rs)
  BY DEF RegionsOf, RegionIs

\* What is left of a region when a column goes.
LeftOf(g, m) ==
  [Freed(g, MeshHandles(m)) EXCEPT
     !.active = IF Registered(m, g) /\ @ > 0 THEN @ - 1 ELSE @]

LEMMA LeftIs ==
  ASSUME NEW g, RegionIs(g), NEW m
  PROVE  /\ RegionIs(LeftOf(g, m))
         /\ LeftOf(g, m).instance = g.instance
         /\ LeftOf(g, m).live = Freed(g, MeshHandles(m)).live
         /\ LeftOf(g, m).active = IF Registered(m, g) /\ g.active > 0 THEN g.active - 1 ELSE g.active
  <1> DEFINE f == Freed(g, MeshHandles(m))
             a == IF Registered(m, g) /\ f.active > 0 THEN f.active - 1 ELSE f.active
  <1>1. RegionIs(f) /\ f.instance = g.instance /\ f.active = g.active
    BY FreedIs
  <1>2. LeftOf(g, m) = [f EXCEPT !.active = a]
    BY DEF LeftOf
  <1> HIDE DEF f
  <1>3. a \in Nat
    BY <1>1, RegionParts
  <1> HIDE DEF a
  <1>4. /\ RegionIs(LeftOf(g, m))
        /\ LeftOf(g, m).instance = f.instance
        /\ LeftOf(g, m).live = f.live /\ LeftOf(g, m).active = a
    BY <1>1, <1>2, <1>3 DEF RegionIs, Region
  <1>5. QED
    BY <1>1, <1>4 DEF a, f

LEMMA ReleaseMeshIs ==
  ASSUME NEW rs, NEW c \in Columns
  PROVE  LET x == RegionOf(c)  left == LeftOf(rs[x], meshes[c])  r == ReleaseMesh(rs, c) IN
         \/ x \notin DOMAIN rs /\ r = rs
         \/ /\ x \in DOMAIN rs /\ left.active = 0 /\ left.live = {}
            /\ DOMAIN r = DOMAIN rs \ {x} /\ r = [z \in DOMAIN r |-> rs[z]]
         \/ /\ x \in DOMAIN rs /\ ~(left.active = 0 /\ left.live = {})
            /\ r = [rs EXCEPT ![x] = left]
  <1> DEFINE x == RegionOf(c)
             left == LeftOf(rs[x], meshes[c])
             r == ReleaseMesh(rs, c)
  <1>1. x \notin DOMAIN rs => r = rs
    BY DEF ReleaseMesh
  <1>2. x \in DOMAIN rs => r = IF left.active = 0 /\ left.live = {} THEN Without(rs, {x})
                               ELSE [rs EXCEPT ![x] = left]
    BY DEF ReleaseMesh, LeftOf
  <1> HIDE DEF left, r, x
  <1>3. DOMAIN Without(rs, {x}) = DOMAIN rs \ {x}
        /\ Without(rs, {x}) = [z \in DOMAIN rs \ {x} |-> rs[z]]
    BY DEF Without
  <1>4. QED
    BY <1>1, <1>2, <1>3 DEF left, r, x

LEMMA ReleaseMeshTypes ==
  ASSUME NEW rs, RegionsOf(rs), NEW c \in Columns
  PROVE  RegionsOf(ReleaseMesh(rs, c))
  <1> DEFINE x == RegionOf(c)
             left == LeftOf(rs[x], meshes[c])
             r == ReleaseMesh(rs, c)
  <1>1. \/ x \notin DOMAIN rs /\ r = rs
        \/ /\ x \in DOMAIN rs /\ left.active = 0 /\ left.live = {}
           /\ DOMAIN r = DOMAIN rs \ {x} /\ r = [z \in DOMAIN r |-> rs[z]]
        \/ /\ x \in DOMAIN rs /\ ~(left.active = 0 /\ left.live = {})
           /\ r = [rs EXCEPT ![x] = left]
    BY ReleaseMeshIs
  <1>2. x \in DOMAIN rs => RegionIs(left)
    BY LeftIs, RegionsAre
  <1>3. /\ DOMAIN rs \subseteq Int /\ rs = [z \in DOMAIN rs |-> rs[z]]
        /\ \A z \in DOMAIN rs : RegionIs(rs[z])
    BY RegionsAre DEF RegionsOf
  <1> HIDE DEF x, left, r
  <1>4. /\ DOMAIN r \subseteq Int /\ r = [z \in DOMAIN r |-> r[z]]
        /\ \A z \in DOMAIN r : RegionIs(r[z])
    BY <1>1, <1>2, <1>3
  <1>5. QED
    BY <1>4, RegionsAre DEF r

\* What the regions become as columns are released one by one.
ReleaseRun(u, n, order) ==
  /\ u = [k \in 0 .. n |-> u[k]] /\ u[0] = regions
  /\ \A k \in 1 .. n : u[k] = ReleaseMesh(u[k - 1], order[k])

LEMMA ReleaseRuns ==
  ASSUME NEW n \in Nat, NEW order
  PROVE  \E u : ReleaseRun(u, n, order)
  <1> DEFINE G == {m \in 0 .. n : \E u : ReleaseRun(u, m, order)}
  <1>1. 0 \in G
    <2>1. ReleaseRun([k \in 0 .. 0 |-> regions], 0, order)
      BY DEF ReleaseRun
    <2>2. QED
      BY <2>1
  <1>2. ASSUME NEW m \in 1 .. n, m - 1 \in G PROVE m \in G
    <2>1. PICK u : ReleaseRun(u, m - 1, order)
      BY <1>2
    <2> DEFINE step == ReleaseMesh(u[m - 1], order[m])
               v == [k \in 0 .. m |-> IF k = m THEN step ELSE u[k]]
    <2> HIDE DEF step
    <2>2. v = [k \in 0 .. m |-> v[k]] /\ v[0] = regions /\ v[m] = step
      BY <2>1 DEF ReleaseRun
    <2>3. \A k \in 0 .. m - 1 : v[k] = u[k]
      OBVIOUS
    <2> HIDE DEF v
    <2>4. ASSUME NEW k \in 1 .. m
          PROVE  v[k] = ReleaseMesh(v[k - 1], order[k])
      <3>1. k - 1 \in 0 .. m - 1 /\ v[k - 1] = u[k - 1]
        BY <2>3
      <3>2. CASE k = m
        BY <2>2, <3>1, <3>2 DEF step
      <3>3. CASE k # m
        <4>1. k \in 1 .. m - 1 /\ v[k] = u[k]
          BY <2>3, <3>3
        <4>2. u[k] = ReleaseMesh(u[k - 1], order[k])
          BY <2>1, <4>1 DEF ReleaseRun
        <4>3. QED
          BY <3>1, <4>1, <4>2
      <3>4. QED
        BY <3>2, <3>3
    <2>5. ReleaseRun(v, m, order)
      BY <2>2, <2>4 DEF ReleaseRun
    <2>6. QED
      BY <2>5
  <1> HIDE DEF G
  <1>3. 0 .. n \subseteq G
    BY <1>1, <1>2, UpToInduction
  <1>4. n \in G
    BY <1>3
  <1>5. QED
    BY <1>4 DEF G

LEMMA ReleaseMeshesRun ==
  ASSUME NEW S, IsFiniteSet(S), NEW n \in Nat, Len(SetToSeq(S)) = n
  PROVE  \E u : /\ ReleaseRun(u, n, SetToSeq(S))
                /\ ReleaseMeshes(S) = u[n]
  <1> DEFINE order == SetToSeq(S)
             Is(u) == u = [k \in 0 .. n |-> IF k = 0 THEN regions ELSE
                              ReleaseMesh(u[k - 1], order[k])]
             run == CHOOSE u : Is(u)
  <1>1. ReleaseMeshes(S) = run[n]
    BY DEF ReleaseMeshes
  <1> HIDE DEF order
  <1>2. PICK u : ReleaseRun(u, n, order)
    BY ReleaseRuns
  <1>3. Is(u)
    <2>1. u = [k \in 0 .. n |-> u[k]]
      BY <1>2 DEF ReleaseRun
    <2>2. ASSUME NEW k \in 0 .. n
          PROVE  u[k] = IF k = 0 THEN regions ELSE
                          ReleaseMesh(u[k - 1], order[k])
      <3>1. CASE k = 0
        BY <1>2, <3>1 DEF ReleaseRun
      <3>2. CASE k # 0
        <4>1. k \in 1 .. n
          BY <3>2
        <4>2. QED
          BY <1>2, <3>2, <4>1 DEF ReleaseRun
      <3>3. QED
        BY <3>1, <3>2
    <2>3. QED
      BY <2>1, <2>2, Zenon
  <1>4. Is(run)
    <2> HIDE DEF Is
    <2>1. QED
      BY <1>3
  <1> HIDE DEF run
  <1>5. ReleaseRun(run, n, order)
    <2>1. run = [k \in 0 .. n |-> run[k]] /\ run[0] = regions
      BY <1>4
    <2>2. ASSUME NEW k \in 1 .. n
          PROVE  run[k] = ReleaseMesh(run[k - 1], order[k])
      <3>1. k \in 0 .. n /\ k # 0
        OBVIOUS
      <3>2. QED
        BY <1>4, <3>1
    <2>3. QED
      BY <2>1, <2>2 DEF ReleaseRun
  <1>6. QED
    BY <1>1, <1>5 DEF order

LEMMA ReleaseMeshesTypes ==
  ASSUME RegionsOf(regions), NEW S, IsFiniteSet(S), S \subseteq Columns
  PROVE  RegionsOf(ReleaseMeshes(S))
  <1> DEFINE order == SetToSeq(S)
  <1>1. PICK n \in Nat : order \in [1 .. n -> S] /\ Len(order) = n
    BY OrderVisitsAll
  <1>2. PICK u : ReleaseRun(u, n, order) /\ ReleaseMeshes(S) = u[n]
    BY <1>1, ReleaseMeshesRun
  <1> HIDE DEF order
  <1> DEFINE G == {m \in 0 .. n : RegionsOf(u[m])}
  <1>3. 0 \in G
    <2>1. u[0] = regions
      BY <1>2 DEF ReleaseRun
    <2>2. QED
      BY <2>1
  <1>4. ASSUME NEW m \in 1 .. n, m - 1 \in G PROVE m \in G
    <2>1. u[m] = ReleaseMesh(u[m - 1], order[m]) /\ order[m] \in Columns
      BY <1>1, <1>2 DEF ReleaseRun
    <2>2. RegionsOf(u[m - 1])
      BY <1>4
    <2>3. RegionsOf(u[m])
      BY <2>1, <2>2, ReleaseMeshTypes
    <2>4. QED
      BY <2>3
  <1>5. n \in G
    <2> HIDE DEF G
    <2>1. 0 .. n \subseteq G
      BY <1>3, <1>4, UpToInduction
    <2>2. QED
      BY <1>1, <2>1
  <1>6. QED
    BY <1>2, <1>5

-----------------------------------------------------------------------------
(* One lemma per action: the types stay, and so does what the sections show. *)

ShowInv == TypeInv /\ WorkInv /\ ShowsCurrent

\* A step that runs no job and ends none leaves the work as it was.
LEMMA SameWork ==
  ASSUME WorkTypes, UNCHANGED <<jobs, results, generation>>,
         nextLifetime \in Nat, nextLifetime' \in Nat, nextLifetime <= nextLifetime'
  PROVE  WorkTypes' /\ Works' = Works
  <1>1. Works' = Works
    BY DEF Works
  <1>2. generation' \in Nat /\ jobs' \subseteq Work /\ results' \in Seq(Work)
    BY DEF WorkTypes, Work
  <1>3. \A w \in Works' : w.id.lifetime # 0 /\ w.id.lifetime < nextLifetime'
    BY <1>1, WorkIs
  <1>4. Work' = Work
    BY DEF Work, Keys
  <1>5. QED
    BY <1>1, <1>2, <1>3, <1>4 DEF WorkTypes

\* A step that changes neither the world nor the meshes shows what was shown before.
LEMMA SameShows ==
  ASSUME ShowInv, UNCHANGED <<columns, unreported, lifetimes, nextLifetime, meshes, generation>>,
         WorkTypes', Works' \subseteq Works, RegionsOf(regions'), nextInstance' \in Nat
  PROVE  ShowInv'
  <1>1. TypeInv'
    BY DEF ShowInv, TypeInv
  <1>2. \A k \in Keys : Untouched(k)
    <2>1. \A k \in Keys : Snapshot(k)' = Snapshot(k)
      BY SameSnapshot
    <2>2. QED
      BY <2>1 DEF Untouched
  <1>3. QED
    BY <1>1, <1>2, StillShows DEF ShowInv

\* The sections of columns that have meshes, once some are invalidated.
LEMMA InvalidateIs ==
  ASSUME NEW cs, NEW ms, NEW lt, NEW next, MeshesOf(ms), OwnersOf(cs, ms, lt, next),
         NEW S, NEW q, Invalidate(S, q, ms, lt)
  PROVE  /\ MeshesOf(meshes') /\ OwnersOf(cs, meshes', lt, next)
         /\ \A c \in Columns : meshes'[c] # Absent <=> ms[c] # Absent
         /\ \A k \in Keys : ms[k[1]] # Absent =>
              meshes'[k[1]][k[2]] = IF k \in S THEN Raised(ms[k[1]][k[2]]) ELSE ms[k[1]][k[2]]
  <1> DEFINE known == {k \in S : Known(k, ms, lt)}
  <1>1. meshes' = InvalidatedMeshes(ms, known)
    BY DEF Invalidate
  <1>2. \A k \in Keys : ms[k[1]] # Absent => (k \in known <=> k \in S)
    BY KnownIs
  <1> HIDE DEF known
  <1>3. /\ MeshesOf(meshes')
        /\ \A c \in Columns : meshes'[c] # Absent <=> ms[c] # Absent
        /\ \A k \in Keys : ms[k[1]] # Absent =>
             meshes'[k[1]][k[2]] = IF k \in known THEN Raised(ms[k[1]][k[2]]) ELSE ms[k[1]][k[2]]
    BY <1>1, InvalidatedTypes
  <1>4. OwnersOf(cs, meshes', lt, next)
    BY <1>3 DEF OwnersOf
  <1>5. QED
    BY <1>2, <1>3, <1>4

LEMMA InitShows ==
  ASSUME Init
  PROVE  ShowInv
  <1>1. WorldOf(columns) /\ unreported \subseteq Int \X SectionYs
    BY DEF Init, WorldOf
  <1>2. MeshesOf(meshes) /\ OwnersOf(columns, meshes, lifetimes, nextLifetime)
    BY DEF Init, MeshesOf, OwnersOf
  <1>3. Works = {}
    BY DEF Init, Works
  <1>4. WorkTypes
    BY <1>3 DEF Init, WorkTypes
  <1>5. RegionsOf(regions) /\ nextInstance \in Nat
    BY DEF Init, RegionsOf
  <1>6. Sections = {}
    BY KeyTypes DEF Init, Sections
  <1>7. QED
    BY <1>1, <1>2, <1>3, <1>4, <1>5, <1>6 DEF ShowInv, TypeInv, WorkInv, ShowsCurrent

LEMMA MoveShows ==
  ASSUME ShowInv, NEW c \in Columns, Move(c)
  PROVE  ShowInv'
  <1>1. /\ UNCHANGED <<columns, unreported, lifetimes, nextLifetime, meshes, generation>>
        /\ UNCHANGED <<jobs, results>> /\ UNCHANGED <<regions, nextInstance>>
    BY DEF Move, world, owners, work, arenas
  <1>2. WorkTypes' /\ Works' = Works
    BY <1>1, SameWork DEF ShowInv, TypeInv, OwnersOf
  <1>3. RegionsOf(regions') /\ nextInstance' \in Nat
    BY <1>1 DEF ShowInv, TypeInv
  <1>4. QED
    BY <1>1, <1>2, <1>3, SameShows

LEMMA DrawShows ==
  ASSUME ShowInv, NEW fills, Draw(fills)
  PROVE  ShowInv'
  <1>1. /\ UNCHANGED <<columns, unreported, lifetimes, nextLifetime, meshes, generation>>
        /\ UNCHANGED <<jobs, results>> /\ UNCHANGED <<regions, nextInstance>>
    BY DEF Draw, world, owners, work, arenas
  <1>2. WorkTypes' /\ Works' = Works
    BY <1>1, SameWork DEF ShowInv, TypeInv, OwnersOf
  <1>3. RegionsOf(regions') /\ nextInstance' \in Nat
    BY <1>1 DEF ShowInv, TypeInv
  <1>4. QED
    BY <1>1, <1>2, <1>3, SameShows

\* A job that ends becomes a result.
LEMMA FinishWorks ==
  ASSUME WorkTypes, nextLifetime \in Nat, NEW j \in jobs, Finish(j)
  PROVE  WorkTypes' /\ Works' = Works
  <1>1. /\ jobs' = jobs \ {j} /\ results' = Append(results, j)
        /\ generation' = generation /\ nextLifetime' = nextLifetime
    BY DEF Finish, owners
  <1>2. j \in Work /\ results \in Seq(Work) /\ jobs \subseteq Work
    BY DEF WorkTypes
  <1>3. /\ results' \in Seq(Work) /\ Len(results) \in Nat /\ Len(results') = Len(results) + 1
        /\ \A i \in 1 .. Len(results) : results'[i] = results[i]
        /\ results'[Len(results) + 1] = j
    BY <1>1, <1>2, AppendProperties, LenProperties
  <1>4. DOMAIN results = 1 .. Len(results) /\ DOMAIN results' = 1 .. Len(results) + 1
    BY <1>2, <1>3, LenProperties
  <1>5. {results'[i] : i \in DOMAIN results'} = {results[i] : i \in DOMAIN results} \union {j}
    <2> DEFINE n == Len(results)
    <2>1. n \in Nat /\ 1 .. n + 1 = (1 .. n) \union {n + 1}
      BY <1>3
    <2> HIDE DEF n
    <2>2. QED
      BY <1>3, <1>4, <2>1 DEF n
  <1>6. Works' = Works
    BY <1>1, <1>5 DEF Works
  <1>7. Work' = Work
    BY DEF Work, Keys
  <1>8. QED
    BY <1>1, <1>2, <1>3, <1>6, <1>7 DEF WorkTypes

LEMMA FinishShows ==
  ASSUME ShowInv, NEW j \in jobs, Finish(j)
  PROVE  ShowInv'
  <1>1. /\ UNCHANGED <<columns, unreported, lifetimes, nextLifetime, meshes, generation>>
        /\ UNCHANGED <<regions, nextInstance>>
    BY DEF Finish, world, owners, arenas
  <1>2. WorkTypes' /\ Works' = Works
    BY FinishWorks DEF ShowInv, TypeInv, OwnersOf
  <1>3. RegionsOf(regions') /\ nextInstance' \in Nat
    BY <1>1 DEF ShowInv, TypeInv
  <1>4. QED
    BY <1>1, <1>2, <1>3, SameShows

LEMMA BeginFrameShows ==
  ASSUME ShowInv, BeginFrame
  PROVE  ShowInv'
  <1>1. /\ UNCHANGED <<columns, lifetimes, nextLifetime, generation>>
        /\ UNCHANGED <<jobs, results>> /\ UNCHANGED <<regions, nextInstance>>
    BY DEF BeginFrame, owners, work, arenas
  <1>2. WorkTypes' /\ Works' = Works
    BY <1>1, SameWork DEF ShowInv, TypeInv, OwnersOf
  <1>3. RegionsOf(regions') /\ nextInstance' \in Nat
    BY <1>1 DEF ShowInv, TypeInv
  <1>4. CASE UNCHANGED <<unreported, meshes>>
    BY <1>1, <1>2, <1>3, <1>4, SameShows
  <1>5. CASE Invalidate(unreported, pending, meshes, lifetimes) /\ unreported' = {}
    <2>1. /\ MeshesOf(meshes') /\ OwnersOf(columns, meshes', lifetimes, nextLifetime)
          /\ \A c \in Columns : meshes'[c] # Absent <=> meshes[c] # Absent
          /\ \A k \in Keys : meshes[k[1]] # Absent =>
               meshes'[k[1]][k[2]] = IF k \in unreported THEN Raised(meshes[k[1]][k[2]])
                                     ELSE meshes[k[1]][k[2]]
      BY <1>5, InvalidateIs DEF ShowInv, TypeInv
    <2>2. TypeInv'
      BY <1>1, <1>2, <1>3, <1>5, <2>1 DEF ShowInv, TypeInv
    <2>3. ASSUME NEW k \in Keys, meshes'[k[1]] # Absent
          PROVE  Outdated(k) \/ Untouched(k)
      <3>1. meshes[k[1]] # Absent
        BY <2>1, <2>3, KeyTypes
      <3>2. Snapshot(k)' = Snapshot(k)
        BY <1>1, SameSnapshot
      <3>3. QED
        BY <1>1, <2>1, <3>1, <3>2 DEF Outdated, Untouched
    <2>4. QED
      BY <1>1, <1>2, <2>2, <2>3, StillShows DEF ShowInv
  <1>6. QED
    BY <1>4, <1>5 DEF BeginFrame

\* What a change of light reaches.
LEMMA DependentOf ==
  ASSUME NEW cells, NEW p \in cells, NEW k \in Dependents(p)
  PROVE  k \in AllDependents(cells)
  BY DEF AllDependents

LEMMA CellSets ==
  EditCells \subseteq Cells /\ LightCells \subseteq Cells
  /\ \A payload \in Payloads : payload \subseteq Cells
  BY DEF Cells

LEMMA EditShows ==
  ASSUME ShowInv, NEW p \in EditCells, NEW lit \in SUBSET LightCells, Edit(p, lit)
  PROVE  ShowInv'
  <1> DEFINE shone == {q \in lit : ColumnOf(q) \in Columns /\ columns[ColumnOf(q)] # Absent}
             cells == {p} \union shone
             S == unreported \union AllDependents(cells)
  <1>1. /\ columns' = Marked(columns, cells)
        /\ Invalidate(S, pending, meshes, lifetimes)
        /\ unreported' = {}
    BY DEF Edit
  <1>2. /\ UNCHANGED <<lifetimes, nextLifetime, generation>>
        /\ UNCHANGED <<jobs, results>> /\ UNCHANGED <<regions, nextInstance>>
    BY DEF Edit, owners, work, arenas
  <1>3. cells \in SUBSET Cells
    <2>1. shone \subseteq lit
      OBVIOUS
    <2> HIDE DEF shone
    <2>2. QED
      BY <2>1, CellSets
  <1> HIDE DEF cells
  <1>4. /\ WorldOf(columns')
        /\ \A c \in Columns : columns'[c] # Absent <=> columns[c] # Absent
        /\ \A c \in Columns : columns[c] # Absent =>
             \A q : q \notin cells => (q \in columns'[c] <=> q \in columns[c])
    BY <1>1, <1>3, MarkedTypes DEF ShowInv, TypeInv
  <1>5. /\ MeshesOf(meshes') /\ OwnersOf(columns, meshes', lifetimes, nextLifetime)
        /\ \A c \in Columns : meshes'[c] # Absent <=> meshes[c] # Absent
        /\ \A k \in Keys : meshes[k[1]] # Absent =>
             meshes'[k[1]][k[2]] = IF k \in S THEN Raised(meshes[k[1]][k[2]]) ELSE meshes[k[1]][k[2]]
    BY <1>1, InvalidateIs DEF ShowInv, TypeInv
  <1>6. WorkTypes' /\ Works' = Works
    BY <1>2, SameWork DEF ShowInv, TypeInv, OwnersOf
  <1>7. OwnersOf(columns', meshes', lifetimes', nextLifetime')
    BY <1>2, <1>4, <1>5 DEF OwnersOf
  <1>8. TypeInv'
    BY <1>1, <1>2, <1>4, <1>5, <1>6, <1>7 DEF ShowInv, TypeInv
  <1>9. ASSUME NEW k \in Keys, meshes'[k[1]] # Absent
        PROVE  Outdated(k) \/ Untouched(k)
    <2>1. meshes[k[1]] # Absent
      BY <1>5, <1>9, KeyTypes
    <2>2. CASE k \in S
      BY <1>2, <1>5, <2>1, <2>2 DEF Outdated
    <2>3. CASE k \notin S
      <3>1. k \notin unreported /\ k \notin AllDependents(cells)
        BY <2>3
      <3>2. \A q \in Cells : k \in Dependents(q) => q \notin cells
        BY <3>1, DependentOf
      <3>3. Snapshot(k)' = Snapshot(k)
        BY <1>4, <3>2, SnapshotKept DEF ShowInv, TypeInv
      <3>4. meshes'[k[1]][k[2]] = meshes[k[1]][k[2]]
        BY <1>5, <2>1, <2>3
      <3>5. QED
        BY <1>2, <3>1, <3>3, <3>4 DEF Untouched
    <2>4. QED
      BY <2>2, <2>3
  <1>10. QED
    BY <1>2, <1>6, <1>8, <1>9, StillShows DEF ShowInv

\* Login, disconnect and a change of dimension leave no section and no lifetime.
LEMMA TeardownShows ==
  ASSUME ShowInv, Teardown, WorldOf(columns'), unreported' \subseteq unreported
  PROVE  ShowInv'
  <1>1. /\ generation' = generation + 1 /\ lifetimes' = [c \in Columns |-> 0]
        /\ meshes' = [c \in Columns |-> Absent] /\ regions' = [r \in {} |-> 0]
        /\ UNCHANGED <<nextLifetime, jobs, results, nextInstance>>
    BY DEF Teardown
  <1>2. Works' = Works /\ WorkTypes
    BY <1>1 DEF Works, ShowInv, TypeInv
  <1>3. WorkTypes'
    <2>1. Work' = Work
      BY DEF Work, Keys
    <2>2. generation' \in Nat /\ jobs' \subseteq Work /\ results' \in Seq(Work)
      BY <1>1, <1>2 DEF WorkTypes
    <2>3. QED
      BY <1>1, <1>2, <2>1, <2>2 DEF WorkTypes
  <1>4. MeshesOf(meshes') /\ OwnersOf(columns', meshes', lifetimes', nextLifetime')
    BY <1>1 DEF MeshesOf, OwnersOf, ShowInv, TypeInv
  <1>5. RegionsOf(regions') /\ nextInstance' \in Nat
    BY <1>1 DEF RegionsOf, ShowInv, TypeInv
  <1>6. TypeInv'
    BY <1>3, <1>4, <1>5 DEF ShowInv, TypeInv
  <1>7. Sections' = {}
    BY <1>1, KeyTypes, SectionsAre
  <1>8. \A w \in Works' : lifetimes'[w.key[1]] # w.id.lifetime
    <2>1. \A w \in Works' : w.key[1] \in Columns /\ w.id.lifetime # 0
      BY <1>2, WorkIs, KeyTypes
    <2>2. QED
      BY <1>1, <2>1
  <1>9. QED
    BY <1>6, <1>7, <1>8 DEF ShowInv, WorkInv, ShowsCurrent

LEMMA LeavingShows ==
  ASSUME ShowInv, Login \/ Disconnect \/ SwitchDimension
  PROVE  ShowInv'
  <1>1. Teardown /\ unreported' \subseteq unreported
    BY DEF Login, Disconnect, SwitchDimension, world
  <1>2. columns' = columns \/ columns' = [c \in Columns |-> Absent]
    BY DEF Login, Disconnect, SwitchDimension, world
  <1>3. WorldOf(columns')
    BY <1>2 DEF WorldOf, ShowInv, TypeInv
  <1>4. QED
    BY <1>1, <1>3, TeardownShows

\* A column that arrives: the ones beside it and the ones it lights are stale, and its
\* own sections are new or stale.
LEMMA CommitShows ==
  ASSUME ShowInv, NEW c \in Columns, NEW payload \in Payloads, NEW lit \in SUBSET LightCells,
         Commit(c, payload, lit)
  PROVE  ShowInv'
  <1> DEFINE isNew  == columns[c] = Absent
             own    == {p \in payload : ColumnOf(p) = c}
             placed == [columns EXCEPT ![c] = own]
             shone  == {p \in lit : ColumnOf(p) \in Columns /\ placed[ColumnOf(p)] # Absent}
             lt     == [lifetimes EXCEPT ![c] = IF isNew \/ @ = 0 THEN nextLifetime ELSE @]
             fresh  == [y \in SectionYs |-> NewSection]
             ms     == [meshes EXCEPT ![c] = IF isNew \/ @ = Absent THEN fresh ELSE @]
             stale  == {c} \union {d \in Surrounding(c) \intersect Columns : placed[d] # Absent}
                           \union {ColumnOf(p) : p \in shone}
             told   == {k \in KeysOf(stale) : Known(k, ms, lt)}
             lights == AllDependents(shone) \intersect (Int \X SectionYs)
  <1>1. /\ columns' = Marked(placed, shone)
        /\ lifetimes' = lt /\ nextLifetime' = nextLifetime + 1
        /\ Invalidate(KeysOf(stale), pending, ms, lt)
        /\ unreported' = (unreported \union lights) \ told
    BY DEF Commit
  <1>2. UNCHANGED <<generation, jobs, results, regions, nextInstance>>
    BY DEF Commit, work, arenas
  <1>3. /\ WorldOf(columns) /\ unreported \subseteq Int \X SectionYs
        /\ MeshesOf(meshes) /\ OwnersOf(columns, meshes, lifetimes, nextLifetime) /\ WorkTypes
        /\ RegionsOf(regions) /\ nextInstance \in Nat
    BY DEF ShowInv, TypeInv
  <1>4. own \in SUBSET Cells /\ \A p \in own : ColumnOf(p) = c
    BY CellSets
  <1>5. shone \in SUBSET Cells
    <2>1. shone \subseteq lit
      OBVIOUS
    <2> HIDE DEF shone
    <2>2. QED
      BY <2>1, CellSets
  <1>6. lights \subseteq Int \X SectionYs
    OBVIOUS
  <1>7. \A p \in shone : ColumnOf(p) \in stale
    OBVIOUS
  <1>8. c \in stale /\ \A d \in Columns : d \in Surrounding(c) /\ placed[d] # Absent => d \in stale
    OBVIOUS
  <1>9. \A k \in Keys : k \in KeysOf(stale) <=> k[1] \in stale
    BY KeyTypes DEF KeysOf
  <1>10. told \subseteq KeysOf(stale)
    OBVIOUS
  <1> HIDE DEF told, lights, shone, stale, own
  <1>11. /\ placed[c] = own /\ placed[c] # Absent
         /\ \A d \in Columns : d # c => placed[d] = columns[d]
         /\ WorldOf(placed)
    <2>1. own # Absent
      BY <1>4, AbsentIsNone
    <2>2. placed[c] = own /\ \A d \in Columns : d # c => placed[d] = columns[d]
      BY <1>3 DEF WorldOf
    <2>3. placed \in [Columns -> (SUBSET Cells) \union {Absent}]
      BY <1>3, <1>4 DEF WorldOf
    <2>4. \A d \in Columns : placed[d] # Absent => \A p \in placed[d] : ColumnOf(p) = d
      <3> HIDE DEF placed
      <3>1. QED
        BY <1>3, <1>4, <2>2 DEF WorldOf
    <2>5. QED
      BY <2>1, <2>2, <2>3, <2>4 DEF WorldOf
  <1>12. /\ \A d \in Columns : d # c => lt[d] = lifetimes[d] /\ ms[d] = meshes[d]
         /\ meshes[c] = Absent => lt[c] = nextLifetime /\ ms[c] = fresh
         /\ meshes[c] # Absent => lt[c] = lifetimes[c] /\ ms[c] = meshes[c]
    BY <1>3 DEF OwnersOf, MeshesOf
  <1>13. fresh \in Mesh /\ fresh # Absent
    <2>1. NewSection \in SectionMesh
      BY DEF NewSection, SectionMesh
    <2>2. fresh \in Mesh
      BY <2>1 DEF Mesh
    <2>3. QED
      BY <2>2, AbsentIsNone
  <1>14. MeshesOf(ms)
    <2>1. ms \in [Columns -> Mesh \union {Absent}]
      BY <1>3, <1>13 DEF MeshesOf
    <2>2. ASSUME NEW d \in Columns, NEW y \in SectionYs, ms[d] # Absent, ms[d][y].meshed # Absent
          PROVE  ms[d][y].meshed <= ms[d][y].revision
      <3>1. CASE d = c /\ meshes[c] = Absent
        <4>1. ms[d][y] = NewSection
          BY <1>12, <3>1
        <4>2. QED
          BY <2>2, <4>1 DEF NewSection
      <3>2. CASE ~(d = c /\ meshes[c] = Absent)
        <4>1. ms[d] = meshes[d]
          BY <1>12, <3>2
        <4>2. QED
          BY <1>3, <2>2, <4>1 DEF MeshesOf
      <3>3. QED
        BY <3>1, <3>2
    <2>3. QED
      BY <2>1, <2>2 DEF MeshesOf
  <1>15. OwnersOf(placed, ms, lt, nextLifetime + 1)
    <2>1. lt \in [Columns -> Nat]
      BY <1>3 DEF OwnersOf
    <2> HIDE DEF lt, ms, placed, fresh
    <2>2. QED
      BY <1>3, <1>11, <1>12, <1>13, <2>1 DEF OwnersOf
  <1> HIDE DEF lt, ms, placed, isNew
  <1>16. /\ MeshesOf(meshes') /\ OwnersOf(placed, meshes', lt, nextLifetime + 1)
         /\ \A d \in Columns : meshes'[d] # Absent <=> ms[d] # Absent
         /\ \A k \in Keys : ms[k[1]] # Absent =>
              meshes'[k[1]][k[2]] = IF k \in KeysOf(stale) THEN Raised(ms[k[1]][k[2]])
                                    ELSE ms[k[1]][k[2]]
    BY <1>1, <1>14, <1>15, InvalidateIs
  <1>17. /\ WorldOf(columns')
         /\ \A d \in Columns : columns'[d] # Absent <=> placed[d] # Absent
         /\ \A d \in Columns : placed[d] # Absent =>
              \A p : p \notin shone => (p \in columns'[d] <=> p \in placed[d])
    BY <1>1, <1>5, <1>11, MarkedTypes
  <1>18. OwnersOf(columns', meshes', lifetimes', nextLifetime')
    BY <1>1, <1>16, <1>17 DEF OwnersOf
  <1>19. WorkTypes' /\ Works' = Works
    BY <1>1, <1>2, <1>3, SameWork DEF OwnersOf
  <1>20. TypeInv'
    BY <1>1, <1>2, <1>3, <1>6, <1>16, <1>17, <1>18, <1>19 DEF TypeInv
  <1>21. ASSUME NEW k \in Keys, meshes'[k[1]] # Absent
         PROVE  Renewed(k) \/ Outdated(k) \/ Untouched(k)
    <2>1. ms[k[1]] # Absent /\ k[1] \in Columns /\ k[2] \in SectionYs
      BY <1>16, <1>21, KeyTypes
    <2>2. CASE k[1] = c /\ meshes[c] = Absent
      <3>1. meshes'[k[1]][k[2]] = Raised(NewSection)
        BY <1>8, <1>9, <1>12, <1>16, <2>1, <2>2
      <3>2. meshes'[k[1]][k[2]].levels = Absent
        BY <3>1 DEF Raised, NewSection
      <3>3. lifetimes'[k[1]] >= nextLifetime
        BY <1>1, <1>3, <1>12, <2>2 DEF OwnersOf
      <3>4. QED
        BY <3>2, <3>3 DEF Renewed
    <2>3. CASE ~(k[1] = c /\ meshes[c] = Absent)
      <3>1. lifetimes'[k[1]] = lifetimes[k[1]] /\ ms[k[1]] = meshes[k[1]]
        BY <1>1, <1>12, <2>1, <2>3
      <3>2. CASE k[1] \in stale
        <4>1. meshes'[k[1]][k[2]] = Raised(meshes[k[1]][k[2]])
          BY <1>9, <1>16, <2>1, <3>1, <3>2
        <4>2. QED
          BY <3>1, <4>1 DEF Outdated
      <3>3. CASE k[1] \notin stale
        <4>1. meshes'[k[1]][k[2]] = meshes[k[1]][k[2]]
          BY <1>9, <1>16, <2>1, <3>1, <3>3
        <4>2. k[1] # c /\ k \notin told
          BY <1>8, <1>9, <1>10, <3>3
        <4>3. placed[k[1]] # Absent
          BY <1>15, <2>1 DEF OwnersOf
        <4>4. k[1] \notin Surrounding(c)
          BY <1>8, <2>1, <3>3, <4>3
        <4>5. k \in Int \X SectionYs
          BY KeyTypes
        <4>6. ASSUME k \notin unreported'
              PROVE  k \notin unreported /\ Snapshot(k)' = Snapshot(k)
          <5>1. k \notin unreported /\ k \notin AllDependents(shone)
            BY <1>1, <4>2, <4>5, <4>6 DEF lights
          <5>2. \A p \in Cells : k \in Dependents(p) => p \notin shone
            BY <5>1, DependentOf
          <5>3. \A d \in Columns : k[1] = d \/ k[1] \in Surrounding(d) =>
                  /\ columns'[d] # Absent <=> columns[d] # Absent
                  /\ columns[d] # Absent =>
                       \A p \in Cells : k \in Dependents(p) => (p \in columns'[d] <=> p \in columns[d])
            BY <1>11, <1>17, <4>2, <4>4, <5>2
          <5>4. QED
            BY <1>3, <1>17, <5>1, <5>3, SnapshotKept
        <4>7. QED
          BY <3>1, <4>1, <4>6 DEF Untouched
      <3>4. QED
        BY <3>2, <3>3
    <2>4. QED
      BY <2>2, <2>3
  <1>22. QED
    BY <1>2, <1>19, <1>20, <1>21, StillShows DEF ShowInv

LEMMA CompactTypes ==
  ASSUME RegionsOf(regions), nextInstance \in Nat, Compact
  PROVE  RegionsOf(regions') /\ nextInstance' \in Nat
  <1> DEFINE rebuild == compacting \in DOMAIN regions /\ WorthRebuilding(regions[compacting])
             new     == [NewRegion(nextInstance) EXCEPT !.active = regions[compacting].active]
  <1>1. /\ regions' = IF rebuild THEN [regions EXCEPT ![compacting] = new] ELSE regions
        /\ nextInstance' = IF rebuild THEN nextInstance + 1 ELSE nextInstance
    BY DEF Compact
  <1>2. ASSUME rebuild PROVE RegionIs(new)
    <2>1. RegionIs(regions[compacting])
      BY <1>2, RegionsAre
    <2>2. regions[compacting].active \in Nat
      BY <2>1, RegionParts
    <2>3. RegionIs(NewRegion(nextInstance))
      BY NewRegionIs
    <2>4. QED
      BY <2>2, <2>3 DEF RegionIs, Region
  <1>3. /\ DOMAIN regions \subseteq Int /\ regions = [x \in DOMAIN regions |-> regions[x]]
        /\ \A x \in DOMAIN regions : RegionIs(regions[x])
    BY RegionsAre DEF RegionsOf
  <1> HIDE DEF rebuild, new
  <1>4. /\ DOMAIN regions' \subseteq Int /\ regions' = [x \in DOMAIN regions' |-> regions'[x]]
        /\ \A x \in DOMAIN regions' : RegionIs(regions'[x])
    BY <1>1, <1>2, <1>3
  <1>5. QED
    BY <1>1, <1>4, RegionsAre

LEMMA CompactShows ==
  ASSUME ShowInv, Compact
  PROVE  ShowInv'
  <1>1. /\ UNCHANGED <<columns, unreported, lifetimes, nextLifetime, meshes, generation>>
        /\ UNCHANGED <<jobs, results>>
    BY DEF Compact, world, owners, work
  <1>2. WorkTypes' /\ Works' = Works
    BY <1>1, SameWork DEF ShowInv, TypeInv, OwnersOf
  <1>3. RegionsOf(regions') /\ nextInstance' \in Nat
    BY CompactTypes DEF ShowInv, TypeInv
  <1>4. QED
    BY <1>1, <1>2, <1>3, SameShows

\* What the player leaves behind goes; what stays beside it is stale.
LEMMA UnloadShows ==
  ASSUME ShowInv, Unload
  PROVE  ShowInv'
  <1>1. UNCHANGED <<unreported, nextLifetime, jobs, results, generation, nextInstance>>
    BY DEF Unload
  <1>2. WorkTypes' /\ Works' = Works
    BY <1>1, SameWork DEF ShowInv, TypeInv, OwnersOf
  <1>3. CASE UNCHANGED <<columns, lifetimes, meshes, regions>>
    <2>1. RegionsOf(regions') /\ nextInstance' \in Nat
      BY <1>1, <1>3 DEF ShowInv, TypeInv
    <2>2. QED
      BY <1>1, <1>2, <1>3, <2>1, SameShows
  <1>4. CASE target # player
    <2> DEFINE gone    == {c \in Columns : columns[c] # Absent /\ ~WithinHysteresis(c)}
               stays   == {c \in Columns : columns[c] # Absent} \ gone
               beside  == stays \intersect UNION {Surrounding(c) : c \in gone}
               stale   == {k \in KeysOf(beside) : Known(k, meshes, lifetimes)}
               newer   == InvalidatedMeshes(meshes, stale)
               cleared == {c \in Columns : newer[c] # Absent /\ ~WithinHysteresis(c)}
    <2>1. /\ columns' = [c \in Columns |-> IF c \in gone THEN Absent ELSE columns[c]]
          /\ lifetimes' = [c \in Columns |-> IF c \in gone THEN 0 ELSE lifetimes[c]]
          /\ meshes' = [c \in Columns |-> IF c \in cleared THEN Absent ELSE newer[c]]
          /\ regions' = ReleaseMeshes(cleared)
      BY <1>4 DEF Unload
    <2>2. /\ WorldOf(columns) /\ MeshesOf(meshes)
          /\ OwnersOf(columns, meshes, lifetimes, nextLifetime)
          /\ RegionsOf(regions) /\ nextInstance \in Nat
      BY DEF ShowInv, TypeInv
    <2>3. \A c \in Columns : columns[c] # Absent => (c \in gone <=> ~WithinHysteresis(c))
      OBVIOUS
    <2>4. /\ \A c \in gone : c \in Columns /\ columns[c] # Absent
          /\ \A c \in cleared : c \in Columns
          /\ \A c \in Columns : newer[c] # Absent => (c \in cleared <=> ~WithinHysteresis(c))
      OBVIOUS
    <2>5. ASSUME NEW k \in Keys, columns[k[1]] # Absent, meshes[k[1]] # Absent, k[1] \notin gone,
                 NEW d \in gone, k[1] \in Surrounding(d)
          PROVE  k \in stale
      <3>1. k[1] \in beside
        BY <2>5, KeyTypes
      <3>2. k \in KeysOf(beside)
        BY <3>1, KeyTypes DEF KeysOf
      <3>3. Known(k, meshes, lifetimes)
        BY <2>2, <2>5, KnownIs
      <3>4. QED
        BY <3>2, <3>3
    <2> HIDE DEF gone, stays, beside, stale
    <2>6. /\ MeshesOf(newer)
          /\ \A c \in Columns : newer[c] # Absent <=> meshes[c] # Absent
          /\ \A k \in Keys : meshes[k[1]] # Absent =>
               newer[k[1]][k[2]] = IF k \in stale THEN Raised(meshes[k[1]][k[2]]) ELSE meshes[k[1]][k[2]]
      BY <2>2, InvalidatedTypes
    <2> HIDE DEF newer, cleared
    <2>7. \A c \in Columns : newer[c] # Absent => (c \in cleared <=> c \in gone)
      BY <2>2, <2>3, <2>4, <2>6 DEF OwnersOf
    <2>8. MeshesOf(meshes')
      <3>1. meshes' \in [Columns -> Mesh \union {Absent}]
        BY <2>1, <2>6 DEF MeshesOf
      <3>2. \A c \in Columns : meshes'[c] # Absent => meshes'[c] = newer[c]
        BY <2>1
      <3>3. QED
        BY <2>6, <3>1, <3>2 DEF MeshesOf
    <2>9. WorldOf(columns')
      <3>1. columns' \in [Columns -> (SUBSET Cells) \union {Absent}]
        BY <2>1, <2>2 DEF WorldOf
      <3>2. \A c \in Columns : columns'[c] # Absent => columns'[c] = columns[c]
        BY <2>1
      <3>3. QED
        BY <2>2, <3>1, <3>2 DEF WorldOf
    <2>10. OwnersOf(columns', meshes', lifetimes', nextLifetime')
      <3>1. lifetimes' \in [Columns -> Nat] /\ nextLifetime' \in Nat \ {0}
        BY <1>1, <2>1, <2>2 DEF OwnersOf
      <3>2. ASSUME NEW c \in Columns
            PROVE  /\ lifetimes'[c] < nextLifetime' /\ (meshes'[c] # Absent <=> lifetimes'[c] # 0)
                   /\ meshes'[c] # Absent => columns'[c] # Absent
        <4>1. /\ lifetimes[c] < nextLifetime /\ lifetimes[c] \in Nat /\ nextLifetime \in Nat \ {0}
              /\ meshes[c] # Absent <=> lifetimes[c] # 0
              /\ meshes[c] # Absent => columns[c] # Absent
          BY <2>2 DEF OwnersOf
        <4>2. CASE c \in gone
          <5>1. lifetimes'[c] = 0 /\ meshes'[c] = Absent
            BY <2>1, <2>7, <4>2
          <5>2. QED
            BY <1>1, <4>1, <5>1
        <4>3. CASE c \notin gone
          <5>1. lifetimes'[c] = lifetimes[c] /\ columns'[c] = columns[c]
            BY <2>1, <4>3
          <5>2. meshes'[c] # Absent <=> meshes[c] # Absent
            BY <2>1, <2>6, <2>7, <4>3
          <5>3. QED
            BY <1>1, <4>1, <5>1, <5>2
        <4>4. QED
          BY <4>2, <4>3
      <3>3. QED
        BY <3>1, <3>2 DEF OwnersOf
    <2>11. RegionsOf(regions') /\ nextInstance' \in Nat
      <3>1. IsFiniteSet(Columns) /\ cleared \subseteq Columns
        BY <2>4, SectionMeshesAssumption
      <3>2. IsFiniteSet(cleared)
        BY <3>1, FS_Subset
      <3>3. QED
        BY <1>1, <2>1, <2>2, <3>1, <3>2, ReleaseMeshesTypes
    <2>12. unreported' \subseteq Int \X SectionYs
      BY <1>1 DEF ShowInv, TypeInv
    <2>13. TypeInv'
      BY <1>2, <2>8, <2>9, <2>10, <2>11, <2>12 DEF TypeInv
    <2>14. ASSUME NEW k \in Keys, meshes'[k[1]] # Absent
           PROVE  Outdated(k) \/ Untouched(k)
      <3>1. k[1] \in Columns /\ k[1] \notin cleared /\ newer[k[1]] # Absent
        BY <2>1, <2>14, KeyTypes
      <3>2. /\ k[1] \notin gone /\ meshes[k[1]] # Absent /\ columns[k[1]] # Absent
            /\ lifetimes'[k[1]] = lifetimes[k[1]] /\ meshes'[k[1]] = newer[k[1]]
        BY <2>1, <2>2, <2>6, <2>7, <3>1 DEF OwnersOf
      <3>3. CASE k \in stale
        BY <2>6, <3>2, <3>3 DEF Outdated
      <3>4. CASE k \notin stale
        <4>1. \A d \in Columns : k[1] = d \/ k[1] \in Surrounding(d) => d \notin gone
          BY <2>5, <3>2, <3>4
        <4>2. \A d \in Columns : k[1] = d \/ k[1] \in Surrounding(d) => columns'[d] = columns[d]
          BY <2>1, <4>1
        <4>3. Snapshot(k)' = Snapshot(k)
          BY <2>2, <2>9, <4>2, SnapshotKept
        <4>4. QED
          BY <1>1, <2>6, <3>2, <3>4, <4>3 DEF Untouched
      <3>5. QED
        BY <3>3, <3>4
    <2>15. QED
      BY <1>1, <1>2, <2>13, <2>14, StillShows DEF ShowInv
  <1>5. QED
    BY <1>3, <1>4 DEF Unload

-----------------------------------------------------------------------------
(* Work is handed out, and comes back.                                       *)

LEMMA SelectedIs ==
  ASSUME NEW k
  PROVE  Selected(k) \in Lods
  <1> DEFINE n == Cardinality(Lods)
  <1>1. Lods # {} /\ Lods = 0 .. n - 1 /\ n \in Nat
    BY SectionMeshesAssumption, FS_CardinalityType
  <1> HIDE DEF n
  <1>2. 0 \in Lods /\ n - 1 \in Lods /\ \A l \in Lods : l <= n - 1
    BY <1>1
  <1>3. Max(Lods) \in Lods
    BY <1>1, <1>2 DEF Max
  <1>4. QED
    BY <1>2, <1>3 DEF Selected

\* The jobs that a frame starts carry the section's identity and surroundings as they are.
LEMMA DispatchWorks ==
  ASSUME ShowInv, Dispatch
  PROVE  /\ UNCHANGED <<columns, unreported, lifetimes, nextLifetime, meshes, generation>>
         /\ UNCHANGED <<results, regions, nextInstance>>
         /\ \A j \in jobs' : j \in jobs \/
              /\ j.key \in Keys /\ meshes[j.key[1]] # Absent
              /\ j.id = Identity(j.key, meshes, lifetimes) /\ j.generation = generation
              /\ j.data = Snapshot(j.key) /\ j \in Work /\ j.id.lifetime # 0
  <1> DEFINE inView == {k \in DOMAIN pending : Dist(k[1], player) <= ViewDistance}
             wanted == {k \in inView \ DOMAIN inFlight : Wanted(k)}
             ahead(k) == {j \in wanted : Before(pending, j, k)}
             taken  == {k \in wanted : Cardinality(ahead(k)) < FreeSlots}
             job(k) == [key |-> k, id |-> pending[k].id, generation |-> generation,
                        lod |-> Selected(k), data |-> Snapshot(k)]
  <1>1. /\ UNCHANGED <<columns, unreported, lifetimes, nextLifetime, meshes, generation>>
        /\ UNCHANGED <<results, regions, nextInstance>>
    BY DEF Dispatch, world, owners, arenas
  <1>2. jobs' = jobs \union {job(k) : k \in taken}
    BY DEF Dispatch
  <1>3. \A k \in taken : Wanted(k)
    OBVIOUS
  <1> HIDE DEF taken
  <1>4. ASSUME NEW k \in taken
        PROVE  /\ k \in Keys /\ meshes[k[1]] # Absent
               /\ pending[k].id = Identity(k, meshes, lifetimes)
               /\ pending[k].id \in Id /\ pending[k].id.lifetime # 0
    <2>1. Known(k, meshes, lifetimes) /\ pending[k].id = Identity(k, meshes, lifetimes)
      BY <1>3 DEF Wanted, IsCurrent
    <2>2. k \in Keys /\ meshes[k[1]] # Absent /\ lifetimes[k[1]] # 0
      BY <2>1 DEF Known
    <2>3. meshes[k[1]][k[2]].revision \in Nat /\ lifetimes[k[1]] \in Nat
      BY <2>2, KeyTypes, SectionTypes DEF ShowInv, TypeInv, OwnersOf
    <2>4. QED
      BY <2>1, <2>2, <2>3 DEF Identity, Id
  <1>5. ASSUME NEW k \in taken
        PROVE  job(k) \in Work
    <2>1. Selected(k) \in Lods /\ Snapshot(k) \in SUBSET Cells /\ generation \in Nat
      BY SelectedIs, SnapshotType DEF ShowInv, TypeInv, WorkTypes
    <2>2. QED
      BY <1>4, <2>1 DEF Work
  <1>6. ASSUME NEW j \in jobs', j \notin jobs
        PROVE  /\ j.key \in Keys /\ meshes[j.key[1]] # Absent
               /\ j.id = Identity(j.key, meshes, lifetimes) /\ j.generation = generation
               /\ j.data = Snapshot(j.key) /\ j \in Work /\ j.id.lifetime # 0
    <2>1. PICK k \in taken : j = job(k)
      BY <1>2, <1>6
    <2>2. /\ j.key = k /\ j.id = pending[k].id /\ j.generation = generation
          /\ j.data = Snapshot(k)
      BY <2>1
    <2>3. j \in Work
      BY <1>5, <2>1
    <2>4. QED
      BY <1>4, <2>2, <2>3
  <1>7. QED
    BY <1>1, <1>6

LEMMA DispatchShows ==
  ASSUME ShowInv, Dispatch
  PROVE  ShowInv'
  <1>1. /\ UNCHANGED <<columns, unreported, lifetimes, nextLifetime, meshes, generation>>
        /\ UNCHANGED <<results, regions, nextInstance>>
        /\ \A j \in jobs' : j \in jobs \/
             /\ j.key \in Keys /\ meshes[j.key[1]] # Absent
             /\ j.id = Identity(j.key, meshes, lifetimes) /\ j.generation = generation
             /\ j.data = Snapshot(j.key) /\ j \in Work /\ j.id.lifetime # 0
    BY DispatchWorks
  <1>2. \A w \in Works' : w \in Works \/ (w \in jobs' /\ w \notin jobs)
    BY <1>1 DEF Works
  <1>3. WorkTypes'
    <2>1. Work' = Work
      BY DEF Work, Keys
    <2>2. generation' \in Nat /\ jobs' \subseteq Work /\ results' \in Seq(Work)
      BY <1>1 DEF ShowInv, TypeInv, WorkTypes
    <2>3. ASSUME NEW w \in Works'
          PROVE  w.id.lifetime # 0 /\ w.id.lifetime < nextLifetime'
      <3>1. CASE w \in Works
        BY <1>1, <3>1 DEF ShowInv, TypeInv, WorkTypes
      <3>2. CASE w \in jobs' /\ w \notin jobs
        <4>1. w.id.lifetime = lifetimes[w.key[1]] /\ w.id.lifetime # 0 /\ w.key \in Keys
          <5>1. /\ w.key \in Keys /\ w.id.lifetime # 0
                /\ w.id = Identity(w.key, meshes, lifetimes)
            BY <1>1, <3>2
          <5>2. Identity(w.key, meshes, lifetimes).lifetime = lifetimes[w.key[1]]
            BY DEF Identity
          <5>3. QED
            BY <5>1, <5>2
        <4>2. lifetimes[w.key[1]] < nextLifetime
          BY <4>1, KeyTypes DEF ShowInv, TypeInv, OwnersOf
        <4>3. QED
          BY <1>1, <4>1, <4>2
      <3>3. QED
        BY <1>2, <3>1, <3>2
    <2>4. QED
      BY <2>1, <2>2, <2>3 DEF WorkTypes
  <1>4. TypeInv'
    BY <1>1, <1>3 DEF ShowInv, TypeInv
  <1>5. \A k \in Keys : Snapshot(k)' = Snapshot(k)
    BY <1>1, SameSnapshot
  <1>6. ASSUME NEW w \in Works', lifetimes'[w.key[1]] = w.id.lifetime
        PROVE  /\ w.generation = generation'
               /\ w.id.revision <= Section(w.key)'.revision
               /\ w.id.revision = Section(w.key)'.revision /\ w.key \notin unreported'
                    => w.data = Snapshot(w.key)'
    <2>1. Section(w.key)' = Section(w.key)
      BY <1>1 DEF Section
    <2>2. CASE w \in Works
      <3>1. w.key \in Keys
        BY <2>2, WorkIs DEF ShowInv, TypeInv
      <3>2. QED
        BY <1>1, <1>5, <1>6, <2>1, <2>2, <3>1 DEF ShowInv, WorkInv
    <2>3. CASE w \in jobs' /\ w \notin jobs
      <3>1. /\ w.key \in Keys /\ meshes[w.key[1]] # Absent /\ w.generation = generation
            /\ w.id = Identity(w.key, meshes, lifetimes) /\ w.data = Snapshot(w.key)
        BY <1>1, <2>3
      <3>2. w.id.revision = Section(w.key).revision
        BY <3>1 DEF Identity, Section
      <3>3. Section(w.key).revision \in Nat
        BY <3>1, KeyTypes, SectionTypes DEF ShowInv, TypeInv, Section
      <3>4. QED
        BY <1>1, <1>5, <2>1, <3>1, <3>2, <3>3
    <2>4. QED
      BY <1>2, <2>2, <2>3
  <1>7. ShowsCurrent'
    <2>1. \A k : Section(k)' = Section(k) /\ (k \in Sections' <=> k \in Sections)
      BY <1>1, SectionsAre DEF Section
    <2>2. \A k \in Sections : Snapshot(k)' = Snapshot(k)
      BY <1>5, SectionsAre
    <2>3. QED
      BY <1>1, <2>1, <2>2 DEF ShowInv, ShowsCurrent, NeedsRebuild
  <1>8. QED
    BY <1>4, <1>6, <1>7 DEF ShowInv, WorkInv

\* A result that is taken gives the section its level and raises nothing.
LEMMA UploadIs ==
  ASSUME TypeInv, NEW r \in Work, IsCurrent(r.key, r.id), Upload(r)
  PROVE  /\ RegionsOf(regions') /\ nextInstance' \in Nat /\ MeshesOf(meshes')
         /\ \A c \in Columns : meshes'[c] # Absent <=> meshes[c] # Absent
         /\ \A k \in Keys \ {r.key} : meshes[k[1]] # Absent =>
              meshes'[k[1]][k[2]] = meshes[k[1]][k[2]]
         /\ LET s == meshes[r.key[1]][r.key[2]]  t == meshes'[r.key[1]][r.key[2]] IN
            /\ t.revision = s.revision /\ t.meshed = s.revision
            /\ t.levels \in [Lods -> Level] /\ t.levels[r.lod].data = r.data
            /\ t.built = IF NeedsRebuild(s) THEN {r.lod} ELSE s.built \union {r.lod}
            /\ ~NeedsRebuild(s) => \A l \in Lods \ {r.lod} : t.levels[l] = s.levels[l]
  <1> DEFINE c         == r.key[1]
             y         == r.key[2]
             coord     == RegionOf(c)
             m         == meshes[c]
             section   == m[y]
             exists    == coord \in DOMAIN regions
             found     == IF exists THEN regions[coord] ELSE NewRegion(nextInstance)
             registered == exists /\ Registered(m, found)
             full      == NeedsRebuild(section)
             old       == IF full \/ section.levels = Absent THEN [l \in Lods |-> NoLevel]
                          ELSE section.levels
             replaced  == IF full THEN Handles(section) ELSE {old[r.lod].handle} \ {Absent}
             counted   == [found EXCEPT !.active = IF registered THEN @ ELSE @ + 1]
             freed     == Freed(counted, replaced)
             isEmpty   == r.data \intersect OwnCells(r.key) = {}
             level     == [data |-> r.data,
                           handle |-> IF isEmpty THEN Absent
                                      ELSE [instance |-> found.instance, token |-> FreeToken(freed)]]
             levels    == [old EXCEPT ![r.lod] = level]
             new       == [revision |-> section.revision, meshed |-> r.id.revision,
                           levels |-> levels,
                           built |-> IF full THEN {r.lod} ELSE section.built \union {r.lod}]
  <1>1. /\ regions' = [x \in DOMAIN regions \union {coord} |->
                         IF x # coord THEN regions[x]
                         ELSE IF isEmpty THEN freed ELSE Allocated(freed)]
        /\ nextInstance' = IF exists THEN nextInstance ELSE nextInstance + 1
        /\ meshes' = [meshes EXCEPT ![c][y] = new]
    BY DEF Upload
  <1>2. /\ r.key \in Keys /\ r.lod \in Lods /\ r.data \in SUBSET Cells /\ r.id \in Id
    BY DEF Work
  <1>3. /\ c \in Columns /\ y \in SectionYs /\ c \in Int /\ r.key = <<c, y>>
    BY <1>2, KeyTypes
  <1>4. m # Absent /\ r.id.revision = section.revision
    BY DEF IsCurrent, Known, Identity
  <1>5. MeshesOf(meshes) /\ RegionsOf(regions) /\ nextInstance \in Nat
    BY DEF TypeInv
  <1>6. /\ m \in Mesh /\ section \in SectionMesh /\ section.revision \in Nat
        /\ section.levels \in [Lods -> Level] \union {Absent} /\ section.built \in SUBSET Lods
    BY <1>3, <1>4, <1>5, SectionTypes
  <1>7. full <=> (section.levels = Absent \/ section.meshed # section.revision)
    BY DEF NeedsRebuild
  <1>8. RegionIs(found)
    BY <1>5, NewRegionIs, RegionsAre
  <1>9. coord \in Int
    <2>1. RegionSize \in Nat \ {0}
      BY SectionMeshesAssumption
    <2>2. QED
      BY <1>3, <2>1 DEF RegionOf
  <1> HIDE DEF registered, found, exists, isEmpty
  <1>10. RegionIs(counted)
    <2>1. found.active \in Nat
      BY <1>8, RegionParts
    <2>2. QED
      BY <1>8, <2>1 DEF RegionIs, Region
  <1> HIDE DEF counted, replaced
  <1>11. RegionIs(freed)
    BY <1>10, FreedIs
  <1> HIDE DEF freed
  <1>12. RegionIs(Allocated(freed)) /\ FreeToken(freed) \in Nat
    <2>1. FreeToken(freed) \in 0 .. freed.capacity
      BY <1>11, FreeTokenIs
    <2>2. QED
      BY <1>11, <2>1, AllocatedIs
  <1>13. level \in Level /\ level.data = r.data
    <2>1. found.instance \in Nat
      BY <1>8, RegionParts
    <2>2. [instance |-> found.instance, token |-> FreeToken(freed)] \in Handle
      BY <1>12, <2>1 DEF Handle
    <2>3. QED
      BY <1>2, <2>2 DEF Level
  <1>14. old \in [Lods -> Level] /\ (~full => old = section.levels)
    <2>1. NoLevel \in Level
      BY DEF NoLevel, Level
    <2> HIDE DEF full, section
    <2>2. [l \in Lods |-> NoLevel] \in [Lods -> Level]
      BY <2>1
    <2>3. QED
      BY <1>6, <1>7, <2>2
  <1> HIDE DEF old, level
  <1>15. /\ levels \in [Lods -> Level] /\ levels[r.lod] = level
         /\ \A l \in Lods \ {r.lod} : levels[l] = old[l]
    BY <1>2, <1>13, <1>14
  <1> HIDE DEF levels, full
  <1>16. new \in SectionMesh
    <2>1. r.id.revision \in Nat
      BY <1>2 DEF Id
    <2>2. (IF full THEN {r.lod} ELSE section.built \union {r.lod}) \in SUBSET Lods
      BY <1>2, <1>6
    <2>3. QED
      BY <1>6, <1>15, <2>1, <2>2 DEF SectionMesh
  <1>17. /\ new.revision = section.revision /\ new.meshed = section.revision
         /\ new.levels = levels
         /\ new.built = IF full THEN {r.lod} ELSE section.built \union {r.lod}
    BY <1>4
  <1> HIDE DEF new, section
  <1>18. RegionsOf(regions') /\ nextInstance' \in Nat
    <2>1. /\ DOMAIN regions \subseteq Int
          /\ \A x \in DOMAIN regions : RegionIs(regions[x])
      BY <1>5, RegionsAre DEF RegionsOf
    <2>2. /\ DOMAIN regions' = DOMAIN regions \union {coord}
          /\ regions' = [x \in DOMAIN regions' |-> regions'[x]]
          /\ \A x \in DOMAIN regions : x # coord => regions'[x] = regions[x]
          /\ regions'[coord] = IF isEmpty THEN freed ELSE Allocated(freed)
      BY <1>1
    <2> HIDE DEF coord
    <2>3. \A x \in DOMAIN regions' : RegionIs(regions'[x])
      BY <1>11, <1>12, <2>1, <2>2
    <2>4. DOMAIN regions' \subseteq Int
      BY <1>9, <2>1, <2>2 DEF coord
    <2>5. RegionsOf(regions')
      BY <2>2, <2>3, <2>4, RegionsAre
    <2>6. nextInstance' \in Nat
      BY <1>1, <1>5
    <2>7. QED
      BY <2>5, <2>6
  <1> HIDE DEF coord
  <1>19. /\ meshes'[c] = [m EXCEPT ![y] = new]
         /\ \A d \in Columns \ {c} : meshes'[d] = meshes[d]
         /\ meshes' = [d \in Columns |-> meshes'[d]]
    <2>1. meshes = [d \in Columns |-> meshes[d]]
      BY <1>5 DEF MeshesOf
    <2> HIDE DEF c, y
    <2>2. QED
      BY <1>1, <1>3, <2>1
  <1>20. meshes'[c] \in Mesh /\ meshes'[c] # Absent /\ meshes'[c][y] = new
         /\ \A z \in SectionYs \ {y} : meshes'[c][z] = m[z]
    <2> HIDE DEF c, y, m
    <2>1. /\ meshes'[c] \in Mesh /\ meshes'[c][y] = new
          /\ \A z \in SectionYs \ {y} : meshes'[c][z] = m[z]
      BY <1>3, <1>6, <1>16, <1>19 DEF Mesh
    <2>2. QED
      BY <2>1, AbsentIsNone
  <1> HIDE DEF c, y
  <1>21. \A d \in Columns : meshes'[d] # Absent <=> meshes[d] # Absent
    BY <1>4, <1>19, <1>20
  <1>22. ASSUME NEW d \in Columns, NEW z \in SectionYs, d # c \/ z # y, meshes[d] # Absent
         PROVE  meshes'[d][z] = meshes[d][z]
    <2>1. CASE d # c
      BY <1>19, <2>1
    <2>2. CASE d = c
      BY <1>20, <1>22, <2>2
    <2>3. QED
      BY <2>1, <2>2
  <1>23. MeshesOf(meshes')
    <2>1. meshes' \in [Columns -> Mesh \union {Absent}]
      BY <1>3, <1>5, <1>19, <1>20 DEF MeshesOf
    <2>2. ASSUME NEW d \in Columns, NEW z \in SectionYs, meshes'[d] # Absent, meshes'[d][z].meshed # Absent
          PROVE  meshes'[d][z].meshed <= meshes'[d][z].revision
      <3>1. CASE d # c \/ z # y
        BY <1>5, <1>21, <1>22, <2>2, <3>1 DEF MeshesOf
      <3>2. CASE d = c /\ z = y
        BY <1>6, <1>17, <1>20, <3>2
      <3>3. QED
        BY <3>1, <3>2
    <2>3. QED
      BY <2>1, <2>2 DEF MeshesOf
  <1>24. ASSUME NEW k \in Keys \ {r.key}, meshes[k[1]] # Absent
         PROVE  meshes'[k[1]][k[2]] = meshes[k[1]][k[2]]
    <2>1. k[1] \in Columns /\ k[2] \in SectionYs /\ (k[1] # c \/ k[2] # y)
      BY <1>3, KeyTypes
    <2>2. QED
      BY <1>22, <1>24, <2>1
  <1>25. /\ meshes'[c][y].revision = section.revision /\ meshes'[c][y].meshed = section.revision
         /\ meshes'[c][y].levels = levels /\ levels[r.lod].data = r.data
         /\ meshes'[c][y].built = IF full THEN {r.lod} ELSE section.built \union {r.lod}
         /\ ~full => \A l \in Lods \ {r.lod} : levels[l] = section.levels[l]
    BY <1>13, <1>14, <1>15, <1>17, <1>20
  <1>26. section = meshes[r.key[1]][r.key[2]] /\ (full <=> NeedsRebuild(section))
         /\ c = r.key[1] /\ y = r.key[2]
    BY DEF section, c, y, full
  <1>27. QED
    BY <1>15, <1>18, <1>21, <1>23, <1>24, <1>25, <1>26

\* The results that are left are among those there were.
LEMMA TailWorks ==
  ASSUME WorkTypes, results # <<>>, UNCHANGED <<jobs, generation, nextLifetime>>,
         results' = Tail(results)
  PROVE  WorkTypes' /\ Works' \subseteq Works /\ Head(results) \in Works
  <1>1. results \in Seq(Work)
    BY DEF WorkTypes
  <1>2. /\ Len(results) \in Nat /\ DOMAIN results = 1 .. Len(results) /\ Len(results) # 0
        /\ results' \in Seq(Work) /\ Len(results') = Len(results) - 1
        /\ \A i \in 1 .. Len(results') : results'[i] = results[i + 1]
        /\ Head(results) = results[1]
    BY <1>1, HeadTailProperties, LenProperties, EmptySeq
  <1>3. DOMAIN results' = 1 .. Len(results')
    BY <1>2, LenProperties
  <1>4. \A i \in DOMAIN results' : i + 1 \in DOMAIN results
    BY <1>2, <1>3
  <1>5. Works' \subseteq Works
    BY <1>2, <1>3, <1>4 DEF Works
  <1>6. 1 \in DOMAIN results
    BY <1>2
  <1>7. Head(results) \in Works
    BY <1>2, <1>6 DEF Works
  <1>8. Work' = Work
    BY DEF Work, Keys
  <1>9. QED
    BY <1>2, <1>5, <1>7, <1>8 DEF WorkTypes

LEMMA UploadShows ==
  ASSUME ShowInv, NEW r \in Works, ShowsWanted(r), Upload(r),
         UNCHANGED <<columns, unreported, lifetimes, nextLifetime, generation>>,
         WorkTypes', Works' \subseteq Works
  PROVE  ShowInv'
  <1> DEFINE key == r.key
             s == meshes[r.key[1]][r.key[2]]
             t == meshes'[r.key[1]][r.key[2]]
  <1>1. /\ TypeInv /\ r \in Work /\ r.key \in Keys /\ r.lod \in Lods
        /\ IsCurrent(r.key, r.id) /\ Upload(r)
    BY WorkIs DEF ShowsWanted, ShowInv, TypeInv
  <1>2. /\ RegionsOf(regions') /\ nextInstance' \in Nat /\ MeshesOf(meshes')
        /\ \A c \in Columns : meshes'[c] # Absent <=> meshes[c] # Absent
        /\ \A k \in Keys \ {r.key} : meshes[k[1]] # Absent =>
             meshes'[k[1]][k[2]] = meshes[k[1]][k[2]]
        /\ t.revision = s.revision /\ t.meshed = s.revision
        /\ t.levels \in [Lods -> Level] /\ t.levels[r.lod].data = r.data
        /\ t.built = IF NeedsRebuild(s) THEN {r.lod} ELSE s.built \union {r.lod}
        /\ ~NeedsRebuild(s) => \A l \in Lods \ {r.lod} : t.levels[l] = s.levels[l]
    BY <1>1, UploadIs
  <1>3. TypeInv'
    <2>1. OwnersOf(columns', meshes', lifetimes', nextLifetime')
      BY <1>1, <1>2 DEF TypeInv, OwnersOf
    <2>2. QED
      BY <1>1, <1>2, <2>1 DEF TypeInv
  <1>4. /\ meshes[key[1]] # Absent /\ r.id.revision = s.revision
        /\ lifetimes[key[1]] = r.id.lifetime
    BY <1>1 DEF IsCurrent, Known, Identity
  <1>5. /\ Section(key) = s /\ Section(key)' = t /\ s.built \in SUBSET Lods
    BY <1>1, <1>4, KeyTypes, SectionTypes DEF Section, TypeInv
  <1>6. key \notin unreported => r.data = Snapshot(key)
    BY <1>4, <1>5 DEF ShowInv, WorkInv
  <1>7. \A k \in Keys : Snapshot(k)' = Snapshot(k)
    BY SameSnapshot
  <1> HIDE DEF key, s, t
  <1>8. \A k \in Keys : meshes[k[1]] # Absent =>
          /\ Section(k)'.revision = Section(k).revision
          /\ k # key => Section(k)' = Section(k)
    <2>1. ASSUME NEW k \in Keys, meshes[k[1]] # Absent
          PROVE  /\ Section(k)'.revision = Section(k).revision
                 /\ k # key => Section(k)' = Section(k)
      <3>1. CASE k = key
        BY <1>2, <1>5, <3>1
      <3>2. CASE k # key
        <4>1. meshes'[k[1]][k[2]] = meshes[k[1]][k[2]]
          BY <1>2, <2>1, <3>2 DEF key
        <4>2. QED
          BY <4>1 DEF Section
      <3>3. QED
        BY <3>1, <3>2
    <2>2. QED
      BY <2>1
  <1>9. WorkInv'
    <2>1. ASSUME NEW w \in Works', lifetimes'[w.key[1]] = w.id.lifetime
          PROVE  /\ w.generation = generation'
                 /\ w.id.revision <= Section(w.key)'.revision
                 /\ w.id.revision = Section(w.key)'.revision /\ w.key \notin unreported'
                      => w.data = Snapshot(w.key)'
      <3>1. w \in Works /\ w.key \in Keys /\ w.id.lifetime # 0
        BY <1>1, WorkIs DEF TypeInv
      <3>2. meshes[w.key[1]] # Absent
        BY <1>1, <2>1, <3>1, KeyTypes DEF TypeInv, OwnersOf
      <3>3. /\ w.generation = generation /\ w.id.revision <= Section(w.key).revision
            /\ w.id.revision = Section(w.key).revision /\ w.key \notin unreported
                 => w.data = Snapshot(w.key)
        BY <2>1, <3>1 DEF ShowInv, WorkInv
      <3>4. QED
        BY <1>7, <1>8, <3>1, <3>2, <3>3
    <2>2. QED
      BY <2>1 DEF WorkInv
  <1>10. ASSUME NEW k \in Sections' \ unreported', ~NeedsRebuild(Section(k)'), NEW l \in Section(k)'.built
         PROVE  Section(k)'.levels[l].data = Snapshot(k)'
    <2>1. k \in Keys /\ k \in Sections /\ meshes[k[1]] # Absent /\ k \notin unreported
      BY <1>2, KeyTypes, SectionsAre
    <2>2. CASE k # key
      BY <1>7, <1>8, <1>10, <2>1, <2>2 DEF ShowInv, ShowsCurrent
    <2>3. CASE k = key /\ l = r.lod
      BY <1>2, <1>5, <1>6, <1>7, <2>1, <2>3
    <2>4. CASE k = key /\ l # r.lod
      <3>1. ~NeedsRebuild(s) /\ l \in s.built /\ l \in Lods
        BY <1>2, <1>5, <1>10, <2>4
      <3>2. t.levels[l] = s.levels[l]
        BY <1>2, <2>4, <3>1
      <3>3. s.levels[l].data = Snapshot(k)
        BY <1>5, <2>1, <2>4, <3>1 DEF ShowInv, ShowsCurrent
      <3>4. QED
        BY <1>5, <1>7, <2>1, <2>4, <3>2, <3>3
    <2>5. QED
      BY <2>2, <2>3, <2>4
  <1>11. ShowsCurrent'
    BY <1>10 DEF ShowsCurrent, NeedsRebuild
  <1>12. QED
    BY <1>3, <1>9, <1>11 DEF ShowInv

LEMMA IntegrateShows ==
  ASSUME ShowInv, Integrate
  PROVE  ShowInv'
  <1>1. /\ UNCHANGED <<columns, unreported, lifetimes, nextLifetime, generation, jobs>>
        /\ results # <<>> /\ results' = Tail(results)
        /\ IF ShowsWanted(Head(results)) THEN Upload(Head(results))
           ELSE UNCHANGED <<meshes, regions, nextInstance>>
    BY DEF Integrate, world, owners
  <1>2. WorkTypes' /\ Works' \subseteq Works /\ Head(results) \in Works
    BY <1>1, TailWorks DEF ShowInv, TypeInv
  <1>3. PICK r \in Works : r = Head(results)
    BY <1>2
  <1>4. CASE ~ShowsWanted(r)
    <2>1. UNCHANGED <<meshes, regions, nextInstance>>
      BY <1>1, <1>3, <1>4
    <2>2. RegionsOf(regions') /\ nextInstance' \in Nat
      BY <2>1 DEF ShowInv, TypeInv
    <2>3. QED
      BY <1>1, <1>2, <2>1, <2>2, SameShows
  <1>5. CASE ShowsWanted(r)
    <2>1. Upload(r)
      BY <1>1, <1>3, <1>5
    <2>2. QED
      BY <1>1, <1>2, <1>5, <2>1, UploadShows
  <1>6. QED
    BY <1>4, <1>5

-----------------------------------------------------------------------------

LEMMA ShowStep ==
  ASSUME ShowInv, [Next]_vars
  PROVE  ShowInv'
  <1>1. CASE UNCHANGED vars
    <2>1. /\ UNCHANGED <<columns, unreported, lifetimes, nextLifetime, meshes, generation>>
          /\ UNCHANGED <<jobs, results, regions, nextInstance>>
      BY <1>1 DEF vars
    <2>2. WorkTypes' /\ Works' = Works
      BY <2>1, SameWork DEF ShowInv, TypeInv, OwnersOf
    <2>3. RegionsOf(regions') /\ nextInstance' \in Nat
      BY <2>1 DEF ShowInv, TypeInv
    <2>4. QED
      BY <2>1, <2>2, <2>3, SameShows
  <1>2. CASE Event
    <2>1. CASE \E c \in Columns, payload \in Payloads, lit \in SUBSET LightCells :
                 Commit(c, payload, lit)
      BY <2>1, CommitShows
    <2>2. CASE \E p \in EditCells, lit \in SUBSET LightCells : Edit(p, lit)
      BY <2>2, EditShows
    <2>3. CASE \E c \in Columns : Move(c)
      BY <2>3, MoveShows
    <2>4. CASE Login \/ Disconnect \/ SwitchDimension
      BY <2>4, LeavingShows
    <2>5. QED
      BY <1>2, <2>1, <2>2, <2>3, <2>4 DEF Event
  <1>3. CASE Frame
    BY <1>3, BeginFrameShows, IntegrateShows, CompactShows, UnloadShows, DispatchShows, DrawShows
       DEF Frame
  <1>4. CASE \E j \in jobs : Finish(j)
    BY <1>4, FinishShows
  <1>5. QED
    BY <1>1, <1>2, <1>3, <1>4 DEF Next

LEMMA ShowInductive == Spec => []ShowInv
  <1>1. Init => ShowInv
    BY InitShows
  <1>2. ShowInv /\ [Next]_vars => ShowInv'
    BY ShowStep
  <1>3. QED
    BY <1>1, <1>2, PTL DEF Spec

(* What a fresh section shows at any level it has built is what is in the  *)
(* world now, whatever overtook its job: changes of the section or of a    *)
(* neighbour's border, the column unloaded and loaded again, another       *)
(* dimension, another connection (section_mesh_result_is_current and       *)
(* mark_section_mesh_dependencies).                                        *)
THEOREM FreshSectionsShowTheWorld == Spec => []ShowsCurrent
  <1>1. ShowInv => ShowsCurrent
    BY DEF ShowInv
  <1>2. QED
    BY <1>1, ShowInductive, PTL

-----------------------------------------------------------------------------
(* No stale section is forgotten.                                            *)

KnowInv == NeverForgotten /\ dropped \intersect DOMAIN pending = {}

\* What a step may do to a section without forgetting it.
Requeued(k) ==
  k \notin dropped' => k \in DOMAIN pending' /\ pending'[k].id = Identity(k, meshes', lifetimes')
Waiting(k) ==
  /\ meshes[k[1]] # Absent
  /\ lifetimes'[k[1]] = lifetimes[k[1]] /\ meshes'[k[1]][k[2]] = meshes[k[1]][k[2]]
  /\ k \notin dropped' => k \notin dropped
  /\ k \notin dropped' /\ k \in DOMAIN pending => k \in DOMAIN pending' /\ pending'[k].id = pending[k].id
  /\ k \in DOMAIN inFlight => k \in DOMAIN inFlight' /\ inFlight'[k] = inFlight[k]

\* A section that waits, in the queue or with a worker.
Queued(k) == k \in DOMAIN pending /\ pending[k].id = Identity(k, meshes, lifetimes)
UnderWay(k) ==
  /\ k \in DOMAIN inFlight /\ inFlight[k] = Identity(k, meshes, lifetimes)
  /\ \E j \in Works : j.key = k /\ j.id = Identity(k, meshes, lifetimes) /\ j.generation = generation

LEMMA ForgottenIs ==
  /\ NeverForgotten <=>
       \A k \in Keys : meshes[k[1]] # Absent /\ k \notin dropped /\ NeedsRebuild(meshes[k[1]][k[2]])
                         => Queued(k) \/ UnderWay(k)
  /\ NeverForgotten' <=>
       \A k \in Keys : meshes'[k[1]] # Absent /\ k \notin dropped' /\ NeedsRebuild(meshes'[k[1]][k[2]])
                         => Queued(k)' \/ UnderWay(k)'
  <1>1. NeverForgotten <=>
          \A k \in Keys : meshes[k[1]] # Absent /\ k \notin dropped /\ NeedsRebuild(meshes[k[1]][k[2]])
                            => Queued(k) \/ UnderWay(k)
    BY SectionsAre DEF NeverForgotten, Queued, UnderWay, Section, Works
  <1>2. Keys' = Keys
    BY DEF Keys
  <1>3. (NeverForgotten <=>
          \A k \in Keys : meshes[k[1]] # Absent /\ k \notin dropped /\ NeedsRebuild(meshes[k[1]][k[2]])
                            => Queued(k) \/ UnderWay(k))'
    BY <1>2, SectionsAre DEF NeverForgotten, Queued, UnderWay, Section, Works, NeedsRebuild, Identity
  <1>4. QED
    BY <1>1, <1>2, <1>3 DEF NeedsRebuild

LEMMA SameIdentity ==
  ASSUME NEW k, lifetimes'[k[1]] = lifetimes[k[1]], meshes'[k[1]][k[2]] = meshes[k[1]][k[2]]
  PROVE  Identity(k, meshes', lifetimes') = Identity(k, meshes, lifetimes)
  BY DEF Identity

LEMMA StillKnown ==
  ASSUME NeverForgotten, Works \subseteq Works', generation' = generation,
         \A k \in Keys : meshes'[k[1]] # Absent => Requeued(k) \/ Waiting(k)
  PROVE  NeverForgotten'
  <1>1. ASSUME NEW k \in Keys, meshes'[k[1]] # Absent, k \notin dropped',
               NeedsRebuild(meshes'[k[1]][k[2]])
        PROVE  Queued(k)' \/ UnderWay(k)'
    <2>1. CASE Requeued(k)
      BY <1>1, <2>1 DEF Requeued, Queued
    <2>2. CASE Waiting(k)
      <3>1. /\ meshes[k[1]] # Absent /\ k \notin dropped /\ NeedsRebuild(meshes[k[1]][k[2]])
            /\ lifetimes'[k[1]] = lifetimes[k[1]] /\ meshes'[k[1]][k[2]] = meshes[k[1]][k[2]]
        BY <1>1, <2>2 DEF Waiting
      <3>2. Queued(k) \/ UnderWay(k)
        BY <3>1, ForgottenIs
      <3>3. Identity(k, meshes', lifetimes') = Identity(k, meshes, lifetimes)
        BY <3>1, SameIdentity
      <3>4. CASE Queued(k)
        BY <1>1, <2>2, <3>3, <3>4 DEF Queued, Waiting
      <3>5. CASE UnderWay(k)
        <4>1. PICK j \in Works : /\ j.key = k /\ j.id = Identity(k, meshes, lifetimes)
                                 /\ j.generation = generation
          BY <3>5 DEF UnderWay
        <4>2. k \in DOMAIN inFlight' /\ inFlight'[k] = Identity(k, meshes, lifetimes)
          BY <2>2, <3>5 DEF UnderWay, Waiting
        <4>3. QED
          BY <3>3, <4>1, <4>2 DEF UnderWay
      <3>6. QED
        BY <3>2, <3>4, <3>5
    <2>3. QED
      BY <1>1, <2>1, <2>2
  <1>2. QED
    BY <1>1, ForgottenIs

\* Queueing sections: what is no longer queued is dropped.
LEMMA QueueKeeps ==
  ASSUME NEW S, IsFiniteSet(S), NEW q, NEW ms, NEW lt, NEW D, D \intersect DOMAIN q = {}
  PROVE  LET r == EnqueueAll(q, S, ms, lt)  E == (D \union DOMAIN q \union S) \ DOMAIN r IN
         /\ E \intersect DOMAIN r = {}
         /\ \A k : k \in S /\ k \notin E => k \in DOMAIN r /\ r[k].id = Identity(k, ms, lt)
         /\ \A k : k \notin S /\ k \notin E =>
              k \notin D /\ (k \in DOMAIN q => k \in DOMAIN r /\ r[k].id = q[k].id)
  <1> DEFINE r == EnqueueAll(q, S, ms, lt)
  <1>1. /\ DOMAIN r \subseteq DOMAIN q \union S
        /\ \A k \in DOMAIN r : r[k].id = IF k \in S THEN Identity(k, ms, lt) ELSE q[k].id
    BY EnqueueAllKeeps
  <1> HIDE DEF r
  <1>2. QED
    BY <1>1 DEF r

LEMMA FiniteKeys ==
  ASSUME NEW S, S \subseteq Keys
  PROVE  IsFiniteSet(S)
  BY FS_Product, FS_Subset, SectionMeshesAssumption DEF Keys

LEMMA InvalidateQueues ==
  ASSUME NEW S, NEW ms, NEW lt, Invalidate(S, pending, ms, lt), dropped \intersect DOMAIN pending = {}
  PROVE  /\ dropped' \intersect DOMAIN pending' = {}
         /\ \A c \in Columns : meshes'[c] # Absent => ms[c] # Absent
         /\ \A k \in Keys : Known(k, ms, lt) /\ k \in S /\ k \notin dropped' =>
              k \in DOMAIN pending' /\ pending'[k].id = Identity(k, meshes', lt)
         /\ \A k \in Keys : ms[k[1]] # Absent /\ k \notin S =>
              /\ meshes'[k[1]][k[2]] = ms[k[1]][k[2]]
              /\ k \notin dropped' =>
                   /\ k \notin dropped
                   /\ k \in DOMAIN pending => k \in DOMAIN pending' /\ pending'[k].id = pending[k].id
  <1> DEFINE known == {k \in S : Known(k, ms, lt)}
             newer == InvalidatedMeshes(ms, known)
             queue == EnqueueAll(pending, known, newer, lt)
  <1>1. /\ meshes' = newer /\ pending' = queue
        /\ dropped' = (dropped \union DOMAIN pending \union known) \ DOMAIN queue
    BY DEF Invalidate
  <1>2. \A c \in Columns : newer[c] # Absent => ms[c] # Absent
    BY DEF InvalidatedMeshes
  <1>3. ASSUME NEW k \in Keys, ms[k[1]] # Absent, k \notin S
        PROVE  newer[k[1]][k[2]] = ms[k[1]][k[2]]
    <2>1. k[1] \in Columns /\ k[2] \in SectionYs /\ k = <<k[1], k[2]>>
      BY KeyTypes
    <2>2. <<k[1], k[2]>> \notin known
      BY <1>3, <2>1
    <2> HIDE DEF known
    <2>3. QED
      BY <1>3, <2>1, <2>2 DEF InvalidatedMeshes
  <1>4. known \subseteq Keys /\ \A k : Known(k, ms, lt) /\ k \in S => k \in known
    BY DEF Known
  <1>5. \A k : k \notin S => k \notin known
    OBVIOUS
  <1>6. IsFiniteSet(known)
    BY <1>4, FiniteKeys
  <1> HIDE DEF known, newer
  <1>7. /\ dropped' \intersect DOMAIN queue = {}
        /\ \A k : k \in known /\ k \notin dropped' => k \in DOMAIN queue /\ queue[k].id = Identity(k, newer, lt)
        /\ \A k : k \notin known /\ k \notin dropped' =>
             k \notin dropped /\ (k \in DOMAIN pending => k \in DOMAIN queue /\ queue[k].id = pending[k].id)
    <2> DEFINE lost == (dropped \union DOMAIN pending \union known) \ DOMAIN queue
    <2>1. /\ lost \intersect DOMAIN queue = {}
          /\ \A k : k \in known /\ k \notin lost => k \in DOMAIN queue /\ queue[k].id = Identity(k, newer, lt)
          /\ \A k : k \notin known /\ k \notin lost =>
               k \notin dropped /\ (k \in DOMAIN pending => k \in DOMAIN queue /\ queue[k].id = pending[k].id)
      BY <1>6, QueueKeeps
    <2> HIDE DEF queue
    <2>2. dropped' = lost
      BY <1>1
    <2> HIDE DEF lost
    <2>3. dropped' \intersect DOMAIN queue = {}
      BY <2>1, <2>2, Zenon
    <2>4. ASSUME NEW k, k \in known, k \notin dropped'
          PROVE  k \in DOMAIN queue /\ queue[k].id = Identity(k, newer, lt)
      <3>1. k \notin lost
        BY <2>2, <2>4, Zenon
      <3>2. QED
        BY <2>1, <2>4, <3>1, Zenon
    <2>5. ASSUME NEW k, k \notin known, k \notin dropped'
          PROVE  k \notin dropped /\ (k \in DOMAIN pending => k \in DOMAIN queue /\ queue[k].id = pending[k].id)
      <3>1. k \notin lost
        BY <2>2, <2>5, Zenon
      <3>2. QED
        BY <2>1, <2>5, <3>1, Zenon
    <2>6. QED
      BY <2>3, <2>4, <2>5, Zenon
  <1> HIDE DEF queue
  <1>8. ASSUME NEW k \in Keys, Known(k, ms, lt), k \in S, k \notin dropped'
        PROVE  k \in DOMAIN pending' /\ pending'[k].id = Identity(k, meshes', lt)
    BY <1>1, <1>4, <1>7, <1>8
  <1>9. ASSUME NEW k \in Keys, ms[k[1]] # Absent, k \notin S
        PROVE  /\ meshes'[k[1]][k[2]] = ms[k[1]][k[2]]
               /\ k \notin dropped' =>
                    /\ k \notin dropped
                    /\ k \in DOMAIN pending => k \in DOMAIN pending' /\ pending'[k].id = pending[k].id
    <2>1. meshes'[k[1]][k[2]] = ms[k[1]][k[2]]
      BY <1>1, <1>3, <1>9
    <2>2. k \notin known
      BY <1>5, <1>9
    <2>3. QED
      BY <1>1, <1>7, <2>1, <2>2
  <1>10. dropped' \intersect DOMAIN pending' = {} /\ \A c \in Columns : meshes'[c] # Absent => ms[c] # Absent
    BY <1>1, <1>2, <1>7
  <1>11. QED
    BY <1>8, <1>9, <1>10

\* A step that leaves the sections and the queues alone forgets nothing.
LEMMA SameKnown ==
  ASSUME KnowInv, UNCHANGED <<lifetimes, meshes, pending, dropped, inFlight, generation>>,
         Works' = Works
  PROVE  KnowInv'
  <1>1. ASSUME NEW k \in Keys, meshes'[k[1]] # Absent PROVE Waiting(k)
    BY <1>1 DEF Waiting
  <1>2. NeverForgotten'
    BY <1>1, StillKnown DEF KnowInv
  <1>3. QED
    BY <1>2 DEF KnowInv

\* A step that invalidates sections, and queues them.
LEMMA InvalidateKnown ==
  ASSUME KnowInv, NEW S, NEW ms, NEW lt, Invalidate(S, pending, ms, lt), lifetimes' = lt,
         UNCHANGED <<inFlight, generation>>, Works' = Works,
         \A k \in Keys : ms[k[1]] # Absent =>
           IF k \in S THEN Known(k, ms, lt)
           ELSE /\ meshes[k[1]] # Absent
                /\ lt[k[1]] = lifetimes[k[1]] /\ ms[k[1]] = meshes[k[1]]
  PROVE  KnowInv'
  <1>1. dropped \intersect DOMAIN pending = {}
    BY DEF KnowInv
  <1>2. /\ dropped' \intersect DOMAIN pending' = {}
        /\ \A c \in Columns : meshes'[c] # Absent => ms[c] # Absent
        /\ \A k \in Keys : Known(k, ms, lt) /\ k \in S /\ k \notin dropped' =>
             k \in DOMAIN pending' /\ pending'[k].id = Identity(k, meshes', lt)
        /\ \A k \in Keys : ms[k[1]] # Absent /\ k \notin S =>
             /\ meshes'[k[1]][k[2]] = ms[k[1]][k[2]]
             /\ k \notin dropped' =>
                  /\ k \notin dropped
                  /\ k \in DOMAIN pending => k \in DOMAIN pending' /\ pending'[k].id = pending[k].id
    BY <1>1, InvalidateQueues
  <1>3. ASSUME NEW k \in Keys, meshes'[k[1]] # Absent
        PROVE  Requeued(k) \/ Waiting(k)
    <2>1. ms[k[1]] # Absent
      BY <1>2, <1>3, KeyTypes
    <2>2. CASE k \in S
      <3>1. Known(k, ms, lt)
        BY <2>1, <2>2
      <3>2. k \notin dropped' => k \in DOMAIN pending' /\ pending'[k].id = Identity(k, meshes', lt)
        BY <1>2, <2>2, <3>1
      <3>3. QED
        BY <3>2 DEF Requeued
    <2>3. CASE k \notin S
      <3>1. meshes[k[1]] # Absent /\ lifetimes'[k[1]] = lifetimes[k[1]] /\ ms[k[1]] = meshes[k[1]]
        BY <2>1, <2>3
      <3>2. /\ meshes'[k[1]][k[2]] = ms[k[1]][k[2]]
            /\ k \notin dropped' =>
                 /\ k \notin dropped
                 /\ k \in DOMAIN pending => k \in DOMAIN pending' /\ pending'[k].id = pending[k].id
        BY <1>2, <2>1, <2>3
      <3>3. QED
        BY <3>1, <3>2 DEF Waiting
    <2>4. QED
      BY <2>2, <2>3
  <1>4. NeverForgotten'
    BY <1>3, StillKnown DEF KnowInv
  <1>5. QED
    BY <1>2, <1>4 DEF KnowInv

LEMMA InitKnown ==
  ASSUME Init
  PROVE  KnowInv
  <1>1. \A k \in Keys : meshes[k[1]] = Absent
    BY KeyTypes DEF Init
  <1>2. NeverForgotten
    BY <1>1, ForgottenIs
  <1>3. QED
    BY <1>2 DEF Init, KnowInv

LEMMA CommitKnown ==
  ASSUME ShowInv, KnowInv, NEW c \in Columns, NEW payload \in Payloads,
         NEW lit \in SUBSET LightCells, Commit(c, payload, lit)
  PROVE  KnowInv'
  <1> DEFINE isNew  == columns[c] = Absent
             placed == [columns EXCEPT ![c] = {p \in payload : ColumnOf(p) = c}]
             shone  == {p \in lit : ColumnOf(p) \in Columns /\ placed[ColumnOf(p)] # Absent}
             lt     == [lifetimes EXCEPT ![c] = IF isNew \/ @ = 0 THEN nextLifetime ELSE @]
             fresh  == [y \in SectionYs |-> NewSection]
             ms     == [meshes EXCEPT ![c] = IF isNew \/ @ = Absent THEN fresh ELSE @]
             stale  == {c} \union {d \in Surrounding(c) \intersect Columns : placed[d] # Absent}
                           \union {ColumnOf(p) : p \in shone}
  <1>1. lifetimes' = lt /\ Invalidate(KeysOf(stale), pending, ms, lt)
    BY DEF Commit
  <1>2. UNCHANGED <<inFlight, jobs, results, generation>>
    BY DEF Commit, work
  <1>3. Works' = Works
    BY <1>2 DEF Works
  <1>4. MeshesOf(meshes) /\ OwnersOf(columns, meshes, lifetimes, nextLifetime)
    BY DEF ShowInv, TypeInv
  <1>5. /\ \A d \in Columns : d # c => lt[d] = lifetimes[d] /\ ms[d] = meshes[d]
        /\ meshes[c] = Absent => lt[c] = nextLifetime
        /\ meshes[c] # Absent => lt[c] = lifetimes[c]
    BY <1>4 DEF OwnersOf, MeshesOf
  <1>6. \A k \in Keys : k \in KeysOf(stale) <=> k[1] \in stale
    <2> HIDE DEF stale
    <2>1. QED
      BY KeyTypes DEF KeysOf
  <1>7. c \in stale
    OBVIOUS
  <1> HIDE DEF stale, shone, lt, ms, isNew
  <1>8. \A d \in Columns : ms[d] # Absent => lt[d] # 0
    <2>1. \A d \in Columns : meshes[d] # Absent => lifetimes[d] # 0
      BY <1>4 DEF OwnersOf
    <2>2. nextLifetime # 0
      BY <1>4 DEF OwnersOf
    <2>3. QED
      BY <1>5, <2>1, <2>2
  <1>9. ASSUME NEW k \in Keys, ms[k[1]] # Absent
        PROVE  IF k \in KeysOf(stale) THEN Known(k, ms, lt)
               ELSE /\ meshes[k[1]] # Absent
                    /\ lt[k[1]] = lifetimes[k[1]] /\ ms[k[1]] = meshes[k[1]]
    <2>1. k[1] \in Columns
      BY KeyTypes
    <2>2. Known(k, ms, lt)
      BY <1>8, <1>9, <2>1 DEF Known
    <2>3. k \notin KeysOf(stale) => k[1] # c
      BY <1>6, <1>7
    <2>4. QED
      BY <1>5, <1>9, <2>1, <2>2, <2>3
  <1>10. QED
    BY <1>1, <1>2, <1>3, <1>9, InvalidateKnown

\* Invalidating sections of the columns as they are.
LEMMA InvalidateHere ==
  ASSUME ShowInv, KnowInv, NEW S, Invalidate(S, pending, meshes, lifetimes),
         UNCHANGED <<lifetimes, inFlight, generation>>, Works' = Works
  PROVE  KnowInv'
  <1>1. \A k \in Keys : meshes[k[1]] # Absent => Known(k, meshes, lifetimes)
    BY KnownIs DEF ShowInv, TypeInv
  <1>2. QED
    BY <1>1, InvalidateKnown

LEMMA EditKnown ==
  ASSUME ShowInv, KnowInv, NEW p \in EditCells, NEW lit, Edit(p, lit)
  PROVE  KnowInv'
  <1> DEFINE shone == {q \in lit : ColumnOf(q) \in Columns /\ columns[ColumnOf(q)] # Absent}
  <1>1. Invalidate(unreported \union AllDependents({p} \union shone), pending, meshes, lifetimes)
    BY DEF Edit
  <1>2. UNCHANGED <<lifetimes, inFlight, jobs, results, generation>>
    BY DEF Edit, owners, work
  <1>3. Works' = Works
    BY <1>2 DEF Works
  <1>4. QED
    BY <1>1, <1>2, <1>3, InvalidateHere

LEMMA BeginFrameKnown ==
  ASSUME ShowInv, KnowInv, BeginFrame
  PROVE  KnowInv'
  <1>1. UNCHANGED <<lifetimes, inFlight, jobs, results, generation>>
    BY DEF BeginFrame, owners, work
  <1>2. Works' = Works
    BY <1>1 DEF Works
  <1>3. CASE Invalidate(unreported, pending, meshes, lifetimes)
    BY <1>1, <1>2, <1>3, InvalidateHere
  <1>4. CASE UNCHANGED <<meshes, queues>>
    BY <1>1, <1>2, <1>4, SameKnown DEF queues
  <1>5. QED
    BY <1>3, <1>4 DEF BeginFrame

LEMMA LeavingKnown ==
  ASSUME Teardown
  PROVE  KnowInv'
  <1>1. /\ meshes' = [c \in Columns |-> Absent] /\ dropped' = {}
    BY DEF Teardown
  <1>2. \A k \in Keys : meshes'[k[1]] = Absent
    BY <1>1, KeyTypes
  <1>3. NeverForgotten'
    BY <1>2, ForgottenIs
  <1>4. QED
    BY <1>1, <1>3 DEF KnowInv

LEMMA DrawKnown ==
  ASSUME KnowInv, NEW fills, Draw(fills)
  PROVE  KnowInv'
  <1> DEFINE asked == {k \in fills \ DOMAIN inFlight : Known(k, meshes, lifetimes)}
             queue == EnqueueAll(pending, asked, meshes, lifetimes)
             lost  == (dropped \union DOMAIN pending \union asked) \ DOMAIN queue
  <1>1. pending' = queue /\ dropped' = lost
    BY DEF Draw
  <1>2. UNCHANGED <<lifetimes, meshes, inFlight, jobs, results, generation>>
    BY DEF Draw, owners, work
  <1>3. Works' = Works
    BY <1>2 DEF Works
  <1>4. asked \subseteq Keys
    BY DEF Known
  <1> HIDE DEF asked
  <1>5. IsFiniteSet(asked)
    BY <1>4, FiniteKeys
  <1>6. dropped \intersect DOMAIN pending = {}
    BY DEF KnowInv
  <1>7. /\ lost \intersect DOMAIN queue = {}
        /\ \A k : k \in asked /\ k \notin lost =>
             k \in DOMAIN queue /\ queue[k].id = Identity(k, meshes, lifetimes)
        /\ \A k : k \notin asked /\ k \notin lost =>
             k \notin dropped /\ (k \in DOMAIN pending => k \in DOMAIN queue /\ queue[k].id = pending[k].id)
    BY <1>5, <1>6, QueueKeeps
  <1> HIDE DEF queue, lost
  <1>8. ASSUME NEW k \in Keys, meshes'[k[1]] # Absent
        PROVE  Requeued(k) \/ Waiting(k)
    <2>1. CASE k \in asked
      BY <1>1, <1>2, <1>7, <2>1 DEF Requeued
    <2>2. CASE k \notin asked
      BY <1>1, <1>2, <1>7, <1>8, <2>2 DEF Waiting
    <2>3. QED
      BY <2>1, <2>2
  <1>9. NeverForgotten'
    BY <1>2, <1>3, <1>8, StillKnown DEF KnowInv
  <1>10. QED
    BY <1>1, <1>7, <1>9 DEF KnowInv

LEMMA UnloadKnown ==
  ASSUME ShowInv, KnowInv, Unload
  PROVE  KnowInv'
  <1>1. UNCHANGED <<jobs, results, generation>>
    BY DEF Unload
  <1>2. Works' = Works
    BY <1>1 DEF Works
  <1>3. CASE UNCHANGED <<lifetimes, meshes, queues, inFlight>>
    BY <1>1, <1>2, <1>3, SameKnown DEF queues
  <1>4. CASE target # player
    <2> DEFINE gone    == {c \in Columns : columns[c] # Absent /\ ~WithinHysteresis(c)}
               stays   == {c \in Columns : columns[c] # Absent} \ gone
               beside  == stays \intersect UNION {Surrounding(c) : c \in gone}
               stale   == {k \in KeysOf(beside) : Known(k, meshes, lifetimes)}
               newer   == InvalidatedMeshes(meshes, stale)
               cleared == {c \in Columns : newer[c] # Absent /\ ~WithinHysteresis(c)}
               queue   == EnqueueAll(pending, stale, newer, lifetimes)
               kept    == Without(queue, KeysOf(gone))
               lost    == (dropped \union DOMAIN pending \union stale) \ DOMAIN queue
    <2>1. /\ lifetimes' = [c \in Columns |-> IF c \in gone THEN 0 ELSE lifetimes[c]]
          /\ meshes' = [c \in Columns |-> IF c \in cleared THEN Absent ELSE newer[c]]
          /\ inFlight' = Without(inFlight, KeysOf(gone))
          /\ pending' = [k \in DOMAIN kept |-> QueuedWork(kept[k].id, k)]
          /\ dropped' = (dropped \union DOMAIN pending \union stale) \ (DOMAIN kept \union KeysOf(gone))
      BY <1>4 DEF Unload
    <2>2. MeshesOf(meshes) /\ OwnersOf(columns, meshes, lifetimes, nextLifetime)
      BY DEF ShowInv, TypeInv
    <2>3. \A c \in Columns : columns[c] # Absent => (c \in gone <=> ~WithinHysteresis(c))
      OBVIOUS
    <2>4. \A c \in Columns : newer[c] # Absent => (c \in cleared <=> ~WithinHysteresis(c))
      OBVIOUS
    <2>5. stale \subseteq Keys
      BY DEF Known
    <2>6. DOMAIN kept = DOMAIN queue \ KeysOf(gone) /\ \A k \in DOMAIN kept : kept[k] = queue[k]
      BY DEF Without
    <2>7. \A k \in Keys : k \in KeysOf(gone) <=> k[1] \in gone
      <3> HIDE DEF gone
      <3>1. QED
        BY KeyTypes DEF KeysOf
    <2> HIDE DEF gone, stays, beside, stale, kept
    <2>8. IsFiniteSet(stale)
      BY <2>5, FiniteKeys
    <2>9. /\ MeshesOf(newer)
          /\ \A c \in Columns : newer[c] # Absent <=> meshes[c] # Absent
          /\ \A k \in Keys : meshes[k[1]] # Absent =>
               newer[k[1]][k[2]] = IF k \in stale THEN Raised(meshes[k[1]][k[2]]) ELSE meshes[k[1]][k[2]]
      BY <2>2, InvalidatedTypes
    <2> HIDE DEF newer, cleared
    <2>10. dropped \intersect DOMAIN pending = {}
      BY DEF KnowInv
    <2>11. /\ lost \intersect DOMAIN queue = {}
           /\ \A k : k \in stale /\ k \notin lost =>
                k \in DOMAIN queue /\ queue[k].id = Identity(k, newer, lifetimes)
           /\ \A k : k \notin stale /\ k \notin lost =>
                k \notin dropped /\ (k \in DOMAIN pending => k \in DOMAIN queue /\ queue[k].id = pending[k].id)
      BY <2>8, <2>10, QueueKeeps
    <2>12. \A k : k \notin KeysOf(gone) => (k \in dropped' <=> k \in lost)
      BY <2>1, <2>6
    <2>13. dropped' \intersect DOMAIN pending' = {}
      BY <2>1
    <2>14. \A k : k \notin KeysOf(gone) /\ k \in DOMAIN queue =>
             k \in DOMAIN pending' /\ pending'[k].id = queue[k].id
      BY <2>1, <2>6 DEF QueuedWork
    <2>15. \A k : k \notin KeysOf(gone) /\ k \in DOMAIN inFlight =>
             k \in DOMAIN inFlight' /\ inFlight'[k] = inFlight[k]
      BY <2>1 DEF Without
    <2>16. \A c \in Columns : newer[c] # Absent => (c \in cleared <=> c \in gone)
      BY <2>2, <2>3, <2>4, <2>9 DEF OwnersOf
    <2> HIDE DEF queue, lost
    <2>17. ASSUME NEW k \in Keys, meshes'[k[1]] # Absent
           PROVE  Requeued(k) \/ Waiting(k)
      <3>1. k[1] \in Columns /\ k[1] \notin cleared /\ newer[k[1]] # Absent /\ meshes'[k[1]] = newer[k[1]]
        BY <2>1, <2>17, KeyTypes
      <3>2. k \notin KeysOf(gone) /\ meshes[k[1]] # Absent /\ lifetimes'[k[1]] = lifetimes[k[1]]
        BY <2>1, <2>7, <2>9, <2>16, <3>1
      <3>3. CASE k \in stale
        <4>1. k \notin dropped' => k \in DOMAIN pending' /\ pending'[k].id = Identity(k, newer, lifetimes)
          BY <2>11, <2>12, <2>14, <3>2, <3>3
        <4>2. Identity(k, meshes', lifetimes') = Identity(k, newer, lifetimes)
          BY <3>1, <3>2 DEF Identity
        <4>3. QED
          BY <4>1, <4>2 DEF Requeued
      <3>4. CASE k \notin stale
        <4>1. meshes'[k[1]][k[2]] = meshes[k[1]][k[2]]
          BY <2>9, <3>1, <3>2, <3>4
        <4>2. k \notin dropped' =>
                k \notin dropped
                /\ (k \in DOMAIN pending => k \in DOMAIN pending' /\ pending'[k].id = pending[k].id)
          BY <2>11, <2>12, <2>14, <3>2, <3>4
        <4>3. QED
          BY <2>15, <3>2, <4>1, <4>2 DEF Waiting
      <3>5. QED
        BY <3>3, <3>4
    <2>18. NeverForgotten'
      BY <1>1, <1>2, <2>17, StillKnown DEF KnowInv
    <2>19. QED
      BY <2>13, <2>18 DEF KnowInv
  <1>5. QED
    BY <1>3, <1>4 DEF Unload

\* Work leaves the queue for a worker, or because it has become needless.
LEMMA DispatchKnown ==
  ASSUME ShowInv, KnowInv, Dispatch
  PROVE  KnowInv'
  <1> DEFINE inView == {k \in DOMAIN pending : Dist(k[1], player) <= ViewDistance}
             open   == inView \ DOMAIN inFlight
             wanted == {k \in open : Wanted(k)}
             ahead(k) == {j \in wanted : Before(pending, j, k)}
             taken  == {k \in wanted : Cardinality(ahead(k)) < FreeSlots}
             passed == {k \in open \ wanted : Cardinality(ahead(k)) < FreeSlots}
             seen   == taken \union passed
             deferred == {k \in inView \intersect DOMAIN inFlight : Cardinality(ahead(k)) < FreeSlots}
             job(k) == [key |-> k, id |-> pending[k].id, generation |-> generation,
                        lod |-> Selected(k), data |-> Snapshot(k)]
  <1>1. /\ pending' = [k \in DOMAIN pending \ seen |->
                         IF k \in deferred THEN QueuedWork(pending[k].id, k) ELSE pending[k]]
        /\ inFlight' = [k \in DOMAIN inFlight \union taken |->
                          IF k \in taken THEN pending[k].id ELSE inFlight[k]]
        /\ jobs' = jobs \union {job(k) : k \in taken}
    BY DEF Dispatch
  <1>2. UNCHANGED <<lifetimes, meshes, dropped, results, generation>>
    BY DEF Dispatch, owners
  <1>3. /\ taken \intersect DOMAIN inFlight = {}
        /\ \A k \in seen : k \in taken \/ ~Wanted(k)
    OBVIOUS
  <1> HIDE DEF taken, seen, deferred
  <1>4. Works \subseteq Works' /\ \A k \in taken : job(k) \in Works'
    BY <1>1, <1>2 DEF Works
  <1>5. ASSUME NEW k \in Keys, meshes'[k[1]] # Absent, k \notin dropped',
               NeedsRebuild(meshes'[k[1]][k[2]])
        PROVE  Queued(k)' \/ UnderWay(k)'
    <2>1. meshes[k[1]] # Absent /\ k \notin dropped /\ NeedsRebuild(meshes[k[1]][k[2]])
      BY <1>2, <1>5
    <2>2. Queued(k) \/ UnderWay(k)
      BY <2>1, ForgottenIs DEF KnowInv
    <2>3. Identity(k, meshes', lifetimes') = Identity(k, meshes, lifetimes)
      BY <1>2
    <2>4. CASE UnderWay(k)
      <3>1. PICK j \in Works : /\ j.key = k /\ j.id = Identity(k, meshes, lifetimes)
                               /\ j.generation = generation
        BY <2>4 DEF UnderWay
      <3>2. k \in DOMAIN inFlight /\ inFlight[k] = Identity(k, meshes, lifetimes)
        BY <2>4 DEF UnderWay
      <3>3. k \in DOMAIN inFlight' /\ inFlight'[k] = inFlight[k]
        BY <1>1, <1>3, <3>2
      <3>4. QED
        BY <1>2, <1>4, <2>3, <3>1, <3>2, <3>3 DEF UnderWay
    <2>5. CASE Queued(k) /\ k \in taken
      <3>1. k \in DOMAIN inFlight' /\ inFlight'[k] = pending[k].id
        BY <1>1, <2>5
      <3>2. pending[k].id = Identity(k, meshes, lifetimes)
        BY <2>5 DEF Queued
      <3>3. /\ job(k) \in Works' /\ job(k).key = k /\ job(k).id = pending[k].id
            /\ job(k).generation = generation
        BY <1>4, <2>5
      <3> HIDE DEF job
      <3>4. QED
        BY <1>2, <2>3, <3>1, <3>2, <3>3 DEF UnderWay
    <2>6. CASE Queued(k) /\ k \notin taken
      <3>1. k \in DOMAIN pending /\ pending[k].id = Identity(k, meshes, lifetimes)
        BY <2>6 DEF Queued
      <3>2. Wanted(k)
        <4>1. columns[k[1]] # Absent /\ Known(k, meshes, lifetimes)
          BY <2>1, KeyTypes, KnownIs DEF ShowInv, TypeInv, OwnersOf
        <4>2. QED
          BY <2>1, <3>1, <4>1 DEF Wanted, IsCurrent
      <3>3. k \notin seen
        BY <1>3, <2>6, <3>2
      <3>4. k \in DOMAIN pending' /\ pending'[k].id = pending[k].id
        BY <1>1, <3>1, <3>3 DEF QueuedWork
      <3>5. QED
        BY <2>3, <3>1, <3>4 DEF Queued
    <2>7. QED
      BY <2>2, <2>4, <2>5, <2>6
  <1>6. NeverForgotten'
    BY <1>5, ForgottenIs
  <1>7. dropped' \intersect DOMAIN pending' = {}
    BY <1>1, <1>2 DEF KnowInv
  <1>8. QED
    BY <1>6, <1>7 DEF KnowInv

\* What a result leaves of the work.
LEMMA TailLeaves ==
  ASSUME WorkTypes, results # <<>>, jobs' = jobs, results' = Tail(results),
         NEW w \in Works, w # Head(results)
  PROVE  w \in Works'
  <1>1. CASE w \in jobs
    BY <1>1 DEF Works
  <1>2. CASE \E i \in DOMAIN results : w = results[i]
    <2>1. PICK i \in DOMAIN results : w = results[i]
      BY <1>2
    <2>2. results \in Seq(Work)
      BY DEF WorkTypes
    <2>3. /\ Len(results) \in Nat /\ DOMAIN results = 1 .. Len(results) /\ Head(results) = results[1]
          /\ results' \in Seq(Work) /\ Len(results') = Len(results) - 1
          /\ \A n \in 1 .. Len(results') : results'[n] = results[n + 1]
      BY <2>2, HeadTailProperties, LenProperties
    <2>4. DOMAIN results' = 1 .. Len(results')
      BY <2>3, LenProperties
    <2>5. i \in 1 .. Len(results) /\ i # 1
      BY <2>1, <2>3
    <2>6. i - 1 \in 1 .. Len(results') /\ (i - 1) + 1 = i
      BY <2>3, <2>5
    <2>7. results'[i - 1] = w
      BY <2>1, <2>3, <2>6
    <2>8. QED
      BY <2>4, <2>6, <2>7 DEF Works
  <1>3. QED
    BY <1>1, <1>2 DEF Works

\* A result either makes its section fresh, or was not what the section waits for.
LEMMA IntegrateKnown ==
  ASSUME ShowInv, KnowInv, Integrate
  PROVE  KnowInv'
  <1>1. /\ UNCHANGED <<columns, unreported, lifetimes, nextLifetime, generation, jobs>>
        /\ UNCHANGED <<pending, dropped>>
        /\ results # <<>> /\ results' = Tail(results) /\ inFlight' = Retired(Head(results))
        /\ IF ShowsWanted(Head(results)) THEN Upload(Head(results))
           ELSE UNCHANGED <<meshes, regions, nextInstance>>
    BY DEF Integrate, world, owners, queues
  <1>2. WorkTypes /\ TypeInv
    BY DEF ShowInv, TypeInv
  <1>3. Head(results) \in Works
    BY <1>1, <1>2, TailWorks
  <1>4. PICK r \in Works : r = Head(results)
    BY <1>3
  <1>5. r \in Work /\ r.key \in Keys
    BY <1>2, WorkIs
  <1>6. \A w \in Works : w # r => w \in Works'
    BY <1>1, <1>2, <1>4, TailLeaves
  <1>7. \A k \in DOMAIN inFlight : ~(k = r.key /\ inFlight[k] = r.id) =>
          k \in DOMAIN inFlight' /\ inFlight'[k] = inFlight[k]
    <2>1. inFlight' = Retired(r)
      BY <1>1, <1>4
    <2>2. QED
      BY <2>1 DEF Retired, Without
  <1>8. \A k \in Keys : meshes'[k[1]] # Absent =>
          /\ meshes[k[1]] # Absent
          /\ NeedsRebuild(meshes'[k[1]][k[2]]) =>
               /\ meshes'[k[1]][k[2]] = meshes[k[1]][k[2]]
               /\ ~(k = r.key /\ ShowsWanted(r))
    <2>1. CASE ~ShowsWanted(r)
      BY <1>1, <1>4, <2>1
    <2>2. CASE ShowsWanted(r)
      <3> DEFINE s == meshes[r.key[1]][r.key[2]]
                 t == meshes'[r.key[1]][r.key[2]]
      <3>1. Upload(r) /\ IsCurrent(r.key, r.id)
        BY <1>1, <1>4, <2>2 DEF ShowsWanted
      <3>2. /\ \A c \in Columns : meshes'[c] # Absent <=> meshes[c] # Absent
            /\ \A k \in Keys \ {r.key} : meshes[k[1]] # Absent =>
                 meshes'[k[1]][k[2]] = meshes[k[1]][k[2]]
            /\ t.revision = s.revision /\ t.meshed = s.revision /\ t.levels \in [Lods -> Level]
        BY <1>2, <1>5, <3>1, UploadIs
      <3> HIDE DEF s
      <3>3. ~NeedsRebuild(t)
        <4> HIDE DEF t
        <4>1. QED
          BY <3>2, AbsentIsNone DEF NeedsRebuild
      <3>4. QED
        BY <3>2, <3>3, KeyTypes
    <2>3. QED
      BY <2>1, <2>2
  <1>9. ASSUME NEW k \in Keys, meshes'[k[1]] # Absent, k \notin dropped',
               NeedsRebuild(meshes'[k[1]][k[2]])
        PROVE  Queued(k)' \/ UnderWay(k)'
    <2>1. /\ meshes[k[1]] # Absent /\ meshes'[k[1]][k[2]] = meshes[k[1]][k[2]] /\ k \notin dropped
          /\ NeedsRebuild(meshes[k[1]][k[2]]) /\ ~(k = r.key /\ ShowsWanted(r))
      BY <1>1, <1>8, <1>9
    <2>2. Queued(k) \/ UnderWay(k)
      BY <2>1, ForgottenIs DEF KnowInv
    <2>3. Identity(k, meshes', lifetimes') = Identity(k, meshes, lifetimes)
      BY <1>1, <2>1, SameIdentity
    <2>4. CASE Queued(k)
      BY <1>1, <2>3, <2>4 DEF Queued
    <2>5. CASE UnderWay(k)
      <3>1. k \in DOMAIN inFlight /\ inFlight[k] = Identity(k, meshes, lifetimes)
        BY <2>5 DEF UnderWay
      <3>2. ~(k = r.key /\ r.id = Identity(k, meshes, lifetimes))
        <4>1. SUFFICES ASSUME k = r.key, r.id = Identity(k, meshes, lifetimes)
                       PROVE  FALSE
          OBVIOUS
        <4>2. Known(k, meshes, lifetimes)
          BY <2>1, KnownIs DEF ShowInv, TypeInv
        <4>3. lifetimes[r.key[1]] = r.id.lifetime
          BY <4>1 DEF Identity
        <4>4. r.generation = generation
          BY <4>3 DEF ShowInv, WorkInv
        <4>5. ShowsWanted(r)
          BY <3>1, <4>1, <4>2, <4>4 DEF ShowsWanted, IsCurrent
        <4>6. QED
          BY <2>1, <4>1, <4>5
      <3>3. PICK j \in Works : /\ j.key = k /\ j.id = Identity(k, meshes, lifetimes)
                               /\ j.generation = generation
        BY <2>5 DEF UnderWay
      <3>4. j \in Works'
        BY <1>6, <3>2, <3>3
      <3>5. k \in DOMAIN inFlight' /\ inFlight'[k] = inFlight[k]
        BY <1>7, <3>1, <3>2
      <3>6. QED
        BY <1>1, <2>3, <3>1, <3>3, <3>4, <3>5 DEF UnderWay
    <2>6. QED
      BY <2>2, <2>4, <2>5
  <1>10. NeverForgotten'
    BY <1>9, ForgottenIs
  <1>11. QED
    BY <1>1, <1>10 DEF KnowInv

LEMMA KnowStep ==
  ASSUME ShowInv, KnowInv, [Next]_vars
  PROVE  KnowInv'
  <1>1. CASE UNCHANGED vars
    <2>1. UNCHANGED <<lifetimes, meshes, pending, dropped, inFlight, generation, jobs, results>>
      BY <1>1 DEF vars
    <2>2. QED
      BY <2>1, SameKnown DEF Works
  <1>2. CASE Event
    <2>1. CASE \E c \in Columns, payload \in Payloads, lit \in SUBSET LightCells :
                 Commit(c, payload, lit)
      BY <2>1, CommitKnown
    <2>2. CASE \E p \in EditCells, lit \in SUBSET LightCells : Edit(p, lit)
      BY <2>2, EditKnown
    <2>3. CASE \E c \in Columns : Move(c)
      <3>1. UNCHANGED <<lifetimes, meshes, pending, dropped, inFlight, generation, jobs, results>>
        BY <2>3 DEF Move, owners, queues, work
      <3>2. QED
        BY <3>1, SameKnown DEF Works
    <2>4. CASE Login \/ Disconnect \/ SwitchDimension
      BY <2>4, LeavingKnown DEF Login, Disconnect, SwitchDimension
    <2>5. QED
      BY <1>2, <2>1, <2>2, <2>3, <2>4 DEF Event
  <1>3. CASE Frame
    <2>1. CASE Compact
      <3>1. UNCHANGED <<lifetimes, meshes, pending, dropped, inFlight, generation, jobs, results>>
        BY <2>1 DEF Compact, owners, queues, work
      <3>2. QED
        BY <3>1, SameKnown DEF Works
    <2>2. QED
      BY <1>3, <2>1, BeginFrameKnown, IntegrateKnown, UnloadKnown, DispatchKnown, DrawKnown
         DEF Frame
  <1>4. CASE \E j \in jobs : Finish(j)
    <2>1. PICK j \in jobs : Finish(j)
      BY <1>4
    <2>2. UNCHANGED <<lifetimes, meshes, pending, dropped, inFlight, generation>>
      BY <2>1 DEF Finish, owners, queues
    <2>3. Works' = Works
      BY <2>1, FinishWorks DEF ShowInv, TypeInv, OwnersOf
    <2>4. QED
      BY <2>2, <2>3, SameKnown
  <1>5. QED
    BY <1>1, <1>2, <1>3, <1>4 DEF Next

(* A stale section is queued, or with a worker, under the identity it has  *)
(* now, unless the full queue threw it out: retiring an outdated result,   *)
(* overtaking work in the queue and leaving out needless work never lose   *)
(* the last trace of a section that still needs its mesh                   *)
(* (SectionMeshScheduler, retire_section_result).                          *)
THEOREM NoStaleSectionForgotten == Spec => []NeverForgotten
  <1>1. Init => KnowInv
    BY InitKnown
  <1>2. ShowInv /\ KnowInv /\ [Next]_vars => KnowInv'
    BY KnowStep
  <1>3. KnowInv => NeverForgotten
    BY DEF KnowInv
  <1>4. QED
    BY <1>1, <1>2, <1>3, ShowInductive, PTL DEF Spec

-----------------------------------------------------------------------------
(* The arenas.  What they hold depends on the levels of the meshes only, and *)
(* a region's on those of its own columns.                                   *)

LevelsOf(ms) == [k \in Keys |-> IF ms[k[1]] = Absent THEN Absent ELSE ms[k[1]][k[2]].levels]
HandleAt(lv, h) == lv[h[1]][h[2]].handle
Held(lv, x) == {h \in Keys \X Lods : /\ RegionOf(h[1][1]) = x
                                     /\ lv[h[1]] # Absent /\ HandleAt(lv, h) # Absent}
ResidentsIn(lv, x) == {c \in Columns : RegionOf(c) = x /\ \E y \in SectionYs : lv[<<c, y>>] # Absent}

\* The region's live tokens and the holders H, with the handles at[h], are one to one.
HoldsExactly(g, H, at) ==
  /\ \A h \in H : IsLive(g, at[h])
  /\ \A i, j \in H : at[i].token = at[j].token => i = j
  /\ \A t \in g.live : \E h \in H : at[h].token = t
HandlesOf(lv) == [h \in Keys \X Lods |-> HandleAt(lv, h)]
ArenaIs(g, lv, x) ==
  /\ HoldsExactly(g, Held(lv, x), HandlesOf(lv))
  /\ g.active = Cardinality(ResidentsIn(lv, x)) /\ ResidentsIn(lv, x) # {}
ArenasAre(rs, lv) ==
  \A x \in Int : IF x \in DOMAIN rs THEN ArenaIs(rs[x], lv, x) ELSE ResidentsIn(lv, x) = {}

ArenaInv == ArenasAre(regions, LevelsOf(meshes))

LEMMA RegionOfInt ==
  ASSUME NEW c \in Columns
  PROVE  RegionOf(c) \in Int
  <1>1. c \in Int /\ RegionSize \in Nat \ {0}
    BY SectionMeshesAssumption
  <1>2. QED
    BY <1>1 DEF RegionOf

LEMMA HolderTypes ==
  ASSUME NEW lv, NEW x, NEW h \in Held(lv, x)
  PROVE  /\ h \in Keys \X Lods /\ h[1] \in Keys /\ h[2] \in Lods /\ h = <<h[1], h[2]>>
         /\ h[1][1] \in Columns /\ h[1][2] \in SectionYs /\ h[1] = <<h[1][1], h[1][2]>>
         /\ RegionOf(h[1][1]) = x /\ lv[h[1]] # Absent /\ HandleAt(lv, h) # Absent
  <1>1. /\ h \in Keys \X Lods
        /\ RegionOf(h[1][1]) = x /\ lv[h[1]] # Absent /\ HandleAt(lv, h) # Absent
    BY DEF Held
  <1>2. h[1] \in Keys /\ h[2] \in Lods /\ h = <<h[1], h[2]>>
    BY <1>1
  <1>3. QED
    BY <1>1, <1>2, KeyTypes

\* A column that holds something is resident.
LEMMA HoldersReside ==
  ASSUME NEW lv, NEW x, NEW h \in Held(lv, x)
  PROVE  h[1][1] \in ResidentsIn(lv, x)
  BY HolderTypes DEF ResidentsIn

LEMMA ResidentsFinite ==
  ASSUME NEW lv, NEW x
  PROVE  IsFiniteSet(ResidentsIn(lv, x))
  <1>1. ResidentsIn(lv, x) \subseteq Columns
    BY DEF ResidentsIn
  <1>2. QED
    BY <1>1, SectionMeshesAssumption, FS_Subset

\* What happens to other regions' columns is nothing to a region.
LEMMA Elsewhere ==
  ASSUME NEW lv, NEW lw, NEW x, \A k \in Keys : RegionOf(k[1]) = x => lw[k] = lv[k]
  PROVE  /\ Held(lw, x) = Held(lv, x) /\ ResidentsIn(lw, x) = ResidentsIn(lv, x)
         /\ \A h \in Held(lv, x) : HandlesOf(lw)[h] = HandlesOf(lv)[h]
         /\ \A g : ArenaIs(g, lv, x) => ArenaIs(g, lw, x)
  <1>1. \A h \in Keys \X Lods : RegionOf(h[1][1]) = x => lw[h[1]] = lv[h[1]]
    OBVIOUS
  <1>2. Held(lw, x) = Held(lv, x)
    BY <1>1 DEF Held, HandleAt
  <1>3. ResidentsIn(lw, x) = ResidentsIn(lv, x)
    <2>1. \A c \in Columns, y \in SectionYs : <<c, y>> \in Keys /\ <<c, y>>[1] = c
      BY DEF Keys
    <2>2. QED
      BY <2>1 DEF ResidentsIn
  <1>4. \A h \in Held(lv, x) : HandlesOf(lw)[h] = HandlesOf(lv)[h]
    <2>1. ASSUME NEW h \in Held(lv, x)
          PROVE  HandlesOf(lw)[h] = HandlesOf(lv)[h]
      <3>1. h \in Keys \X Lods /\ lw[h[1]] = lv[h[1]]
        BY <1>1, HolderTypes
      <3>2. QED
        BY <3>1 DEF HandlesOf, HandleAt
    <2>2. QED
      BY <2>1
  <1>5. ASSUME NEW g, ArenaIs(g, lv, x)
        PROVE  ArenaIs(g, lw, x)
    <2>1. HoldsExactly(g, Held(lw, x), HandlesOf(lw))
      BY <1>2, <1>4, <1>5 DEF ArenaIs, HoldsExactly
    <2>2. QED
      BY <1>3, <1>5, <2>1 DEF ArenaIs
  <1>6. QED
    BY <1>2, <1>3, <1>4, <1>5

\* The handles of a column's mesh are those that the region counts for it.
LEMMA MeshHandlesAre ==
  ASSUME NEW m, NEW lv, NEW c \in Columns, \A y \in SectionYs : lv[<<c, y>>] = m[y].levels
  PROVE  LET x == RegionOf(c) IN
         /\ MeshHandles(m) = {HandleAt(lv, h) : h \in {i \in Held(lv, x) : i[1][1] = c}}
         /\ HasResidentSection(m) <=> c \in ResidentsIn(lv, x)
  <1> DEFINE x == RegionOf(c)
             mine == {i \in Held(lv, x) : i[1][1] = c}
  <1>1. \A y \in SectionYs : <<c, y>> \in Keys /\ lv[<<c, y>>] = m[y].levels
    BY DEF Keys
  <1>2. ASSUME NEW y \in SectionYs, NEW e \in Handles(m[y])
        PROVE  e \in {HandleAt(lv, h) : h \in mine}
    <2>1. PICK l \in Lods : e = m[y].levels[l].handle /\ e # Absent /\ m[y].levels # Absent
      BY <1>2 DEF Handles
    <2> DEFINE h == <<<<c, y>>, l>>
    <2>2. h \in Keys \X Lods /\ h[1] = <<c, y>> /\ h[2] = l /\ h[1][1] = c
      BY <1>1
    <2> HIDE DEF h
    <2>3. HandleAt(lv, h) = e /\ lv[h[1]] # Absent
      BY <1>1, <2>1, <2>2 DEF HandleAt
    <2>4. h \in mine
      BY <2>1, <2>2, <2>3 DEF Held
    <2>5. QED
      BY <2>3, <2>4
  <1>3. ASSUME NEW h \in mine
        PROVE  \E y \in SectionYs : HandleAt(lv, h) \in Handles(m[y])
    <2>1. /\ h[1] \in Keys /\ h[2] \in Lods /\ h[1][1] = c /\ h[1][2] \in SectionYs
          /\ h[1] = <<h[1][1], h[1][2]>> /\ lv[h[1]] # Absent /\ HandleAt(lv, h) # Absent
      BY HolderTypes
    <2> DEFINE y == h[1][2]
    <2>2. lv[h[1]] = m[y].levels /\ y \in SectionYs
      BY <1>1, <2>1
    <2> HIDE DEF y
    <2>3. HandleAt(lv, h) \in Handles(m[y])
      BY <2>1, <2>2 DEF Handles, HandleAt
    <2>4. QED
      BY <2>2, <2>3
  <1>4. MeshHandles(m) = {HandleAt(lv, h) : h \in mine}
    <2> HIDE DEF mine
    <2>1. QED
      BY <1>2, <1>3 DEF MeshHandles
  <1>5. HasResidentSection(m) <=> c \in ResidentsIn(lv, x)
    BY <1>1 DEF HasResidentSection, ResidentsIn
  <1>6. QED
    BY <1>4, <1>5

\* A column is registered with its region if and only if something of it is resident.
LEMMA RegisteredIs ==
  ASSUME NEW m, NEW lv, NEW c \in Columns, \A y \in SectionYs : lv[<<c, y>>] = m[y].levels, NEW g,
         HoldsExactly(g, Held(lv, RegionOf(c)), HandlesOf(lv))
  PROVE  Registered(m, g) <=> HasResidentSection(m)
  <1> DEFINE x == RegionOf(c)
  <1>1. MeshHandles(m) = {HandleAt(lv, h) : h \in {i \in Held(lv, x) : i[1][1] = c}}
    BY MeshHandlesAre
  <1> HIDE DEF x
  <1>2. \A h \in Held(lv, x) : HandleAt(lv, h).instance = g.instance
    <2>1. \A h \in Held(lv, x) : HandlesOf(lv)[h] = HandleAt(lv, h)
      BY HolderTypes DEF HandlesOf
    <2>2. QED
      BY <2>1 DEF HoldsExactly, IsLive, x
  <1>3. \A e \in MeshHandles(m) : e.instance = g.instance
    BY <1>1, <1>2
  <1>4. QED
    BY <1>3 DEF Registered, Matching

\* Freeing the handles of some holders, and giving a token to a new one.
LEMMA FreedHolds ==
  ASSUME NEW g, RegionIs(g), NEW H, NEW at, HoldsExactly(g, H, at), NEW lost \in SUBSET H
  PROVE  HoldsExactly(Freed(g, {at[h] : h \in lost}), H \ lost, at)
  <1> DEFINE f == Freed(g, {at[h] : h \in lost})
             T == {e.token : e \in {d \in {at[h] : h \in lost} : IsLive(g, d)}}
  <1>1. f.live = g.live \ T /\ f.instance = g.instance
    BY FreedIs
  <1>2. \A h \in H : IsLive(g, at[h])
    BY DEF HoldsExactly
  <1>3. /\ \A t \in T : \E h \in lost : t = at[h].token
        /\ \A h \in lost : at[h].token \in T
    BY <1>2
  <1> HIDE DEF f, T
  <1>4. ASSUME NEW h \in H \ lost
        PROVE  IsLive(f, at[h])
    <2>1. at[h].instance = g.instance /\ at[h].token \in g.live
      BY <1>2 DEF IsLive
    <2>2. at[h].token \notin T
      BY <1>3 DEF HoldsExactly
    <2>3. QED
      BY <1>1, <2>1, <2>2 DEF IsLive
  <1>5. ASSUME NEW t \in f.live
        PROVE  \E h \in H \ lost : at[h].token = t
    <2>1. t \in g.live /\ t \notin T
      BY <1>1
    <2>2. PICK h \in H : at[h].token = t
      BY <2>1 DEF HoldsExactly
    <2>3. h \notin lost
      BY <1>3, <2>1, <2>2
    <2>4. QED
      BY <2>2, <2>3
  <1>6. HoldsExactly(f, H \ lost, at)
    BY <1>4, <1>5 DEF HoldsExactly
  <1>7. QED
    BY <1>6 DEF f

LEMMA AllocatedHolds ==
  ASSUME NEW g, RegionIs(g), NEW H, NEW at, HoldsExactly(g, H, at), NEW new, new \notin H, NEW up,
         \A h \in H : up[h] = at[h], up[new] = [instance |-> g.instance, token |-> FreeToken(g)]
  PROVE  HoldsExactly(Allocated(g), H \union {new}, up)
  <1> DEFINE a == Allocated(g)
             t == FreeToken(g)
  <1>1. a.live = g.live \union {t} /\ a.instance = g.instance /\ t \notin g.live
    BY AllocatedIs, FreeTokenIs
  <1>2. up[new].instance = g.instance /\ up[new].token = t
    OBVIOUS
  <1> HIDE DEF a, t
  <1>3. \A h \in H : IsLive(g, up[h]) /\ up[h].token \in g.live
    BY DEF HoldsExactly, IsLive
  <1>4. \A h \in H \union {new} : IsLive(a, up[h])
    BY <1>1, <1>2, <1>3 DEF IsLive
  <1>5. ASSUME NEW i \in H \union {new}, NEW j \in H \union {new}, up[i].token = up[j].token
        PROVE  i = j
    <2>1. CASE i \in H /\ j \in H
      BY <1>5, <2>1 DEF HoldsExactly
    <2>2. CASE i = new /\ j = new
      BY <2>2
    <2>3. CASE i \in H /\ j = new
      BY <1>1, <1>2, <1>3, <1>5, <2>3
    <2>4. CASE i = new /\ j \in H
      BY <1>1, <1>2, <1>3, <1>5, <2>4
    <2>5. QED
      BY <2>1, <2>2, <2>3, <2>4
  <1>6. ASSUME NEW u \in a.live
        PROVE  \E h \in H \union {new} : up[h].token = u
    <2>1. CASE u = t
      BY <1>2, <2>1
    <2>2. CASE u \in g.live
      <3>1. PICK h \in H : at[h].token = u
        BY <2>2 DEF HoldsExactly
      <3>2. QED
        BY <3>1
    <2>3. QED
      BY <1>1, <2>1, <2>2
  <1>7. HoldsExactly(a, H \union {new}, up)
    BY <1>4, <1>5, <1>6 DEF HoldsExactly
  <1>8. QED
    BY <1>7 DEF a

-----------------------------------------------------------------------------
(* The steps that touch an arena.                                            *)

LevelsWithout(lv, S) == [k \in Keys |-> IF k[1] \in S THEN Absent ELSE lv[k]]

\* A column that is released takes its handles along, and its region if it was the last.
LEMMA ReleaseArena ==
  ASSUME NEW rs, RegionsOf(rs), NEW c \in Columns, NEW lv,
         \A y \in SectionYs : lv[<<c, y>>] = meshes[c][y].levels, ArenasAre(rs, lv)
  PROVE  ArenasAre(ReleaseMesh(rs, c), LevelsWithout(lv, {c}))
  <1> DEFINE x == RegionOf(c)
             g == rs[x]
             m == meshes[c]
             left == LeftOf(g, m)
             r == ReleaseMesh(rs, c)
             lw == LevelsWithout(lv, {c})
             lost == {h \in Held(lv, x) : h[1][1] = c}
             here == ResidentsIn(lv, x)
  <1>1. \/ x \notin DOMAIN rs /\ r = rs
        \/ /\ x \in DOMAIN rs /\ left.active = 0 /\ left.live = {}
           /\ DOMAIN r = DOMAIN rs \ {x} /\ r = [z \in DOMAIN r |-> rs[z]]
        \/ /\ x \in DOMAIN rs /\ ~(left.active = 0 /\ left.live = {})
           /\ r = [rs EXCEPT ![x] = left]
    BY ReleaseMeshIs
  <1>2. x \in Int /\ \A k \in Keys : RegionOf(k[1]) # x => k[1] # c
    BY RegionOfInt
  <1>3. \A k \in Keys : lw[k] = IF k[1] = c THEN Absent ELSE lv[k]
    BY DEF LevelsWithout
  <1>4. /\ MeshHandles(m) = {HandleAt(lv, h) : h \in lost}
        /\ HasResidentSection(m) <=> c \in here
    BY MeshHandlesAre
  <1>5. \A y \in SectionYs : lv[<<c, y>>] = m[y].levels
    OBVIOUS
  <1> HIDE DEF r, left, m, lw
  <1>6. \A z \in Int : z # x => /\ ResidentsIn(lw, z) = ResidentsIn(lv, z)
                                /\ \A f : ArenaIs(f, lv, z) => ArenaIs(f, lw, z)
    <2>1. ASSUME NEW z \in Int, z # x
          PROVE  \A k \in Keys : RegionOf(k[1]) = z => lw[k] = lv[k]
      BY <1>3, <2>1
    <2>2. QED
      BY <2>1, Elsewhere
  <1>7. ResidentsIn(lw, x) = here \ {c}
    <2>1. \A d \in Columns, y \in SectionYs : <<d, y>> \in Keys /\ <<d, y>>[1] = d
      BY DEF Keys
    <2>2. \A d \in Columns, y \in SectionYs :
            lw[<<d, y>>] = IF d = c THEN Absent ELSE lv[<<d, y>>]
      BY <1>3, <2>1
    <2>3. QED
      BY <2>2 DEF ResidentsIn
  <1>8. Held(lw, x) = Held(lv, x) \ lost
    <2>1. ASSUME NEW h \in Keys \X Lods
          PROVE  h \in Held(lw, x) <=> h \in Held(lv, x) /\ h[1][1] # c
      <3>1. h[1] \in Keys /\ lw[h[1]] = IF h[1][1] = c THEN Absent ELSE lv[h[1]]
        BY <1>3
      <3>2. QED
        BY <3>1 DEF Held, HandleAt
    <2>2. QED
      BY <2>1, HolderTypes
  <1>9. \A h \in Held(lw, x) : HandlesOf(lw)[h] = HandlesOf(lv)[h]
    <2>1. ASSUME NEW h \in Held(lw, x)
          PROVE  HandlesOf(lw)[h] = HandlesOf(lv)[h]
      <3>1. h \in Keys \X Lods /\ h[1] \in Keys /\ h[1][1] # c
        BY <1>8, HolderTypes
      <3>2. lw[h[1]] = lv[h[1]]
        BY <1>3, <3>1
      <3>3. QED
        BY <3>1, <3>2 DEF HandlesOf, HandleAt
    <2>2. QED
      BY <2>1
  <1>10. CASE x \notin DOMAIN rs
    <2>1. here = {} /\ r = rs
      BY <1>1, <1>2, <1>10 DEF ArenasAre
    <2>2. ResidentsIn(lw, x) = {}
      BY <1>7, <2>1
    <2>3. ArenasAre(rs, lw)
      BY <1>6, <1>10, <2>2 DEF ArenasAre
    <2>4. QED
      BY <2>1, <2>3 DEF r, lw
  <1>11. CASE x \in DOMAIN rs
    <2>1. ArenaIs(g, lv, x) /\ RegionIs(g)
      BY <1>2, <1>11, RegionsAre DEF ArenasAre
    <2> HIDE DEF g
    <2>2. /\ HoldsExactly(g, Held(lv, x), HandlesOf(lv))
          /\ g.active = Cardinality(here) /\ here # {}
      BY <2>1 DEF ArenaIs
    <2>3. /\ left.instance = g.instance /\ left.live = Freed(g, MeshHandles(m)).live
          /\ left.active = IF Registered(m, g) /\ g.active > 0 THEN g.active - 1 ELSE g.active
      BY <2>1, LeftIs DEF left
    <2>4. Registered(m, g) <=> c \in here
      BY <1>4, <1>5, <2>2, RegisteredIs
    <2>5. left.active = Cardinality(here \ {c}) /\ IsFiniteSet(here \ {c})
      <3>1. IsFiniteSet(here)
        BY ResidentsFinite
      <3>2. g.active \in Nat /\ g.active # 0
        BY <2>2, <3>1, FS_EmptySet, FS_CardinalityType
      <3>3. /\ Cardinality(here \ {c}) = IF c \in here THEN Cardinality(here) - 1 ELSE Cardinality(here)
            /\ IsFiniteSet(here \ {c})
        BY <3>1, FS_RemoveElement
      <3> HIDE DEF here
      <3>4. QED
        BY <2>2, <2>3, <2>4, <3>2, <3>3
    <2>6. HoldsExactly(left, Held(lw, x), HandlesOf(lw))
      <3>1. \A h \in lost : HandlesOf(lv)[h] = HandleAt(lv, h)
        BY HolderTypes DEF HandlesOf
      <3>2. MeshHandles(m) = {HandlesOf(lv)[h] : h \in lost}
        BY <1>4, <3>1
      <3>3. lost \in SUBSET Held(lv, x)
        OBVIOUS
      <3> HIDE DEF lost
      <3>4. HoldsExactly(Freed(g, MeshHandles(m)), Held(lv, x) \ lost, HandlesOf(lv))
        BY <2>1, <2>2, <3>2, <3>3, FreedHolds
      <3>5. Freed(g, MeshHandles(m)).instance = g.instance
        BY <2>1, FreedIs
      <3>6. QED
        BY <1>8, <1>9, <2>3, <3>4, <3>5 DEF HoldsExactly, IsLive
    <2>7. CASE left.active = 0 /\ left.live = {}
      <3>1. DOMAIN r = DOMAIN rs \ {x} /\ \A z \in DOMAIN r : r[z] = rs[z]
        BY <1>1, <1>11, <2>7
      <3>2. ResidentsIn(lw, x) = {}
        BY <1>7, <2>5, <2>7, FS_EmptySet
      <3>3. ArenasAre(r, lw)
        BY <1>6, <3>1, <3>2 DEF ArenasAre
      <3>4. QED
        BY <3>3 DEF r, lw
    <2>8. CASE ~(left.active = 0 /\ left.live = {})
      <3>1. r = [rs EXCEPT ![x] = left]
        BY <1>1, <1>11, <2>8
      <3>2. DOMAIN r = DOMAIN rs /\ r[x] = left /\ \A z \in DOMAIN rs : z # x => r[z] = rs[z]
        BY <1>11, <3>1
      <3>3. ResidentsIn(lw, x) # {}
        <4>1. SUFFICES ASSUME ResidentsIn(lw, x) = {} PROVE FALSE
          OBVIOUS
        <4>2. Held(lw, x) = {}
          BY <4>1, HoldersReside
        <4>3. left.live = {}
          BY <2>6, <4>2 DEF HoldsExactly
        <4>4. left.active = 0
          BY <1>7, <2>5, <4>1, FS_EmptySet
        <4>5. QED
          BY <2>8, <4>3, <4>4
      <3>4. ArenaIs(left, lw, x)
        BY <1>7, <2>5, <2>6, <3>3 DEF ArenaIs
      <3>5. ArenasAre(r, lw)
        <4>1. ASSUME NEW z \in Int
              PROVE  IF z \in DOMAIN r THEN ArenaIs(r[z], lw, z) ELSE ResidentsIn(lw, z) = {}
          <5>1. CASE z = x
            BY <1>11, <3>2, <3>4, <5>1
          <5>2. CASE z # x
            <6>1. IF z \in DOMAIN rs THEN ArenaIs(rs[z], lv, z) ELSE ResidentsIn(lv, z) = {}
              BY DEF ArenasAre
            <6>2. QED
              BY <1>6, <3>2, <5>2, <6>1
          <5>3. QED
            BY <5>1, <5>2
        <4>2. QED
          BY <4>1 DEF ArenasAre
      <3>6. QED
        BY <3>5 DEF r, lw
    <2>9. QED
      BY <2>7, <2>8
  <1>12. QED
    BY <1>10, <1>11

\* Any number of columns that go, one after the other.
LEMMA ReleasesArena ==
  ASSUME RegionsOf(regions), NEW S, S \subseteq Columns, ArenasAre(regions, LevelsOf(meshes)),
         \A c \in S : meshes[c] # Absent
  PROVE  ArenasAre(ReleaseMeshes(S), LevelsWithout(LevelsOf(meshes), S))
  <1> DEFINE order == SetToSeq(S)
             lv == LevelsOf(meshes)
  <1>0. IsFiniteSet(S)
    BY SectionMeshesAssumption, FS_Subset
  <1>1. PICK n \in Nat : /\ order \in [1 .. n -> S] /\ Len(order) = n
                         /\ \A c \in S : \E k \in 1 .. n : order[k] = c
                         /\ \A j, k \in 1 .. n : order[j] = order[k] => j = k
    BY <1>0, OrderVisitsAll
  <1>2. PICK u : ReleaseRun(u, n, order) /\ ReleaseMeshes(S) = u[n]
    BY <1>0, <1>1, ReleaseMeshesRun
  <1> HIDE DEF order
  <1> DEFINE done(k) == {order[i] : i \in 1 .. k}
             G == {k \in 0 .. n : RegionsOf(u[k]) /\ ArenasAre(u[k], LevelsWithout(lv, done(k)))}
  <1>3. 0 \in G
    <2>1. u[0] = regions
      BY <1>2 DEF ReleaseRun
    <2>2. done(0) = {}
      OBVIOUS
    <2>3. LevelsWithout(lv, {}) = lv
      BY DEF LevelsWithout, LevelsOf
    <2>4. QED
      BY <2>1, <2>2, <2>3
  <1>4. ASSUME NEW k \in 1 .. n, k - 1 \in G PROVE k \in G
    <2> DEFINE c == order[k]
    <2>1. u[k] = ReleaseMesh(u[k - 1], c) /\ c \in S /\ c \in Columns
      BY <1>1, <1>2 DEF ReleaseRun
    <2>2. RegionsOf(u[k - 1]) /\ ArenasAre(u[k - 1], LevelsWithout(lv, done(k - 1)))
      BY <1>4
    <2>3. c \notin done(k - 1)
      BY <1>1
    <2>4. done(k) = done(k - 1) \union {c}
      <3>1. 1 .. k = (1 .. k - 1) \union {k}
        OBVIOUS
      <3>2. QED
        BY <3>1
    <2> HIDE DEF c, done
    <2>5. \A y \in SectionYs : LevelsWithout(lv, done(k - 1))[<<c, y>>] = meshes[c][y].levels
      <3>1. \A y \in SectionYs : <<c, y>> \in Keys
        BY <2>1 DEF Keys
      <3>2. QED
        BY <2>1, <2>3, <3>1 DEF LevelsWithout, LevelsOf
    <2> HIDE DEF lv
    <2>6. ArenasAre(u[k], LevelsWithout(LevelsWithout(lv, done(k - 1)), {c}))
      BY <2>1, <2>2, <2>5, ReleaseArena
    <2>7. LevelsWithout(LevelsWithout(lv, done(k - 1)), {c}) = LevelsWithout(lv, done(k))
      BY <2>4 DEF LevelsWithout
    <2>8. RegionsOf(u[k])
      BY <2>1, <2>2, ReleaseMeshTypes
    <2>9. QED
      BY <2>6, <2>7, <2>8
  <1>5. n \in G
    <2> HIDE DEF G
    <2>1. 0 .. n \subseteq G
      BY <1>3, <1>4, UpToInduction
    <2>2. QED
      BY <1>1, <2>1
  <1>6. done(n) = S
    BY <1>1
  <1>7. QED
    BY <1>2, <1>5, <1>6

LEMMA ArenaPrimed ==
  ASSUME ArenasAre(regions', LevelsOf(meshes'))
  PROVE  ArenaInv'
  <1>1. LevelsOf(meshes)' = LevelsOf(meshes')
    BY DEF LevelsOf, Keys
  <1>2. QED
    BY <1>1 DEF ArenaInv, ArenasAre, ArenaIs, HoldsExactly, HandlesOf, HandleAt, Held,
                ResidentsIn, Keys, IsLive, RegionOf

LEMMA SameArena ==
  ASSUME ArenaInv, regions' = regions, LevelsOf(meshes') = LevelsOf(meshes)
  PROVE  ArenaInv'
  <1>1. ArenasAre(regions', LevelsOf(meshes'))
    BY DEF ArenaInv
  <1>2. QED
    BY <1>1, ArenaPrimed

\* Without levels there are no arenas.
LEMMA NoArena ==
  ASSUME NEW ms, \A c \in Columns : ms[c] = Absent, NEW rs, DOMAIN rs = {}
  PROVE  ArenasAre(rs, LevelsOf(ms))
  <1>1. \A k \in Keys : LevelsOf(ms)[k] = Absent
    BY KeyTypes DEF LevelsOf
  <1>2. \A c \in Columns, y \in SectionYs : LevelsOf(ms)[<<c, y>>] = Absent
    BY <1>1 DEF Keys
  <1>3. \A x \in Int : ResidentsIn(LevelsOf(ms), x) = {}
    BY <1>2 DEF ResidentsIn
  <1>4. QED
    BY <1>3 DEF ArenasAre

LEMMA InitArena ==
  ASSUME Init
  PROVE  ArenaInv
  <1>1. (\A c \in Columns : meshes[c] = Absent) /\ DOMAIN regions = {}
    BY DEF Init
  <1>2. QED
    BY <1>1, NoArena DEF ArenaInv

LEMMA LeavingArena ==
  ASSUME Teardown
  PROVE  ArenaInv'
  <1>1. (\A c \in Columns : meshes'[c] = Absent) /\ DOMAIN regions' = {}
    BY DEF Teardown
  <1>2. ArenasAre(regions', LevelsOf(meshes'))
    BY <1>1, NoArena
  <1>3. QED
    BY <1>2, ArenaPrimed

\* Invalidating sections leaves their levels.
LEMMA InvalidatedLevels ==
  ASSUME NEW ms, MeshesOf(ms), NEW S
  PROVE  LevelsOf(InvalidatedMeshes(ms, S)) = LevelsOf(ms)
  <1> DEFINE newer == InvalidatedMeshes(ms, S)
  <1>1. /\ \A c \in Columns : newer[c] # Absent <=> ms[c] # Absent
        /\ \A k \in Keys : ms[k[1]] # Absent =>
             newer[k[1]][k[2]] = IF k \in S THEN Raised(ms[k[1]][k[2]]) ELSE ms[k[1]][k[2]]
    BY InvalidatedTypes
  <1> HIDE DEF newer
  <1>2. ASSUME NEW k \in Keys
        PROVE  (IF newer[k[1]] = Absent THEN Absent ELSE newer[k[1]][k[2]].levels)
                 = (IF ms[k[1]] = Absent THEN Absent ELSE ms[k[1]][k[2]].levels)
    <2>1. newer[k[1]] # Absent <=> ms[k[1]] # Absent
      BY <1>1, KeyTypes
    <2>2. CASE ms[k[1]] = Absent
      BY <2>1, <2>2
    <2>3. CASE ms[k[1]] # Absent
      <3>1. ms[k[1]][k[2]] \in SectionMesh
        BY <2>3, KeyTypes, SectionTypes
      <3>2. newer[k[1]][k[2]].levels = ms[k[1]][k[2]].levels
        BY <1>1, <2>3, <3>1, RaisedType
      <3>3. QED
        BY <2>1, <3>2
    <2>4. QED
      BY <2>2, <2>3
  <1>3. LevelsOf(newer) = LevelsOf(ms)
    BY <1>2 DEF LevelsOf
  <1>4. QED
    BY <1>3 DEF newer

LEMMA InvalidateArena ==
  ASSUME ArenaInv, NEW ms, MeshesOf(ms), LevelsOf(ms) = LevelsOf(meshes), NEW S, NEW q, NEW lt,
         Invalidate(S, q, ms, lt), regions' = regions
  PROVE  ArenaInv'
  <1>1. meshes' = InvalidatedMeshes(ms, {k \in S : Known(k, ms, lt)})
    BY DEF Invalidate
  <1>2. LevelsOf(meshes') = LevelsOf(meshes)
    BY <1>1, InvalidatedLevels
  <1>3. QED
    BY <1>2, SameArena

LEMMA CommitArena ==
  ASSUME ShowInv, ArenaInv, NEW c \in Columns, NEW payload \in Payloads,
         NEW lit \in SUBSET LightCells, Commit(c, payload, lit)
  PROVE  ArenaInv'
  <1> DEFINE isNew  == columns[c] = Absent
             placed == [columns EXCEPT ![c] = {p \in payload : ColumnOf(p) = c}]
             shone  == {p \in lit : ColumnOf(p) \in Columns /\ placed[ColumnOf(p)] # Absent}
             lt     == [lifetimes EXCEPT ![c] = IF isNew \/ @ = 0 THEN nextLifetime ELSE @]
             fresh  == [y \in SectionYs |-> NewSection]
             ms     == [meshes EXCEPT ![c] = IF isNew \/ @ = Absent THEN fresh ELSE @]
             stale  == {c} \union {d \in Surrounding(c) \intersect Columns : placed[d] # Absent}
                           \union {ColumnOf(p) : p \in shone}
  <1>1. Invalidate(KeysOf(stale), pending, ms, lt) /\ regions' = regions
    BY DEF Commit, arenas
  <1>2. MeshesOf(meshes) /\ OwnersOf(columns, meshes, lifetimes, nextLifetime)
    BY DEF ShowInv, TypeInv
  <1> HIDE DEF stale, shone, placed, lt
  <1>3. /\ \A d \in Columns : d # c \/ meshes[d] # Absent => ms[d] = meshes[d]
        /\ meshes[c] = Absent => ms[c] = fresh
        /\ ms = [d \in Columns |-> ms[d]]
    BY <1>2 DEF OwnersOf, MeshesOf
  <1>4. fresh \in Mesh /\ \A y \in SectionYs : fresh[y] = NewSection
    <2>1. NewSection \in SectionMesh
      BY DEF NewSection, SectionMesh
    <2>2. QED
      BY <2>1 DEF Mesh
  <1> HIDE DEF ms, fresh, isNew
  <1>5. MeshesOf(ms)
    <2>1. ms \in [Columns -> Mesh \union {Absent}]
      BY <1>2, <1>3, <1>4 DEF MeshesOf
    <2>2. ASSUME NEW d \in Columns, NEW y \in SectionYs, ms[d] # Absent, ms[d][y].meshed # Absent
          PROVE  ms[d][y].meshed <= ms[d][y].revision
      <3>1. CASE d = c /\ meshes[c] = Absent
        <4>1. ms[d][y] = NewSection
          BY <1>3, <1>4, <3>1
        <4>2. QED
          BY <2>2, <4>1 DEF NewSection
      <3>2. CASE ~(d = c /\ meshes[c] = Absent)
        <4>1. ms[d] = meshes[d]
          BY <1>3, <3>2
        <4>2. QED
          BY <1>2, <2>2, <4>1 DEF MeshesOf
      <3>3. QED
        BY <3>1, <3>2
    <2>3. QED
      BY <2>1, <2>2 DEF MeshesOf
  <1>6. ASSUME NEW k \in Keys
        PROVE  (IF ms[k[1]] = Absent THEN Absent ELSE ms[k[1]][k[2]].levels)
                 = (IF meshes[k[1]] = Absent THEN Absent ELSE meshes[k[1]][k[2]].levels)
    <2>1. k[1] \in Columns /\ k[2] \in SectionYs
      BY KeyTypes
    <2>2. CASE k[1] = c /\ meshes[c] = Absent
      <3>1. ms[k[1]][k[2]] = NewSection /\ meshes[k[1]] = Absent
        BY <1>3, <1>4, <2>1, <2>2
      <3>2. QED
        BY <3>1 DEF NewSection
    <2>3. CASE ~(k[1] = c /\ meshes[c] = Absent)
      BY <1>3, <2>1, <2>3
    <2>4. QED
      BY <2>2, <2>3
  <1>7. LevelsOf(ms) = LevelsOf(meshes)
    BY <1>6 DEF LevelsOf
  <1>8. QED
    BY <1>1, <1>5, <1>7, InvalidateArena

\* An empty arena that is rebuilt has lost nothing.
LEMMA CompactArena ==
  ASSUME TypeInv, ArenaInv, Compact
  PROVE  ArenaInv'
  <1> DEFINE rebuild == compacting \in DOMAIN regions /\ WorthRebuilding(regions[compacting])
             new     == [NewRegion(nextInstance) EXCEPT !.active = regions[compacting].active]
             lv      == LevelsOf(meshes)
  <1>1. /\ regions' = IF rebuild THEN [regions EXCEPT ![compacting] = new] ELSE regions
        /\ meshes' = meshes
    BY DEF Compact
  <1>2. ArenasAre(regions, lv)
    BY DEF ArenaInv
  <1>3. /\ new.active = regions[compacting].active /\ new.live = {}
    BY DEF NewRegion
  <1>4. rebuild => regions[compacting].live = {}
    BY DEF WorthRebuilding
  <1>5. DOMAIN regions \subseteq Int /\ regions = [x \in DOMAIN regions |-> regions[x]]
    BY DEF TypeInv, RegionsOf
  <1> HIDE DEF new, lv
  <1>6. CASE rebuild
    <2>1. /\ compacting \in Int /\ compacting \in DOMAIN regions
          /\ DOMAIN regions' = DOMAIN regions /\ regions'[compacting] = new
          /\ \A x \in DOMAIN regions : x # compacting => regions'[x] = regions[x]
      BY <1>1, <1>5, <1>6
    <2>2. ArenaIs(regions[compacting], lv, compacting)
      BY <1>2, <2>1 DEF ArenasAre
    <2>3. Held(lv, compacting) = {}
      <3>1. \A h \in Held(lv, compacting) : HandlesOf(lv)[h].token \in regions[compacting].live
        BY <2>2 DEF ArenaIs, HoldsExactly, IsLive
      <3>2. QED
        BY <1>4, <1>6, <3>1
    <2>4. ArenaIs(new, lv, compacting)
      BY <1>3, <2>2, <2>3 DEF ArenaIs, HoldsExactly
    <2>5. ASSUME NEW x \in Int
          PROVE  IF x \in DOMAIN regions' THEN ArenaIs(regions'[x], lv, x) ELSE ResidentsIn(lv, x) = {}
      <3>1. CASE x = compacting
        BY <2>1, <2>4, <3>1
      <3>2. CASE x # compacting
        BY <1>2, <2>1, <3>2 DEF ArenasAre
      <3>3. QED
        BY <3>1, <3>2
    <2>6. ArenasAre(regions', LevelsOf(meshes'))
      BY <1>1, <2>5 DEF ArenasAre, lv
    <2>7. QED
      BY <2>6, ArenaPrimed
  <1>7. CASE ~rebuild
    BY <1>1, <1>7, SameArena
  <1>8. QED
    BY <1>6, <1>7

LEMMA UnloadArena ==
  ASSUME ShowInv, ArenaInv, Unload
  PROVE  ArenaInv'
  <1>1. CASE UNCHANGED <<meshes, regions>>
    BY <1>1, SameArena
  <1>2. CASE target # player
    <2> DEFINE gone    == {c \in Columns : columns[c] # Absent /\ ~WithinHysteresis(c)}
               stays   == {c \in Columns : columns[c] # Absent} \ gone
               beside  == stays \intersect UNION {Surrounding(c) : c \in gone}
               stale   == {k \in KeysOf(beside) : Known(k, meshes, lifetimes)}
               newer   == InvalidatedMeshes(meshes, stale)
               cleared == {c \in Columns : newer[c] # Absent /\ ~WithinHysteresis(c)}
               lv      == LevelsOf(meshes)
    <2>1. /\ meshes' = [c \in Columns |-> IF c \in cleared THEN Absent ELSE newer[c]]
          /\ regions' = ReleaseMeshes(cleared)
      BY <1>2 DEF Unload
    <2>2. MeshesOf(meshes) /\ RegionsOf(regions)
      BY DEF ShowInv, TypeInv
    <2> HIDE DEF stale
    <2>3. LevelsOf(newer) = lv /\ \A c \in Columns : newer[c] # Absent <=> meshes[c] # Absent
      BY <2>2, InvalidatedLevels, InvalidatedTypes
    <2> HIDE DEF newer
    <2>4. cleared \subseteq Columns /\ \A c \in cleared : meshes[c] # Absent
      BY <2>3
    <2> HIDE DEF cleared
    <2>5. ArenasAre(regions', LevelsWithout(lv, cleared))
      BY <2>1, <2>2, <2>4, ReleasesArena DEF ArenaInv
    <2>6. ASSUME NEW k \in Keys
          PROVE  (IF meshes'[k[1]] = Absent THEN Absent ELSE meshes'[k[1]][k[2]].levels)
                   = (IF k[1] \in cleared THEN Absent ELSE LevelsOf(newer)[k])
      <3>1. meshes'[k[1]] = IF k[1] \in cleared THEN Absent ELSE newer[k[1]]
        BY <2>1, KeyTypes
      <3>2. LevelsOf(newer)[k] = IF newer[k[1]] = Absent THEN Absent ELSE newer[k[1]][k[2]].levels
        BY DEF LevelsOf
      <3>3. QED
        BY <3>1, <3>2
    <2>7. LevelsOf(meshes') = LevelsWithout(lv, cleared)
      <3>1. \A k \in Keys : (IF meshes'[k[1]] = Absent THEN Absent ELSE meshes'[k[1]][k[2]].levels)
                              = (IF k[1] \in cleared THEN Absent ELSE lv[k])
        BY <2>3, <2>6
      <3> HIDE DEF lv
      <3>2. QED
        BY <3>1 DEF LevelsOf, LevelsWithout
    <2>8. QED
      BY <2>5, <2>7, ArenaPrimed
  <1>3. QED
    BY <1>1, <1>2 DEF Unload

\* The holders whose handles an upload frees.
Leaving(lv, x, key, lod, full) ==
  IF full THEN {h \in Held(lv, x) : h[1] = key} ELSE {h \in Held(lv, x) : h = <<key, lod>>}

\* The levels of a section after a result is taken, and who holds a handle then.
LEMMA UploadHolders ==
  ASSUME NEW lv, NEW lw, NEW key \in Keys, NEW lod \in Lods, NEW x, x = RegionOf(key[1]),
         NEW full \in BOOLEAN, NEW isEmpty \in BOOLEAN, NEW levels, levels # Absent,
         \A k \in Keys \ {key} : lw[k] = lv[k], lw[key] = levels,
         ~full => lv[key] # Absent,
         levels[lod].handle = Absent <=> isEmpty,
         \A l \in Lods \ {lod} : levels[l].handle = IF full THEN Absent ELSE lv[key][l].handle
  PROVE  LET lost == Leaving(lv, x, key, lod, full) IN
         /\ Held(lw, x) = (Held(lv, x) \ lost) \union (IF isEmpty THEN {} ELSE {<<key, lod>>})
         /\ \A h \in Held(lv, x) \ lost : HandlesOf(lw)[h] = HandlesOf(lv)[h]
         /\ <<key, lod>> \notin Held(lv, x) \ lost
         /\ HandlesOf(lw)[<<key, lod>>] = levels[lod].handle
         /\ ResidentsIn(lw, x) = ResidentsIn(lv, x) \union {key[1]}
  <1> DEFINE new == <<key, lod>>
             lost == Leaving(lv, x, key, lod, full)
  <1>1. new \in Keys \X Lods /\ new[1] = key /\ new[2] = lod
    OBVIOUS
  <1>2. \A h \in Keys \X Lods : h[1] \in Keys /\ h[2] \in Lods /\ h = <<h[1], h[2]>>
    OBVIOUS
  <1>3. \A h \in Keys \X Lods : h[1] = key /\ h[2] = lod => h = new
    BY <1>2
  <1>4. \A h \in Held(lv, x) : h \in lost <=> h[1] = key /\ (full \/ h[2] = lod)
    <2>1. \A h \in Held(lv, x) : h = new <=> h[1] = key /\ h[2] = lod
      BY <1>1, <1>3, HolderTypes
    <2>2. QED
      BY <2>1 DEF Leaving, new
  <1>5. lost \subseteq Held(lv, x)
    BY DEF Leaving
  <1> HIDE DEF new, lost
  <1>6. ASSUME NEW h \in Keys \X Lods, h[1] # key
        PROVE  /\ h \in Held(lw, x) <=> h \in Held(lv, x)
               /\ HandlesOf(lw)[h] = HandlesOf(lv)[h]
    <2>1. lw[h[1]] = lv[h[1]]
      BY <1>2, <1>6
    <2>2. QED
      BY <1>6, <2>1 DEF Held, HandlesOf, HandleAt
  <1>7. ASSUME NEW h \in Keys \X Lods, h[1] = key, h[2] # lod
        PROVE  /\ h \in Held(lw, x) <=> h \in Held(lv, x) /\ ~full
               /\ ~full => HandlesOf(lw)[h] = HandlesOf(lv)[h]
    <2>1. HandleAt(lw, h) = IF full THEN Absent ELSE HandleAt(lv, h)
      BY <1>2, <1>7 DEF HandleAt
    <2>2. lw[h[1]] # Absent
      BY <1>7
    <2>3. ~full => lv[h[1]] # Absent
      BY <1>7
    <2>4. h \in Held(lw, x) <=> h \in Held(lv, x) /\ ~full
      BY <1>7, <2>1, <2>2, <2>3 DEF Held
    <2>5. ~full => HandlesOf(lw)[h] = HandlesOf(lv)[h]
      BY <1>7, <2>1 DEF HandlesOf
    <2>6. QED
      BY <2>4, <2>5
  <1>8. HandleAt(lw, new) = levels[lod].handle /\ HandlesOf(lw)[new] = HandleAt(lw, new)
    BY <1>1 DEF HandleAt, HandlesOf
  <1>9. new \in Held(lw, x) <=> ~isEmpty
    BY <1>1, <1>8 DEF Held
  <1>10. Held(lw, x) = (Held(lv, x) \ lost) \union (IF isEmpty THEN {} ELSE {new})
    <2>1. ASSUME NEW h \in Keys \X Lods
          PROVE  h \in Held(lw, x) <=> (h \in Held(lv, x) /\ h \notin lost) \/ (~isEmpty /\ h = new)
      <3>1. CASE h[1] # key
        BY <1>1, <1>4, <1>5, <1>6, <3>1
      <3>2. CASE h[1] = key /\ h[2] # lod
        BY <1>1, <1>4, <1>5, <1>7, <3>2
      <3>3. CASE h[1] = key /\ h[2] = lod
        <4>1. h = new
          BY <1>3, <3>3
        <4>2. h \in Held(lv, x) => h \in lost
          BY <1>4, <3>3
        <4>3. QED
          BY <1>9, <4>1, <4>2
      <3>4. QED
        BY <3>1, <3>2, <3>3
    <2>2. \A h \in Held(lw, x) \union Held(lv, x) : h \in Keys \X Lods
      BY HolderTypes
    <2>3. QED
      BY <1>1, <2>1, <2>2
  <1>11. \A h \in Held(lv, x) \ lost : HandlesOf(lw)[h] = HandlesOf(lv)[h]
    <2>1. ASSUME NEW h \in Held(lv, x) \ lost
          PROVE  HandlesOf(lw)[h] = HandlesOf(lv)[h]
      <3>1. h \in Keys \X Lods /\ ~(h[1] = key /\ (full \/ h[2] = lod))
        BY <1>4, HolderTypes
      <3>2. QED
        BY <1>6, <1>7, <3>1
    <2>2. QED
      BY <2>1
  <1>12. new \notin Held(lv, x) \ lost
    BY <1>1, <1>4
  <1>13. ResidentsIn(lw, x) = ResidentsIn(lv, x) \union {key[1]}
    <2> DEFINE c == key[1]
    <2>1. c \in Columns /\ key[2] \in SectionYs /\ key = <<c, key[2]>>
      BY KeyTypes
    <2>2. \A d \in Columns, y \in SectionYs : <<d, y>> \in Keys /\ (d # c => <<d, y>> # key)
      BY <2>1 DEF Keys
    <2>3. \A d \in Columns, y \in SectionYs : d # c => lw[<<d, y>>] = lv[<<d, y>>]
      BY <2>2
    <2>4. lw[<<c, key[2]>>] # Absent /\ RegionOf(c) = x
      BY <2>1
    <2> HIDE DEF c
    <2>5. QED
      BY <2>1, <2>3, <2>4 DEF ResidentsIn, c
  <1>14. QED
    BY <1>8, <1>10, <1>11, <1>12, <1>13 DEF new, lost

\* The handles that the upload frees are those of the holders that go.
LEMMA ReplacedAre ==
  ASSUME NEW s, NEW lv, NEW key \in Keys, NEW lod \in Lods, NEW x, x = RegionOf(key[1]),
         lv[key] = s.levels, NEW full \in BOOLEAN, ~full => s.levels # Absent
  PROVE  LET lost == Leaving(lv, x, key, lod, full)
         IN  (IF full THEN Handles(s) ELSE {s.levels[lod].handle} \ {Absent})
               = {HandlesOf(lv)[h] : h \in lost}
  <1>1. ASSUME NEW h \in Held(lv, x), h[1] = key
        PROVE  /\ HandlesOf(lv)[h] = s.levels[h[2]].handle /\ h[2] \in Lods
               /\ s.levels # Absent /\ s.levels[h[2]].handle # Absent /\ h = <<key, h[2]>>
    <2>1. /\ h \in Keys \X Lods /\ h[2] \in Lods /\ h = <<h[1], h[2]>>
          /\ lv[h[1]] # Absent /\ HandleAt(lv, h) # Absent
      BY HolderTypes
    <2>2. HandleAt(lv, h) = s.levels[h[2]].handle
      BY <1>1 DEF HandleAt
    <2>3. QED
      BY <1>1, <2>1, <2>2 DEF HandlesOf
  <1>2. ASSUME NEW l \in Lods, s.levels # Absent, s.levels[l].handle # Absent
        PROVE  <<key, l>> \in Held(lv, x) /\ HandlesOf(lv)[<<key, l>>] = s.levels[l].handle
    <2> DEFINE h == <<key, l>>
    <2>1. h \in Keys \X Lods /\ h[1] = key /\ h[2] = l
      OBVIOUS
    <2> HIDE DEF h
    <2>2. HandleAt(lv, h) = s.levels[l].handle
      BY <2>1 DEF HandleAt
    <2>3. h \in Held(lv, x) /\ HandlesOf(lv)[h] = s.levels[l].handle
      BY <1>2, <2>1, <2>2 DEF Held, HandlesOf
    <2>4. QED
      BY <2>3 DEF h
  <1>3. CASE full
    <2> DEFINE lost == {h \in Held(lv, x) : h[1] = key}
    <2>1. ASSUME NEW e \in Handles(s) PROVE \E h \in lost : e = HandlesOf(lv)[h]
      <3>1. PICK l \in Lods : e = s.levels[l].handle /\ e # Absent /\ s.levels # Absent
        BY <2>1 DEF Handles
      <3>2. <<key, l>> \in Held(lv, x) /\ HandlesOf(lv)[<<key, l>>] = e /\ <<key, l>>[1] = key
        BY <1>2, <3>1
      <3>3. QED
        BY <3>2
    <2>2. ASSUME NEW h \in lost PROVE HandlesOf(lv)[h] \in Handles(s)
      <3>1. /\ HandlesOf(lv)[h] = s.levels[h[2]].handle /\ h[2] \in Lods
            /\ s.levels # Absent /\ s.levels[h[2]].handle # Absent
        BY <1>1, <2>2
      <3>2. QED
        BY <3>1 DEF Handles
    <2> HIDE DEF lost
    <2>3. Handles(s) = {HandlesOf(lv)[h] : h \in lost}
      BY <2>1, <2>2
    <2>4. QED
      BY <1>3, <2>3 DEF lost, Leaving
  <1>4. CASE ~full
    <2> DEFINE lost == {h \in Held(lv, x) : h = <<key, lod>>}
               e == s.levels[lod].handle
    <2>1. s.levels # Absent
      BY <1>4
    <2>2. e # Absent => <<key, lod>> \in lost /\ HandlesOf(lv)[<<key, lod>>] = e
      BY <1>2, <2>1
    <2>3. \A h \in lost : h[1] = key /\ h[2] = lod /\ h \in Held(lv, x)
      OBVIOUS
    <2>4. ASSUME NEW h \in lost PROVE HandlesOf(lv)[h] = e /\ e # Absent
      <3>1. h[1] = key /\ h[2] = lod /\ h \in Held(lv, x)
        BY <2>3
      <3>2. QED
        BY <1>1, <3>1
    <2> HIDE DEF lost, e
    <2>5. {e} \ {Absent} = {HandlesOf(lv)[h] : h \in lost}
      BY <2>2, <2>4
    <2>6. QED
      BY <1>4, <2>5 DEF lost, e, Leaving
  <1>5. QED
    BY <1>3, <1>4

LEMMA UploadArena ==
  ASSUME TypeInv, ArenaInv, NEW r \in Work, IsCurrent(r.key, r.id), Upload(r)
  PROVE  ArenaInv'
  <1> DEFINE key       == r.key
             c         == key[1]
             x         == RegionOf(c)
             m         == meshes[c]
             section   == m[key[2]]
             exists    == x \in DOMAIN regions
             found     == IF exists THEN regions[x] ELSE NewRegion(nextInstance)
             registered == exists /\ Registered(m, found)
             full      == NeedsRebuild(section)
             old       == IF full \/ section.levels = Absent THEN [l \in Lods |-> NoLevel]
                          ELSE section.levels
             replaced  == IF full THEN Handles(section) ELSE {old[r.lod].handle} \ {Absent}
             counted   == [found EXCEPT !.active = IF registered THEN @ ELSE @ + 1]
             freed     == Freed(counted, replaced)
             isEmpty   == r.data \intersect OwnCells(key) = {}
             handle    == IF isEmpty THEN Absent
                          ELSE [instance |-> found.instance, token |-> FreeToken(freed)]
             level     == [data |-> r.data, handle |-> handle]
             levels    == [old EXCEPT ![r.lod] = level]
             new       == [revision |-> section.revision, meshed |-> r.id.revision,
                           levels |-> levels,
                           built |-> IF full THEN {r.lod} ELSE section.built \union {r.lod}]
             after     == IF isEmpty THEN freed ELSE Allocated(freed)
             lv        == LevelsOf(meshes)
             lw        == LevelsOf(meshes')
             lost      == Leaving(lv, x, key, r.lod, full)
             here      == ResidentsIn(lv, x)
  <1>1. /\ regions' = [z \in DOMAIN regions \union {x} |-> IF z # x THEN regions[z] ELSE after]
        /\ meshes' = [meshes EXCEPT ![c][key[2]] = new]
    BY DEF Upload
  <1>2. /\ key \in Keys /\ r.lod \in Lods /\ c \in Columns /\ key[2] \in SectionYs /\ x \in Int
        /\ m # Absent
    <2>1. key \in Keys /\ r.lod \in Lods
      BY DEF Work
    <2>2. m # Absent
      BY DEF IsCurrent, Known
    <2>3. QED
      BY <2>1, <2>2, KeyTypes, RegionOfInt
  <1>3. /\ MeshesOf(meshes) /\ RegionsOf(regions) /\ nextInstance \in Nat /\ ArenasAre(regions, lv)
    BY DEF TypeInv, ArenaInv
  <1>4. /\ m \in Mesh /\ section.levels \in [Lods -> Level] \union {Absent}
        /\ full <=> (section.levels = Absent \/ section.meshed # section.revision)
    BY <1>2, <1>3, SectionTypes DEF NeedsRebuild
  <1>5. lv[key] = section.levels /\ \A y \in SectionYs : lv[<<c, y>>] = m[y].levels
    <2>1. \A y \in SectionYs : <<c, y>> \in Keys
      BY <1>2 DEF Keys
    <2>2. lv[key] = section.levels
      BY <1>2 DEF LevelsOf
    <2>3. \A y \in SectionYs : <<c, y>>[1] = c /\ <<c, y>>[2] = y
      OBVIOUS
    <2> HIDE DEF c
    <2>4. \A y \in SectionYs : lv[<<c, y>>] = m[y].levels
      BY <1>2, <2>1, <2>3 DEF LevelsOf
    <2>5. QED
      BY <2>2, <2>4
  <1>6. \A k \in Keys : meshes[k[1]] # Absent /\ k # key => meshes'[k[1]][k[2]] = meshes[k[1]][k[2]]
    BY <1>2, UploadIs
  <1>7. /\ \A d \in Columns : meshes'[d] # Absent <=> meshes[d] # Absent
        /\ meshes'[c] # Absent
    BY <1>2, UploadIs
  <1>8. meshes'[c][key[2]] = new
    <2>1. meshes = [d \in Columns |-> meshes[d]] /\ m = [y \in SectionYs |-> m[y]]
      BY <1>3, <1>4 DEF MeshesOf, Mesh
    <2> HIDE DEF new
    <2>2. QED
      BY <1>1, <1>2, <2>1
  <1>9. lw[key] = levels /\ \A k \in Keys \ {key} : lw[k] = lv[k]
    <2>1. lw[key] = new.levels
      <3> HIDE DEF new
      <3>1. QED
        BY <1>2, <1>7, <1>8 DEF LevelsOf
    <2>2. new.levels = levels
      OBVIOUS
    <2>3. \A k \in Keys \ {key} : lw[k] = lv[k]
      <3>1. \A k \in Keys : meshes'[k[1]] # Absent <=> meshes[k[1]] # Absent
        BY <1>7, KeyTypes
      <3> HIDE DEF key
      <3>2. QED
        BY <1>6, <3>1 DEF LevelsOf
    <2>4. QED
      BY <2>1, <2>2, <2>3
  <1> HIDE DEF lv, lw, new, section, key
  <1>10. RegionIs(found) /\ HoldsExactly(found, Held(lv, x), HandlesOf(lv))
         /\ found.active = Cardinality(here)
    <2>1. CASE exists
      BY <1>2, <1>3, <2>1, RegionsAre DEF ArenasAre, ArenaIs
    <2>2. CASE ~exists
      <3>1. here = {}
        BY <1>2, <1>3, <2>2 DEF ArenasAre
      <3>2. Held(lv, x) = {}
        BY <3>1, HoldersReside
      <3>3. RegionIs(found) /\ found.active = 0 /\ found.live = {}
        BY <1>3, <2>2, NewRegionIs
      <3>4. Cardinality(here) = 0
        BY <3>1, FS_EmptySet
      <3>5. QED
        BY <3>2, <3>3, <3>4 DEF HoldsExactly
    <2>3. QED
      BY <2>1, <2>2
  <1>11. registered <=> c \in here
    <2>1. Registered(m, found) <=> HasResidentSection(m)
      BY <1>2, <1>5, <1>10, RegisteredIs
    <2>2. HasResidentSection(m) <=> c \in here
      BY <1>2, <1>5, MeshHandlesAre
    <2>3. ~exists => here = {}
      BY <1>2, <1>3 DEF ArenasAre
    <2>4. QED
      BY <2>1, <2>2, <2>3
  <1> HIDE DEF registered, found, exists, m
  <1>12. /\ RegionIs(counted) /\ counted.instance = found.instance /\ counted.live = found.live
         /\ counted.active = IF registered THEN found.active ELSE found.active + 1
    <2>1. found.active \in Nat /\ found \in Region
      BY <1>10, RegionParts DEF RegionIs
    <2>2. QED
      BY <1>10, <2>1 DEF RegionIs, Region
  <1> HIDE DEF counted
  <1>13. HoldsExactly(counted, Held(lv, x), HandlesOf(lv))
    BY <1>10, <1>12 DEF HoldsExactly, IsLive
  <1>14. ~full => section.levels # Absent /\ old = section.levels
    BY <1>4
  <1>15. full => old = [l \in Lods |-> NoLevel]
    OBVIOUS
  <1> HIDE DEF full, x, c
  <1>16. replaced = {HandlesOf(lv)[h] : h \in lost}
    <2>1. full \in BOOLEAN
      BY DEF full, NeedsRebuild
    <2>2. replaced = IF full THEN Handles(section) ELSE {section.levels[r.lod].handle} \ {Absent}
      <3> HIDE DEF old
      <3>1. QED
        BY <1>14
    <2>3. QED
      BY <1>2, <1>5, <1>14, <2>1, <2>2, ReplacedAre DEF x, c
  <1> HIDE DEF replaced
  <1>17. lost \in SUBSET Held(lv, x)
    BY DEF Leaving
  <1> HIDE DEF lost
  <1>18. /\ RegionIs(freed) /\ freed.instance = found.instance /\ freed.active = counted.active
         /\ HoldsExactly(freed, Held(lv, x) \ lost, HandlesOf(lv))
    BY <1>12, <1>13, <1>16, <1>17, FreedIs, FreedHolds
  <1> HIDE DEF freed
  <1>19. /\ levels # Absent /\ levels[r.lod].handle = handle
         /\ \A l \in Lods \ {r.lod} : levels[l].handle = IF full THEN Absent ELSE lv[key][l].handle
    <2>1. old = [l \in Lods |-> old[l]]
      BY <1>4, <1>14, <1>15
    <2>2. levels[r.lod] = level /\ \A l \in Lods \ {r.lod} : levels[l] = old[l]
      <3> HIDE DEF old, level
      <3>1. QED
        BY <1>2, <2>1
    <2>3. level.handle = handle
      OBVIOUS
    <2>4. \A l \in Lods : old[l].handle = IF full THEN Absent ELSE lv[key][l].handle
      BY <1>5, <1>14, <1>15 DEF NoLevel
    <2>5. levels # Absent
      <3>1. meshes'[c][key[2]].levels \in [Lods -> Level]
        BY UploadIs DEF c, key
      <3>2. levels = meshes'[c][key[2]].levels
        BY <1>8 DEF new
      <3>3. QED
        BY <3>1, <3>2, AbsentIsNone
    <2>6. QED
      BY <2>2, <2>3, <2>4, <2>5
  <1>20. handle = Absent <=> isEmpty
    <2>1. [instance |-> found.instance, token |-> FreeToken(freed)] # Absent
      <3>1. found.instance \in Nat /\ FreeToken(freed) \in Nat
        <4>1. FreeToken(freed) \in 0 .. freed.capacity /\ freed.capacity \in Nat
          BY <1>18, FreeTokenIs, RegionParts
        <4>2. QED
          BY <1>10, <4>1, RegionParts
      <3>2. [instance |-> found.instance, token |-> FreeToken(freed)] \in Handle
        BY <3>1 DEF Handle
      <3>3. QED
        BY <3>2, AbsentIsNone
    <2>2. QED
      BY <2>1
  <1> HIDE DEF levels, level, old, isEmpty
  <1>21. /\ Held(lw, x) = (Held(lv, x) \ lost) \union (IF isEmpty THEN {} ELSE {<<key, r.lod>>})
         /\ \A h \in Held(lv, x) \ lost : HandlesOf(lw)[h] = HandlesOf(lv)[h]
         /\ <<key, r.lod>> \notin Held(lv, x) \ lost
         /\ HandlesOf(lw)[<<key, r.lod>>] = handle
         /\ ResidentsIn(lw, x) = here \union {c}
    <2>1. full \in BOOLEAN /\ isEmpty \in BOOLEAN /\ x = RegionOf(key[1])
      BY DEF full, NeedsRebuild, isEmpty, x, c
    <2>2. ~full => lv[key] # Absent
      BY <1>5, <1>14
    <2>3. levels[r.lod].handle = Absent <=> isEmpty
      BY <1>19, <1>20
    <2> HIDE DEF handle
    <2>4. /\ \A l \in Lods \ {r.lod} : levels[l].handle = IF full THEN Absent ELSE lv[key][l].handle
          /\ \A k \in Keys \ {key} : lw[k] = lv[k]
          /\ lw[key] = levels /\ levels # Absent /\ key \in Keys /\ r.lod \in Lods
      BY <1>2, <1>9, <1>19
    <2>5. /\ Held(lw, x) = (Held(lv, x) \ lost) \union (IF isEmpty THEN {} ELSE {<<key, r.lod>>})
          /\ \A h \in Held(lv, x) \ lost : HandlesOf(lw)[h] = HandlesOf(lv)[h]
          /\ <<key, r.lod>> \notin Held(lv, x) \ lost
          /\ HandlesOf(lw)[<<key, r.lod>>] = levels[r.lod].handle
          /\ ResidentsIn(lw, x) = ResidentsIn(lv, x) \union {key[1]}
      BY <2>1, <2>2, <2>3, <2>4, UploadHolders, SMTT(30) DEF lost
    <2>6. HandlesOf(lw)[<<key, r.lod>>] = handle
      BY <1>19, <2>5
    <2>7. ResidentsIn(lw, x) = here \union {c}
      BY <2>5 DEF c
    <2>8. QED
      BY <2>5, <2>6, <2>7
  <1>22. HoldsExactly(after, Held(lw, x), HandlesOf(lw)) /\ after.active = counted.active
    <2>1. CASE isEmpty
      <3>1. after = freed /\ Held(lw, x) = Held(lv, x) \ lost
        BY <1>21, <2>1
      <3>2. QED
        BY <1>18, <1>21, <3>1 DEF HoldsExactly
    <2>2. CASE ~isEmpty
      <3>1. /\ after = Allocated(freed) /\ Held(lw, x) = (Held(lv, x) \ lost) \union {<<key, r.lod>>}
            /\ handle = [instance |-> freed.instance, token |-> FreeToken(freed)]
        BY <1>18, <1>21, <2>2
      <3>2. HoldsExactly(Allocated(freed), (Held(lv, x) \ lost) \union {<<key, r.lod>>}, HandlesOf(lw))
        BY <1>18, <1>21, <3>1, AllocatedHolds
      <3>3. Allocated(freed).active = freed.active
        BY <1>18, AllocatedIs
      <3>4. QED
        BY <1>18, <3>1, <3>2, <3>3
    <2>3. QED
      BY <2>1, <2>2
  <1> HIDE DEF after
  <1>23. after.active = Cardinality(here \union {c})
    <2>1. IsFiniteSet(here)
      BY ResidentsFinite
    <2>2. Cardinality(here \union {c}) = IF c \in here THEN Cardinality(here) ELSE Cardinality(here) + 1
      BY <2>1, FS_AddElement
    <2> HIDE DEF here
    <2>3. QED
      BY <1>10, <1>11, <1>12, <1>22, <2>2
  <1>24. ArenaIs(after, lw, x)
    BY <1>21, <1>22, <1>23 DEF ArenaIs
  <1>25. ASSUME NEW z \in Int
         PROVE  IF z \in DOMAIN regions' THEN ArenaIs(regions'[z], lw, z) ELSE ResidentsIn(lw, z) = {}
    <2>1. DOMAIN regions' = DOMAIN regions \union {x} /\ regions'[x] = after
          /\ \A w \in DOMAIN regions : w # x => regions'[w] = regions[w]
      BY <1>1
    <2>2. CASE z = x
      BY <1>24, <2>1, <2>2
    <2>3. CASE z # x
      <3>1. \A k \in Keys : RegionOf(k[1]) = z => lw[k] = lv[k]
        BY <1>9, <2>3 DEF x, c
      <3>2. /\ ResidentsIn(lw, z) = ResidentsIn(lv, z)
            /\ \A g : ArenaIs(g, lv, z) => ArenaIs(g, lw, z)
        BY <3>1, Elsewhere
      <3>3. QED
        BY <1>3, <2>1, <2>3, <3>2 DEF ArenasAre
    <2>4. QED
      BY <2>2, <2>3
  <1>26. ArenasAre(regions', lw)
    BY <1>25 DEF ArenasAre
  <1>27. QED
    BY <1>26, ArenaPrimed DEF lw

LEMMA ArenaStep ==
  ASSUME ShowInv, ArenaInv, [Next]_vars
  PROVE  ArenaInv'
  <1>1. TypeInv /\ MeshesOf(meshes)
    BY DEF ShowInv, TypeInv
  <1>2. CASE UNCHANGED <<meshes, regions>>
    BY <1>2, SameArena
  <1>3. CASE Event
    <2>1. CASE \E c \in Columns, payload \in Payloads, lit \in SUBSET LightCells :
                 Commit(c, payload, lit)
      BY <2>1, CommitArena
    <2>2. CASE \E p \in EditCells, lit \in SUBSET LightCells : Edit(p, lit)
      <3>1. PICK p \in EditCells, lit \in SUBSET LightCells : Edit(p, lit)
        BY <2>2
      <3> DEFINE shone == {q \in lit : ColumnOf(q) \in Columns /\ columns[ColumnOf(q)] # Absent}
      <3>2. /\ Invalidate(unreported \union AllDependents({p} \union shone), pending, meshes, lifetimes)
            /\ regions' = regions
        BY <3>1 DEF Edit, arenas
      <3>3. QED
        BY <1>1, <3>2, InvalidateArena
    <2>3. CASE \E c \in Columns : Move(c)
      BY <1>2, <2>3 DEF Move, arenas
    <2>4. CASE Login \/ Disconnect \/ SwitchDimension
      BY <2>4, LeavingArena DEF Login, Disconnect, SwitchDimension
    <2>5. QED
      BY <1>3, <2>1, <2>2, <2>3, <2>4 DEF Event
  <1>4. CASE BeginFrame
    <2>1. regions' = regions
      BY <1>4 DEF BeginFrame, arenas
    <2>2. CASE Invalidate(unreported, pending, meshes, lifetimes)
      BY <1>1, <2>1, <2>2, InvalidateArena
    <2>3. CASE meshes' = meshes
      BY <1>2, <2>1, <2>3
    <2>4. QED
      BY <1>4, <2>2, <2>3 DEF BeginFrame
  <1>5. CASE Integrate
    <2>1. /\ results # <<>> /\ UNCHANGED <<jobs, generation, nextLifetime>> /\ results' = Tail(results)
          /\ IF ShowsWanted(Head(results)) THEN Upload(Head(results))
             ELSE UNCHANGED <<meshes, regions, nextInstance>>
      BY <1>5 DEF Integrate, owners
    <2>2. Head(results) \in Works
      BY <1>1, <2>1, TailWorks DEF TypeInv
    <2>3. PICK r \in Works : r = Head(results)
      BY <2>2
    <2>4. r \in Work
      BY <1>1, WorkIs DEF TypeInv
    <2>5. CASE ShowsWanted(r)
      <3>1. Upload(r) /\ IsCurrent(r.key, r.id)
        BY <2>1, <2>3, <2>5 DEF ShowsWanted
      <3>2. QED
        BY <1>1, <2>4, <3>1, UploadArena
    <2>6. CASE ~ShowsWanted(r)
      BY <1>2, <2>1, <2>3, <2>6
    <2>7. QED
      BY <2>5, <2>6
  <1>6. CASE Compact
    BY <1>1, <1>6, CompactArena
  <1>7. CASE Unload
    BY <1>7, UnloadArena
  <1>8. CASE Dispatch
    BY <1>2, <1>8 DEF Dispatch, arenas
  <1>9. CASE \E fills \in SUBSET Keys : Draw(fills)
    BY <1>2, <1>9 DEF Draw, arenas
  <1>10. CASE \E j \in jobs : Finish(j)
    BY <1>2, <1>10 DEF Finish, arenas
  <1>11. CASE UNCHANGED vars
    BY <1>2, <1>11 DEF vars
  <1>12. QED
    BY <1>3, <1>4, <1>5, <1>6, <1>7, <1>8, <1>9, <1>10, <1>11 DEF Next, Frame

LEMMA ArenaInductive == Spec => [](ShowInv /\ ArenaInv)
  <1>1. Init => ArenaInv
    BY InitArena
  <1>2. ShowInv /\ ArenaInv /\ [Next]_vars => ArenaInv'
    BY ArenaStep
  <1>3. QED
    BY <1>1, <1>2, ShowInductive, PTL DEF Spec

LEMMA HeldInIs ==
  ASSUME NEW x
  PROVE  /\ HeldIn(x) = Held(LevelsOf(meshes), x)
         /\ \A h \in HeldIn(x) : HandleOf(h) = HandlesOf(LevelsOf(meshes))[h]
  <1> DEFINE lv == LevelsOf(meshes)
  <1>1. ASSUME NEW h \in Keys \X Lods
        PROVE  /\ h[1] \in Keys
               /\ h[1] \in Sections <=> meshes[h[1][1]] # Absent
               /\ h[1] \in Sections => lv[h[1]] = Section(h[1]).levels /\ HandleAt(lv, h) = HandleOf(h)
               /\ h[1] \notin Sections => lv[h[1]] = Absent
    <2>1. h[1] \in Keys
      OBVIOUS
    <2>2. h[1] \in Sections <=> meshes[h[1][1]] # Absent
      BY <2>1, SectionsAre
    <2>3. lv[h[1]] = IF meshes[h[1][1]] = Absent THEN Absent ELSE Section(h[1]).levels
      BY <2>1 DEF LevelsOf, Section
    <2> HIDE DEF lv
    <2>4. QED
      BY <2>1, <2>2, <2>3 DEF HandleAt, HandleOf
  <1>2. Sections \X Lods \subseteq Keys \X Lods
    BY SectionsAre
  <1>3. \A h \in Keys \X Lods : h \in Sections \X Lods <=> h[1] \in Sections
    OBVIOUS
  <1> HIDE DEF lv
  <1>4. ASSUME NEW h \in Keys \X Lods
        PROVE  h \in HeldIn(x) <=> h \in Held(lv, x)
    <2>1. CASE h[1] \in Sections
      BY <1>1, <1>3, <2>1 DEF HeldIn, Held, HandleOf
    <2>2. CASE h[1] \notin Sections
      BY <1>1, <1>3, <2>2 DEF HeldIn, Held
    <2>3. QED
      BY <2>1, <2>2
  <1>5. HeldIn(x) \subseteq Sections \X Lods
    BY DEF HeldIn
  <1>6. HeldIn(x) = Held(lv, x)
    BY <1>2, <1>4, <1>5, HolderTypes
  <1>7. \A h \in HeldIn(x) : HandleOf(h) = HandlesOf(lv)[h]
    <2>1. \A h \in HeldIn(x) : h \in Keys \X Lods /\ h[1] \in Sections
      BY <1>2, <1>3, <1>5
    <2>2. QED
      BY <1>1, <2>1 DEF HandlesOf
  <1>8. QED
    BY <1>6, <1>7 DEF lv

\* One to one is as many.
LEMMA AsMany ==
  ASSUME NEW g, NEW H, IsFiniteSet(H), NEW at, HoldsExactly(g, H, at)
  PROVE  Cardinality(H) = Cardinality(g.live)
  <1> DEFINE f == [h \in H |-> at[h].token]
  <1>1. f \in [H -> g.live]
    BY DEF HoldsExactly, IsLive
  <1>2. \A i, j \in H : f[i] = f[j] => i = j
    BY DEF HoldsExactly
  <1>3. \A t \in g.live : \E h \in H : f[h] = t
    BY DEF HoldsExactly
  <1> HIDE DEF f
  <1>4. f \in Bijection(H, g.live)
    BY <1>1, <1>2, <1>3 DEF Bijection, Injection, Surjection, IsInjective
  <1>5. ExistsBijection(H, g.live)
    BY <1>4 DEF ExistsBijection
  <1>6. QED
    BY <1>5, FS_Bijection

(* Every unit that a region has given out is one level's of one mesh, and  *)
(* every handle that a mesh keeps is live in its region: uploads, unloads, *)
(* rebuilt and dropped arenas neither leak a unit nor free one twice       *)
(* (RenderRegion, free_chunk_mesh_allocations).                            *)
THEOREM NoUnitLeaks == Spec => []ArenaAccounted
  <1>1. ASSUME ShowInv, ArenaInv PROVE ArenaAccounted
    <2> DEFINE lv == LevelsOf(meshes)
    <2>1. ASSUME NEW k \in Sections, Handles(Section(k)) # {}
          PROVE  RegionOf(k[1]) \in DOMAIN regions
      <3>1. k \in Keys /\ meshes[k[1]] # Absent /\ k[1] \in Columns /\ RegionOf(k[1]) \in Int
        BY SectionsAre, KeyTypes, RegionOfInt
      <3>2. Section(k).levels # Absent
        BY <2>1 DEF Handles
      <3>3. lv[k] # Absent
        BY <3>1, <3>2 DEF LevelsOf, Section
      <3> HIDE DEF lv
      <3>4. k[1] \in ResidentsIn(lv, RegionOf(k[1]))
        BY <3>1, <3>3, KeyTypes DEF ResidentsIn
      <3>5. QED
        BY <1>1, <3>1, <3>4 DEF ArenaInv, ArenasAre, lv
    <2>2. ASSUME NEW x \in DOMAIN regions
          PROVE  /\ \A h \in HeldIn(x) : IsLive(regions[x], HandleOf(h))
                 /\ Cardinality(HeldIn(x)) = Cardinality(regions[x].live)
      <3>1. x \in Int
        BY <1>1, <2>2 DEF ShowInv, TypeInv, RegionsOf
      <3>2. HoldsExactly(regions[x], Held(lv, x), HandlesOf(lv))
        BY <1>1, <2>2, <3>1 DEF ArenaInv, ArenasAre, ArenaIs
      <3>3. /\ HeldIn(x) = Held(lv, x)
            /\ \A h \in HeldIn(x) : HandleOf(h) = HandlesOf(lv)[h]
        BY HeldInIs
      <3> HIDE DEF lv
      <3>4. \A h \in HeldIn(x) : IsLive(regions[x], HandleOf(h))
        BY <3>2, <3>3 DEF HoldsExactly
      <3>5. IsFiniteSet(Held(lv, x))
        <4>1. IsFiniteSet(Keys) /\ IsFiniteSet(Lods)
          BY FiniteKeys, SectionMeshesAssumption
        <4>2. IsFiniteSet(Keys \X Lods) /\ Held(lv, x) \subseteq Keys \X Lods
          BY <4>1, FS_Product DEF Held
        <4>3. QED
          BY <4>2, FS_Subset
      <3>6. QED
        BY <3>2, <3>3, <3>4, <3>5, AsMany
    <2>3. QED
      BY <2>1, <2>2 DEF ArenaAccounted
  <1>2. QED
    BY <1>1, ArenaInductive, PTL

(* A region counts exactly the columns that have something resident in it, *)
(* and is there as long as there is one: it is neither dropped under a     *)
(* column nor kept without any (active_chunk_count).                       *)
THEOREM RegionsCountTheirColumns == Spec => []ActiveCounted
  <1>1. ASSUME ArenaInv PROVE ActiveCounted
    <2> DEFINE lv == LevelsOf(meshes)
    <2>1. ASSUME NEW x
          PROVE  {c \in Columns : /\ RegionOf(c) = x /\ meshes[c] # Absent
                                  /\ HasResidentSection(meshes[c])} = ResidentsIn(lv, x)
      <3>1. ASSUME NEW c \in Columns
            PROVE  (meshes[c] # Absent /\ HasResidentSection(meshes[c]))
                     <=> \E y \in SectionYs : lv[<<c, y>>] # Absent
        <4>1. \A y \in SectionYs : <<c, y>> \in Keys /\ <<c, y>>[1] = c /\ <<c, y>>[2] = y
          BY DEF Keys
        <4>2. \A y \in SectionYs :
                lv[<<c, y>>] = IF meshes[c] = Absent THEN Absent ELSE meshes[c][y].levels
          BY <4>1 DEF LevelsOf
        <4> HIDE DEF lv
        <4>3. QED
          BY <4>2 DEF HasResidentSection
      <3> HIDE DEF lv
      <3>2. QED
        BY <3>1 DEF ResidentsIn
    <2>2. ASSUME NEW c \in Columns
          PROVE  IF RegionOf(c) \in DOMAIN regions
                 THEN /\ regions[RegionOf(c)].active = Cardinality(ResidentsIn(lv, RegionOf(c)))
                      /\ ResidentsIn(lv, RegionOf(c)) # {}
                 ELSE ResidentsIn(lv, RegionOf(c)) = {}
      BY <1>1, RegionOfInt DEF ArenaInv, ArenasAre, ArenaIs
    <2> HIDE DEF lv
    <2>3. QED
      BY <2>1, <2>2 DEF ActiveCounted
  <1>2. QED
    BY <1>1, ArenaInductive, PTL
================================================================================
