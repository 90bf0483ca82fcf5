--------------------------- MODULE WorldgenLifecycle ---------------------------
(***************************************************************************)
(* How a missing column comes into a world without stopping the tick.      *)
(*                                                                         *)
(* A session's queue of columns to send demands the ones that are missing. *)
(* Each tick hands demands to a pool of worker threads, a few at a time,   *)
(* collects what the pool has finished into a backlog, and applies a few   *)
(* of the backlog to the worlds, nearest first.  Meanwhile players move,   *)
(* demands are pruned, columns leave, and a mutation that cannot wait      *)
(* makes its column on the spot, so a result may come for a column nobody  *)
(* wants any more, or that has been made and edited without it.            *)
(***************************************************************************)
EXTENDS Integers, FiniteSets, Sequences

CONSTANTS
  Dimensions,     \* numbers, in the order of AuthorityCore::worlds
  Coords,         \* column coordinates, one axis, the same in every dimension
  Players,        \* session ids
  Start,          \* [Players -> Places] where they join
  View,           \* [Coords -> SUBSET Coords] chunks_around
  Ring,           \* [Coords -> SUBSET Coords] residency_hysteresis_chunks
  Spawn,          \* capped_spawn_residency
  Loaded,         \* columns resident from the start
  Broken,         \* failed_restore_chunks
  InFlightLimit,  \* MAX_WORLDGEN_IN_FLIGHT
  Batch,          \* MAX_INITIAL_CHUNK_PROJECTIONS_PER_TICK
  MaxActs         \* bound: moves, transfers and mutations together

Columns == Dimensions \X Coords
Places == [dim : Dimensions, pos : Coords]

ASSUME WorldgenAssumption ==
  /\ Dimensions \subseteq Nat /\ Coords \subseteq Int /\ Players \subseteq Nat
  /\ Start \in [Players -> Places]
  /\ View \in [Coords -> SUBSET Coords] /\ Ring \in [Coords -> SUBSET Coords]
  /\ \A p \in Coords : View[p] \subseteq Ring[p]
  /\ Spawn \subseteq Coords
  /\ Broken \subseteq Columns /\ Loaded \subseteq Columns \ Broken
  /\ {InFlightLimit, Batch} \subseteq Nat \ {0}
  /\ MaxActs \in Nat

VARIABLES
  resident, demanded,   \* the worlds: chunks, pending_chunk_generation
  edits,                \* [Columns -> edits since the column was made]
  inFlight,             \* WorldgenWorker::in_flight
  running, done,        \* jobs in the pool, results in the channel
  backlog,              \* AuthorityCore::pending_worldgen
  place,                \* [Players -> dimension and position]
  queued,               \* [Players -> pending_initial_chunks]
  phase,                \* what the tick does next
  acts          \* what players and the simulation have done

worldVars == <<resident, demanded, edits>>
poolVars == <<inFlight, running, done, backlog>>
playerVars == <<place, queued, acts>>
vars == <<worldVars, poolVars, playerVars, phase>>

Phases == {"schedule", "collect", "events", "world", "evict"}
Elements(s) == {s[i] : i \in DOMAIN s}

-----------------------------------------------------------------------------
(* Interest and residency.                                                  *)

PlayersIn(d) == {p \in Players : place[p].dim = d}

\* residency_keep_set: what players need and a ring around it, or the spawn.
Kept(d) ==
  IF PlayersIn(d) = {} THEN {d} \X Spawn
  ELSE {d} \X UNION {Ring[place[p].pos] : p \in PlayersIn(d)}
Keep == UNION {Kept(d) : d \in Dimensions}

\* The order of a column among those of its dimension: nearest to the session with
\* the lowest id, or by coordinate where there is none.
Distance(c) ==
  LET ps == PlayersIn(c[1])
      first == CHOOSE p \in ps : \A q \in ps : p <= q
      gap == c[2] - place[first].pos
  IN IF ps = {} THEN 0 ELSE gap * gap

\* BTreeMap and BTreeSet order.
Earlier(b, c) == b[1] < c[1] \/ (b[1] = c[1] /\ b[2] < c[2])

\* The key apply_pending_worldgen sorts by.
Before(b, c) ==
  \/ b[1] < c[1]
  \/ b[1] = c[1] /\ Distance(b) < Distance(c)
  \/ b[1] = c[1] /\ Distance(b) = Distance(c) /\ b[2] < c[2]

\* The columns of a view in the order of their distance.
NearestFirst(d, cs, p) ==
  CHOOSE s \in [1 .. Cardinality(cs) -> {d} \X cs] :
    /\ Elements(s) = {d} \X cs
    /\ \A i, j \in DOMAIN s : i < j =>
         LET gap(k) == (s[k][2] - p) * (s[k][2] - p)
         IN gap(i) < gap(j) \/ (gap(i) = gap(j) /\ s[i][2] < s[j][2])

\* update_interest_for_at.  Only coordinates are compared with the view before.
RefreshInterest(p, d, pos, queue) ==
  LET wanted == SelectSeq(queue, LAMBDA c : c[1] = d /\ c[2] \in View[pos])
  IN /\ place' = [place EXCEPT ![p] = [dim |-> d, pos |-> pos]]
     /\ queued' = [queued EXCEPT ![p] =
                     wanted \o NearestFirst(d, View[pos] \ View[place[p].pos], pos)]

Init ==
  /\ resident = Loaded /\ demanded = {} /\ edits = [c \in Columns |-> 0]
  /\ inFlight = {} /\ running = {} /\ done = {} /\ backlog = {}
  /\ place = Start
  /\ queued = [p \in Players |->
                 NearestFirst(Start[p].dim, View[Start[p].pos], Start[p].pos)]
  /\ phase = "schedule"
  /\ acts = 0

-----------------------------------------------------------------------------
(* The pool.                                                                *)

\* Mutant: what is in the backlog is asked for again.
MissingAndCollected == demanded

\* Demands whose result is not in the backlog; the others would come a second time.
Missing == demanded \ backlog

\* Mutant: the limit is compared with one job too many.
OneTooMany ==
  LET asked == Missing \ inFlight
  IN {c \in asked : Cardinality({b \in asked : Earlier(b, c)})
                      <= InFlightLimit - Cardinality(inFlight)}

\* WorldgenWorker::schedule, for one demand after the other: those already under way
\* are skipped, and what exceeds the limit waits for the next tick.
Accepted ==
  LET asked == Missing \ inFlight
  IN {c \in asked : Cardinality({b \in asked : Earlier(b, c)})
                      < InFlightLimit - Cardinality(inFlight)}

\* schedule_pending_worldgen
Schedule ==
  /\ phase = "schedule"
  /\ inFlight' = inFlight \union Accepted
  /\ running' = running \union Accepted
  /\ phase' = "collect"
  /\ UNCHANGED <<worldVars, done, backlog, playerVars>>

\* A worker thread finishes a column, whatever the tick is at.
Finish(c) ==
  /\ c \in running
  /\ running' = running \ {c}
  /\ done' = done \union {c}
  /\ UNCHANGED <<worldVars, inFlight, backlog, playerVars, phase>>

\* Mutant: a collected result still counts against the limit.
NeverReleased == inFlight

\* poll_completed releases what it takes.
StillInFlight == inFlight \ done

\* collect_worldgen_results
Collect ==
  /\ phase = "collect"
  /\ inFlight' = StillInFlight
  /\ done' = {}
  /\ backlog' = backlog \union done
  /\ phase' = "events"
  /\ UNCHANGED <<worldVars, running, playerVars>>

-----------------------------------------------------------------------------
(* Inbound events and the authority's tick.                                 *)

\* handle_position: a player walks into another column.
Move(p, pos) ==
  /\ phase = "events" /\ acts < MaxActs
  /\ pos # place[p].pos
  /\ RefreshInterest(p, place[p].dim, pos, queued[p])
  /\ acts' = acts + 1
  /\ UNCHANGED <<worldVars, poolVars, phase>>

\* Requests come as events, the simulation runs in the authority's tick.
MayMutate(c) ==
  acts < MaxActs /\ phase \in {"events", "world"} /\ c \in Keep \ Broken

\* materialize_chunk for a request that is rejected after all.
Materialize(c) ==
  /\ MayMutate(c) /\ c \notin resident
  /\ resident' = resident \union {c}
  /\ demanded' = demanded \ {c}
  /\ acts' = acts + 1
  /\ UNCHANGED <<edits, poolVars, place, queued, phase>>

\* set_block: a mutation does not wait for the pool.
SetBlock(c) ==
  /\ MayMutate(c)
  /\ resident' = resident \union {c}
  /\ demanded' = demanded \ {c}
  /\ edits' = [edits EXCEPT ![c] = @ + 1]
  /\ acts' = acts + 1
  /\ UNCHANGED <<poolVars, place, queued, phase>>

\* What this tick takes from the backlog.
Taken == {c \in backlog : Cardinality({b \in backlog : Before(b, c)}) < Batch}

\* Mutant: a late result is applied whether or not the column has been made since.
AnyResult(c) == c \notin Broken

\* apply_generated_chunk: only what is still demanded, still missing and not broken.
Applicable(c) == c \in demanded /\ c \notin resident /\ c \notin Broken

\* apply_pending_worldgen, at the start of the authority's tick.  A fresh chunk has
\* no edits.
Apply ==
  /\ phase = "events"
  /\ resident' = resident \union {c \in Taken : Applicable(c)}
  /\ demanded' = demanded \ Taken
  /\ edits' = [c \in Columns |-> IF c \in Taken /\ Applicable(c) THEN 0 ELSE edits[c]]
  /\ backlog' = backlog \ Taken
  /\ phase' = "world"
  /\ UNCHANGED <<inFlight, running, done, playerVars>>

\* apply_authority_dimension_transfer
Transfer(p, d, pos) ==
  /\ phase = "world" /\ acts < MaxActs
  /\ d # place[p].dim
  /\ RefreshInterest(p, d, pos, << >>)
  /\ acts' = acts + 1
  /\ UNCHANGED <<worldVars, poolVars, phase>>

\* drain_initial_chunk_projections: sessions in turn, one column each, until a batch
\* was sent or four times as many were inspected.  A second look in the same tick
\* changes nothing but the order.
Entries == UNION {{<<i, p>> : i \in DOMAIN queued[p]} : p \in Players}
Ready(e) == queued[e[2]][e[1]] \in resident
Ahead(e) == {o \in Entries : o[1] < e[1] \/ (o[1] = e[1] /\ o[2] < e[2])}
Inspected ==
  {e \in Entries : /\ Cardinality(Ahead(e)) < 4 * Batch
                   /\ Cardinality({o \in Ahead(e) : Ready(o)}) < Batch}

\* How many of its columns a player had inspected: the first of its queue.
Looks(p) == Cardinality({e \in Inspected : e[2] = p})

\* ensure_chunk, in asynchronous mode, for what was inspected; what is there is sent,
\* what is missing goes to the back of the queue.
Route ==
  /\ phase = "world"
  /\ queued' = [p \in Players |->
                  SubSeq(queued[p], Looks(p) + 1, Len(queued[p])) \o
                  SelectSeq(SubSeq(queued[p], 1, Looks(p)), LAMBDA c : c \notin resident)]
  /\ demanded' = demanded \union
                   {c \in Columns \ (resident \union Broken) :
                      \E e \in Inspected : queued[e[2]][e[1]] = c}
  /\ phase' = "evict"
  /\ UNCHANGED <<resident, edits, poolVars, place, acts>>

\* evict_uninteresting_chunks: demands nobody needs are withdrawn, columns nobody
\* needs leave, except those whose flush failed.
Evict ==
  /\ phase = "evict"
  /\ demanded' = demanded \intersect Keep
  /\ \E stay \in SUBSET {c \in resident \ Keep : edits[c] > 0} :
       /\ resident' = (resident \intersect Keep) \union stay
       /\ edits' = [c \in Columns |-> IF c \in resident' THEN edits[c] ELSE 0]
  /\ phase' = "schedule"
  /\ UNCHANGED <<poolVars, playerVars>>

-----------------------------------------------------------------------------
Tick == Schedule \/ Collect \/ Apply \/ Route \/ Evict

Next ==
  \/ Tick
  \/ \E c \in Columns : Finish(c) \/ Materialize(c) \/ SetBlock(c)
  \/ \E p \in Players, pos \in Coords : Move(p, pos)
  \/ \E p \in Players, d \in Dimensions, pos \in Coords : Transfer(p, d, pos)

Spec == Init /\ [][Next]_vars

\* The server ticks and every job of the pool ends.  Nobody must move or edit.
Fairness == WF_vars(Tick) /\ \A c \in Columns : WF_vars(Finish(c))

FairSpec == Spec /\ Fairness

-----------------------------------------------------------------------------
\* Every queue holds distinct columns of its player's view, only what is missing and
\* can be made is demanded, and the worker keeps to its limit.
TypeOK ==
  /\ resident \subseteq Columns \ Broken
  /\ demanded \subseteq Columns \ (resident \union Broken)
  /\ edits \in [Columns -> 0 .. MaxActs]
  /\ \A S \in {inFlight, running, done, backlog} : S \subseteq Columns
  /\ Cardinality(inFlight) <= InFlightLimit
  /\ place \in [Players -> Places]
  /\ \A p \in Players :
       /\ Elements(queued[p]) \subseteq {place[p].dim} \X View[place[p].pos]
       /\ \A i, j \in DOMAIN queued[p] : queued[p][i] = queued[p][j] => i = j
  /\ phase \in Phases /\ acts \in 0 .. MaxActs

\* A column is generated by one job at a time: it is in the pool, in the channel or in
\* the backlog, and in one of them only, however demands are pruned and made again;
\* and the worker's set of columns in flight is exact, so its slots come back.
OneJobEach ==
  /\ inFlight = running \union done
  /\ running \intersect done = {}
  /\ backlog \intersect inFlight = {}

\* Seen from the worlds there are no jobs and no budgets: a result never replaces a
\* column that was made or edited meanwhile, never brings one back that nobody
\* demands, and no demand stays open for ever (schedule, poll_completed,
\* apply_pending_worldgen, apply_generated_chunk).
World == INSTANCE ColumnDemand
ImplementsColumnDemand == World!FairSpec

\* A column a session waits for is sent, or the player goes where it is not needed:
\* nothing that is queued before it, not even a column that can never be made, keeps
\* it waiting for ever (drain_initial_chunk_projections, prune_unkept_demands).
QueuedIsSent ==
  \A p \in Players, c \in Columns \ Broken :
    c \in Elements(queued[p]) ~> c \notin Elements(queued[p])
===============================================================================
