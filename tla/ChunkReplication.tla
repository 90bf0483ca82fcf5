--------------------------- MODULE ChunkReplication ---------------------------
(***************************************************************************)
(* How a remote client comes to show the world.                            *)
(*                                                                         *)
(* The tick thread keeps the columns of each dimension, the interest set   *)
(* of the session (the columns around its player) and the columns it still *)
(* has to send.  A column goes out once, whole, as ChunkData; later        *)
(* mutations go out one by one as BlockChange and BlockEntityDelta.  The   *)
(* two kinds take different ways: ChunkData waits in a catch-up mailbox,   *)
(* everything else in a reliable queue that the writer task prefers, so a  *)
(* change may overtake the column it belongs to.  The client puts them     *)
(* back in order by revision (RevisionGate), and the presentation keeps    *)
(* the columns near the player, in one dimension at a time.                *)
(*                                                                         *)
(* A mutation takes the next revision of its dimension and changes a block *)
(* of its own; what a column holds is the set of the revisions in it.      *)
(***************************************************************************)
EXTENDS Naturals, FiniteSets, Sequences

CONSTANTS
  Dimensions,
  Coords,           \* column coordinates, the same in every dimension
  Positions,        \* places a player can be
  View,             \* [Positions -> SUBSET Coords] chunks_around
  Ring,             \* [Positions -> SUBSET Coords] view and unload hysteresis
  Start,            \* where and in which dimension the player joins
  StartDimension,
  Loaded,           \* columns resident from the start: restored from the save
  Batch,            \* MAX_INITIAL_CHUNK_PROJECTIONS_PER_TICK
  HostCapacity,     \* HOST_COMMAND_QUEUE_CAPACITY
  MailboxCapacity,  \* MAX_CATCHUP_QUEUE_DEPTH
  OutCapacity,      \* reliable queue of the session
  WireCapacity,     \* bound: packets between the writer and the client
  MaxMutations, MaxMoves, MaxTransfers,  \* bounds on the environment
  Unseen

ASSUME ChunkReplicationAssumption ==
  /\ View \in [Positions -> SUBSET Coords]
  /\ Ring \in [Positions -> SUBSET Coords]
  /\ \A p \in Positions : View[p] \subseteq Ring[p] /\ IsFiniteSet(View[p])
  /\ Start \in Positions /\ StartDimension \in Dimensions
  /\ Loaded \subseteq Dimensions \X Coords
  /\ {Batch, HostCapacity, MailboxCapacity, OutCapacity, WireCapacity}
       \subseteq Nat \ {0}
  /\ {MaxMutations, MaxMoves, MaxTransfers} \subseteq Nat
  /\ Unseen \notin Nat

VARIABLES
  \* tick thread
  clock,      \* [Dimensions -> last revision allocated] (RevisionClock)
  content,    \* [Columns -> set of revisions]
  resident, demanded,
  place,      \* the session: its dimension and its position
  interest,   \* coordinates of the session's interest set
  pending,    \* pending_initial_chunks
  fresh,      \* mutations of this tick, in order
  outbox,     \* what route_authority_snapshot still has to enqueue this tick
  \* network thread
  host, mailbox, permit, out, writer, wire,
  \* client
  where,      \* the player's dimension and position as presented
  applied, buffered,  \* RevisionGate
  shown,      \* [Columns -> what is presented of a column]
  \* history
  visits,     \* how often a column was queued for projection, or wanted again
              \* after it had been queued and left, up to 2
  hostFull,   \* whether the host queue ever refused a packet (record_queue_full)
  dropped,    \* columns the mailbox refused (full_count)
  mutations, moves, transfers

serverVars == <<clock, content, resident, demanded, place, interest, pending,
                fresh, outbox>>
networkVars == <<host, mailbox, permit, out, writer, wire>>
clientVars == <<where, applied, buffered, shown>>
history == <<visits, hostFull, dropped>>
counters == <<mutations, moves, transfers>>
vars == <<serverVars, networkVars, clientVars, history, counters>>

Columns == Dimensions \X Coords
Newest(S) == CHOOSE r \in S : \A k \in S : k <= r
Orders(S) == {s \in [1 .. Cardinality(S) -> S] :
                \A i, j \in DOMAIN s : i # j => s[i] # s[j]}

\* The elements of s at the places in I, in the order they have in s.
Place(I, k) == CHOOSE i \in I : Cardinality({j \in I : j <= i}) = k
Kept(s, I) == [k \in 1 .. Cardinality(I) |-> s[Place(I, k)]]
PlacesIn(s, S) == {i \in DOMAIN s : s[i] \in S}

\* chunk_revision: 0 for a column nobody changed.
ChunkRevision(c) == Newest(content[c] \union {0})

ChunkData(c) ==
  [kind |-> "chunk", col |-> c, rev |-> ChunkRevision(c), blocks |-> content[c]]
BlockChange(m) == [kind |-> "block", col |-> m.col, rev |-> m.rev]
BlockEntityDelta(m) == [kind |-> "entity", col |-> m.col, rev |-> m.rev]
DimensionTransfer(d, p) == [kind |-> "transfer", dim |-> d, pos |-> p]

Blank == [resident |-> FALSE, blocks |-> {}, ents |-> {}, rev |-> 0, waiting |-> {}]

Wanted(c) == c[1] = place.dim /\ c[2] \in interest

\* A session that has joined and has been sent nothing yet.
Joined ==
  /\ clock = [d \in Dimensions |-> 0]
  /\ content = [c \in Columns |-> {}]
  /\ resident = Loaded /\ demanded = {}
  /\ place = [dim |-> StartDimension, pos |-> Start]
  /\ interest = View[Start]
  /\ pending \in Orders({StartDimension} \X View[Start])
  /\ fresh = << >> /\ outbox = << >>
  /\ host = << >> /\ mailbox = << >> /\ out = << >> /\ wire = << >>
  /\ permit = FALSE /\ writer = "idle"
  /\ where = place
  /\ applied = [c \in Columns |-> Unseen]
  /\ buffered = [c \in Columns |-> {}]
  /\ shown = [c \in Columns |-> Blank]
  /\ visits = [c \in Columns |-> IF Wanted(c) THEN 1 ELSE 0]
  /\ hostFull = FALSE /\ dropped = {}

Init == Joined /\ mutations = 0 /\ moves = 0 /\ transfers = 0

-----------------------------------------------------------------------------
(* The tick thread.  Between two ticks' routing the outbox is empty.        *)

InTick == outbox = << >>

\* enqueue_host: a full queue loses the packet and counts it.
EnqueueHost(packet) ==
  IF Len(host) < HostCapacity
    THEN host' = Append(host, packet) /\ UNCHANGED hostFull
    ELSE hostFull' = TRUE /\ UNCHANGED host

\* A player or the simulation changes a block of a resident column.
Mutate(c) ==
  LET rev == clock[c[1]] + 1
  IN /\ InTick /\ mutations < MaxMutations
     /\ c \in resident
     /\ clock' = [clock EXCEPT ![c[1]] = rev]
     /\ content' = [content EXCEPT ![c] = @ \union {rev}]
     /\ fresh' = Append(fresh, [col |-> c, rev |-> rev])
     /\ mutations' = mutations + 1
     /\ UNCHANGED <<resident, demanded, place, interest, pending, outbox,
                    networkVars, clientVars, history, moves, transfers>>

\* A worldgen result is applied (apply_generated_chunk).  A demand that is pruned
\* when the player leaves stays answerable here: its job may be under way.
Generate(c) ==
  /\ InTick /\ c \in demanded
  /\ resident' = resident \union {c}
  /\ demanded' = demanded \ {c}
  /\ UNCHANGED <<clock, content, place, interest, pending, fresh, outbox,
                 networkVars, clientVars, history, counters>>

\* update_interest_for_at.  The interest set still holds the coordinates of the
\* last update, whatever dimension that was for: sync_dimension has already
\* overwritten the dimension, so only coordinates are compared.
RefreshInterest(d, p, queued) ==
  LET entered == {d} \X (View[p] \ interest)
      returned == {c \in {d} \X View[p] : ~Wanted(c) /\ visits[c] = 1}
  IN /\ place' = [dim |-> d, pos |-> p]
     /\ interest' = View[p]
     /\ \E s \in Orders(entered) :
          pending' = Kept(queued, PlacesIn(queued, {d} \X View[p])) \o s
     /\ visits' = [c \in Columns |->
                     IF c \in entered \union returned /\ visits[c] < 2
                       THEN visits[c] + 1 ELSE visits[c]]

\* handle_position.  A pose from the dimension the player just left is too far
\* from the transfer's target to be accepted.
PoseArrives ==
  /\ InTick
  /\ where.dim = place.dim /\ where.pos # place.pos
  /\ RefreshInterest(place.dim, where.pos, pending)
  /\ UNCHANGED <<clock, content, resident, demanded, fresh, outbox, networkVars,
                 clientVars, hostFull, dropped, counters>>

\* apply_authority_dimension_transfer.
Transfer(d, p) ==
  /\ InTick /\ transfers < MaxTransfers
  /\ d # place.dim
  /\ RefreshInterest(d, p, << >>)
  /\ EnqueueHost(DimensionTransfer(d, p))
  /\ transfers' = transfers + 1
  /\ UNCHANGED <<clock, content, resident, demanded, fresh, outbox, mailbox,
                 permit, out, writer, wire, clientVars, dropped, mutations, moves>>

\* drain_initial_chunk_projections looks at the queued columns in order until a
\* batch of them could be sent, or four times that many were looked at.
Looks == IF Len(pending) < 4 * Batch THEN Len(pending) ELSE 4 * Batch
ReadyAmong(n) == {i \in 1 .. n : pending[i] \in resident}
Inspected ==
  CHOOSE n \in 0 .. Looks :
    /\ Cardinality(ReadyAmong(n)) <= Batch
    /\ \/ Cardinality(ReadyAmong(n)) = Batch /\ n \in ReadyAmong(n)
       \/ Cardinality(ReadyAmong(n)) < Batch /\ n = Looks

\* Mutant: a column that is not there yet is not queued again.
ForgetUnready(looked) == << >>

\* A column that is not there yet is demanded and goes to the back.
Requeued(looked) == Kept(looked, DOMAIN looked \ PlacesIn(looked, resident))

Deltas(ms) ==
  [i \in 1 .. 2 * Len(ms) |->
     IF i % 2 = 1 THEN BlockChange(ms[(i + 1) \div 2])
                  ELSE BlockEntityDelta(ms[i \div 2])]

\* route_authority_snapshot: the queued columns, then the changes of the tick.
Route ==
  LET looked == SubSeq(pending, 1, Inspected)
      ready == Kept(looked, PlacesIn(looked, resident))
      chunks == [i \in DOMAIN ready |-> ChunkData(ready[i])]
  IN /\ InTick
     /\ pending' = SubSeq(pending, Inspected + 1, Len(pending)) \o Requeued(looked)
     /\ demanded' = demanded \union ({looked[i] : i \in DOMAIN looked} \ resident)
     /\ outbox' = chunks \o Deltas(Kept(fresh, {i \in DOMAIN fresh : Wanted(fresh[i].col)}))
     /\ fresh' = << >>
     /\ UNCHANGED <<clock, content, resident, place, interest, networkVars,
                    clientVars, history, counters>>

Send ==
  /\ outbox # << >>
  /\ EnqueueHost(Head(outbox))
  /\ outbox' = Tail(outbox)
  /\ UNCHANGED <<clock, content, resident, demanded, place, interest, pending,
                 fresh, mailbox, permit, out, writer, wire, clientVars, visits,
                 dropped, counters>>

-----------------------------------------------------------------------------
(* The network thread: the command loop and the session's writer task.      *)

\* Mutant: the capacity check is off by one.
OneTooMany == Len(mailbox) <= MailboxCapacity

MailboxHasRoom == Len(mailbox) < MailboxCapacity

\* CatchupMailbox::replace: one packet per column, the newest.
Replace(packet) ==
  LET slots == {i \in DOMAIN mailbox : mailbox[i].col = packet.col}
  IN \/ /\ slots # {}
        /\ mailbox' = [i \in DOMAIN mailbox |->
                         IF i \in slots /\ packet.rev >= mailbox[i].rev
                           THEN packet ELSE mailbox[i]]
        /\ permit' = TRUE
        /\ UNCHANGED dropped
     \/ /\ slots = {} /\ MailboxHasRoom
        /\ mailbox' = Append(mailbox, packet)
        /\ permit' = TRUE
        /\ UNCHANGED dropped
     \/ /\ slots = {} /\ ~MailboxHasRoom
        /\ dropped' = dropped \union {packet.col}
        /\ UNCHANGED <<mailbox, permit>>

\* deliver_projection; its caller ignores a refusal of the mailbox.
DeliverChunk ==
  /\ host # << >> /\ Head(host).kind = "chunk"
  /\ Replace(Head(host))
  /\ host' = Tail(host)
  /\ UNCHANGED <<serverVars, out, writer, wire, clientVars, visits, hostFull,
                 counters>>

DeliverReliable ==
  /\ host # << >> /\ Head(host).kind # "chunk"
  /\ Len(out) < OutCapacity
  /\ out' = Append(out, Head(host))
  /\ host' = Tail(host)
  /\ UNCHANGED <<serverVars, mailbox, permit, writer, wire, clientVars, history,
                 counters>>

\* select! { biased; ... } takes the reliable queue first, and the mailbox when
\* it was notified.
WriteReliable ==
  /\ writer = "idle" /\ out # << >>
  /\ Len(wire) < WireCapacity
  /\ wire' = Append(wire, Head(out))
  /\ out' = Tail(out)
  /\ UNCHANGED <<serverVars, host, mailbox, permit, writer, clientVars, history,
                 counters>>

ChooseCatchup ==
  /\ writer = "idle" /\ out = << >> /\ permit
  /\ permit' = FALSE
  /\ writer' = "catchup"
  /\ UNCHANGED <<serverVars, host, mailbox, out, wire, clientVars, history,
                 counters>>

\* Between the choice and the pop the writer may sleep (catchup_drain_delay).
PopCatchup ==
  /\ writer = "catchup"
  /\ \/ /\ mailbox # << >> /\ Len(wire) < WireCapacity
        /\ wire' = Append(wire, Head(mailbox))
        /\ mailbox' = Tail(mailbox)
        /\ permit' = (permit \/ Tail(mailbox) # << >>)
     \/ /\ mailbox = << >>
        /\ UNCHANGED <<mailbox, wire, permit>>
  /\ writer' = "idle"
  /\ UNCHANGED <<serverVars, host, out, clientVars, history, counters>>

-----------------------------------------------------------------------------
(* The presentation.                                                        *)

\* apply_remote_block_change for one revision or for some in ascending order.
PresentBlocks(s, revs) ==
  LET newer == {r \in revs : r > s.rev}
  IN IF s.resident
       THEN [s EXCEPT !.blocks = @ \union newer, !.rev = Newest(newer \union {s.rev})]
       ELSE [s EXCEPT !.waiting = @ \union newer]

\* apply_remote_block_entity_delta
PresentEntity(s, rev) ==
  IF rev > s.rev /\ s.resident
    THEN [s EXCEPT !.ents = @ \union {rev}, !.rev = rev] ELSE s

\* apply_remote_chunk_data, commit_projected_chunk_column
PresentChunk(s, packet) ==
  IF packet.rev < s.rev THEN s
  ELSE PresentBlocks([resident |-> TRUE, blocks |-> packet.blocks,
                      ents |-> packet.blocks, rev |-> packet.rev, waiting |-> {}],
                     s.waiting)

\* Only the current dimension is presented.
Present(c, s) == shown' = IF c[1] = where.dim THEN [shown EXCEPT ![c] = s] ELSE shown

(* The client's connection task: revisions put columns and changes in order. *)

\* Mutant: a change that comes before its column is thrown away.
DiscardEarly(c, rev) == buffered[c]

BufferEarly(c, rev) == buffered[c] \union {rev}

\* Mutant: the changes that came before the column are not passed on.
ForgetBuffered(c, rev) == {}

\* flush_buffered
Flushed(c, rev) == {r \in buffered[c] : r > rev}

\* The gate passes a revision of a column on only once.
Stale(c, rev) == applied[c] # Unseen /\ rev <= applied[c]

ReceiveBlock(c, rev) ==
  \/ /\ applied[c] = Unseen
     /\ buffered' = [buffered EXCEPT ![c] = BufferEarly(c, rev)]
     /\ UNCHANGED <<applied, shown>>
  \/ /\ applied[c] # Unseen /\ ~Stale(c, rev)
     /\ applied' = [applied EXCEPT ![c] = rev]
     /\ Present(c, PresentBlocks(shown[c], {rev}))
     /\ UNCHANGED buffered
  \/ /\ Stale(c, rev)
     /\ UNCHANGED <<applied, buffered, shown>>

ReceiveChunk(packet) ==
  LET c == packet.col
      flushed == Flushed(c, packet.rev)
  IN \/ /\ Stale(c, packet.rev)
        /\ UNCHANGED <<applied, buffered, shown>>
     \/ /\ ~Stale(c, packet.rev)
        /\ applied' = [applied EXCEPT ![c] = Newest(flushed \union {packet.rev})]
        /\ buffered' = [buffered EXCEPT ![c] = {}]
        /\ Present(c, PresentBlocks(PresentChunk(shown[c], packet), flushed))

\* reset_presented_dimension: the presentation starts afresh, the gate does not.
ReceiveTransfer(packet) ==
  /\ where' = [dim |-> packet.dim, pos |-> packet.pos]
  /\ shown' = IF packet.dim = where.dim THEN shown ELSE [c \in Columns |-> Blank]
  /\ UNCHANGED <<applied, buffered>>

Receive ==
  /\ wire # << >>
  /\ LET packet == Head(wire)
     IN \/ /\ packet.kind = "chunk"
           /\ ReceiveChunk(packet) /\ UNCHANGED where
        \/ /\ packet.kind = "block"
           /\ ReceiveBlock(packet.col, packet.rev) /\ UNCHANGED where
        \/ /\ packet.kind = "entity"
           /\ Present(packet.col, PresentEntity(shown[packet.col], packet.rev))
           /\ UNCHANGED <<applied, buffered, where>>
        \/ /\ packet.kind = "transfer"
           /\ ReceiveTransfer(packet)
  /\ wire' = Tail(wire)
  /\ UNCHANGED <<serverVars, host, mailbox, permit, out, writer, history, counters>>

\* The player walks; columns outside the unload ring go.  Poses are sent far more
\* often than a player can cross the hysteresis band, so the server knows the last
\* place before the next.
Move(p) ==
  /\ moves < MaxMoves
  /\ where = place /\ p # where.pos
  /\ where' = [where EXCEPT !.pos = p]
  /\ shown' = [c \in Columns |->
                 IF c[2] \in Ring[p] THEN shown[c]
                 ELSE [shown[c] EXCEPT !.resident = FALSE, !.blocks = {}, !.ents = {}]]
  /\ moves' = moves + 1
  /\ UNCHANGED <<serverVars, networkVars, applied, buffered, history, mutations,
                 transfers>>

-----------------------------------------------------------------------------
Tick == Route \/ Send
Network == DeliverChunk \/ DeliverReliable
Writer == WriteReliable \/ ChooseCatchup \/ PopCatchup

Next ==
  \/ \E c \in Columns : Mutate(c) \/ Generate(c)
  \/ PoseArrives
  \/ \E d \in Dimensions, p \in Positions : Transfer(d, p)
  \/ Tick \/ Network \/ Writer \/ Receive
  \/ \E p \in Positions : Move(p)

Spec == Init /\ [][Next]_vars

\* The tick thread ticks, worldgen answers what is demanded, the tasks of the
\* runtime are scheduled and the client reads its socket.  Nothing obliges the
\* player to act; a pose is sent every tick.
Fairness ==
  /\ WF_vars(Tick) /\ WF_vars(PoseArrives)
  /\ \A c \in Columns : SF_vars(Generate(c))
  /\ WF_vars(Network) /\ WF_vars(Writer) /\ WF_vars(Receive)

FairSpec == Spec /\ Fairness

-----------------------------------------------------------------------------
(* What the checks are about.                                               *)

Revisions == 1 .. MaxMutations
Packets ==
  [kind : {"chunk"}, col : Columns, rev : 0 .. MaxMutations, blocks : SUBSET Revisions]
    \union [kind : {"block", "entity"}, col : Columns, rev : Revisions]
    \union [kind : {"transfer"}, dim : Dimensions, pos : Positions]
PacketsOf(s) == {s[i] : i \in DOMAIN s}
Places == [dim : Dimensions, pos : Positions]

\* Every queue holds packets and stays within its capacity, the mailbox holds at
\* most one packet for a column, and the columns still to send are distinct and
\* wanted.
TypeOK ==
  /\ clock \in [Dimensions -> 0 .. MaxMutations]
  /\ \A c \in Columns : content[c] \subseteq 1 .. clock[c[1]]
  /\ resident \subseteq Columns /\ demanded \subseteq Columns \ resident
  /\ place \in Places /\ where \in Places
  /\ interest = View[place.pos]
  /\ \A i, j \in DOMAIN pending : Wanted(pending[i]) /\ (pending[i] = pending[j] => i = j)
  /\ PacketsOf(outbox) \union PacketsOf(host) \union PacketsOf(wire) \subseteq Packets
  /\ Len(host) <= HostCapacity /\ Len(out) <= OutCapacity /\ Len(wire) <= WireCapacity
  /\ Len(mailbox) <= MailboxCapacity
  /\ \A i \in DOMAIN mailbox : mailbox[i] \in Packets /\ mailbox[i].kind = "chunk"
  /\ \A i, j \in DOMAIN mailbox : mailbox[i].col = mailbox[j].col => i = j
  /\ \A i \in DOMAIN out : out[i] \in Packets /\ out[i].kind # "chunk"
  /\ applied \in [Columns -> 0 .. MaxMutations \union {Unseen}]
  /\ buffered \in [Columns -> SUBSET Revisions]
  /\ \A c \in Columns : shown[c].rev \in 0 .. MaxMutations
  /\ permit \in BOOLEAN /\ writer \in {"idle", "catchup"}

\* No column was wanted a second time and no packet was lost before the mailbox:
\* what a session sees that walks or is transferred to columns it never had.  A
\* session that returns to a dimension before its interest set has changed is not
\* sent the columns again, nor what changed in them in the meantime.
Undisturbed == ~hostFull /\ \A c \in Columns : visits[c] <= 1

\* A presented column has no hole: it shows every change up to its revision and
\* none later, however the column and its changes overtook one another.
GapFree ==
  Undisturbed => \A c \in Columns :
    shown[c].resident => shown[c].blocks = {r \in content[c] : r <= shown[c].rev}

\* Nothing is on its way and both sides agree where the player is.
Quiet ==
  /\ fresh = << >> /\ outbox = << >> /\ host = << >> /\ mailbox = << >>
  /\ out = << >> /\ wire = << >> /\ writer = "idle"
  /\ where = place
  /\ \A i \in DOMAIN pending : pending[i] \notin resident

\* Once nothing is on its way, each column the session wants and the server has is
\* presented with all its changes, or the mailbox counted its loss.
CaughtUp ==
  Quiet /\ Undisturbed => \A c \in Columns :
    Wanted(c) /\ visits[c] = 1 /\ c \in resident /\ c \notin dropped
      => shown[c].resident /\ shown[c].blocks = content[c]

\* A column the session wants for the first time is presented in the end, generated
\* first if it has to be, unless the player leaves it or a full queue loses it.
ColumnArrives ==
  \A c \in Columns :
    (Wanted(c) /\ visits[c] = 1)
      ~> (shown[c].resident \/ ~Wanted(c) \/ ~Undisturbed \/ c \in dropped)

\* After a transfer "subsequent ChunkData/Entity events repopulate the destination":
\* once nothing is on its way, the columns around the player are presented.
TransferRepopulates ==
  Quiet /\ ~hostFull => \A c \in Columns :
    Wanted(c) /\ c \in resident /\ c \notin dropped => shown[c].resident

\* A block entity update from the host is applied: once nothing is on its way, a
\* presented column shows the block entities that go with its blocks.
BlockEntitiesFollow ==
  Quiet /\ Undisturbed => \A c \in Columns :
    shown[c].resident /\ Wanted(c) => shown[c].ents = shown[c].blocks
=============================================================================
