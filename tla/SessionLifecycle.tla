--------------------------- MODULE SessionLifecycle ---------------------------
(***************************************************************************)
(* Who is on the server: connections that become sessions of the network   *)
(* thread, sessions that become players of the authority, and the way back *)
(* for all of them.                                                        *)
(*                                                                         *)
(* Every connection has a task on the network thread.  One more task, the  *)
(* command loop, carries out what the tick thread asks for.  All of them   *)
(* share the locked session table and evict clients that no longer read;   *)
(* the tick thread learns of joins and leaves from one bounded queue that  *)
(* never blocks its senders.  Whoever plays on the machine itself has been *)
(* with the authority from the start: the session table never counts it.   *)
(***************************************************************************)
EXTENDS Naturals, Sequences, FiniteSets

CONSTANTS
  Connections,        \* numbered as the listener takes them
  Hosts,              \* who may play on the machine itself; at most one of them does
  Names,              \* normalised identities
  Name,               \* [Connections \union Hosts -> the name it plays under]
  CommandLoop,        \* the task of NetworkServer::run
  MaxPlayers,
  EventCapacity,      \* queue of the network thread to the tick thread
  HostCapacity,       \* HOST_COMMAND_QUEUE_CAPACITY
  MaxStalls, MaxProgress, MaxBroadcasts, MaxSaveFailures, MaxSpoils  \* bounds

ASSUME SessionLifecycleAssumption ==
  /\ Connections \subseteq Nat /\ CommandLoop \notin Connections
  /\ Connections \intersect Hosts = {}
  /\ Name \in [Connections \union Hosts -> Names]
  /\ {MaxPlayers, EventCapacity, HostCapacity} \subseteq Nat \ {0}
  /\ {MaxStalls, MaxProgress, MaxBroadcasts, MaxSaveFailures, MaxSpoils} \subseteq Nat

VARIABLES
  \* network thread
  stage,        \* [Connections -> where its run_client is]
  permits,      \* pre_auth
  sessions,     \* the session table
  stalled,      \* connections whose queue takes no more packets
  pending,      \* [Tasks -> clients it still has to evict]
  evicting,     \* [Tasks -> the client it evicts, and what comes next]
  events, host, \* queues: to the tick thread, from it
  \* tick thread
  players,      \* sessions of the authority
  data,         \* [Connections -> progress of the player, while it plays]
  file,         \* [Names -> progress in the player file]
  unreadable,   \* names whose player file cannot be read, or does not decode
  \* history
  progress,     \* [Names -> the furthest anyone of that name has played]
  ghosts,       \* clients whose ClientLeft was lost, or came before ClientJoined
  unsaved,      \* names whose player file could not be written
  stalls, broadcasts, saveFailures, spoils

network == <<stage, permits, sessions, stalled, stalls>>
evictions == <<pending, evicting>>
tick == <<players, data, file, unreadable, progress, unsaved, saveFailures, spoils>>
vars == <<network, evictions, events, host, tick, ghosts, broadcasts>>

Tasks == Connections \union {CommandLoop}
Nobody == [who |-> CommandLoop, next |-> "idle"]
Joined(c) == [kind |-> "joined", id |-> c]
Left(c) == [kind |-> "left", id |-> c]
Disconnect(c) == [kind |-> "disconnect", id |-> c]
Broadcast == [kind |-> "broadcast"]

\* A run may begin with some of its bounds used up.
Init ==
  /\ stage = [c \in Connections |-> "new"]
  /\ permits = 0 /\ sessions = {} /\ stalled = {}
  /\ pending = [t \in Tasks |-> {}] /\ evicting = [t \in Tasks |-> Nobody]
  /\ events = << >> /\ host = << >>
  /\ players \in {{}} \union {{h} : h \in Hosts}
  /\ data = [c \in Connections |-> 0]
  /\ file = [n \in Names |-> 0] /\ progress = [n \in Names |-> 0]
  /\ unreadable = {} /\ ghosts = {} /\ unsaved = {}
  /\ stalls \in 0 .. MaxStalls /\ broadcasts \in 0 .. MaxBroadcasts
  /\ saveFailures \in 0 .. MaxSaveFailures /\ spoils \in 0 .. MaxSpoils

-----------------------------------------------------------------------------
(* A connection's task, up to its ClientJoined: run_client.                *)

Goes(c, from, to) == stage[c] = from /\ stage' = [stage EXCEPT ![c] = to]
NameTaken(c) == \E s \in sessions : Name[s] = Name[c]
Admits(c) == Cardinality(sessions) < MaxPlayers /\ ~NameTaken(c)

\* PreAuthSlot::try_acquire
Acquire(c) ==
  \/ /\ permits < 2 * MaxPlayers
     /\ Goes(c, "new", "handshake") /\ permits' = permits + 1
  \/ /\ permits >= 2 * MaxPlayers
     /\ Goes(c, "new", "closed") /\ UNCHANGED permits

\* The listener takes the next connection while a pre-auth permit is left.
Accept(c) ==
  /\ \A d \in Connections : d < c => stage[d] # "new"
  /\ Acquire(c)
  /\ UNCHANGED <<sessions, stalled, stalls, evictions, events, host, tick, ghosts,
                 broadcasts>>

\* A timeout, another packet, an unusable name, no longer on the list: the permit is dropped.
Refuse(c) ==
  /\ \/ Goes(c, "handshake", "closed")
     \/ ~Admits(c) /\ Goes(c, "checked", "closed")
  /\ permits' = permits - 1
  /\ UNCHANGED <<sessions, stalled, stalls, evictions, events, host, tick, ghosts,
                 broadcasts>>

\* The early check, under the lock.
Check(c) ==
  /\ Admits(c) /\ Goes(c, "handshake", "checked")
  /\ UNCHANGED <<permits, sessions, stalled, stalls, evictions, events, host, tick,
                 ghosts, broadcasts>>

ReserveUnchecked(c) ==
  /\ Goes(c, "checked", "reserved")
  /\ sessions' = sessions \union {c} /\ permits' = permits - 1
  /\ UNCHANGED <<stalled, stalls, evictions, events, host, tick, ghosts, broadcasts>>
\* The check again and the reservation, under one lock.
Reserve(c) ==
  /\ Admits(c) /\ Goes(c, "checked", "reserved")
  /\ sessions' = sessions \union {c}
  /\ permits' = permits - 1
  /\ UNCHANGED <<stalled, stalls, evictions, events, host, tick, ghosts, broadcasts>>

Welcome(c) ==
  /\ c \notin stalled /\ Goes(c, "reserved", "roster")
  /\ UNCHANGED <<permits, sessions, stalled, stalls, evictions, events, host, tick, ghosts,
                 broadcasts>>

\* Room for the whole roster may take up to CLIENT_TIMEOUT.
QueueRoster(c) ==
  /\ c \notin stalled /\ Goes(c, "roster", "joining")
  /\ UNCHANGED <<permits, sessions, stalled, stalls, evictions, events, host, tick,
                 ghosts, broadcasts>>

Join(c) ==
  /\ Len(events) < EventCapacity /\ Goes(c, "joining", "online")
  /\ events' = Append(events, Joined(c))
  /\ UNCHANGED <<permits, sessions, stalled, stalls, evictions, host, tick, ghosts,
                 broadcasts>>

\* The way in ends early; the authority has not heard of the client.
Abandon(c) ==
  /\ \/ c \in stalled /\ (Goes(c, "reserved", "closed") \/ Goes(c, "roster", "closed"))
     \/ Len(events) = EventCapacity /\ Goes(c, "joining", "closed")
  /\ sessions' = sessions \ {c}
  /\ UNCHANGED <<permits, stalled, stalls, evictions, events, host, tick, ghosts,
                 broadcasts>>

\* The loop ends: the client hangs up or times out, the writer has exited, or the session
\* was cancelled.  remove_client comes next.
Leave(c) ==
  /\ Goes(c, "online", "leaving")
  /\ pending' = [pending EXCEPT ![c] = {c}]
  /\ UNCHANGED <<permits, sessions, stalled, stalls, evicting, events, host, tick,
                 ghosts, broadcasts>>

\* The client stops reading, or the writer task is gone.
Stall(c) ==
  /\ c \in sessions \ stalled /\ stalls < MaxStalls
  /\ stalled' = stalled \union {c} /\ stalls' = stalls + 1
  /\ UNCHANGED <<stage, permits, sessions, evictions, events, host, tick,
                 ghosts, broadcasts>>

\* It reads again.
Recover(c) ==
  /\ c \in stalled /\ stalled' = stalled \ {c}
  /\ UNCHANGED <<stage, permits, sessions, stalls, evictions, events, host, tick, ghosts,
                 broadcasts>>

-----------------------------------------------------------------------------
(* remove_client and evict_slow_clients, in whatever task runs them.       *)

\* Whoever takes the session out of the table is the one that says so.
TakeOut(t) ==
  /\ evicting[t] = Nobody
  /\ \E c \in pending[t] :
       /\ pending' = [pending EXCEPT ![t] = @ \ {c}]
       /\ sessions' = sessions \ {c}
       /\ evicting' = [evicting EXCEPT ![t] =
            IF c \in sessions THEN [who |-> c, next |-> "tell"] ELSE Nobody]
  /\ UNCHANGED <<stage, permits, stalled, stalls, events, host, tick, ghosts, broadcasts>>

TellNobody(t) ==
  /\ evicting[t].next = "tell"
  /\ evicting' = [evicting EXCEPT ![t].next = "announce"]
  /\ UNCHANGED <<network, pending, events, host, tick, ghosts, broadcasts>>
\* ClientLeft: nobody looks at the result.
TellHost(t) ==
  /\ evicting[t].next = "tell"
  /\ LET c == evicting[t].who
     IN  /\ evicting' = [evicting EXCEPT ![t].next = "announce"]
         /\ events' = IF Len(events) < EventCapacity THEN Append(events, Left(c)) ELSE events
         /\ ghosts' = IF /\ Len(events) < EventCapacity
                         /\ stage[c] \notin {"reserved", "roster", "joining"}
                      THEN ghosts ELSE ghosts \union {c}
  /\ UNCHANGED <<network, pending, host, tick, broadcasts>>

\* broadcast_reliably: a packet for everyone in the table; who takes none is evicted next.
BroadcastReliably(t) == pending' = [pending EXCEPT ![t] = @ \union (sessions \intersect stalled)]

\* PlayerLeave
Announce(t) ==
  /\ evicting[t].next = "announce"
  /\ evicting' = [evicting EXCEPT ![t] = Nobody]
  /\ BroadcastReliably(t)
  /\ UNCHANGED <<stage, permits, sessions, stalled, stalls, events, host, tick, ghosts, broadcasts>>

\* The command loop: handle_host_command, once the evictions of the last one are done.
Command ==
  /\ pending[CommandLoop] = {} /\ evicting[CommandLoop] = Nobody
  /\ host # << >> /\ host' = Tail(host)
  /\ IF Head(host).kind = "broadcast"
     THEN BroadcastReliably(CommandLoop)
     ELSE pending' = [pending EXCEPT ![CommandLoop] =
                        {Head(host).id} \intersect sessions \intersect stalled]
  /\ UNCHANGED <<stage, permits, sessions, stalled, stalls, evicting, events, tick, ghosts,
                 broadcasts>>

-----------------------------------------------------------------------------
(* The tick thread.                                                        *)

ProjectAlways(p) == host' = Append(host, p)
\* enqueue_host: a full queue loses the command.
Project(p) == host' = IF Len(host) < HostCapacity THEN Append(host, p) ELSE host

\* The name plays already, its file cannot be read, or the authority has no slot left; all
\* of them count the player on the machine itself.
Rejects(c) == \/ \E p \in players : Name[p] = Name[c]
              \/ Name[c] \in unreadable
              \/ Cardinality(players) >= MaxPlayers

\* handle_join: the player file is read, or the login is rejected.
HandleJoined ==
  /\ events # << >> /\ Head(events).kind = "joined"
  /\ events' = Tail(events)
  /\ LET c == Head(events).id
     IN  IF Rejects(c)
         THEN Project(Disconnect(c)) /\ UNCHANGED <<players, data>>
         ELSE /\ players' = players \union {c}
              /\ data' = [data EXCEPT ![c] = file[Name[c]]]
              /\ UNCHANGED host
  /\ UNCHANGED <<network, evictions, file, unreadable, progress, unsaved, saveFailures, spoils,
                 ghosts, broadcasts>>

SavedTooLate(c) == FALSE
\* save_player finds the name of the player with the authority.
SavedOnLeave(c) == c \in players

\* handle_leave: the player is saved while the authority still knows its name.
HandleLeft ==
  /\ events # << >> /\ Head(events).kind = "left"
  /\ events' = Tail(events)
  /\ LET c == Head(events).id
     IN  /\ players' = players \ {c}
         /\ \/ /\ file' = IF SavedOnLeave(c) THEN [file EXCEPT ![Name[c]] = data[c]] ELSE file
               /\ unreadable' = IF SavedOnLeave(c) THEN unreadable \ {Name[c]} ELSE unreadable
               /\ UNCHANGED <<unsaved, saveFailures>>
            \/ /\ c \in players /\ saveFailures < MaxSaveFailures
               /\ saveFailures' = saveFailures + 1
               /\ unsaved' = unsaved \union {Name[c]}
               /\ UNCHANGED <<file, unreadable>>
  /\ UNCHANGED <<network, evictions, host, data, progress, spoils, ghosts, broadcasts>>

\* The player gets on in the game.
Play(c) ==
  /\ c \in players /\ data[c] < MaxProgress
  /\ data' = [data EXCEPT ![c] = @ + 1]
  /\ progress' = [progress EXCEPT ![Name[c]] = IF @ > data[c] THEN @ ELSE data[c] + 1]
  /\ UNCHANGED <<network, evictions, events, host, players, file, unreadable, unsaved,
                 saveFailures, spoils, ghosts, broadcasts>>

\* The disk fails, or the file is of another version: load_dedicated_player returns Err.
Spoil(n) ==
  /\ n \notin unreadable /\ spoils < MaxSpoils
  /\ unreadable' = unreadable \union {n} /\ spoils' = spoils + 1
  /\ UNCHANGED <<network, evictions, events, host, players, data, file, progress, unsaved,
                 saveFailures, ghosts, broadcasts>>

\* It can be read again.
Mend(n) ==
  /\ n \in unreadable /\ unreadable' = unreadable \ {n}
  /\ UNCHANGED <<network, evictions, events, host, players, data, file, progress, unsaved,
                 saveFailures, spoils, ghosts, broadcasts>>

\* Chat, time, block changes: a packet for every session.
Say ==
  /\ broadcasts < MaxBroadcasts /\ broadcasts' = broadcasts + 1
  /\ Project(Broadcast)
  /\ UNCHANGED <<network, evictions, events, tick, ghosts>>

-----------------------------------------------------------------------------

Entering(c) == Check(c) \/ Reserve(c) \/ Refuse(c) \/ Welcome(c) \/ QueueRoster(c)
                 \/ Join(c) \/ Abandon(c)
Evict(t) == TakeOut(t) \/ TellHost(t) \/ Announce(t)
Tick == HandleJoined \/ HandleLeft

Next ==
  \/ \E c \in Connections : Accept(c) \/ Entering(c) \/ Leave(c) \/ Play(c)
                            \/ Stall(c) \/ Recover(c)
  \/ \E t \in Tasks : Evict(t)
  \/ Command
  \/ Tick
  \/ Say
  \/ \E c \in Connections : Spoil(Name[c]) \/ Mend(Name[c])

Spec == Init /\ [][Next]_vars

-----------------------------------------------------------------------------
(* Properties                                                              *)

Stages == {"new", "handshake", "checked", "reserved", "roster", "joining", "online",
           "leaving", "closed"}

\* Every variable has its type, and the queues their bounds.
TypeOK ==
  /\ stage \in [Connections -> Stages]
  /\ permits \in 0 .. 2 * MaxPlayers
  /\ sessions \subseteq Connections /\ stalled \subseteq Connections
  /\ pending \in [Tasks -> SUBSET Connections]
  /\ evicting \in [Tasks -> [who : Tasks, next : {"idle", "tell", "announce"}]]
  /\ Len(events) <= EventCapacity /\ Len(host) <= HostCapacity
  /\ players \subseteq Connections \union Hosts /\ unreadable \subseteq Names
  /\ data \in [Connections -> 0 .. MaxProgress]
  /\ file \in [Names -> 0 .. MaxProgress] /\ progress \in [Names -> 0 .. MaxProgress]
  /\ ghosts \subseteq Connections /\ unsaved \subseteq Names

\* Two handshakes at once neither share a name nor overfill the server.
SlotsReserved ==
  /\ Cardinality(sessions) <= MaxPlayers
  /\ \A c, d \in sessions : Name[c] = Name[d] => c = d

\* Whoever the authority takes for a player has a session, or its departure is under way
\* -- unless its ClientLeft was lost at the full queue, or overtook its ClientJoined.  Who
\* plays on the machine itself needs no session.
Departing(c) == \/ \E t \in Tasks : evicting[t] = [who |-> c, next |-> "tell"]
                \/ \E i \in DOMAIN events : events[i] = Left(c)
PlayersArePresent == \A c \in players \ (Hosts \union sessions \union ghosts) : Departing(c)

\* The authority rejects a login that the session table let in for a reason: its file cannot
\* be read, the newcomer has gone again, or its name or the last slot is held by a ghost, by
\* one whose departure the authority has yet to hear of, or by the player on the machine
\* itself -- the slot only when the table is full.
Gone(p) == p \in ghosts \/ Departing(p)
Explained(c) ==
  \/ Name[c] \in unreadable
  \/ Gone(c)
  \/ \E p \in players : Name[p] = Name[c] /\ (p \in Hosts \/ Gone(p))
  \/ Cardinality(players) >= MaxPlayers /\ \E p \in players : Gone(p)
  \/ players \intersect Hosts # {} /\ Cardinality(sessions) = MaxPlayers
RejectionsExplained ==
  [][ \A c \in Connections :
        HandleJoined /\ c = Head(events).id /\ Rejects(c) => Explained(c) ]_vars

\* No matter how a player leaves and who comes in its place: what it had achieved is in
\* the file when the next session of that name may read it, unless that file could not be
\* written.
ProgressKept ==
  \A n \in Names :
    n \notin unsaved /\ (\A c \in players \ Hosts : Name[c] # n) => file[n] = progress[n]

\* "full_reliable_queue_evicts_slow_client_without_ghost_session" (server_tests.rs): no
\* player stays behind whose session is gone.
NoGhost == \A c \in players \ (Hosts \union sessions) : Departing(c)

\* The first packet a client is sent is the answer to its handshake: nobody broadcasts to a
\* session that is in the table and not yet welcomed.
Broadcasting == \/ \E t \in Tasks : Announce(t)
                \/ Command /\ Head(host).kind = "broadcast"
LoginComesFirst ==
  [][ Broadcasting => \A c \in sessions : stage[c] # "reserved" \/ c \in stalled ]_vars
=============================================================================
