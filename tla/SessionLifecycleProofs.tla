------------------------- MODULE SessionLifecycleProofs -------------------------
(***************************************************************************)
(* For any connections, names, slots and queue lengths: slots are never    *)
(* oversubscribed, nobody plays whose departure is not known, under way or *)
(* lost, no login is rejected without a reason, and what a player has      *)
(* achieved is in its file when the next of its name may read it.          *)
(***************************************************************************)
EXTENDS SessionLifecycle, TLAPS, FiniteSetTheorems, SequenceTheorems

News == [kind : {"joined", "left"}, id : Connections]

\* The part of the types the argument needs.
Types ==
  /\ stage \in [Connections -> Stages]
  /\ sessions \subseteq Connections /\ IsFiniteSet(sessions)
  /\ pending \in [Tasks -> SUBSET Connections]
  /\ evicting \in [Tasks -> {Nobody} \union [who : Connections, next : {"tell", "announce"}]]
  /\ events \in Seq(News)
  /\ players \subseteq Connections \union Hosts

\* One player at most is on the machine itself: nobody joins or leaves there.
OneHost == \A g, h \in players \intersect Hosts : g = h

\* Somebody is about to tell the tick thread that c has left.
Telling(c) == \E t \in Tasks : evicting[t] = [who |-> c, next |-> "tell"]
Accounted(c) == c \in sessions \union ghosts \/ Telling(c)

\* On its way in, a connection is accounted for: whoever evicts it now makes it a ghost.
OnTheWay == {"reserved", "roster", "joining"}
WayIn == \A c \in Connections : stage[c] \in OnTheWay => Accounted(c)

\* The authority hears of a client only when the way in is over ...
JoinedAt(c, i) == i \in DOMAIN events /\ events[i] = Joined(c)
AfterJoin ==
  \A c \in Connections :
    c \in players \/ (\E i \in DOMAIN events : JoinedAt(c, i)) => stage[c] \in {"online", "leaving"}

\* ... once ...
Once ==
  \A c \in Connections : \A i \in DOMAIN events :
    JoinedAt(c, i) => c \notin players /\ \A j \in DOMAIN events : JoinedAt(c, j) => i = j

\* ... and of its departure after that.
LeavesAfter ==
  \A c \in Connections : \A i \in DOMAIN events :
    JoinedAt(c, i) => \/ Accounted(c)
                      \/ \E j \in DOMAIN events : i < j /\ events[j] = Left(c)

Inv ==
  /\ Types /\ OneHost /\ SlotsReserved /\ PlayersArePresent
  /\ WayIn /\ AfterJoin /\ Once /\ LeavesAfter

-----------------------------------------------------------------------------

LEMMA InitInv == Init => Inv
  <1> SUFFICES ASSUME Init PROVE Inv
    OBVIOUS
  <1> USE SessionLifecycleAssumption DEF Init
  <1>1. Types
    <2>1. IsFiniteSet({}) /\ << >> \in Seq(News)
      BY FS_EmptySet, EmptySeq
    <2>2. QED
      BY <2>1 DEF Types, Stages
  <1>2. SlotsReserved
    BY FS_EmptySet DEF SlotsReserved
  <1>3. OneHost /\ PlayersArePresent /\ WayIn /\ AfterJoin /\ Once /\ LeavesAfter
    BY DEF OneHost, PlayersArePresent, WayIn, AfterJoin, Once, LeavesAfter, JoinedAt, OnTheWay
  <1>4. QED
    BY <1>1, <1>2, <1>3 DEF Inv

\* A step that touches neither the table, nor the players, nor the news, and tells as many.
LEMMA Elsewhere ==
  ASSUME Inv,
         stage' \in [Connections -> Stages],
         \A c \in Connections : stage'[c] \in OnTheWay => stage[c] \in OnTheWay,
         \A c \in Connections : stage[c] \in {"online", "leaving"} => stage'[c] \in {"online", "leaving"},
         UNCHANGED <<sessions, events, players, ghosts>>,
         pending' \in [Tasks -> SUBSET Connections],
         evicting' \in [Tasks -> {Nobody} \union [who : Connections, next : {"tell", "announce"}]],
         \A c \in Connections : Telling(c) => Telling(c)'
  PROVE  Inv'
  <1>1. Types'
    BY DEF Inv, Types
  <1>2. OneHost' /\ SlotsReserved'
    BY DEF Inv, OneHost, SlotsReserved
  <1>3. \A c \in Connections : Accounted(c) => Accounted(c)'
    BY DEF Accounted
  <1>4. \A c \in Connections : Departing(c) => Departing(c)'
    BY DEF Departing, Telling
  <1>5. PlayersArePresent'
    BY <1>4 DEF Inv, Types, PlayersArePresent
  <1>6. WayIn'
    BY <1>3 DEF Inv, WayIn
  <1>7. AfterJoin' /\ Once' /\ LeavesAfter'
    BY <1>3 DEF Inv, AfterJoin, Once, LeavesAfter, JoinedAt
  <1>8. QED
    BY <1>1, <1>2, <1>5, <1>6, <1>7 DEF Inv

(* The queue of news.                                                      *)

LEMMA NewsAppended ==
  ASSUME Types, NEW x \in News, events' = Append(events, x)
  PROVE  /\ events' \in Seq(News)
         /\ Len(events) \in Nat /\ DOMAIN events = 1 .. Len(events)
         /\ DOMAIN events' = 1 .. Len(events) + 1
         /\ \A i \in DOMAIN events : events'[i] = events[i]
         /\ events'[Len(events) + 1] = x
  <1>1. events \in Seq(News)
    BY DEF Types
  <1>2. /\ Append(events, x) \in Seq(News) /\ Len(Append(events, x)) = Len(events) + 1
        /\ \A i \in 1 .. Len(events) : Append(events, x)[i] = events[i]
        /\ Append(events, x)[Len(events) + 1] = x
    BY <1>1, AppendProperties
  <1>3. DOMAIN Append(events, x) = 1 .. Len(events) + 1
    BY <1>2, LenProperties
  <1>4. Len(events) \in Nat /\ DOMAIN events = 1 .. Len(events)
    BY <1>1, LenProperties
  <1>5. QED
    BY <1>2, <1>3, <1>4

LEMMA NewsTaken ==
  ASSUME Types, events # << >>, events' = Tail(events)
  PROVE  /\ Head(events) \in News /\ Head(events) = events[1]
         /\ events' \in Seq(News)
         /\ Len(events) \in Nat \ {0} /\ DOMAIN events = 1 .. Len(events)
         /\ DOMAIN events' = 1 .. Len(events) - 1
         /\ \A i \in DOMAIN events' : events'[i] = events[i + 1]
  <1>1. events \in Seq(News)
    BY DEF Types
  <1>2. /\ Head(events) \in News /\ Tail(events) \in Seq(News)
        /\ Len(Tail(events)) = Len(events) - 1
        /\ \A i \in 1 .. Len(Tail(events)) : Tail(events)[i] = events[i + 1]
    BY <1>1, HeadTailProperties
  <1>3. DOMAIN Tail(events) = 1 .. Len(events) - 1
    BY <1>2, LenProperties
  <1>4. Len(events) \in Nat /\ DOMAIN events = 1 .. Len(events)
    BY <1>1, LenProperties
  <1>5. Len(events) # 0
    BY <1>1, EmptySeq, SeqEqual, <1>4
  <1>6. Head(events) = events[1]
    BY <1>1
  <1>7. QED
    BY <1>2, <1>3, <1>4, <1>5, <1>6

-----------------------------------------------------------------------------
(* The network thread.                                                     *)

\* Those that neither enter the table nor leave it.
LEMMA WaitingInv ==
  ASSUME Inv, NEW c \in Connections,
         \/ Accept(c) \/ Refuse(c) \/ Check(c) \/ Welcome(c) \/ QueueRoster(c)
         \/ Leave(c) \/ Stall(c) \/ Recover(c)
  PROVE  Inv'
  <1>1. Types
    BY DEF Inv
  <1> USE <1>1 DEF Goes, network, evictions, tick
  <1>2. UNCHANGED <<sessions, events, players, ghosts, evicting>>
    BY DEF Accept, Acquire, Refuse, Check, Welcome, QueueRoster, Leave, Stall, Recover
  <1>3. pending' \in [Tasks -> SUBSET Connections]
    BY DEF Types, Accept, Acquire, Refuse, Check, Welcome, QueueRoster, Leave, Stall, Recover, Tasks
  <1>4. /\ stage' \in [Connections -> Stages]
        /\ \A d \in Connections : stage'[d] \in OnTheWay => stage[d] \in OnTheWay
        /\ \A d \in Connections :
             stage[d] \in {"online", "leaving"} => stage'[d] \in {"online", "leaving"}
    <2>1. \/ UNCHANGED stage
          \/ \E from \in {"new", "handshake", "checked"} :
               Goes(c, from, "handshake") \/ Goes(c, from, "checked") \/ Goes(c, from, "closed")
          \/ Goes(c, "reserved", "roster") \/ Goes(c, "roster", "joining")
          \/ Goes(c, "online", "leaving")
      BY DEF Accept, Acquire, Refuse, Check, Welcome, QueueRoster, Leave, Stall, Recover
    <2>2. QED
      BY <2>1 DEF Types, OnTheWay, Stages
  <1>5. \A d \in Connections : Telling(d) => Telling(d)'
    BY <1>2 DEF Telling
  <1>6. evicting' \in [Tasks -> {Nobody} \union [who : Connections, next : {"tell", "announce"}]]
    BY <1>2 DEF Types
  <1>7. QED
    BY <1>2, <1>3, <1>4, <1>5, <1>6, Elsewhere

\* The check and the reservation are one step: nobody comes between.
LEMMA ReserveInv ==
  ASSUME Inv, NEW c \in Connections, Reserve(c)
  PROVE  Inv'
  <1> USE DEF Goes, evictions, tick
  <1>1. /\ sessions' = sessions \union {c} /\ Admits(c) /\ stage[c] = "checked"
        /\ stage' = [stage EXCEPT ![c] = "reserved"]
        /\ UNCHANGED <<pending, evicting, events, players, ghosts>>
    BY DEF Reserve
  <1>2. Types' /\ OneHost'
    BY <1>1, FS_AddElement DEF Inv, Types, Stages, OneHost
  <1>3. SlotsReserved'
    <2>1. Cardinality(sessions \union {c}) <= MaxPlayers
      <3>1. Cardinality(sessions \union {c}) =
              IF c \in sessions THEN Cardinality(sessions) ELSE Cardinality(sessions) + 1
        BY FS_AddElement DEF Inv, Types
      <3>2. Cardinality(sessions) \in Nat /\ Cardinality(sessions) < MaxPlayers
        BY <1>1, FS_CardinalityType DEF Inv, Types, Admits
      <3>3. QED
        BY <3>1, <3>2, SessionLifecycleAssumption
    <2>2. \A d \in sessions : Name[d] # Name[c]
      BY <1>1 DEF Admits, NameTaken
    <2>3. QED
      BY <1>1, <2>1, <2>2 DEF Inv, SlotsReserved
  <1>4. \A d \in Connections : (Accounted(d) => Accounted(d)') /\ (d = c => Accounted(d)')
    BY <1>1 DEF Accounted, Telling
  <1>5. PlayersArePresent'
    BY <1>1 DEF Inv, PlayersArePresent, Departing
  <1>6. WayIn'
    BY <1>1, <1>4 DEF Inv, Types, WayIn, OnTheWay
  <1>7. AfterJoin' /\ Once' /\ LeavesAfter'
    BY <1>1, <1>4 DEF Inv, Types, AfterJoin, Once, LeavesAfter, JoinedAt
  <1>8. QED
    BY <1>2, <1>3, <1>5, <1>6, <1>7 DEF Inv

LEMMA JoinInv ==
  ASSUME Inv, NEW c \in Connections, Join(c)
  PROVE  Inv'
  <1> USE DEF Goes, evictions, tick
  <1>1. /\ events' = Append(events, Joined(c)) /\ stage[c] = "joining"
        /\ stage' = [stage EXCEPT ![c] = "online"]
        /\ UNCHANGED <<sessions, pending, evicting, players, ghosts>>
    BY DEF Join
  <1>2. Joined(c) \in News
    BY DEF News, Joined
  <1>3. /\ events' \in Seq(News)
        /\ Len(events) \in Nat /\ DOMAIN events = 1 .. Len(events)
        /\ DOMAIN events' = 1 .. Len(events) + 1
        /\ \A i \in DOMAIN events : events'[i] = events[i]
        /\ events'[Len(events) + 1] = Joined(c)
    BY <1>1, <1>2, NewsAppended DEF Inv
  <1>4. Types' /\ OneHost'
    BY <1>1, <1>3 DEF Inv, Types, Stages, OneHost
  <1>5. SlotsReserved'
    BY <1>1 DEF Inv, SlotsReserved
  <1>6. \A d \in Connections : Accounted(d) => Accounted(d)'
    BY <1>1 DEF Accounted, Telling
  <1>7. Accounted(c)
    BY <1>1 DEF Inv, WayIn, OnTheWay
  <1>8. PlayersArePresent'
    BY <1>1, <1>3 DEF Inv, PlayersArePresent, Departing
  <1>9. WayIn'
    BY <1>1, <1>6 DEF Inv, Types, WayIn, OnTheWay
  <1>10. c \notin players /\ \A i \in DOMAIN events : events[i] # Joined(c)
    BY <1>1 DEF Inv, AfterJoin, JoinedAt
  <1>11. \A d \in Connections : \A i \in DOMAIN events' :
           JoinedAt(d, i)' => (i \in DOMAIN events /\ JoinedAt(d, i)) \/ (d = c /\ i = Len(events) + 1)
    BY <1>3 DEF JoinedAt, Joined
  <1>12. AfterJoin'
    BY <1>1, <1>11 DEF Inv, Types, AfterJoin, JoinedAt
  <1>13. Once'
    BY <1>1, <1>10, <1>11 DEF Inv, Once, JoinedAt
  <1>14. LeavesAfter'
    BY <1>3, <1>6, <1>7, <1>11 DEF Inv, LeavesAfter
  <1>15. QED
    BY <1>4, <1>5, <1>8, <1>9, <1>12, <1>13, <1>14 DEF Inv

\* The authority has not heard of who gives up on the way in.
LEMMA AbandonInv ==
  ASSUME Inv, NEW c \in Connections, Abandon(c)
  PROVE  Inv'
  <1> USE DEF Goes, evictions, tick
  <1>1. /\ sessions' = sessions \ {c} /\ stage[c] \in OnTheWay
        /\ stage' = [stage EXCEPT ![c] = "closed"]
        /\ UNCHANGED <<pending, evicting, events, players, ghosts>>
    BY DEF Abandon, OnTheWay
  <1>2. Types' /\ OneHost'
    BY <1>1, FS_RemoveElement DEF Inv, Types, Stages, OneHost
  <1>3. SlotsReserved'
    <2>1. Cardinality(sessions \ {c}) <= Cardinality(sessions) /\ Cardinality(sessions) \in Nat
          /\ Cardinality(sessions \ {c}) \in Nat
      BY FS_RemoveElement, FS_Subset, FS_CardinalityType DEF Inv, Types
    <2>2. QED
      BY <1>1, <2>1, SessionLifecycleAssumption DEF Inv, SlotsReserved
  <1>4. c \notin players /\ \A i \in DOMAIN events : ~JoinedAt(c, i)
    BY <1>1 DEF Inv, AfterJoin, OnTheWay
  <1>5. \A d \in Connections \ {c} : Accounted(d) => Accounted(d)'
    BY <1>1 DEF Accounted, Telling
  <1>6. PlayersArePresent'
    BY <1>1, <1>4 DEF Inv, PlayersArePresent, Departing
  <1>7. WayIn'
    BY <1>1, <1>5 DEF Inv, Types, WayIn, OnTheWay
  <1>8. AfterJoin' /\ Once' /\ LeavesAfter'
    BY <1>1, <1>4, <1>5 DEF Inv, Types, AfterJoin, Once, LeavesAfter, JoinedAt, OnTheWay
  <1>9. QED
    BY <1>2, <1>3, <1>6, <1>7, <1>8 DEF Inv

-----------------------------------------------------------------------------
(* Eviction, in whatever task runs it.                                     *)

\* Whoever takes a session out of the table is about to tell.
LEMMA TakeOutInv ==
  ASSUME Inv, NEW t \in Tasks, TakeOut(t)
  PROVE  Inv'
  <1>1. PICK c \in pending[t] :
          /\ evicting[t] = Nobody
          /\ pending' = [pending EXCEPT ![t] = @ \ {c}]
          /\ sessions' = sessions \ {c}
          /\ evicting' = [evicting EXCEPT ![t] =
               IF c \in sessions THEN [who |-> c, next |-> "tell"] ELSE Nobody]
    BY DEF TakeOut
  <1>2. UNCHANGED <<stage, events, players, ghosts>>
    BY DEF TakeOut, tick
  <1>3. Types' /\ OneHost'
    BY <1>1, <1>2, FS_RemoveElement DEF Inv, Types, OneHost
  <1>4. SlotsReserved'
    <2>1. Cardinality(sessions \ {c}) <= Cardinality(sessions) /\ Cardinality(sessions) \in Nat
          /\ Cardinality(sessions \ {c}) \in Nat
      BY FS_RemoveElement, FS_Subset, FS_CardinalityType DEF Inv, Types
    <2>2. QED
      BY <1>1, <2>1, SessionLifecycleAssumption DEF Inv, SlotsReserved
  <1>5. \A d \in Connections : Telling(d) => Telling(d)'
    <2>1. \A d \in Connections : Nobody # [who |-> d, next |-> "tell"]
      BY DEF Nobody
    <2>2. QED
      BY <1>1, <2>1 DEF Inv, Types, Telling
  <1>6. \A d \in sessions \ sessions' : Telling(d)'
    BY <1>1 DEF Inv, Types, Telling
  <1>7. \A d \in Connections : Accounted(d) => Accounted(d)'
    BY <1>2, <1>5, <1>6 DEF Accounted
  <1>8. PlayersArePresent'
    BY <1>2, <1>5, <1>6 DEF Inv, Types, PlayersArePresent, Departing, Telling
  <1>9. WayIn' /\ AfterJoin' /\ Once' /\ LeavesAfter'
    BY <1>2, <1>7 DEF Inv, WayIn, AfterJoin, Once, LeavesAfter, JoinedAt
  <1>10. QED
    BY <1>3, <1>4, <1>8, <1>9 DEF Inv

\* Told or lost: a client is a ghost when the queue is full, or when it has yet to join.
LEMMA TellHostInv ==
  ASSUME Inv, NEW t \in Tasks, TellHost(t)
  PROVE  Inv'
  <1>1. PICK c \in Connections, full \in BOOLEAN :
          /\ evicting[t] = [who |-> c, next |-> "tell"]
          /\ evicting' = [evicting EXCEPT ![t].next = "announce"]
          /\ events' = IF full THEN events ELSE Append(events, Left(c))
          /\ ghosts' = IF ~full /\ stage[c] \notin OnTheWay THEN ghosts ELSE ghosts \union {c}
    <2>1. evicting[t] \in {Nobody} \union [who : Connections, next : {"tell", "announce"}]
      BY DEF Inv, Types
    <2>2. evicting[t].next = "tell" /\ evicting[t] # Nobody
      BY DEF TellHost, Nobody
    <2>3. PICK c \in Connections : evicting[t] = [who |-> c, next |-> "tell"]
      BY <2>1, <2>2
    <2>4. evicting[t].who = c
      BY <2>3
    <2>5. CASE Len(events) < EventCapacity
      BY <2>3, <2>4, <2>5 DEF TellHost, OnTheWay
    <2>6. CASE ~(Len(events) < EventCapacity)
      BY <2>3, <2>4, <2>6 DEF TellHost, OnTheWay
    <2>7. QED
      BY <2>5, <2>6
  <1>2. UNCHANGED <<stage, sessions, pending, players>>
    BY DEF TellHost, network, tick
  <1>3. Left(c) \in News
    BY DEF News, Left
  <1>4. /\ Len(events) \in Nat /\ DOMAIN events = 1 .. Len(events)
        /\ events' \in Seq(News)
        /\ DOMAIN events \subseteq DOMAIN events'
        /\ \A i \in DOMAIN events : events'[i] = events[i]
        /\ \A i \in DOMAIN events' \ DOMAIN events : events'[i] = Left(c)
        /\ ~full => Len(events) + 1 \in DOMAIN events' /\ events'[Len(events) + 1] = Left(c)
    <2>1. Len(events) \in Nat /\ DOMAIN events = 1 .. Len(events) /\ events \in Seq(News)
      BY LenProperties DEF Inv, Types
    <2>2. CASE full
      BY <1>1, <2>1, <2>2
    <2>3. CASE ~full
      <3>1. events' = Append(events, Left(c))
        BY <1>1, <2>3
      <3>2. /\ events' \in Seq(News) /\ DOMAIN events' = 1 .. Len(events) + 1
            /\ \A i \in DOMAIN events : events'[i] = events[i]
            /\ events'[Len(events) + 1] = Left(c)
        BY <1>3, <3>1, NewsAppended DEF Inv
      <3>3. QED
        BY <2>1, <3>2
    <2>4. QED
      BY <2>2, <2>3
  <1>5. evicting' \in [Tasks -> {Nobody} \union [who : Connections, next : {"tell", "announce"}]]
    BY <1>1 DEF Inv, Types
  <1>6. \A d \in Connections \ {c} : Telling(d) => Telling(d)'
    BY <1>1 DEF Inv, Types, Telling
  <1>7. Types' /\ OneHost'
    BY <1>1, <1>2, <1>4, <1>5 DEF Inv, Types, OneHost
  <1>8. SlotsReserved'
    BY <1>1, <1>2 DEF Inv, SlotsReserved
  <1>9. \A d \in Connections \ {c} : Accounted(d) => Accounted(d)'
    BY <1>1, <1>2, <1>6 DEF Accounted
  <1>10. c \in ghosts' \/ (\E j \in DOMAIN events' : j \notin DOMAIN events /\ events'[j] = Left(c))
    BY <1>1, <1>4
  <1>11. \A d \in Connections \ {c} : Departing(d) => Departing(d)'
    BY <1>4, <1>6 DEF Departing, Telling
  <1>12. PlayersArePresent'
    BY <1>1, <1>2, <1>10, <1>11 DEF Inv, Types, PlayersArePresent, Departing
  <1>13. WayIn'
    <2>1. stage[c] \in OnTheWay => Accounted(c)'
      BY <1>1 DEF Accounted
    <2>2. QED
      BY <1>2, <1>9, <2>1 DEF Inv, WayIn
  <1>14. \A d \in Connections : \A i \in DOMAIN events' :
           JoinedAt(d, i)' => i \in DOMAIN events /\ JoinedAt(d, i)
    BY <1>4 DEF JoinedAt, Joined, Left
  <1>15. AfterJoin' /\ Once'
    BY <1>1, <1>2, <1>14 DEF Inv, AfterJoin, Once, JoinedAt
  <1>16. LeavesAfter'
    <2> SUFFICES ASSUME NEW d \in Connections, NEW i \in DOMAIN events', JoinedAt(d, i)'
                 PROVE  Accounted(d)' \/ \E j \in DOMAIN events' : i < j /\ events'[j] = Left(d)
      BY DEF LeavesAfter
    <2>1. i \in DOMAIN events /\ JoinedAt(d, i)
      BY <1>14
    <2>2. CASE d = c
      <3>1. CASE c \in ghosts'
        BY <2>2, <3>1 DEF Accounted
      <3>2. CASE \E j \in DOMAIN events' : j \notin DOMAIN events /\ events'[j] = Left(c)
        <4>1. PICK j \in DOMAIN events' : j \notin DOMAIN events /\ events'[j] = Left(c)
          BY <3>2
        <4>2. j \in Nat /\ j >= 1
          BY <1>4, LenProperties
        <4>3. i < j
          BY <1>4, <2>1, <4>1, <4>2
        <4>4. QED
          BY <2>2, <4>1, <4>3
      <3>3. QED
        BY <1>10, <3>1, <3>2
    <2>3. CASE d # c
      <3>1. Accounted(d) \/ \E j \in DOMAIN events : i < j /\ events[j] = Left(d)
        BY <2>1 DEF Inv, LeavesAfter
      <3>2. QED
        BY <1>4, <1>9, <2>3, <3>1
    <2>4. QED
      BY <2>2, <2>3
  <1>17. QED
    BY <1>7, <1>8, <1>12, <1>13, <1>15, <1>16 DEF Inv

\* Announcements, commands, and what players, the world and the disk do.
LEMMA QuietInv ==
  ASSUME Inv,
         \/ \E t \in Tasks : Announce(t)
         \/ Command \/ Say
         \/ \E c \in Connections : Play(c) \/ Spoil(Name[c]) \/ Mend(Name[c])
  PROVE  Inv'
  <1> USE DEF network, evictions, tick, Project, BroadcastReliably
  <1>1. UNCHANGED <<stage, sessions, events, players, ghosts>>
    BY DEF Announce, Command, Say, Play, Spoil, Mend
  <1>2. Inv => Types
    BY DEF Inv
  <1>3. pending' \in [Tasks -> SUBSET Connections]
    <2>1. CASE \E t \in Tasks : Announce(t)
      BY <1>2, <2>1 DEF Announce, Types
    <2>2. CASE Command
      BY <1>2, <2>2 DEF Command, Types, Tasks
    <2>3. CASE Say \/ \E c \in Connections : Play(c) \/ Spoil(Name[c]) \/ Mend(Name[c])
      BY <1>2, <2>3 DEF Say, Play, Spoil, Mend, Types
    <2>4. QED
      BY <2>1, <2>2, <2>3
  <1>4. /\ evicting' \in [Tasks -> {Nobody} \union [who : Connections, next : {"tell", "announce"}]]
        /\ \A c \in Connections : Telling(c) => Telling(c)'
    <2>1. CASE \E t \in Tasks : Announce(t)
      <3>1. PICK t \in Tasks : evicting[t].next = "announce"
                               /\ evicting' = [evicting EXCEPT ![t] = Nobody]
        BY <2>1 DEF Announce
      <3>2. \A c \in Connections : evicting[t] # [who |-> c, next |-> "tell"]
        BY <3>1
      <3>3. QED
        BY <1>2, <3>1, <3>2 DEF Types, Telling
    <2>2. CASE Command \/ Say \/ \E c \in Connections : Play(c) \/ Spoil(Name[c]) \/ Mend(Name[c])
      <3>1. UNCHANGED evicting
        BY <2>2 DEF Command, Say, Play, Spoil, Mend
      <3>2. QED
        BY <1>2, <3>1 DEF Types, Telling
    <2>3. QED
      BY <2>1, <2>2
  <1>5. QED
    BY <1>1, <1>2, <1>3, <1>4, Elsewhere DEF Types

-----------------------------------------------------------------------------
(* The tick thread.                                                        *)

LEMMA HeadlineIs ==
  ASSUME Types, events # << >>
  PROVE  /\ Head(events).id \in Connections
         /\ Head(events).kind = "joined" => Head(events) = Joined(Head(events).id)
         /\ Head(events).kind = "left" => Head(events) = Left(Head(events).id)
  <1>1. Head(events) \in News
    BY HeadTailProperties DEF Types
  <1>2. QED
    BY <1>1 DEF News, Joined, Left

\* Taking the news from the queue loses a departure only for the one it is about.
LEMMA NewsHandled ==
  ASSUME Inv, events # << >>, events' = Tail(events),
         UNCHANGED <<stage, sessions, pending, evicting, ghosts>>,
         NEW c \in Connections, Head(events) \in {Joined(c), Left(c)}
  PROVE  /\ events' \in Seq(News)
         /\ \A d \in Connections : Accounted(d) => Accounted(d)'
         /\ \A d \in Connections : \A i \in DOMAIN events' :
              JoinedAt(d, i)' => /\ i + 1 \in DOMAIN events /\ JoinedAt(d, i + 1)
                                 /\ i \in Nat
         /\ \A d \in Connections : \A i \in DOMAIN events' : \A j \in DOMAIN events :
              i + 1 < j /\ events[j] = Left(d) =>
                j - 1 \in DOMAIN events' /\ i < j - 1 /\ events'[j - 1] = Left(d)
         /\ \A d \in Connections :
              Departing(d) => Departing(d)' \/ (d = c /\ Head(events) = Left(c))
         /\ WayIn' /\ LeavesAfter' /\ SlotsReserved'
  <1>1. /\ Head(events) \in News /\ Head(events) = events[1]
        /\ events' \in Seq(News)
        /\ Len(events) \in Nat \ {0} /\ DOMAIN events = 1 .. Len(events)
        /\ DOMAIN events' = 1 .. Len(events) - 1
        /\ \A i \in DOMAIN events' : events'[i] = events[i + 1]
    BY NewsTaken DEF Inv
  <1>2. \A d \in Connections : Accounted(d) => Accounted(d)'
    BY DEF Accounted, Telling
  <1>3. \A d \in Connections : \A i \in DOMAIN events' :
          JoinedAt(d, i)' => /\ i + 1 \in DOMAIN events /\ JoinedAt(d, i + 1)
                             /\ i \in Nat
    BY <1>1 DEF JoinedAt
  <1>4. \A d \in Connections : \A i \in DOMAIN events' : \A j \in DOMAIN events :
          i + 1 < j /\ events[j] = Left(d) =>
            j - 1 \in DOMAIN events' /\ i < j - 1 /\ events'[j - 1] = Left(d)
    BY <1>1
  <1>5. \A d \in Connections :
          Departing(d) => Departing(d)' \/ (d = c /\ Head(events) = Left(c))
    <2> SUFFICES ASSUME NEW d \in Connections, Departing(d),
                        ~(d = c /\ Head(events) = Left(c))
                 PROVE  Departing(d)'
      OBVIOUS
    <2>1. CASE \E t \in Tasks : evicting[t] = [who |-> d, next |-> "tell"]
      BY <2>1 DEF Departing
    <2>2. CASE \E j \in DOMAIN events : events[j] = Left(d)
      <3>1. PICK j \in DOMAIN events : events[j] = Left(d)
        BY <2>2
      <3>2. j # 1
        BY <1>1, <3>1 DEF Joined, Left
      <3>3. j - 1 \in DOMAIN events' /\ events'[j - 1] = Left(d)
        BY <1>1, <3>1, <3>2
      <3>4. QED
        BY <3>3 DEF Departing
    <2>3. QED
      BY <2>1, <2>2 DEF Departing
  <1>6. WayIn' /\ SlotsReserved'
    BY <1>2 DEF Inv, WayIn, SlotsReserved
  <1>7. LeavesAfter'
    <2> SUFFICES ASSUME NEW d \in Connections, NEW i \in DOMAIN events', JoinedAt(d, i)'
                 PROVE  Accounted(d)' \/ \E j \in DOMAIN events' : i < j /\ events'[j] = Left(d)
      BY DEF LeavesAfter
    <2>1. i + 1 \in DOMAIN events /\ JoinedAt(d, i + 1)
      BY <1>3
    <2>2. Accounted(d) \/ \E j \in DOMAIN events : i + 1 < j /\ events[j] = Left(d)
      BY <2>1 DEF Inv, LeavesAfter
    <2>3. QED
      BY <1>2, <1>4, <2>2
  <1>8. QED
    BY <1>1, <1>2, <1>3, <1>4, <1>5, <1>6, <1>7

LEMMA HandleJoinedInv == ASSUME Inv, HandleJoined PROVE Inv'
  <1>1. PICK c \in Connections : Head(events) = Joined(c) /\ Head(events).id = c
    <2>1. Types /\ events # << >> /\ Head(events).kind = "joined"
      BY DEF HandleJoined, Inv
    <2>2. QED
      BY <2>1, HeadlineIs
  <1>2. /\ events # << >> /\ events' = Tail(events)
        /\ UNCHANGED <<stage, sessions, pending, evicting, ghosts>>
    BY DEF HandleJoined, network, evictions
  <1>3. players' = players \/ players' = players \union {c}
    BY <1>1 DEF HandleJoined
  <1>4. /\ events' \in Seq(News)
        /\ \A d \in Connections : Accounted(d) => Accounted(d)'
        /\ \A d \in Connections : \A i \in DOMAIN events' :
             JoinedAt(d, i)' => i + 1 \in DOMAIN events /\ JoinedAt(d, i + 1) /\ i \in Nat
        /\ \A d \in Connections : Departing(d) => Departing(d)'
        /\ WayIn' /\ LeavesAfter' /\ SlotsReserved'
    <2>1. Head(events) # Left(c)
      BY <1>1 DEF Joined, Left
    <2>2. QED
      BY <1>1, <1>2, <2>1, NewsHandled
  <1>5. 1 \in DOMAIN events /\ JoinedAt(c, 1)
    BY <1>1, <1>2, NewsTaken DEF Inv, JoinedAt
  <1>6. Types' /\ OneHost'
    BY <1>2, <1>3, <1>4, SessionLifecycleAssumption DEF Inv, Types, OneHost
  <1>7. c \in sessions \union ghosts \/ Departing(c)
    BY <1>5 DEF Inv, LeavesAfter, Accounted, Telling, Departing
  <1>8. PlayersArePresent'
    BY <1>2, <1>3, <1>4, <1>7 DEF Inv, Types, PlayersArePresent
  <1>9. AfterJoin'
    BY <1>2, <1>3, <1>4, <1>5 DEF Inv, AfterJoin
  <1>10. Once'
    <2>1. \A i \in DOMAIN events' : ~JoinedAt(c, i)'
      BY <1>4, <1>5 DEF Inv, Once
    <2>2. \A d \in Connections : \A i, j \in DOMAIN events' :
            JoinedAt(d, i)' /\ JoinedAt(d, j)' => d \notin players /\ i = j
      <3> SUFFICES ASSUME NEW d \in Connections, NEW i \in DOMAIN events', NEW j \in DOMAIN events',
                          JoinedAt(d, i)', JoinedAt(d, j)'
                   PROVE  d \notin players /\ i = j
        OBVIOUS
      <3>1. /\ i + 1 \in DOMAIN events /\ JoinedAt(d, i + 1) /\ i \in Nat
            /\ j + 1 \in DOMAIN events /\ JoinedAt(d, j + 1) /\ j \in Nat
        BY <1>4
      <3>2. d \notin players /\ i + 1 = j + 1
        BY <3>1 DEF Inv, Once
      <3>3. QED
        BY <3>1, <3>2
    <2>3. QED
      BY <1>3, <2>1, <2>2 DEF Once
  <1>11. QED
    BY <1>4, <1>6, <1>8, <1>9, <1>10 DEF Inv

LEMMA HandleLeftInv == ASSUME Inv, HandleLeft PROVE Inv'
  <1>1. PICK c \in Connections : Head(events) = Left(c) /\ Head(events).id = c
    <2>1. Types /\ events # << >> /\ Head(events).kind = "left"
      BY DEF HandleLeft, Inv
    <2>2. QED
      BY <2>1, HeadlineIs
  <1>2. /\ events # << >> /\ events' = Tail(events)
        /\ players' = players \ {c}
        /\ UNCHANGED <<stage, sessions, pending, evicting, ghosts>>
    BY <1>1 DEF HandleLeft, network, evictions
  <1>3. /\ events' \in Seq(News)
        /\ \A d \in Connections : \A i \in DOMAIN events' :
             JoinedAt(d, i)' => i + 1 \in DOMAIN events /\ JoinedAt(d, i + 1) /\ i \in Nat
        /\ \A d \in Connections \ {c} : Departing(d) => Departing(d)'
        /\ WayIn' /\ LeavesAfter' /\ SlotsReserved'
    BY <1>1, <1>2, NewsHandled
  <1>4. Types' /\ OneHost'
    BY <1>2, <1>3 DEF Inv, Types, OneHost
  <1>5. PlayersArePresent'
    BY <1>2, <1>3 DEF Inv, Types, PlayersArePresent
  <1>6. AfterJoin'
    BY <1>2, <1>3 DEF Inv, AfterJoin
  <1>7. Once'
    <2> SUFFICES ASSUME NEW d \in Connections, NEW i \in DOMAIN events', NEW j \in DOMAIN events',
                        JoinedAt(d, i)', JoinedAt(d, j)'
                 PROVE  d \notin players' /\ i = j
      BY DEF Once
    <2>1. /\ i + 1 \in DOMAIN events /\ JoinedAt(d, i + 1) /\ i \in Nat
          /\ j + 1 \in DOMAIN events /\ JoinedAt(d, j + 1) /\ j \in Nat
      BY <1>3
    <2>2. d \notin players /\ i + 1 = j + 1
      BY <2>1 DEF Inv, Once
    <2>3. QED
      BY <1>2, <2>1, <2>2
  <1>8. QED
    BY <1>3, <1>4, <1>5, <1>6, <1>7 DEF Inv

-----------------------------------------------------------------------------

LEMMA StepInv == Inv /\ [Next]_vars => Inv'
  <1> SUFFICES ASSUME Inv, [Next]_vars PROVE Inv'
    OBVIOUS
  <1>1. CASE \E c \in Connections : Accept(c) \/ Entering(c) \/ Leave(c) \/ Play(c)
                                    \/ Stall(c) \/ Recover(c)
    BY <1>1, WaitingInv, ReserveInv, JoinInv, AbandonInv, QuietInv DEF Entering
  <1>2. CASE \E t \in Tasks : Evict(t)
    BY <1>2, TakeOutInv, TellHostInv, QuietInv DEF Evict
  <1>3. CASE Command \/ Say
    BY <1>3, QuietInv
  <1>4. CASE Tick
    BY <1>4, HandleJoinedInv, HandleLeftInv DEF Tick
  <1>5. CASE \E c \in Connections : Spoil(Name[c]) \/ Mend(Name[c])
    BY <1>5, QuietInv
  <1>6. CASE UNCHANGED vars
    <2>1. UNCHANGED <<stage, sessions, pending, evicting, events, players, ghosts>>
      BY <1>6 DEF vars, network, evictions, tick
    <2>2. \A c \in Connections : Telling(c) => Telling(c)'
      BY <2>1 DEF Telling
    <2>3. QED
      BY <2>1, <2>2, Elsewhere DEF Inv, Types
  <1>7. QED
    BY <1>1, <1>2, <1>3, <1>4, <1>5, <1>6 DEF Next

LEMMA SpecInv == Spec => []Inv
  BY InitInv, StepInv, PTL DEF Spec

\* Whatever handshakes race and whoever is evicted meanwhile: the session table never
\* holds more clients than there are slots, nor two of one name (reserve in server.rs).
THEOREM SlotsAreReserved == Spec => []SlotsReserved
  <1>1. Inv => SlotsReserved
    BY DEF Inv
  <1>2. QED
    BY <1>1, SpecInv, PTL

\* The authority never keeps a player whose session is gone, but while the departure is
\* on its way, or when it was lost or overtook the arrival (handle_join, handle_leave,
\* remove_client, evict_slow_clients).
THEOREM NoPlayerForgotten == Spec => []PlayersArePresent
  <1>1. Inv => PlayersArePresent
    BY DEF Inv
  <1>2. QED
    BY <1>1, SpecInv, PTL

\* Who passed the session table's check passes the authority's, unless its file cannot be
\* read, or somebody who is gone, or plays on the machine itself, stands in the way
\* (handle_join, register_session_with_limit).
LEMMA RejectionHasReason ==
  ASSUME Inv, NEW c \in Connections, HandleJoined, c = Head(events).id, Rejects(c)
  PROVE  Explained(c)
  <1> SUFFICES ASSUME Name[c] \notin unreadable, ~Gone(c)
               PROVE  Explained(c)
    BY DEF Explained
  <1>1. Head(events) = Joined(c)
    <2>1. Types /\ events # << >> /\ Head(events).kind = "joined"
      BY DEF HandleJoined, Inv
    <2>2. QED
      BY <2>1, HeadlineIs
  <1>2. 1 \in DOMAIN events /\ JoinedAt(c, 1)
    <2>1. events # << >> /\ events' = Tail(events)
      BY DEF HandleJoined
    <2>2. QED
      BY <1>1, <2>1, NewsTaken DEF Inv, JoinedAt
  <1>3. c \in sessions /\ c \notin players
    <2>1. c \notin players
      BY <1>2 DEF Inv, Once
    <2>2. Accounted(c) \/ \E j \in DOMAIN events : events[j] = Left(c)
      BY <1>2 DEF Inv, LeavesAfter
    <2>3. c \notin ghosts /\ ~Departing(c)
      BY DEF Gone
    <2>4. QED
      BY <2>1, <2>2, <2>3 DEF Accounted, Telling, Departing
  <1>4. \A p \in players : p \in Hosts \/ p \in sessions \/ Gone(p)
    BY DEF Inv, PlayersArePresent, Gone
  <1>5. CASE \E p \in players : Name[p] = Name[c]
    <2>1. PICK p \in players : Name[p] = Name[c]
      BY <1>5
    <2>2. p \notin sessions
      BY <1>3, <2>1 DEF Inv, SlotsReserved
    <2>3. QED
      BY <1>4, <2>1, <2>2 DEF Explained
  <1>6. CASE Cardinality(players) >= MaxPlayers /\ \A p \in players : ~Gone(p)
    <2> DEFINE visitors == players \ Hosts
    <2>1. visitors \subseteq sessions /\ IsFiniteSet(sessions)
      BY <1>4, <1>6 DEF Inv, Types
    <2>2. /\ IsFiniteSet(visitors)
          /\ Cardinality(visitors) \in Nat /\ Cardinality(sessions) \in Nat
          /\ Cardinality(visitors) + 1 <= Cardinality(sessions)
      <3>1. IsFiniteSet(visitors)
        BY <2>1, FS_Subset
      <3>2. Cardinality(visitors \union {c}) = Cardinality(visitors) + 1
        BY <1>3, <3>1, FS_AddElement
      <3>3. Cardinality(visitors \union {c}) <= Cardinality(sessions)
        BY <1>3, <2>1, FS_Subset
      <3>4. QED
        BY <2>1, <3>1, <3>2, <3>3, FS_CardinalityType
    <2>3. Cardinality(sessions) <= MaxPlayers
      BY DEF Inv, SlotsReserved
    <2>4. PICK h \in players : h \in Hosts
      <3>1. CASE players = visitors
        BY <1>6, <2>2, <2>3, <3>1, SessionLifecycleAssumption
      <3>2. CASE players # visitors
        BY <3>2
      <3>3. QED
        BY <3>1, <3>2
    <2>5. players = visitors \union {h} /\ h \notin visitors
      BY <2>4 DEF Inv, OneHost
    <2>6. Cardinality(players) = Cardinality(visitors) + 1
      BY <2>2, <2>5, FS_AddElement
    <2>7. Cardinality(sessions) = MaxPlayers
      BY <1>6, <2>2, <2>3, <2>6, SessionLifecycleAssumption
    <2>8. QED
      BY <2>4, <2>7 DEF Explained
  <1>7. CASE Cardinality(players) >= MaxPlayers /\ \E p \in players : Gone(p)
    BY <1>7 DEF Explained
  <1>8. QED
    BY <1>5, <1>6, <1>7 DEF Rejects

\* No login is rejected without a reason, and the table's check leaves few: the file, a
\* player who is gone, the one on the machine itself.
THEOREM RejectionsHaveReasons == Spec => RejectionsExplained
  <1>1. Inv => [ \A c \in Connections :
                   HandleJoined /\ c = Head(events).id /\ Rejects(c) => Explained(c) ]_vars
    BY RejectionHasReason
  <1>2. QED
    BY <1>1, SpecInv, PTL DEF RejectionsExplained

-----------------------------------------------------------------------------
(* What a player has achieved.                                             *)

ProgressTypes ==
  /\ data \in [Connections -> Nat] /\ players \subseteq Connections \union Hosts
  /\ file \in [Names -> Nat] /\ progress \in [Names -> Nat]

\* One player to a name; and who plays holds the furthest its name has come, which the file
\* need not hold as long as it plays.
OneOfName == \A c, d \in players : Name[c] = Name[d] => c = d
PlayersHoldProgress ==
  \A c \in players \ Hosts : Name[c] \notin unsaved => data[c] = progress[Name[c]]

ProgressInv == ProgressTypes /\ OneOfName /\ PlayersHoldProgress /\ ProgressKept

LEMMA ProgressInit == Init => ProgressInv
  BY SessionLifecycleAssumption
  DEF Init, ProgressInv, ProgressTypes, OneOfName, PlayersHoldProgress, ProgressKept

LEMMA ProgressStays ==
  ASSUME ProgressInv, UNCHANGED <<players, data, file, progress, unsaved>>
  PROVE  ProgressInv'
  BY DEF ProgressInv, ProgressTypes, OneOfName, PlayersHoldProgress, ProgressKept

\* The authority's own check keeps a second session of the name from reading the file while
\* the first still plays.
LEMMA ProgressRead == ASSUME Inv, ProgressInv, HandleJoined PROVE ProgressInv'
  <1>1. PICK c \in Connections : Head(events).id = c
    <2>1. Types /\ events # << >> /\ Head(events).kind = "joined"
      BY DEF HandleJoined, Inv
    <2>2. QED
      BY <2>1, HeadlineIs
  <1>2. UNCHANGED <<file, progress, unsaved>>
    BY DEF HandleJoined
  <1>3. CASE Rejects(c)
    <2>1. UNCHANGED <<players, data>>
      BY <1>1, <1>3 DEF HandleJoined
    <2>2. QED
      BY <1>2, <2>1, ProgressStays
  <1>4. CASE ~Rejects(c)
    <2>1. players' = players \union {c} /\ data' = [data EXCEPT ![c] = file[Name[c]]]
      BY <1>1, <1>4 DEF HandleJoined
    <2>2. \A p \in players : Name[p] # Name[c]
      BY <1>4 DEF Rejects
    <2>3. Name[c] \in Names
      BY SessionLifecycleAssumption
    <2>4. ProgressTypes'
      BY <1>2, <2>1, <2>3 DEF ProgressInv, ProgressTypes
    <2>5. OneOfName'
      BY <2>1, <2>2 DEF ProgressInv, OneOfName
    <2>6. PlayersHoldProgress'
      <3>1. Name[c] \notin unsaved => file[Name[c]] = progress[Name[c]]
        BY <2>2, <2>3 DEF ProgressInv, ProgressKept
      <3>2. data'[c] = file[Name[c]] /\ \A p \in players \ Hosts : p # c /\ data'[p] = data[p]
        BY <2>1, <2>2 DEF ProgressInv, ProgressTypes
      <3>3. QED
        BY <1>2, <2>1, <3>1, <3>2 DEF ProgressInv, PlayersHoldProgress
    <2>7. ProgressKept'
      BY <1>2, <2>1 DEF ProgressInv, ProgressKept
    <2>8. QED
      BY <2>4, <2>5, <2>6, <2>7 DEF ProgressInv
  <1>5. QED
    BY <1>3, <1>4

\* The player is saved in the step that forgets it, or its name is marked as unsaved.
LEMMA ProgressWritten == ASSUME Inv, ProgressInv, HandleLeft PROVE ProgressInv'
  <1>1. PICK c \in Connections : Head(events).id = c
    <2>1. Types /\ events # << >> /\ Head(events).kind = "left"
      BY DEF HandleLeft, Inv
    <2>2. QED
      BY <2>1, HeadlineIs
  <1>2. players' = players \ {c} /\ UNCHANGED <<data, progress>>
    BY <1>1 DEF HandleLeft
  <1>3. \/ /\ file' = IF c \in players THEN [file EXCEPT ![Name[c]] = data[c]] ELSE file
           /\ unsaved' = unsaved
        \/ c \in players /\ unsaved' = unsaved \union {Name[c]} /\ file' = file
    BY <1>1 DEF HandleLeft, SavedOnLeave
  <1>4. Name[c] \in Names
    BY SessionLifecycleAssumption
  <1>5. CASE c \notin players
    <2>1. UNCHANGED <<players, data, file, progress, unsaved>>
      BY <1>2, <1>3, <1>5
    <2>2. QED
      BY <2>1, ProgressStays
  <1>6. CASE c \in players
    <2>1. ProgressTypes'
      BY <1>2, <1>3, <1>4 DEF ProgressInv, ProgressTypes
    <2>2. OneOfName' /\ PlayersHoldProgress'
      BY <1>2, <1>3 DEF ProgressInv, OneOfName, PlayersHoldProgress
    <2>3. ASSUME NEW n \in Names, n \notin unsaved', \A p \in players' \ Hosts : Name[p] # n
          PROVE  file'[n] = progress[n]
      <3>1. CASE n = Name[c]
        <4>1. file' = [file EXCEPT ![Name[c]] = data[c]] /\ Name[c] \notin unsaved
          BY <1>3, <1>6, <2>3, <3>1
        <4>2. data[c] = progress[Name[c]]
          BY <1>6, <4>1, SessionLifecycleAssumption DEF ProgressInv, PlayersHoldProgress
        <4>3. QED
          BY <1>4, <3>1, <4>1, <4>2 DEF ProgressInv, ProgressTypes
      <3>2. CASE n # Name[c]
        <4>1. n \notin unsaved /\ \A p \in players \ Hosts : Name[p] # n
          BY <1>2, <1>3, <2>3, <3>2
        <4>2. file'[n] = file[n]
          BY <1>3, <3>2 DEF ProgressInv, ProgressTypes
        <4>3. QED
          BY <4>1, <4>2 DEF ProgressInv, ProgressKept
      <3>3. QED
        BY <3>1, <3>2
    <2>4. ProgressKept'
      BY <1>2, <2>3 DEF ProgressKept
    <2>5. QED
      BY <2>1, <2>2, <2>4 DEF ProgressInv
  <1>7. QED
    BY <1>5, <1>6

LEMMA ProgressMade ==
  ASSUME ProgressInv, NEW c \in Connections, Play(c)
  PROVE  ProgressInv'
  <1> DEFINE n == Name[c]
  <1>1. /\ c \in players \ Hosts /\ n \in Names
        /\ data' = [data EXCEPT ![c] = data[c] + 1]
        /\ progress' = [progress EXCEPT ![n] = IF progress[n] > data[c] THEN progress[n]
                                               ELSE data[c] + 1]
        /\ UNCHANGED <<players, file, unsaved>>
    BY SessionLifecycleAssumption DEF Play
  <1> HIDE DEF n
  <1>2. ProgressTypes'
    BY <1>1 DEF ProgressInv, ProgressTypes
  <1>3. OneOfName'
    BY <1>1 DEF ProgressInv, OneOfName
  <1>4. PlayersHoldProgress'
    <2>1. ASSUME NEW d \in players \ Hosts, Name[d] \notin unsaved
          PROVE  data'[d] = progress'[Name[d]]
      <3>1. data[d] = progress[Name[d]] /\ Name[d] \in Names /\ d \in Connections
        BY <2>1, SessionLifecycleAssumption DEF ProgressInv, ProgressTypes, PlayersHoldProgress
      <3>2. CASE d = c
        <4>1. Name[d] = n /\ data[c] = progress[n] /\ data[c] \in Nat
          BY <3>1, <3>2 DEF n, ProgressInv, ProgressTypes
        <4>2. data'[c] = data[c] + 1 /\ progress'[n] = data[c] + 1
          BY <1>1, <4>1 DEF ProgressInv, ProgressTypes
        <4>3. QED
          BY <3>2, <4>1, <4>2
      <3>3. CASE d # c
        <4>1. Name[d] # n
          BY <1>1, <3>3 DEF n, ProgressInv, OneOfName
        <4>2. QED
          BY <1>1, <3>1, <3>3, <4>1 DEF ProgressInv, ProgressTypes
      <3>4. QED
        BY <3>2, <3>3
    <2>2. QED
      BY <1>1, <2>1 DEF PlayersHoldProgress
  <1>5. ProgressKept'
    <2>1. ASSUME NEW m \in Names, m \notin unsaved, \A p \in players \ Hosts : Name[p] # m
          PROVE  file[m] = progress'[m]
      <3>1. m # n
        BY <1>1, <2>1 DEF n
      <3>2. QED
        BY <1>1, <2>1, <3>1 DEF ProgressInv, ProgressTypes, ProgressKept
    <2>2. QED
      BY <1>1, <2>1 DEF ProgressKept
  <1>6. QED
    BY <1>2, <1>3, <1>4, <1>5 DEF ProgressInv

LEMMA ProgressStep == Inv /\ ProgressInv /\ [Next]_vars => ProgressInv'
  <1> SUFFICES ASSUME Inv, ProgressInv, [Next]_vars PROVE ProgressInv'
    OBVIOUS
  <1>1. CASE Tick
    BY <1>1, ProgressRead, ProgressWritten DEF Tick
  <1>2. CASE \E c \in Connections : Play(c)
    BY <1>2, ProgressMade
  <1>3. CASE \/ \E c \in Connections : Accept(c) \/ Entering(c) \/ Leave(c)
                                       \/ Stall(c) \/ Recover(c)
                                       \/ Spoil(Name[c]) \/ Mend(Name[c])
             \/ \E t \in Tasks : Evict(t)
             \/ Command \/ Say \/ UNCHANGED vars
    <2>1. UNCHANGED <<players, data, file, progress, unsaved>>
      BY <1>3 DEF Accept, Entering, Check, Reserve, Refuse, Welcome, QueueRoster, Join, Abandon,
                  Leave, Stall, Recover, Evict, TakeOut, TellHost, Announce, Command, Say,
                  Spoil, Mend, vars, tick
    <2>2. QED
      BY <2>1, ProgressStays
  <1>4. QED
    BY <1>1, <1>2, <1>3 DEF Next

\* Whoever leaves in whatever way, and whoever comes after under the same name: its file
\* holds the furthest that name has come whenever a new session may read it, unless a write
\* of it failed (handle_join, handle_leave, save_player).
THEOREM ProgressIsKept == Spec => []ProgressKept
  <1>1. Inv /\ ProgressInv /\ [Next]_vars => Inv' /\ ProgressInv'
    BY StepInv, ProgressStep
  <1>2. ProgressInv => ProgressKept
    BY DEF ProgressInv
  <1>3. QED
    BY <1>1, <1>2, InitInv, ProgressInit, PTL DEF Spec
=============================================================================
