--------------------------- MODULE GameplayRequests ---------------------------
(***************************************************************************)
(* One remote player's gameplay requests, from the client to the authority *)
(* and back.                                                               *)
(*                                                                         *)
(* The client numbers its requests; request k carries id k and client      *)
(* sequence k, the dimension and the revision the client knew.  A client   *)
(* may send the same envelope again.  The client's task on the network     *)
(* thread forwards a request to the tick thread or answers at once with a  *)
(* rejection; the tick thread asks the authority, which keeps its last     *)
(* answers, and hands the answer to the network thread, which numbers and  *)
(* delivers it.  The client shows the application the answers its gate     *)
(* lets through.                                                           *)
(***************************************************************************)
EXTENDS Naturals, Sequences, FiniteSets

CONSTANTS
  Dimensions,
  StartDimension,
  CacheCapacity,      \* RESPONSE_CACHE_CAPACITY
  EventCapacity,      \* queue of the network thread to the tick thread
  HostCapacity,       \* HOST_COMMAND_QUEUE_CAPACITY
  WireCapacity,       \* bound: packets in each direction of the connection
  MaxRevision,        \* bound: [Dimensions -> Nat]
  MaxRequests, MaxResends, MaxTransfers  \* bounds

ASSUME GameplayRequestsAssumption ==
  /\ StartDimension \in Dimensions
  /\ {CacheCapacity, EventCapacity, HostCapacity, WireCapacity} \subseteq Nat \ {0}
  /\ {MaxRequests, MaxResends, MaxTransfers} \subseteq Nat
  /\ MaxRevision \in [Dimensions -> Nat]

VARIABLES
  \* client: connection task and application
  sent,         \* the requests sent, in order: sent[k] is request k
  where,        \* current_dimension
  known,        \* last_client_revision of the connection
  shownRev,     \* revision of client_session_projection
  gate,         \* GameplayResponseGate
  requests,     \* requests on their way to the server
  \* the player's tasks on the network thread
  inFlight, completed,   \* GameplaySessionState: request ids
  watermark,             \* GameplaySessionState.last_client_sequence
  serverSeq,             \* GameplaySessionState.last_server_sequence
  reply,                 \* the ingress task's own rejection, not yet enqueued
  events, host, answers, \* queues: to the tick thread, from it, to the client
  \* tick thread
  clock,        \* [Dimensions -> RevisionClock]
  dim, lastSeq, lastRev, \* SessionContract: dimension, last_client_sequence, last_revision
  cache,        \* response_cache
  \* history
  applied,      \* [request -> revision at which the world took it, 0 if never]
  lost,         \* answers dropped at the full host queue
  heard,        \* requests an answer to which reached the client
  repeated,     \* requests whose envelope was sent again
  resends, transfers

client == <<sent, where, known, shownRev, gate>>
session == <<inFlight, completed, watermark, serverSeq>>
network == <<reply, events, host, answers>>
authority == <<clock, dim, lastSeq, lastRev, cache, applied>>
counters == <<repeated, resends, transfers>>
vars == <<client, requests, session, network, authority, lost, heard,
          counters>>

Requests == 1 .. MaxRequests
Nothing == [kind |-> "nothing"]
Accepted(k, r) == [kind |-> "response", id |-> k, seq |-> r, ok |-> TRUE]
Rejected(k, s) == [kind |-> "response", id |-> k, seq |-> s, ok |-> FALSE]
DimensionTransfer(d) == [kind |-> "transfer", dim |-> d]
Higher(a, b) == IF a < b THEN b ELSE a
Elements(s) == {s[i] : i \in DOMAIN s}

RememberAll(s, x) == Append(s, x)
\* A bounded first-in first-out memory.
Remember(s, x) == Append(IF Len(s) < CacheCapacity THEN s ELSE Tail(s), x)

\* The other worlds may have come to any revision before the session begins; and a
\* run may begin with some of its bounds used up.
Clocks == {c \in [Dimensions -> UNION {0 .. MaxRevision[d] : d \in Dimensions}] :
             \A d \in Dimensions : c[d] <= MaxRevision[d]}

Init ==
  /\ sent = << >> /\ where = StartDimension /\ known = 0 /\ shownRev = 0
  /\ gate = [latest |-> 0, seen |-> << >>]
  /\ requests = << >>
  /\ inFlight = {} /\ completed = << >> /\ watermark = 0 /\ serverSeq = 0
  /\ reply = Nothing
  /\ events = << >> /\ host = << >> /\ answers = << >>
  /\ clock \in Clocks /\ clock[StartDimension] = 0
  /\ dim = StartDimension /\ lastSeq = 0 /\ lastRev = 0 /\ cache = << >>
  /\ applied = [k \in Requests |-> 0]
  /\ lost = {} /\ heard = {} /\ repeated = {}
  /\ resends \in 0 .. MaxResends /\ transfers \in 0 .. MaxTransfers

-----------------------------------------------------------------------------
(* The client's connection task.                                           *)

\* A fresh input of the application: prepare_gameplay_request gives it the next id
\* and sequence and the highest revision known.
Submit ==
  /\ Len(sent) < MaxRequests /\ Len(requests) < WireCapacity
  /\ known' = Higher(shownRev, known)
  /\ sent' = Append(sent, [dim |-> where, rev |-> known'])
  /\ requests' = Append(requests, Len(sent'))
  /\ UNCHANGED <<where, shownRev, gate, session, network, authority, lost, heard, counters>>

\* An explicit envelope goes out verbatim: here, one sent before.
Resend(k) ==
  /\ resends < MaxResends /\ Len(requests) < WireCapacity
  /\ requests' = Append(requests, k)
  /\ repeated' = repeated \union {k} /\ resends' = resends + 1
  /\ UNCHANGED <<client, session, network, authority, lost, heard, transfers>>

\* PlayerSessionUpdate of the current dimension. (Changes and columns raise "known" too.)
Learn(r) ==
  /\ r # shownRev
  /\ known' = Higher(known, r)
  /\ shownRev' = r
  /\ UNCHANGED <<sent, where, gate, requests, session, network, authority, lost,
                 heard, counters>>

\* GameplayResponseGate.accept
Passes(r) ==
  /\ r.id \notin Elements(gate.seen)
  /\ r.seq > gate.latest

ReceiveResponse ==
  /\ answers # << >> /\ Head(answers).kind = "response"
  /\ LET r == Head(answers)
     IN  /\ known' = IF r.ok THEN Higher(known, r.seq) ELSE known
         /\ heard' = heard \union {r.id}
         /\ IF Passes(r)
            THEN gate' = [latest |-> r.seq, seen |-> Remember(gate.seen, r.id)]
            ELSE UNCHANGED gate
  /\ answers' = Tail(answers)
  /\ UNCHANGED <<sent, where, shownRev, requests, session, reply, events,
                 host, authority, lost, counters>>

\* The high-water mark restarts in the new dimension.
ReceiveTransfer ==
  /\ answers # << >> /\ Head(answers).kind = "transfer"
  /\ where' = Head(answers).dim
  /\ known' = 0
  /\ answers' = Tail(answers)
  /\ UNCHANGED <<sent, shownRev, gate, requests, session, reply, events,
                 host, authority, lost, heard, counters>>

-----------------------------------------------------------------------------
(* The ingress task: route_gameplay_request.                               *)

Completed(k) == k \in Elements(completed)
MarkCompleted(k) ==
  /\ inFlight' = inFlight \ {k}
  /\ completed' = IF Completed(k) THEN completed ELSE Remember(completed, k)

\* GameplaySessionState.rejection
RejectAtIngress(k) ==
  /\ MarkCompleted(k)
  /\ serverSeq' = serverSeq + 1
  /\ reply' = Rejected(k, serverSeq')
  /\ UNCHANGED events

ForwardUnnoted(k) ==
  IF Len(events) < EventCapacity
  THEN events' = Append(events, k) /\ UNCHANGED <<inFlight, completed, serverSeq, reply>>
  ELSE RejectAtIngress(k)
ForwardOrDrop(k) ==
  IF Len(events) < EventCapacity
  THEN /\ inFlight' = inFlight \union {k}
       /\ events' = Append(events, k)
       /\ UNCHANGED <<completed, serverSeq, reply>>
  ELSE UNCHANGED <<inFlight, completed, serverSeq, reply, events>>
\* To the tick thread, or QueueFull.
Forward(k) ==
  IF Len(events) < EventCapacity
  THEN /\ inFlight' = inFlight \union {k}
       /\ events' = Append(events, k)
       /\ UNCHANGED <<completed, serverSeq, reply>>
  ELSE RejectAtIngress(k)

Arriving(k) == reply = Nothing /\ requests # << >> /\ k = Head(requests)
IngressTakes ==
  /\ requests' = Tail(requests)
  /\ UNCHANGED <<client, host, answers, authority, lost, heard,
                 counters>>

\* The first copy is still with the authority.
IgnoreInFlight(k) ==
  /\ Arriving(k) /\ k \in inFlight
  /\ IngressTakes /\ UNCHANGED <<session, reply, events>>

ForwardRetransmit(k) ==
  /\ Arriving(k) /\ k \notin inFlight /\ Completed(k)
  /\ Forward(k)
  /\ IngressTakes /\ UNCHANGED watermark

RejectOutOfOrder(k) ==
  /\ Arriving(k) /\ k \notin inFlight /\ ~Completed(k) /\ k <= watermark
  /\ RejectAtIngress(k)
  /\ IngressTakes /\ UNCHANGED watermark

ForwardFresh(k) ==
  /\ Arriving(k) /\ k \notin inFlight /\ ~Completed(k) /\ k > watermark
  /\ watermark' = k
  /\ Forward(k)
  /\ IngressTakes

\* More requests in this second than the limiter allows.
RejectRateLimited(k) ==
  /\ Arriving(k) /\ k \notin inFlight /\ ~Completed(k) /\ k > watermark
  /\ RejectAtIngress(k)
  /\ IngressTakes /\ UNCHANGED watermark

Enqueue(p) == Len(answers) < WireCapacity /\ answers' = Append(answers, p)

SendReply ==
  /\ reply # Nothing
  /\ Enqueue(reply) /\ reply' = Nothing
  /\ UNCHANGED <<client, requests, session, events, host, authority, lost,
                 heard, counters>>

-----------------------------------------------------------------------------
(* The tick thread.                                                        *)

TickUnchanged == <<client, requests, session, reply, answers, heard, repeated, resends>>

\* send_targeted: an answer the host queue has no room for is gone.
Project(p) == host' = IF Len(host) < HostCapacity THEN Append(host, p) ELSE host

Respond(r) ==
  /\ Project(r)
  /\ events' = Tail(events)
  /\ lost' = IF Len(host) < HostCapacity THEN lost ELSE lost \union {r.id}
  /\ UNCHANGED <<TickUnchanged, transfers>>

Cached(k) == {r \in Elements(cache) : r.id = k}
Serving(k) == events # << >> /\ k = Head(events)

AdmissibleBySequence(k) == sent[k].dim = dim /\ k > lastSeq /\ sent[k].rev <= clock[dim]
\* preflight_session
Admissible(k) ==
  /\ sent[k].dim = dim
  /\ k > lastSeq
  /\ sent[k].rev <= clock[dim]
  /\ sent[k].rev >= lastRev

ReplayCached(k) ==
  /\ Serving(k)
  /\ \E r \in Cached(k) : Respond(r)
  /\ UNCHANGED authority

\* reject_for_session
Reject(k, consumes) ==
  LET r == Rejected(k, clock[dim])
  IN  /\ Respond(r)
      /\ lastSeq' = IF consumes THEN k ELSE lastSeq
      /\ cache' = Remember(cache, r)
      /\ UNCHANGED <<clock, dim, lastRev, applied>>

\* validate_bounds fails.  The model leaves open of which requests, and of which again.
RejectMalformed(k) ==
  /\ Serving(k) /\ Cached(k) = {}
  /\ Reject(k, FALSE)

RejectPreflight(k) ==
  /\ Serving(k) /\ Cached(k) = {} /\ ~Admissible(k)
  /\ Reject(k, TRUE)

\* The world, the player's mode or the operation's domain forbids it.
RejectOperation(k) ==
  /\ Serving(k) /\ Cached(k) = {} /\ Admissible(k)
  /\ Reject(k, TRUE)

RecordOldRevision(k, r) ==
  /\ lastSeq' = k /\ lastRev' = r
  /\ cache' = Remember(cache, Accepted(k, clock[dim]))
\* What the session keeps of an accepted request.
Record(k, r) ==
  /\ lastSeq' = k /\ lastRev' = r
  /\ cache' = Remember(cache, Accepted(k, r))

Accept(k) ==
  /\ Serving(k) /\ Cached(k) = {} /\ Admissible(k)
  /\ clock[dim] < MaxRevision[dim]
  /\ LET r == clock[dim] + 1
     IN  /\ clock' = [clock EXCEPT ![dim] = r]
         /\ applied' = [applied EXCEPT ![k] = r]
         /\ Record(k, r)
         /\ Respond(Accepted(k, r))
  /\ UNCHANGED dim

\* Other players and the world itself; "baseline" when the change is one of this
\* session (another player's operation on it, a finished block, a respawn).
WorldMutation(d, baseline) ==
  /\ clock[d] < MaxRevision[d]
  /\ clock' = [clock EXCEPT ![d] = @ + 1]
  /\ baseline => d = dim
  /\ lastRev' = IF baseline THEN clock'[d] ELSE lastRev
  /\ UNCHANGED <<TickUnchanged, events, host, lost, dim, lastSeq, cache, applied, transfers>>

\* set_session_dimension, apply_authority_dimension_transfer
Transfer(d) ==
  /\ transfers < MaxTransfers /\ d # dim
  /\ dim' = d /\ lastRev' = clock[d]
  /\ Project(DimensionTransfer(d))
  /\ transfers' = transfers + 1
  /\ UNCHANGED <<TickUnchanged, events, lost, clock, lastSeq, cache, applied>>

-----------------------------------------------------------------------------
(* The command loop of the network thread.                                 *)

\* deliver_projection: normalize_host_response, then the packet goes out.
Deliver ==
  /\ host # << >>
  /\ LET p == Head(host)
     IN  IF p.kind = "response"
         THEN /\ MarkCompleted(p.id)
              /\ serverSeq' = IF p.seq = 0 THEN serverSeq + 1 ELSE Higher(serverSeq, p.seq)
              /\ Enqueue([p EXCEPT !.seq = IF @ = 0 THEN serverSeq' ELSE @])
         ELSE Enqueue(p) /\ UNCHANGED <<inFlight, completed, serverSeq>>
  /\ host' = Tail(host)
  /\ UNCHANGED <<client, requests, watermark, reply, events, authority, lost, heard,
                 counters>>

-----------------------------------------------------------------------------

Ingress ==
  \E k \in DOMAIN sent :
    \/ IgnoreInFlight(k)
    \/ ForwardRetransmit(k)
    \/ RejectOutOfOrder(k)
    \/ ForwardFresh(k)
    \/ RejectRateLimited(k)

Authority ==
  \E k \in DOMAIN sent :
    \/ ReplayCached(k)
    \/ RejectMalformed(k)
    \/ RejectPreflight(k)
    \/ RejectOperation(k)
    \/ Accept(k)

Client == ReceiveResponse \/ ReceiveTransfer

Next ==
  \/ Submit
  \/ \E k \in DOMAIN sent : Resend(k)
  \/ \E r \in 1 .. clock[where] : Learn(r)
  \/ Client
  \/ Ingress
  \/ SendReply
  \/ Authority
  \/ \E d \in Dimensions, baseline \in BOOLEAN : WorldMutation(d, baseline)
  \/ \E d \in Dimensions : Transfer(d)
  \/ Deliver

\* Every task keeps running; nobody has to send, to play or to travel.
Fairness ==
  /\ WF_vars(Client)
  /\ WF_vars(Ingress)
  /\ WF_vars(SendReply)
  /\ WF_vars(Authority)
  /\ WF_vars(Deliver)

Spec == Init /\ [][Next]_vars
FairSpec == Spec /\ Fairness

-----------------------------------------------------------------------------
(* Properties                                                              *)

Responses == [kind : {"response"}, id : Requests, seq : Nat, ok : BOOLEAN]
Packets == Responses \union [kind : {"transfer"}, dim : Dimensions]

\* Every variable has its type and every queue its bound.
TypeOK ==
  /\ sent \in Seq([dim : Dimensions, rev : Nat]) /\ Len(sent) <= MaxRequests
  /\ where \in Dimensions /\ known \in Nat /\ shownRev \in Nat
  /\ gate.latest \in Nat /\ gate.seen \in Seq(Requests)
  /\ \A q \in {requests, events, completed} :
       q \in Seq(Requests) /\ Elements(q) \subseteq 1 .. Len(sent)
  /\ inFlight \subseteq Requests /\ watermark \in 0 .. MaxRequests /\ serverSeq \in Nat
  /\ reply \in Packets \union {Nothing}
  /\ host \in Seq(Packets) /\ answers \in Seq(Packets)
  /\ clock \in [Dimensions -> Nat] /\ \A d \in Dimensions : clock[d] <= MaxRevision[d]
  /\ dim \in Dimensions
  /\ lastSeq \in 0 .. MaxRequests /\ lastRev \in Nat
  /\ cache \in Seq(Responses)
  /\ applied \in [Requests -> Nat]
  /\ {lost, heard, repeated} \subseteq SUBSET Requests
  /\ Len(events) <= EventCapacity /\ Len(host) <= HostCapacity
  /\ Len(cache) <= CacheCapacity /\ Len(completed) <= CacheCapacity

\* A request takes effect at most once, however often its envelope is sent again and
\* whatever the caches have forgotten by then.
AtMostOnce == [][\A k \in Requests : applied[k] # 0 => applied'[k] = applied[k]]_vars

\* The network thread's in-flight set is exactly what the authority still owes an answer:
\* a request is queued once, or its answer is, or the answer was dropped at the full host
\* queue (and then the request is in flight for good).
Occurrences(k, q) == Cardinality({i \in DOMAIN q : q[i] = k})
Responding(k) == {i \in DOMAIN host : host[i].kind = "response" /\ host[i].id = k}
InFlightAccounted ==
  \A k \in Requests :
    Occurrences(k, events) + Cardinality(Responding(k)) + (IF k \in lost THEN 1 ELSE 0)
      = IF k \in inFlight THEN 1 ELSE 0

\* An answer is the truth, wherever it is -- in the queues, in the response cache, at the
\* client: an acceptance names the revision at which the request took effect, and a rejected
\* request has no effect and will have none.  (But the copy of an envelope sent again may be
\* rejected after another copy was applied.)
Confirmed(p) == p.kind = "response" /\ p.ok => p.seq # 0 /\ p.seq = applied[p.id]
Refused(p) == p.kind = "response" /\ ~p.ok => applied[p.id] = 0 \/ p.id \in repeated
Truthful(p) == Confirmed(p) /\ Refused(p)
AllTruthful(q) == \A i \in DOMAIN q : Truthful(q[i])
AnswersAreTrue ==
  Truthful(reply) /\ AllTruthful(host) /\ AllTruthful(answers) /\ AllTruthful(cache)

\* Every request sent is answered, unless its answer was dropped at the full host queue.
Answered == \A k \in Requests : Len(sent) >= k ~> k \in heard \union lost

\* "Once this client has already surfaced that request id into its reliable app queue,
\* suppress every replay or rewrite. [...] the first copy that does arrive is still
\* accepted below" (GameplayResponseGate): the first answer that arrives is shown.
FirstAnswerSurfaces == heard \subseteq Elements(gate.seen)

\* "Revisions are independent per dimension; the first target-world snapshot/request must
\* not be compared to the source world's high-water mark" (client, DimensionTransfer):
\* what the client claims to know, the world it is in has reached.
NotAhead == known <= clock[where]
=============================================================================
