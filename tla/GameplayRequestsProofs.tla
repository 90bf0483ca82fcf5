------------------------ MODULE GameplayRequestsProofs ------------------------
(***************************************************************************)
(* For any number of requests, retries, revisions and transfers and any    *)
(* capacities: a request takes effect at most once, its answers are true,  *)
(* and the requests in flight are the ones the authority still owes an     *)
(* answer.                                                                 *)
(***************************************************************************)
EXTENDS GameplayRequests, TLAPS, SequenceTheorems, FiniteSetTheorems

\* The part of the types the argument needs.
Types ==
  /\ sent \in Seq([dim : Dimensions, rev : Nat])
  /\ where \in Dimensions /\ known \in Nat /\ shownRev \in Nat
  /\ serverSeq \in Nat
  /\ reply \in Packets \union {Nothing}
  /\ host \in Seq(Packets) /\ answers \in Seq(Packets) /\ cache \in Seq(Responses)
  /\ clock \in [Dimensions -> Nat] /\ dim \in Dimensions
  /\ lastRev \in Nat
  /\ applied \in [Requests -> Nat]
  /\ Len(sent) <= MaxRequests

\* An applied request lies behind its session's baseline: the world is past the
\* revision the client knew when it sent it, and while the session is in that
\* dimension so is the revision below which preflight_session refuses.
Behind(k) ==
  applied[k] # 0 =>
    /\ k \in DOMAIN sent
    /\ sent[k].rev < applied[k]
    /\ applied[k] <= clock[sent[k].dim]
    /\ sent[k].dim = dim => applied[k] <= lastRev

Baseline ==
  /\ lastRev <= clock[dim]
  /\ \A k \in Requests : Behind(k)

\* The first half of AnswersAreTrue; the other half needs to know where the requests are.
AllConfirmed(q) == \A i \in DOMAIN q : Confirmed(q[i])
AcceptancesAreTrue ==
  Confirmed(reply) /\ AllConfirmed(host) /\ AllConfirmed(answers) /\ AllConfirmed(cache)

Inv == Types /\ Baseline /\ AcceptancesAreTrue

-----------------------------------------------------------------------------

LEMMA RemembersOldOrNew ==
  ASSUME NEW S, NEW s \in Seq(S), NEW x \in S, CacheCapacity \in Nat \ {0}
  PROVE  /\ Remember(s, x) \in Seq(S)
         /\ \A i \in DOMAIN Remember(s, x) :
              Remember(s, x)[i] = x \/ \E j \in DOMAIN s : Remember(s, x)[i] = s[j]
  <1> DEFINE t == IF Len(s) < CacheCapacity THEN s ELSE Tail(s)
  <1>0. Len(s) \in Nat
    BY LenProperties
  <1>1. t \in Seq(S) /\ \A i \in DOMAIN t : \E j \in DOMAIN s : t[i] = s[j]
    <2>1. CASE Len(s) < CacheCapacity
      BY <2>1
    <2>2. CASE ~(Len(s) < CacheCapacity)
      <3>1. s # << >>
        BY <2>2, <1>0, EmptySeq
      <3>2. /\ Tail(s) \in Seq(S) /\ Len(Tail(s)) = Len(s) - 1
            /\ \A i \in 1 .. Len(Tail(s)) : Tail(s)[i] = s[i + 1]
        BY <3>1, HeadTailProperties
      <3>3. DOMAIN Tail(s) = 1 .. Len(s) - 1 /\ DOMAIN s = 1 .. Len(s)
        BY <3>2, LenProperties
      <3>4. QED
        BY <2>2, <3>2, <3>3, <1>0
    <2>3. QED
      BY <2>1, <2>2
  <1> HIDE DEF t
  <1>2. /\ Append(t, x) \in Seq(S) /\ Len(Append(t, x)) = Len(t) + 1
        /\ \A i \in 1 .. Len(t) : Append(t, x)[i] = t[i]
        /\ Append(t, x)[Len(t) + 1] = x
    BY <1>1, AppendProperties
  <1>3. DOMAIN Append(t, x) = 1 .. Len(t) + 1 /\ DOMAIN t = 1 .. Len(t) /\ Len(t) \in Nat
    BY <1>1, <1>2, LenProperties
  <1>4. Remember(s, x) = Append(t, x)
    BY DEF Remember, t
  <1>5. QED
    BY <1>1, <1>2, <1>3, <1>4

LEMMA AppendHolds ==
  ASSUME NEW S, NEW s \in Seq(S), NEW x \in S
  PROVE  /\ Append(s, x) \in Seq(S)
         /\ \A i \in DOMAIN Append(s, x) :
              Append(s, x)[i] = x \/ \E j \in DOMAIN s : Append(s, x)[i] = s[j]
  <1>1. /\ Append(s, x) \in Seq(S) /\ Len(Append(s, x)) = Len(s) + 1
        /\ \A i \in 1 .. Len(s) : Append(s, x)[i] = s[i]
        /\ Append(s, x)[Len(s) + 1] = x
    BY AppendProperties
  <1>2. DOMAIN Append(s, x) = 1 .. Len(s) + 1 /\ DOMAIN s = 1 .. Len(s) /\ Len(s) \in Nat
    BY <1>1, LenProperties
  <1>3. QED
    BY <1>1, <1>2

LEMMA TailHolds ==
  ASSUME NEW S, NEW s \in Seq(S), s # << >>
  PROVE  /\ Tail(s) \in Seq(S) /\ Head(s) \in S
         /\ 1 \in DOMAIN s /\ Head(s) = s[1]
         /\ \A i \in DOMAIN Tail(s) : \E j \in DOMAIN s : Tail(s)[i] = s[j]
  <1>1. /\ Tail(s) \in Seq(S) /\ Len(Tail(s)) = Len(s) - 1 /\ Head(s) \in S
        /\ \A i \in 1 .. Len(Tail(s)) : Tail(s)[i] = s[i + 1]
    BY HeadTailProperties
  <1>2. DOMAIN Tail(s) = 1 .. Len(s) - 1 /\ DOMAIN s = 1 .. Len(s) /\ Len(s) \in Nat
    BY <1>1, LenProperties
  <1>3. Len(s) # 0
    BY EmptySeq
  <1>4. QED
    BY <1>1, <1>2, <1>3

-----------------------------------------------------------------------------

LEMMA InitInv == Init => Inv
  <1> SUFFICES ASSUME Init PROVE Inv
    OBVIOUS
  <1>0. clock \in [Dimensions -> Nat]
    <2>1. UNION {0 .. MaxRevision[d] : d \in Dimensions} \subseteq Nat
      BY GameplayRequestsAssumption
    <2>2. QED
      BY <2>1 DEF Init, Clocks
  <1> USE GameplayRequestsAssumption DEF Init
  <1>1. Types
    <2>1. /\ << >> \in Seq([dim : Dimensions, rev : Nat]) /\ Len(<< >>) = 0
          /\ << >> \in Seq(Packets) /\ << >> \in Seq(Responses)
      BY EmptySeq
    <2>2. QED
      BY <1>0, <2>1 DEF Types, Requests
  <1>2. Baseline
    BY DEF Baseline, Behind, Requests
  <1>3. AcceptancesAreTrue
    BY DEF AcceptancesAreTrue, AllConfirmed, Confirmed, Nothing
  <1>4. QED
    BY <1>1, <1>2, <1>3 DEF Inv

\* What a step leaves alone.
LEMMA BaselineStays ==
  ASSUME Baseline, UNCHANGED <<sent, clock, dim, lastRev, applied>>
  PROVE  Baseline'
  BY DEF Baseline, Behind

LEMMA QueueStays ==
  ASSUME NEW q, NEW r, AllConfirmed(q), UNCHANGED applied,
         \A i \in DOMAIN r : \E j \in DOMAIN q : r[i] = q[j]
  PROVE  \A i \in DOMAIN r : Confirmed(r[i])'
  BY DEF AllConfirmed, Confirmed

LEMMA SubmitInv == Inv /\ Submit => Inv'
  <1> SUFFICES ASSUME Inv, Submit PROVE Inv'
    OBVIOUS
  <1> DEFINE new == [dim |-> where, rev |-> known']
  <1>1. known' \in Nat /\ new \in [dim : Dimensions, rev : Nat]
    BY DEF Submit, Higher, Inv, Types
  <1>2. sent' = Append(sent, new) /\ sent \in Seq([dim : Dimensions, rev : Nat])
    BY DEF Submit, Inv, Types
  <1> HIDE DEF new
  <1>3. /\ sent' \in Seq([dim : Dimensions, rev : Nat]) /\ Len(sent') = Len(sent) + 1
        /\ \A i \in 1 .. Len(sent) : sent'[i] = sent[i]
    BY <1>1, <1>2, AppendProperties
  <1>4. /\ DOMAIN sent = 1 .. Len(sent) /\ Len(sent) \in Nat
        /\ DOMAIN sent' = 1 .. Len(sent')
    BY <1>2, <1>3, LenProperties
  <1>5. UNCHANGED <<where, shownRev, session, network, authority>>
    BY DEF Submit
  <1>6. Types'
    <2>1. Len(sent') <= MaxRequests
      BY <1>3, <1>4, GameplayRequestsAssumption DEF Submit
    <2>2. QED
      BY <1>1, <1>3, <1>5, <2>1 DEF Inv, Types, session, network, authority
  <1>7. Baseline'
    BY <1>3, <1>4, <1>5 DEF Inv, Baseline, Behind, authority
  <1>8. AcceptancesAreTrue'
    BY <1>5 DEF Inv, AcceptancesAreTrue, AllConfirmed, Confirmed, network, authority
  <1>9. QED
    BY <1>6, <1>7, <1>8 DEF Inv

LEMMA ResendInv == ASSUME Inv, NEW k \in DOMAIN sent, Resend(k) PROVE Inv'
  <1>1. UNCHANGED <<client, session, network, authority>>
    BY DEF Resend
  <1>2. Types'
    BY <1>1 DEF Inv, Types, client, session, network, authority
  <1>3. Baseline'
    BY <1>1, BaselineStays DEF Inv, client, authority
  <1>4. AcceptancesAreTrue'
    BY <1>1 DEF Inv, AcceptancesAreTrue, AllConfirmed, Confirmed, network, authority
  <1>5. QED
    BY <1>2, <1>3, <1>4 DEF Inv

LEMMA LearnInv == ASSUME Inv, NEW r \in 1 .. clock[where], Learn(r) PROVE Inv'
  <1>1. UNCHANGED <<sent, where, session, network, authority>>
    BY DEF Learn
  <1>2. known' \in Nat /\ shownRev' \in Nat
    <2>1. clock[where] \in Nat
      BY DEF Inv, Types
    <2>2. QED
      BY <2>1 DEF Learn, Higher, Inv, Types
  <1>3. Types'
    BY <1>1, <1>2 DEF Inv, Types, session, network, authority
  <1>4. Baseline'
    BY <1>1, BaselineStays DEF Inv, authority
  <1>5. AcceptancesAreTrue'
    BY <1>1 DEF Inv, AcceptancesAreTrue, AllConfirmed, Confirmed, network, authority
  <1>6. QED
    BY <1>3, <1>4, <1>5 DEF Inv

LEMMA ReceiveInv == Inv /\ (ReceiveResponse \/ ReceiveTransfer) => Inv'
  <1> SUFFICES ASSUME Inv, ReceiveResponse \/ ReceiveTransfer PROVE Inv'
    OBVIOUS
  <1>1. answers # << >> /\ answers \in Seq(Packets) /\ answers' = Tail(answers)
    BY DEF ReceiveResponse, ReceiveTransfer, Inv, Types
  <1>2. /\ answers' \in Seq(Packets) /\ Head(answers) \in Packets
        /\ \A i \in DOMAIN answers' : \E j \in DOMAIN answers : answers'[i] = answers[j]
    BY <1>1, TailHolds
  <1>3. known' \in Nat /\ where' \in Dimensions
    <2>1. CASE ReceiveResponse
      <3>1. Head(answers) \in Responses
        BY <2>1, <1>2 DEF ReceiveResponse, Packets
      <3>2. Head(answers).seq \in Nat
        BY <3>1 DEF Responses
      <3>3. QED
        BY <2>1, <3>2 DEF ReceiveResponse, Higher, Inv, Types
    <2>2. CASE ReceiveTransfer
      <3>1. Head(answers) \in [kind : {"transfer"}, dim : Dimensions]
        BY <2>2, <1>2 DEF ReceiveTransfer, Packets, Responses
      <3>2. QED
        BY <2>2, <3>1 DEF ReceiveTransfer
    <2>3. QED
      BY <2>1, <2>2
  <1>4. UNCHANGED <<sent, shownRev, session, reply, host, authority>>
    BY DEF ReceiveResponse, ReceiveTransfer
  <1>5. Types'
    BY <1>2, <1>3, <1>4 DEF Inv, Types, session, authority
  <1>6. Baseline'
    BY <1>4, BaselineStays DEF Inv, authority
  <1>7. AcceptancesAreTrue'
    <2>1. AllConfirmed(answers)'
      BY <1>2, <1>4 DEF Inv, AcceptancesAreTrue, AllConfirmed, Confirmed, authority
    <2>2. Confirmed(reply)' /\ AllConfirmed(host)' /\ AllConfirmed(cache)'
      BY <1>4 DEF Inv, AcceptancesAreTrue, AllConfirmed, Confirmed, authority
    <2>3. QED
      BY <2>1, <2>2 DEF AcceptancesAreTrue
  <1>8. QED
    BY <1>5, <1>6, <1>7 DEF Inv

\* The network thread's own rejections tell nobody that anything was accepted.
LEMMA IngressInv == Inv /\ Ingress => Inv'
  <1> SUFFICES ASSUME Inv, Ingress PROVE Inv'
    OBVIOUS
  <1> PICK k \in DOMAIN sent : \/ IgnoreInFlight(k) \/ ForwardRetransmit(k)
                               \/ RejectOutOfOrder(k) \/ ForwardFresh(k)
                               \/ RejectRateLimited(k)
    BY DEF Ingress
  <1>1. k \in Requests
    <2>1. DOMAIN sent = 1 .. Len(sent) /\ Len(sent) \in Nat /\ Len(sent) <= MaxRequests
      BY LenProperties DEF Inv, Types
    <2>2. QED
      BY <2>1, GameplayRequestsAssumption DEF Requests
  <1>2. UNCHANGED <<client, host, answers, authority>>
    BY DEF IgnoreInFlight, ForwardRetransmit, RejectOutOfOrder, ForwardFresh,
           RejectRateLimited, IngressTakes
  <1>3. \/ serverSeq' = serverSeq /\ reply' = reply
        \/ serverSeq' = serverSeq + 1 /\ reply' = Rejected(k, serverSeq')
    <2>1. CASE IgnoreInFlight(k)
      BY <2>1 DEF IgnoreInFlight, session
    <2>2. CASE Forward(k)
      BY <2>2 DEF Forward, RejectAtIngress
    <2>3. CASE RejectAtIngress(k)
      BY <2>3 DEF RejectAtIngress
    <2>4. QED
      BY <2>1, <2>2, <2>3
      DEF ForwardRetransmit, RejectOutOfOrder, ForwardFresh, RejectRateLimited
  <1>4. serverSeq' \in Nat /\ reply' \in Packets \union {Nothing}
    <2>1. serverSeq \in Nat /\ serverSeq' \in Nat
      BY <1>3 DEF Inv, Types
    <2>2. Rejected(k, serverSeq') \in Packets
      BY <1>1, <2>1 DEF Rejected, Packets, Responses
    <2>3. QED
      BY <1>3, <2>1, <2>2 DEF Inv, Types
  <1>5. Types'
    BY <1>2, <1>4 DEF Inv, Types, client, authority
  <1>6. Baseline'
    BY <1>2, BaselineStays DEF Inv, client, authority
  <1>7. AcceptancesAreTrue'
    <2>1. Confirmed(reply)'
      BY <1>2, <1>3 DEF Inv, AcceptancesAreTrue, Confirmed, Rejected, authority
    <2>2. AllConfirmed(host)' /\ AllConfirmed(answers)' /\ AllConfirmed(cache)'
      BY <1>2 DEF Inv, AcceptancesAreTrue, AllConfirmed, Confirmed, authority
    <2>3. QED
      BY <2>1, <2>2 DEF AcceptancesAreTrue
  <1>8. QED
    BY <1>5, <1>6, <1>7 DEF Inv

LEMMA SendReplyInv == Inv /\ SendReply => Inv'
  <1> SUFFICES ASSUME Inv, SendReply PROVE Inv'
    OBVIOUS
  <1>1. reply \in Packets /\ answers' = Append(answers, reply) /\ answers \in Seq(Packets)
    BY DEF SendReply, Enqueue, Inv, Types
  <1>2. /\ answers' \in Seq(Packets)
        /\ \A i \in DOMAIN answers' :
             answers'[i] = reply \/ \E j \in DOMAIN answers : answers'[i] = answers[j]
    BY <1>1, AppendHolds
  <1>3. reply' = Nothing /\ UNCHANGED <<client, session, host, authority>>
    BY DEF SendReply
  <1>4. Types'
    BY <1>2, <1>3 DEF Inv, Types, client, session, authority
  <1>5. Baseline'
    BY <1>3, BaselineStays DEF Inv, client, authority
  <1>6. AcceptancesAreTrue'
    <2>1. AllConfirmed(answers)'
      BY <1>2, <1>3 DEF Inv, AcceptancesAreTrue, AllConfirmed, Confirmed, authority
    <2>2. Confirmed(reply)'
      BY <1>3 DEF Confirmed, Nothing
    <2>3. AllConfirmed(host)' /\ AllConfirmed(cache)'
      BY <1>3 DEF Inv, AcceptancesAreTrue, AllConfirmed, Confirmed, authority
    <2>4. QED
      BY <2>1, <2>2, <2>3 DEF AcceptancesAreTrue
  <1>7. QED
    BY <1>4, <1>5, <1>6 DEF Inv

\* What the tick thread puts into the host queue, or drops.
LEMMA Projected ==
  ASSUME host \in Seq(Packets), NEW p \in Packets, Project(p)
  PROVE  /\ host' \in Seq(Packets)
         /\ \A i \in DOMAIN host' :
              host'[i] = p \/ \E j \in DOMAIN host : host'[i] = host[j]
  <1>1. CASE host' = host
    BY <1>1
  <1>2. CASE host' = Append(host, p)
    BY <1>2, AppendHolds
  <1>3. QED
    BY <1>1, <1>2 DEF Project

LEMMA ReplayInv == ASSUME Inv, NEW k \in Requests, ReplayCached(k) PROVE Inv'
  <1> PICK r \in Cached(k) : Respond(r)
    BY DEF ReplayCached
  <1>1. PICK j \in DOMAIN cache : r = cache[j]
    BY DEF Cached, Elements
  <1>2. r \in Packets /\ Confirmed(r)
    <2>1. j \in 1 .. Len(cache) /\ cache \in Seq(Responses)
      BY <1>1, LenProperties DEF Inv, Types
    <2>2. r \in Responses
      BY <1>1, <2>1, ElementOfSeq
    <2>3. QED
      BY <1>1, <2>2 DEF Packets, Inv, AcceptancesAreTrue, AllConfirmed
  <1>3. /\ UNCHANGED <<client, session, reply, answers, authority>>
        /\ host \in Seq(Packets) /\ Project(r)
    BY DEF ReplayCached, Respond, TickUnchanged, Inv, Types
  <1>4. /\ host' \in Seq(Packets)
        /\ \A i \in DOMAIN host' :
             host'[i] = r \/ \E l \in DOMAIN host : host'[i] = host[l]
    BY <1>2, <1>3, Projected
  <1>5. Types'
    BY <1>3, <1>4 DEF Inv, Types, client, session, authority
  <1>6. Baseline'
    BY <1>3, BaselineStays DEF Inv, client, authority
  <1>7. AcceptancesAreTrue'
    <2>1. AllConfirmed(host)'
      BY <1>2, <1>3, <1>4 DEF Inv, AcceptancesAreTrue, AllConfirmed, Confirmed, authority
    <2>2. Confirmed(reply)' /\ AllConfirmed(answers)' /\ AllConfirmed(cache)'
      BY <1>3 DEF Inv, AcceptancesAreTrue, AllConfirmed, Confirmed, authority
    <2>3. QED
      BY <2>1, <2>2 DEF AcceptancesAreTrue
  <1>8. QED
    BY <1>5, <1>6, <1>7 DEF Inv

LEMMA RejectInv ==
  ASSUME Inv, NEW k \in Requests, NEW consumes, Reject(k, consumes)
  PROVE  Inv'
  <1> DEFINE r == Rejected(k, clock[dim])
  <1>1. r \in Responses /\ r \in Packets
    BY DEF Rejected, Responses, Packets, Inv, Types
  <1>2. ~r.ok
    BY DEF Rejected
  <1>3. /\ Respond(r)
        /\ cache' = Remember(cache, r)
        /\ UNCHANGED <<clock, dim, lastRev, applied>>
    BY DEF Reject
  <1> HIDE DEF r
  <1>4. UNCHANGED <<client, session, reply, answers>> /\ Project(r)
    BY <1>3 DEF Respond, TickUnchanged
  <1>5. /\ host' \in Seq(Packets)
        /\ \A i \in DOMAIN host' :
             host'[i] = r \/ \E l \in DOMAIN host : host'[i] = host[l]
    BY <1>1, <1>4, Projected DEF Inv, Types
  <1>6. /\ cache' \in Seq(Responses)
        /\ \A i \in DOMAIN cache' :
             cache'[i] = r \/ \E l \in DOMAIN cache : cache'[i] = cache[l]
    <2>1. cache \in Seq(Responses) /\ CacheCapacity \in Nat \ {0}
      BY GameplayRequestsAssumption DEF Inv, Types
    <2>2. /\ Remember(cache, r) \in Seq(Responses)
          /\ \A i \in DOMAIN Remember(cache, r) : Remember(cache, r)[i] = r
               \/ \E l \in DOMAIN cache : Remember(cache, r)[i] = cache[l]
      BY <1>1, <2>1, RemembersOldOrNew
    <2>3. QED
      BY <1>3, <2>2
  <1>7. Types'
    BY <1>3, <1>4, <1>5, <1>6 DEF Inv, Types, client, session
  <1>8. Baseline'
    BY <1>3, <1>4, BaselineStays DEF Inv, client
  <1>9. AcceptancesAreTrue'
    <2>1. AllConfirmed(host)'
      BY <1>2, <1>3, <1>5 DEF Inv, AcceptancesAreTrue, AllConfirmed, Confirmed
    <2>2. AllConfirmed(cache)'
      BY <1>2, <1>3, <1>6 DEF Inv, AcceptancesAreTrue, AllConfirmed, Confirmed
    <2>3. Confirmed(reply)' /\ AllConfirmed(answers)'
      BY <1>3, <1>4 DEF Inv, AcceptancesAreTrue, AllConfirmed, Confirmed
    <2>4. QED
      BY <2>1, <2>2, <2>3 DEF AcceptancesAreTrue
  <1>10. QED
    BY <1>7, <1>8, <1>9 DEF Inv

\* What is admissible has never been applied: its revision is not below the session's
\* baseline, and that of an applied request is.
LEMMA AdmissibleIsNew ==
  ASSUME Inv, NEW k \in DOMAIN sent, k \in Requests, Admissible(k)
  PROVE  applied[k] = 0
  <1>1. sent[k] \in [dim : Dimensions, rev : Nat]
    <2>1. sent \in Seq([dim : Dimensions, rev : Nat]) /\ k \in 1 .. Len(sent)
      BY LenProperties DEF Inv, Types
    <2>2. QED
      BY <2>1, ElementOfSeq
  <1>2. applied[k] \in Nat /\ lastRev \in Nat
    BY DEF Inv, Types
  <1>3. sent[k].dim = dim /\ sent[k].rev >= lastRev
    BY DEF Admissible
  <1>4. Behind(k)
    BY DEF Inv, Baseline
  <1>5. QED
    BY <1>1, <1>2, <1>3, <1>4 DEF Behind

LEMMA AcceptInv ==
  ASSUME Inv, NEW k \in DOMAIN sent, k \in Requests, Accept(k)
  PROVE  Inv'
  <1> DEFINE r == clock[dim] + 1
  <1> DEFINE a == Accepted(k, r)
  <1>1. r \in Nat /\ r # 0 /\ clock[dim] \in Nat /\ r > clock[dim]
    BY DEF Inv, Types
  <1>2. a \in Responses /\ a \in Packets
    BY <1>1 DEF Accepted, Responses, Packets
  <1>3. /\ Respond(a) /\ Record(k, r) /\ Admissible(k)
        /\ clock' = [clock EXCEPT ![dim] = r]
        /\ applied' = [applied EXCEPT ![k] = r]
        /\ dim' = dim
    BY DEF Accept
  <1>4. applied[k] = 0
    BY <1>3, AdmissibleIsNew
  <1>5. a.ok /\ a.seq = r /\ a.id = k
    BY DEF Accepted
  <1> HIDE DEF r, a
  <1>6. UNCHANGED <<client, session, reply, answers>> /\ Project(a)
    BY <1>3 DEF Respond, TickUnchanged
  <1>7. lastRev' = r /\ cache' = Remember(cache, a)
    BY <1>3 DEF Record, a
  <1>8. /\ host' \in Seq(Packets)
        /\ \A i \in DOMAIN host' :
             host'[i] = a \/ \E l \in DOMAIN host : host'[i] = host[l]
    BY <1>2, <1>6, Projected DEF Inv, Types
  <1>9. /\ cache' \in Seq(Responses)
        /\ \A i \in DOMAIN cache' :
             cache'[i] = a \/ \E l \in DOMAIN cache : cache'[i] = cache[l]
    <2>1. cache \in Seq(Responses) /\ CacheCapacity \in Nat \ {0}
      BY GameplayRequestsAssumption DEF Inv, Types
    <2>2. QED
      BY <1>2, <1>7, <2>1, RemembersOldOrNew
  <1>10. applied'[k] = r /\ \A l \in Requests : applied[l] # 0 => applied'[l] = applied[l]
    BY <1>3, <1>4 DEF Inv, Types
  <1>11. Types'
    <2>1. clock' \in [Dimensions -> Nat] /\ applied' \in [Requests -> Nat]
      BY <1>1, <1>3 DEF Inv, Types
    <2>2. QED
      BY <1>1, <1>3, <1>6, <1>7, <1>8, <1>9, <2>1 DEF Inv, Types, client, session
  <1>12. Baseline'
    <2>1. clock'[dim] = r /\ \A d \in Dimensions : clock[d] <= clock'[d]
      BY <1>1, <1>3 DEF Inv, Types
    <2>2. sent' = sent
      BY <1>6 DEF client
    <2>3. ASSUME NEW l \in Requests PROVE Behind(l)'
      <3>1. CASE l = k
        <4>1. sent[k] \in [dim : Dimensions, rev : Nat] /\ sent[k].dim = dim
              /\ sent[k].rev <= clock[dim]
          <5>1. sent \in Seq([dim : Dimensions, rev : Nat]) /\ k \in 1 .. Len(sent)
            BY LenProperties DEF Inv, Types
          <5>2. QED
            BY <5>1, <1>3, ElementOfSeq DEF Admissible
        <4>2. QED
          BY <1>1, <1>3, <1>7, <1>10, <2>1, <2>2, <3>1, <4>1 DEF Behind
      <3>2. CASE l # k
        <4>1. applied'[l] = applied[l] /\ applied[l] \in Nat
          BY <1>3, <3>2 DEF Inv, Types
        <4>2. Behind(l)
          BY DEF Inv, Baseline
        <4>3. ASSUME applied[l] # 0 PROVE Behind(l)'
          <5>1. sent[l] \in [dim : Dimensions, rev : Nat]
            <6>1. sent \in Seq([dim : Dimensions, rev : Nat]) /\ l \in 1 .. Len(sent)
              BY <4>2, <4>3, LenProperties DEF Inv, Types, Behind
            <6>2. QED
              BY <6>1, ElementOfSeq
          <5>2. clock[sent[l].dim] \in Nat /\ clock'[sent[l].dim] \in Nat
                /\ clock[sent[l].dim] <= clock'[sent[l].dim]
            BY <5>1, <1>11, <2>1 DEF Inv, Types
          <5>3. applied[l] <= clock[sent[l].dim] /\ sent[l].rev < applied[l]
            BY <4>2, <4>3 DEF Behind
          <5>4. sent[l].dim = dim => applied[l] <= r
            BY <1>1, <4>1, <5>3
          <5>5. QED
            BY <1>3, <1>7, <2>2, <4>1, <4>2, <4>3, <5>1, <5>2, <5>3, <5>4 DEF Behind
        <4>4. QED
          BY <4>1, <4>3 DEF Behind
      <3>3. QED
        BY <3>1, <3>2
    <2>4. QED
      BY <1>1, <1>3, <1>7, <2>1, <2>3 DEF Baseline
  <1>13. AcceptancesAreTrue'
    <2>1. a.seq # 0 /\ a.seq = applied'[a.id]
      BY <1>1, <1>5, <1>10
    <2>2. ASSUME NEW p, p \in Packets \union {Nothing}, Confirmed(p)
          PROVE  p.kind = "response" /\ p.ok => p.seq # 0 /\ p.seq = applied'[p.id]
      <3>1. CASE p \in Responses
        BY <3>1, <2>2, <1>10 DEF Responses, Confirmed
      <3>2. CASE p \notin Responses
        BY <3>2, <2>2 DEF Packets, Nothing
      <3>3. QED
        BY <3>1, <3>2
    <2>3. Confirmed(reply)'
      BY <1>6, <2>2 DEF Inv, Types, AcceptancesAreTrue, Confirmed
    <2>4. AllConfirmed(answers)'
      <3>1. ASSUME NEW i \in DOMAIN answers PROVE answers[i] \in Packets
        BY LenProperties, ElementOfSeq DEF Inv, Types
      <3>2. QED
        BY <1>6, <2>2, <3>1 DEF Inv, AcceptancesAreTrue, AllConfirmed, Confirmed
    <2>5. AllConfirmed(host)'
      <3>1. ASSUME NEW i \in DOMAIN host PROVE host[i] \in Packets
        BY LenProperties, ElementOfSeq DEF Inv, Types
      <3>2. QED
        BY <1>8, <2>1, <2>2, <3>1 DEF Inv, AcceptancesAreTrue, AllConfirmed, Confirmed
    <2>6. AllConfirmed(cache)'
      <3>1. ASSUME NEW i \in DOMAIN cache PROVE cache[i] \in Packets
        BY LenProperties, ElementOfSeq DEF Inv, Types, Packets
      <3>2. QED
        BY <1>9, <2>1, <2>2, <3>1 DEF Inv, AcceptancesAreTrue, AllConfirmed, Confirmed
    <2>7. QED
      BY <2>3, <2>4, <2>5, <2>6 DEF AcceptancesAreTrue
  <1>14. QED
    BY <1>11, <1>12, <1>13 DEF Inv

\* A clock that only rises, and a baseline that rises with it, leave everything behind.
LEMMA WorldMutationInv ==
  ASSUME Inv, NEW d \in Dimensions, NEW baseline \in BOOLEAN, WorldMutation(d, baseline)
  PROVE  Inv'
  <1>1. /\ clock' = [clock EXCEPT ![d] = clock[d] + 1]
        /\ baseline => d = dim
        /\ lastRev' = IF baseline THEN clock'[d] ELSE lastRev
        /\ UNCHANGED <<client, session, reply, answers, host, dim, cache, applied>>
    BY DEF WorldMutation, TickUnchanged
  <1>2. /\ clock' \in [Dimensions -> Nat] /\ clock'[d] = clock[d] + 1 /\ clock[d] \in Nat
        /\ \A e \in Dimensions : e # d => clock'[e] = clock[e]
    BY <1>1 DEF Inv, Types
  <1>3. lastRev \in Nat /\ lastRev' \in Nat /\ lastRev <= lastRev' /\ lastRev' <= clock'[dim]
    BY <1>1, <1>2 DEF Inv, Types, Baseline
  <1>4. Types'
    BY <1>1, <1>2, <1>3 DEF Inv, Types, client, session
  <1>5. Baseline'
    <2>1. ASSUME NEW l \in Requests, applied[l] # 0 PROVE Behind(l)'
      <3>1. Behind(l) /\ applied[l] \in Nat
        BY DEF Inv, Types, Baseline
      <3>2. sent[l] \in [dim : Dimensions, rev : Nat]
        <4>1. sent \in Seq([dim : Dimensions, rev : Nat]) /\ l \in 1 .. Len(sent)
          BY <2>1, <3>1, LenProperties DEF Inv, Types, Behind
        <4>2. QED
          BY <4>1, ElementOfSeq
      <3>3. clock[sent[l].dim] \in Nat /\ clock[sent[l].dim] <= clock'[sent[l].dim]
            /\ clock'[sent[l].dim] \in Nat
        <4>1. sent[l].dim \in Dimensions
          BY <3>2
        <4>2. clock \in [Dimensions -> Nat]
          BY DEF Inv, Types
        <4>3. clock[sent[l].dim] \in Nat /\ clock'[sent[l].dim] \in Nat
          BY <1>2, <4>1, <4>2
        <4>4. CASE sent[l].dim = d
          BY <1>2, <4>3, <4>4
        <4>5. CASE sent[l].dim # d
          BY <1>2, <4>1, <4>3, <4>5
        <4>6. QED
          BY <4>3, <4>4, <4>5
      <3>4. sent' = sent /\ applied' = applied /\ dim' = dim
        BY <1>1 DEF client
      <3>5. QED
        BY <1>3, <2>1, <3>1, <3>3, <3>4 DEF Behind
    <2>2. \A l \in Requests : Behind(l)'
      BY <1>1, <2>1 DEF Behind
    <2>3. QED
      BY <1>1, <1>3, <2>2 DEF Baseline
  <1>6. AcceptancesAreTrue'
    BY <1>1 DEF Inv, AcceptancesAreTrue, AllConfirmed, Confirmed
  <1>7. QED
    BY <1>4, <1>5, <1>6 DEF Inv

\* The baseline restarts at the revision of the new dimension, which is past all that
\* was applied there.
LEMMA TransferInv == ASSUME Inv, NEW d \in Dimensions, Transfer(d) PROVE Inv'
  <1>1. /\ dim' = d /\ lastRev' = clock[d] /\ Project(DimensionTransfer(d))
        /\ UNCHANGED <<client, session, reply, answers, clock, cache, applied>>
    BY DEF Transfer, TickUnchanged
  <1>2. DimensionTransfer(d) \in Packets /\ DimensionTransfer(d).kind = "transfer"
    BY DEF DimensionTransfer, Packets
  <1>3. /\ host' \in Seq(Packets)
        /\ \A i \in DOMAIN host' : host'[i] = DimensionTransfer(d)
             \/ \E l \in DOMAIN host : host'[i] = host[l]
    BY <1>1, <1>2, Projected DEF Inv, Types
  <1>4. clock[d] \in Nat
    BY DEF Inv, Types
  <1>5. Types'
    BY <1>1, <1>3, <1>4 DEF Inv, Types, client, session
  <1>6. Baseline'
    BY <1>1, <1>4 DEF Inv, Baseline, Behind, client
  <1>7. AcceptancesAreTrue'
    <2>1. AllConfirmed(host)'
      BY <1>1, <1>2, <1>3 DEF Inv, AcceptancesAreTrue, AllConfirmed, Confirmed
    <2>2. Confirmed(reply)' /\ AllConfirmed(answers)' /\ AllConfirmed(cache)'
      BY <1>1 DEF Inv, AcceptancesAreTrue, AllConfirmed, Confirmed
    <2>3. QED
      BY <2>1, <2>2 DEF AcceptancesAreTrue
  <1>8. QED
    BY <1>5, <1>6, <1>7 DEF Inv

LEMMA DeliverInv == Inv /\ Deliver => Inv'
  <1> SUFFICES ASSUME Inv, Deliver PROVE Inv'
    OBVIOUS
  <1> DEFINE p == Head(host)
  <1>1. /\ host # << >> /\ host \in Seq(Packets) /\ host' = Tail(host)
        /\ UNCHANGED <<client, reply, authority>>
    BY DEF Deliver, Inv, Types
  <1>2. /\ host' \in Seq(Packets) /\ p \in Packets /\ 1 \in DOMAIN host /\ p = host[1]
        /\ \A i \in DOMAIN host' : \E l \in DOMAIN host : host'[i] = host[l]
    BY <1>1, TailHolds
  <1>3. Confirmed(p)
    BY <1>2 DEF Inv, AcceptancesAreTrue, AllConfirmed
  <1>4. \E q \in Packets : Confirmed(q) /\ answers' = Append(answers, q)
    <2>1. CASE p.kind = "response"
      <3> DEFINE q == [p EXCEPT !.seq = IF p.seq = 0 THEN serverSeq' ELSE p.seq]
      <3>1. p \in Responses
        BY <1>2, <2>1 DEF Packets
      <3>2. p.seq \in Nat /\ serverSeq' \in Nat
            /\ serverSeq' = IF p.seq = 0 THEN serverSeq + 1 ELSE Higher(serverSeq, p.seq)
        <4>1. p.seq \in Nat /\ serverSeq \in Nat
          BY <3>1 DEF Responses, Inv, Types
        <4>2. serverSeq' = IF p.seq = 0 THEN serverSeq + 1 ELSE Higher(serverSeq, p.seq)
          BY <2>1 DEF Deliver
        <4>3. QED
          BY <4>1, <4>2 DEF Higher
      <3>3. q \in Responses /\ q.ok = p.ok /\ q.id = p.id
            /\ q.seq = IF p.seq = 0 THEN serverSeq' ELSE p.seq
        BY <3>1, <3>2 DEF Responses
      <3>4. Confirmed(q)
        BY <1>3, <2>1, <3>3 DEF Confirmed
      <3>5. answers' = Append(answers, q)
        BY <2>1 DEF Deliver, Enqueue
      <3>6. QED
        BY <3>3, <3>4, <3>5 DEF Packets
    <2>2. CASE p.kind # "response"
      BY <1>2, <1>3, <2>2 DEF Deliver, Enqueue
    <2>3. QED
      BY <2>1, <2>2
  <1>5. PICK q \in Packets : Confirmed(q) /\ answers' = Append(answers, q)
    BY <1>4
  <1>6. /\ answers' \in Seq(Packets)
        /\ \A i \in DOMAIN answers' :
             answers'[i] = q \/ \E l \in DOMAIN answers : answers'[i] = answers[l]
    BY <1>5, AppendHolds DEF Inv, Types
  <1>7. serverSeq' \in Nat
    <2>1. CASE p.kind = "response"
      <3>1. p.seq \in Nat
        BY <1>2, <2>1 DEF Packets, Responses
      <3>2. QED
        BY <2>1, <3>1 DEF Deliver, Higher, Inv, Types
    <2>2. CASE p.kind # "response"
      BY <2>2 DEF Deliver, Inv, Types
    <2>3. QED
      BY <2>1, <2>2
  <1> HIDE DEF p
  <1>8. Types'
    BY <1>1, <1>2, <1>6, <1>7 DEF Inv, Types, client, authority
  <1>9. Baseline'
    BY <1>1, BaselineStays DEF Inv, client, authority
  <1>10. AcceptancesAreTrue'
    <2>1. AllConfirmed(host)'
      BY <1>1, <1>2 DEF Inv, AcceptancesAreTrue, AllConfirmed, Confirmed, authority
    <2>2. AllConfirmed(answers)'
      BY <1>1, <1>5, <1>6 DEF Inv, AcceptancesAreTrue, AllConfirmed, Confirmed, authority
    <2>3. Confirmed(reply)' /\ AllConfirmed(cache)'
      BY <1>1 DEF Inv, AcceptancesAreTrue, AllConfirmed, Confirmed, authority
    <2>4. QED
      BY <2>1, <2>2, <2>3 DEF AcceptancesAreTrue
  <1>11. QED
    BY <1>8, <1>9, <1>10 DEF Inv

LEMMA StutterInv == Inv /\ UNCHANGED vars => Inv'
  <1> SUFFICES ASSUME Inv, UNCHANGED vars PROVE Inv'
    OBVIOUS
  <1>1. UNCHANGED <<client, session, network, authority>>
    BY DEF vars
  <1>2. Types'
    BY <1>1 DEF Inv, Types, client, session, network, authority
  <1>3. Baseline'
    BY <1>1, BaselineStays DEF Inv, client, authority
  <1>4. AcceptancesAreTrue'
    BY <1>1 DEF Inv, AcceptancesAreTrue, AllConfirmed, Confirmed, network, authority
  <1>5. QED
    BY <1>2, <1>3, <1>4 DEF Inv

-----------------------------------------------------------------------------

LEMMA SentAreRequests == Inv => DOMAIN sent \subseteq Requests
  <1> SUFFICES ASSUME Inv PROVE DOMAIN sent \subseteq Requests
    OBVIOUS
  <1>1. DOMAIN sent = 1 .. Len(sent) /\ Len(sent) \in Nat /\ Len(sent) <= MaxRequests
    BY LenProperties DEF Inv, Types
  <1>2. QED
    BY <1>1, GameplayRequestsAssumption DEF Requests

LEMMA AuthorityInv == Inv /\ Authority => Inv'
  <1> SUFFICES ASSUME Inv, Authority PROVE Inv'
    OBVIOUS
  <1> PICK k \in DOMAIN sent :
        \/ ReplayCached(k) \/ RejectMalformed(k) \/ RejectPreflight(k)
        \/ RejectOperation(k)
        \/ Accept(k)
    BY DEF Authority
  <1>1. k \in Requests
    BY SentAreRequests
  <1>2. CASE ReplayCached(k)
    BY <1>1, <1>2, ReplayInv
  <1>3. CASE RejectMalformed(k) \/ RejectPreflight(k)
              \/ RejectOperation(k)
    <2>1. CASE RejectMalformed(k)
      <3>1. Reject(k, FALSE)
        BY <2>1 DEF RejectMalformed
      <3>2. QED
        BY <1>1, <3>1, RejectInv
    <2>2. CASE RejectPreflight(k)
      <3>1. Reject(k, TRUE)
        BY <2>2 DEF RejectPreflight
      <3>2. QED
        BY <1>1, <3>1, RejectInv
    <2>3. CASE RejectOperation(k)
      <3>1. Reject(k, TRUE)
        BY <2>3 DEF RejectOperation
      <3>2. QED
        BY <1>1, <3>1, RejectInv
    <2>4. QED
      BY <1>3, <2>1, <2>2, <2>3
  <1>4. CASE Accept(k)
    BY <1>1, <1>4, AcceptInv
  <1>5. QED
    BY <1>2, <1>3, <1>4

LEMMA StepInv == Inv /\ [Next]_vars => Inv'
  <1> SUFFICES ASSUME Inv, [Next]_vars PROVE Inv'
    OBVIOUS
  <1>1. CASE Submit
    BY <1>1, SubmitInv
  <1>2. CASE \E k \in DOMAIN sent : Resend(k)
    BY <1>2, ResendInv
  <1>3. CASE \E r \in 1 .. clock[where] : Learn(r)
    BY <1>3, LearnInv
  <1>4. CASE Client
    BY <1>4, ReceiveInv DEF Client
  <1>5. CASE Ingress \/ SendReply
    BY <1>5, IngressInv, SendReplyInv
  <1>6. CASE Authority
    BY <1>6, AuthorityInv
  <1>7. CASE \E d \in Dimensions, baseline \in BOOLEAN : WorldMutation(d, baseline)
    BY <1>7, WorldMutationInv
  <1>8. CASE \E d \in Dimensions : Transfer(d)
    BY <1>8, TransferInv
  <1>9. CASE Deliver
    BY <1>9, DeliverInv
  <1>10. CASE UNCHANGED vars
    BY <1>10, StutterInv
  <1>11. QED
    BY <1>1, <1>2, <1>3, <1>4, <1>5, <1>6, <1>7, <1>8, <1>9, <1>10 DEF Next

\* What has been applied is not applied again: only Accept writes "applied", and it
\* finds nothing there.
LEMMA AppliedStays ==
  ASSUME Inv, [Next]_vars, NEW k \in Requests, applied[k] # 0
  PROVE  applied'[k] = applied[k]
  <1>1. CASE \E l \in DOMAIN sent : Accept(l)
    <2> PICK l \in DOMAIN sent : Accept(l)
      BY <1>1
    <2>1. applied[l] = 0
      BY AdmissibleIsNew, SentAreRequests DEF Accept
    <2>2. QED
      BY <2>1 DEF Accept
  <1>2. CASE ~\E l \in DOMAIN sent : Accept(l)
    <2>1. applied' = applied
      <3>1. CASE Authority
        BY <1>2, <3>1 DEF Authority, ReplayCached, RejectMalformed, RejectPreflight,
                          RejectOperation, Reject, authority
      <3>2. CASE Ingress
        BY <3>2 DEF Ingress, IgnoreInFlight, ForwardRetransmit, RejectOutOfOrder,
                    ForwardFresh, RejectRateLimited, IngressTakes, authority
      <3>3. CASE ~Authority /\ ~Ingress
        BY <3>3 DEF Next, Submit, Resend, Learn, Client, ReceiveResponse, ReceiveTransfer,
                    SendReply, WorldMutation, Transfer, Deliver, vars, authority
      <3>4. QED
        BY <3>1, <3>2, <3>3
    <2>2. QED
      BY <2>1
  <1>3. QED
    BY <1>1, <1>2

\* However often an envelope is sent again, and whatever the response cache and the
\* network thread have forgotten, the world takes the request at most once: the session's
\* baseline (preflight_session) refuses what lies behind it even where an out-of-order
\* rejection has lowered the sequence.
THEOREM AppliedAtMostOnce == Spec => AtMostOnce
  <1>1. Inv /\ [Next]_vars
          => [\A k \in Requests : applied[k] # 0 => applied'[k] = applied[k]]_vars
    BY AppliedStays
  <1>2. QED
    BY <1>1, InitInv, StepInv, PTL DEF Spec, AtMostOnce

-----------------------------------------------------------------------------
(* Where a request is while the authority owes it an answer.               *)

Contains(q, M) == \E i \in DOMAIN q : q[i] \in M
ContainsOnce(q, M) == \A i, j \in DOMAIN q : q[i] \in M /\ q[j] \in M => i = j
AnswersTo(k) == {r \in Responses : r.id = k}

\* A request is in at most one place, once: with the tick thread, answered in the host
\* queue, or its answer dropped; and in flight exactly when it is in one of them.
InOnePlace(k) ==
  /\ ContainsOnce(events, {k}) /\ ContainsOnce(host, AnswersTo(k))
  /\ Contains(events, {k}) => ~Contains(host, AnswersTo(k))
  /\ k \in lost => ~Contains(events, {k}) /\ ~Contains(host, AnswersTo(k))
  /\ k \in inFlight
       <=> Contains(events, {k}) \/ Contains(host, AnswersTo(k)) \/ k \in lost

Placed ==
  /\ events \in Seq(Requests)
  /\ \A k \in Requests : InOnePlace(k)

LEMMA AppendContains ==
  ASSUME NEW S, NEW q \in Seq(S), NEW x \in S, NEW M
  PROVE  /\ Contains(Append(q, x), M) <=> Contains(q, M) \/ x \in M
         /\ ContainsOnce(q, M) /\ (x \in M => ~Contains(q, M))
              => ContainsOnce(Append(q, x), M)
  <1>1. /\ Len(Append(q, x)) = Len(q) + 1 /\ Append(q, x) \in Seq(S)
        /\ \A i \in 1 .. Len(q) : Append(q, x)[i] = q[i]
        /\ Append(q, x)[Len(q) + 1] = x
    BY AppendProperties
  <1>2. DOMAIN Append(q, x) = 1 .. Len(q) + 1 /\ DOMAIN q = 1 .. Len(q) /\ Len(q) \in Nat
    BY <1>1, LenProperties
  <1>3. DOMAIN Append(q, x) = DOMAIN q \union {Len(q) + 1}
    BY <1>2
  <1>4. QED
    BY <1>1, <1>2, <1>3 DEF Contains, ContainsOnce

LEMMA TailContains ==
  ASSUME NEW S, NEW q \in Seq(S), q # << >>, NEW M, ContainsOnce(q, M)
  PROVE  /\ Contains(Tail(q), M) <=> Contains(q, M) /\ Head(q) \notin M
         /\ ContainsOnce(Tail(q), M)
         /\ Head(q) \in M => Contains(q, M)
  <1>1. /\ Tail(q) \in Seq(S) /\ Len(Tail(q)) = Len(q) - 1
        /\ \A i \in 1 .. Len(Tail(q)) : Tail(q)[i] = q[i + 1]
    BY HeadTailProperties
  <1>2. /\ DOMAIN Tail(q) = 1 .. Len(q) - 1 /\ DOMAIN q = 1 .. Len(q)
        /\ Len(q) \in Nat /\ Len(q) # 0
    BY <1>1, LenProperties, EmptySeq
  <1>3. Head(q) = q[1] /\ 1 \in DOMAIN q
    BY <1>2, TailHolds
  <1>4. \A i \in DOMAIN Tail(q) : i + 1 \in DOMAIN q /\ i + 1 # 1 /\ Tail(q)[i] = q[i + 1]
    BY <1>1, <1>2
  <1>5. ContainsOnce(Tail(q), M)
    <2> SUFFICES ASSUME NEW i \in DOMAIN Tail(q), NEW j \in DOMAIN Tail(q),
                        Tail(q)[i] \in M, Tail(q)[j] \in M
                 PROVE  i = j
      BY DEF ContainsOnce
    <2>1. i + 1 = j + 1
      BY <1>4 DEF ContainsOnce
    <2>2. QED
      BY <1>2, <2>1
  <1>6. Contains(Tail(q), M) => Contains(q, M) /\ Head(q) \notin M
    BY <1>3, <1>4 DEF Contains, ContainsOnce
  <1>7. ASSUME Contains(q, M), Head(q) \notin M PROVE Contains(Tail(q), M)
    <2> PICK i \in DOMAIN q : q[i] \in M
      BY <1>7 DEF Contains
    <2>1. i # 1
      BY <1>3, <1>7
    <2>2. i - 1 \in DOMAIN Tail(q) /\ (i - 1) + 1 = i
      BY <1>2, <2>1
    <2>3. QED
      BY <1>4, <2>2 DEF Contains
  <1>8. QED
    BY <1>3, <1>5, <1>6, <1>7 DEF Contains

LEMMA PlacedInit == Init => Placed
  <1> SUFFICES ASSUME Init PROVE Placed
    OBVIOUS
  <1>1. << >> \in Seq(Requests) /\ DOMAIN << >> = {}
    BY EmptySeq
  <1>2. QED
    BY <1>1 DEF Init, Placed, InOnePlace, Contains, ContainsOnce

LEMMA PlacedStays ==
  ASSUME Placed, UNCHANGED <<inFlight, events, host, lost>>
  PROVE  Placed'
  BY DEF Placed, InOnePlace, Contains, ContainsOnce, AnswersTo

\* The ingress task forwards only what is not in flight.
LEMMA ForwardPlaced ==
  ASSUME Placed, NEW k \in Requests, k \notin inFlight,
         Forward(k) \/ RejectAtIngress(k), UNCHANGED <<host, lost>>
  PROVE  Placed'
  <1>1. CASE inFlight' = inFlight \union {k} /\ events' = Append(events, k)
    <2>1. events' \in Seq(Requests)
      BY <1>1, AppendProperties DEF Placed
    <2>2. ASSUME NEW l \in Requests PROVE InOnePlace(l)'
      <3>1. /\ Contains(events, {l})' <=> Contains(events, {l}) \/ l = k
            /\ ContainsOnce(events, {l}) /\ (l = k => ~Contains(events, {l}))
                 => ContainsOnce(events, {l})'
        <4>1. /\ Contains(Append(events, k), {l}) <=> Contains(events, {l}) \/ k \in {l}
              /\ ContainsOnce(events, {l}) /\ (k \in {l} => ~Contains(events, {l}))
                   => ContainsOnce(Append(events, k), {l})
          BY AppendContains DEF Placed
        <4>2. QED
          BY <1>1, <4>1 DEF Contains, ContainsOnce
      <3>2. Contains(host, AnswersTo(l))' <=> Contains(host, AnswersTo(l))
        BY DEF Contains, AnswersTo
      <3>3. ContainsOnce(host, AnswersTo(l))' <=> ContainsOnce(host, AnswersTo(l))
        BY DEF ContainsOnce, AnswersTo
      <3>4. InOnePlace(l) /\ (l = k => l \notin inFlight)
        BY DEF Placed
      <3>5. QED
        BY <1>1, <3>1, <3>2, <3>3, <3>4 DEF InOnePlace
    <2>3. QED
      BY <2>1, <2>2 DEF Placed
  <1>2. CASE RejectAtIngress(k)
    <2>1. inFlight' = inFlight /\ events' = events
      BY <1>2 DEF RejectAtIngress, MarkCompleted
    <2>2. QED
      BY <2>1, PlacedStays
  <1>3. QED
    BY <1>1, <1>2 DEF Forward

LEMMA IngressPlaced == Inv /\ Placed /\ Ingress => Placed'
  <1> SUFFICES ASSUME Inv, Placed, Ingress PROVE Placed'
    OBVIOUS
  <1> PICK k \in DOMAIN sent : \/ IgnoreInFlight(k) \/ ForwardRetransmit(k)
                               \/ RejectOutOfOrder(k) \/ ForwardFresh(k)
                               \/ RejectRateLimited(k)
    BY DEF Ingress
  <1>1. k \in Requests
    BY SentAreRequests
  <1>2. UNCHANGED <<host, lost>>
    BY DEF IgnoreInFlight, ForwardRetransmit, RejectOutOfOrder, ForwardFresh,
           RejectRateLimited, IngressTakes
  <1>3. CASE IgnoreInFlight(k)
    BY <1>2, <1>3, PlacedStays DEF IgnoreInFlight, session
  <1>4. CASE ~IgnoreInFlight(k)
    <2>1. k \notin inFlight /\ (Forward(k) \/ RejectAtIngress(k))
      BY <1>4 DEF ForwardRetransmit, RejectOutOfOrder, ForwardFresh, RejectRateLimited
    <2>2. QED
      BY <1>1, <1>2, <2>1, ForwardPlaced
  <1>5. QED
    BY <1>3, <1>4

\* What the host queue contains of answers to l after a packet was projected.
LEMMA ProjectContains ==
  ASSUME host \in Seq(Packets), NEW p \in Packets, Project(p), NEW M
  PROVE  IF Len(host) < HostCapacity
         THEN /\ Contains(host', M) <=> Contains(host, M) \/ p \in M
              /\ ContainsOnce(host, M) /\ (p \in M => ~Contains(host, M))
                   => ContainsOnce(host', M)
         ELSE host' = host
  BY AppendContains DEF Project

\* The tick thread answers the request at the head of its queue: the answer takes the
\* request's place, in the host queue or among the dropped ones.
LEMMA RespondPlaced ==
  ASSUME Inv, Placed, NEW k, Serving(k), NEW r \in Responses, r.id = k, Respond(r)
  PROVE  Placed'
  <1>1. /\ events # << >> /\ events \in Seq(Requests) /\ k = Head(events)
        /\ events' = Tail(events)
    BY DEF Serving, Respond, Placed
  <1>2. k \in Requests /\ events' \in Seq(Requests)
    BY <1>1, TailHolds
  <1>3. host \in Seq(Packets) /\ r \in Packets /\ Project(r) /\ inFlight' = inFlight
        /\ lost' = IF Len(host) < HostCapacity THEN lost ELSE lost \union {k}
    BY DEF Respond, TickUnchanged, session, Packets, Inv, Types
  <1>4. ASSUME NEW l \in Requests PROVE InOnePlace(l)'
    <2>1. InOnePlace(l)
      BY DEF Placed
    <2>2. /\ Contains(events', {l}) <=> Contains(events, {l}) /\ l # k
          /\ ContainsOnce(events', {l})
          /\ l = k => Contains(events, {l})
      <3>1. /\ Contains(Tail(events), {l}) <=> Contains(events, {l}) /\ Head(events) \notin {l}
            /\ ContainsOnce(Tail(events), {l})
            /\ Head(events) \in {l} => Contains(events, {l})
        BY <1>1, <2>1, TailContains DEF InOnePlace
      <3>2. QED
        BY <1>1, <3>1
    <2>3. r \in AnswersTo(l) <=> l = k
      BY DEF AnswersTo
    <2>4. IF Len(host) < HostCapacity
          THEN /\ Contains(host', AnswersTo(l)) <=> Contains(host, AnswersTo(l)) \/ l = k
               /\ ContainsOnce(host, AnswersTo(l)) /\ (l = k => ~Contains(host, AnswersTo(l)))
                    => ContainsOnce(host', AnswersTo(l))
          ELSE host' = host
      BY <1>3, <2>3, ProjectContains
    <2>5. QED
      <3>1. CASE l = k
        <4>1. CASE Len(host) < HostCapacity
          BY <1>3, <2>1, <2>2, <2>4, <3>1, <4>1 DEF InOnePlace, Contains, ContainsOnce, AnswersTo
        <4>2. CASE ~(Len(host) < HostCapacity)
          BY <1>3, <2>1, <2>2, <2>4, <3>1, <4>2 DEF InOnePlace, Contains, ContainsOnce, AnswersTo
        <4>3. QED
          BY <4>1, <4>2
      <3>2. CASE l # k
        BY <1>3, <2>1, <2>2, <2>4, <3>2 DEF InOnePlace, Contains, ContainsOnce, AnswersTo
      <3>3. QED
        BY <3>1, <3>2
  <1>5. QED
    BY <1>2, <1>4 DEF Placed

LEMMA AuthorityPlaced == Inv /\ Placed /\ Authority => Placed'
  <1> SUFFICES ASSUME Inv, Placed, Authority PROVE Placed'
    OBVIOUS
  <1> PICK k \in DOMAIN sent :
        \/ ReplayCached(k) \/ RejectMalformed(k) \/ RejectPreflight(k)
        \/ RejectOperation(k)
        \/ Accept(k)
    BY DEF Authority
  <1>1. Serving(k) /\ k \in Requests
    BY SentAreRequests
    DEF ReplayCached, RejectMalformed, RejectPreflight, RejectOperation, Accept
  <1>2. clock[dim] \in Nat
    BY DEF Inv, Types
  <1>3. CASE ReplayCached(k)
    <2> PICK r \in Cached(k) : Respond(r)
      BY <1>3 DEF ReplayCached
    <2>1. PICK j \in DOMAIN cache : r = cache[j] /\ r.id = k
      BY DEF Cached, Elements
    <2>2. r \in Responses
      <3>1. j \in 1 .. Len(cache) /\ cache \in Seq(Responses)
        BY <2>1, LenProperties DEF Inv, Types
      <3>2. QED
        BY <2>1, <3>1, ElementOfSeq
    <2>3. QED
      BY <1>1, <2>1, <2>2, RespondPlaced
  <1>4. CASE RejectMalformed(k) \/ RejectPreflight(k) \/ RejectOperation(k)
    <2> DEFINE r == Rejected(k, clock[dim])
    <2>1. Respond(r)
      BY <1>4 DEF RejectMalformed, RejectPreflight, RejectOperation, Reject
    <2>2. r \in Responses /\ r.id = k
      BY <1>1, <1>2 DEF Rejected, Responses
    <2> HIDE DEF r
    <2>3. QED
      BY <1>1, <2>1, <2>2, RespondPlaced
  <1>5. CASE Accept(k)
    <2> DEFINE r == Accepted(k, clock[dim] + 1)
    <2>1. Respond(r)
      BY <1>5 DEF Accept
    <2>2. r \in Responses /\ r.id = k
      BY <1>1, <1>2 DEF Accepted, Responses
    <2> HIDE DEF r
    <2>3. QED
      BY <1>1, <2>1, <2>2, RespondPlaced
  <1>6. QED
    BY <1>3, <1>4, <1>5

\* A transfer notice is nobody's answer.
LEMMA TransferPlaced == ASSUME Inv, Placed, NEW d \in Dimensions, Transfer(d) PROVE Placed'
  <1> DEFINE p == DimensionTransfer(d)
  <1>1. p \in Packets /\ \A l : p \notin AnswersTo(l)
    BY DEF DimensionTransfer, Packets, AnswersTo, Responses
  <1>2. host \in Seq(Packets) /\ Project(p) /\ UNCHANGED <<inFlight, events, lost>>
    BY DEF Transfer, TickUnchanged, session, Inv, Types
  <1> HIDE DEF p
  <1>3. ASSUME NEW l \in Requests PROVE InOnePlace(l)'
    <2>1. /\ Contains(host', AnswersTo(l)) <=> Contains(host, AnswersTo(l))
          /\ ContainsOnce(host, AnswersTo(l)) => ContainsOnce(host', AnswersTo(l))
      BY <1>1, <1>2, ProjectContains
    <2>2. InOnePlace(l)
      BY DEF Placed
    <2>3. QED
      BY <1>2, <2>1, <2>2 DEF InOnePlace, Contains, ContainsOnce, AnswersTo
  <1>4. QED
    BY <1>2, <1>3 DEF Placed

\* The command loop delivers the head of the host queue: if it is an answer, its request
\* is in flight no longer.
LEMMA DeliverPlaced == Inv /\ Placed /\ Deliver => Placed'
  <1> SUFFICES ASSUME Inv, Placed, Deliver PROVE Placed'
    OBVIOUS
  <1> DEFINE p == Head(host)
  <1>1. /\ host # << >> /\ host \in Seq(Packets) /\ host' = Tail(host)
        /\ UNCHANGED <<events, lost>>
    BY DEF Deliver, Inv, Types
  <1>2. p \in Packets
    BY <1>1, TailHolds
  <1>3. p \in Responses <=> p.kind = "response"
    BY <1>2 DEF Packets, Responses
  <1>4. inFlight' = IF p \in Responses THEN inFlight \ {p.id} ELSE inFlight
    BY <1>3 DEF Deliver, MarkCompleted
  <1>5. ASSUME NEW l \in Requests PROVE InOnePlace(l)'
    <2>1. InOnePlace(l)
      BY DEF Placed
    <2>2. /\ Contains(host', AnswersTo(l)) <=> Contains(host, AnswersTo(l)) /\ p \notin AnswersTo(l)
          /\ ContainsOnce(host', AnswersTo(l))
          /\ p \in AnswersTo(l) => Contains(host, AnswersTo(l))
      BY <1>1, <2>1, TailContains DEF InOnePlace
    <2>3. p \in AnswersTo(l) <=> p \in Responses /\ p.id = l
      BY DEF AnswersTo
    <2>4. l \in inFlight' <=> l \in inFlight /\ p \notin AnswersTo(l)
      BY <1>4, <2>3
    <2> HIDE DEF p
    <2>5. QED
      BY <1>1, <2>1, <2>2, <2>4 DEF InOnePlace, Contains, ContainsOnce, AnswersTo
  <1>6. QED
    BY <1>1, <1>5 DEF Placed

LEMMA StepPlaced == Inv /\ Placed /\ [Next]_vars => Placed'
  <1> SUFFICES ASSUME Inv, Placed, [Next]_vars PROVE Placed'
    OBVIOUS
  <1>1. CASE Ingress
    BY <1>1, IngressPlaced
  <1>2. CASE Authority
    BY <1>2, AuthorityPlaced
  <1>3. CASE \E d \in Dimensions : Transfer(d)
    BY <1>3, TransferPlaced
  <1>4. CASE Deliver
    BY <1>4, DeliverPlaced
  <1>5. CASE Submit \/ (\E k \in DOMAIN sent : Resend(k))
               \/ (\E r \in 1 .. clock[where] : Learn(r)) \/ Client \/ SendReply
               \/ (\E d \in Dimensions, b \in BOOLEAN : WorldMutation(d, b))
               \/ UNCHANGED vars
    <2>1. UNCHANGED <<inFlight, events, host, lost>>
      BY <1>5 DEF Submit, Resend, Learn, Client, ReceiveResponse, ReceiveTransfer, SendReply,
                  WorldMutation, TickUnchanged, vars, session, network
    <2>2. QED
      BY <2>1, PlacedStays
  <1>6. QED
    BY <1>1, <1>2, <1>3, <1>4, <1>5 DEF Next

\* The index sets the property counts have at most one member each.
LEMMA PlacedAccounted == Inv /\ Placed => InFlightAccounted
  <1> SUFFICES ASSUME Inv, Placed, NEW k \in Requests
               PROVE  Occurrences(k, events) + Cardinality(Responding(k))
                        + (IF k \in lost THEN 1 ELSE 0)
                        = IF k \in inFlight THEN 1 ELSE 0
    BY DEF InFlightAccounted
  <1>1. InOnePlace(k)
    BY DEF Placed
  <1>2. Occurrences(k, events) = IF Contains(events, {k}) THEN 1 ELSE 0
    <2> DEFINE S == {i \in DOMAIN events : events[i] = k}
    <2>1. CASE Contains(events, {k})
      <3>1. PICK i : i \in S
        BY <2>1 DEF Contains
      <3>2. S = {i}
        BY <1>1, <3>1 DEF InOnePlace, ContainsOnce
      <3>3. QED
        BY <2>1, <3>2, FS_Singleton DEF Occurrences
    <2>2. CASE ~Contains(events, {k})
      <3>1. S = {}
        BY <2>2 DEF Contains
      <3>2. QED
        BY <2>2, <3>1, FS_EmptySet DEF Occurrences
    <2>3. QED
      BY <2>1, <2>2
  <1>3. Cardinality(Responding(k)) = IF Contains(host, AnswersTo(k)) THEN 1 ELSE 0
    <2>1. Responding(k) = {i \in DOMAIN host : host[i] \in AnswersTo(k)}
      <3>1. ASSUME NEW i \in DOMAIN host PROVE host[i] \in Packets
        BY LenProperties, ElementOfSeq DEF Inv, Types
      <3>2. ASSUME NEW p \in Packets
            PROVE  p \in AnswersTo(k) <=> p.kind = "response" /\ p.id = k
        BY DEF Packets, Responses, AnswersTo
      <3>3. QED
        BY <3>1, <3>2 DEF Responding
    <2>2. CASE Contains(host, AnswersTo(k))
      <3>1. PICK i : i \in Responding(k)
        BY <2>1, <2>2 DEF Contains
      <3>2. Responding(k) = {i}
        BY <1>1, <2>1, <3>1 DEF InOnePlace, ContainsOnce
      <3>3. QED
        BY <2>2, <3>2, FS_Singleton
    <2>3. CASE ~Contains(host, AnswersTo(k))
      <3>1. Responding(k) = {}
        BY <2>1, <2>3 DEF Contains
      <3>2. QED
        BY <2>3, <3>1, FS_EmptySet
    <2>4. QED
      BY <2>2, <2>3
  <1>4. QED
    BY <1>1, <1>2, <1>3 DEF InOnePlace

\* The network thread's in-flight set is exactly what the authority still owes: it neither
\* forgets a request that is queued or answered (which would let a copy through), nor keeps
\* one that was delivered; what it keeps for good is what the full host queue dropped.
THEOREM InFlightIsOwed == Spec => []InFlightAccounted
  <1>1. Inv /\ Placed /\ [Next]_vars => Inv' /\ Placed'
    BY StepInv, StepPlaced
  <1>2. QED
    BY <1>1, InitInv, PlacedInit, PlacedAccounted, PTL DEF Spec

-----------------------------------------------------------------------------
(* What a request sent once can have been told.                            *)

RejectionsOf(k) == {r \in AnswersTo(k) : ~r.ok}

Told(M) ==
  reply \in M \/ Contains(host, M) \/ Contains(answers, M) \/ Contains(cache, M)

Waiting(k) == Contains(requests, {k}) \/ Contains(events, {k}) \/ k \notin DOMAIN sent

\* A request whose envelope was sent once is under way once; as long as it is, nothing has
\* happened to it and nobody was told anything; and once it was applied nobody is told of a
\* rejection.
OnceUnderWay(k) ==
  /\ ContainsOnce(requests, {k})
  /\ Contains(requests, {k}) => ~Contains(events, {k})
  /\ k \notin DOMAIN sent => ~Contains(requests, {k}) /\ ~Contains(events, {k})
  /\ Waiting(k) => applied[k] = 0 /\ ~Told(AnswersTo(k))
  /\ applied[k] # 0 => ~Told(RejectionsOf(k))

Fresh ==
  /\ requests \in Seq(Requests)
  /\ \A k \in Requests \ repeated : OnceUnderWay(k)

FreshInv == Inv /\ Placed /\ Fresh

LEMMA FreshInit == Init => Fresh
  <1> SUFFICES ASSUME Init PROVE Fresh
    OBVIOUS
  <1>1. << >> \in Seq(Requests) /\ DOMAIN << >> = {}
    BY EmptySeq
  <1>2. \A k \in Requests : Nothing \notin AnswersTo(k)
    BY DEF Nothing, AnswersTo, Responses
  <1>3. QED
    BY <1>1, <1>2 DEF Init, Fresh, OnceUnderWay, Waiting, Told, Contains, ContainsOnce, RejectionsOf

\* A step that moves no request, applies none and tells nobody anything new.
LEMMA FreshStays ==
  ASSUME Fresh, UNCHANGED <<sent, requests, events, applied, repeated>>,
         \A k \in Requests : /\ Told(AnswersTo(k))' => Told(AnswersTo(k))
                             /\ Told(RejectionsOf(k))' => Told(RejectionsOf(k))
  PROVE  Fresh'
  <1>1. ASSUME NEW k \in Requests \ repeated PROVE OnceUnderWay(k)'
    <2>1. OnceUnderWay(k)
      BY DEF Fresh
    <2>2. /\ ContainsOnce(requests, {k})' <=> ContainsOnce(requests, {k})
          /\ Contains(requests, {k})' <=> Contains(requests, {k})
          /\ Contains(events, {k})' <=> Contains(events, {k})
      BY DEF Contains, ContainsOnce
    <2>3. QED
      BY <2>1, <2>2 DEF OnceUnderWay, Waiting
  <1>2. QED
    BY <1>1 DEF Fresh

\* A queue that loses its head or gains a packet.
LEMMA TailTold ==
  ASSUME NEW S, NEW q \in Seq(S), q # << >>, NEW M, Contains(Tail(q), M)
  PROVE  Contains(q, M)
  BY TailHolds DEF Contains

LEMMA HeadTold ==
  ASSUME NEW S, NEW q \in Seq(S), q # << >>, NEW M, Head(q) \in M
  PROVE  Contains(q, M)
  BY TailHolds DEF Contains

LEMMA RememberTold ==
  ASSUME NEW x \in Responses, NEW M, Inv, Contains(Remember(cache, x), M)
  PROVE  Contains(cache, M) \/ x \in M
  <1>1. cache \in Seq(Responses) /\ CacheCapacity \in Nat \ {0}
    BY GameplayRequestsAssumption DEF Inv, Types
  <1>2. \A i \in DOMAIN Remember(cache, x) :
          Remember(cache, x)[i] = x \/ \E j \in DOMAIN cache : Remember(cache, x)[i] = cache[j]
    BY <1>1, RemembersOldOrNew
  <1>3. QED
    BY <1>2 DEF Contains

LEMMA ProjectTold ==
  ASSUME host \in Seq(Packets), NEW p \in Packets, Project(p), NEW M, Contains(host', M)
  PROVE  Contains(host, M) \/ p \in M
  <1>1. \A i \in DOMAIN host' : host'[i] = p \/ \E j \in DOMAIN host : host'[i] = host[j]
    BY Projected
  <1>2. QED
    BY <1>1 DEF Contains

\* The next request is one nobody has heard of.
LEMMA SubmitFresh == ASSUME FreshInv, Submit PROVE Fresh'
  <1> DEFINE new == [dim |-> where, rev |-> known']
             n == Len(sent) + 1
  <1>1. new \in [dim : Dimensions, rev : Nat] /\ sent \in Seq([dim : Dimensions, rev : Nat])
    BY DEF Submit, Higher, FreshInv, Inv, Types
  <1>2. sent' = Append(sent, new)
    BY DEF Submit
  <1> HIDE DEF new
  <1>3. /\ Len(sent') = n /\ Len(sent) \in Nat
        /\ DOMAIN sent = 1 .. Len(sent) /\ DOMAIN sent' = 1 .. n
    BY <1>1, <1>2, AppendProperties, LenProperties
  <1>4. n \in Requests /\ n \notin DOMAIN sent /\ DOMAIN sent' = DOMAIN sent \union {n}
    BY <1>3, GameplayRequestsAssumption DEF Submit, Requests
  <1>5. requests' = Append(requests, n) /\ requests \in Seq(Requests)
    BY <1>3 DEF Submit, FreshInv, Fresh
  <1> HIDE DEF n
  <1>6. requests' \in Seq(Requests)
    BY <1>4, <1>5, AppendProperties
  <1>7. UNCHANGED <<reply, events, host, answers, cache, applied, repeated>>
    BY DEF Submit, network, authority, counters
  <1>8. ASSUME NEW k \in Requests \ repeated PROVE OnceUnderWay(k)'
    <2>1. OnceUnderWay(k)
      BY DEF FreshInv, Fresh
    <2>2. /\ Contains(requests', {k}) <=> Contains(requests, {k}) \/ k = n
          /\ ContainsOnce(requests, {k}) /\ (k = n => ~Contains(requests, {k}))
               => ContainsOnce(requests', {k})
      <3>1. /\ Contains(Append(requests, n), {k}) <=> Contains(requests, {k}) \/ n \in {k}
            /\ ContainsOnce(requests, {k}) /\ (n \in {k} => ~Contains(requests, {k}))
                 => ContainsOnce(Append(requests, n), {k})
        BY <1>4, <1>5, AppendContains
      <3>2. QED
        BY <1>5, <3>1
    <2>3. /\ Contains(events, {k})' <=> Contains(events, {k})
          /\ Told(AnswersTo(k))' <=> Told(AnswersTo(k))
          /\ Told(RejectionsOf(k))' <=> Told(RejectionsOf(k))
      BY <1>7 DEF Told, Contains, AnswersTo, RejectionsOf
    <2>4. /\ Contains(requests, {k})' <=> Contains(requests', {k})
          /\ ContainsOnce(requests, {k})' <=> ContainsOnce(requests', {k})
      BY DEF Contains, ContainsOnce
    <2>5. CASE k = n
      BY <1>4, <1>7, <2>1, <2>2, <2>3, <2>4, <2>5 DEF OnceUnderWay, Waiting
    <2>6. CASE k # n
      BY <1>4, <1>7, <2>1, <2>2, <2>3, <2>4, <2>6 DEF OnceUnderWay, Waiting
    <2>7. QED
      BY <2>5, <2>6
  <1>9. QED
    BY <1>6, <1>7, <1>8 DEF Fresh

\* The copy is one of a request that counts as repeated from now on.
LEMMA ResendFresh == ASSUME FreshInv, NEW n \in DOMAIN sent, Resend(n) PROVE Fresh'
  <1>1. /\ requests' = Append(requests, n) /\ repeated' = repeated \union {n}
        /\ requests \in Seq(Requests) /\ n \in Requests
        /\ UNCHANGED <<sent, reply, events, host, answers, cache, applied>>
    BY SentAreRequests DEF Resend, client, network, authority, FreshInv, Fresh
  <1>2. requests' \in Seq(Requests)
    BY <1>1, AppendProperties
  <1>3. ASSUME NEW k \in Requests \ repeated' PROVE OnceUnderWay(k)'
    <2>1. OnceUnderWay(k) /\ k # n
      BY <1>1 DEF FreshInv, Fresh
    <2>2. /\ Contains(Append(requests, n), {k}) <=> Contains(requests, {k})
          /\ ContainsOnce(requests, {k}) => ContainsOnce(Append(requests, n), {k})
      BY <1>1, <2>1, AppendContains
    <2>3. /\ Contains(requests, {k})' <=> Contains(requests, {k})
          /\ ContainsOnce(requests, {k}) => ContainsOnce(requests, {k})'
      BY <1>1, <2>2 DEF Contains, ContainsOnce
    <2>4. /\ Contains(events, {k})' <=> Contains(events, {k})
          /\ Told(AnswersTo(k))' <=> Told(AnswersTo(k))
          /\ Told(RejectionsOf(k))' <=> Told(RejectionsOf(k))
      BY <1>1 DEF Told, Contains, AnswersTo, RejectionsOf
    <2>5. QED
      BY <1>1, <2>1, <2>3, <2>4 DEF OnceUnderWay, Waiting
  <1>4. QED
    BY <1>2, <1>3 DEF Fresh

\* What the client reads, what the command loop numbers and delivers, and a notice of a
\* transfer tell nobody anything new.
LEMMA DeliveredFresh ==
  ASSUME FreshInv,
         \/ ReceiveResponse \/ ReceiveTransfer \/ SendReply \/ Deliver
         \/ \E d \in Dimensions : Transfer(d)
  PROVE  Fresh'
  <1>1. UNCHANGED <<sent, requests, events, cache, applied, repeated>>
    BY DEF ReceiveResponse, ReceiveTransfer, SendReply, Deliver, Transfer, TickUnchanged, client,
           network, authority, counters
  <1>2. host \in Seq(Packets) /\ answers \in Seq(Packets) /\ reply \in Packets \union {Nothing}
    BY DEF FreshInv, Inv, Types
  <1>3. ASSUME NEW k \in Requests, NEW M, M \in {AnswersTo(k), RejectionsOf(k)}, Told(M)'
        PROVE  Told(M)
    <2>1. M \subseteq Responses
      BY <1>3 DEF AnswersTo, RejectionsOf
    <2>2. reply' \in M \/ Contains(host', M) \/ Contains(answers', M) \/ Contains(cache', M)
      BY <1>3 DEF Told, Contains
    <2>3. CASE ReceiveResponse \/ ReceiveTransfer
      <3>1. answers # << >> /\ answers' = Tail(answers) /\ UNCHANGED <<reply, host>>
        BY <2>3 DEF ReceiveResponse, ReceiveTransfer
      <3>2. Contains(answers', M) => Contains(answers, M)
        BY <1>2, <3>1, TailTold
      <3>3. QED
        BY <1>1, <2>2, <3>1, <3>2 DEF Told
    <2>4. CASE SendReply
      <3>1. reply \in Packets /\ answers' = Append(answers, reply) /\ reply' = Nothing /\ host' = host
        BY <1>2, <2>4 DEF SendReply, Enqueue
      <3>2. Contains(answers', M) => Contains(answers, M) \/ reply \in M
        BY <1>2, <3>1, AppendContains
      <3>3. reply' \notin M
        BY <2>1, <3>1 DEF Nothing, Responses
      <3>4. QED
        BY <1>1, <2>2, <3>1, <3>2, <3>3 DEF Told
    <2>5. CASE Deliver
      <3> DEFINE p == Head(host)
      <3>1. host # << >> /\ host' = Tail(host) /\ reply' = reply
        BY <2>5 DEF Deliver
      <3>2. p \in Packets /\ (p \in M => Contains(host, M))
            /\ (Contains(host', M) => Contains(host, M))
        BY <1>2, <3>1, TailHolds, HeadTold, TailTold
      <3>3. \E q \in Packets : answers' = Append(answers, q) /\ (q \in M => p \in M)
        <4>1. CASE p.kind = "response"
          <5> DEFINE q == [p EXCEPT !.seq = IF p.seq = 0 THEN serverSeq' ELSE p.seq]
          <5>1. p \in Responses
            BY <3>2, <4>1 DEF Packets
          <5>2. serverSeq' \in Nat /\ p.seq \in Nat
            <6>1. p.seq \in Nat /\ serverSeq \in Nat
              BY <5>1 DEF Responses, FreshInv, Inv, Types
            <6>2. QED
              BY <2>5, <4>1, <6>1 DEF Deliver, Higher
          <5>3. q \in Responses /\ q.ok = p.ok /\ q.id = p.id
            BY <5>1, <5>2 DEF Responses
          <5>4. answers' = Append(answers, q)
            BY <2>5, <4>1 DEF Deliver, Enqueue
          <5>5. q \in M => p \in M
            BY <1>3, <5>1, <5>3 DEF AnswersTo, RejectionsOf
          <5>6. QED
            BY <5>3, <5>4, <5>5 DEF Packets
        <4>2. CASE p.kind # "response"
          BY <2>5, <3>2, <4>2 DEF Deliver, Enqueue
        <4>3. QED
          BY <4>1, <4>2
      <3>4. PICK q \in Packets : answers' = Append(answers, q) /\ (q \in M => p \in M)
        BY <3>3
      <3>5. Contains(answers', M) => Contains(answers, M) \/ q \in M
        BY <1>2, <3>4, AppendContains
      <3>6. QED
        BY <1>1, <2>2, <3>1, <3>2, <3>4, <3>5 DEF Told
    <2>6. CASE \E d \in Dimensions : Transfer(d)
      <3> PICK d \in Dimensions : Transfer(d)
        BY <2>6
      <3>1. DimensionTransfer(d) \in Packets /\ DimensionTransfer(d) \notin M
        BY <2>1 DEF DimensionTransfer, Packets, Responses
      <3>2. Project(DimensionTransfer(d)) /\ UNCHANGED <<reply, answers>>
        BY DEF Transfer, TickUnchanged
      <3>3. Contains(host', M) => Contains(host, M)
        BY <1>2, <3>1, <3>2, ProjectTold
      <3>4. QED
        BY <1>1, <2>2, <3>2, <3>3 DEF Told
    <2>7. QED
      BY <2>3, <2>4, <2>5, <2>6
  <1>4. \A k \in Requests : /\ Told(AnswersTo(k))' => Told(AnswersTo(k))
                            /\ Told(RejectionsOf(k))' => Told(RejectionsOf(k))
    <2>1. ASSUME NEW k \in Requests PROVE Told(AnswersTo(k))' => Told(AnswersTo(k))
      BY <1>3 DEF Told, Contains, AnswersTo
    <2>2. ASSUME NEW k \in Requests PROVE Told(RejectionsOf(k))' => Told(RejectionsOf(k))
      BY <1>3 DEF Told, Contains, AnswersTo, RejectionsOf
    <2>3. QED
      BY <2>1, <2>2
  <1>5. QED
    BY <1>1, <1>4, FreshStays DEF FreshInv

\* What leaves the connection goes to the tick thread or is answered, not both.
LEMMA IngressFresh == ASSUME FreshInv, Ingress PROVE Fresh'
  <1> PICK n \in DOMAIN sent : \/ IgnoreInFlight(n) \/ ForwardRetransmit(n)
                               \/ RejectOutOfOrder(n) \/ ForwardFresh(n)
                               \/ RejectRateLimited(n)
    BY DEF Ingress
  <1>1. /\ n \in Requests /\ requests # << >> /\ n = Head(requests) /\ requests' = Tail(requests)
        /\ requests \in Seq(Requests) /\ events \in Seq(Requests)
        /\ UNCHANGED <<sent, host, answers, cache, applied, repeated>>
    BY SentAreRequests
    DEF IgnoreInFlight, ForwardRetransmit, RejectOutOfOrder, ForwardFresh, RejectRateLimited,
        Arriving, IngressTakes, client, authority, counters, FreshInv, Fresh, Placed
  <1>2. \/ events' = events /\ reply' = reply
        \/ events' = Append(events, n) /\ reply' = reply
        \/ events' = events /\ reply' = Rejected(n, serverSeq')
    <2>1. CASE IgnoreInFlight(n)
      BY <2>1 DEF IgnoreInFlight
    <2>2. CASE Forward(n)
      BY <2>2 DEF Forward, RejectAtIngress
    <2>3. CASE RejectAtIngress(n)
      BY <2>3 DEF RejectAtIngress
    <2>4. QED
      BY <2>1, <2>2, <2>3
      DEF ForwardRetransmit, RejectOutOfOrder, ForwardFresh, RejectRateLimited
  <1>3. requests' \in Seq(Requests)
    BY <1>1, TailHolds
  <1>4. ASSUME NEW k \in Requests \ repeated PROVE OnceUnderWay(k)'
    <2>1. OnceUnderWay(k)
      BY DEF FreshInv, Fresh
    <2>2. /\ Contains(requests, {k})' <=> Contains(requests, {k}) /\ k # n
          /\ ContainsOnce(requests, {k})'
          /\ k = n => Contains(requests, {k})
      <3>1. /\ Contains(Tail(requests), {k}) <=> Contains(requests, {k}) /\ Head(requests) \notin {k}
            /\ ContainsOnce(Tail(requests), {k})
            /\ Head(requests) \in {k} => Contains(requests, {k})
        BY <1>1, <2>1, TailContains DEF OnceUnderWay
      <3>2. QED
        BY <1>1, <3>1 DEF Contains, ContainsOnce
    <2>3. Contains(events, {k})' => Contains(events, {k}) \/ k = n
      <3>1. Contains(Append(events, n), {k}) <=> Contains(events, {k}) \/ n \in {k}
        BY <1>1, AppendContains
      <3>2. QED
        BY <1>2, <3>1 DEF Contains
    <2>4. ASSUME NEW M, M \in {AnswersTo(k), RejectionsOf(k)}
          PROVE  (reply' \in M \/ Contains(host', M) \/ Contains(answers', M) \/ Contains(cache', M))
                   => Told(M) \/ (k = n /\ events' = events)
      <3>1. \A r \in M : r.id = k
        BY <2>4 DEF AnswersTo, RejectionsOf
      <3>2. Rejected(n, serverSeq').id = n
        BY DEF Rejected
      <3>3. reply' \in M => reply \in M \/ (k = n /\ events' = events)
        BY <1>2, <3>1, <3>2
      <3>4. QED
        BY <1>1, <3>3 DEF Told
    <2>5. /\ Told(AnswersTo(k))' => Told(AnswersTo(k)) \/ (k = n /\ events' = events)
          /\ Told(RejectionsOf(k))' => Told(RejectionsOf(k)) \/ (k = n /\ events' = events)
      BY <2>4 DEF Told, Contains, AnswersTo, RejectionsOf
    <2>6. CASE k = n
      <3>1. applied[k] = 0 /\ ~Told(AnswersTo(k)) /\ ~Contains(events, {k}) /\ k \in DOMAIN sent
        BY <2>1, <2>2, <2>6 DEF OnceUnderWay, Waiting
      <3>2. CASE events' = events
        <4>1. ~Contains(events, {k})'
          BY <3>1, <3>2 DEF Contains
        <4>2. QED
          BY <1>1, <2>1, <2>2, <2>6, <3>1, <4>1 DEF OnceUnderWay, Waiting
      <3>3. CASE events' # events
        BY <1>1, <2>1, <2>2, <2>5, <2>6, <3>1, <3>3 DEF OnceUnderWay, Waiting
      <3>4. QED
        BY <3>2, <3>3
    <2>7. CASE k # n
      BY <1>1, <2>1, <2>2, <2>3, <2>5, <2>7 DEF OnceUnderWay, Waiting
    <2>8. QED
      BY <2>6, <2>7
  <1>5. QED
    BY <1>1, <1>3, <1>4 DEF Fresh

\* The tick thread takes the request at the head of its queue, and tells nobody of any other.
LEMMA ServedFresh ==
  ASSUME FreshInv, NEW n \in Requests, n \in DOMAIN sent, Serving(n),
         NEW r \in Responses, r.id = n, Respond(r),
         cache' = cache \/ cache' = Remember(cache, r),
         \/ applied' = applied
         \/ r.ok /\ applied' = [applied EXCEPT ![n] = r.seq]
  PROVE  Fresh'
  <1>1. /\ events # << >> /\ events \in Seq(Requests) /\ n = Head(events)
        /\ events' = Tail(events) /\ requests \in Seq(Requests)
        /\ UNCHANGED <<sent, requests, reply, answers, repeated>>
        /\ host \in Seq(Packets) /\ r \in Packets /\ Project(r)
    BY DEF Serving, Respond, TickUnchanged, client, FreshInv, Inv, Types, Placed, Fresh, Packets
  <1>2. ASSUME NEW k \in Requests \ repeated PROVE OnceUnderWay(k)'
    <2>1. OnceUnderWay(k) /\ ContainsOnce(events, {k})
      BY DEF FreshInv, Fresh, Placed, InOnePlace
    <2>2. /\ Contains(events, {k})' <=> Contains(events, {k}) /\ k # n
          /\ k = n => Contains(events, {k})
      <3>1. /\ Contains(Tail(events), {k}) <=> Contains(events, {k}) /\ Head(events) \notin {k}
            /\ Head(events) \in {k} => Contains(events, {k})
        BY <1>1, <2>1, TailContains
      <3>2. QED
        BY <1>1, <3>1 DEF Contains
    <2>3. /\ Contains(requests, {k})' <=> Contains(requests, {k})
          /\ ContainsOnce(requests, {k})' <=> ContainsOnce(requests, {k})
      BY <1>1 DEF Contains, ContainsOnce
    <2>4. ASSUME NEW M
          PROVE  (reply' \in M \/ Contains(host', M) \/ Contains(answers', M) \/ Contains(cache', M))
                   => Told(M) \/ r \in M
      <3>1. Contains(host', M) => Contains(host, M) \/ r \in M
        BY <1>1, ProjectTold
      <3>2. Contains(cache', M) => Contains(cache, M) \/ r \in M
        BY RememberTold DEF FreshInv
      <3>3. QED
        BY <1>1, <3>1, <3>2 DEF Told
    <2>5. /\ Told(AnswersTo(k))' => Told(AnswersTo(k)) \/ r \in AnswersTo(k)
          /\ Told(RejectionsOf(k))' => Told(RejectionsOf(k)) \/ r \in RejectionsOf(k)
      BY <2>4 DEF Told, Contains, AnswersTo, RejectionsOf
    <2>6. r \in RejectionsOf(k) => r \in AnswersTo(k) /\ ~r.ok
      BY DEF RejectionsOf
    <2>7. r \in AnswersTo(k) => k = n
      BY DEF AnswersTo
    <2>8. CASE k = n
      <3>1. /\ applied[k] = 0 /\ ~Told(AnswersTo(k)) /\ ~Contains(requests, {k})
            /\ k \in DOMAIN sent
        BY <2>1, <2>2, <2>8 DEF OnceUnderWay, Waiting
      <3>2. ~Told(RejectionsOf(k))
        BY <3>1 DEF Told, Contains, RejectionsOf
      <3>3. ~Waiting(k)'
        BY <1>1, <2>2, <2>3, <2>8, <3>1 DEF Waiting
      <3>4. applied'[k] # 0 => r.ok
        BY <3>1
      <3>5. QED
        BY <1>1, <2>1, <2>2, <2>3, <2>5, <2>6, <3>1, <3>2, <3>3, <3>4 DEF OnceUnderWay
    <2>9. CASE k # n
      <3>1. applied'[k] = applied[k]
        BY <2>9 DEF FreshInv, Inv, Types
      <3>2. QED
        BY <1>1, <2>1, <2>2, <2>3, <2>5, <2>6, <2>7, <2>9, <3>1 DEF OnceUnderWay, Waiting
    <2>10. QED
      BY <2>8, <2>9
  <1>3. QED
    BY <1>1, <1>2 DEF Fresh

LEMMA AuthorityFresh == ASSUME FreshInv, Authority PROVE Fresh'
  <1> PICK n \in DOMAIN sent :
        \/ ReplayCached(n) \/ RejectMalformed(n) \/ RejectPreflight(n)
        \/ RejectOperation(n)
        \/ Accept(n)
    BY DEF Authority
  <1>1. Serving(n) /\ n \in Requests
    BY SentAreRequests
    DEF ReplayCached, RejectMalformed, RejectPreflight, RejectOperation, Accept, FreshInv
  <1>2. clock[dim] \in Nat
    BY DEF FreshInv, Inv, Types
  <1>3. CASE ReplayCached(n)
    <2> PICK r \in Cached(n) : Respond(r)
      BY <1>3 DEF ReplayCached
    <2>1. PICK j \in DOMAIN cache : r = cache[j] /\ r.id = n
      BY DEF Cached, Elements
    <2>2. r \in Responses
      <3>1. j \in 1 .. Len(cache) /\ cache \in Seq(Responses)
        BY <2>1, LenProperties DEF FreshInv, Inv, Types
      <3>2. QED
        BY <2>1, <3>1, ElementOfSeq
    <2>3. cache' = cache /\ applied' = applied
      BY <1>3 DEF ReplayCached, authority
    <2>4. QED
      BY <1>1, <2>1, <2>2, <2>3, ServedFresh
  <1>4. CASE RejectMalformed(n) \/ RejectPreflight(n) \/ RejectOperation(n)
    <2> DEFINE r == Rejected(n, clock[dim])
    <2>1. Respond(r) /\ cache' = Remember(cache, r) /\ applied' = applied
      BY <1>4 DEF RejectMalformed, RejectPreflight, RejectOperation, Reject
    <2>2. r \in Responses /\ r.id = n
      BY <1>1, <1>2 DEF Rejected, Responses
    <2> HIDE DEF r
    <2>3. QED
      BY <1>1, <2>1, <2>2, ServedFresh
  <1>5. CASE Accept(n)
    <2> DEFINE r == Accepted(n, clock[dim] + 1)
    <2>1. Respond(r) /\ cache' = Remember(cache, r)
      BY <1>5 DEF Accept, Record
    <2>2. r \in Responses /\ r.id = n /\ r.ok /\ r.seq = clock[dim] + 1
      BY <1>1, <1>2 DEF Accepted, Responses
    <2>3. applied' = [applied EXCEPT ![n] = r.seq]
      BY <1>5, <2>2 DEF Accept
    <2> HIDE DEF r
    <2>4. QED
      BY <1>1, <2>1, <2>2, <2>3, ServedFresh
  <1>6. QED
    BY <1>3, <1>4, <1>5

LEMMA StepFresh == FreshInv /\ [Next]_vars => Fresh'
  <1> SUFFICES ASSUME FreshInv, [Next]_vars PROVE Fresh'
    OBVIOUS
  <1>1. CASE Submit
    BY <1>1, SubmitFresh
  <1>2. CASE \E k \in DOMAIN sent : Resend(k)
    BY <1>2, ResendFresh
  <1>3. CASE Client \/ SendReply \/ Deliver \/ \E d \in Dimensions : Transfer(d)
    BY <1>3, DeliveredFresh DEF Client
  <1>4. CASE Ingress
    BY <1>4, IngressFresh
  <1>5. CASE Authority
    BY <1>5, AuthorityFresh
  <1>6. CASE \/ \E r \in 1 .. clock[where] : Learn(r)
             \/ \E d \in Dimensions, b \in BOOLEAN : WorldMutation(d, b)
             \/ UNCHANGED vars
    <2>1. UNCHANGED <<sent, requests, events, applied, repeated, reply, host, answers, cache>>
      BY <1>6 DEF Learn, WorldMutation, TickUnchanged, client, network, authority, counters, vars
    <2>2. QED
      BY <2>1, FreshStays DEF FreshInv, Told, Contains, AnswersTo, RejectionsOf
  <1>7. QED
    BY <1>1, <1>2, <1>3, <1>4, <1>5, <1>6 DEF Next

LEMMA FreshTruthful == ASSUME FreshInv PROVE AnswersAreTrue
  <1>1. ASSUME NEW p \in Packets \union {Nothing}, Confirmed(p),
               \A M : p \in M => Told(M)
        PROVE  Truthful(p)
    <2>1. ASSUME p.kind = "response", ~p.ok, p.id \notin repeated, applied[p.id] # 0
          PROVE  FALSE
      <3>1. p \in Responses /\ p.id \in Requests
        BY <2>1 DEF Packets, Responses, Nothing
      <3>2. p \in RejectionsOf(p.id)
        BY <2>1, <3>1 DEF RejectionsOf, AnswersTo
      <3>3. OnceUnderWay(p.id)
        BY <2>1, <3>1 DEF FreshInv, Fresh
      <3>4. QED
        BY <1>1, <2>1, <3>2, <3>3 DEF OnceUnderWay
    <2>2. QED
      BY <1>1, <2>1 DEF Truthful, Refused
  <1>2. Truthful(reply)
    BY <1>1 DEF Told, FreshInv, Inv, Types, AcceptancesAreTrue
  <1>3. ASSUME NEW q, q \in {host, answers, cache}, NEW i \in DOMAIN q PROVE Truthful(q[i])
    <2>1. q[i] \in Packets
      BY <1>3, LenProperties, ElementOfSeq DEF Packets, FreshInv, Inv, Types
    <2>2. Confirmed(q[i])
      BY <1>3 DEF FreshInv, Inv, AcceptancesAreTrue, AllConfirmed
    <2>3. \A M : q[i] \in M => Told(M)
      BY <1>3 DEF Told, Contains
    <2>4. QED
      BY <1>1, <2>1, <2>2, <2>3
  <1>4. QED
    BY <1>2, <1>3 DEF AnswersAreTrue, AllTruthful

\* Every answer, in any queue, in the response cache or on its way to the client, tells what
\* became of its request: an acceptance names the revision at which the world took it, and
\* a rejected request is never applied, unless its envelope was sent more than once
\* (route_gameplay_request, handle_gameplay, reject_for_session, deliver_projection).
THEOREM AnswersStayTrue == Spec => []AnswersAreTrue
  <1>1. Init => FreshInv
    BY InitInv, PlacedInit, FreshInit DEF FreshInv
  <1>2. FreshInv /\ [Next]_vars => FreshInv'
    BY StepInv, StepPlaced, StepFresh DEF FreshInv
  <1>3. QED
    BY <1>1, <1>2, FreshTruthful, PTL DEF Spec
=============================================================================
