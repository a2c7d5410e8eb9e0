---------------------------- MODULE SseHubProofs ----------------------------
(***************************************************************************)
(* The four safety properties of SseHub for any number of connections and  *)
(* events and any capacities.  They rest on two pictures.  A walk, of run  *)
(* or of a direct publisher, has only registered clients before it, since  *)
(* Lock is not to be had meanwhile.  And the queue is the end of order:    *)
(* what run has taken is the beginning, and a stream has been sent part of *)
(* that, in that order.                                                    *)
(***************************************************************************)
EXTENDS SseHub, SequenceTheorems, TLAPS

TypeOK ==
  /\ conn    \in [Clients -> {"new", "open", "leaving", "closed"}]
  /\ clients \subseteq Clients
  /\ closed  \subseteq Clients
  /\ inbox   \in [Clients -> Seq(Events)]
  /\ got     \in [Clients -> Seq(Events)]
  /\ pub     \in [Events -> {"new", "waiting", "sending", "done"}]
  /\ todo    \in [Events -> SUBSET Clients]
  /\ queue   \in Seq(Events)
  /\ current \in Events \cup {None}
  /\ visit   \subseteq Clients
  /\ order   \in Seq(Events)
  /\ joined  \in [Clients -> Nat]
  /\ lagged  \subseteq Clients

(* Who is still to be visited is registered, and its channel open.         *)
WalkOK ==
  /\ \A c \in Clients : c \in clients <=> conn[c] \in {"open", "leaving"}
  /\ \A c \in Clients : c \in closed <=> conn[c] = "closed"
  /\ visit \subseteq clients
  /\ current = None => visit = {}
  /\ \A e \in Events : todo[e] \subseteq clients
  /\ \A e \in Events : pub[e] # "sending" => todo[e] = {}
  /\ \A e \in Queued : pub[e] # "sending"

(* How much of order run has taken, and what is left of it.                *)
Taken == Len(order) - Len(queue)

QueueOK ==
  /\ Taken \in Nat
  /\ \A i \in 1 .. Len(queue) : queue[i] = order[Taken + i]
  /\ current # None => Taken > 0 /\ current = order[Taken]
  /\ \A i \in 1 .. Len(order) : order[i] \in Queued /\ pub[order[i]] = "done"
  /\ \A i, j \in 1 .. Len(order) : order[i] = order[j] => i = j

(* A stream has only what run has taken, the last one only if it has been  *)
(* visited for it, or what a direct publisher has visited it for.          *)
Had(c, e) ==
  /\ AddressedTo(c, e)
  /\ e \in Queued => \E m \in 1 .. Taken : order[m] = e /\ (c \in visit => m < Taken)
  /\ e \notin Queued => pub[e] \in {"sending", "done"} /\ c \notin todo[e]

SentOK == \A c \in Clients : \A i \in 1 .. Len(Sent(c)) : Had(c, Sent(c)[i])

Once == \A c \in Clients : \A i, j \in 1 .. Len(Sent(c)) : Sent(c)[i] = Sent(c)[j] => i = j

(* Who has never lagged has all that was taken since it joined, but for    *)
(* the event it is still to be visited for.                                *)
ReachedOK ==
  \A c \in clients \ lagged : \A i \in joined[c] + 1 .. Taken :
    AddressedTo(c, order[i]) /\ ~(i = Taken /\ c \in visit) =>
      \E k \in 1 .. Len(Sent(c)) : Sent(c)[k] = order[i]

IInv == TypeOK /\ WalkOK /\ QueueOK /\ SentOK /\ Once /\ QueueOrder /\ ReachedOK

-----------------------------------------------------------------------------
(* Sequences.                                                              *)

(* What is read moves from the channel to the connection.                  *)
LEMMA MovedSame ==
  ASSUME NEW S, NEW g \in Seq(S), NEW b \in Seq(S), b # <<>>
  PROVE  Append(g, Head(b)) \o Tail(b) = g \o b
<1>1. /\ Append(g, Head(b)) \in Seq(S) /\ Tail(b) \in Seq(S)
      /\ Len(Append(g, Head(b))) = Len(g) + 1 /\ Len(Tail(b)) = Len(b) - 1
      /\ \A i \in 1 .. Len(g) : Append(g, Head(b))[i] = g[i]
      /\ Append(g, Head(b))[Len(g) + 1] = b[1]
      /\ \A i \in 1 .. Len(b) - 1 : Tail(b)[i] = b[i + 1]
  OBVIOUS
<1> DEFINE x == Append(g, Head(b)) \o Tail(b)
           y == g \o b
<1>2. x \in Seq(S) /\ y \in Seq(S) /\ Len(x) = Len(y)
  BY <1>1
<1>3. ASSUME NEW i \in 1 .. Len(x) PROVE x[i] = y[i]
  <2>1. CASE i <= Len(g)
    BY <1>1, <2>1
  <2>2. CASE i = Len(g) + 1
    BY <1>1, <2>2
  <2>3. CASE i > Len(g) + 1
    BY <1>1, <2>3
  <2> QED
    BY <2>1, <2>2, <2>3
<1> HIDE DEF x, y
<1>4. x = y
  BY <1>2, <1>3, SeqEqual
<1> QED
  BY <1>4 DEF x, y

LEMMA AppendedSame ==
  ASSUME NEW S, NEW g \in Seq(S), NEW b \in Seq(S), NEW e \in S
  PROVE  g \o Append(b, e) = Append(g \o b, e)
OBVIOUS

-----------------------------------------------------------------------------
(* Steps.                                                                  *)

LEMMA SentTyped ==
  ASSUME TypeOK, NEW c \in Clients
  PROVE  Sent(c) \in Seq(Events) /\ Len(Sent(c)) \in Nat
BY DEF TypeOK, Sent

LEMMA OfferTyped ==
  ASSUME TypeOK, NEW c \in Clients, NEW e \in Events, NEW b \in BOOLEAN, Offer(c, e, b)
  PROVE  inbox' \in [Clients -> Seq(Events)] /\ lagged' \subseteq Clients
<1>1. Append(inbox[c], e) \in Seq(Events)
  BY DEF TypeOK
<1> QED
  BY <1>1 DEF TypeOK, Offer

(* Who may see an event is who it is delivered to.                         *)
LEMMA Addressed ==
  ASSUME NEW c \in Clients, NEW e \in Events
  PROVE  /\ e \in Queued => (ShouldDeliver(c, e) <=> AddressedTo(c, e))
         /\ e \notin Queued => (Match(c, e) <=> AddressedTo(c, e))
         /\ ShouldDeliver(c, e) \in BOOLEAN /\ Match(c, e) \in BOOLEAN
BY HubAssumption DEF Queued, ShouldDeliver, Match, AddressedTo

(* A visit of run or of a direct publisher is to an event that exists.     *)
LEMMA Visited ==
  ASSUME TypeOK, WalkOK, NEW c \in Clients
  PROVE  Deliver(c) => current \in Events
BY DEF TypeOK, WalkOK, Deliver

LEMMA TypeStep == TypeOK /\ WalkOK /\ Next => TypeOK'
<1> SUFFICES ASSUME TypeOK, WalkOK, Next PROVE TypeOK'
  OBVIOUS
<1> USE DEF clientVars, pubVars, hubVars, history
<1>1. ASSUME NEW c \in Clients, Register(c) PROVE TypeOK'
  BY <1>1 DEF TypeOK, Register
<1>2. ASSUME NEW c \in Clients, Unregister(c) PROVE TypeOK'
  BY <1>2 DEF TypeOK, Unregister
<1>3. ASSUME NEW c \in Clients, Deliver(c) PROVE TypeOK'
  <2>1. current \in Events /\ ShouldDeliver(c, current) \in BOOLEAN
    BY <1>3, Visited, Addressed
  <2>2. inbox' \in [Clients -> Seq(Events)] /\ lagged' \subseteq Clients
    BY <1>3, <2>1, OfferTyped DEF Deliver
  <2> QED
    BY <1>3, <2>2 DEF TypeOK, Deliver
<1>4. ASSUME NEW c \in Clients, Read(c) PROVE TypeOK'
  <2>1. Append(got[c], Head(inbox[c])) \in Seq(Events) /\ Tail(inbox[c]) \in Seq(Events)
    BY <1>4 DEF TypeOK, Read
  <2> QED
    BY <1>4, <2>1 DEF TypeOK, Read
<1>5. ASSUME NEW c \in Clients, Leave(c) PROVE TypeOK'
  BY <1>5 DEF TypeOK, Leave
<1>6. ASSUME Take PROVE TypeOK'
  <2>1. Head(queue) \in Events /\ Tail(queue) \in Seq(Events)
    BY <1>6 DEF TypeOK, Take
  <2> QED
    BY <1>6, <2>1 DEF TypeOK, Take
<1>7. ASSUME Delivered PROVE TypeOK'
  BY <1>7 DEF TypeOK, Delivered
<1>8. ASSUME NEW e \in Events, Speak(e) \/ DirectStart(e) \/ DirectEnd(e) PROVE TypeOK'
  BY <1>8 DEF TypeOK, Speak, DirectStart, DirectEnd
<1>9. ASSUME NEW e \in Events, Broadcast(e) PROVE TypeOK'
  <2>1. Append(queue, e) \in Seq(Events) /\ Append(order, e) \in Seq(Events)
    BY DEF TypeOK
  <2> QED
    BY <1>9, <2>1 DEF TypeOK, Broadcast
<1>10. ASSUME NEW e \in Events, NEW c \in Clients, DirectSend(e, c) PROVE TypeOK'
  <2>1. inbox' \in [Clients -> Seq(Events)] /\ lagged' \subseteq Clients
    BY <1>10, Addressed, OfferTyped DEF DirectSend
  <2> QED
    BY <1>10, <2>1 DEF TypeOK, DirectSend
<1> QED
  BY <1>1, <1>2, <1>3, <1>4, <1>5, <1>6, <1>7, <1>8, <1>9, <1>10 DEF Next

LEMMA WalkStep == TypeOK /\ WalkOK /\ Next => WalkOK'
<1> SUFFICES ASSUME TypeOK, WalkOK, Next PROVE WalkOK'
  OBVIOUS
<1> USE DEF clientVars, pubVars, hubVars, history, Queued, TypeOK, WalkOK
<1>1. ASSUME NEW c \in Clients, Register(c) PROVE WalkOK'
  BY <1>1 DEF Register
<1>2. ASSUME NEW c \in Clients, Unregister(c) PROVE WalkOK'
  <2>1. visit = {} /\ \A e \in Events : todo[e] = {}
    BY <1>2 DEF Unregister, NoReader
  <2> QED
    BY <1>2, <2>1 DEF Unregister
<1>3. ASSUME NEW c \in Clients, Deliver(c) \/ Read(c) \/ Leave(c) PROVE WalkOK'
  BY <1>3 DEF Deliver, Read, Leave
<1>4. ASSUME Take \/ Delivered PROVE WalkOK'
  <2>1. Take => Head(queue) \in Events /\ Head(queue) # None
    BY HubAssumption DEF Take
  <2> QED
    BY <1>4, <2>1 DEF Take, Delivered
<1>5. ASSUME NEW e \in Events, Speak(e) \/ Broadcast(e) PROVE WalkOK'
  BY <1>5 DEF Speak, Broadcast
<1>6. ASSUME NEW e \in Events, DirectStart(e) \/ DirectEnd(e) PROVE WalkOK'
  BY <1>6 DEF DirectStart, DirectEnd
<1>7. ASSUME NEW e \in Events, NEW c \in Clients, DirectSend(e, c) PROVE WalkOK'
  BY <1>7 DEF DirectSend
<1> QED
  BY <1>1, <1>2, <1>3, <1>4, <1>5, <1>6, <1>7 DEF Next

LEMMA QueueStep == TypeOK /\ WalkOK /\ QueueOK /\ Next => QueueOK'
<1> SUFFICES ASSUME TypeOK, WalkOK, QueueOK, Next PROVE QueueOK'
  OBVIOUS
<1> USE DEF clientVars, pubVars, hubVars, history, TypeOK, QueueOK, Taken
<1>1. ASSUME UNCHANGED <<pub, queue, current, order>> PROVE QueueOK'
  BY <1>1
<1>2. ASSUME Take PROVE QueueOK'
  <2>1. /\ Len(queue) \in Nat /\ Len(order) \in Nat
        /\ Len(queue) > 0 /\ Len(queue') = Len(queue) - 1 /\ current' = queue[1]
        /\ \A i \in 1 .. Len(queue') : queue'[i] = queue[i + 1]
    BY <1>2 DEF Take
  <2>2. Taken' = Taken + 1 /\ UNCHANGED <<order, pub>>
    BY <1>2, <2>1 DEF Take
  <2>3. \A i \in 1 .. Len(queue') : queue'[i] = order'[Taken' + i]
    <3> SUFFICES ASSUME NEW i \in 1 .. Len(queue') PROVE queue'[i] = order'[Taken' + i]
      OBVIOUS
    <3>1. i + 1 \in 1 .. Len(queue) /\ Taken' + i = Taken + (i + 1)
      BY <2>1, <2>2
    <3> QED
      BY <2>1, <2>2, <3>1
  <2>4. Taken' > 0 /\ current' = order'[Taken']
    BY <2>1, <2>2
  <2> QED
    BY <2>2, <2>3, <2>4
<1>3. ASSUME Delivered PROVE QueueOK'
  BY <1>3 DEF Delivered
<1>4. ASSUME NEW e \in Events, Speak(e) \/ DirectStart(e) \/ DirectEnd(e) PROVE QueueOK'
  <2>1. UNCHANGED <<queue, current, order>> /\ pub[e] # "done"
    BY <1>4 DEF Speak, DirectStart, DirectEnd
  <2>2. \A d \in Events \ {e} : pub'[d] = pub[d]
    BY <1>4 DEF Speak, DirectStart, DirectEnd
  <2>3. \A i \in 1 .. Len(order) : order[i] \in Queued /\ pub[order[i]] = "done"
    BY <2>1
  <2>4. \A i \in 1 .. Len(order) : order[i] \in Queued /\ pub'[order[i]] = "done"
    BY <2>1, <2>2, <2>3 DEF Queued
  <2>5. Taken' = Taken
    BY <2>1
  <2> HIDE DEF Taken
  <2> QED
    BY <2>1, <2>4, <2>5
<1>5. ASSUME NEW e \in Events, Broadcast(e) PROVE QueueOK'
  <2>1. /\ Len(queue) \in Nat /\ Len(order) \in Nat
        /\ Len(queue') = Len(queue) + 1 /\ Len(order') = Len(order) + 1
        /\ \A i \in 1 .. Len(queue) : queue'[i] = queue[i]
        /\ \A i \in 1 .. Len(order) : order'[i] = order[i]
        /\ queue'[Len(queue) + 1] = e /\ order'[Len(order) + 1] = e
    BY <1>5 DEF Broadcast
  <2>2. /\ pub[e] = "waiting" /\ e \in Queued /\ current' = current
        /\ pub' = [pub EXCEPT ![e] = "done"]
    BY <1>5 DEF Broadcast
  <2>3. \A i \in 1 .. Len(order) : order[i] # e
    BY <2>2
  <2>4. Taken' = Taken /\ Taken \in Nat /\ Taken <= Len(order)
    BY <2>1
  <2> HIDE DEF Taken
  <2>5. \A i \in 1 .. Len(queue') : queue'[i] = order'[Taken' + i]
    <3> SUFFICES ASSUME NEW i \in 1 .. Len(queue') PROVE queue'[i] = order'[Taken' + i]
      OBVIOUS
    <3>1. CASE i = Len(queue) + 1
      <4>1. Taken + i = Len(order) + 1
        BY <2>1, <3>1 DEF Taken
      <4> QED
        BY <2>1, <2>4, <3>1, <4>1
    <3>2. CASE i \in 1 .. Len(queue)
      <4>1. Taken + i \in 1 .. Len(order)
        BY <2>1, <2>4, <3>2 DEF Taken
      <4> QED
        BY <2>1, <2>4, <3>2, <4>1
    <3> QED
      BY <2>1, <3>1, <3>2
  <2>6. \A i \in 1 .. Len(order') : order'[i] \in Queued /\ pub'[order'[i]] = "done"
    <3> SUFFICES ASSUME NEW i \in 1 .. Len(order')
                 PROVE  order'[i] \in Queued /\ pub'[order'[i]] = "done"
      OBVIOUS
    <3>1. CASE i = Len(order) + 1
      BY <2>1, <2>2, <3>1
    <3>2. CASE i \in 1 .. Len(order)
      BY <2>1, <2>2, <3>2
    <3> QED
      BY <2>1, <3>1, <3>2
  <2>7. ASSUME NEW i \in 1 .. Len(order'), NEW j \in 1 .. Len(order'), order'[i] = order'[j]
        PROVE  i = j
    <3>1. CASE i \in 1 .. Len(order) /\ j \in 1 .. Len(order)
      BY <2>1, <2>7, <3>1
    <3> QED
      BY <2>1, <2>3, <2>7, <3>1
  <2>8. current' # None => Taken' > 0 /\ current' = order'[Taken']
    <3>1. Taken > 0 => Taken \in 1 .. Len(order)
      BY <2>1, <2>4
    <3> QED
      BY <2>1, <2>2, <2>4, <3>1
  <2> QED
    BY <2>4, <2>5, <2>6, <2>7, <2>8
<1> QED
  BY <1>1, <1>2, <1>3, <1>4, <1>5
     DEF Next, Register, Unregister, Deliver, Read, Leave, DirectSend

-----------------------------------------------------------------------------
(* Streams: what a step does to what a connection has been sent.           *)

LEMMA Offered ==
  ASSUME TypeOK, NEW c \in Clients, NEW e \in Events, NEW b \in BOOLEAN,
         Offer(c, e, b), got' = got, NEW d \in Clients
  PROVE  \/ Sent(d)' = Sent(d)
         \/ d = c /\ b /\ Sent(d)' = Append(Sent(d), e)
<1>1. inbox[d] \in Seq(Events) /\ got[d] \in Seq(Events)
  BY DEF TypeOK
<1>2. inbox'[d] = inbox[d] \/ (d = c /\ b /\ inbox'[d] = Append(inbox[d], e))
  <2>1. CASE b /\ Len(inbox[c]) < InboxCap
    <3>1. inbox' = [inbox EXCEPT ![c] = Append(@, e)]
      BY <2>1 DEF Offer
    <3> QED
      BY <2>1, <3>1 DEF TypeOK
  <2>2. CASE ~(b /\ Len(inbox[c]) < InboxCap)
    <3>1. inbox' = inbox
      BY <2>2 DEF Offer
    <3> QED
      BY <3>1
  <2> QED
    BY <2>1, <2>2
<1>3. got[d] \o Append(inbox[d], e) = Append(got[d] \o inbox[d], e)
  <2>1. \A g, a \in Seq(Events) : g \o Append(a, e) = Append(g \o a, e)
    BY AppendedSame
  <2> QED
    BY <1>1, <2>1
<1> QED
  BY <1>2, <1>3 DEF Sent

(* A visit, by run for the last event taken or by a direct publisher.      *)
Gains(c, e) ==
  /\ Sent(c)' = Append(Sent(c), e)
  /\ AddressedTo(c, e)
  /\ UNCHANGED <<order, queue, pub>>
  /\ \/ e \in Queued /\ c \in visit /\ c \notin visit' /\ Taken > 0 /\ e = order[Taken]
     \/ e \notin Queued /\ c \in todo[e] /\ c \notin todo'[e] /\ pub[e] = "sending"

LEMMA Streams ==
  ASSUME TypeOK, WalkOK, QueueOK, Next, NEW d \in Clients
  PROVE  Sent(d)' = Sent(d) \/ \E e \in Events : Gains(d, e)
<1> USE DEF clientVars, pubVars, hubVars, history
<1>1. ASSUME UNCHANGED <<inbox, got>> PROVE Sent(d)' = Sent(d)
  BY <1>1 DEF Sent
<1>2. ASSUME NEW c \in Clients, Read(c) PROVE Sent(d)' = Sent(d)
  <2>1. CASE d = c
    <3>1. got[c] \in Seq(Events) /\ inbox[c] \in Seq(Events) /\ inbox[c] # <<>>
      BY <1>2 DEF Read, TypeOK
    <3>2. Append(got[c], Head(inbox[c])) \o Tail(inbox[c]) = got[c] \o inbox[c]
      BY <3>1, MovedSame
    <3>3. got'[c] = Append(got[c], Head(inbox[c])) /\ inbox'[c] = Tail(inbox[c])
      BY <1>2 DEF Read, TypeOK
    <3> QED
      BY <2>1, <3>2, <3>3 DEF Sent
  <2>2. CASE d # c
    BY <1>2, <2>2 DEF Read, TypeOK, Sent
  <2> QED
    BY <2>1, <2>2
<1>3. ASSUME NEW c \in Clients, Deliver(c), Sent(d)' # Sent(d) PROVE Gains(d, current)
  <2>1. /\ current \in Events /\ Offer(c, current, ShouldDeliver(c, current))
        /\ c \in visit /\ visit' = visit \ {c} /\ UNCHANGED <<got, pub, order, queue>>
    BY <1>3, Visited DEF Deliver
  <2>2. d = c /\ ShouldDeliver(c, current) /\ Sent(d)' = Append(Sent(d), current)
    BY <1>3, <2>1, Addressed, Offered
  <2>3. Taken > 0 /\ current = order[Taken] /\ Taken <= Len(order) /\ Taken \in Nat
    BY <2>1 DEF WalkOK, QueueOK, Taken, TypeOK
  <2>4. current \in Queued
    BY <2>3 DEF QueueOK
  <2> QED
    BY <2>1, <2>2, <2>3, <2>4, Addressed DEF Gains
<1>4. ASSUME NEW e \in Events, NEW c \in Clients, DirectSend(e, c), Sent(d)' # Sent(d)
      PROVE  Gains(d, e)
  <2>1. /\ Offer(c, e, Match(c, e)) /\ c \in todo[e] /\ c \notin todo'[e]
        /\ UNCHANGED <<got, pub, order, queue>>
    BY <1>4 DEF DirectSend, TypeOK
  <2>2. d = c /\ Match(c, e) /\ Sent(d)' = Append(Sent(d), e)
    BY <1>4, <2>1, Addressed, Offered
  <2>3. pub[e] = "sending" /\ e \notin Queued
    BY <2>1 DEF WalkOK
  <2> QED
    BY <2>1, <2>2, <2>3, Addressed DEF Gains
<1> QED
  BY <1>1, <1>2, <1>3, <1>4, Visited
     DEF Next, Register, Unregister, Leave, Take, Delivered, Speak, Broadcast, DirectStart, DirectEnd

(* What is behind run stays behind it.                                     *)
Grows ==
  /\ Taken \in Nat /\ Taken' \in Nat /\ Taken <= Taken' /\ Taken <= Len(order)
  /\ Len(order) \in Nat /\ Len(order') \in Nat /\ Len(order) <= Len(order')
  /\ \A i \in 1 .. Len(order) : order'[i] = order[i]
  /\ \A c \in visit' : (c \in visit /\ Taken' = Taken) \/ Taken < Taken'
  /\ \A e \in Events : pub[e] \in {"sending", "done"} =>
       pub'[e] \in {"sending", "done"} /\ todo'[e] \subseteq todo[e]

LEMMA Growing ==
  ASSUME TypeOK, WalkOK, QueueOK, Next
  PROVE  Grows
<1> USE DEF clientVars, pubVars, hubVars, history
<1>1. Taken \in Nat /\ Taken <= Len(order) /\ Len(order) \in Nat /\ Len(queue) \in Nat
  BY DEF TypeOK, QueueOK, Taken
<1>2. Take => /\ Len(queue') = Len(queue) - 1 /\ UNCHANGED <<order, pub, todo>>
  BY DEF Take, TypeOK
<1>3. \A e \in Events : Broadcast(e) =>
        /\ Len(queue') = Len(queue) + 1 /\ Len(order') = Len(order) + 1
        /\ \A i \in 1 .. Len(order) : order'[i] = order[i]
        /\ UNCHANGED visit
  BY DEF Broadcast, TypeOK
<1>4. Taken' \in Nat /\ Taken <= Taken' /\ (Take => Taken < Taken')
  BY <1>1, <1>2, <1>3
     DEF Taken, Next, Register, Unregister, Deliver, Read, Leave, Delivered, Speak,
         DirectStart, DirectEnd, DirectSend
<1>5. /\ Len(order') \in Nat /\ Len(order) <= Len(order')
      /\ \A i \in 1 .. Len(order) : order'[i] = order[i]
  BY <1>1, <1>2, <1>3
     DEF Next, Register, Unregister, Deliver, Read, Leave, Delivered, Speak,
         DirectStart, DirectEnd, DirectSend
<1>6. ~Take => visit' \subseteq visit
  BY <1>3 DEF Next, Register, Unregister, Deliver, Read, Leave, Delivered, Speak,
         DirectStart, DirectEnd, DirectSend
<1>7. \A e \in Events : pub[e] \in {"sending", "done"} =>
        pub'[e] \in {"sending", "done"} /\ todo'[e] \subseteq todo[e]
  BY DEF TypeOK, Next, Register, Unregister, Deliver, Read, Leave, Take, Delivered, Speak,
         Broadcast, DirectStart, DirectEnd, DirectSend
<1> QED
  BY <1>1, <1>4, <1>5, <1>6, <1>7 DEF Grows

LEMMA HadStays ==
  ASSUME Grows, NEW c \in Clients, NEW e \in Events, Had(c, e)
  PROVE  Had(c, e)'
<1>1. AddressedTo(c, e)'
  BY DEF Had, AddressedTo
<1>2. ASSUME e \in Queued
      PROVE  \E m \in 1 .. Taken' : order'[m] = e /\ (c \in visit' => m < Taken')
  <2>1. PICK m \in 1 .. Taken : order[m] = e /\ (c \in visit => m < Taken)
    BY <1>2 DEF Had
  <2>2. m \in 1 .. Taken' /\ order'[m] = e
    BY <2>1 DEF Grows
  <2>3. c \in visit' => m < Taken'
    BY <2>1 DEF Grows
  <2> QED
    BY <2>2, <2>3
<1>3. e \notin Queued => pub'[e] \in {"sending", "done"} /\ c \notin todo'[e]
  BY DEF Had, Grows
<1> QED
  BY <1>1, <1>2, <1>3 DEF Had, Queued

LEMMA GainIsNew ==
  ASSUME TypeOK, QueueOK, SentOK, Grows, NEW c \in Clients, NEW e \in Events, Gains(c, e)
  PROVE  Had(c, e)' /\ \A i \in 1 .. Len(Sent(c)) : Sent(c)[i] # e
<1>1. CASE e \in Queued
  <2>1. /\ c \in visit /\ c \notin visit' /\ Taken > 0 /\ e = order[Taken]
        /\ Taken' = Taken /\ Taken \in Nat /\ Taken <= Len(order)
        /\ order' = order /\ Len(order) \in Nat
    BY <1>1 DEF Gains, Taken, Grows
  <2>2. \A i \in 1 .. Len(Sent(c)) : Sent(c)[i] # e
    <3> SUFFICES ASSUME NEW i \in 1 .. Len(Sent(c)), Sent(c)[i] = e PROVE FALSE
      OBVIOUS
    <3>1. PICK m \in 1 .. Taken : order[m] = e /\ m < Taken
      BY <1>1, <2>1 DEF SentOK, Had
    <3> QED
      BY <2>1, <3>1 DEF QueueOK
  <2>3. Had(c, e)'
    BY <1>1, <2>1 DEF Gains, Had, AddressedTo, Queued
  <2> QED
    BY <2>2, <2>3
<1>2. CASE e \notin Queued
  <2>1. c \in todo[e] /\ c \notin todo'[e] /\ pub[e] = "sending" /\ pub' = pub
    BY <1>2 DEF Gains
  <2>2. Had(c, e)'
    BY <1>2, <2>1 DEF Gains, Had, AddressedTo, Queued
  <2> QED
    BY <1>2, <2>1, <2>2 DEF SentOK, Had
<1> QED
  BY <1>1, <1>2

(* A stream is the same in the next state, or has one event more.          *)
LEMMA Longer ==
  ASSUME TypeOK, NEW c \in Clients, NEW e \in Events, Gains(c, e)
  PROVE  /\ Len(Sent(c)) \in Nat /\ Len(Sent(c)') = Len(Sent(c)) + 1
         /\ \A i \in 1 .. Len(Sent(c)) : Sent(c)'[i] = Sent(c)[i]
         /\ Sent(c)'[Len(Sent(c)) + 1] = e
<1>1. Sent(c) \in Seq(Events) /\ Sent(c)' = Append(Sent(c), e)
  BY SentTyped DEF Gains
<1> HIDE DEF Sent
<1>2. \A s \in Seq(Events) :
        /\ Len(s) \in Nat /\ Len(Append(s, e)) = Len(s) + 1
        /\ \A i \in 1 .. Len(s) : Append(s, e)[i] = s[i]
        /\ Append(s, e)[Len(s) + 1] = e
  OBVIOUS
<1> QED
  BY <1>1, <1>2

(* Two events of one stream: not the same, and in the order of the queue.  *)
Ordered(c, i, j) ==
  /\ Sent(c)[i] # Sent(c)[j]
  /\ Sent(c)[i] \in Queued /\ Sent(c)[j] \in Queued =>
       \E m, n \in 1 .. Len(order) : m < n /\ order[m] = Sent(c)[i] /\ order[n] = Sent(c)[j]

LEMMA OrderedMeans ==
  ASSUME TypeOK
  PROVE  Once /\ QueueOrder <=>
           \A c \in Clients : \A i, j \in 1 .. Len(Sent(c)) : i < j => Ordered(c, i, j)
<1>1. \A c \in Clients : Len(Sent(c)) \in Nat
  BY SentTyped
<1> QED
  BY <1>1 DEF Once, QueueOrder, Ordered

LEMMA OrderedStays ==
  ASSUME Grows, NEW c, NEW i, NEW j, Ordered(c, i, j),
         Sent(c)'[i] = Sent(c)[i], Sent(c)'[j] = Sent(c)[j]
  PROVE  Ordered(c, i, j)'
<1>1. ASSUME NEW x, NEW y, NEW m \in 1 .. Len(order), NEW n \in 1 .. Len(order),
             m < n, order[m] = x, order[n] = y
      PROVE  \E k, l \in 1 .. Len(order') : k < l /\ order'[k] = x /\ order'[l] = y
  <2>1. m \in 1 .. Len(order') /\ n \in 1 .. Len(order') /\ order'[m] = x /\ order'[n] = y
    BY <1>1 DEF Grows
  <2> QED
    BY <1>1, <2>1
<1>2. Sent(c)'[i] # Sent(c)'[j]
  BY DEF Ordered
<1>3. ASSUME Sent(c)[i] \in Queued, Sent(c)[j] \in Queued
      PROVE  \E k, l \in 1 .. Len(order') :
               k < l /\ order'[k] = Sent(c)[i] /\ order'[l] = Sent(c)[j]
  <2>1. PICK m \in 1 .. Len(order), n \in 1 .. Len(order) :
          m < n /\ order[m] = Sent(c)[i] /\ order[n] = Sent(c)[j]
    BY <1>3 DEF Ordered
  <2> HIDE DEF Sent
  <2> QED
    BY <1>1, <2>1
<1> QED
  BY <1>2, <1>3 DEF Ordered, Queued

LEMMA StreamStep == IInv /\ Next => SentOK' /\ Once' /\ QueueOrder'
<1> SUFFICES ASSUME IInv, Next PROVE SentOK' /\ Once' /\ QueueOrder'
  OBVIOUS
<1>1. Grows /\ TypeOK' /\ TypeOK
  BY Growing, TypeStep DEF IInv
<1>2. \A c \in Clients : Sent(c)' = Sent(c) \/ \E e \in Events : Gains(c, e)
  BY Streams DEF IInv
<1>3. ASSUME NEW c \in Clients, NEW i \in 1 .. Len(Sent(c)), Sent(c)'[i] = Sent(c)[i]
      PROVE  Had(c, Sent(c)[i])'
  <2>1. Sent(c)[i] \in Events
    BY <1>1, SentTyped
  <2>2. PICK e \in Events : e = Sent(c)[i]
    BY <2>1
  <2>3. Had(c, e)
    BY <2>2 DEF IInv, SentOK
  <2>4. Had(c, e)'
    BY <1>1, <2>3, HadStays
  <2> QED
    BY <1>3, <2>2, <2>4 DEF Had, AddressedTo, Queued
<1>4. ASSUME NEW c \in Clients, NEW i \in 1 .. Len(Sent(c)), NEW j \in 1 .. Len(Sent(c)), i < j
      PROVE  Ordered(c, i, j)
  BY <1>1, <1>4, OrderedMeans DEF IInv
<1>5. ASSUME NEW c \in Clients, Sent(c)' = Sent(c)
      PROVE  /\ \A i \in 1 .. Len(Sent(c)') : Had(c, Sent(c)[i])'
             /\ \A i, j \in 1 .. Len(Sent(c)') : i < j => Ordered(c, i, j)'
  <2>1. \A i \in 1 .. Len(Sent(c)') : Had(c, Sent(c)[i])'
    BY <1>3, <1>5
  <2>2. ASSUME NEW i \in 1 .. Len(Sent(c)), NEW j \in 1 .. Len(Sent(c)), i < j
        PROVE  Ordered(c, i, j)'
    BY <1>1, <1>4, <1>5, <2>2, OrderedStays
  <2> QED
    BY <1>5, <2>1, <2>2
<1>6. ASSUME NEW c \in Clients, NEW e \in Events, Gains(c, e)
      PROVE  /\ \A i \in 1 .. Len(Sent(c)') : Had(c, Sent(c)[i])'
             /\ \A i, j \in 1 .. Len(Sent(c)') : i < j => Ordered(c, i, j)'
  <2>0. PICK n \in Nat : n = Len(Sent(c))
    BY <1>1, SentTyped
  <2>1. /\ Len(Sent(c)') = n + 1 /\ Sent(c)'[n + 1] = e
        /\ \A i \in 1 .. n : Sent(c)'[i] = Sent(c)[i]
    BY <1>1, <1>6, <2>0, Longer
  <2>2. Had(c, e)' /\ \A i \in 1 .. n : Sent(c)[i] # e
    BY <1>1, <1>6, <2>0, GainIsNew DEF IInv
  <2>3. ASSUME NEW i \in 1 .. n + 1 PROVE Had(c, Sent(c)[i])'
    <3>1. CASE i \in 1 .. n
      BY <1>3, <2>0, <2>1, <3>1
    <3>2. CASE i = n + 1
      BY <2>1, <2>2, <3>2 DEF Had, AddressedTo, Queued
    <3> QED
      BY <2>1, <3>1, <3>2
  <2>4. ASSUME NEW i \in 1 .. n, NEW j \in 1 .. n, i < j PROVE Ordered(c, i, j)'
    BY <1>1, <1>4, <2>0, <2>1, <2>4, OrderedStays
  <2>5. ASSUME NEW i \in 1 .. n PROVE Ordered(c, i, n + 1)'
    <3>1. Sent(c)'[i] # Sent(c)'[n + 1]
      BY <2>1, <2>2
    <3>2. ASSUME Sent(c)[i] \in Queued, e \in Queued
          PROVE  \E k, l \in 1 .. Len(order') : k < l /\ order'[k] = Sent(c)[i] /\ order'[l] = e
      <4>1. c \in visit /\ Taken > 0 /\ e = order[Taken] /\ order' = order
        BY <1>6, <3>2 DEF Gains
      <4>2. PICK k \in 1 .. Taken : order[k] = Sent(c)[i] /\ k < Taken
        BY <2>0, <3>2, <4>1 DEF IInv, SentOK, Had
      <4> QED
        BY <1>1, <4>1, <4>2 DEF Grows
    <3> QED
      BY <2>1, <3>1, <3>2 DEF Ordered, Queued
  <2> QED
    BY <2>1, <2>3, <2>4, <2>5
<1>7. SentOK'
  BY <1>2, <1>5, <1>6 DEF SentOK
<1>8. \A c \in Clients : \A i, j \in 1 .. Len(Sent(c)') : i < j => Ordered(c, i, j)'
  BY <1>2, <1>5, <1>6
<1>9. Once' /\ QueueOrder'
  <2>1. \A c \in Clients : Len(Sent(c)') \in Nat
    BY <1>1 DEF TypeOK, Sent
  <2> QED
    BY <1>8, <2>1 DEF Once, QueueOrder, Ordered
<1> QED
  BY <1>7, <1>9

(* Run goes on only when everybody has been visited, and a visit leaves    *)
(* the event or the mark that it was skipped.                              *)
LEMMA NextEvent ==
  ASSUME TypeOK, QueueOK, Next, Taken' # Taken
  PROVE  Take /\ Taken' = Taken + 1 /\ visit' = clients
<1> USE DEF clientVars, pubVars, hubVars, history
<1>1. Take
  <2>1. \A e \in Events : Broadcast(e) =>
          Len(queue') = Len(queue) + 1 /\ Len(order') = Len(order) + 1
    BY DEF Broadcast, TypeOK
  <2>2. Len(queue) \in Nat /\ Len(order) \in Nat
    BY DEF TypeOK
  <2> QED
    BY <2>1, <2>2
       DEF Taken, Next, Register, Unregister, Deliver, Read, Leave, Delivered, Speak,
           DirectStart, DirectEnd, DirectSend
<1>2. Len(queue') = Len(queue) - 1 /\ order' = order
  BY <1>1 DEF Take, TypeOK
<1> QED
  BY <1>1, <1>2 DEF Take, Taken, TypeOK

LEMMA LastVisited ==
  ASSUME TypeOK, WalkOK, QueueOK, Next, NEW c \in visit, c \notin visit', c \notin lagged',
         AddressedTo(c, order[Taken])
  PROVE  \E k \in 1 .. Len(Sent(c)') : Sent(c)'[k] = order[Taken]
<1> USE DEF clientVars, pubVars, hubVars, history
<1>1. c \in Clients /\ current # None
  BY DEF TypeOK, WalkOK
<1>2. Deliver(c)
  BY <1>1 DEF Next, Register, Unregister, Deliver, Read, Leave, Take, Delivered, Speak,
     Broadcast, DirectStart, DirectEnd, DirectSend
<1>3. /\ current \in Events /\ Offer(c, current, ShouldDeliver(c, current)) /\ got' = got
      /\ current = order[Taken] /\ Taken > 0
  BY <1>1, <1>2, Visited DEF Deliver, QueueOK
<1>4. ShouldDeliver(c, current)
  <2>1. Taken \in 1 .. Len(order)
    BY <1>3 DEF QueueOK, Taken, TypeOK
  <2>2. current \in Queued
    BY <1>3, <2>1 DEF QueueOK
  <2> QED
    BY <1>1, <1>3, <2>2, Addressed
<1>5. inbox' = [inbox EXCEPT ![c] = Append(@, current)]
  <2>1. ~(Len(inbox[c]) >= InboxCap)
    BY <1>3, <1>4 DEF Offer
  <2>2. Len(inbox[c]) < InboxCap
    BY <1>1, <2>1, HubAssumption DEF TypeOK
  <2> QED
    BY <1>3, <1>4, <2>2 DEF Offer
<1>6. Sent(c)' = got[c] \o Append(inbox[c], current)
  BY <1>1, <1>3, <1>5 DEF Sent, TypeOK
<1>7. got[c] \in Seq(Events) /\ inbox[c] \in Seq(Events)
  BY <1>1 DEF TypeOK
<1>8. ASSUME NEW g \in Seq(Events), NEW b \in Seq(Events)
      PROVE  \E k \in 1 .. Len(g \o Append(b, current)) : (g \o Append(b, current))[k] = current
  <2>1. Len(g) + Len(b) + 1 \in 1 .. Len(g \o Append(b, current))
    BY <1>3
  <2>2. (g \o Append(b, current))[Len(g) + Len(b) + 1] = current
    BY <1>3
  <2> QED
    BY <2>1, <2>2
<1>9. \E k \in 1 .. Len(got[c] \o Append(inbox[c], current)) :
        (got[c] \o Append(inbox[c], current))[k] = current
  BY <1>7, <1>8
<1> QED
  BY <1>3, <1>6, <1>9

LEMMA ReachedStep == IInv /\ Next => ReachedOK'
<1> SUFFICES ASSUME IInv, Next PROVE ReachedOK'
  OBVIOUS
<1>1. TypeOK /\ TypeOK' /\ WalkOK /\ QueueOK /\ QueueOK' /\ Grows
  BY TypeStep, QueueStep, Growing DEF IInv
<1> SUFFICES ASSUME NEW c \in clients', c \notin lagged',
                    NEW i \in joined'[c] + 1 .. Taken', AddressedTo(c, order'[i]),
                    ~(i = Taken' /\ c \in visit')
             PROVE  \E k \in 1 .. Len(Sent(c)') : Sent(c)'[k] = order'[i]
  BY DEF ReachedOK, AddressedTo
<1>2. c \in Clients /\ joined'[c] \in Nat /\ i \in Nat /\ i > 0
  BY <1>1 DEF TypeOK, QueueOK
<1>3. c \in clients /\ joined'[c] = joined[c]
  <2>1. ASSUME Register(c) PROVE FALSE
    <3>1. joined'[c] = Len(order')
      BY <1>1, <1>2, <2>1 DEF Register, TypeOK, history
    <3>2. Taken' <= Len(order')
      BY <1>1 DEF Taken, TypeOK
    <3> QED
      BY <1>1, <1>2, <3>1, <3>2 DEF QueueOK, TypeOK
  <2> QED
    BY <1>1, <1>2, <2>1
       DEF TypeOK, Next, Register, Unregister, Deliver, Read, Leave, Take, Delivered, Speak,
           Broadcast, DirectStart, DirectEnd, DirectSend, clientVars, pubVars, hubVars, history
<1>4. lagged \subseteq lagged'
  BY DEF Offer, Next, Register, Unregister, Deliver, Read, Leave, Take, Delivered, Speak,
     Broadcast, DirectStart, DirectEnd, DirectSend, clientVars, pubVars, hubVars, history
<1>5. i <= Taken
  <2> SUFFICES ASSUME i > Taken PROVE FALSE
    BY <1>1, <1>2 DEF Grows
  <2>1. Taken' = Taken + 1 /\ visit' = clients
    BY <1>1, <1>2, NextEvent DEF Grows
  <2> QED
    BY <1>1, <1>2, <1>3, <2>1 DEF Grows
<1>6. order'[i] = order[i] /\ AddressedTo(c, order[i]) /\ i \in joined[c] + 1 .. Taken
  BY <1>1, <1>2, <1>3, <1>5 DEF Grows
<1>7. CASE i = Taken /\ c \in visit
  <2>1. Taken' = Taken
    BY <1>1, <1>7, NextEvent DEF Take, WalkOK
  <2> QED
    BY <1>1, <1>6, <1>7, <2>1, LastVisited
<1>8. CASE ~(i = Taken /\ c \in visit)
  <2>1. PICK k \in 1 .. Len(Sent(c)) : Sent(c)[k] = order[i]
    BY <1>3, <1>4, <1>6, <1>8 DEF IInv, ReachedOK
  <2>2. Sent(c)' = Sent(c) \/ \E e \in Events : Gains(c, e)
    BY <1>1, <1>2, Streams
  <2>3. k \in 1 .. Len(Sent(c)') /\ Sent(c)'[k] = Sent(c)[k]
    <3>1. CASE Sent(c)' = Sent(c)
      BY <3>1
    <3>2. ASSUME NEW e \in Events, Gains(c, e)
          PROVE  k \in 1 .. Len(Sent(c)') /\ Sent(c)'[k] = Sent(c)[k]
      BY <1>1, <1>2, <3>2, Longer
    <3> QED
      BY <2>2, <3>1, <3>2
  <2> QED
    BY <1>6, <2>1, <2>3
<1> QED
  BY <1>7, <1>8

-----------------------------------------------------------------------------
(* Theorems.                                                               *)

LEMMA Start == Init => IInv
<1> SUFFICES ASSUME Init PROVE IInv
  OBVIOUS
<1>1. TypeOK
  BY DEF Init, TypeOK
<1>2. \A c \in Clients : Sent(c) = <<>>
  BY DEF Init, Sent
<1>3. WalkOK
  BY DEF Init, WalkOK, Queued
<1>4. QueueOK
  <2>1. Len(queue) = 0 /\ Len(order) = 0 /\ current = None
    BY DEF Init
  <2> QED
    BY <2>1 DEF QueueOK, Taken
<1>5. SentOK /\ Once /\ QueueOrder
  BY <1>2 DEF SentOK, Once, QueueOrder
<1>6. ReachedOK
  BY DEF Init, ReachedOK
<1> QED
  BY <1>1, <1>3, <1>4, <1>5, <1>6 DEF IInv

LEMMA Stutter == IInv /\ UNCHANGED vars => IInv'
<1> SUFFICES ASSUME IInv, UNCHANGED vars PROVE IInv'
  OBVIOUS
<1> USE DEF IInv, vars, clientVars, pubVars, hubVars, history
<1>1. TypeOK' /\ WalkOK' /\ QueueOK'
  BY DEF TypeOK, WalkOK, QueueOK, Taken
<1>2. Taken' = Taken /\ \A c \in Clients : Sent(c)' = Sent(c)
  BY DEF Taken, Sent
<1> HIDE DEF Taken, Sent
<1>3. SentOK'
  BY <1>2 DEF SentOK, Had, AddressedTo, Queued
<1>4. Once' /\ QueueOrder'
  BY <1>2 DEF Once, QueueOrder, Queued
<1>5. ReachedOK'
  <2>1. clients \subseteq Clients
    BY DEF TypeOK
  <2>2. UNCHANGED <<clients, lagged, joined, order, visit>>
    OBVIOUS
  <2>3. ReachedOK
    OBVIOUS
  <2> HIDE DEF IInv, vars
  <2> QED
    BY <1>2, <2>1, <2>2, <2>3 DEF ReachedOK, AddressedTo
<1> QED
  BY <1>1, <1>3, <1>4, <1>5

(* The inductive invariant: walks only over registered connections, the    *)
(* queue as the end of order, streams as parts of its beginning.           *)
THEOREM Invariance == Spec => []IInv
<1>1. IInv /\ Next => IInv'
  BY TypeStep, WalkStep, QueueStep, StreamStep, ReachedStep DEF IInv
<1> QED
  BY <1>1, Start, Stutter, PTL DEF Spec

(* Nobody sends on a channel that unregister has closed, whoever leaves in *)
(* the middle of a walk: the panic that would end the process.             *)
THEOREM SendsSafe == Spec => []NoSendOnClosed
<1>1. IInv => NoSendOnClosed
  BY DEF IInv, TypeOK, WalkOK, NoSendOnClosed
<1> QED
  BY <1>1, Invariance, PTL

(* A stream has nothing that its role may not see, and nothing twice.      *)
THEOREM OwnSafe == Spec => []OnlyYourOwn
<1>1. IInv => OnlyYourOwn
  <2> SUFFICES ASSUME IInv, NEW c \in Clients
               PROVE  /\ \A i \in 1 .. Len(Sent(c)) : AddressedTo(c, Sent(c)[i])
                      /\ IsInjective(Sent(c))
    BY DEF OnlyYourOwn
  <2>1. Sent(c) \in Seq(Events)
    BY SentTyped DEF IInv
  <2>2. \A s \in Seq(Events) : DOMAIN s = 1 .. Len(s)
    OBVIOUS
  <2>3. DOMAIN Sent(c) = 1 .. Len(Sent(c))
    BY <2>1, <2>2
  <2> QED
    BY <2>3 DEF IInv, SentOK, Had, Once, IsInjective
<1> QED
  BY <1>1, Invariance, PTL

(* Direct replies overtake what is queued, but queued events never         *)
(* overtake one another on any stream.                                     *)
THEOREM OrderSafe == Spec => []QueueOrder
BY Invariance, PTL DEF IInv

(* A connection that was always quick enough has been sent all that was    *)
(* queued for it since it joined, once run has finished with it.           *)
THEOREM DeliverySafe == Spec => []NothingLostUnlessLagging
<1>1. IInv => NothingLostUnlessLagging
  <2> SUFFICES ASSUME IInv, NEW c \in clients \ lagged,
                      NEW i \in joined[c] + 1 .. Len(order),
                      Finished(order[i]), AddressedTo(c, order[i])
               PROVE  \E k \in 1 .. Len(Sent(c)) : Sent(c)[k] = order[i]
    BY DEF NothingLostUnlessLagging
  <2>1. /\ Len(order) \in Nat /\ Len(queue) \in Nat /\ Taken \in Nat /\ joined[c] \in Nat
        /\ i \in Nat
    BY DEF IInv, TypeOK, QueueOK
  <2>2. i <= Taken
    <3> SUFFICES ASSUME i > Taken PROVE FALSE
      BY <2>1
    <3>1. i - Taken \in 1 .. Len(queue) /\ Taken + (i - Taken) = i
      BY <2>1 DEF Taken
    <3>2. queue[i - Taken] = order[i]
      BY <3>1 DEF IInv, QueueOK
    <3> QED
      BY <3>1, <3>2 DEF Finished
  <2>3. ~(i = Taken /\ c \in visit)
    BY DEF IInv, WalkOK, QueueOK, Finished
  <2> QED
    BY <2>1, <2>2, <2>3 DEF IInv, ReachedOK
<1> QED
  BY <1>1, Invariance, PTL
=============================================================================
