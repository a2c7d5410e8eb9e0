------------------------------- MODULE SseHub -------------------------------
(***************************************************************************)
(* The event hub behind GET /api/v1/stream (internal/sse/hub.go) and the   *)
(* stream handler that drains it.  One goroutine, run, owns the client map *)
(* and serves three channels; every request that has something to say is a *)
(* publisher of its own.  Broadcast goes through the queue; a reply to one *)
(* siswa (BroadcastToSiswaByID) does not: its goroutine walks the client   *)
(* map itself under RLock, next to run doing the same.                     *)
(***************************************************************************)

EXTENDS Naturals, Sequences, FiniteSets, SequencesExt

CONSTANTS
  Clients,    (* stream connections                                          *)
  Role,       (* their role: "guru", "siswa" or "public"                     *)
  SiswaID,    (* the siswa a connection belongs to; 0 unless role "siswa"    *)
  Events,     (* events, each published once by a request of its own         *)
  Scope,      (* "guru", "siswa" or "all" in the queue, "direct" past it     *)
  Target,     (* the siswa a direct event is for                             *)
  QueueCap,   (* capacity of Hub.broadcast, 100 in the code                  *)
  InboxCap,   (* capacity of Client.Events, 50 in the code                   *)
  None        (* run is in its select                                        *)

ASSUME HubAssumption ==
  /\ Role \in [Clients -> {"guru", "siswa", "public"}]
  /\ SiswaID \in [Clients -> Nat]
  /\ Scope \in [Events -> {"guru", "siswa", "all", "direct"}]
  /\ Target \in [Events -> Nat]
  /\ QueueCap \in Nat \ {0}
  /\ InboxCap \in Nat \ {0}
  /\ None \notin Events

VARIABLES
  conn,       (* each stream handler: new, open, leaving, closed             *)
  clients,    (* Hub.clients                                                 *)
  closed,     (* clients whose Events channel is closed                      *)
  inbox,      (* Client.Events                                               *)
  got,        (* events written to the connection                            *)
  pub,        (* each publisher: new, waiting, sending, done                 *)
  todo,       (* clients its walk under RLock has still to visit             *)
  queue,      (* Hub.broadcast                                               *)
  current,    (* the event run is delivering, or None                        *)
  visit,      (* clients run has still to visit for it                       *)
  order,      (* history: queued events in the order they entered the queue  *)
  joined,     (* history: Len(order) when each client was registered         *)
  lagged      (* history: clients an event was skipped for                   *)

clientVars == <<conn, clients, closed, inbox, got>>
pubVars    == <<pub, todo>>
hubVars    == <<queue, current, visit>>
history    == <<order, joined, lagged>>
vars       == <<clientVars, pubVars, hubVars, history>>

Queued == {e \in Events : Scope[e] # "direct"}

Init ==
  /\ conn    = [c \in Clients |-> "new"]
  /\ clients = {}
  /\ closed  = {}
  /\ inbox   = [c \in Clients |-> <<>>]
  /\ got     = [c \in Clients |-> <<>>]
  /\ pub     = [e \in Events |-> "new"]
  /\ todo    = [e \in Events |-> {}]
  /\ queue   = <<>>
  /\ current = None
  /\ visit   = {}
  /\ order   = <<>>
  /\ joined  = [c \in Clients |-> 0]
  /\ lagged  = {}

(* RLock is free to take at any time here: run alone takes Lock, for the   *)
(* length of one step.  Lock must wait for the walks of direct publishers. *)
NoReader == \A e \in Events : pub[e] # "sending"

-----------------------------------------------------------------------------
(* run: register and unregister.  The channels are unbuffered, so the      *)
(* handler hands the client over in the same step.                         *)

Register(c) ==
  /\ conn[c] = "new"
  /\ current = None
  /\ NoReader
  /\ conn' = [conn EXCEPT ![c] = "open"]
  /\ clients' = clients \cup {c}
  /\ joined' = [joined EXCEPT ![c] = Len(order)]
  /\ UNCHANGED <<closed, inbox, got, pubVars, hubVars, order, lagged>>

(* Mutant: the channel is closed without taking the lock.                  *)
Unregister_NoLock(c) ==
  /\ conn[c] = "leaving"
  /\ current = None
  /\ conn' = [conn EXCEPT ![c] = "closed"]
  /\ clients' = clients \ {c}
  /\ closed' = closed \cup {c}
  /\ UNCHANGED <<inbox, got, pubVars, hubVars, history>>

Unregister(c) ==
  /\ conn[c] = "leaving"
  /\ current = None
  /\ NoReader
  /\ conn' = [conn EXCEPT ![c] = "closed"]
  /\ clients' = clients \ {c}
  /\ closed' = closed \cup {c}
  /\ UNCHANGED <<inbox, got, pubVars, hubVars, history>>

-----------------------------------------------------------------------------
(* run: the queue.                                                         *)

(* Mutant: anybody with a token may see what is for the guru.              *)
ShouldDeliver_Open(c, e) ==
  \/ Scope[e] = "all"
  \/ Scope[e] = "guru"  /\ Role[c] # "public"
  \/ Scope[e] = "siswa" /\ Role[c] \in {"siswa", "public"}

ShouldDeliver(c, e) ==
  \/ Scope[e] = "all"
  \/ Scope[e] = "guru"  /\ Role[c] = "guru"
  \/ Scope[e] = "siswa" /\ Role[c] \in {"siswa", "public"}

(* BroadcastToSiswaByID: that siswa's streams, and every public listener.  *)
Match(c, e) ==
  \/ Role[c] = "siswa" /\ SiswaID[c] = Target[e]
  \/ Role[c] = "public"

(* Mutant: the send waits for a slow client (a select without default).    *)
Offer_Blocking(c, e, addressed) ==
  IF addressed
    THEN /\ Len(inbox[c]) < InboxCap
         /\ inbox' = [inbox EXCEPT ![c] = Append(@, e)]
         /\ UNCHANGED lagged
    ELSE UNCHANGED <<inbox, lagged>>

(* The non-blocking send: a full channel means the event is skipped.       *)
Offer(c, e, addressed) ==
  /\ inbox' = IF addressed /\ Len(inbox[c]) < InboxCap
                THEN [inbox EXCEPT ![c] = Append(@, e)] ELSE inbox
  /\ lagged' = IF addressed /\ Len(inbox[c]) >= InboxCap
                 THEN lagged \cup {c} ELSE lagged

Take ==
  /\ current = None
  /\ queue # <<>>
  /\ current' = Head(queue)
  /\ queue' = Tail(queue)
  /\ visit' = clients
  /\ UNCHANGED <<clientVars, pubVars, history>>

(* Mutant: the loop is left at the first slow client.                      *)
Deliver_StopsAtSlow(c) ==
  /\ c \in visit
  /\ Offer(c, current, ShouldDeliver(c, current))
  /\ visit' = IF lagged' = lagged THEN visit \ {c} ELSE {}
  /\ UNCHANGED <<conn, clients, closed, got, pubVars, queue, current, order, joined>>

(* Mutant: run, not the direct publishers, waits for a slow client.        *)
Deliver_Waits(c) ==
  /\ c \in visit
  /\ Offer_Blocking(c, current, ShouldDeliver(c, current))
  /\ visit' = visit \ {c}
  /\ UNCHANGED <<conn, clients, closed, got, pubVars, queue, current, order, joined>>

Deliver(c) ==
  /\ c \in visit
  /\ Offer(c, current, ShouldDeliver(c, current))
  /\ visit' = visit \ {c}
  /\ UNCHANGED <<conn, clients, closed, got, pubVars, queue, current, order, joined>>

Delivered ==
  /\ current # None
  /\ visit = {}
  /\ current' = None
  /\ UNCHANGED <<clientVars, pubVars, queue, visit, history>>

-----------------------------------------------------------------------------
(* Publishers.                                                             *)

(* A handler has something to say.                                         *)
Speak(e) ==
  /\ pub[e] = "new"
  /\ pub' = [pub EXCEPT ![e] = "waiting"]
  /\ UNCHANGED <<clientVars, todo, hubVars, history>>

(* Mutant: a publisher that finds the queue full serves the clients itself.*)
Broadcast_PastTheQueue(e) ==
  /\ e \in Queued
  /\ pub[e] = "waiting"
  /\ IF Len(queue) < QueueCap
       THEN queue' = Append(queue, e) /\ UNCHANGED inbox
       ELSE /\ inbox' = [c \in Clients |->
                           IF c \in clients /\ ShouldDeliver(c, e) /\ Len(inbox[c]) < InboxCap
                             THEN Append(inbox[c], e) ELSE inbox[c]]
            /\ UNCHANGED queue
  /\ order' = Append(order, e)
  /\ pub' = [pub EXCEPT ![e] = "done"]
  /\ UNCHANGED <<conn, clients, closed, got, todo, current, visit, joined, lagged>>

(* BroadcastToGuru, BroadcastToSiswa, BroadcastToAll: blocks while full.   *)
Broadcast(e) ==
  /\ e \in Queued
  /\ pub[e] = "waiting"
  /\ Len(queue) < QueueCap
  /\ queue' = Append(queue, e)
  /\ order' = Append(order, e)
  /\ pub' = [pub EXCEPT ![e] = "done"]
  /\ UNCHANGED <<clientVars, todo, current, visit, joined, lagged>>

DirectStart(e) ==
  /\ e \notin Queued
  /\ pub[e] = "waiting"
  /\ pub' = [pub EXCEPT ![e] = "sending"]
  /\ todo' = [todo EXCEPT ![e] = clients]
  /\ UNCHANGED <<clientVars, hubVars, history>>

DirectSend(e, c) ==
  /\ c \in todo[e]
  /\ Offer(c, e, Match(c, e))
  /\ todo' = [todo EXCEPT ![e] = @ \ {c}]
  /\ UNCHANGED <<conn, clients, closed, got, pub, hubVars, order, joined>>

DirectEnd(e) ==
  /\ pub[e] = "sending"
  /\ todo[e] = {}
  /\ pub' = [pub EXCEPT ![e] = "done"]
  /\ UNCHANGED <<clientVars, todo, hubVars, history>>

-----------------------------------------------------------------------------
(* HandleStream.                                                           *)

Read(c) ==
  /\ conn[c] = "open"
  /\ inbox[c] # <<>>
  /\ got' = [got EXCEPT ![c] = Append(@, Head(inbox[c]))]
  /\ inbox' = [inbox EXCEPT ![c] = Tail(@)]
  /\ UNCHANGED <<conn, clients, closed, pubVars, hubVars, history>>

Leave(c) ==
  /\ conn[c] = "open"
  /\ conn' = [conn EXCEPT ![c] = "leaving"]
  /\ UNCHANGED <<clients, closed, inbox, got, pubVars, hubVars, history>>

-----------------------------------------------------------------------------
Next ==
  \/ \E c \in Clients : Register(c) \/ Unregister(c) \/ Deliver(c) \/ Read(c) \/ Leave(c)
  \/ Take \/ Delivered
  \/ \E e \in Events : Speak(e) \/ Broadcast(e) \/ DirectStart(e) \/ DirectEnd(e)
  \/ \E e \in Events, c \in Clients : DirectSend(e, c)

(* What the hub goroutine does for the event it has taken, and what the    *)
(* goroutine of each publisher does.                                       *)
HubStep        == Take \/ Delivered \/ \E c \in Clients : Deliver(c)
PublishStep(e) == Broadcast(e) \/ DirectStart(e) \/ DirectEnd(e) \/ \E c \in Clients : DirectSend(e, c)

(* The hub goroutine and the publishers run whenever they can, and select  *)
(* passes over no handler that waits in Unregister for ever.  A client     *)
(* need not read (a stalled connection) nor leave.                         *)
Fairness ==
  /\ WF_vars(HubStep)
  /\ \A c \in Clients : WF_vars(Unregister(c))
  /\ \A e \in Events : WF_vars(PublishStep(e))

Spec     == Init /\ [][Next]_vars
FairSpec == Spec /\ Fairness

-----------------------------------------------------------------------------
(* Properties.                                                             *)

(* What a connection has been sent, read or not.                           *)
Sent(c) == got[c] \o inbox[c]

(* No goroutine is about to send on a closed channel, which would panic:   *)
(* neither run nor a direct publisher in the middle of its walk, whoever   *)
(* disconnects meanwhile (unregister closes under Lock).                   *)
NoSendOnClosed ==
  /\ visit \cap closed = {}
  /\ \A e \in Events : todo[e] \cap closed = {}

(* A stream carries only what its role may see: guru events go to gurus,   *)
(* a direct reply to its siswa or to public listeners, and nothing twice.  *)
AddressedTo(c, e) ==
  CASE Scope[e] = "guru"   -> Role[c] = "guru"
    [] Scope[e] = "siswa"  -> Role[c] # "guru"
    [] Scope[e] = "direct" -> Role[c] = "public" \/ (Role[c] = "siswa" /\ SiswaID[c] = Target[e])
    [] OTHER               -> TRUE

OnlyYourOwn ==
  \A c \in Clients :
    /\ \A i \in 1 .. Len(Sent(c)) : AddressedTo(c, Sent(c)[i])
    /\ IsInjective(Sent(c))

(* Events of the queue reach a connection in the order they were queued,   *)
(* gaps allowed, however direct replies are mixed in between.              *)
QueueOrder ==
  \A c \in Clients :
    \A i, j \in 1 .. Len(Sent(c)) :
      i < j /\ Sent(c)[i] \in Queued /\ Sent(c)[j] \in Queued =>
        \E m, n \in 1 .. Len(order) : m < n /\ order[m] = Sent(c)[i] /\ order[n] = Sent(c)[j]

(* A connected client that never lagged has been sent every event for it   *)
(* that was queued since it joined and that run has finished with.         *)
Finished(e) ==
  /\ \E i \in 1 .. Len(order) : order[i] = e
  /\ \A i \in 1 .. Len(queue) : queue[i] # e
  /\ current # e

NothingLostUnlessLagging ==
  \A c \in clients \ lagged :
    \A i \in joined[c] + 1 .. Len(order) :
      Finished(order[i]) /\ AddressedTo(c, order[i]) =>
        \E k \in 1 .. Len(Sent(c)) : Sent(c)[k] = order[i]

(* A connection that is gone is given up: its handler gets through         *)
(* Unregister, whichever other connections have stopped reading.  Each     *)
(* leaves once, so "again and again nobody waits" says nobody waits for    *)
(* ever; the same below, where each event is published once.               *)
LeaversLeave == []<>(\A c \in Clients : conn[c] # "leaving")

(* A request that publishes is held up for ever neither by slow listeners  *)
(* nor by the queue: while run is at work and the queue is full, further   *)
(* publishers block, and each of them gets through.                        *)
SpeakersDone == []<>(\A e \in Events : pub[e] \notin {"waiting", "sending"})
=============================================================================
