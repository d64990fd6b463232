------------------------------- MODULE PubSub -------------------------------
(***************************************************************************)
(* The publish/subscribe broker (pkg/pubsub) together with the connections *)
(* that use it (handleSubscribe, handleUnsubscribe, the PUBLISH handler and *)
(* the cleanup of handleConnection in pkg/server/tcp.go).                  *)
(*                                                                         *)
(* A subscription is a Go channel with a buffer and a delivery goroutine   *)
(* that copies it to the connection.  Publish keeps p.mu read-locked while *)
(* it offers the message to one subscriber after the other; Subscribe and  *)
(* Unsubscribe take p.mu for writing; receiving from a Go channel takes no *)
(* lock at all.  Go channels are numbered in the order they are made.      *)
(***************************************************************************)
EXTENDS Integers, Sequences, FiniteSets, SequencesExt

CONSTANTS
  Conns,      \* connections
  Channels,   \* channel names
  ArgLists,   \* argument lists of SUBSCRIBE and UNSUBSCRIBE, << >> for none
  BufferSize, \* capacity of a subscription's Go channel (16 in the code)
  MaxMsgs,    \* bound: messages published in one behaviour
  MaxChans    \* bound: subscriptions made in one behaviour

ASSUME PubSubAssumption ==
  /\ IsFiniteSet(Channels)
  /\ ArgLists \subseteq Seq(Channels)
  /\ BufferSize \in Nat \ {0}
  /\ MaxMsgs \in Nat
  /\ MaxChans \in Nat

ChanIds == 1 .. MaxChans
Msgs    == 1 .. MaxMsgs
None    == 0

VARIABLES
  subs,      \* p.subs: channel name -> set of Go channels registered
  made,      \* number of Go channels made
  buf,       \* buffered messages of each Go channel
  closed,    \* Go channels that were closed
  held,      \* the message a delivery goroutine received and has yet to write
  own,       \* handleConnection's subs: channel name -> its Go channel, or None
  pc,        \* what each connection's goroutine does next
  args,      \* the channel arguments it has yet to handle
  todo,      \* Publish: the Go channels the message was not offered to yet
  msg,       \* Publish: the message
  published, \* number of messages published
  accepted,  \* messages each Go channel took, in order (history)
  written,   \* messages each delivery goroutine wrote out, in order (history)
  reply      \* PUBLISH's count for each message

brokerVars == <<subs, made, closed>>
connVars   == <<own, pc, args>>
pubVars    == <<todo, msg, published, reply>>
vars == <<brokerVars, buf, held, connVars, pubVars, accepted, written>>

Steps == {"idle", "subscribe", "confirm", "unsubscribe", "unconfirm", "publish", "closing", "gone"}

TypeOK ==
  /\ subs \in [Channels -> SUBSET ChanIds]
  /\ made \in 0 .. MaxChans
  /\ closed \subseteq ChanIds
  /\ buf \in [ChanIds -> Seq(Msgs)]
  /\ \A i \in ChanIds : Len(buf[i]) <= BufferSize
  /\ held \in [ChanIds -> Msgs \cup {None}]
  /\ own \in [Conns -> [Channels -> ChanIds \cup {None}]]
  /\ pc \in [Conns -> Steps]
  /\ args \in [Conns -> Seq(Channels)]
  /\ todo \in [Conns -> SUBSET ChanIds]
  /\ msg \in [Conns -> Msgs \cup {None}]
  /\ published \in 0 .. MaxMsgs
  /\ reply \in [Msgs -> Nat]
  /\ accepted \in [ChanIds -> Seq(Msgs)]
  /\ written \in [ChanIds -> Seq(Msgs)]

Init ==
  /\ subs = [n \in Channels |-> {}]
  /\ made = 0
  /\ closed = {}
  /\ buf = [i \in ChanIds |-> << >>]
  /\ held = [i \in ChanIds |-> None]
  /\ own = [c \in Conns |-> [n \in Channels |-> None]]
  /\ pc = [c \in Conns |-> "idle"]
  /\ args = [c \in Conns |-> << >>]
  /\ todo = [c \in Conns |-> {}]
  /\ msg = [c \in Conns |-> None]
  /\ published = 0
  /\ reply = [m \in Msgs |-> 0]
  /\ accepted = [i \in ChanIds |-> << >>]
  /\ written = [i \in ChanIds |-> << >>]

\* p.mu: a publisher reads under it for its whole loop.
Readers == {c \in Conns : pc[c] = "publish"}

Goto(c, step) == pc' = [pc EXCEPT ![c] = step]

\* The loop over the arguments goes on to the next one.
Drop(c) == args[c] # << >> /\ args' = [args EXCEPT ![c] = Tail(@)]

\* The channels a connection is subscribed to.
Subscribed(c) == {n \in Channels : own[c][n] # None}

-----------------------------------------------------------------------------
(* SUBSCRIBE                                                               *)

CallSubscribe(c) ==
  /\ pc[c] = "idle"
  /\ \E ns \in ArgLists :
       /\ Len(ns) > 0
       /\ args' = [args EXCEPT ![c] = ns]
       /\ Goto(c, "subscribe")
  /\ UNCHANGED <<brokerVars, buf, held, own, pubVars, accepted, written>>

\* One argument of handleSubscribe. A channel the connection already has is
\* passed over; for another, PubSub.Subscribe registers a new Go channel
\* under p.mu and a delivery goroutine starts on it.
Subscribe(c) ==
  LET n == Head(args[c]) IN
  /\ pc[c] = "subscribe"
  /\ args[c] # << >>
  /\ IF own[c][n] # None
       THEN Drop(c) /\ UNCHANGED <<brokerVars, own, pc>>
       ELSE /\ Readers = {}
            /\ made < MaxChans
            /\ made' = made + 1
            /\ subs' = [subs EXCEPT ![n] = @ \cup {made + 1}]
            /\ own' = [own EXCEPT ![c][n] = made + 1]
            /\ Goto(c, "confirm")
            /\ UNCHANGED <<closed, args>>
  /\ UNCHANGED <<buf, held, pubVars, accepted, written>>

\* The subscribe confirmation is written, and the loop takes the next argument.
Confirm(c) ==
  /\ pc[c] = "confirm"
  /\ Drop(c)
  /\ Goto(c, "subscribe")
  /\ UNCHANGED <<brokerVars, buf, held, own, pubVars, accepted, written>>

\* The loop over the arguments of either command is done.
ArgsDone(c) ==
  /\ pc[c] \in {"subscribe", "unsubscribe"}
  /\ args[c] = << >>
  /\ Goto(c, "idle")
  /\ UNCHANGED <<brokerVars, buf, held, own, args, pubVars, accepted, written>>

-----------------------------------------------------------------------------
(* UNSUBSCRIBE and the end of a connection                                 *)

\* Without arguments it is every channel subscribed to, in map order.
CallUnsubscribe(c) ==
  /\ pc[c] = "idle"
  /\ \E ns \in ArgLists :
       args' \in IF ns = << >>
                   THEN {[args EXCEPT ![c] = all] : all \in SetToSeqs(Subscribed(c))}
                   ELSE {[args EXCEPT ![c] = ns]}
  /\ Goto(c, "unsubscribe")
  /\ UNCHANGED <<brokerVars, buf, held, own, pubVars, accepted, written>>

\* Mutant: the Go channel is closed and stays registered.
ReleaseKeepsEntry(c, n) ==
  /\ Readers = {}
  /\ closed' = closed \cup {own[c][n]}
  /\ own' = [own EXCEPT ![c][n] = None]
  /\ UNCHANGED <<subs, made>>

\* Mutant: p.mu is not taken.
ReleaseUnlocked(c, n) ==
  /\ subs' = [subs EXCEPT ![n] = @ \ {own[c][n]}]
  /\ closed' = closed \cup {own[c][n]}
  /\ own' = [own EXCEPT ![c][n] = None]
  /\ UNCHANGED made

\* PubSub.Unsubscribe under p.mu: take the Go channel out and close it; the
\* caller forgets it.
Release(c, n) ==
  /\ Readers = {}
  /\ subs' = [subs EXCEPT ![n] = @ \ {own[c][n]}]
  /\ closed' = closed \cup {own[c][n]}
  /\ own' = [own EXCEPT ![c][n] = None]
  /\ UNCHANGED made

\* One argument of handleUnsubscribe, up to its confirmation.
Unsubscribe(c) ==
  LET n == Head(args[c]) IN
  /\ pc[c] = "unsubscribe"
  /\ args[c] # << >>
  /\ IF own[c][n] # None THEN Release(c, n) ELSE UNCHANGED <<brokerVars, own>>
  /\ Goto(c, "unconfirm")
  /\ UNCHANGED <<args, buf, held, pubVars, accepted, written>>

\* The unsubscribe confirmation is written.
ConfirmUnsubscribe(c) ==
  /\ pc[c] = "unconfirm"
  /\ Drop(c)
  /\ Goto(c, "unsubscribe")
  /\ UNCHANGED <<brokerVars, buf, held, own, pubVars, accepted, written>>

\* The client is gone (EOF or a parse error): handleConnection's loop ends.
Hangup(c) ==
  /\ pc[c] = "idle"
  /\ Goto(c, "closing")
  /\ UNCHANGED <<brokerVars, buf, held, own, args, pubVars, accepted, written>>

\* The deferred cleanup: unsubscribe from every channel, then conn.Close().
Cleanup(c) ==
  /\ pc[c] = "closing"
  /\ \/ \E n \in Subscribed(c) : Release(c, n) /\ UNCHANGED pc
     \/ /\ Subscribed(c) = {}
        /\ Goto(c, "gone")
        /\ UNCHANGED <<brokerVars, own>>
  /\ UNCHANGED <<args, buf, held, pubVars, accepted, written>>

-----------------------------------------------------------------------------
(* PUBLISH                                                                 *)

\* Publish takes p.mu for reading and sees the channel's subscribers.
CallPublish(c) ==
  /\ pc[c] = "idle"
  /\ published < MaxMsgs
  /\ published' = published + 1
  /\ msg' = [msg EXCEPT ![c] = published + 1]
  /\ \E n \in Channels : todo' = [todo EXCEPT ![c] = subs[n]]
  /\ Goto(c, "publish")
  /\ UNCHANGED <<brokerVars, buf, held, own, args, reply, accepted, written>>

\* Mutant: the queue of a subscriber has no bound.
OfferUnbounded(c) ==
  /\ pc[c] = "publish"
  /\ \E i \in todo[c] :
       /\ todo' = [todo EXCEPT ![c] = @ \ {i}]
       /\ buf' = [buf EXCEPT ![i] = Append(@, msg[c])]
       /\ accepted' = [accepted EXCEPT ![i] = Append(@, msg[c])]
       /\ reply' = [reply EXCEPT ![msg[c]] = @ + 1]
  /\ UNCHANGED <<brokerVars, held, connVars, msg, published, written>>

\* Mutant: delivered++ after the select.
OfferCountsAll(c) ==
  /\ pc[c] = "publish"
  /\ \E i \in todo[c] :
       /\ todo' = [todo EXCEPT ![c] = @ \ {i}]
       /\ reply' = [reply EXCEPT ![msg[c]] = @ + 1]
       /\ IF Len(buf[i]) < BufferSize
            THEN /\ buf' = [buf EXCEPT ![i] = Append(@, msg[c])]
                 /\ accepted' = [accepted EXCEPT ![i] = Append(@, msg[c])]
            ELSE UNCHANGED <<buf, accepted>>
  /\ UNCHANGED <<brokerVars, held, connVars, msg, published, written>>

\* Mutant: a plain send, without the default case.
OfferBlocks(c) ==
  /\ pc[c] = "publish"
  /\ \E i \in todo[c] :
       /\ Len(buf[i]) < BufferSize
       /\ todo' = [todo EXCEPT ![c] = @ \ {i}]
       /\ buf' = [buf EXCEPT ![i] = Append(@, msg[c])]
       /\ accepted' = [accepted EXCEPT ![i] = Append(@, msg[c])]
       /\ reply' = [reply EXCEPT ![msg[c]] = @ + 1]
  /\ UNCHANGED <<brokerVars, held, connVars, msg, published, written>>

\* select { case ch <- m: delivered++; default: } for one subscriber.
Offer(c) ==
  /\ pc[c] = "publish"
  /\ \E i \in todo[c] :
       /\ todo' = [todo EXCEPT ![c] = @ \ {i}]
       /\ IF Len(buf[i]) < BufferSize
            THEN /\ buf' = [buf EXCEPT ![i] = Append(@, msg[c])]
                 /\ accepted' = [accepted EXCEPT ![i] = Append(@, msg[c])]
                 /\ reply' = [reply EXCEPT ![msg[c]] = @ + 1]
            ELSE UNCHANGED <<buf, accepted, reply>>
  /\ UNCHANGED <<brokerVars, held, connVars, msg, published, written>>

\* Mutant: a return path that does not unlock (nobody took the message).
PublishKeepsLock(c) ==
  /\ pc[c] = "publish"
  /\ todo[c] = {}
  /\ reply[msg[c]] > 0
  /\ msg' = [msg EXCEPT ![c] = None]
  /\ Goto(c, "idle")
  /\ UNCHANGED <<brokerVars, buf, held, own, args, todo, published, reply, accepted, written>>

\* The loop is over: p.mu is released and the count is the reply.
PublishDone(c) ==
  /\ pc[c] = "publish"
  /\ todo[c] = {}
  /\ msg' = [msg EXCEPT ![c] = None]
  /\ Goto(c, "idle")
  /\ UNCHANGED <<brokerVars, buf, held, own, args, todo, published, reply, accepted, written>>

-----------------------------------------------------------------------------
(* The delivery goroutine of one subscription: for msg := range ch { ... } *)

\* Mutant: the goroutine stops as soon as its channel is closed.
ReceiveUntilClosed(i) ==
  /\ i \notin closed
  /\ held[i] = None
  /\ buf[i] # << >>
  /\ held' = [held EXCEPT ![i] = Head(buf[i])]
  /\ buf' = [buf EXCEPT ![i] = Tail(@)]
  /\ UNCHANGED <<brokerVars, connVars, pubVars, accepted, written>>

\* A receive from a Go channel succeeds while messages are buffered, closed
\* or not.
Receive(i) ==
  /\ held[i] = None
  /\ buf[i] # << >>
  /\ held' = [held EXCEPT ![i] = Head(buf[i])]
  /\ buf' = [buf EXCEPT ![i] = Tail(@)]
  /\ UNCHANGED <<brokerVars, connVars, pubVars, accepted, written>>

\* The message is written to the connection, or the write fails because the
\* connection was closed, which the goroutine ignores.
Write(i) ==
  /\ held[i] # None
  /\ held' = [held EXCEPT ![i] = None]
  /\ written' = [written EXCEPT ![i] = Append(@, held[i])]
  /\ UNCHANGED <<brokerVars, buf, connVars, pubVars, accepted>>

-----------------------------------------------------------------------------
Handler(c) ==
  \/ Subscribe(c) \/ Confirm(c) \/ ArgsDone(c)
  \/ Unsubscribe(c) \/ ConfirmUnsubscribe(c) \/ Cleanup(c)
  \/ Offer(c) \/ PublishDone(c)

Call(c) == CallSubscribe(c) \/ CallUnsubscribe(c) \/ CallPublish(c) \/ Hangup(c)

Deliver(i) == Receive(i) \/ Write(i)

Next ==
  \/ \E c \in Conns : Call(c) \/ Handler(c)
  \/ \E i \in ChanIds : Deliver(i)

Spec == Init /\ [][Next]_vars

\* Publishers and the cleanup of a connection are scheduled; p.mu, which gives
\* a waiting writer precedence over new readers, is granted in the end.  No
\* client needs to read what is written to it, so a handler that writes a
\* confirmation need not go on.
FairSpec ==
  /\ Spec
  /\ \A c \in Conns : WF_vars(Offer(c)) /\ WF_vars(PublishDone(c)) /\ SF_vars(Cleanup(c))

\* The clients read, so that delivery goroutines make progress.
ClientsRead == \A i \in ChanIds : WF_vars(Deliver(i))

-----------------------------------------------------------------------------
(* What the broker guarantees.                                             *)

\* A connection's own map and the broker's registry agree: every Go channel a
\* connection holds is open, registered under its name and under no other,
\* nobody else holds it, and nothing else is registered (no subscription
\* outlives its connection).  So Unsubscribe never closes a channel twice.
RegistryExact ==
  /\ \A n \in Channels : subs[n] = {own[c][n] : c \in Conns} \ {None}
  /\ \A n \in Channels : subs[n] \cap closed = {}
  /\ \A c, d \in Conns : \A n, k \in Channels :
       own[c][n] = own[d][k] /\ own[c][n] # None => c = d /\ n = k

\* Publish never sends on a closed channel, which would panic: as long as a
\* publisher has a subscriber on its list, that subscriber's channel is open
\* (Publish holds p.mu for its whole loop, Unsubscribe closes under p.mu).
NoSendOnClosed ==
  \A c \in Conns : pc[c] = "publish" => todo[c] \cap closed = {}

\* PUBLISH returns the number of subscribers that really get the message: the
\* ones that took it, and each writes out what it took, once and in order,
\* skipping nothing (a full buffer is not counted).
CountIsExact ==
  /\ \A m \in 1 .. published :
       (\A c \in Conns : msg[c] # m) =>
         reply[m] = Cardinality({i \in ChanIds : m \in Range(accepted[i])})
  /\ \A i \in ChanIds :
       accepted[i] = written[i] \o (IF held[i] = None THEN << >> ELSE <<held[i]>>) \o buf[i]

\* "skipped for that message rather than blocking the publisher": PUBLISH
\* returns even if no subscriber ever reads.
PublishReturns == \A c \in Conns : pc[c] = "publish" ~> pc[c] = "idle"

\* If the clients read, everything accepted is written out in the end, also by
\* the goroutine of a closed subscription, which then stops (for msg := range
\* ch goes on until a closed channel is empty).
AllWritten == ClientsRead => \A i \in ChanIds : <>[](written[i] = accepted[i])

\* A connection that hung up gives its subscriptions back, whatever others
\* publish and whoever does not read (handleConnection's deferred function
\* waits for p.mu, which no publisher keeps).
CleanupEnds == \A c \in Conns : pc[c] = "closing" ~> pc[c] = "gone"
=============================================================================
