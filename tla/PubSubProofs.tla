---------------------------- MODULE PubSubProofs ----------------------------
(***************************************************************************)
(* For any connections, channels, buffers and messages: the broker's       *)
(* registry is exact, Publish never sends on a closed channel and counts   *)
(* the subscribers that took the message, and each subscriber's stream of  *)
(* messages is whole.                                                      *)
(***************************************************************************)
EXTENDS PubSub, FiniteSetTheorems, SequenceTheorems, TLAPS

\* The types the argument needs.
RegistryTypes ==
  /\ subs \in [Channels -> SUBSET ChanIds]
  /\ made \in 0 .. MaxChans
  /\ closed \subseteq ChanIds
  /\ own \in [Conns -> [Channels -> ChanIds \cup {None}]]
  /\ pc \in [Conns -> Steps]
  /\ args \in [Conns -> Seq(Channels)]
  /\ todo \in [Conns -> SUBSET ChanIds]

\* A Go channel that was not made yet is nowhere.
FreshUnused ==
  /\ \A i \in closed : i <= made
  /\ \A n \in Channels : \A i \in subs[n] : i <= made

\* What a publisher has left to do is registered: nobody changes the registry
\* while p.mu is read-locked.
TodoRegistered ==
  \A c \in Conns : pc[c] = "publish" => todo[c] \subseteq UNION {subs[n] : n \in Channels}

RegistryInv == RegistryTypes /\ FreshUnused /\ RegistryExact /\ TodoRegistered

\* What a publisher still has to offer is registered, so it is not closed.
LEMMA RegistryImpliesSafe == RegistryInv => NoSendOnClosed
  BY DEF RegistryInv, RegistryExact, TodoRegistered, NoSendOnClosed

\* Giving one subscription back keeps the registry exact.
LEMMA ReleaseKeepsRegistry ==
  ASSUME RegistryInv, NEW c \in Conns, NEW n \in Subscribed(c), Release(c, n),
         UNCHANGED <<args, todo>>, pc' \in [Conns -> Steps],
         \A d \in Conns : pc'[d] = "publish" => pc[d] = "publish"
  PROVE  RegistryInv'
<1>1. /\ n \in Channels /\ own[c][n] \in ChanIds /\ own[c][n] # None
      /\ subs' = [subs EXCEPT ![n] = @ \ {own[c][n]}]
      /\ closed' = closed \cup {own[c][n]}
      /\ own' = [own EXCEPT ![c][n] = None]
      /\ made' = made /\ Readers = {}
  BY DEF Subscribed, Release, RegistryInv, RegistryTypes
<1>2. RegistryTypes'
  BY <1>1 DEF RegistryInv, RegistryTypes
<1>3. FreshUnused'
  BY <1>1 DEF RegistryInv, RegistryTypes, FreshUnused, RegistryExact
<1>4. TodoRegistered'
  BY <1>1 DEF TodoRegistered, Readers
<1>5. RegistryExact'
  <2>1. ASSUME NEW m \in Channels PROVE subs'[m] = {own'[d][m] : d \in Conns} \ {None}
    BY <1>1 DEF RegistryInv, RegistryTypes, RegistryExact
  <2>2. ASSUME NEW m \in Channels PROVE subs'[m] \cap closed' = {}
    BY <1>1 DEF RegistryInv, RegistryTypes, RegistryExact
  <2>3. ASSUME NEW d \in Conns, NEW e \in Conns, NEW m \in Channels, NEW k \in Channels,
               own'[d][m] = own'[e][k], own'[d][m] # None
        PROVE  d = e /\ m = k
    BY <1>1, <2>3 DEF RegistryInv, RegistryTypes, RegistryExact
  <2> QED BY <2>1, <2>2, <2>3 DEF RegistryExact
<1> QED BY <1>2, <1>3, <1>4, <1>5 DEF RegistryInv

\* A new subscription keeps the registry exact.
LEMMA SubscribeKeepsRegistry ==
  ASSUME RegistryInv, NEW c \in Conns, Subscribe(c)
  PROVE  RegistryInv'
<1> DEFINE n == Head(args[c])
<1>0. args[c] \in Seq(Channels) /\ args[c] # << >>
  BY DEF RegistryInv, RegistryTypes, Subscribe
<1>1. CASE own[c][n] # None
  <2>1. args' = [args EXCEPT ![c] = Tail(@)] /\ UNCHANGED <<subs, made, closed, own, pc, todo>>
    BY <1>1 DEF Subscribe, Drop, brokerVars, pubVars
  <2>2. args' \in [Conns -> Seq(Channels)]
    BY <1>0, <2>1 DEF RegistryInv, RegistryTypes
  <2> QED BY <2>1, <2>2 DEF RegistryInv, RegistryTypes, FreshUnused, RegistryExact, TodoRegistered
<1>2. CASE own[c][n] = None
  <2>1. /\ n \in Channels /\ Readers = {} /\ made < MaxChans /\ made' = made + 1
        /\ subs' = [subs EXCEPT ![n] = @ \cup {made + 1}]
        /\ own' = [own EXCEPT ![c][n] = made + 1]
        /\ closed' = closed /\ todo' = todo /\ args' = args
        /\ pc' = [pc EXCEPT ![c] = "confirm"] /\ pc[c] = "subscribe"
    BY <1>0, <1>2 DEF Subscribe, Goto, pubVars
  <2> HIDE DEF n
  <2>2. made + 1 \in ChanIds /\ made + 1 # None /\ made \in Nat /\ MaxChans \in Nat
    BY <2>1, PubSubAssumption DEF RegistryInv, RegistryTypes, ChanIds, None
  <2>3. RegistryTypes'
    BY <2>1, <2>2 DEF RegistryInv, RegistryTypes, Steps
  <2>4. made + 1 \notin closed /\ \A m \in Channels : made + 1 \notin subs[m]
    BY <2>2 DEF RegistryInv, FreshUnused
  <2>5. \A d \in Conns, m \in Channels : own[d][m] # made + 1
    BY <2>2, <2>4 DEF RegistryInv, RegistryExact
  <2>6. FreshUnused'
    BY <2>1, <2>2 DEF RegistryInv, RegistryTypes, FreshUnused, ChanIds
  <2>7. TodoRegistered'
    BY <2>1 DEF TodoRegistered, Readers, RegistryInv, RegistryTypes
  <2>8. RegistryExact'
    <3>1. ASSUME NEW m \in Channels PROVE subs'[m] = {own'[d][m] : d \in Conns} \ {None}
      BY <1>2, <2>1, <2>2 DEF RegistryInv, RegistryTypes, RegistryExact, n
    <3>2. ASSUME NEW m \in Channels PROVE subs'[m] \cap closed' = {}
      BY <2>1, <2>4 DEF RegistryInv, RegistryTypes, RegistryExact
    <3>3. ASSUME NEW d \in Conns, NEW e \in Conns, NEW m \in Channels, NEW k \in Channels,
                 own'[d][m] = own'[e][k], own'[d][m] # None
          PROVE  d = e /\ m = k
      BY <2>1, <2>5, <3>3 DEF RegistryInv, RegistryTypes, RegistryExact
    <3> QED BY <3>1, <3>2, <3>3 DEF RegistryExact
  <2> QED BY <2>3, <2>6, <2>7, <2>8 DEF RegistryInv
<1> QED BY <1>1, <1>2

\* A step that leaves the registry alone keeps the invariant, provided that a
\* publisher it lets in starts from registered channels.
LEMMA OtherStepsKeepRegistry ==
  ASSUME RegistryInv, UNCHANGED brokerVars, UNCHANGED own,
         pc' \in [Conns -> Steps], args' \in [Conns -> Seq(Channels)],
         todo' \in [Conns -> SUBSET ChanIds],
         \A d \in Conns : pc'[d] = "publish" =>
           \/ pc[d] = "publish" /\ todo'[d] \subseteq todo[d]
           \/ \E n \in Channels : todo'[d] \subseteq subs[n]
  PROVE  RegistryInv'
<1>1. RegistryTypes' /\ FreshUnused' /\ RegistryExact'
  BY DEF RegistryInv, RegistryTypes, FreshUnused, RegistryExact, brokerVars
<1>2. ASSUME NEW d \in Conns, pc'[d] = "publish"
      PROVE  todo'[d] \subseteq UNION {subs[n] : n \in Channels}
  <2>1. CASE pc[d] = "publish" /\ todo'[d] \subseteq todo[d]
    BY <2>1 DEF RegistryInv, TodoRegistered
  <2>2. CASE \E n \in Channels : todo'[d] \subseteq subs[n]
    BY <2>2
  <2> QED BY <1>2, <2>1, <2>2
<1>3. TodoRegistered'
  BY <1>2 DEF TodoRegistered, brokerVars
<1> QED BY <1>1, <1>3 DEF RegistryInv

\* The order in which UNSUBSCRIBE without arguments goes through a map is an
\* argument list.
LEMMA AllSubscribedTyped ==
  ASSUME NEW c \in Conns, NEW all \in SetToSeqs(Subscribed(c))
  PROVE  all \in Seq(Channels)
<1>1. IsFiniteSet(Subscribed(c))
  BY FS_Subset, PubSubAssumption DEF Subscribed
<1>2. Cardinality(Subscribed(c)) \in Nat
  BY <1>1, FS_CardinalityType
<1>3. all \in [1 .. Cardinality(Subscribed(c)) -> Subscribed(c)]
  BY DEF SetToSeqs
<1>4. Subscribed(c) \subseteq Channels
  BY DEF Subscribed
<1> QED BY <1>2, <1>3, <1>4

\* Every step keeps the registry's invariant.
LEMMA NextKeepsRegistry ==
  ASSUME RegistryInv, [Next]_vars
  PROVE  RegistryInv'
<1>0. /\ pc \in [Conns -> Steps] /\ args \in [Conns -> Seq(Channels)]
      /\ todo \in [Conns -> SUBSET ChanIds] /\ subs \in [Channels -> SUBSET ChanIds]
  BY DEF RegistryInv, RegistryTypes
<1>1. CASE UNCHANGED vars
  BY <1>0, <1>1, OtherStepsKeepRegistry DEF vars, brokerVars, connVars, pubVars
<1>2. ASSUME NEW i \in ChanIds, Deliver(i) PROVE RegistryInv'
  BY <1>0, <1>2, OtherStepsKeepRegistry DEF Deliver, Receive, Write, connVars, pubVars
<1>3. ASSUME NEW c \in Conns, Call(c) PROVE RegistryInv'
  <2>1. CASE CallSubscribe(c)
    <3>1. args' \in [Conns -> Seq(Channels)] /\ pc' = [pc EXCEPT ![c] = "subscribe"]
      BY <1>0, <2>1, PubSubAssumption DEF CallSubscribe, Goto
    <3>2. UNCHANGED brokerVars /\ UNCHANGED own /\ todo' = todo
      BY <2>1 DEF CallSubscribe, pubVars
    <3> QED BY <1>0, <3>1, <3>2, OtherStepsKeepRegistry DEF Steps
  <2>2. CASE CallUnsubscribe(c)
    <3>1. args' \in [Conns -> Seq(Channels)] /\ pc' = [pc EXCEPT ![c] = "unsubscribe"]
      BY <1>0, <2>2, PubSubAssumption, AllSubscribedTyped DEF CallUnsubscribe, Goto
    <3>2. UNCHANGED brokerVars /\ UNCHANGED own /\ todo' = todo
      BY <2>2 DEF CallUnsubscribe, pubVars
    <3> QED BY <1>0, <3>1, <3>2, OtherStepsKeepRegistry DEF Steps
  <2>3. CASE CallPublish(c)
    <3>1. PICK n \in Channels : todo' = [todo EXCEPT ![c] = subs[n]]
      BY <2>3 DEF CallPublish
    <3>2. UNCHANGED brokerVars /\ UNCHANGED own /\ args' = args /\ pc' = [pc EXCEPT ![c] = "publish"]
      BY <2>3 DEF CallPublish, Goto
    <3> QED BY <1>0, <3>1, <3>2, OtherStepsKeepRegistry DEF Steps
  <2>4. CASE Hangup(c)
    <3>1. UNCHANGED brokerVars /\ UNCHANGED <<own, args, todo>> /\ pc' = [pc EXCEPT ![c] = "closing"]
      BY <2>4 DEF Hangup, Goto, pubVars
    <3> QED BY <1>0, <3>1, OtherStepsKeepRegistry DEF Steps
  <2> QED BY <1>3, <2>1, <2>2, <2>3, <2>4 DEF Call
<1>4. ASSUME NEW c \in Conns, Handler(c) PROVE RegistryInv'
  <2>a. ASSUME NEW step \in Steps \ {"publish"}, pc' = [pc EXCEPT ![c] = step],
               UNCHANGED brokerVars, UNCHANGED own, todo' = todo,
               args' \in [Conns -> Seq(Channels)]
        PROVE  RegistryInv'
    BY <1>0, <2>a, OtherStepsKeepRegistry
  <2>b. args[c] # << >> => [args EXCEPT ![c] = Tail(@)] \in [Conns -> Seq(Channels)]
    BY <1>0
  <2>1. CASE Subscribe(c)
    BY <2>1, SubscribeKeepsRegistry
  <2>2. CASE Confirm(c) \/ ConfirmUnsubscribe(c)
    BY <2>a, <2>b, <2>2 DEF Confirm, ConfirmUnsubscribe, Drop, Goto, Steps, pubVars
  <2>3. CASE ArgsDone(c)
    BY <1>0, <2>a, <2>3 DEF ArgsDone, Goto, Steps, pubVars
  <2>4. CASE Unsubscribe(c)
    <3> DEFINE n == Head(args[c])
    <3>1. /\ n \in Channels /\ pc' = [pc EXCEPT ![c] = "unconfirm"] /\ args' = args /\ todo' = todo
      BY <1>0, <2>4 DEF Unsubscribe, Goto, pubVars
    <3>2. CASE own[c][n] # None
      <4>1. Release(c, n) /\ n \in Subscribed(c)
        BY <2>4, <3>1, <3>2 DEF Unsubscribe, Subscribed
      <4> HIDE DEF n
      <4> QED BY <1>0, <3>1, <4>1, ReleaseKeepsRegistry DEF Steps
    <3>3. CASE own[c][n] = None
      BY <1>0, <2>4, <2>a, <3>1, <3>3 DEF Unsubscribe, Steps
    <3> QED BY <3>2, <3>3
  <2>5. CASE Cleanup(c)
    <3>1. CASE \E n \in Subscribed(c) : Release(c, n) /\ UNCHANGED pc
      BY <1>0, <2>5, <3>1, ReleaseKeepsRegistry DEF Cleanup, pubVars
    <3>2. CASE Goto(c, "gone") /\ UNCHANGED <<brokerVars, own>>
      BY <1>0, <2>5, <2>a, <3>2 DEF Cleanup, Goto, Steps, pubVars
    <3> QED BY <2>5, <3>1, <3>2 DEF Cleanup
  <2>6. CASE Offer(c)
    <3>1. PICK i \in todo[c] : todo' = [todo EXCEPT ![c] = @ \ {i}]
      BY <2>6 DEF Offer
    <3>2. UNCHANGED brokerVars /\ UNCHANGED <<own, pc, args>>
      BY <2>6 DEF Offer, connVars
    <3> QED BY <1>0, <3>1, <3>2, OtherStepsKeepRegistry
  <2>7. CASE PublishDone(c)
    BY <1>0, <2>a, <2>7 DEF PublishDone, Goto, Steps
  <2> QED BY <1>4, <2>1, <2>2, <2>3, <2>4, <2>5, <2>6, <2>7 DEF Handler
<1> QED BY <1>1, <1>2, <1>3, <1>4 DEF Next

\* The registry invariant is inductive.
LEMMA RegistryInvariant == Spec => []RegistryInv
<1>1. Init => RegistryInv
  BY PubSubAssumption DEF Init, RegistryInv, RegistryTypes, FreshUnused, RegistryExact,
     TodoRegistered, Steps, None, ChanIds
<1> QED BY <1>1, NextKeepsRegistry, PTL DEF Spec

\* The broker's registry and the connections' own maps agree: no subscription
\* leaks, none is shared and no channel is closed twice.
THEOREM RegistryIsExact == Spec => []RegistryExact
  BY RegistryInvariant, PTL DEF RegistryInv

\* No publisher ever sends on a closed Go channel.
THEOREM PublishIsSafe == Spec => []NoSendOnClosed
  BY RegistryInvariant, RegistryImpliesSafe, PTL

-----------------------------------------------------------------------------
(* Messages.                                                               *)

\* The Go channels that took message m, when a[i] is what channel i took.
Takers(a, m) == {i \in ChanIds : m \in Range(a[i])}

\* What a subscription took: what was written out, what its goroutine holds, and
\* what is buffered.
Stream(w, h, b) == w \o (IF h = None THEN << >> ELSE <<h>>) \o b

\* The types of what publishers and delivery goroutines work on.
DeliveryTypes ==
  /\ buf \in [ChanIds -> Seq(Msgs)]
  /\ \A i \in ChanIds : Len(buf[i]) <= BufferSize
  /\ held \in [ChanIds -> Msgs \cup {None}]
  /\ msg \in [Conns -> Msgs \cup {None}]
  /\ published \in 0 .. MaxMsgs
  /\ reply \in [Msgs -> Nat]
  /\ accepted \in [ChanIds -> Seq(Msgs)]
  /\ written \in [ChanIds -> Seq(Msgs)]

\* Every publisher has a message of its own, and messages are numbered.
MessagesAreOwn ==
  /\ \A c \in Conns : pc[c] = "publish" => msg[c] \in 1 .. published
  /\ \A c, d \in Conns : pc[c] = "publish" /\ pc[d] = "publish" /\ msg[c] = msg[d] => c = d
  /\ \A i \in ChanIds : \A m \in Range(accepted[i]) : m \in 1 .. published

\* A message was not taken by a subscription it has yet to be offered to.
OfferedOnce == \A c \in Conns : pc[c] = "publish" =>
                 \A i \in todo[c] : msg[c] \notin Range(accepted[i])

\* The count is the number of takers at any time.
CountsTakers == \A m \in Msgs : reply[m] = Cardinality(Takers(accepted, m))

\* Nothing that was taken is lost, doubled or reordered.
StreamsAreWhole == \A i \in ChanIds : accepted[i] = Stream(written[i], held[i], buf[i])

DeliveryInv ==
  DeliveryTypes /\ MessagesAreOwn /\ OfferedOnce /\ CountsTakers /\ StreamsAreWhole

\* The bounds are numbers, and no message is None.
LEMMA Bounds == MaxMsgs \in Nat /\ MaxChans \in Nat /\ BufferSize \in Nat \ {0} /\ None \notin Msgs
  BY PubSubAssumption DEF None, Msgs

\* A message that is taken is in the stream, after the others.
LEMMA RangeAppend ==
  ASSUME NEW s \in Seq(Msgs), NEW m \in Msgs
  PROVE  Append(s, m) \in Seq(Msgs) /\ Range(Append(s, m)) = Range(s) \cup {m}
<1>1. /\ Append(s, m) \in Seq(Msgs) /\ Len(s) \in Nat /\ Len(Append(s, m)) = Len(s) + 1
      /\ \A j \in 1 .. Len(s) : Append(s, m)[j] = s[j]
      /\ Append(s, m)[Len(s) + 1] = m
  OBVIOUS
<1>2. DOMAIN s = 1 .. Len(s) /\ DOMAIN Append(s, m) = 1 .. Len(s) + 1
  OBVIOUS
<1> DEFINE t == Append(s, m)
<1> HIDE DEF t
<1>3. /\ \A j \in 1 .. Len(s) : t[j] = s[j]
      /\ t[Len(s) + 1] = m /\ DOMAIN t = 1 .. Len(s) + 1
  BY <1>1, <1>2 DEF t
<1>4. ASSUME NEW x \in Range(t) PROVE x \in Range(s) \cup {m}
  <2>1. PICK j \in 1 .. Len(s) + 1 : x = t[j]
    BY <1>3 DEF Range
  <2>2. CASE j = Len(s) + 1
    BY <1>3, <2>1, <2>2
  <2>3. CASE j # Len(s) + 1
    <3>1. j \in 1 .. Len(s)
      BY <1>1, <2>1, <2>3
    <3> QED BY <1>2, <1>3, <2>1, <3>1 DEF Range
  <2> QED BY <2>2, <2>3
<1>5. ASSUME NEW x \in Range(s) PROVE x \in Range(t)
  <2>1. PICK j \in 1 .. Len(s) : x = s[j]
    BY <1>2 DEF Range
  <2>2. j \in 1 .. Len(s) + 1 /\ t[j] = x
    BY <1>1, <1>3, <2>1
  <2> QED BY <1>3, <2>2 DEF Range
<1>6. m \in Range(t)
  <2>1. Len(s) + 1 \in 1 .. Len(s) + 1
    BY <1>1
  <2> QED BY <1>3, <2>1 DEF Range
<1> QED BY <1>1, <1>4, <1>5, <1>6 DEF t

\* A concatenation, element by element.
LEMMA Concatenated ==
  ASSUME NEW u \in Seq(Msgs), NEW v \in Seq(Msgs)
  PROVE  /\ u \o v \in Seq(Msgs) /\ Len(u \o v) = Len(u) + Len(v)
         /\ \A j \in 1 .. Len(u) + Len(v) :
              (u \o v)[j] = IF j <= Len(u) THEN u[j] ELSE v[j - Len(u)]
  BY ConcatProperties

\* What a sequence begins with, and the rest of it.
LEMMA HeadThenTail ==
  ASSUME NEW b \in Seq(Msgs), b # << >>
  PROVE  /\ Head(b) \in Msgs /\ Tail(b) \in Seq(Msgs) /\ Len(Tail(b)) <= Len(b)
         /\ <<Head(b)>> \o Tail(b) = b
<1> DEFINE h == <<Head(b)>>
           t == Tail(b)
<1>1. /\ Head(b) \in Msgs /\ t \in Seq(Msgs) /\ Len(b) \in Nat /\ Len(t) = Len(b) - 1
      /\ \A j \in 1 .. Len(t) : t[j] = b[j + 1]
  BY HeadTailProperties
<1>2. h \in Seq(Msgs) /\ Len(h) = 1 /\ h[1] = b[1] /\ Len(b) > 0
  BY <1>1
<1> HIDE DEF h, t
<1>3. /\ h \o t \in Seq(Msgs) /\ Len(h \o t) = 1 + Len(t)
      /\ \A j \in 1 .. 1 + Len(t) : (h \o t)[j] = IF j <= 1 THEN h[j] ELSE t[j - 1]
  <2>1. /\ h \o t \in Seq(Msgs) /\ Len(h \o t) = Len(h) + Len(t)
        /\ \A j \in 1 .. Len(h) + Len(t) :
             (h \o t)[j] = IF j <= Len(h) THEN h[j] ELSE t[j - Len(h)]
    BY <1>1, <1>2, Concatenated
  <2> QED BY <1>2, <2>1
<1>4. \A j \in 1 .. Len(b) : (h \o t)[j] = b[j]
  BY <1>1, <1>2, <1>3
<1>5. h \o t = b
  BY <1>1, <1>3, <1>4, SeqEqual
<1> QED BY <1>1, <1>5 DEF h, t

\* A message that the buffer takes is the last of the stream.
LEMMA StreamTakes ==
  ASSUME NEW w \in Seq(Msgs), NEW h \in Msgs \cup {None}, NEW b \in Seq(Msgs), NEW m \in Msgs
  PROVE  Stream(w, h, Append(b, m)) = Append(Stream(w, h, b), m)
<1> DEFINE one == IF h = None THEN << >> ELSE <<h>>
           v == w \o one
<1>1. one \in Seq(Msgs)
  OBVIOUS
<1>2. v \in Seq(Msgs)
  BY <1>1, ConcatProperties
<1> HIDE DEF v
<1>3. v \o b \in Seq(Msgs) /\ <<m>> \in Seq(Msgs)
  BY <1>2, ConcatProperties
<1>4. Append(b, m) = b \o <<m>> /\ Append(v \o b, m) = (v \o b) \o <<m>>
  BY <1>3, AppendIsConcat
<1>5. (v \o b) \o <<m>> = v \o (b \o <<m>>)
  BY <1>2, <1>3, ConcatAssociative
<1> QED BY <1>4, <1>5 DEF Stream, v

\* A receive moves the oldest message of the buffer and changes nothing of the stream.
LEMMA StreamReceives ==
  ASSUME NEW w \in Seq(Msgs), NEW b \in Seq(Msgs), b # << >>
  PROVE  Stream(w, Head(b), Tail(b)) = Stream(w, None, b)
<1>1. /\ Head(b) \in Msgs /\ Tail(b) \in Seq(Msgs) /\ <<Head(b)>> \in Seq(Msgs)
      /\ <<Head(b)>> \o Tail(b) = b /\ Head(b) # None
  BY HeadThenTail, Bounds
<1>2. (w \o <<Head(b)>>) \o Tail(b) = w \o (<<Head(b)>> \o Tail(b))
  BY <1>1, ConcatAssociative
<1>3. w \o << >> = w
  BY ConcatEmptySeq
<1> QED BY <1>1, <1>2, <1>3 DEF Stream

\* So does a write to the client.
LEMMA StreamWrites ==
  ASSUME NEW w \in Seq(Msgs), NEW h \in Msgs, NEW b \in Seq(Msgs)
  PROVE  Append(w, h) \in Seq(Msgs) /\ Stream(Append(w, h), None, b) = Stream(w, h, b)
  BY Bounds DEF Stream

\* A step that has nothing to do with messages.
LEMMA OtherStepsKeepMessages ==
  ASSUME DeliveryInv, UNCHANGED <<buf, held, todo, msg, published, reply, accepted, written>>,
         \A d \in Conns : pc'[d] = "publish" => pc[d] = "publish"
  PROVE  DeliveryInv'
  BY DEF DeliveryInv, DeliveryTypes, MessagesAreOwn, OfferedOnce, CountsTakers, StreamsAreWhole

\* A new message: nobody has it, and nobody took it.
LEMMA CallPublishKeepsMessages ==
  ASSUME RegistryInv, DeliveryInv, NEW c \in Conns, CallPublish(c)
  PROVE  DeliveryInv'
<1>1. /\ pc[c] = "idle" /\ published < MaxMsgs /\ published' = published + 1
      /\ msg' = [msg EXCEPT ![c] = published + 1] /\ pc' = [pc EXCEPT ![c] = "publish"]
      /\ UNCHANGED <<buf, held, reply, accepted, written>>
  BY DEF CallPublish, Goto
<1>2. /\ published \in Nat /\ published + 1 \in Msgs /\ msg \in [Conns -> Msgs \cup {None}]
      /\ pc \in [Conns -> Steps]
  BY <1>1, Bounds DEF DeliveryInv, DeliveryTypes, Msgs, RegistryInv, RegistryTypes
<1>3. \A d \in Conns : /\ msg'[d] = IF d = c THEN published + 1 ELSE msg[d]
                       /\ pc'[d] = IF d = c THEN "publish" ELSE pc[d]
  BY <1>1, <1>2
<1>4. \A d \in Conns \ {c} : todo'[d] = todo[d]
  BY DEF CallPublish, RegistryInv, RegistryTypes
<1>5. DeliveryTypes'
  BY <1>1, <1>2, Bounds DEF DeliveryInv, DeliveryTypes
<1>6. published + 1 \notin 1 .. published /\ \A m \in 1 .. published : m \in 1 .. published + 1
  BY <1>2
<1>7. MessagesAreOwn'
  <2>1. ASSUME NEW d \in Conns, pc'[d] = "publish" PROVE msg'[d] \in 1 .. published + 1
    BY <1>2, <1>3, <1>6, <2>1 DEF DeliveryInv, MessagesAreOwn
  <2>2. ASSUME NEW d \in Conns, NEW e \in Conns, pc'[d] = "publish", pc'[e] = "publish",
               msg'[d] = msg'[e]
        PROVE  d = e
    BY <1>3, <1>6, <2>2 DEF DeliveryInv, MessagesAreOwn
  <2>3. ASSUME NEW i \in ChanIds, NEW m \in Range(accepted[i]) PROVE m \in 1 .. published + 1
    BY <1>6 DEF DeliveryInv, MessagesAreOwn
  <2> QED BY <1>1, <2>1, <2>2, <2>3 DEF MessagesAreOwn
<1>8. OfferedOnce'
  <2> SUFFICES ASSUME NEW d \in Conns, pc'[d] = "publish", NEW i \in todo'[d]
               PROVE  msg'[d] \notin Range(accepted[i])
    BY <1>1 DEF OfferedOnce
  <2>1. CASE d = c
    <3>1. i \in ChanIds
      BY <2>1 DEF CallPublish, RegistryInv, RegistryTypes
    <3> QED BY <1>3, <1>6, <2>1, <3>1 DEF DeliveryInv, MessagesAreOwn
  <2>2. CASE d # c
    BY <1>3, <1>4, <2>2 DEF DeliveryInv, OfferedOnce
  <2> QED BY <2>1, <2>2
<1>9. CountsTakers' /\ StreamsAreWhole'
  BY <1>1 DEF DeliveryInv, CountsTakers, StreamsAreWhole
<1> QED BY <1>5, <1>7, <1>8, <1>9 DEF DeliveryInv

\* A subscriber is offered a message: it takes it and is counted, or neither.
LEMMA OfferKeepsMessages ==
  ASSUME RegistryInv, DeliveryInv, NEW c \in Conns, Offer(c)
  PROVE  DeliveryInv'
<1>0. PICK i \in todo[c] :
        /\ todo' = [todo EXCEPT ![c] = todo[c] \ {i}]
        /\ IF Len(buf[i]) < BufferSize
             THEN /\ buf' = [buf EXCEPT ![i] = Append(buf[i], msg[c])]
                  /\ accepted' = [accepted EXCEPT ![i] = Append(accepted[i], msg[c])]
                  /\ reply' = [reply EXCEPT ![msg[c]] = reply[msg[c]] + 1]
             ELSE UNCHANGED <<buf, accepted, reply>>
  BY DEF Offer
<1> DEFINE m == msg[c]
<1>1. pc[c] = "publish" /\ UNCHANGED <<held, pc, msg, published, written>>
  BY DEF Offer, connVars
<1>2. /\ i \in ChanIds /\ todo \in [Conns -> SUBSET ChanIds]
      /\ \A d \in Conns : todo'[d] \subseteq todo[d]
      /\ i \notin todo'[c]
  BY <1>0 DEF RegistryInv, RegistryTypes
<1>3. m \in Msgs /\ m \in 1 .. published /\ m \notin Range(accepted[i])
  <2>1. m \in 1 .. published /\ published \in 0 .. MaxMsgs /\ m \notin Range(accepted[i])
    BY <1>0, <1>1 DEF DeliveryInv, DeliveryTypes, MessagesAreOwn, OfferedOnce
  <2> QED BY <2>1, Bounds DEF Msgs
<1> HIDE DEF m
<1>4. CASE Len(buf[i]) >= BufferSize
  <2>1. UNCHANGED <<buf, accepted, reply>>
    <3>1. Len(buf[i]) \in Nat /\ BufferSize \in Nat
      BY <1>2, Bounds DEF DeliveryInv, DeliveryTypes
    <3> QED BY <1>0, <1>4, <3>1
  <2>2. OfferedOnce'
    BY <1>1, <1>2, <2>1 DEF DeliveryInv, OfferedOnce
  <2> QED BY <1>1, <2>1, <2>2 DEF DeliveryInv, DeliveryTypes, MessagesAreOwn, CountsTakers,
             StreamsAreWhole
<1>5. CASE Len(buf[i]) < BufferSize
  <2>1. /\ buf' = [buf EXCEPT ![i] = Append(buf[i], m)]
        /\ accepted' = [accepted EXCEPT ![i] = Append(accepted[i], m)]
        /\ reply' = [reply EXCEPT ![m] = reply[m] + 1]
    BY <1>0, <1>5 DEF m
  <2>2. /\ buf \in [ChanIds -> Seq(Msgs)] /\ accepted \in [ChanIds -> Seq(Msgs)]
        /\ reply \in [Msgs -> Nat] /\ Len(buf[i]) \in Nat /\ BufferSize \in Nat
        /\ held \in [ChanIds -> Msgs \cup {None}] /\ written \in [ChanIds -> Seq(Msgs)]
    BY <1>2, Bounds DEF DeliveryInv, DeliveryTypes
  <2>3. /\ buf'[i] = Append(buf[i], m) /\ buf'[i] \in Seq(Msgs) /\ Len(buf'[i]) <= BufferSize
        /\ accepted'[i] = Append(accepted[i], m) /\ accepted'[i] \in Seq(Msgs)
        /\ Range(accepted'[i]) = Range(accepted[i]) \cup {m}
        /\ \A j \in ChanIds \ {i} : buf'[j] = buf[j] /\ accepted'[j] = accepted[j]
    BY <1>2, <1>3, <1>5, <2>1, <2>2, RangeAppend
  <2>4. DeliveryTypes'
    <3>1. buf' \in [ChanIds -> Seq(Msgs)] /\ accepted' \in [ChanIds -> Seq(Msgs)]
      BY <1>2, <2>1, <2>2, <2>3
    <3>2. reply' \in [Msgs -> Nat]
      BY <1>3, <2>1, <2>2
    <3>3. \A j \in ChanIds : Len(buf'[j]) <= BufferSize
      BY <2>3 DEF DeliveryInv, DeliveryTypes
    <3> QED BY <1>1, <3>1, <3>2, <3>3 DEF DeliveryInv, DeliveryTypes
  <2>5. MessagesAreOwn'
    BY <1>1, <1>3, <2>3 DEF DeliveryInv, MessagesAreOwn
  <2>6. OfferedOnce'
    <3> SUFFICES ASSUME NEW d \in Conns, pc[d] = "publish", NEW j \in todo'[d]
                 PROVE  msg[d] \notin Range(accepted'[j])
      BY <1>1 DEF OfferedOnce
    <3>1. msg[d] \notin Range(accepted[j]) /\ j \in ChanIds
      BY <1>2 DEF DeliveryInv, OfferedOnce
    <3>2. CASE j = i
      <4>1. d # c
        BY <1>2, <3>2
      <4>2. msg[d] # m
        BY <1>1, <4>1 DEF DeliveryInv, MessagesAreOwn, m
      <4> QED BY <2>3, <3>1, <3>2, <4>2
    <3>3. CASE j # i
      BY <2>3, <3>1, <3>3
    <3> QED BY <3>2, <3>3
  <2>7. CountsTakers'
    <3> SUFFICES ASSUME NEW k \in Msgs PROVE reply'[k] = Cardinality(Takers(accepted', k))
      BY DEF CountsTakers
    <3>1. reply[k] = Cardinality(Takers(accepted, k))
      BY DEF DeliveryInv, CountsTakers
    <3>2. CASE k # m
      <4>1. Takers(accepted', k) = Takers(accepted, k)
        <5>1. \A j \in ChanIds : k \in Range(accepted'[j]) <=> k \in Range(accepted[j])
          BY <1>2, <2>3, <3>2, ZenonT(30)
        <5> QED BY <5>1 DEF Takers
      <4> QED BY <2>1, <2>2, <3>1, <3>2, <4>1
    <3>3. CASE k = m
      <4>1. Takers(accepted', m) = Takers(accepted, m) \cup {i} /\ i \notin Takers(accepted, m)
        BY <1>2, <1>3, <2>3 DEF Takers
      <4>2. IsFiniteSet(Takers(accepted, m))
        <5>1. IsFiniteSet(ChanIds)
          BY Bounds, FS_Interval DEF ChanIds
        <5> QED BY <5>1, FS_Subset DEF Takers
      <4>3. Cardinality(Takers(accepted', m)) = Cardinality(Takers(accepted, m)) + 1
        BY <4>1, <4>2, FS_AddElement
      <4> QED BY <1>3, <2>1, <2>2, <3>1, <3>3, <4>3
    <3> QED BY <3>2, <3>3
  <2>8. StreamsAreWhole'
    <3> SUFFICES ASSUME NEW j \in ChanIds
                 PROVE  accepted'[j] = Stream(written[j], held[j], buf'[j])
      BY <1>1 DEF StreamsAreWhole
    <3>1. accepted[j] = Stream(written[j], held[j], buf[j])
      BY DEF DeliveryInv, StreamsAreWhole
    <3>2. CASE j = i
      <4>1. /\ written[i] \in Seq(Msgs) /\ held[i] \in Msgs \cup {None} /\ buf[i] \in Seq(Msgs)
        BY <1>2, <2>2
      <4>2. Stream(written[i], held[i], Append(buf[i], m)) =
              Append(Stream(written[i], held[i], buf[i]), m)
        BY <1>3, <4>1, StreamTakes
      <4> QED BY <2>3, <3>1, <3>2, <4>2
    <3>3. CASE j # i
      BY <2>3, <3>1, <3>3
    <3> QED BY <3>2, <3>3
  <2> QED BY <2>4, <2>5, <2>6, <2>7, <2>8 DEF DeliveryInv
<1>6. Len(buf[i]) \in Nat /\ BufferSize \in Nat
  BY <1>2, Bounds DEF DeliveryInv, DeliveryTypes
<1> QED BY <1>4, <1>5, <1>6

\* The loop of Publish is over.
LEMMA PublishDoneKeepsMessages ==
  ASSUME RegistryInv, DeliveryInv, NEW c \in Conns, PublishDone(c)
  PROVE  DeliveryInv'
<1>1. /\ msg' = [msg EXCEPT ![c] = None] /\ pc' = [pc EXCEPT ![c] = "idle"]
      /\ UNCHANGED <<buf, held, todo, published, reply, accepted, written>>
  BY DEF PublishDone, Goto
<1>2. msg \in [Conns -> Msgs \cup {None}] /\ pc \in [Conns -> Steps]
  BY DEF DeliveryInv, DeliveryTypes, RegistryInv, RegistryTypes
<1>3. /\ msg' \in [Conns -> Msgs \cup {None}]
      /\ \A d \in Conns : pc'[d] = "publish" => d # c /\ pc[d] = "publish" /\ msg'[d] = msg[d]
  BY <1>1, <1>2
<1> QED BY <1>1, <1>3 DEF DeliveryInv, DeliveryTypes, MessagesAreOwn, OfferedOnce, CountsTakers,
           StreamsAreWhole

\* The delivery goroutine takes the oldest message, and writes out what it has.
LEMMA DeliverKeepsMessages ==
  ASSUME DeliveryInv, NEW i \in ChanIds, Deliver(i)
  PROVE  DeliveryInv'
<1>1. UNCHANGED <<pc, todo, msg, published, reply, accepted>>
  BY DEF Deliver, Receive, Write, connVars, pubVars
<1>2. /\ buf \in [ChanIds -> Seq(Msgs)] /\ held \in [ChanIds -> Msgs \cup {None}]
      /\ written \in [ChanIds -> Seq(Msgs)] /\ BufferSize \in Nat
      /\ \A j \in ChanIds : Len(buf[j]) <= BufferSize /\ Len(buf[j]) \in Nat
      /\ \A j \in ChanIds : accepted[j] = Stream(written[j], held[j], buf[j])
  BY Bounds DEF DeliveryInv, DeliveryTypes, StreamsAreWhole
<1>3. CASE Receive(i)
  <2>1. /\ held[i] = None /\ buf[i] # << >> /\ written' = written
        /\ held' = [held EXCEPT ![i] = Head(buf[i])] /\ buf' = [buf EXCEPT ![i] = Tail(buf[i])]
    BY <1>3 DEF Receive
  <2>2. /\ Head(buf[i]) \in Msgs /\ Tail(buf[i]) \in Seq(Msgs) /\ Len(Tail(buf[i])) <= Len(buf[i])
        /\ Len(Tail(buf[i])) \in Nat
        /\ Stream(written[i], Head(buf[i]), Tail(buf[i])) = Stream(written[i], None, buf[i])
    BY <1>2, <2>1, HeadThenTail, StreamReceives
  <2>3. /\ held' \in [ChanIds -> Msgs \cup {None}] /\ buf' \in [ChanIds -> Seq(Msgs)]
        /\ \A j \in ChanIds : /\ held'[j] = IF j = i THEN Head(buf[i]) ELSE held[j]
                              /\ buf'[j] = IF j = i THEN Tail(buf[i]) ELSE buf[j]
    BY <1>2, <2>1, <2>2
  <2>4. \A j \in ChanIds : Len(buf'[j]) <= BufferSize
    BY <1>2, <2>2, <2>3
  <2>5. \A j \in ChanIds : accepted[j] = Stream(written[j], held'[j], buf'[j])
    BY <1>2, <2>1, <2>2, <2>3
  <2> QED BY <1>1, <2>1, <2>3, <2>4, <2>5 DEF DeliveryInv, DeliveryTypes, MessagesAreOwn,
             OfferedOnce, CountsTakers, StreamsAreWhole
<1>4. CASE Write(i)
  <2>1. /\ held[i] \in Msgs /\ held' = [held EXCEPT ![i] = None] /\ buf' = buf
        /\ written' = [written EXCEPT ![i] = Append(written[i], held[i])]
    BY <1>2, <1>4 DEF Write
  <2>2. /\ Append(written[i], held[i]) \in Seq(Msgs)
        /\ Stream(Append(written[i], held[i]), None, buf[i]) = Stream(written[i], held[i], buf[i])
    BY <1>2, <2>1, StreamWrites
  <2>3. /\ held' \in [ChanIds -> Msgs \cup {None}] /\ written' \in [ChanIds -> Seq(Msgs)]
        /\ \A j \in ChanIds : /\ held'[j] = IF j = i THEN None ELSE held[j]
                              /\ written'[j] = IF j = i THEN Append(written[i], held[i])
                                                        ELSE written[j]
    BY <1>2, <2>1, <2>2
  <2>4. \A j \in ChanIds : accepted[j] = Stream(written'[j], held'[j], buf[j])
    BY <1>2, <2>2, <2>3
  <2> QED BY <1>1, <2>1, <2>3, <2>4 DEF DeliveryInv, DeliveryTypes, MessagesAreOwn,
             OfferedOnce, CountsTakers, StreamsAreWhole
<1> QED BY <1>3, <1>4 DEF Deliver

\* Counts and streams, on top of the registry's invariant.
LEMMA DeliveryInvariant == Spec => [](RegistryInv /\ DeliveryInv)
<1>1. ASSUME Init PROVE DeliveryInv
  <2>1. DeliveryTypes
    BY <1>1, Bounds DEF Init, DeliveryTypes
  <2>2. MessagesAreOwn /\ OfferedOnce
    BY <1>1 DEF Init, MessagesAreOwn, OfferedOnce, Range
  <2>3. CountsTakers
    <3>1. \A m \in Msgs : Takers(accepted, m) = {} /\ reply[m] = 0
      BY <1>1 DEF Init, Takers, Range
    <3> QED BY <3>1, FS_EmptySet DEF CountsTakers
  <2>4. StreamsAreWhole
    BY <1>1 DEF Init, StreamsAreWhole, Stream
  <2> QED BY <2>1, <2>2, <2>3, <2>4 DEF DeliveryInv
<1>2. ASSUME RegistryInv, DeliveryInv, [Next]_vars PROVE DeliveryInv'
  <2>1. ASSUME NEW c \in Conns, CallPublish(c) \/ Offer(c) \/ PublishDone(c) PROVE DeliveryInv'
    BY <1>2, <2>1, CallPublishKeepsMessages, OfferKeepsMessages, PublishDoneKeepsMessages
  <2>2. ASSUME NEW i \in ChanIds, Deliver(i) PROVE DeliveryInv'
    BY <1>2, <2>2, DeliverKeepsMessages
  <2>3. ASSUME NEW c \in Conns,
               \/ CallSubscribe(c) \/ Subscribe(c) \/ Confirm(c) \/ ArgsDone(c)
               \/ CallUnsubscribe(c) \/ Unsubscribe(c) \/ ConfirmUnsubscribe(c)
               \/ Hangup(c) \/ Cleanup(c)
        PROVE  DeliveryInv'
    <3>1. UNCHANGED <<buf, held, todo, msg, published, reply, accepted, written>>
      BY <2>3 DEF CallSubscribe, Subscribe, Confirm, ArgsDone, CallUnsubscribe, Unsubscribe,
         ConfirmUnsubscribe, Hangup, Cleanup, pubVars
    <3>2. pc' = pc \/ \E step \in Steps \ {"publish"} : pc' = [pc EXCEPT ![c] = step]
      BY <2>3 DEF CallSubscribe, Subscribe, Confirm, ArgsDone, CallUnsubscribe, Unsubscribe,
         ConfirmUnsubscribe, Hangup, Cleanup, Goto, Steps
    <3>3. \A d \in Conns : pc'[d] = "publish" => pc[d] = "publish"
      BY <1>2, <3>2 DEF RegistryInv, RegistryTypes
    <3> QED BY <1>2, <3>1, <3>3, OtherStepsKeepMessages
  <2>4. CASE UNCHANGED vars
    BY <1>2, <2>4, OtherStepsKeepMessages DEF vars, connVars, pubVars
  <2> QED BY <1>2, <2>1, <2>2, <2>3, <2>4 DEF Next, Call, Handler
<1> QED BY <1>1, <1>2, RegistryInvariant, PTL DEF Spec

\* Everything the broker, the connections and the goroutines keep is well typed,
\* and no buffer holds more than its capacity.
THEOREM TypeCorrect == Spec => []TypeOK
<1>1. RegistryInv /\ DeliveryInv => TypeOK
  BY DEF RegistryInv, RegistryTypes, DeliveryInv, DeliveryTypes, TypeOK
<1> QED BY <1>1, DeliveryInvariant, PTL

\* PUBLISH's reply is the number of subscriptions that took the message, and each
\* writes out what it took, once and in order.
THEOREM CountIsTakers == Spec => []CountIsExact
<1>1. ASSUME DeliveryInv PROVE CountIsExact
  <2>1. \A m \in 1 .. published : m \in Msgs
    BY <1>1, Bounds DEF DeliveryInv, DeliveryTypes, Msgs
  <2>2. \A m \in 1 .. published : reply[m] = Cardinality({i \in ChanIds : m \in Range(accepted[i])})
    BY <1>1, <2>1 DEF DeliveryInv, CountsTakers, Takers
  <2>3. \A i \in ChanIds :
          accepted[i] = written[i] \o (IF held[i] = None THEN << >> ELSE <<held[i]>>) \o buf[i]
    BY <1>1 DEF DeliveryInv, StreamsAreWhole, Stream
  <2> QED BY <2>2, <2>3 DEF CountIsExact
<1> QED BY <1>1, DeliveryInvariant, PTL

=============================================================================
