---------------------- MODULE SharedStreamOrderProofs ----------------------
(***************************************************************************)
(* Proofs about what the subscribers of a shared stream are sent, for any  *)
(* number of subscriptions and events: every one in order, without a gap,  *)
(* and, unless it was canceled, all of them.                               *)
(***************************************************************************)
EXTENDS SharedStreamProofs

(***************************************************************************)
(* The inductive invariant.  It follows an event from the child's channel  *)
(* through dispatch to the subscribers, and says of each of them which     *)
(* event it was sent last.                                                 *)
(***************************************************************************)

\* What the child has emitted and dispatch has not taken is in the channel.
BufferedEvent ==
  \A g \in Streams :
    \/ source[g] = <<>> /\ emitted[g] = event[g]
    \/ source[g] = <<emitted[g]>> /\ emitted[g] = event[g] + 1

\* Where dispatch is with its event.
HeldEvent ==
  \A g \in Streams :
    /\ disp[g] = "none" => event[g] = 0
    /\ disp[g] \in {"snapshot", "send", "unsubscribe", "unsubscribeCancel"} => event[g] > 0
    /\ disp[g] \in {"send", "unsubscribe", "unsubscribeCancel"} => target[g] \notin todo[g]

\* Nothing is dispatched before the start, nor to a caller yet to subscribe.
BeforeStart ==
  /\ ~started => \A g \in Streams : disp[g] = "none"
  /\ \A s \in Subscriptions : pc[s] = "idle" => seen[s] = <<>> /\ s \notin early

\* A canceled run has canceled every subscriber.
RootIsOver == rootDone => \A s \in Subscriptions : subDone[s]

\* A stream ends because it was canceled, or when it has taken everything.
Exhausted(g) == child[g] = "closed" /\ source[g] = <<>>

EndedInOrder ==
  \A g \in Streams : disp[g] = "finish" /\ ~StreamDone(g) => Exhausted(g)

\* The subscriptions that the event dispatch holds has yet to reach.
Awaiting(g) ==
  {s \in Subscriptions :
     \/ disp[g] = "snapshot" /\ s \in subs[g]
     \/ disp[g] \in {"send", "unsubscribe"} /\ (s \in todo[g] \/ s = target[g])
     \/ disp[g] = "unsubscribeCancel" /\ s \in todo[g]}

\* s has been sent event k last, and all up to k if it was there at the start.
SentUpTo(s, k) ==
  /\ seen[s] # <<>> => seen[s][Len(seen[s])] = k
  /\ s \in early => Len(seen[s]) = k

\* Every subscription has been sent what dispatch has taken, but for the event
\* in hand if it awaits that.  Only the end of the run leaves some behind.
Served ==
  \A g \in Streams :
    /\ \A s \in Awaiting(g) : SentUpTo(s, event[g] - 1)
    /\ \/ disp[g] = "finish" /\ rootDone
       \/ \A s \in subs[g] \ Awaiting(g) : SentUpTo(s, event[g])

\* A subscriber that was there at the start and whose channel was closed on it
\* had been sent everything.
CompleteAtEnd ==
  \A s \in early : chanClosed[s] /\ ~subDone[s] =>
    Exhausted(subStream[s]) /\ Len(seen[s]) = event[subStream[s]]

OrderInv ==
  /\ BufferedEvent
  /\ HeldEvent
  /\ BeforeStart
  /\ RootIsOver
  /\ EndedInOrder
  /\ Served
  /\ CompleteAtEnd
  /\ InOrderNoGap

-----------------------------------------------------------------------------

\* An event in hand awaits only subscriptions of its own stream.
LEMMA AwaitingOwn ==
  ASSUME RegistryInv, NEW g \in Streams, NEW s \in Awaiting(g)
  PROVE  s \in Subscriptions /\ subStream[s] = g
BY DEF Awaiting, RegistryInv, SubscribedStream, ServedSubscriptions

LEMMA InitOrder == Init => OrderInv
<1> SUFFICES ASSUME Init PROVE OrderInv
  OBVIOUS
<1> USE DEF Init, Streams
<1>1. BufferedEvent /\ HeldEvent /\ BeforeStart /\ RootIsOver /\ EndedInOrder
  BY DEF BufferedEvent, HeldEvent, BeforeStart, RootIsOver, EndedInOrder
<1>2. Served
  BY DEF Served, Awaiting
<1>3. CompleteAtEnd
  BY DEF CompleteAtEnd
<1>4. InOrderNoGap
  <2>1. \A s \in Subscriptions : seen[s] = <<>>
    OBVIOUS
  <2>2. \A s \in Subscriptions : 1..Len(seen[s]) = {}
    BY <2>1
  <2> QED BY <2>2 DEF InOrderNoGap
<1> QED BY <1>1, <1>2, <1>3, <1>4 DEF OrderInv

\* A step that neither moves a dispatcher nor adds a subscription preserves the
\* invariant: subscribers leave, contexts are canceled, the child goes on.
LEMMA QuietStep ==
  ASSUME TypeOK, OrderInv,
         UNCHANGED <<event, disp, todo, target, started, seen, early, chanClosed, subStream>>,
         BufferedEvent', RootIsOver',
         \A g \in Streams : /\ Exhausted(g) => Exhausted(g)'
                            /\ subs'[g] \subseteq subs[g]
                            /\ canceled[g] => canceled'[g],
         \A s \in Subscriptions : /\ pc'[s] = "idle" => pc[s] = "idle"
                                  /\ subDone[s] => subDone'[s],
         rootDone => rootDone',
         \A s \in early : chanClosed[s] => subStream[s] \in Streams
  PROVE  OrderInv'
<1>1. HeldEvent' /\ BeforeStart' /\ InOrderNoGap'
  BY DEF OrderInv, HeldEvent, BeforeStart, InOrderNoGap
<1>2. EndedInOrder'
  BY DEF OrderInv, EndedInOrder, StreamDone
<1>3. Served'
  <2> SUFFICES ASSUME NEW g \in Streams
               PROVE  /\ \A s \in Awaiting(g)' : SentUpTo(s, event[g] - 1)
                      /\ \/ disp[g] = "finish" /\ rootDone
                         \/ \A s \in subs'[g] \ Awaiting(g)' : SentUpTo(s, event[g])
    BY DEF Served, SentUpTo
  <2>1. Awaiting(g)' \subseteq Awaiting(g)
    BY DEF Awaiting
  <2>2. subs'[g] \ Awaiting(g)' \subseteq subs[g] \ Awaiting(g)
    BY DEF Awaiting, TypeOK
  <2> QED BY <2>1, <2>2 DEF OrderInv, Served
<1>4. CompleteAtEnd'
  BY DEF OrderInv, CompleteAtEnd, TypeOK
<1> QED BY <1>1, <1>2, <1>3, <1>4 DEF OrderInv

LEMMA QuietOrder ==
  ASSUME TypeOK, RegistryInv, OrderInv,
         \/ UNCHANGED vars \/ CancelRoot
         \/ \E s \in Subscriptions :
              Unsubscribe(s) \/ CancelStream(s) \/ CancelSubscriber(s) \/ Receive(s)
         \/ \E g \in Streams : ChildEmit(g) \/ ChildClose(g)
  PROVE  OrderInv'
<1> USE SharedStreamAssumption DEF Streams, registryVars, streamVars, childVars, dispVars,
        callerVars, chanVars
<1>1. \A s \in early : chanClosed[s] => subStream[s] \in Streams
  BY DEF RegistryInv, ClosedStream, TypeOK
<1>2. CASE UNCHANGED vars
  BY <1>1, <1>2, QuietStep DEF vars, OrderInv, BufferedEvent, RootIsOver, Exhausted
<1>3. CASE CancelRoot
  BY <1>1, <1>3, QuietStep DEF CancelRoot, OrderInv, BufferedEvent, RootIsOver, Exhausted
<1>4. ASSUME NEW s \in Subscriptions, Unsubscribe(s)
      PROVE  OrderInv'
  <2>1. \A g \in Streams : subs'[g] \subseteq subs[g]
    BY <1>4 DEF Unsubscribe, Detach, TypeOK
  <2>2. \A x \in Subscriptions : pc'[x] = "idle" => pc[x] = "idle"
    BY <1>4 DEF Unsubscribe, TypeOK
  <2>3. UNCHANGED <<started, rootDone, canceled, child, emitted, source, disp, todo, target,
                    event, subStream, subDone, early, chanClosed, seen>>
    BY <1>4 DEF Unsubscribe
  <2> QED BY <1>1, <2>1, <2>2, <2>3, QuietStep DEF OrderInv, BufferedEvent, RootIsOver, Exhausted
<1>5. ASSUME NEW s \in Subscriptions, CancelStream(s)
      PROVE  OrderInv'
  <2>1. \A g \in Streams : canceled[g] => canceled'[g]
    BY <1>5 DEF CancelStream, TypeOK
  <2>2. \A x \in Subscriptions : pc'[x] = "idle" => pc[x] = "idle"
    BY <1>5 DEF CancelStream, TypeOK
  <2>3. UNCHANGED <<started, rootDone, subs, child, emitted, source, disp, todo, target,
                    event, subStream, subDone, early, chanClosed, seen>>
    BY <1>5 DEF CancelStream
  <2> QED BY <1>1, <2>1, <2>2, <2>3, QuietStep DEF OrderInv, BufferedEvent, RootIsOver, Exhausted
<1>6. ASSUME NEW s \in Subscriptions, CancelSubscriber(s)
      PROVE  OrderInv'
  <2>1. \A x \in Subscriptions : subDone[x] => subDone'[x]
    BY <1>6 DEF CancelSubscriber, TypeOK
  <2>2. UNCHANGED <<started, rootDone, subs, canceled, child, emitted, source, disp, todo,
                    target, event, pc, subStream, early, chanClosed, seen>>
    BY <1>6 DEF CancelSubscriber
  <2> QED BY <1>1, <2>1, <2>2, QuietStep DEF OrderInv, BufferedEvent, RootIsOver, Exhausted
<1>7. ASSUME NEW s \in Subscriptions, Receive(s)
      PROVE  OrderInv'
  BY <1>1, <1>7, QuietStep DEF Receive, OrderInv, BufferedEvent, RootIsOver, Exhausted
<1>8. ASSUME NEW g \in Streams, ChildEmit(g)
      PROVE  OrderInv'
  <2>1. /\ child[g] = "running"
        /\ source[g] = <<>>
        /\ emitted' = [emitted EXCEPT ![g] = @ + 1]
        /\ source' = [source EXCEPT ![g] = Append(@, emitted[g] + 1)]
    <3>1. source[g] \in Seq(0..MaxEvents) /\ Len(source[g]) < 1
      BY <1>8 DEF ChildEmit, TypeOK, Capacity
    <3> QED BY <1>8, <3>1, EmptySeq DEF ChildEmit
  <2>2. emitted'[g] = emitted[g] + 1 /\ source'[g] = <<emitted[g] + 1>>
    BY <2>1 DEF TypeOK
  <2>3. \A h \in Streams : h # g => emitted'[h] = emitted[h] /\ source'[h] = source[h]
    BY <2>1 DEF TypeOK
  <2>4. UNCHANGED <<started, rootDone, subs, canceled, child, disp, todo, target, event, pc,
                    subStream, subDone, early, chanClosed, seen>>
    BY <1>8 DEF ChildEmit
  <2>5. emitted[g] = event[g]
    BY <2>1 DEF OrderInv, BufferedEvent
  <2>6. BufferedEvent'
    BY <2>2, <2>3, <2>4, <2>5 DEF OrderInv, BufferedEvent
  <2>7. \A h \in Streams : Exhausted(h) => Exhausted(h)'
    BY <2>1, <2>3, <2>4 DEF Exhausted
  <2> QED BY <1>1, <2>4, <2>6, <2>7, QuietStep DEF OrderInv, RootIsOver
<1>9. ASSUME NEW g \in Streams, ChildClose(g)
      PROVE  OrderInv'
  <2>1. \A h \in Streams : child[h] = "closed" => child'[h] = "closed"
    BY <1>9 DEF ChildClose, TypeOK
  <2>2. UNCHANGED <<started, rootDone, subs, canceled, emitted, source, disp, todo, target,
                    event, pc, subStream, subDone, early, chanClosed, seen>>
    BY <1>9 DEF ChildClose
  <2> QED BY <1>1, <2>1, <2>2, QuietStep DEF OrderInv, BufferedEvent, RootIsOver, Exhausted
<1> QED BY <1>2, <1>3, <1>4, <1>5, <1>6, <1>7, <1>8, <1>9

-----------------------------------------------------------------------------

\* Whoever subscribes before the start is attached before the first event;
\* nothing is promised of the first event of one that comes later.
LEMMA SubscribeOrder ==
  ASSUME TypeOK, RegistryInv, OrderInv, NEW s \in Subscriptions, Subscribe(s)
  PROVE  OrderInv'
<1> USE SharedStreamAssumption DEF Streams, childVars, dispVars
<1> DEFINE g == IF registered = None THEN s ELSE registered
<1>1. /\ g \in Streams
      /\ pc[s] = "idle"
      /\ subStream' = [subStream EXCEPT ![s] = g]
      /\ pc' = [pc EXCEPT ![s] = IF registered = None THEN "start" ELSE "live"]
      /\ IF closed[g]
         THEN chanClosed' = [chanClosed EXCEPT ![s] = TRUE] /\ UNCHANGED subs
         ELSE subs' = [subs EXCEPT ![g] = @ \cup {s}] /\ UNCHANGED chanClosed
      /\ early' = IF started THEN early ELSE early \cup {s}
      /\ UNCHANGED <<started, rootDone, canceled, child, emitted, source, disp, todo, target,
                     event, subDone, seen>>
  BY DEF TypeOK, Subscribe
<1> HIDE DEF g
<1>2. seen[s] = <<>> /\ s \notin early /\ Len(seen[s]) = 0
  BY <1>1 DEF OrderInv, BeforeStart
<1>3. s \in early' => /\ disp[g] = "none"
                      /\ event[g] = 0
                      /\ ~closed[g]
  BY <1>1, <1>2 DEF OrderInv, BeforeStart, HeldEvent, RegistryInv, ClosedStream
<1>4. \A x \in Subscriptions : x # s => (x \in early' <=> x \in early)
  BY <1>1
<1>5. \A h \in Streams : \A x \in Awaiting(h) : x # s
  BY <1>1, AwaitingOwn DEF RegistryInv, UnusedStream
<1>6. \A h \in Streams : \A x \in subs[h] : x # s
  BY <1>1 DEF RegistryInv, SubscribedStream, UnusedStream
<1>7. \A h \in Streams : subs'[h] = subs[h] \/ (subs'[h] = subs[h] \cup {s} /\ h = g)
  BY <1>1 DEF TypeOK
<1>8. BufferedEvent' /\ HeldEvent' /\ RootIsOver' /\ EndedInOrder'
  BY <1>1 DEF OrderInv, BufferedEvent, HeldEvent, RootIsOver, EndedInOrder, StreamDone, Exhausted
<1>9. BeforeStart'
  <2>1. \A x \in Subscriptions : pc'[x] = "idle" => pc[x] = "idle" /\ x # s
    BY <1>1 DEF TypeOK
  <2> QED BY <1>1, <1>4, <2>1 DEF OrderInv, BeforeStart
<1>10. Served'
  <2> SUFFICES ASSUME NEW h \in Streams
               PROVE  /\ \A x \in Awaiting(h)' : SentUpTo(x, event[h] - 1)'
                      /\ \/ disp'[h] = "finish" /\ rootDone'
                         \/ \A x \in subs'[h] \ Awaiting(h)' : SentUpTo(x, event[h])'
    BY DEF Served
  <2>2. event[h] \in Int /\ event[h] - 1 \in Int /\ event'[h] = event[h]
    BY <1>1 DEF TypeOK
  <2>3. \A x \in Awaiting(h)' : x \in Awaiting(h) \/ (x = s /\ h = g /\ disp[g] = "snapshot")
    BY <1>1, <1>7 DEF Awaiting
  <2>6. ASSUME NEW x \in Awaiting(h)'
        PROVE  SentUpTo(x, event[h] - 1)'
    <3>1. CASE x \in Awaiting(h)
      <4>1. x \in Subscriptions /\ x # s /\ SentUpTo(x, event[h] - 1)
        BY <1>5, <3>1, AwaitingOwn DEF OrderInv, Served
      <4>2. SentUpTo(x, event[h] - 1)' <=> SentUpTo(x, event[h] - 1)
        BY <1>1, <1>4, <2>2, <4>1 DEF SentUpTo
      <4> QED BY <4>1, <4>2
    <3>2. CASE x = s /\ h = g /\ disp[g] = "snapshot"
      <4>1. s \notin early'
        BY <1>3, <3>2
      <4> QED BY <1>1, <1>2, <3>2, <4>1 DEF SentUpTo
    <3> QED BY <2>3, <3>1, <3>2
  <2>7. \A x \in Awaiting(h) : x \in Awaiting(h)'
    BY <1>1, <1>7 DEF Awaiting
  <2>8. ASSUME NEW x \in subs'[h] \ Awaiting(h)', ~(disp'[h] = "finish" /\ rootDone')
        PROVE  SentUpTo(x, event[h])'
    <3>1. CASE x \in subs[h]
      <4>1. x \in Subscriptions /\ x # s /\ x \in subs[h] \ Awaiting(h)
        BY <1>6, <2>7, <2>8, <3>1 DEF TypeOK
      <4>2. SentUpTo(x, event[h])
        BY <1>1, <2>8, <4>1 DEF OrderInv, Served
      <4> QED BY <1>1, <1>4, <2>2, <4>1, <4>2 DEF SentUpTo
    <3>2. CASE x = s /\ h = g
      <4>1. s \in early' => event'[g] = 0
        BY <1>1, <1>3
      <4> QED BY <1>1, <1>2, <3>2, <4>1 DEF SentUpTo
    <3> QED BY <1>7, <2>8, <3>1, <3>2
  <2> QED BY <2>6, <2>8
<1>11. CompleteAtEnd'
  <2> SUFFICES ASSUME NEW x \in early', chanClosed'[x], ~subDone'[x]
               PROVE  Exhausted(subStream[x])' /\ Len(seen'[x]) = event'[subStream'[x]]
    BY DEF CompleteAtEnd
  <2>1. x \in Subscriptions
    BY <1>1 DEF TypeOK
  <2>2. x # s
    <3>1. x = s => ~closed[g] /\ chanClosed' = chanClosed
      BY <1>1, <1>3
    <3>2. ~chanClosed[s]
      BY <1>1 DEF RegistryInv, ClosedStream, UnusedStream
    <3> QED BY <3>1, <3>2
  <2>3. x \in early /\ chanClosed[x] /\ ~subDone[x] /\ subStream'[x] = subStream[x]
    BY <1>1, <2>1, <2>2 DEF TypeOK
  <2> QED BY <1>1, <2>3 DEF OrderInv, CompleteAtEnd, Exhausted
<1>12. InOrderNoGap'
  <2> SUFFICES ASSUME NEW x \in Subscriptions, NEW i \in 1..Len(seen'[x])
               PROVE  /\ i > 1 => seen'[x][i] = seen'[x][i - 1] + 1
                      /\ i = 1 /\ x \in early' => seen'[x][i] = 1
    BY DEF InOrderNoGap
  <2>1. x # s /\ seen' = seen
    BY <1>1, <1>2
  <2> QED BY <1>4, <2>1 DEF OrderInv, InOrderNoGap
<1> QED BY <1>8, <1>9, <1>10, <1>11, <1>12 DEF OrderInv

\* A dispatcher that starts has nothing in hand.
LEMMA StartOrder ==
  ASSUME TypeOK, RegistryInv, OrderInv,
         StartPending \/ \E s \in Subscriptions : StartStream(s)
  PROVE  OrderInv'
<1> USE SharedStreamAssumption DEF Streams, streamVars, childVars, dispVars, callerVars, chanVars
<1>1. /\ UNCHANGED <<rootDone, subs, canceled, emitted, source, todo, target, event,
                     subStream, subDone, early, chanClosed, seen>>
      /\ started => started'
  BY DEF StartPending, StartStream
<1>2. \A g \in Streams : /\ \/ disp'[g] = disp[g]
                            \/ disp[g] = "none" /\ disp'[g] = "select" /\ started'
                         /\ child'[g] = child[g] \/ disp[g] = "none"
  <2>1. CASE StartPending
    BY <2>1 DEF StartPending, TypeOK, RegistryInv, UnusedStream
  <2>2. ASSUME NEW s \in Subscriptions, StartStream(s)
        PROVE  \A g \in Streams : /\ \/ disp'[g] = disp[g]
                                     \/ disp[g] = "none" /\ disp'[g] = "select" /\ started'
                                  /\ child'[g] = child[g] \/ disp[g] = "none"
    <3>1. disp[s] = "none"
      BY <2>2 DEF StartStream, RegistryInv, UnusedStream
    <3> QED BY <2>2, <3>1 DEF StartStream, TypeOK
  <2> QED BY <2>1, <2>2
<1>3. \A s \in Subscriptions : pc'[s] = "idle" => pc[s] = "idle"
  BY DEF StartPending, StartStream, TypeOK
<1>4. BufferedEvent' /\ RootIsOver' /\ InOrderNoGap'
  BY <1>1 DEF OrderInv, BufferedEvent, RootIsOver, InOrderNoGap
<1>5. HeldEvent' /\ BeforeStart'
  BY <1>1, <1>2, <1>3 DEF OrderInv, HeldEvent, BeforeStart
<1>6. EndedInOrder'
  BY <1>1, <1>2 DEF OrderInv, EndedInOrder, StreamDone, Exhausted
<1>7. Served'
  <2> SUFFICES ASSUME NEW g \in Streams
               PROVE  /\ \A s \in Awaiting(g)' : SentUpTo(s, event[g] - 1)
                      /\ \/ disp'[g] = "finish" /\ rootDone
                         \/ \A s \in subs[g] \ Awaiting(g)' : SentUpTo(s, event[g])
    BY <1>1 DEF Served, SentUpTo
  <2>1. Awaiting(g)' = Awaiting(g) /\ (disp[g] = "finish" => disp'[g] = "finish")
    BY <1>1, <1>2 DEF Awaiting
  <2> QED BY <2>1 DEF OrderInv, Served
<1>8. CompleteAtEnd'
  <2>1. ASSUME NEW s \in early, chanClosed[s]
        PROVE  subStream[s] \in Streams /\ child'[subStream[s]] = child[subStream[s]]
    <3>1. subStream[s] \in Streams /\ disp[subStream[s]] # "none"
      BY <2>1 DEF RegistryInv, ClosedStream, TypeOK
    <3> QED BY <1>2, <3>1
  <2> QED BY <1>1, <2>1 DEF OrderInv, CompleteAtEnd, Exhausted
<1> QED BY <1>4, <1>5, <1>6, <1>7, <1>8 DEF OrderInv

-----------------------------------------------------------------------------

\* What dispatch has yet to serve is what the event awaits.
LEMMA ServeNextAwaits ==
  ASSUME TypeOK, NEW g \in Streams, NEW rest \in SUBSET Subscriptions,
         ServeNext(g, rest)
  PROVE  /\ disp'[g] \in {"select", "send"}
         /\ Awaiting(g)' = rest
         /\ target'[g] \notin todo'[g] \/ disp'[g] = "select"
         /\ \A h \in Streams : h # g => /\ disp'[h] = disp[h]
                                      /\ todo'[h] = todo[h]
                                      /\ target'[h] = target[h]
<1>1. CASE rest = {}
  BY <1>1 DEF TypeOK, ServeNext, Awaiting
<1>2. CASE rest # {}
  <2>1. PICK s \in rest :
          /\ disp' = [disp EXCEPT ![g] = "send"]
          /\ todo' = [todo EXCEPT ![g] = rest \ {s}]
          /\ target' = [target EXCEPT ![g] = s]
    BY <1>2 DEF ServeNext
  <2>2. disp'[g] = "send" /\ todo'[g] = rest \ {s} /\ target'[g] = s
    BY <2>1 DEF TypeOK
  <2>3. Awaiting(g)' = rest
    BY <2>2 DEF Awaiting
  <2> QED BY <2>1, <2>2, <2>3 DEF TypeOK
<1> QED BY <1>1, <1>2

\* dispatch goes on to the next subscription, those it leaves behind having been
\* sent the event or having left the stream.
LEMMA ServeOrder ==
  ASSUME TypeOK, RegistryInv, OrderInv, NEW g \in Streams, NEW rest \in SUBSET Subscriptions,
         disp[g] \in {"snapshot", "send", "unsubscribe", "unsubscribeCancel"},
         ServeNext(g, rest),
         rest \subseteq Awaiting(g),
         UNCHANGED <<started, rootDone, child, emitted, source, event, pc, subStream, subDone,
                     early, chanClosed>>,
         \A h \in Streams : /\ subs'[h] \subseteq subs[h]
                            /\ canceled[h] => canceled'[h],
         \A s \in Subscriptions : seen'[s] = seen[s] \/ (subStream[s] = g /\ s \notin rest),
         \A s \in subs'[g] \ rest : \/ s \notin Awaiting(g) /\ seen'[s] = seen[s]
                                    \/ SentUpTo(s, event[g])',
         InOrderNoGap'
  PROVE  OrderInv'
<1> USE DEF Streams
<1>1. /\ disp'[g] \in {"select", "send"}
      /\ Awaiting(g)' = rest
      /\ target'[g] \notin todo'[g] \/ disp'[g] = "select"
      /\ \A h \in Streams : h # g => /\ disp'[h] = disp[h]
                                   /\ todo'[h] = todo[h]
                                   /\ target'[h] = target[h]
  BY ServeNextAwaits
<1>2. BufferedEvent' /\ RootIsOver'
  BY DEF OrderInv, BufferedEvent, RootIsOver
<1>3. HeldEvent' /\ EndedInOrder'
  BY <1>1 DEF OrderInv, HeldEvent, EndedInOrder, StreamDone, Exhausted
<1>4. BeforeStart'
  <2>1. \A s \in Subscriptions : pc[s] = "idle" => subStream[s] # g
    BY SharedStreamAssumption DEF RegistryInv, UnusedStream
  <2> QED BY <1>1, <2>1 DEF OrderInv, BeforeStart
<1>5. Served'
  <2>1. ASSUME NEW h \in Streams, h # g
        PROVE  /\ \A s \in Awaiting(h)' : SentUpTo(s, event[h] - 1)'
               /\ \/ disp'[h] = "finish" /\ rootDone'
                  \/ \A s \in subs'[h] \ Awaiting(h)' : SentUpTo(s, event[h])'
    <3>1. \A s \in Awaiting(h)' : s \in Awaiting(h)
      BY <1>1, <2>1 DEF Awaiting
    <3>2. \A s \in subs'[h] \ Awaiting(h)' : s \in subs[h] \ Awaiting(h)
      BY <1>1, <2>1 DEF Awaiting, TypeOK
    <3>3. \A s \in Awaiting(h) \cup subs[h] : seen'[s] = seen[s]
      <4>1. \A s \in Awaiting(h) : s \in Subscriptions /\ subStream[s] = h
        BY AwaitingOwn
      <4>2. \A s \in subs[h] : s \in Subscriptions /\ subStream[s] = h
        BY DEF RegistryInv, SubscribedStream, TypeOK
      <4> QED BY <2>1, <4>1, <4>2
    <3>4. /\ \A s \in Awaiting(h) : SentUpTo(s, event[h] - 1)
          /\ \/ disp[h] = "finish" /\ rootDone
             \/ \A s \in subs[h] \ Awaiting(h) : SentUpTo(s, event[h])
      BY DEF OrderInv, Served
    <3> QED BY <1>1, <2>1, <3>1, <3>2, <3>3, <3>4 DEF SentUpTo
  <2>2. \A s \in Awaiting(g)' : SentUpTo(s, event[g] - 1)'
    <3>1. \A s \in rest : SentUpTo(s, event[g] - 1) /\ seen'[s] = seen[s]
      BY DEF OrderInv, Served
    <3> QED BY <1>1, <3>1 DEF SentUpTo
  <2>3. \A s \in subs'[g] \ Awaiting(g)' : SentUpTo(s, event[g])'
    <3>1. \A s \in subs[g] \ Awaiting(g) : SentUpTo(s, event[g])
      BY DEF OrderInv, Served
    <3> QED BY <1>1, <3>1 DEF SentUpTo
  <2> QED BY <2>1, <2>2, <2>3 DEF Served
<1>6. CompleteAtEnd'
  <2>1. \A s \in Subscriptions : chanClosed[s] => subStream[s] # g
    BY DEF RegistryInv, ClosedStream
  <2> QED BY <2>1 DEF OrderInv, CompleteAtEnd, Exhausted, TypeOK
<1> QED BY <1>2, <1>3, <1>4, <1>5, <1>6 DEF OrderInv

LEMMA SnapshotOrder ==
  ASSUME TypeOK, RegistryInv, OrderInv, NEW g \in Streams, Snapshot(g)
  PROVE  OrderInv'
<1>1. /\ disp[g] = "snapshot"
      /\ ServeNext(g, subs[g])
      /\ UNCHANGED <<started, rootDone, subs, canceled, child, emitted, source, event, pc,
                     subStream, subDone, early, chanClosed, seen>>
  BY DEF Snapshot, registryVars, streamVars, childVars, callerVars, chanVars
<1>2. subs[g] \in SUBSET Subscriptions /\ subs[g] \subseteq Awaiting(g)
  BY <1>1 DEF TypeOK, Awaiting, Streams
<1>3. InOrderNoGap'
  BY <1>1 DEF OrderInv, InOrderNoGap
<1> QED BY <1>1, <1>2, <1>3, ServeOrder

\* The event goes to a subscription that was sent the one before it last.
LEMMA SendOrder ==
  ASSUME TypeOK, RegistryInv, OrderInv, NEW g \in Streams, Send(g)
  PROVE  OrderInv'
<1>0. PICK s : s = target[g]
  OBVIOUS
<1>1. /\ disp[g] = "send"
      /\ ServeNext(g, todo[g])
      /\ seen' = [seen EXCEPT ![s] = Append(@, event[g])]
      /\ UNCHANGED <<started, rootDone, subs, canceled, child, emitted, source, event, pc,
                     subStream, subDone, early, chanClosed>>
  BY <1>0 DEF Send, registryVars, streamVars, childVars, callerVars
<1>2. /\ s \in Awaiting(g) /\ s \in Subscriptions /\ subStream[s] = g
      /\ s \notin todo[g]
      /\ event[g] \in Nat /\ event[g] > 0
  BY <1>0, <1>1, SharedStreamAssumption
     DEF Awaiting, RegistryInv, ServedSubscriptions, OrderInv, HeldEvent, TypeOK, Streams
<1>3. /\ seen[s] \in Seq(0..MaxEvents)
      /\ seen'[s] = Append(seen[s], event[g])
      /\ \A x \in Subscriptions : x # s => seen'[x] = seen[x]
  BY <1>1, <1>2 DEF TypeOK
<1>4. /\ Len(seen'[s]) = Len(seen[s]) + 1
      /\ Len(seen[s]) \in Nat
      /\ seen'[s][Len(seen[s]) + 1] = event[g]
      /\ \A i \in 1..Len(seen[s]) : seen'[s][i] = seen[s][i]
      /\ Len(seen[s]) = 0 <=> seen[s] = <<>>
  BY <1>3, EmptySeq, AppendProperties, LenProperties
<1>5. SentUpTo(s, event[g] - 1)
  BY <1>2 DEF OrderInv, Served
<1>6. SentUpTo(s, event[g])'
  <2>1. seen'[s][Len(seen'[s])] = event'[g]
    BY <1>1, <1>4
  <2>2. s \in early' => Len(seen'[s]) = event'[g]
    BY <1>1, <1>2, <1>4, <1>5 DEF SentUpTo
  <2> QED BY <2>1, <2>2 DEF SentUpTo
<1>7. InOrderNoGap'
  <2> SUFFICES ASSUME NEW x \in Subscriptions, NEW i \in 1..Len(seen'[x])
               PROVE  /\ i > 1 => seen'[x][i] = seen'[x][i - 1] + 1
                      /\ i = 1 /\ x \in early' => seen'[x][i] = 1
    BY DEF InOrderNoGap
  <2>1. CASE x # s
    BY <1>1, <1>3, <2>1 DEF OrderInv, InOrderNoGap
  <2>2. CASE x = s /\ i \in 1..Len(seen[s])
    <3>1. i > 1 => i - 1 \in 1..Len(seen[s])
      BY <1>4, <2>2
    <3> QED BY <1>1, <1>4, <2>2, <3>1 DEF OrderInv, InOrderNoGap
  <2>3. CASE x = s /\ i = Len(seen[s]) + 1
    <3>1. CASE Len(seen[s]) = 0
      BY <1>1, <1>2, <1>4, <1>5, <2>3, <3>1 DEF SentUpTo
    <3>2. CASE Len(seen[s]) > 0
      <4>1. seen'[s][i - 1] = event[g] - 1 /\ seen'[s][i] = event[g] /\ i > 1
        BY <1>4, <1>5, <2>3, <3>2 DEF SentUpTo
      <4> QED BY <1>2, <2>3, <4>1
    <3> QED BY <1>4, <3>1, <3>2
  <2> QED BY <1>4, <2>1, <2>2, <2>3
<1>8. todo[g] \in SUBSET Subscriptions /\ todo[g] \subseteq Awaiting(g)
  BY <1>1 DEF TypeOK, Awaiting, Streams
<1>9. \A x \in Subscriptions : seen'[x] = seen[x] \/ (subStream[x] = g /\ x \notin todo[g])
  BY <1>2, <1>3
<1>10. \A x \in subs'[g] \ todo[g] : \/ x \notin Awaiting(g) /\ seen'[x] = seen[x]
                                     \/ SentUpTo(x, event[g])'
  <2>1. \A x \in subs'[g] \ todo[g] : x \in Subscriptions /\ (x = s \/ x \notin Awaiting(g))
    BY <1>0, <1>1 DEF Awaiting, TypeOK, Streams
  <2> QED BY <1>3, <1>6, <2>1 DEF SentUpTo
<1> QED BY <1>1, <1>7, <1>8, <1>9, <1>10, ServeOrder

\* A target that was dropped is behind, and no longer subscribed.
LEMMA DispatchUnsubscribeOrder ==
  ASSUME TypeOK, RegistryInv, OrderInv, NEW g \in Streams,
         DispatchUnsubscribe(g) \/ DispatchUnsubscribeCancel(g)
  PROVE  OrderInv'
<1>1. CASE DispatchUnsubscribe(g)
  <2> DEFINE s == target[g]
  <2>1. /\ disp[g] = "unsubscribe"
        /\ UNCHANGED <<started, rootDone, canceled, child, emitted, source, event, pc,
                       subStream, subDone, early, chanClosed, seen>>
    BY <1>1 DEF DispatchUnsubscribe, childVars, callerVars, chanVars
  <2>2. /\ s \in Subscriptions /\ subStream[s] = g
        /\ todo[g] \in SUBSET Subscriptions
    BY <2>1 DEF RegistryInv, ServedSubscriptions, TypeOK, Streams
  <2>3. subs' = [subs EXCEPT ![g] = @ \ {s}]
    BY <1>1, <2>2 DEF DispatchUnsubscribe, Detach
  <2> HIDE DEF s
  <2>4. /\ subs'[g] = subs[g] \ {s}
        /\ \A h \in Streams : subs'[h] \subseteq subs[h]
    BY <2>3 DEF TypeOK, Streams
  <2>5. InOrderNoGap'
    BY <2>1 DEF OrderInv, InOrderNoGap
  <2>6. Awaiting(g) = todo[g] \cup {s}
    BY <2>1, <2>2 DEF Awaiting, s
  <2>7. CASE ServeNext(g, todo[g])
    BY <2>1, <2>2, <2>4, <2>5, <2>6, <2>7, ServeOrder
  <2>8. CASE disp' = [disp EXCEPT ![g] = "unsubscribeCancel"] /\ UNCHANGED <<todo, target>>
    <3>1. /\ disp'[g] = "unsubscribeCancel"
          /\ \A h \in Streams : h # g => disp'[h] = disp[h] /\ subs'[h] = subs[h]
      BY <2>3, <2>8 DEF TypeOK, Streams
    <3>2. BufferedEvent' /\ RootIsOver' /\ CompleteAtEnd'
      BY <2>1 DEF OrderInv, BufferedEvent, RootIsOver, CompleteAtEnd, Exhausted
    <3>3. HeldEvent' /\ EndedInOrder' /\ BeforeStart'
      BY <2>1, <2>8, <3>1 DEF OrderInv, HeldEvent, EndedInOrder, BeforeStart, StreamDone, Exhausted
    <3>4. Served'
      <4>1. Awaiting(g)' = todo[g] /\ s \notin todo[g]
        BY <2>1, <2>2, <2>8, <3>1 DEF Awaiting, OrderInv, HeldEvent, s
      <4>2. \A h \in Streams : h # g => Awaiting(h)' = Awaiting(h)
        BY <2>8, <3>1 DEF Awaiting
      <4>3. /\ \A x \in Awaiting(g)' : SentUpTo(x, event[g] - 1)
            /\ \A x \in subs'[g] \ Awaiting(g)' : SentUpTo(x, event[g])
        BY <2>1, <2>4, <2>6, <4>1 DEF OrderInv, Served
      <4>4. \A h \in Streams : h # g =>
              /\ \A x \in Awaiting(h)' : SentUpTo(x, event[h] - 1)
              /\ \/ disp'[h] = "finish" /\ rootDone'
                 \/ \A x \in subs'[h] \ Awaiting(h)' : SentUpTo(x, event[h])
        BY <2>1, <3>1, <4>2 DEF OrderInv, Served
      <4> QED BY <2>1, <4>3, <4>4 DEF Served, SentUpTo
    <3> QED BY <2>5, <3>2, <3>3, <3>4 DEF OrderInv
  <2> QED BY <1>1, <2>7, <2>8 DEF DispatchUnsubscribe
<1>2. CASE DispatchUnsubscribeCancel(g)
  <2>1. /\ disp[g] = "unsubscribeCancel"
        /\ ServeNext(g, todo[g])
        /\ UNCHANGED <<started, rootDone, subs, child, emitted, source, event, pc,
                       subStream, subDone, early, chanClosed, seen>>
    BY <1>2 DEF DispatchUnsubscribeCancel, registryVars, childVars, callerVars, chanVars
  <2>2. todo[g] \in SUBSET Subscriptions /\ Awaiting(g) = todo[g]
    BY <2>1 DEF TypeOK, Awaiting, Streams
  <2>3. \A h \in Streams : canceled[h] => canceled'[h]
    BY <1>2 DEF DispatchUnsubscribeCancel, TypeOK
  <2>4. InOrderNoGap'
    BY <2>1 DEF OrderInv, InOrderNoGap
  <2> QED BY <2>1, <2>2, <2>3, <2>4, ServeOrder
<1> QED BY <1>1, <1>2

\* dispatch takes the next event, which then awaits every subscription.
LEMMA TakeEventOrder ==
  ASSUME TypeOK, RegistryInv, OrderInv, NEW g \in Streams, TakeEvent(g)
  PROVE  OrderInv'
<1> USE DEF Streams
<1>1. /\ disp[g] = "select"
      /\ source[g] # <<>>
      /\ event' = [event EXCEPT ![g] = Head(source[g])]
      /\ source' = [source EXCEPT ![g] = Tail(@)]
      /\ disp' = [disp EXCEPT ![g] = "snapshot"]
      /\ UNCHANGED <<started, rootDone, subs, canceled, child, emitted, todo, target, pc,
                     subStream, subDone, early, chanClosed, seen>>
  BY DEF TakeEvent, registryVars, streamVars, callerVars, chanVars
<1>2. source[g] = <<emitted[g]>> /\ emitted[g] = event[g] + 1
  BY <1>1 DEF OrderInv, BufferedEvent
<1>3. /\ event'[g] = event[g] + 1 /\ emitted[g] = event'[g] /\ source'[g] = <<>>
      /\ disp'[g] = "snapshot"
      /\ event[g] \in Nat
  BY <1>1, <1>2, SharedStreamAssumption DEF TypeOK
<1>4. \A h \in Streams : h # g => /\ event'[h] = event[h] /\ source'[h] = source[h]
                                  /\ disp'[h] = disp[h]
  BY <1>1 DEF TypeOK
<1>5. BufferedEvent'
  BY <1>1, <1>3, <1>4 DEF OrderInv, BufferedEvent
<1>6. HeldEvent' /\ EndedInOrder'
  BY <1>1, <1>3, <1>4 DEF OrderInv, HeldEvent, EndedInOrder, StreamDone, Exhausted
<1>7. BeforeStart' /\ RootIsOver' /\ InOrderNoGap'
  BY <1>1, <1>4 DEF OrderInv, BeforeStart, RootIsOver, InOrderNoGap
<1>8. Served'
  <2>1. Awaiting(g) = {} /\ Awaiting(g)' = subs[g]
    BY <1>1, <1>3 DEF Awaiting, TypeOK
  <2>2. \A h \in Streams : h # g => Awaiting(h)' = Awaiting(h)
    BY <1>1, <1>4 DEF Awaiting
  <2>3. \A s \in subs[g] : SentUpTo(s, event'[g] - 1)
    BY <1>1, <1>3, <2>1 DEF OrderInv, Served
  <2>4. \A h \in Streams : h # g =>
          /\ \A s \in Awaiting(h)' : SentUpTo(s, event'[h] - 1)
          /\ \/ disp'[h] = "finish" /\ rootDone'
             \/ \A s \in subs'[h] \ Awaiting(h)' : SentUpTo(s, event'[h])
    BY <1>1, <1>4, <2>2 DEF OrderInv, Served
  <2> QED BY <1>1, <2>1, <2>3, <2>4 DEF Served, SentUpTo
<1>9. CompleteAtEnd'
  <2>1. \A s \in Subscriptions : chanClosed[s] => subStream[s] \in Streams /\ subStream[s] # g
    BY <1>1 DEF RegistryInv, ClosedStream
  <2> QED BY <1>1, <1>4, <2>1 DEF OrderInv, CompleteAtEnd, Exhausted, TypeOK
<1> QED BY <1>5, <1>6, <1>7, <1>8, <1>9 DEF OrderInv

\* dispatch leaves its loop, finds its target gone, or ends: nothing is sent.
LEMMA DispatchMoveOrder ==
  ASSUME TypeOK, RegistryInv, OrderInv, NEW g \in Streams,
         SourceClosed(g) \/ DispatchCanceled(g) \/ TargetDone(g) \/ FinishCancel(g)
  PROVE  OrderInv'
<1> USE DEF Streams
<1>1. /\ UNCHANGED <<started, rootDone, subs, child, emitted, source, todo, target, event, pc,
                     subStream, subDone, early, chanClosed, seen>>
      /\ \A h \in Streams : h # g => disp'[h] = disp[h]
      /\ \A h \in Streams : canceled[h] => canceled'[h]
  BY DEF SourceClosed, DispatchCanceled, TargetDone, FinishCancel, TypeOK, registryVars,
         streamVars, childVars, callerVars, chanVars
<1>2. \/ disp[g] = "select" /\ disp'[g] = "finish" /\ Exhausted(g)
      \/ disp[g] \in {"select", "send"} /\ disp'[g] = "finish" /\ StreamDone(g)
      \/ disp[g] = "send" /\ disp'[g] = "unsubscribe"
      \/ disp[g] = "finishCancel" /\ disp'[g] = "done"
  BY DEF SourceClosed, DispatchCanceled, TargetDone, FinishCancel, TypeOK, Exhausted
<1>3. BufferedEvent' /\ RootIsOver' /\ CompleteAtEnd' /\ InOrderNoGap'
  BY <1>1 DEF OrderInv, BufferedEvent, RootIsOver, CompleteAtEnd, InOrderNoGap, Exhausted
<1>4. HeldEvent' /\ BeforeStart'
  BY <1>1, <1>2 DEF OrderInv, HeldEvent, BeforeStart
<1>5. EndedInOrder'
  BY <1>1, <1>2 DEF OrderInv, EndedInOrder, StreamDone, Exhausted
<1>6. Served'
  <2>1. \A h \in Streams : h # g => Awaiting(h)' = Awaiting(h)
    BY <1>1 DEF Awaiting
  <2>2. \A h \in Streams : h # g =>
          /\ \A s \in Awaiting(h)' : SentUpTo(s, event[h] - 1)
          /\ \/ disp'[h] = "finish" /\ rootDone'
             \/ \A s \in subs[h] \ Awaiting(h)' : SentUpTo(s, event[h])
    BY <1>1, <2>1 DEF OrderInv, Served
  <2>3. /\ \A s \in Awaiting(g)' : s \in Awaiting(g)
        /\ \/ Awaiting(g)' = Awaiting(g)
           \/ StreamDone(g) /\ disp'[g] = "finish"
    BY <1>1, <1>2 DEF Awaiting
  <2>4. canceled[g] => subs[g] = {}
    BY DEF RegistryInv, SubscribedStream
  <2>5. /\ \A s \in Awaiting(g)' : SentUpTo(s, event[g] - 1)
        /\ \/ disp'[g] = "finish" /\ rootDone'
           \/ \A s \in subs[g] \ Awaiting(g)' : SentUpTo(s, event[g])
    BY <1>1, <1>2, <2>3, <2>4 DEF OrderInv, Served, StreamDone
  <2> QED BY <1>1, <2>2, <2>5 DEF Served, SentUpTo
<1> QED BY <1>3, <1>4, <1>5, <1>6 DEF OrderInv

\* finish closes the channels of subscriptions that have been sent everything,
\* unless the run is over.
LEMMA FinishOrder ==
  ASSUME TypeOK, RegistryInv, OrderInv, NEW g \in Streams, Finish(g)
  PROVE  OrderInv'
<1> USE DEF Streams
<1>1. /\ disp[g] = "finish"
      /\ chanClosed' = [s \in Subscriptions |-> chanClosed[s] \/ s \in subs[g]]
      /\ subs' = [subs EXCEPT ![g] = {}]
      /\ disp' = [disp EXCEPT ![g] = "finishCancel"]
      /\ UNCHANGED <<started, rootDone, canceled, child, emitted, source, todo, target, event,
                     pc, subStream, subDone, early, seen>>
  BY DEF Finish, registryVars, childVars, callerVars
<1>2. /\ disp'[g] = "finishCancel" /\ subs'[g] = {}
      /\ \A h \in Streams : h # g => disp'[h] = disp[h] /\ subs'[h] = subs[h]
  BY <1>1 DEF TypeOK
<1>3. BufferedEvent' /\ RootIsOver' /\ InOrderNoGap'
  BY <1>1 DEF OrderInv, BufferedEvent, RootIsOver, InOrderNoGap
<1>4. HeldEvent' /\ BeforeStart' /\ EndedInOrder'
  BY <1>1, <1>2 DEF OrderInv, HeldEvent, BeforeStart, EndedInOrder, StreamDone, Exhausted
<1>5. Served'
  <2>1. Awaiting(g)' = {}
    BY <1>2 DEF Awaiting
  <2>2. \A h \in Streams : h # g => Awaiting(h)' = Awaiting(h)
    BY <1>1, <1>2 DEF Awaiting
  <2> QED BY <1>1, <1>2, <2>1, <2>2 DEF OrderInv, Served, SentUpTo
<1>6. CompleteAtEnd'
  <2> SUFFICES ASSUME NEW s \in early, chanClosed'[s], ~subDone[s]
               PROVE  Exhausted(subStream[s]) /\ Len(seen[s]) = event[subStream[s]]
    BY <1>1 DEF CompleteAtEnd, Exhausted
  <2>1. s \in Subscriptions
    BY DEF TypeOK
  <2>2. CASE chanClosed[s]
    BY <2>2 DEF OrderInv, CompleteAtEnd
  <2>3. CASE s \in subs[g]
    <3>1. ~rootDone /\ ~canceled[g] /\ subStream[s] = g
      BY <2>1, <2>3 DEF OrderInv, RootIsOver, RegistryInv, SubscribedStream
    <3>2. Exhausted(g)
      BY <1>1, <3>1 DEF OrderInv, EndedInOrder, StreamDone
    <3>3. Awaiting(g) = {}
      BY <1>1 DEF Awaiting
    <3>4. SentUpTo(s, event[g])
      BY <2>3, <3>1, <3>3 DEF OrderInv, Served
    <3> QED BY <3>1, <3>2, <3>4 DEF SentUpTo
  <2> QED BY <1>1, <2>1, <2>2, <2>3
<1> QED BY <1>3, <1>4, <1>5, <1>6 DEF OrderInv

LEMMA NextOrder == TypeOK /\ RegistryInv /\ OrderInv /\ [Next]_vars => OrderInv'
<1> SUFFICES ASSUME TypeOK, RegistryInv, OrderInv, [Next]_vars
             PROVE  OrderInv'
  OBVIOUS
<1>1. ASSUME NEW g \in Streams, Dispatch(g)
      PROVE  OrderInv'
  BY <1>1, TakeEventOrder, DispatchMoveOrder, SnapshotOrder, SendOrder,
     DispatchUnsubscribeOrder, FinishOrder DEF Dispatch
<1> QED BY <1>1, QuietOrder, SubscribeOrder, StartOrder DEF Next

\* In every behaviour the place of each event between the child and the
\* subscribers, and what each of these was sent last, agree with each other.
THEOREM OrderInvariant == Spec => []OrderInv
<1>1. Init => OrderInv
  BY InitOrder
<1>2. TypeOK /\ RegistryInv /\ OrderInv /\ [Next]_vars => OrderInv'
  BY NextOrder
<1> QED BY <1>1, <1>2, TypeCorrect, RegistryInvariant, PTL DEF Spec

\* Every subscriber is sent the child's events in order and without a gap, from
\* the first one if it subscribed before startPending.
THEOREM EventsInOrder == Spec => []InOrderNoGap
<1>1. OrderInv => InOrderNoGap
  BY DEF OrderInv
<1> QED BY <1>1, OrderInvariant, PTL

\* A subscriber from before the start whose channel is closed, and that was not
\* canceled, has been sent every event of the execution.
THEOREM EndsAreComplete == Spec => []EndIsComplete
<1>1. TypeOK /\ RegistryInv /\ OrderInv => EndIsComplete
  <2> SUFFICES ASSUME TypeOK, RegistryInv, OrderInv,
                      NEW s \in early, chanClosed[s], ~subDone[s]
               PROVE  Len(seen[s]) = emitted[subStream[s]]
    BY DEF EndIsComplete
  <2>1. subStream[s] \in Streams
    BY DEF RegistryInv, ClosedStream, TypeOK
  <2>2. source[subStream[s]] = <<>> /\ Len(seen[s]) = event[subStream[s]]
    BY DEF OrderInv, CompleteAtEnd, Exhausted
  <2>3. \A k : <<k>> # <<>>
    OBVIOUS
  <2> QED BY <2>1, <2>2, <2>3 DEF OrderInv, BufferedEvent
<1> QED BY <1>1, TypeCorrect, RegistryInvariant, OrderInvariant, PTL

=============================================================================
