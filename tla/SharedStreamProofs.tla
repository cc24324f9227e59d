------------------------- MODULE SharedStreamProofs -------------------------
(***************************************************************************)
(* Proofs about SharedStream, for any number of subscriptions and events.  *)
(***************************************************************************)
EXTENDS SharedStream, FiniteSetTheorems, SequenceTheorems, TLAPS

\* Whatever dispatch serves next, its variables keep their types.
LEMMA ServeNextType ==
  ASSUME TypeOK, NEW g \in Streams, NEW rest \in SUBSET Subscriptions,
         ServeNext(g, rest)
  PROVE  /\ disp' \in [Streams -> {"none", "select", "snapshot", "send", "unsubscribe",
                                   "unsubscribeCancel", "finish", "finishCancel", "done"}]
         /\ todo' \in [Streams -> SUBSET Subscriptions]
         /\ target' \in [Streams -> Subscriptions \cup {None}]
<1>1. CASE rest = {}
  BY <1>1 DEF TypeOK, ServeNext
<1>2. CASE rest # {}
  <2>1. PICK s \in rest :
          /\ disp' = [disp EXCEPT ![g] = "send"]
          /\ todo' = [todo EXCEPT ![g] = rest \ {s}]
          /\ target' = [target EXCEPT ![g] = s]
    BY <1>2 DEF ServeNext
  <2> QED BY <2>1 DEF TypeOK
<1> QED BY <1>1, <1>2

LEMMA InitType == Init => TypeOK
<1> SUFFICES ASSUME Init PROVE TypeOK
  OBVIOUS
<1> USE SharedStreamAssumption DEF Streams, Capacity
<1>1. \A s \in Subscriptions : Len(chan[s]) <= 1 /\ chan[s] \in Seq(0..MaxEvents)
  BY DEF Init
<1>2. /\ chan \in [Subscriptions -> Seq(0..MaxEvents)]
      /\ seen \in [Subscriptions -> Seq(0..MaxEvents)]
      /\ source \in [Streams -> Seq(0..MaxEvents)]
  BY DEF Init
<1>3. /\ emitted \in [Streams -> 0..MaxEvents]
      /\ event \in [Streams -> 0..MaxEvents]
  BY DEF Init
<1> QED BY <1>1, <1>2, <1>3 DEF Init, TypeOK

\* Every step preserves the types.
LEMMA NextType == TypeOK /\ [Next]_vars => TypeOK'
<1> SUFFICES ASSUME TypeOK, [Next]_vars
             PROVE  TypeOK'
  OBVIOUS
<1> USE SharedStreamAssumption DEF Streams, Capacity, registryVars, streamVars,
        childVars, dispVars, callerVars, chanVars
<1>1. CASE UNCHANGED vars
  BY <1>1 DEF TypeOK, vars
<1>2. CASE StartPending
  BY <1>2 DEF TypeOK, StartPending
<1>3. CASE CancelRoot
  BY <1>3 DEF TypeOK, CancelRoot
<1>4. ASSUME NEW s \in Subscriptions, Subscribe(s)
      PROVE  TypeOK'
  <2> DEFINE g == IF registered = None THEN s ELSE registered
  <2>0. /\ g \in Streams
        /\ registered' = g
        /\ subStream' = [subStream EXCEPT ![s] = g]
        /\ pc' = [pc EXCEPT ![s] = IF registered = None THEN "start" ELSE "live"]
        /\ \/ subs' = [subs EXCEPT ![g] = @ \cup {s}] /\ UNCHANGED chanClosed
           \/ chanClosed' = [chanClosed EXCEPT ![s] = TRUE] /\ UNCHANGED subs
        /\ early' = IF started THEN early ELSE early \cup {s}
    BY <1>4 DEF TypeOK, Subscribe
  <2> HIDE DEF g
  <2>1. /\ subs' \in [Streams -> SUBSET Subscriptions]
        /\ chanClosed' \in [Subscriptions -> BOOLEAN]
    <3>1. CASE subs' = [subs EXCEPT ![g] = @ \cup {s}] /\ UNCHANGED chanClosed
      BY <2>0, <3>1 DEF TypeOK
    <3>2. CASE chanClosed' = [chanClosed EXCEPT ![s] = TRUE] /\ UNCHANGED subs
      BY <2>0, <3>2 DEF TypeOK
    <3> QED BY <2>0, <3>1, <3>2
  <2>2. /\ registered' \in Streams \cup {None}
        /\ subStream' \in [Subscriptions -> Streams \cup {None}]
        /\ pc' \in [Subscriptions -> {"idle", "start", "live", "cancel", "left"}]
        /\ early' \subseteq Subscriptions
    BY <2>0 DEF TypeOK
  <2> QED BY <1>4, <2>1, <2>2 DEF TypeOK, Subscribe
<1>5. ASSUME NEW s \in Subscriptions, StartStream(s)
      PROVE  TypeOK'
  BY <1>5 DEF TypeOK, StartStream
<1>6. ASSUME NEW s \in Subscriptions, Unsubscribe(s)
      PROVE  TypeOK'
  BY <1>6 DEF TypeOK, Unsubscribe, Detach
<1>7. ASSUME NEW s \in Subscriptions, CancelStream(s)
      PROVE  TypeOK'
  BY <1>7 DEF TypeOK, CancelStream
<1>8. ASSUME NEW s \in Subscriptions, CancelSubscriber(s)
      PROVE  TypeOK'
  BY <1>8 DEF TypeOK, CancelSubscriber
<1>9. ASSUME NEW s \in Subscriptions, Receive(s)
      PROVE  TypeOK'
  BY <1>9 DEF TypeOK, Receive
<1>10. ASSUME NEW g \in Streams, ChildEmit(g)
       PROVE  TypeOK'
  BY <1>10 DEF TypeOK, ChildEmit
<1>11. ASSUME NEW g \in Streams, ChildClose(g)
       PROVE  TypeOK'
  BY <1>11 DEF TypeOK, ChildClose
<1>12. ASSUME NEW g \in Streams, Dispatch(g)
       PROVE  TypeOK'
  <2>1. CASE TakeEvent(g)
    <3>1. /\ source[g] \in Seq(0..MaxEvents)
          /\ source[g] # <<>>
      BY <2>1 DEF TypeOK, TakeEvent
    <3>2. /\ Head(source[g]) \in 0..MaxEvents
          /\ Tail(source[g]) \in Seq(0..MaxEvents)
      BY <3>1, HeadTailProperties
    <3> QED BY <2>1, <3>2 DEF TypeOK, TakeEvent
  <2>2. CASE SourceClosed(g)
    BY <2>2 DEF TypeOK, SourceClosed
  <2>3. CASE DispatchCanceled(g)
    BY <2>3 DEF TypeOK, DispatchCanceled
  <2>4. CASE Snapshot(g)
    <3>1. ServeNext(g, subs[g]) /\ subs[g] \in SUBSET Subscriptions
      BY <2>4 DEF TypeOK, Snapshot
    <3> QED BY <2>4, <3>1, ServeNextType DEF TypeOK, Snapshot
  <2>5. CASE Send(g)
    <3>1. ServeNext(g, todo[g]) /\ todo[g] \in SUBSET Subscriptions
      BY <2>5 DEF TypeOK, Send
    <3>2. /\ event[g] \in 0..MaxEvents
          /\ Len(chan[target[g]]) < 1
          /\ chan' = [chan EXCEPT ![target[g]] = Append(@, event[g])]
          /\ seen' = [seen EXCEPT ![target[g]] = Append(@, event[g])]
      BY <2>5 DEF TypeOK, Send, HasRoom
    <3>3. ASSUME NEW s \in Subscriptions
          PROVE  /\ chan'[s] \in Seq(0..MaxEvents) /\ Len(chan'[s]) <= 1
                 /\ seen'[s] \in Seq(0..MaxEvents)
      <4>1. /\ chan[s] \in Seq(0..MaxEvents) /\ Len(chan[s]) <= 1
            /\ seen[s] \in Seq(0..MaxEvents)
        BY DEF TypeOK
      <4>2. /\ Append(chan[s], event[g]) \in Seq(0..MaxEvents)
            /\ Len(Append(chan[s], event[g])) = Len(chan[s]) + 1
            /\ Append(seen[s], event[g]) \in Seq(0..MaxEvents)
        BY <3>2, <4>1
      <4>3. CASE s = target[g]
        <5>1. Len(chan[s]) = 0
          BY <3>2, <4>1, <4>3
        <5>2. chan'[s] = Append(chan[s], event[g]) /\ seen'[s] = Append(seen[s], event[g])
          BY <3>2, <4>3 DEF TypeOK
        <5> QED BY <4>2, <5>1, <5>2
      <4>4. CASE s # target[g]
        <5>1. chan'[s] = chan[s] /\ seen'[s] = seen[s]
          BY <3>2, <4>4 DEF TypeOK
        <5> QED BY <4>1, <5>1
      <4> QED BY <4>3, <4>4
    <3>4. chan' \in [Subscriptions -> Seq(0..MaxEvents)]
          /\ seen' \in [Subscriptions -> Seq(0..MaxEvents)]
      BY <3>2, <3>3 DEF TypeOK
    <3>5. UNCHANGED <<registered, started, pending, rootDone, subs, closed, canceled,
                      child, emitted, source, event, pc, subStream, subDone, early,
                      chanClosed>>
      BY <2>5 DEF Send
    <3> QED BY <3>1, <3>3, <3>4, <3>5, ServeNextType DEF TypeOK
  <2>6. CASE TargetDone(g)
    BY <2>6 DEF TypeOK, TargetDone
  <2>7. CASE DispatchUnsubscribe(g)
    BY <2>7, ServeNextType DEF TypeOK, DispatchUnsubscribe, Detach
  <2>8. CASE DispatchUnsubscribeCancel(g)
    <3>1. ServeNext(g, todo[g]) /\ todo[g] \in SUBSET Subscriptions
      BY <2>8 DEF TypeOK, DispatchUnsubscribeCancel
    <3> QED BY <2>8, <3>1, ServeNextType DEF TypeOK, DispatchUnsubscribeCancel
  <2>9. CASE Finish(g)
    BY <2>9 DEF TypeOK, Finish
  <2>10. CASE FinishCancel(g)
    BY <2>10 DEF TypeOK, FinishCancel
  <2> QED BY <1>12, <2>1, <2>2, <2>3, <2>4, <2>5, <2>6, <2>7, <2>8, <2>9, <2>10
          DEF Dispatch
<1> QED BY <1>1, <1>2, <1>3, <1>4, <1>5, <1>6, <1>7, <1>8, <1>9, <1>10, <1>11, <1>12
        DEF Next

\* The variables of the registry, of its streams and of the goroutines that
\* work on them keep their types in every behaviour.
THEOREM TypeCorrect == Spec => []TypeOK
<1>1. Init => TypeOK
  BY InitType
<1>2. TypeOK /\ [Next]_vars => TypeOK'
  BY NextType
<1> QED BY <1>1, <1>2, PTL DEF Spec

-----------------------------------------------------------------------------
(***************************************************************************)
(* The registry invariant.                                                 *)
(***************************************************************************)

\* dispatch goes on with one of its own subscriptions or back to its select.
LEMMA ServeNextServes ==
  ASSUME TypeOK, NEW g \in Streams, NEW rest \in SUBSET Subscriptions,
         \A s \in rest : subStream[s] = g,
         ServeNext(g, rest)
  PROVE  /\ disp'[g] \in {"select", "send"}
         /\ \A h \in Streams : h # g => /\ disp'[h] = disp[h]
                                      /\ todo'[h] = todo[h]
                                      /\ target'[h] = target[h]
         /\ \A s \in todo'[g] : subStream[s] = g
         /\ disp'[g] = "send" => /\ target'[g] \in Subscriptions
                                 /\ subStream[target'[g]] = g
<1>1. CASE rest = {}
  BY <1>1 DEF TypeOK, ServeNext
<1>2. CASE rest # {}
  <2>1. PICK s \in rest :
          /\ disp' = [disp EXCEPT ![g] = "send"]
          /\ todo' = [todo EXCEPT ![g] = rest \ {s}]
          /\ target' = [target EXCEPT ![g] = s]
    BY <1>2 DEF ServeNext
  <2> QED BY <2>1 DEF TypeOK
<1> QED BY <1>1, <1>2

LEMMA InitRegistry == Init => RegistryInv
BY SharedStreamAssumption
   DEF Init, RegistryInv, SubscribedStream, ClosedStream, CanceledStream, UnusedStream,
       ServedSubscriptions, Streams

\* Callers of subscribe and unsubscribe preserve the invariant.
LEMMA SubscribeRegistry ==
  ASSUME TypeOK, RegistryInv, NEW s \in Subscriptions, Subscribe(s)
  PROVE  RegistryInv'
<1> USE SharedStreamAssumption DEF Streams, childVars, dispVars
<1> DEFINE g == IF registered = None THEN s ELSE registered
<1>1. /\ g \in Streams
      /\ pc[s] = "idle"
      /\ registered' = g
      /\ subStream' = [subStream EXCEPT ![s] = g]
      /\ pc' = [pc EXCEPT ![s] = IF registered = None THEN "start" ELSE "live"]
      /\ IF closed[g]
         THEN chanClosed' = [chanClosed EXCEPT ![s] = TRUE] /\ UNCHANGED subs
         ELSE subs' = [subs EXCEPT ![g] = @ \cup {s}] /\ UNCHANGED chanClosed
      /\ UNCHANGED <<pending, closed, canceled, disp, todo, target>>
  BY DEF TypeOK, Subscribe
<1>2. /\ registered = None => g = s
      /\ registered # None => g = registered /\ pc[g] # "idle"
  BY DEF RegistryInv, UnusedStream, TypeOK
<1> HIDE DEF g
<1>3. ~canceled[g] \/ closed[g]
  BY <1>1, <1>2 DEF RegistryInv, CanceledStream, UnusedStream
<1>4. \A x \in Subscriptions : x \in subs[g] \/ chanClosed[x] \/ subStream[x] # None => x # s
  BY <1>1 DEF RegistryInv, SubscribedStream, ClosedStream, UnusedStream
<1>5. \A h \in Streams : subs[h] # {} => registered = h /\ h = g
  BY <1>1, <1>2 DEF RegistryInv, SubscribedStream, TypeOK
<1>6. SubscribedStream'
  <2>1. CASE closed[g]
    BY <1>1, <1>4, <1>5, <2>1 DEF RegistryInv, SubscribedStream, TypeOK
  <2>2. CASE ~closed[g]
    <3>1. ~chanClosed[s]
      BY <1>1 DEF RegistryInv, ClosedStream, UnusedStream
    <3>2. subs' = [subs EXCEPT ![g] = @ \cup {s}] /\ chanClosed' = chanClosed
      BY <1>1, <2>2
    <3>3. ASSUME NEW h \in Streams, NEW x \in subs'[h]
          PROVE  /\ registered' = h /\ subStream'[x] = h
                 /\ ~closed'[h] /\ ~canceled'[h] /\ ~chanClosed'[x]
      <4>1. CASE h = g /\ x = s
        BY <1>1, <1>3, <2>2, <3>1, <3>2, <4>1 DEF TypeOK
      <4>2. CASE ~(h = g /\ x = s)
        <5>1. x \in subs[h]
          BY <3>2, <4>2 DEF TypeOK
        <5>2. h = g /\ x # s /\ x \in Subscriptions
          BY <1>4, <1>5, <5>1 DEF TypeOK
        <5> QED BY <1>1, <3>2, <5>1, <5>2 DEF RegistryInv, SubscribedStream, TypeOK
      <4> QED BY <4>1, <4>2
    <3> QED BY <3>3 DEF SubscribedStream
  <2> QED BY <2>1, <2>2
<1>7. ClosedStream'
  <2>1. ASSUME NEW x \in Subscriptions, chanClosed'[x]
        PROVE  subStream'[x] \in Streams /\ closed'[subStream'[x]]
    <3>1. CASE x = s
      <4>1. subStream'[x] = g /\ ~chanClosed[x]
        BY <1>1, <1>4, <3>1 DEF TypeOK
      <4> QED BY <1>1, <2>1, <4>1
    <3>2. CASE x # s
      <4>1. chanClosed[x] /\ subStream'[x] = subStream[x]
        BY <1>1, <2>1, <3>2 DEF TypeOK
      <4> QED BY <1>1, <4>1 DEF RegistryInv, ClosedStream
    <3> QED BY <3>1, <3>2
  <2> QED BY <1>1, <2>1 DEF RegistryInv, ClosedStream
<1>8. CanceledStream'
  <2>1. ASSUME NEW x \in Subscriptions, pc'[x] = "cancel"
        PROVE  registered' # subStream'[x]
    <3>1. x # s /\ pc[x] = "cancel" /\ subStream'[x] = subStream[x]
      BY <1>1, <2>1 DEF TypeOK
    <3> QED BY <1>1, <1>2, <3>1 DEF RegistryInv, CanceledStream, UnusedStream
  <2>2. ASSUME NEW h \in Streams
        PROVE  /\ disp'[h] = "unsubscribeCancel" => registered' # h
               /\ canceled'[h] /\ registered' = h => closed'[h]
    BY <1>1, <1>2, <1>3 DEF RegistryInv, CanceledStream, UnusedStream
  <2> QED BY <2>1, <2>2 DEF CanceledStream
<1>9. UnusedStream'
  <2>1. ASSUME NEW h \in Streams, pc'[h] = "idle"
        PROVE  /\ registered' # h /\ subStream'[h] = None /\ ~canceled'[h]
               /\ \A x \in Subscriptions : subStream'[x] # h
    <3>1. h # s /\ pc[h] = "idle" /\ subStream'[h] = subStream[h] /\ h # g
      BY <1>1, <1>2, <2>1 DEF TypeOK
    <3>2. \A x \in Subscriptions : subStream'[x] \in {g, subStream[x]}
      BY <1>1 DEF TypeOK
    <3> QED BY <1>1, <3>1, <3>2 DEF RegistryInv, UnusedStream
  <2>2. ASSUME NEW h \in Streams, pc'[h] # "idle"
        PROVE  subStream'[h] \in Streams
    <3>1. CASE h = s
      BY <1>1, <3>1 DEF TypeOK
    <3>2. CASE h # s
      <4>1. subStream'[h] = subStream[h] /\ pc'[h] = pc[h]
        BY <1>1, <3>2 DEF TypeOK
      <4> QED BY <2>2, <4>1 DEF RegistryInv, UnusedStream
    <3> QED BY <3>1, <3>2
  <2>3. ASSUME NEW h \in Streams
        PROVE  /\ pc'[h] \in {"idle", "start"} \/ h \in pending' => disp'[h] = "none"
               /\ h \in pending' => pc'[h] \notin {"idle", "start"}
    <3>1. h # s => pc'[h] = pc[h]
      BY <1>1 DEF TypeOK
    <3>2. s \notin pending /\ disp[s] = "none"
      BY <1>1 DEF RegistryInv, UnusedStream
    <3> QED BY <1>1, <3>1, <3>2 DEF RegistryInv, UnusedStream
  <2> QED BY <2>1, <2>2, <2>3 DEF UnusedStream
<1>10. ServedSubscriptions'
  <2>1. \A x \in Subscriptions : subStream[x] # None => subStream'[x] = subStream[x]
    BY <1>1, <1>4 DEF TypeOK
  <2>2. ASSUME NEW h \in Streams
        PROVE  /\ \A x \in todo[h] : subStream'[x] = h
               /\ disp[h] \in {"send", "unsubscribe", "unsubscribeCancel"} =>
                    target[h] \in Subscriptions /\ subStream'[target[h]] = h
    <3>1. todo[h] \subseteq Subscriptions /\ h # None
      BY DEF TypeOK
    <3> QED BY <2>1, <3>1 DEF RegistryInv, ServedSubscriptions
  <2> QED BY <1>1, <2>2 DEF ServedSubscriptions
<1> QED BY <1>6, <1>7, <1>8, <1>9, <1>10 DEF RegistryInv

LEMMA StartStreamRegistry ==
  ASSUME TypeOK, RegistryInv, NEW s \in Subscriptions, StartStream(s)
  PROVE  RegistryInv'
<1> USE SharedStreamAssumption DEF Streams, streamVars, chanVars
<1>1. /\ pc[s] = "start"
      /\ pc' = [pc EXCEPT ![s] = "live"]
      /\ \/ disp' = [disp EXCEPT ![s] = "select"] /\ UNCHANGED pending
         \/ pending' = pending \cup {s} /\ UNCHANGED disp
      /\ UNCHANGED <<registered, subs, closed, canceled, chanClosed, todo, target, subStream>>
  BY DEF StartStream
<1>2. disp[s] = "none" /\ s \notin pending
  BY <1>1 DEF RegistryInv, UnusedStream
<1>3. \A h \in Streams : disp'[h] = disp[h] \/ (disp'[h] = "select" /\ h = s)
  BY <1>1 DEF TypeOK
<1>4. \A h \in Streams : pc'[h] = pc[h] \/ (h = s /\ pc'[h] = "live")
  BY <1>1 DEF TypeOK
<1>5. SubscribedStream'
  BY <1>1 DEF RegistryInv, SubscribedStream
<1>6. ClosedStream'
  BY <1>1, <1>2, <1>3 DEF RegistryInv, ClosedStream
<1>7. CanceledStream'
  BY <1>1, <1>3, <1>4 DEF RegistryInv, CanceledStream
<1>8. UnusedStream'
  <2>1. \A h \in Streams : h \in pending' => h \in pending \/ (h = s /\ disp' = disp)
    BY <1>1 DEF TypeOK
  <2>2. ASSUME NEW h \in Streams
        PROVE  /\ pc'[h] \in {"idle", "start"} => pc[h] = pc'[h] /\ h # s
               /\ pc'[h] # "idle" => pc[h] # "idle"
    BY <1>1 DEF TypeOK
  <2>3. ASSUME NEW h \in Streams, pc'[h] \in {"idle", "start"} \/ h \in pending'
        PROVE  disp'[h] = "none"
    BY <1>1, <1>2, <1>3, <2>1, <2>2, <2>3 DEF RegistryInv, UnusedStream
  <2>4. ASSUME NEW h \in Streams, h \in pending'
        PROVE  pc'[h] \notin {"idle", "start"}
    BY <1>1, <1>2, <1>4, <2>1, <2>4 DEF RegistryInv, UnusedStream, TypeOK
  <2> QED BY <1>1, <2>2, <2>3, <2>4 DEF RegistryInv, UnusedStream
<1>9. ServedSubscriptions'
  BY <1>1, <1>3 DEF RegistryInv, ServedSubscriptions
<1> QED BY <1>5, <1>6, <1>7, <1>8, <1>9 DEF RegistryInv

\* Leaving a stream, by whoever calls unsubscribe.
LEMMA DetachRegistry ==
  ASSUME TypeOK, RegistryInv, NEW s \in Subscriptions, subStream[s] \in Streams,
         Detach(s), UNCHANGED <<closed, canceled, chanClosed, subStream>>
  PROVE  /\ SubscribedStream'
         /\ registered' \in {registered, None}
         /\ LeavesEmpty(s) => registered' # subStream[s]
<1> USE SharedStreamAssumption DEF Streams
<1> DEFINE g == subStream[s]
<1>1. /\ subs' = [subs EXCEPT ![g] = @ \ {s}]
      /\ registered' = IF subs[g] = {s} /\ registered = g THEN None ELSE registered
  BY DEF Detach
<1>2. ASSUME NEW h \in Streams, NEW x \in subs'[h]
      PROVE  /\ registered' = h /\ subStream'[x] = h
             /\ ~closed'[h] /\ ~canceled'[h] /\ ~chanClosed'[x]
  <2>1. x \in subs[h] /\ ~(h = g /\ subs[g] = {s})
    BY <1>1, <1>2 DEF TypeOK
  <2> QED BY <1>1, <2>1 DEF RegistryInv, SubscribedStream
<1>3. SubscribedStream'
  BY <1>2 DEF SubscribedStream
<1>4. LeavesEmpty(s) => registered' # g
  BY <1>1 DEF LeavesEmpty
<1> QED BY <1>1, <1>3, <1>4

LEMMA UnsubscribeRegistry ==
  ASSUME TypeOK, RegistryInv, NEW s \in Subscriptions, Unsubscribe(s)
  PROVE  RegistryInv'
<1> USE SharedStreamAssumption DEF Streams, dispVars, childVars, chanVars
<1>1. /\ pc[s] = "live"
      /\ Detach(s)
      /\ pc' = [pc EXCEPT ![s] = IF LeavesEmpty(s) THEN "cancel" ELSE "left"]
      /\ UNCHANGED <<pending, closed, canceled, chanClosed, disp, todo, target, subStream>>
  BY DEF Unsubscribe
<1>2. subStream[s] \in Streams
  BY <1>1 DEF RegistryInv, UnusedStream
<1>3. /\ SubscribedStream'
      /\ registered' \in {registered, None}
      /\ LeavesEmpty(s) => registered' # subStream[s]
  BY <1>1, <1>2, DetachRegistry
<1>4. \A h \in Subscriptions :
        \/ pc'[h] = pc[h]
        \/ h = s /\ pc'[h] \in {"cancel", "left"} /\ (pc'[h] = "cancel" => LeavesEmpty(s))
  BY <1>1 DEF TypeOK
<1>5. ClosedStream'
  BY <1>1 DEF RegistryInv, ClosedStream
<1>6. CanceledStream'
  <2>1. ASSUME NEW x \in Subscriptions, pc'[x] = "cancel"
        PROVE  registered' # subStream'[x]
    <3>1. CASE pc[x] = "cancel"
      <4>1. registered # subStream[x] /\ subStream[x] \in Streams
        BY <3>1 DEF RegistryInv, CanceledStream, UnusedStream
      <4> QED BY <1>1, <1>3, <4>1
    <3>2. CASE pc[x] # "cancel"
      BY <1>1, <1>3, <1>4, <2>1, <3>2
    <3> QED BY <3>1, <3>2
  <2> QED BY <1>1, <1>3, <2>1 DEF RegistryInv, CanceledStream
<1>7. UnusedStream'
  BY <1>1, <1>3, <1>4 DEF RegistryInv, UnusedStream
<1>8. ServedSubscriptions'
  BY <1>1 DEF RegistryInv, ServedSubscriptions
<1> QED BY <1>3, <1>5, <1>6, <1>7, <1>8 DEF RegistryInv

LEMMA CancelStreamRegistry ==
  ASSUME TypeOK, RegistryInv, NEW s \in Subscriptions, CancelStream(s)
  PROVE  RegistryInv'
<1> USE SharedStreamAssumption DEF Streams, registryVars, dispVars, childVars, chanVars
<1> DEFINE g == subStream[s]
<1>1. /\ pc[s] = "cancel"
      /\ canceled' = [canceled EXCEPT ![g] = TRUE]
      /\ pc' = [pc EXCEPT ![s] = "left"]
      /\ UNCHANGED <<registered, pending, subs, closed, chanClosed, disp, todo, target,
                     subStream>>
  BY DEF CancelStream
<1>2. g \in Streams /\ registered # g
  BY <1>1 DEF RegistryInv, UnusedStream, CanceledStream
<1>3. \A h \in Streams : canceled'[h] = canceled[h] \/ h = g
  BY <1>1, <1>2 DEF TypeOK
<1>4. \A x \in Subscriptions : pc'[x] = pc[x] \/ (x = s /\ pc'[x] = "left")
  BY <1>1 DEF TypeOK
<1>5. SubscribedStream'
  <2>1. subs[g] = {}
    BY <1>2 DEF RegistryInv, SubscribedStream
  <2> QED BY <1>1, <1>3, <2>1 DEF RegistryInv, SubscribedStream
<1>6. ClosedStream'
  BY <1>1 DEF RegistryInv, ClosedStream
<1>7. CanceledStream'
  BY <1>1, <1>2, <1>3, <1>4 DEF RegistryInv, CanceledStream
<1>8. UnusedStream'
  <2>1. ASSUME NEW h \in Streams
        PROVE  /\ pc'[h] = "idle" => pc[h] = "idle" /\ h # g
               /\ pc'[h] # "idle" => pc[h] # "idle"
               /\ pc'[h] = "start" => pc[h] = "start"
               /\ pc'[h] = "start" \/ pc'[h] = "idle" \/ pc[h] # "start"
    BY <1>1, <1>2, <1>4 DEF RegistryInv, UnusedStream
  <2> QED BY <1>1, <1>3, <2>1 DEF RegistryInv, UnusedStream
<1>9. ServedSubscriptions'
  BY <1>1 DEF RegistryInv, ServedSubscriptions
<1> QED BY <1>5, <1>6, <1>7, <1>8, <1>9 DEF RegistryInv

\* A step of dispatch that moves from one place to another inside the loop, or
\* into finish, and serves only its own subscriptions.
LEMMA DispatchMoveRegistry ==
  ASSUME TypeOK, RegistryInv, NEW g \in Streams,
         disp[g] \notin {"none", "finishCancel", "done"},
         disp'[g] \in {"select", "snapshot", "send", "unsubscribe", "finish"},
         \A h \in Streams : h # g => /\ disp'[h] = disp[h]
                                   /\ todo'[h] = todo[h]
                                   /\ target'[h] = target[h],
         \A s \in todo'[g] : subStream[s] = g,
         disp'[g] \in {"send", "unsubscribe"} =>
           target'[g] \in Subscriptions /\ subStream[target'[g]] = g,
         UNCHANGED <<registered, pending, subs, closed, canceled, chanClosed, pc, subStream>>
  PROVE  RegistryInv'
<1>1. SubscribedStream'
  BY DEF RegistryInv, SubscribedStream
<1>2. ClosedStream'
  BY DEF RegistryInv, ClosedStream
<1>3. CanceledStream'
  BY DEF RegistryInv, CanceledStream
<1>4. UnusedStream'
  BY DEF RegistryInv, UnusedStream
<1>5. ServedSubscriptions'
  BY DEF RegistryInv, ServedSubscriptions
<1> QED BY <1>1, <1>2, <1>3, <1>4, <1>5 DEF RegistryInv

LEMMA DispatchUnsubscribeRegistry ==
  ASSUME TypeOK, RegistryInv, NEW g \in Streams, DispatchUnsubscribe(g)
  PROVE  RegistryInv'
<1> USE SharedStreamAssumption DEF Streams, childVars, callerVars, chanVars
<1> DEFINE s == target[g]
<1>1. /\ disp[g] = "unsubscribe"
      /\ Detach(s)
      /\ UNCHANGED <<pending, closed, canceled, chanClosed, pc, subStream>>
  BY DEF DispatchUnsubscribe
<1>2. s \in Subscriptions /\ subStream[s] = g
  BY <1>1 DEF RegistryInv, ServedSubscriptions
<1> HIDE DEF s
<1>3. /\ SubscribedStream'
      /\ registered' \in {registered, None}
      /\ LeavesEmpty(s) => registered' # g
  BY <1>1, <1>2, DetachRegistry
<1>4. /\ disp'[g] \in {"select", "send", "unsubscribeCancel"}
      /\ disp'[g] = "unsubscribeCancel" => LeavesEmpty(s)
      /\ \A h \in Streams : h # g => /\ disp'[h] = disp[h]
                                   /\ todo'[h] = todo[h]
                                   /\ target'[h] = target[h]
      /\ \A x \in todo'[g] : subStream[x] = g
      /\ disp'[g] \in {"send", "unsubscribeCancel"} =>
           target'[g] \in Subscriptions /\ subStream[target'[g]] = g
  <2>1. CASE LeavesEmpty(s)
    <3>1. disp' = [disp EXCEPT ![g] = "unsubscribeCancel"] /\ UNCHANGED <<todo, target>>
      BY <2>1 DEF DispatchUnsubscribe, s
    <3> QED BY <1>2, <2>1, <3>1 DEF RegistryInv, ServedSubscriptions, TypeOK, s
  <2>2. CASE ~LeavesEmpty(s)
    <3>1. ServeNext(g, todo[g])
      BY <2>2 DEF DispatchUnsubscribe, s
    <3>2. todo[g] \in SUBSET Subscriptions /\ \A x \in todo[g] : subStream[x] = g
      BY DEF RegistryInv, ServedSubscriptions, TypeOK
    <3> QED BY <3>1, <3>2, ServeNextServes
  <2> QED BY <2>1, <2>2
<1>5. ClosedStream'
  BY <1>1, <1>4 DEF RegistryInv, ClosedStream
<1>6. CanceledStream'
  <2>1. ASSUME NEW x \in Subscriptions, pc'[x] = "cancel"
        PROVE  registered' # subStream'[x]
    <3>1. registered # subStream[x] /\ subStream[x] \in Streams
      BY <1>1, <2>1 DEF RegistryInv, CanceledStream, UnusedStream
    <3> QED BY <1>1, <1>3, <3>1
  <2> QED BY <1>1, <1>3, <1>4, <2>1 DEF RegistryInv, CanceledStream
<1>7. UnusedStream'
  BY <1>1, <1>3, <1>4 DEF RegistryInv, UnusedStream
<1>8. ServedSubscriptions'
  BY <1>1, <1>4 DEF RegistryInv, ServedSubscriptions
<1> QED BY <1>3, <1>5, <1>6, <1>7, <1>8 DEF RegistryInv

LEMMA DispatchUnsubscribeCancelRegistry ==
  ASSUME TypeOK, RegistryInv, NEW g \in Streams, DispatchUnsubscribeCancel(g)
  PROVE  RegistryInv'
<1> USE SharedStreamAssumption DEF Streams, registryVars, childVars, callerVars, chanVars
<1>1. /\ disp[g] = "unsubscribeCancel"
      /\ canceled' = [canceled EXCEPT ![g] = TRUE]
      /\ ServeNext(g, todo[g])
      /\ UNCHANGED <<registered, pending, subs, closed, chanClosed, pc, subStream>>
  BY DEF DispatchUnsubscribeCancel
<1>2. /\ registered # g /\ pc[g] # "idle"
      /\ \A x \in Streams : x # g => canceled'[x] = canceled[x]
  BY <1>1 DEF RegistryInv, CanceledStream, UnusedStream, TypeOK
<1>3. todo[g] \in SUBSET Subscriptions /\ \A x \in todo[g] : subStream[x] = g
  BY DEF RegistryInv, ServedSubscriptions, TypeOK
<1>4. /\ disp'[g] \in {"select", "send"}
      /\ \A h \in Streams : h # g => /\ disp'[h] = disp[h]
                                   /\ todo'[h] = todo[h]
                                   /\ target'[h] = target[h]
      /\ \A x \in todo'[g] : subStream[x] = g
      /\ disp'[g] = "send" => target'[g] \in Subscriptions /\ subStream[target'[g]] = g
  BY <1>1, <1>3, ServeNextServes
<1>5. SubscribedStream'
  BY <1>1, <1>2 DEF RegistryInv, SubscribedStream
<1>6. ClosedStream'
  BY <1>1, <1>4 DEF RegistryInv, ClosedStream
<1>7. CanceledStream'
  BY <1>1, <1>2, <1>4 DEF RegistryInv, CanceledStream
<1>8. UnusedStream'
  BY <1>1, <1>2, <1>4 DEF RegistryInv, UnusedStream
<1>9. ServedSubscriptions'
  BY <1>1, <1>4 DEF RegistryInv, ServedSubscriptions
<1> QED BY <1>5, <1>6, <1>7, <1>8, <1>9 DEF RegistryInv

LEMMA FinishRegistry ==
  ASSUME TypeOK, RegistryInv, NEW g \in Streams, Finish(g) \/ FinishCancel(g)
  PROVE  RegistryInv'
<1> USE SharedStreamAssumption DEF Streams, registryVars, childVars, callerVars, chanVars
<1>1. CASE Finish(g)
  <2>1. /\ disp[g] = "finish"
        /\ closed' = [closed EXCEPT ![g] = TRUE]
        /\ \A s \in Subscriptions : chanClosed'[s] = (chanClosed[s] \/ s \in subs[g])
        /\ subs' = [subs EXCEPT ![g] = {}]
        /\ disp' = [disp EXCEPT ![g] = "finishCancel"]
        /\ UNCHANGED <<registered, pending, canceled, pc, subStream, todo, target>>
    BY <1>1 DEF Finish
  <2>2. /\ disp'[g] = "finishCancel" /\ \A h \in Streams : h # g => disp'[h] = disp[h]
        /\ closed'[g] /\ \A h \in Streams : h # g => closed'[h] = closed[h]
        /\ subs'[g] = {} /\ \A h \in Streams : h # g => subs'[h] = subs[h]
    BY <2>1 DEF TypeOK
  <2>3. SubscribedStream'
    <3>1. ASSUME NEW h \in Streams, NEW s \in subs'[h]
          PROVE  /\ registered' = h /\ subStream'[s] = h
                 /\ ~closed'[h] /\ ~canceled'[h] /\ ~chanClosed'[s]
      <4>1. h # g /\ s \in subs[h] /\ s \in Subscriptions
        BY <2>2, <3>1 DEF TypeOK
      <4>2. s \notin subs[g]
        BY <4>1 DEF RegistryInv, SubscribedStream
      <4> QED BY <2>1, <2>2, <4>1, <4>2 DEF RegistryInv, SubscribedStream
    <3> QED BY <3>1 DEF SubscribedStream
  <2>4. ClosedStream'
    <3>1. \A s \in subs[g] : subStream[s] = g
      BY DEF RegistryInv, SubscribedStream
    <3>2. ASSUME NEW s \in Subscriptions, chanClosed'[s]
          PROVE  subStream'[s] \in Streams /\ closed'[subStream'[s]]
      <4>1. CASE s \in subs[g]
        BY <2>1, <2>2, <3>1, <4>1
      <4>2. CASE chanClosed[s]
        <5>1. subStream[s] \in Streams /\ closed[subStream[s]]
          BY <4>2 DEF RegistryInv, ClosedStream
        <5> QED BY <2>1, <2>2, <5>1
      <4> QED BY <2>1, <3>2, <4>1, <4>2
    <3> QED BY <2>2, <3>2 DEF RegistryInv, ClosedStream
  <2>5. CanceledStream'
    BY <2>1, <2>2 DEF RegistryInv, CanceledStream
  <2>6. UnusedStream'
    BY <2>1, <2>2 DEF RegistryInv, UnusedStream
  <2>7. ServedSubscriptions'
    BY <2>1, <2>2 DEF RegistryInv, ServedSubscriptions
  <2> QED BY <2>3, <2>4, <2>5, <2>6, <2>7 DEF RegistryInv
<1>2. CASE FinishCancel(g)
  <2>1. /\ disp[g] = "finishCancel"
        /\ UNCHANGED <<registered, pending, subs, closed, chanClosed, pc, subStream, todo,
                       target>>
    BY <1>2 DEF FinishCancel
  <2>2. /\ disp'[g] = "done" /\ \A h \in Streams : h # g => disp'[h] = disp[h]
        /\ \A h \in Streams : h # g => canceled'[h] = canceled[h]
    BY <1>2 DEF FinishCancel, TypeOK
  <2>3. closed[g] /\ subs[g] = {} /\ pc[g] # "idle"
    BY <2>1 DEF RegistryInv, ClosedStream, SubscribedStream, UnusedStream
  <2>4. SubscribedStream'
    BY <2>1, <2>2, <2>3 DEF RegistryInv, SubscribedStream
  <2>5. ClosedStream'
    BY <2>1, <2>2 DEF RegistryInv, ClosedStream
  <2>6. CanceledStream'
    BY <2>1, <2>2, <2>3 DEF RegistryInv, CanceledStream
  <2>7. UnusedStream'
    BY <2>1, <2>2, <2>3 DEF RegistryInv, UnusedStream
  <2>8. ServedSubscriptions'
    BY <2>1, <2>2 DEF RegistryInv, ServedSubscriptions
  <2> QED BY <2>4, <2>5, <2>6, <2>7, <2>8 DEF RegistryInv
<1> QED BY <1>1, <1>2

\* The other steps move nothing the registry invariant is about, or move
\* dispatch along.
LEMMA DispatchRegistry ==
  ASSUME TypeOK, RegistryInv, NEW g \in Streams, Dispatch(g)
  PROVE  RegistryInv'
<1> USE SharedStreamAssumption
        DEF Streams, registryVars, streamVars, childVars, callerVars, chanVars
<1> DEFINE Moves ==
      /\ disp[g] \notin {"none", "finishCancel", "done"}
      /\ disp'[g] \in {"select", "snapshot", "send", "unsubscribe", "finish"}
      /\ \A h \in Streams : h # g => /\ disp'[h] = disp[h]
                                   /\ todo'[h] = todo[h]
                                   /\ target'[h] = target[h]
      /\ \A s \in todo'[g] : subStream[s] = g
      /\ disp'[g] \in {"send", "unsubscribe"} =>
           target'[g] \in Subscriptions /\ subStream[target'[g]] = g
      /\ UNCHANGED <<registered, pending, subs, closed, canceled, chanClosed, pc, subStream>>
<1>1. Moves => RegistryInv'
  BY DispatchMoveRegistry
<1>2. \A s \in todo[g] : subStream[s] = g
  BY DEF RegistryInv, ServedSubscriptions
<1>3. CASE TakeEvent(g)
  <2>1. Moves
    BY <1>2, <1>3 DEF TakeEvent, TypeOK
  <2> QED BY <1>1, <2>1
<1>4. CASE SourceClosed(g)
  <2>1. Moves
    BY <1>2, <1>4 DEF SourceClosed, TypeOK
  <2> QED BY <1>1, <2>1
<1>5. CASE DispatchCanceled(g)
  <2>1. Moves
    BY <1>2, <1>5 DEF DispatchCanceled, TypeOK
  <2> QED BY <1>1, <2>1
<1>6. CASE Snapshot(g)
  <2>1. subs[g] \in SUBSET Subscriptions /\ \A s \in subs[g] : subStream[s] = g
    BY DEF RegistryInv, SubscribedStream, TypeOK
  <2>2. ServeNext(g, subs[g])
    BY <1>6 DEF Snapshot
  <2>3. Moves
    BY <1>6, <2>1, <2>2, ServeNextServes DEF Snapshot
  <2> QED BY <1>1, <2>3
<1>7. CASE Send(g)
  <2>1. todo[g] \in SUBSET Subscriptions
    BY DEF TypeOK
  <2>2. ServeNext(g, todo[g])
    BY <1>7 DEF Send
  <2>3. Moves
    BY <1>2, <1>7, <2>1, <2>2, ServeNextServes DEF Send
  <2> QED BY <1>1, <2>3
<1>8. CASE TargetDone(g)
  <2>1. target[g] \in Subscriptions /\ subStream[target[g]] = g
    BY <1>8 DEF TargetDone, RegistryInv, ServedSubscriptions
  <2>2. Moves
    BY <1>2, <1>8, <2>1 DEF TargetDone, TypeOK
  <2> QED BY <1>1, <2>2
<1> QED BY <1>3, <1>4, <1>5, <1>6, <1>7, <1>8, DispatchUnsubscribeRegistry,
           DispatchUnsubscribeCancelRegistry, FinishRegistry
        DEF Dispatch

LEMMA StartPendingRegistry ==
  ASSUME TypeOK, RegistryInv, StartPending
  PROVE  RegistryInv'
<1> USE SharedStreamAssumption DEF Streams, streamVars, childVars, callerVars, chanVars
<1>1. /\ pending' = {}
      /\ UNCHANGED <<registered, subs, closed, canceled, chanClosed, pc, subStream, todo,
                     target>>
      /\ \A g \in Streams : disp'[g] = IF g \in pending THEN "select" ELSE disp[g]
  BY DEF StartPending
<1>2. \A g \in pending : disp[g] = "none" /\ pc[g] \notin {"idle", "start"} /\ g \in Streams
  BY DEF RegistryInv, UnusedStream, TypeOK
<1>3. SubscribedStream' /\ ClosedStream' /\ CanceledStream' /\ ServedSubscriptions'
  BY <1>1, <1>2
     DEF RegistryInv, SubscribedStream, ClosedStream, CanceledStream, ServedSubscriptions
<1>4. UnusedStream'
  BY <1>1, <1>2 DEF RegistryInv, UnusedStream
<1> QED BY <1>3, <1>4 DEF RegistryInv

LEMMA NextRegistry == TypeOK /\ RegistryInv /\ [Next]_vars => RegistryInv'
<1> SUFFICES ASSUME TypeOK, RegistryInv, [Next]_vars
             PROVE  RegistryInv'
  OBVIOUS
<1> DEFINE Idle == UNCHANGED <<registered, pending, subs, closed, canceled, chanClosed, disp,
                               todo, target, pc, subStream>>
<1>1. Idle => RegistryInv'
  BY DEF RegistryInv, SubscribedStream, ClosedStream, CanceledStream, UnusedStream,
         ServedSubscriptions
<1>2. CASE UNCHANGED vars \/ CancelRoot
  BY <1>1, <1>2 DEF vars, CancelRoot, registryVars, streamVars, childVars, dispVars,
                    callerVars, chanVars
<1>3. ASSUME NEW s \in Subscriptions, CancelSubscriber(s) \/ Receive(s)
      PROVE  RegistryInv'
  BY <1>1, <1>3 DEF CancelSubscriber, Receive, registryVars, streamVars, childVars, dispVars,
                    callerVars, chanVars
<1>4. ASSUME NEW g \in Streams, ChildEmit(g) \/ ChildClose(g)
      PROVE  RegistryInv'
  BY <1>1, <1>4 DEF ChildEmit, ChildClose, registryVars, streamVars, childVars, dispVars,
                    callerVars, chanVars
<1> QED BY <1>2, <1>3, <1>4, SubscribeRegistry, StartStreamRegistry, UnsubscribeRegistry,
           CancelStreamRegistry, DispatchRegistry, StartPendingRegistry
        DEF Next

\* In every behaviour the registry's map, the subscriber sets, the contexts and
\* the goroutines between two locked regions agree with each other.
THEOREM RegistryInvariant == Spec => []RegistryInv
<1>1. Init => RegistryInv
  BY InitRegistry
<1>2. TypeOK /\ RegistryInv /\ [Next]_vars => RegistryInv'
  BY NextRegistry
<1> QED BY <1>1, <1>2, TypeCorrect, PTL DEF Spec

\* No send on a closed channel and no second close, whatever the interleaving
\* of dispatch, finish, subscribe and unsubscribe.
THEOREM NeverPanics == Spec => []NoPanic
<1>1. RegistryInv => NoPanic
  BY DEF RegistryInv, SubscribedStream, ClosedStream, ServedSubscriptions, NoPanic
<1> QED BY <1>1, RegistryInvariant, PTL

\* A subscriber is never on an execution that was or is about to be canceled.
THEOREM LiveStreamsAreNotCanceled == Spec => []LiveStreamNotCanceled
<1>1. RegistryInv => LiveStreamNotCanceled
  BY DEF RegistryInv, SubscribedStream, CanceledStream, LiveStreamNotCanceled
<1> QED BY <1>1, RegistryInvariant, PTL

\* All subscribers of the child share one execution of it.
THEOREM SharedExecution == Spec => []OneExecution
<1>1. ASSUME TypeOK, RegistryInv
      PROVE  OneExecution
  <2> DEFINE Used == {g \in Streams : subs[g] # {}}
  <2>1. Used \subseteq {registered}
    BY <1>1 DEF RegistryInv, SubscribedStream
  <2>2. IsFiniteSet({registered}) /\ Cardinality({registered}) = 1
    BY FS_Singleton
  <2>3. Cardinality(Used) <= Cardinality({registered})
    BY <2>1, <2>2, FS_Subset
  <2>4. IsFiniteSet(Used)
    BY <2>1, <2>2, FS_Subset
  <2>5. Cardinality(Used) \in Nat
    BY <2>4, FS_CardinalityType
  <2> QED BY <2>2, <2>3, <2>5 DEF OneExecution
<1> QED BY <1>1, TypeCorrect, RegistryInvariant, PTL

\* No step gives a subscriber to an execution that has ended or been canceled.
THEOREM EndedStreamsStayEnded == Spec => NeverRevived
<1> DEFINE Kept == \A g \in Streams : closed[g] \/ canceled[g] => subs'[g] \subseteq subs[g]
<1>1. ASSUME TypeOK, RegistryInv, RegistryInv', [Next]_vars
      PROVE  Kept
  <2>1. ASSUME NEW g \in Streams, closed[g] \/ canceled[g], NEW s \in subs'[g],
               NEW x \in Subscriptions, Subscribe(x)
        PROVE  s \in subs[g]
    <3>1. closed' = closed /\ canceled' = canceled
      BY <2>1 DEF Subscribe
    <3> QED BY <1>1, <2>1, <3>1 DEF RegistryInv, SubscribedStream
  <2>2. ASSUME NEW s \in Subscriptions, Detach(s), NEW g \in Streams
        PROVE  subs'[g] \subseteq subs[g]
    BY <1>1, <2>2 DEF Detach, TypeOK
  <2>3. ASSUME NEW h \in Streams, Finish(h), NEW g \in Streams
        PROVE  subs'[g] \subseteq subs[g]
    BY <1>1, <2>3 DEF Finish, TypeOK
  <2>4. ASSUME NEW h \in Streams, DispatchUnsubscribe(h)
        PROVE  target[h] \in Subscriptions /\ Detach(target[h])
    BY <1>1, <2>4 DEF DispatchUnsubscribe, RegistryInv, ServedSubscriptions
  <2>5. ASSUME NEW h \in Streams, Dispatch(h), ~Finish(h), ~DispatchUnsubscribe(h)
        PROVE  subs' = subs
    BY <2>5 DEF Dispatch, TakeEvent, SourceClosed, DispatchCanceled, Snapshot, Send,
                TargetDone, DispatchUnsubscribeCancel, FinishCancel, streamVars
  <2>6. ASSUME NEW s \in Subscriptions,
               \/ StartStream(s) \/ CancelStream(s) \/ CancelSubscriber(s) \/ Receive(s)
        PROVE  subs' = subs
    BY <2>6 DEF StartStream, CancelStream, CancelSubscriber, Receive, streamVars
  <2>7. ASSUME NEW s \in Subscriptions, Unsubscribe(s)
        PROVE  Detach(s)
    BY <2>7 DEF Unsubscribe
  <2>8. CASE StartPending \/ CancelRoot \/ UNCHANGED vars
    BY <2>8 DEF StartPending, CancelRoot, vars, streamVars
  <2>9. ASSUME NEW g \in Streams, ChildEmit(g) \/ ChildClose(g)
        PROVE  subs' = subs
    BY <2>9 DEF ChildEmit, ChildClose, streamVars
  <2> QED BY <1>1, <2>1, <2>2, <2>3, <2>4, <2>5, <2>6, <2>7, <2>8, <2>9 DEF Next
<1> QED BY <1>1, TypeCorrect, RegistryInvariant, PTL DEF Spec, NeverRevived

=============================================================================
