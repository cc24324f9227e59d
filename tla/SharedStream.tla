----------------------------- MODULE SharedStream -----------------------------
(***************************************************************************)
(* The registry that lets the branches of one condition tree share one     *)
(* execution of a child condition: runRegistry, sharedStream and           *)
(* subscription of internal/condition/condition.go.                        *)
(*                                                                         *)
(* The module follows one registry key, that is one child condition.       *)
(* Every call of registry.subscribe for that child is an element of        *)
(* Subscriptions; the sharedStream a call creates, if it creates one, goes *)
(* by the name of that call.  A region that runs under registry.mu or      *)
(* stream.mu is one action: the locks are nested in one order only         *)
(* (registry.mu, then stream.mu), and a region that holds both reads       *)
(* registry.streams, which only changes under registry.mu.  What the code  *)
(* does after an unlock is a separate action, so that every other          *)
(* goroutine may run in between.                                           *)
(***************************************************************************)
EXTENDS Naturals, Sequences, FiniteSets

CONSTANTS
  Subscriptions,  \* calls of registry.subscribe for the child
  MaxEvents,      \* bound on the events one execution of the child emits
  None            \* no stream, no target

ASSUME SharedStreamAssumption ==
  /\ MaxEvents \in Nat
  /\ None \notin Subscriptions

Streams == Subscriptions
Capacity == 1     \* make(chan Event, 1), for subscriptions and for sources

VARIABLES
  registered,     \* registry.streams[key], or None
  started,        \* registry.started
  pending,        \* registry.pending
  rootDone,       \* registry.ctx is done
  subs,           \* stream.subs
  closed,         \* stream.closed
  canceled,       \* stream.cancel was called
  child,          \* the goroutine behind stream.source
  emitted,        \* how many events it has put into stream.source
  source,         \* what stream.source buffers
  disp,           \* where stream.dispatch is
  todo,           \* the part of its snapshot dispatch has not begun to serve
  target,         \* the subscription dispatch is serving
  event,          \* the event dispatch holds
  pc,             \* where the caller of subscribe is
  subStream,      \* sub.stream
  subDone,        \* the subscriber's own context is done
  chan,           \* what sub.ch buffers
  chanClosed,     \* sub.ch is closed
  early,          \* history: subscriptions made before startPending
  seen            \* history: the events ever sent on sub.ch

registryVars == <<registered, started, pending, rootDone>>
streamVars   == <<subs, closed, canceled>>
childVars    == <<child, emitted, source>>
dispVars     == <<disp, todo, target, event>>
callerVars   == <<pc, subStream, subDone, early>>
chanVars     == <<chan, chanClosed, seen>>
vars == <<registryVars, streamVars, childVars, dispVars, callerVars, chanVars>>

TypeOK ==
  /\ registered \in Streams \cup {None}
  /\ started \in BOOLEAN
  /\ pending \subseteq Streams
  /\ rootDone \in BOOLEAN
  /\ subs \in [Streams -> SUBSET Subscriptions]
  /\ closed \in [Streams -> BOOLEAN]
  /\ canceled \in [Streams -> BOOLEAN]
  /\ child \in [Streams -> {"none", "running", "closed"}]
  /\ emitted \in [Streams -> 0..MaxEvents]
  /\ source \in [Streams -> Seq(0..MaxEvents)]
  /\ disp \in [Streams -> {"none", "select", "snapshot", "send", "unsubscribe",
                           "unsubscribeCancel", "finish", "finishCancel", "done"}]
  /\ todo \in [Streams -> SUBSET Subscriptions]
  /\ target \in [Streams -> Subscriptions \cup {None}]
  /\ event \in [Streams -> 0..MaxEvents]
  /\ pc \in [Subscriptions -> {"idle", "start", "live", "cancel", "left"}]
  /\ subStream \in [Subscriptions -> Streams \cup {None}]
  /\ subDone \in [Subscriptions -> BOOLEAN]
  /\ chan \in [Subscriptions -> Seq(0..MaxEvents)]
  /\ \A s \in Subscriptions : Len(chan[s]) <= Capacity
  /\ chanClosed \in [Subscriptions -> BOOLEAN]
  /\ early \subseteq Subscriptions
  /\ seen \in [Subscriptions -> Seq(0..MaxEvents)]

Init ==
  /\ registered = None
  /\ started = FALSE
  /\ pending = {}
  /\ rootDone = FALSE
  /\ subs = [g \in Streams |-> {}]
  /\ closed = [g \in Streams |-> FALSE]
  /\ canceled = [g \in Streams |-> FALSE]
  /\ child = [g \in Streams |-> "none"]
  /\ emitted = [g \in Streams |-> 0]
  /\ source = [g \in Streams |-> <<>>]
  /\ disp = [g \in Streams |-> "none"]
  /\ todo = [g \in Streams |-> {}]
  /\ target = [g \in Streams |-> None]
  /\ event = [g \in Streams |-> 0]
  /\ pc = [s \in Subscriptions |-> "idle"]
  /\ subStream = [s \in Subscriptions |-> None]
  /\ subDone = [s \in Subscriptions |-> FALSE]
  /\ chan = [s \in Subscriptions |-> <<>>]
  /\ chanClosed = [s \in Subscriptions |-> FALSE]
  /\ early = {}
  /\ seen = [s \in Subscriptions |-> <<>>]

\* stream.ctx is done: canceled itself, or derived from a canceled context.
StreamDone(g) == rootDone \/ canceled[g]

-----------------------------------------------------------------------------
(***************************************************************************)
(* Callers of subscribe and unsubscribe: composite conditions.             *)
(***************************************************************************)

\* Mutant of Subscribe: attach to the registered stream even if it is closed.
SubscribeUnchecked(s) ==
  /\ pc[s] = "idle"
  /\ LET g == IF registered = None THEN s ELSE registered
     IN  /\ registered' = g
         /\ subStream' = [subStream EXCEPT ![s] = g]
         /\ pc' = [pc EXCEPT ![s] = IF registered = None THEN "start" ELSE "live"]
         /\ subs' = [subs EXCEPT ![g] = @ \cup {s}]
  /\ early' = IF started THEN early ELSE early \cup {s}
  /\ UNCHANGED <<started, pending, rootDone, closed, canceled, childVars,
                 dispVars, subDone, chanVars>>

\* subscribe, under both locks: join the registered stream or create one.  A
\* stream that has finished stays registered and its subscribers get a closed
\* channel.
Subscribe(s) ==
  /\ pc[s] = "idle"
  /\ LET g == IF registered = None THEN s ELSE registered
     IN  /\ registered' = g
         /\ subStream' = [subStream EXCEPT ![s] = g]
         /\ pc' = [pc EXCEPT ![s] = IF registered = None THEN "start" ELSE "live"]
         /\ IF closed[g]
            THEN /\ chanClosed' = [chanClosed EXCEPT ![s] = TRUE]
                 /\ UNCHANGED subs
            ELSE /\ subs' = [subs EXCEPT ![g] = @ \cup {s}]
                 /\ UNCHANGED chanClosed
  /\ early' = IF started THEN early ELSE early \cup {s}
  /\ UNCHANGED <<started, pending, rootDone, closed, canceled, childVars,
                 dispVars, subDone, chan, seen>>

\* Mutant of StartStream: dispatch at once, whoever has yet to subscribe.
EagerStartStream(s) ==
  /\ pc[s] = "start"
  /\ child' = [child EXCEPT ![s] = "running"]
  /\ disp' = [disp EXCEPT ![s] = "select"]
  /\ pc' = [pc EXCEPT ![s] = "live"]
  /\ UNCHANGED <<registryVars, streamVars, emitted, source, todo, target, event,
                 subStream, subDone, early, chanVars>>

\* subscribe, after the unlock, in the caller that created the stream: runChild,
\* whose events nobody reads before dispatch runs, then startStream, which
\* dispatches at once or waits until the whole tree has subscribed.
StartStream(s) ==
  /\ pc[s] = "start"
  /\ child' = [child EXCEPT ![s] = "running"]
  /\ IF started
     THEN /\ disp' = [disp EXCEPT ![s] = "select"]
          /\ UNCHANGED pending
     ELSE /\ pending' = pending \cup {s}
          /\ UNCHANGED disp
  /\ pc' = [pc EXCEPT ![s] = "live"]
  /\ UNCHANGED <<registered, started, rootDone, streamVars, emitted, source, todo,
                 target, event, subStream, subDone, early, chanVars>>

\* startPending: called once, by runRoot, when the tree has been built.
StartPending ==
  /\ ~started
  /\ started' = TRUE
  /\ disp' = [g \in Streams |-> IF g \in pending THEN "select" ELSE disp[g]]
  /\ pending' = {}
  /\ UNCHANGED <<registered, rootDone, streamVars, childVars, todo, target,
                 event, callerVars, chanVars>>

\* Mutants of Detach: keep the registry entry of a stream that was left; drop
\* the entry whoever else is subscribed.
DetachKeepsEntry(s) ==
  /\ subs' = [subs EXCEPT ![subStream[s]] = @ \ {s}]
  /\ UNCHANGED registered

DetachDropsEntry(s) ==
  /\ subs' = [subs EXCEPT ![subStream[s]] = @ \ {s}]
  /\ registered' = IF registered = subStream[s] THEN None ELSE registered

\* The locked part of unsubscribe.  It leaves alone a subscription that is no
\* longer in stream.subs, and forgets a stream that lost its last one.
Detach(s) ==
  LET g == subStream[s]
  IN  /\ subs' = [subs EXCEPT ![g] = @ \ {s}]
      /\ registered' = IF subs[g] = {s} /\ registered = g THEN None ELSE registered

\* Mutant of LeavesEmpty: cancel only a stream that had other subscribers.
LeavesEmptyInverted(s) == subs[subStream[s]] # {s} /\ ~closed[subStream[s]]

\* Whether unsubscribe must cancel the stream once it has released the locks.
LeavesEmpty(s) ==
  LET g == subStream[s]
  IN  subs[g] = {s} /\ ~closed[g]

\* Mutant of Unsubscribe: the reader closes the channel it leaves.
UnsubscribeClosing(s) ==
  /\ pc[s] = "live"
  /\ subDone[s]
  /\ Detach(s)
  /\ chanClosed' = [chanClosed EXCEPT ![s] = TRUE]
  /\ pc' = [pc EXCEPT ![s] = IF LeavesEmpty(s) THEN "cancel" ELSE "left"]
  /\ UNCHANGED <<started, pending, rootDone, closed, canceled, childVars,
                 dispVars, subStream, subDone, early, chan, seen>>

\* sub.unsubscribe(), called by the composite that owns the subscription, which
\* first cancels the context it subscribed with.
Unsubscribe(s) ==
  /\ pc[s] = "live"
  /\ subDone[s]
  /\ Detach(s)
  /\ pc' = [pc EXCEPT ![s] = IF LeavesEmpty(s) THEN "cancel" ELSE "left"]
  /\ UNCHANGED <<started, pending, rootDone, closed, canceled, childVars,
                 dispVars, subStream, subDone, early, chanVars>>

\* The last lines of unsubscribe: stream.cancel(), no lock held.
CancelStream(s) ==
  /\ pc[s] = "cancel"
  /\ canceled' = [canceled EXCEPT ![subStream[s]] = TRUE]
  /\ pc' = [pc EXCEPT ![s] = "left"]
  /\ UNCHANGED <<registryVars, subs, closed, childVars, dispVars, subStream,
                 subDone, early, chanVars>>

\* The composite that owns s cancels the context it subscribed with.
CancelSubscriber(s) ==
  /\ pc[s] # "idle"
  /\ ~subDone[s]
  /\ subDone' = [subDone EXCEPT ![s] = TRUE]
  /\ UNCHANGED <<registryVars, streamVars, childVars, dispVars, pc, subStream,
                 early, chanVars>>

\* A forwarder takes the buffered event off sub.ch.
Receive(s) ==
  /\ chan[s] # <<>>
  /\ chan' = [chan EXCEPT ![s] = Tail(@)]
  /\ UNCHANGED <<registryVars, streamVars, childVars, dispVars, callerVars,
                 chanClosed, seen>>

\* The caller of Run cancels the context of the whole tree, from which those of
\* all subscribers derive.
CancelRoot ==
  /\ ~rootDone
  /\ rootDone' = TRUE
  /\ subDone' = [s \in Subscriptions |-> TRUE]
  /\ UNCHANGED <<registered, started, pending, streamVars, childVars, dispVars,
                 pc, subStream, early, chanVars>>

-----------------------------------------------------------------------------
(***************************************************************************)
(* The child behind stream.source: any condition.  It may emit and close   *)
(* whenever it likes, or never.  What it does after dispatch has ended,    *)
(* when nobody reads the source any more, is not followed.                 *)
(***************************************************************************)

ChildEmit(g) ==
  /\ child[g] = "running"
  /\ disp[g] # "done"
  /\ emitted[g] < MaxEvents
  /\ Len(source[g]) < Capacity
  /\ emitted' = [emitted EXCEPT ![g] = @ + 1]
  /\ source' = [source EXCEPT ![g] = Append(@, emitted[g] + 1)]
  /\ UNCHANGED <<registryVars, streamVars, child, dispVars, callerVars, chanVars>>

ChildClose(g) ==
  /\ child[g] = "running"
  /\ disp[g] # "done"
  /\ child' = [child EXCEPT ![g] = "closed"]
  /\ UNCHANGED <<registryVars, streamVars, emitted, source, dispVars, callerVars,
                 chanVars>>

-----------------------------------------------------------------------------
(***************************************************************************)
(* stream.dispatch and stream.finish.                                      *)
(***************************************************************************)

\* Serve one of `rest` next, in the order of the snapshot, which is the order
\* of a Go map and so any order; with nobody left to serve, select again.
ServeNext(g, rest) ==
  IF rest = {}
  THEN /\ disp' = [disp EXCEPT ![g] = "select"]
       /\ todo' = [todo EXCEPT ![g] = {}]
       /\ target' = [target EXCEPT ![g] = None]
  ELSE \E s \in rest :
         /\ disp' = [disp EXCEPT ![g] = "send"]
         /\ todo' = [todo EXCEPT ![g] = rest \ {s}]
         /\ target' = [target EXCEPT ![g] = s]

\* case event, ok := <-stream.source, with ok.
TakeEvent(g) ==
  /\ disp[g] = "select"
  /\ source[g] # <<>>
  /\ event' = [event EXCEPT ![g] = Head(source[g])]
  /\ source' = [source EXCEPT ![g] = Tail(@)]
  /\ disp' = [disp EXCEPT ![g] = "snapshot"]
  /\ UNCHANGED <<registryVars, streamVars, child, emitted, todo, target,
                 callerVars, chanVars>>

\* case event, ok := <-stream.source, the source being closed and drained.
SourceClosed(g) ==
  /\ disp[g] = "select"
  /\ child[g] = "closed"
  /\ source[g] = <<>>
  /\ disp' = [disp EXCEPT ![g] = "finish"]
  /\ UNCHANGED <<registryVars, streamVars, childVars, todo, target, event,
                 callerVars, chanVars>>

\* case <-stream.ctx.Done(), in either select.
DispatchCanceled(g) ==
  /\ disp[g] \in {"select", "send"}
  /\ StreamDone(g)
  /\ disp' = [disp EXCEPT ![g] = "finish"]
  /\ UNCHANGED <<registryVars, streamVars, childVars, todo, target, event,
                 callerVars, chanVars>>

\* The subscribers the event goes to, copied under stream.mu.
Snapshot(g) ==
  /\ disp[g] = "snapshot"
  /\ ServeNext(g, subs[g])
  /\ UNCHANGED <<registryVars, streamVars, childVars, event, callerVars, chanVars>>

\* Mutant of HasRoom: a channel with a second slot.
HasRoomForTwo(s) == Len(chan[s]) <= Capacity

\* Whether a send on sub.ch can proceed.
HasRoom(s) == Len(chan[s]) < Capacity

\* case sub.ch <- cloneEvent(event).
Send(g) ==
  LET s == target[g]
  IN  /\ disp[g] = "send"
      /\ HasRoom(s)
      /\ chan' = [chan EXCEPT ![s] = Append(@, event[g])]
      /\ seen' = [seen EXCEPT ![s] = Append(@, event[g])]
      /\ ServeNext(g, todo[g])
      /\ UNCHANGED <<registryVars, streamVars, childVars, event, callerVars,
                     chanClosed>>

\* Mutant of TargetDone: skip the subscriber for this event, keep it subscribed.
SkipTarget(g) ==
  /\ disp[g] = "send"
  /\ subDone[target[g]]
  /\ ServeNext(g, todo[g])
  /\ UNCHANGED <<registryVars, streamVars, childVars, event, callerVars, chanVars>>

\* case <-sub.ctx.Done().
TargetDone(g) ==
  /\ disp[g] = "send"
  /\ subDone[target[g]]
  /\ disp' = [disp EXCEPT ![g] = "unsubscribe"]
  /\ UNCHANGED <<registryVars, streamVars, childVars, todo, target, event,
                 callerVars, chanVars>>

\* sub.unsubscribe(), called by dispatch for its target.
DispatchUnsubscribe(g) ==
  /\ disp[g] = "unsubscribe"
  /\ Detach(target[g])
  /\ IF LeavesEmpty(target[g])
     THEN /\ disp' = [disp EXCEPT ![g] = "unsubscribeCancel"]
          /\ UNCHANGED <<todo, target>>
     ELSE ServeNext(g, todo[g])
  /\ UNCHANGED <<started, pending, rootDone, closed, canceled, childVars, event,
                 callerVars, chanVars>>

DispatchUnsubscribeCancel(g) ==
  /\ disp[g] = "unsubscribeCancel"
  /\ canceled' = [canceled EXCEPT ![g] = TRUE]
  /\ ServeNext(g, todo[g])
  /\ UNCHANGED <<registryVars, subs, closed, childVars, event, callerVars, chanVars>>

\* finish, under stream.mu: close every channel that is still subscribed.
Finish(g) ==
  /\ disp[g] = "finish"
  /\ closed' = [closed EXCEPT ![g] = TRUE]
  /\ chanClosed' = [s \in Subscriptions |-> chanClosed[s] \/ s \in subs[g]]
  /\ subs' = [subs EXCEPT ![g] = {}]
  /\ disp' = [disp EXCEPT ![g] = "finishCancel"]
  /\ UNCHANGED <<registryVars, canceled, childVars, todo, target, event,
                 callerVars, chan, seen>>

\* finish, after the unlock: stream.cancel() and close(stream.finished).
FinishCancel(g) ==
  /\ disp[g] = "finishCancel"
  /\ canceled' = [canceled EXCEPT ![g] = TRUE]
  /\ disp' = [disp EXCEPT ![g] = "done"]
  /\ UNCHANGED <<registryVars, subs, closed, childVars, todo, target, event,
                 callerVars, chanVars>>

Dispatch(g) ==
  \/ TakeEvent(g)
  \/ SourceClosed(g)
  \/ DispatchCanceled(g)
  \/ Snapshot(g)
  \/ Send(g)
  \/ TargetDone(g)
  \/ DispatchUnsubscribe(g)
  \/ DispatchUnsubscribeCancel(g)
  \/ Finish(g)
  \/ FinishCancel(g)

-----------------------------------------------------------------------------

Next ==
  \/ StartPending
  \/ CancelRoot
  \/ \E s \in Subscriptions :
       \/ Subscribe(s)
       \/ StartStream(s)
       \/ Unsubscribe(s)
       \/ CancelStream(s)
       \/ CancelSubscriber(s)
       \/ Receive(s)
  \/ \E g \in Streams :
       \/ ChildEmit(g)
       \/ ChildClose(g)
       \/ Dispatch(g)

Spec == Init /\ [][Next]_vars

\* Goroutines that can run do run.  Nothing is assumed of the child, of the
\* readers of the subscriptions, or of who cancels and unsubscribes.
Fairness ==
  /\ WF_vars(StartPending)
  /\ \A s \in Subscriptions :
       WF_vars(StartStream(s) \/ CancelStream(s))
  /\ \A g \in Streams : WF_vars(Dispatch(g))

FairSpec == Spec /\ Fairness

-----------------------------------------------------------------------------
(***************************************************************************)
(* What the registry promises.                                             *)
(***************************************************************************)

\* A send on a closed channel, or a second close, panics in Go.  dispatch works
\* through a copy of stream.subs taken under a lock it has since released, and
\* finish closes whatever is still subscribed.
NoPanic ==
  \A g \in Streams :
    /\ disp[g] = "send" => ~chanClosed[target[g]]
    /\ disp[g] = "finish" => \A s \in subs[g] : ~chanClosed[s]

\* A subscriber is never attached to an execution that has been canceled, or
\* will be by an unsubscribe that has released its locks and not yet called
\* stream.cancel(): it would wait for events that never come.  Only the end of
\* the whole run may take an execution from its subscribers.
LiveStreamNotCanceled ==
  \A g \in Streams :
    subs[g] # {} =>
      /\ ~canceled[g]
      /\ disp[g] # "unsubscribeCancel"
      /\ \A s \in Subscriptions : pc[s] = "cancel" => subStream[s] # g

\* Whoever is subscribed to the child shares one execution of it, which is why
\* the registry exists: two executions of a signal or timer monitor would
\* answer the branches of one tree differently.
OneExecution ==
  Cardinality({g \in Streams : subs[g] # {}}) <= 1

\* A subscriber sees the child's events in order and without a gap, and from
\* the first one if it subscribed before the tree was started.
InOrderNoGap ==
  \A s \in Subscriptions : \A i \in 1..Len(seen[s]) :
    /\ i > 1 => seen[s][i] = seen[s][i - 1] + 1
    /\ i = 1 /\ s \in early => seen[s][i] = 1

\* When an execution ends under a subscriber from before the start that was
\* not itself canceled, that subscriber has been sent every event there was.
\* This is what pending is for: "a shared leaf cannot emit and close before a
\* later branch is attached".
EndIsComplete ==
  \A s \in early :
    chanClosed[s] /\ ~subDone[s] => Len(seen[s]) = emitted[subStream[s]]

\* An execution that has ended, or whose context has been canceled, never gets
\* a subscriber: subscribe looks the stream up and reads closed in one region,
\* but stream.cancel() and the end of dispatch happen outside of it.
NeverRevived ==
  [][\A g \in Streams : closed[g] \/ canceled[g] => subs'[g] \subseteq subs[g]]_vars

\* The inductive invariant behind the four properties above that are about the
\* registry: how registry.streams, the subscriber sets, the contexts and the
\* places of the goroutines that have released a lock fit together.

\* A stream with subscribers is the registered one, and is in full use.
SubscribedStream ==
  \A g \in Streams : \A s \in subs[g] :
    /\ registered = g
    /\ subStream[s] = g
    /\ ~closed[g] /\ ~canceled[g] /\ ~chanClosed[s]

\* Only dispatch's last steps have closed a stream, and only a closed stream
\* has a subscription with a closed channel.
ClosedStream ==
  /\ \A g \in Streams : closed[g] <=> disp[g] \in {"finishCancel", "done"}
  /\ \A s \in Subscriptions :
       chanClosed[s] => subStream[s] \in Streams /\ closed[subStream[s]]

\* A stream that was or will be canceled for want of subscribers has left the
\* registry; what is registered and canceled has finished.
CanceledStream ==
  /\ \A s \in Subscriptions : pc[s] = "cancel" => registered # subStream[s]
  /\ \A g \in Streams :
       /\ disp[g] = "unsubscribeCancel" => registered # g
       /\ canceled[g] /\ registered = g => closed[g]

\* A stream that subscribe has not yet created has no trace.
UnusedStream ==
  \A g \in Streams :
    /\ pc[g] = "idle" => /\ registered # g
                         /\ subStream[g] = None
                         /\ ~canceled[g]
                         /\ \A s \in Subscriptions : subStream[s] # g
    /\ pc[g] # "idle" => subStream[g] \in Streams
    /\ pc[g] \in {"idle", "start"} \/ g \in pending => disp[g] = "none"
    /\ g \in pending => pc[g] \notin {"idle", "start"}

\* dispatch serves its own subscriptions.
ServedSubscriptions ==
  \A g \in Streams :
    /\ \A s \in todo[g] : subStream[s] = g
    /\ disp[g] \in {"send", "unsubscribe", "unsubscribeCancel"} =>
         target[g] \in Subscriptions /\ subStream[target[g]] = g

RegistryInv ==
  /\ SubscribedStream
  /\ ClosedStream
  /\ CanceledStream
  /\ UnusedStream
  /\ ServedSubscriptions

\* An execution nobody is subscribed to, or whose run is over, is torn down:
\* its dispatcher ends and cancels the child's context, so that no monitor
\* goroutine outlives its readers.
Reclaimed ==
  \A g \in Streams :
    (subStream[g] = g /\ (subs[g] = {} \/ rootDone)) ~> (disp[g] = "done" /\ canceled[g])

=============================================================================
