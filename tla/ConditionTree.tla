---------------------------- MODULE ConditionTree ----------------------------
(***************************************************************************)
(* A tree of And and Or conditions while it runs: andCondition.run and     *)
(* orCondition.run of internal/condition, their forwarders, and the shared *)
(* streams that connect a condition to those that are made of it.          *)
(*                                                                         *)
(* The tree starts as runRoot leaves it when its context is not done       *)
(* before it returns: every branch has subscribed, and startPending has    *)
(* run.  (Module SharedStream models the other case, and the steps a       *)
(* stream is interrupted at in full; those merged here touch what no other *)
(* goroutine of the tree looks at in between.)  An event is the set of its *)
(* SourceIDs.                                                              *)
(***************************************************************************)
EXTENDS Naturals, Sequences, FiniteSets

CONSTANTS
  Nodes,      \* the conditions of the tree
  Op,         \* Op[n] is "leaf", "and" or "or"
  Children,   \* Children[n], a sequence of nodes, <<>> for a leaf
  Root,       \* the composite whose Run was called
  Modes,      \* the modes Run may be called with: "once", "continuous"
  Repeating,  \* leaves that go on after an event in Continuous mode
  External,   \* leaves that may end for reasons of their own
  MayCancel,  \* whether the caller may cancel the context given to Run
  MaxEvents   \* MaxEvents[n] bounds the events of leaf n

Leaves     == {n \in Nodes : Op[n] = "leaf"}
Composites == Nodes \ Leaves

\* The subscription of composite l[1] to its child number l[2].
Links    == UNION {{<<p, i>> : i \in 1..Len(Children[p])} : p \in Composites}
LinksOf(p) == {l \in Links : l[1] = p}
Child(l) == Children[l[1]][l[2]]

ASSUME ConditionTreeAssumption ==
  /\ Op \in [Nodes -> {"leaf", "and", "or"}]
  /\ Children \in [Nodes -> Seq(Nodes)]
  /\ \A p \in Composites : Children[p] # <<>>
  /\ Root \in Composites
  /\ \A l \in Links : Child(l) # Root
  /\ Modes \subseteq {"once", "continuous"}
  /\ Repeating \subseteq Leaves
  /\ External \subseteq Leaves
  /\ MayCancel \in BOOLEAN
  /\ MaxEvents \in [Leaves -> Nat]

VARIABLES
  mode,       \* the mode given to Run, which never changes
  rootDone,   \* the context given to Run is done
  out,        \* out[n]: what the channel returned by n's run buffers
  outClosed,  \* that channel is closed
  outCount,   \* history: events ever put into it
  subs,       \* subs[n]: the links attached to n's stream
  serving,    \* serving[n]: those dispatch still has to serve, {} in its select
  event,      \* the event dispatch is serving
  ended,      \* the stream's dispatch has finished
  canceled,   \* the stream's context has been canceled
  ch,         \* ch[l]: what the link's channel buffers
  chClosed,   \* that channel is closed
  fwd,        \* fwd[l]: where the link's forwarder is
  held,       \* held[l]: the event it holds
  merged,     \* merged[p]: the messages to p's goroutine
  main,       \* main[p]: where p's goroutine is
  matched,    \* matched[p][i]: SourceIDs kept for child i in this cycle, or {}
  shut,       \* shut[p]: children known to be closed
  runDone     \* runDone[p]: p has canceled its runCtx

nodeVars   == <<out, outClosed, outCount>>
streamVars == <<subs, serving, event, ended, canceled>>
linkVars   == <<ch, chClosed, fwd, held>>
mainVars   == <<merged, main, matched, shut, runDone>>
vars == <<mode, rootDone, nodeVars, streamVars, linkVars, mainVars>>

Streams == Nodes \ {Root}
Events  == (SUBSET Leaves) \ {{}}
Messages == [child : UNION {1..Len(Children[p]) : p \in Composites},
             event : SUBSET Leaves]   \* event {} says closed

TypeOK ==
  /\ mode \in Modes
  /\ rootDone \in BOOLEAN
  /\ out \in [Nodes -> Seq(Events)] /\ \A n \in Nodes : Len(out[n]) <= 1
  /\ outClosed \in [Nodes -> BOOLEAN]
  /\ outCount \in [Nodes -> Nat]
  /\ subs \in [Streams -> SUBSET Links]
  /\ serving \in [Streams -> SUBSET Links]
  /\ event \in [Streams -> SUBSET Leaves]
  /\ ended \in [Streams -> BOOLEAN]
  /\ canceled \in [Streams -> BOOLEAN]
  /\ ch \in [Links -> Seq(Events)] /\ \A l \in Links : Len(ch[l]) <= 1
  /\ chClosed \in [Links -> BOOLEAN]
  /\ fwd \in [Links -> {"read", "event", "closed", "done"}]
  /\ held \in [Links -> SUBSET Leaves]
  /\ merged \in [Composites -> Seq(Messages)]
  /\ \A p \in Composites : Len(merged[p]) <= Len(Children[p])
  /\ main \in [Composites -> {"loop", "emit", "cancel", "unsubscribe", "wait", "done"}]
  /\ DOMAIN matched = Composites
  /\ \A p \in Composites : matched[p] \in [1..Len(Children[p]) -> SUBSET Leaves]
  /\ shut \in [Composites -> SUBSET Nat]
  /\ \A p \in Composites : shut[p] \subseteq 1..Len(Children[p])
  /\ runDone \in [Composites -> BOOLEAN]

NothingMatched(p) == [i \in 1..Len(Children[p]) |-> {}]

Init ==
  /\ mode \in Modes
  /\ rootDone = FALSE
  /\ out = [n \in Nodes |-> <<>>]
  /\ outClosed = [n \in Nodes |-> FALSE]
  /\ outCount = [n \in Nodes |-> 0]
  /\ subs = [n \in Streams |-> {l \in Links : Child(l) = n}]
  /\ serving = [n \in Streams |-> {}]
  /\ event = [n \in Streams |-> {}]
  /\ ended = [n \in Streams |-> FALSE]
  /\ canceled = [n \in Streams |-> FALSE]
  /\ ch = [l \in Links |-> <<>>]
  /\ chClosed = [l \in Links |-> FALSE]
  /\ fwd = [l \in Links |-> "read"]
  /\ held = [l \in Links |-> {}]
  /\ merged = [p \in Composites |-> <<>>]
  /\ main = [p \in Composites |-> "loop"]
  /\ matched = [p \in Composites |-> NothingMatched(p)]
  /\ shut = [p \in Composites |-> {}]
  /\ runDone = [p \in Composites |-> FALSE]

\* Contexts: a stream's derives from that of the run, and so does the context
\* of a composite, through that of the stream it runs in.
StreamDone(n) == rootDone \/ canceled[n]
NodeDone(n)   == IF n = Root THEN rootDone ELSE StreamDone(n)
RunDone(p)    == NodeDone(p) \/ runDone[p]

\* Put an event into the channel of n.
Put(n, sources) ==
  /\ out[n] = <<>>
  /\ out' = [out EXCEPT ![n] = <<sources>>]
  /\ outCount' = [outCount EXCEPT ![n] = @ + 1]

-----------------------------------------------------------------------------
(***************************************************************************)
(* The world: leaves, the caller of Run.                                   *)
(***************************************************************************)

\* fileCondition and signalCondition go on in Continuous mode;
\* durationCondition and dateTimeCondition emit once in either mode.
GoesOn(n) == mode = "continuous" /\ n \in Repeating

LeafEmit(n) ==
  /\ n \in Leaves /\ ~outClosed[n]
  /\ GoesOn(n) \/ outCount[n] = 0
  /\ outCount[n] < MaxEvents[n]
  /\ Put(n, {n})
  /\ UNCHANGED <<mode, rootDone, outClosed, streamVars, linkVars, mainVars>>

\* A leaf closes its channel: after its only event, because its context is
\* done, or, if it is a signal the platform lacks or a condition from outside
\* the package, at any time.
LeafClose(n) ==
  /\ n \in Leaves /\ ~outClosed[n]
  /\ (~GoesOn(n) /\ outCount[n] = 1) \/ StreamDone(n) \/ n \in External
  /\ outClosed' = [outClosed EXCEPT ![n] = TRUE]
  /\ UNCHANGED <<mode, rootDone, out, outCount, streamVars, linkVars, mainVars>>

\* The caller of Run receives an event of the root.
Receive ==
  /\ out[Root] # <<>>
  /\ out' = [out EXCEPT ![Root] = <<>>]
  /\ UNCHANGED <<mode, rootDone, outClosed, outCount, streamVars, linkVars, mainVars>>

CancelRoot ==
  /\ MayCancel /\ ~rootDone
  /\ rootDone' = TRUE
  /\ UNCHANGED <<mode, nodeVars, streamVars, linkVars, mainVars>>

-----------------------------------------------------------------------------
(***************************************************************************)
(* Streams.                                                                *)
(***************************************************************************)

\* dispatch receives an event and copies its subscribers.
TakeEvent(n) ==
  /\ ~ended[n] /\ serving[n] = {}
  /\ out[n] # <<>>
  /\ event' = [event EXCEPT ![n] = Head(out[n])]
  /\ out' = [out EXCEPT ![n] = <<>>]
  /\ serving' = [serving EXCEPT ![n] = subs[n]]
  /\ UNCHANGED <<mode, rootDone, outClosed, outCount, subs, ended, canceled, linkVars,
                 mainVars>>

\* Bug: an event goes to one subscriber, and not to each.
ServeOne(n) ==
  /\ \E l \in serving[n] :
       /\ ch[l] = <<>>
       /\ ch' = [ch EXCEPT ![l] = <<event[n]>>]
       /\ serving' = [serving EXCEPT ![n] = {}]
  /\ UNCHANGED <<mode, rootDone, nodeVars, subs, event, ended, canceled, chClosed, fwd, held,
                 mainVars>>

\* dispatch sends it to one of them, in the order of a Go map: any.
Serve(n) ==
  /\ \E l \in serving[n] :
       /\ ch[l] = <<>>
       /\ ch' = [ch EXCEPT ![l] = <<event[n]>>]
       /\ serving' = [serving EXCEPT ![n] = @ \ {l}]
  /\ UNCHANGED <<mode, rootDone, nodeVars, subs, event, ended, canceled, chClosed, fwd, held,
                 mainVars>>

\* Bug: a stream that loses its last link is left running.
UnsubscribeKeepsStream(L) ==
  /\ subs' = [n \in Streams |-> subs[n] \ L]
  /\ UNCHANGED canceled

\* The links of L leave their streams; one that loses its last is canceled.
Unsubscribe(L) ==
  /\ subs' = [n \in Streams |-> subs[n] \ L]
  /\ canceled' = [n \in Streams |-> canceled[n] \/ (subs[n] # {} /\ subs[n] \subseteq L)]

\* Bug: dispatch waits for a subscriber whose context is done.
DropLinkNever(n) ==
  /\ serving[n] # {} /\ FALSE
  /\ UNCHANGED vars

\* dispatch drops a subscriber whose context is done.
DropLink(n) ==
  /\ \E l \in serving[n] :
       /\ RunDone(l[1])
       /\ Unsubscribe({l})
       /\ serving' = [serving EXCEPT ![n] = @ \ {l}]
  /\ UNCHANGED <<mode, rootDone, nodeVars, event, ended, linkVars, mainVars>>

\* The source is closed and drained, or the context is done: finish.
EndStream(n) ==
  /\ ~ended[n]
  /\ \/ serving[n] = {} /\ out[n] = <<>> /\ outClosed[n]
     \/ StreamDone(n)
  /\ ended' = [ended EXCEPT ![n] = TRUE]
  /\ canceled' = [canceled EXCEPT ![n] = TRUE]
  /\ chClosed' = [l \in Links |-> chClosed[l] \/ l \in subs[n]]
  /\ subs' = [subs EXCEPT ![n] = {}]
  /\ serving' = [serving EXCEPT ![n] = {}]
  /\ UNCHANGED <<mode, rootDone, nodeVars, event, ch, fwd, held, mainVars>>

-----------------------------------------------------------------------------
(***************************************************************************)
(* Forwarders: forwardIndexedChild and forwardOrChild.                     *)
(***************************************************************************)

\* Receive from the child's channel an event, or that it is closed.
ForwardRead(l) ==
  /\ fwd[l] = "read"
  /\ \/ /\ ch[l] # <<>>
        /\ held' = [held EXCEPT ![l] = Head(ch[l])]
        /\ ch' = [ch EXCEPT ![l] = <<>>]
        /\ fwd' = [fwd EXCEPT ![l] = "event"]
     \/ /\ ch[l] = <<>> /\ chClosed[l]
        /\ held' = [held EXCEPT ![l] = {}]
        /\ fwd' = [fwd EXCEPT ![l] = "closed"]
        /\ UNCHANGED ch
  /\ UNCHANGED <<mode, rootDone, nodeVars, streamVars, chClosed, mainVars>>

\* Bug: merged is not bounded.
ForwardSendUnbounded(l) ==
  /\ fwd[l] \in {"event", "closed"}
  /\ merged' = [merged EXCEPT ![l[1]] = Append(@, [child |-> l[2], event |-> held[l]])]
  /\ fwd' = [fwd EXCEPT ![l] = IF fwd[l] = "event" THEN "read" ELSE "done"]
  /\ held' = [held EXCEPT ![l] = {}]
  /\ UNCHANGED <<mode, rootDone, nodeVars, streamVars, ch, chClosed, main, matched, shut, runDone>>

\* Pass it on.
ForwardSend(l) ==
  LET p == l[1]
  IN  /\ fwd[l] \in {"event", "closed"}
      /\ Len(merged[p]) < Len(Children[p])
      /\ merged' = [merged EXCEPT ![p] = Append(@, [child |-> l[2], event |-> held[l]])]
      /\ fwd' = [fwd EXCEPT ![l] = IF fwd[l] = "event" THEN "read" ELSE "done"]
      /\ held' = [held EXCEPT ![l] = {}]
      /\ UNCHANGED <<mode, rootDone, nodeVars, streamVars, ch, chClosed, main, matched, shut, runDone>>

\* Bug: passing a message on does not look at the context.
ForwardStopReading(l) ==
  /\ fwd[l] = "read"
  /\ RunDone(l[1])
  /\ fwd' = [fwd EXCEPT ![l] = "done"]
  /\ UNCHANGED <<mode, rootDone, nodeVars, streamVars, held, ch, chClosed, mainVars>>

\* <-ctx.Done() in any select.
ForwardStop(l) ==
  /\ fwd[l] # "done"
  /\ RunDone(l[1])
  /\ fwd' = [fwd EXCEPT ![l] = "done"]
  /\ held' = [held EXCEPT ![l] = {}]
  /\ UNCHANGED <<mode, rootDone, nodeVars, streamVars, ch, chClosed, mainVars>>

-----------------------------------------------------------------------------
(***************************************************************************)
(* The goroutine of a composite.                                           *)
(***************************************************************************)

AllShut(p, S) == S = 1..Len(Children[p])

\* Bug: one match is enough.
anyMatched(m) == \E i \in DOMAIN m : m[i] # {}

allMatched(m) == \A i \in DOMAIN m : m[i] # {}

\* case child := <-merged of an And.  A child that closes before it has matched
\* ends the And, an event of one that has matched is dropped.
AndReceive(p) ==
  LET message == Head(merged[p])
      i == message.child
  IN  /\ Op[p] = "and" /\ main[p] = "loop" /\ merged[p] # <<>>
      /\ merged' = [merged EXCEPT ![p] = Tail(@)]
      /\ \/ /\ message.event = {}
            /\ shut' = [shut EXCEPT ![p] = @ \cup {i}]
            /\ main' = [main EXCEPT ![p] =
                          IF matched[p][i] = {} \/ AllShut(p, shut'[p]) THEN "cancel" ELSE "loop"]
            /\ UNCHANGED matched
         \/ /\ message.event # {} /\ matched[p][i] # {}
            /\ UNCHANGED <<main, matched, shut>>
         \/ /\ message.event # {} /\ matched[p][i] = {}
            /\ matched' = [matched EXCEPT ![p][i] = message.event]
            /\ main' = [main EXCEPT ![p] = IF allMatched(matched'[p]) THEN "emit" ELSE "loop"]
            /\ UNCHANGED shut
      /\ UNCHANGED <<mode, rootDone, nodeVars, streamVars, linkVars, runDone>>

\* Bug: the end of a child is taken for the end of an Or's forwarder only.
OrReceiveIgnoresClose(p) ==
  LET message == Head(merged[p])
  IN  /\ Op[p] = "or" /\ main[p] = "loop" /\ merged[p] # <<>>
      /\ merged' = [merged EXCEPT ![p] = Tail(@)]
      /\ matched' = [matched EXCEPT ![p][message.child] = message.event]
      /\ main' = [main EXCEPT ![p] = IF message.event # {} THEN "emit" ELSE "loop"]
      /\ UNCHANGED <<mode, rootDone, nodeVars, streamVars, linkVars, shut, runDone>>

\* case message := <-merged of an Or: pass the event on, end with the last child.
OrReceive(p) ==
  LET message == Head(merged[p])
      i == message.child
  IN  /\ Op[p] = "or" /\ main[p] = "loop" /\ merged[p] # <<>>
      /\ merged' = [merged EXCEPT ![p] = Tail(@)]
      /\ \/ /\ message.event = {}
            /\ shut' = [shut EXCEPT ![p] = @ \cup {i}]
            /\ main' = [main EXCEPT ![p] = IF AllShut(p, shut'[p]) THEN "cancel" ELSE "loop"]
            /\ UNCHANGED matched
         \/ /\ message.event # {}
            /\ matched' = [matched EXCEPT ![p][i] = message.event]
            /\ main' = [main EXCEPT ![p] = "emit"]
            /\ UNCHANGED shut
      /\ UNCHANGED <<mode, rootDone, nodeVars, streamVars, linkVars, runDone>>

\* Bug: a new cycle starts with all but the first match of the last.
EmitEventResetsFirst(p) ==
  /\ main[p] = "emit"
  /\ Put(p, UNION {matched[p][i] : i \in 1..Len(Children[p])})
  /\ matched' = [matched EXCEPT ![p][1] = {}]
  /\ main' = [main EXCEPT ![p] =
                IF mode = "once" \/ (Op[p] = "and" /\ shut[p] # {}) THEN "cancel" ELSE "loop"]
  /\ UNCHANGED <<mode, rootDone, outClosed, streamVars, linkVars, merged, shut, runDone>>

\* Bug: an Or goes on after its event in Once mode.
EmitEventGoesOn(p) ==
  /\ main[p] = "emit"
  /\ Put(p, UNION {matched[p][i] : i \in 1..Len(Children[p])})
  /\ matched' = [matched EXCEPT ![p] = NothingMatched(p)]
  /\ main' = [main EXCEPT ![p] = IF Op[p] = "and" THEN "cancel" ELSE "loop"]
  /\ UNCHANGED <<mode, rootDone, outClosed, streamVars, linkVars, merged, shut, runDone>>

\* Bug: an And that has lost a child begins a new cycle.
EmitEventForgetsShut(p) ==
  /\ main[p] = "emit"
  /\ Put(p, UNION {matched[p][i] : i \in 1..Len(Children[p])})
  /\ matched' = [matched EXCEPT ![p] = NothingMatched(p)]
  /\ main' = [main EXCEPT ![p] = IF mode = "once" THEN "cancel" ELSE "loop"]
  /\ UNCHANGED <<mode, rootDone, outClosed, streamVars, linkVars, merged, shut, runDone>>

\* emitEvent(runCtx, events, ...) and what follows it: in Once mode the end, in
\* Continuous mode a new cycle, unless an And has lost a child.
EmitEvent(p) ==
  /\ main[p] = "emit"
  /\ Put(p, UNION {matched[p][i] : i \in 1..Len(Children[p])})
  /\ matched' = [matched EXCEPT ![p] = NothingMatched(p)]
  /\ main' = [main EXCEPT ![p] =
                IF mode = "once" \/ (Op[p] = "and" /\ shut[p] # {}) THEN "cancel" ELSE "loop"]
  /\ UNCHANGED <<mode, rootDone, outClosed, streamVars, linkVars, merged, shut, runDone>>

\* <-runCtx.Done() in either select.
StopMain(p) ==
  /\ main[p] \in {"loop", "emit"}
  /\ RunDone(p)
  /\ main' = [main EXCEPT ![p] = "cancel"]
  /\ UNCHANGED <<mode, rootDone, nodeVars, streamVars, linkVars, merged, matched, shut, runDone>>

\* The deferred function: cancel(), unsubscribe every child, wait for the
\* forwarders; and close(events).
CancelRun(p) ==
  /\ main[p] = "cancel"
  /\ runDone' = [runDone EXCEPT ![p] = TRUE]
  /\ main' = [main EXCEPT ![p] = "unsubscribe"]
  /\ UNCHANGED <<mode, rootDone, nodeVars, streamVars, linkVars, merged, matched, shut>>

UnsubscribeChildren(p) ==
  /\ main[p] = "unsubscribe"
  /\ Unsubscribe(LinksOf(p))
  /\ main' = [main EXCEPT ![p] = "wait"]
  /\ UNCHANGED <<mode, rootDone, nodeVars, serving, event, ended, linkVars, merged, matched, shut,
                 runDone>>

\* Bug: the forwarders are not waited for.
CloseEventsAtOnce(p) ==
  /\ main[p] = "wait"
  /\ outClosed' = [outClosed EXCEPT ![p] = TRUE]
  /\ main' = [main EXCEPT ![p] = "done"]
  /\ merged' = [merged EXCEPT ![p] = <<>>]
  /\ matched' = [matched EXCEPT ![p] = NothingMatched(p)]
  /\ UNCHANGED <<mode, rootDone, out, outCount, streamVars, linkVars, shut, runDone>>

CloseEvents(p) ==
  /\ main[p] = "wait"
  /\ \A l \in LinksOf(p) : fwd[l] = "done"
  /\ outClosed' = [outClosed EXCEPT ![p] = TRUE]
  /\ main' = [main EXCEPT ![p] = "done"]
  /\ merged' = [merged EXCEPT ![p] = <<>>]
  /\ matched' = [matched EXCEPT ![p] = NothingMatched(p)]
  /\ UNCHANGED <<mode, rootDone, out, outCount, streamVars, linkVars, shut, runDone>>

Stream(n) == TakeEvent(n) \/ Serve(n) \/ DropLink(n) \/ EndStream(n)

Forwarder(l) == ForwardRead(l) \/ ForwardSend(l) \/ ForwardStop(l)

Composite(p) ==
  \/ AndReceive(p)
  \/ OrReceive(p)
  \/ EmitEvent(p)
  \/ StopMain(p)
  \/ CancelRun(p)
  \/ UnsubscribeChildren(p)
  \/ CloseEvents(p)

Next ==
  \/ \E n \in Leaves : LeafEmit(n) \/ LeafClose(n)
  \/ Receive
  \/ CancelRoot
  \/ \E n \in Streams : Stream(n)
  \/ \E l \in Links : Forwarder(l)
  \/ \E p \in Composites : Composite(p)

Spec == Init /\ [][Next]_vars

\* Goroutines that can run do run, the caller keeps receiving, and a leaf whose
\* context is done, or that has emitted its only event, closes its channel.
Fairness ==
  /\ WF_vars(Receive)
  /\ \A n \in Leaves :
       WF_vars((StreamDone(n) \/ (~GoesOn(n) /\ outCount[n] = 1)) /\ LeafClose(n))
  /\ \A n \in Streams : WF_vars(Stream(n))
  /\ \A l \in Links : WF_vars(Forwarder(l))
  /\ \A p \in Composites : WF_vars(Composite(p))

FairSpec == Spec /\ Fairness

-----------------------------------------------------------------------------
(***************************************************************************)
(* What a tree promises.                                                   *)
(***************************************************************************)

\* Leaves that have emitted.
Fired == {n \in Leaves : outCount[n] > 0}

\* C is a set of composites that the leaves in S force: with these, it has every
\* And all of whose children are true, and every Or one of whose children is.
Forced(C, S) ==
  \A p \in Composites :
    LET children == {Children[p][i] : i \in 1..Len(Children[p])}
    IN  /\ Op[p] = "and" /\ children \subseteq C \cup S => p \in C
        /\ Op[p] = "or" /\ children \cap (C \cup S) # {} => p \in C

\* The sets of leaves that make condition n, read as a formula, true: n is one
\* of them, or belongs to the least set that they force.
SatisfyingSets(n) ==
  {S \in SUBSET Leaves : \A C \in SUBSET Composites : Forced(C, S) => n \in C \cup S}

\* An event of any condition of the tree is due: its SourceIDs are leaves that
\* have emitted, and enough of them to make the condition true.
EventsAreDue ==
  \A n \in Nodes : \A i \in 1..Len(out[n]) :
    out[n][i] \subseteq Fired /\ out[n][i] \in SatisfyingSets(n)

\* A cycle of an And takes a fresh event of every child, so that no event of a
\* shared leaf is counted twice; in Once mode no condition emits again.
NothingCountedTwice ==
  \A p \in Composites :
    LET counts == {outCount[Children[p][i]] : i \in 1..Len(Children[p])}
    IN  /\ Op[p] = "and" => \A c \in counts : outCount[p] <= c
        /\ mode = "once" => outCount[p] <= 1

\* A goroutine that has closed its channel has left nobody behind: its
\* forwarders have ended and it is subscribed to nothing.
ClosedIsCleanedUp ==
  \A p \in Composites : outClosed[p] =>
    \A l \in LinksOf(p) : fwd[l] = "done" /\ l \notin subs[Child(l)]

\* Seen from its caller a tree is a latched plan: the root emits only when the
\* leaves that have emitted make it true, and then it does, if the run is not
\* canceled and no leaf ends for reasons of its own.
P == INSTANCE LatchedPlan WITH
       Conditions <- Leaves,
       Satisfying <- SatisfyingSets(Root),
       fired <- Fired, published <- outCount[Root] > 0

ImplementsPlan == P!Spec

\* When the run is canceled, in Once mode has emitted, or has closed its channel
\* because it can emit no more, every goroutine of the tree ends: streams,
\* forwarders, composites and leaves.
EverythingEnds ==
  (rootDone \/ outClosed[Root] \/ (mode = "once" /\ outCount[Root] > 0)) ~>
    /\ \A p \in Composites : main[p] = "done"
    /\ \A l \in Links : fwd[l] = "done"
    /\ \A n \in Streams : ended[n] /\ outClosed[n]

\* No stream of the tree is stuck: dispatch gets past each subscriber, one that
\* has gone while its channel was full included.
NothingStuck == \A n \in Streams : (serving[n] # {}) ~> (serving[n] = {})

\* A child from which no event will come to the link any more: it has closed its
\* channel, the events it had emitted are used up, and none is kept for the cycle.
Spent(l) ==
  LET n == Child(l)
      p == l[1]
  IN  /\ outClosed[n] /\ out[n] = <<>> /\ l \notin serving[n]
      /\ ch[l] = <<>> /\ fwd[l] # "event"
      /\ \A k \in 1..Len(merged[p]) : merged[p][k].child = l[2] => merged[p][k].event = {}
      /\ matched[p][l[2]] = {}

\* A composite that can never emit again says so.  An And closes when one child is
\* spent: one that ended before it matched, or one that ended after a match which
\* an earlier cycle has used.  An Or closes when all of them are.
DeadBranchCloses ==
  \A p \in Composites :
    (\/ Op[p] = "and" /\ \E l \in LinksOf(p) : Spent(l)
     \/ Op[p] = "or" /\ \A l \in LinksOf(p) : Spent(l)) ~> outClosed[p]

=============================================================================
