------------------------ MODULE ConditionTreeProofs ------------------------
(***************************************************************************)
(* Proofs about ConditionTree, for trees of any shape: any number of       *)
(* conditions, composites of any width and depth, children shared by any   *)
(* number of parents.                                                      *)
(***************************************************************************)
EXTENDS ConditionTree, FiniteSetTheorems, FunctionTheorems, SequenceTheorems, TLAPS

(***************************************************************************)
(* The inductive invariant.                                                *)
(***************************************************************************)

\* A stream only ever serves its own links, and serves them an event.
OwnLinks ==
  \A n \in Streams :
    /\ \A l \in subs[n] \cup serving[n] : Child(l) = n
    /\ serving[n] # {} => event[n] # {}

\* A message is about a child of its composite; one that says closed is empty.
OwnMessages ==
  /\ \A p \in Composites : \A k \in 1..Len(merged[p]) :
       merged[p][k].child \in 1..Len(Children[p])
  /\ \A l \in Links : fwd[l] = "closed" => held[l] = {}

\* A composite about to emit has what its rule asks for.
ReadyToEmit ==
  \A p \in Composites : main[p] = "emit" =>
    /\ Op[p] = "and" => allMatched(matched[p])
    /\ Op[p] = "or" => \E i \in 1..Len(Children[p]) : matched[p][i] # {}

\* A composite leaves its streams before it waits, and closes after it.
CleanedUp ==
  \A p \in Composites :
    /\ outClosed[p] => main[p] = "done"
    /\ main[p] \in {"wait", "done"} =>
         \A l \in LinksOf(p) : l \notin subs[Child(l)]
    /\ main[p] = "done" => \A l \in LinksOf(p) : fwd[l] = "done"

ShapeInv ==
  /\ OwnLinks
  /\ OwnMessages
  /\ ReadyToEmit
  /\ CleanedUp

\* S is an event that condition n may emit by now.
Due(n, S) == S \subseteq Fired /\ S \in SatisfyingSets(n)

DueServed == \A n \in Streams : serving[n] # {} => Due(n, event[n])

DueSent == \A l \in Links : \A i \in 1..Len(ch[l]) : Due(Child(l), ch[l][i])

DueHeld == \A l \in Links : fwd[l] = "event" => Due(Child(l), held[l])

DueMerged ==
  \A p \in Composites : \A k \in 1..Len(merged[p]) :
    merged[p][k].event # {} => Due(Children[p][merged[p][k].child], merged[p][k].event)

DueMatched ==
  \A p \in Composites : \A i \in 1..Len(Children[p]) :
    matched[p][i] # {} => Due(Children[p][i], matched[p][i])

\* An event is due wherever it is on its way from a condition to the rule of a
\* composite: in the condition's channel, in the hands of dispatch, in the
\* channel of a link, held by a forwarder, in merged, and kept for the cycle.
DueInv ==
  /\ EventsAreDue
  /\ DueServed
  /\ DueSent
  /\ DueHeld
  /\ DueMerged
  /\ DueMatched

\* The events of child number i in a sequence of messages.
EventsOf(i, messages) ==
  {k \in 1..Len(messages) : messages[k].child = i /\ messages[k].event # {}}

Held(condition) == IF condition THEN 1 ELSE 0

\* A link has some of its child's events in hand: in the child's channel, with
\* dispatch, in the link's channel, with its forwarder, in merged, and matched.
InOut(l)     == Len(out[Child(l)])
InServing(l) == Held(l \in serving[Child(l)])
InChannel(l) == Len(ch[l])
InForward(l) == Held(fwd[l] = "event")
InMerged(l)  == Cardinality(EventsOf(l[2], merged[l[1]]))
InMatched(l) == Held(matched[l[1]][l[2]] # {})

UnderWay(l) ==
  InOut(l) + InServing(l) + InChannel(l) + InForward(l) + InMerged(l) + InMatched(l)

\* Each of a child's events is used at most once by each link of an And.
CountInv ==
  /\ \A l \in Links : Op[l[1]] = "and" =>
       outCount[l[1]] + UnderWay(l) <= outCount[Child(l)]
  /\ mode = "once" => \A p \in Composites :
       /\ outCount[p] <= 1
       /\ main[p] \in {"loop", "emit"} => outCount[p] = 0

TreeInv == TypeOK /\ ShapeInv /\ DueInv /\ CountInv

-----------------------------------------------------------------------------
(***************************************************************************)
(* Types and shape.                                                        *)
(***************************************************************************)

\* A link is a composite and the number of one of its children.
LEMMA LinkIsChild ==
  ASSUME NEW l \in Links
  PROVE  /\ l[1] \in Composites
         /\ l[2] \in 1..Len(Children[l[1]])
         /\ l = <<l[1], l[2]>>
         /\ l \in LinksOf(l[1])
         /\ Child(l) = Children[l[1]][l[2]]
         /\ Child(l) \in Streams
<1>1. PICK p \in Composites : \E i \in 1..Len(Children[p]) : l = <<p, i>>
  BY DEF Links
<1>2. PICK i \in 1..Len(Children[p]) : l = <<p, i>>
  BY <1>1
<1>3. Children[p] \in Seq(Nodes)
  BY ConditionTreeAssumption DEF Composites
<1>4. Children[p][i] \in Nodes
  BY <1>3
<1> QED BY <1>2, <1>4, ConditionTreeAssumption DEF LinksOf, Child, Streams

LEMMA ChildHasLink ==
  ASSUME NEW p \in Composites, NEW i \in 1..Len(Children[p])
  PROVE  <<p, i>> \in Links /\ Child(<<p, i>>) = Children[p][i] /\ Children[p][i] \in Streams
<1>1. <<p, i>> \in Links
  BY DEF Links
<1> QED BY <1>1, LinkIsChild DEF Child

\* A composite has children.
LEMMA HasChildren ==
  ASSUME NEW p \in Composites
  PROVE  /\ Children[p] \in Seq(Nodes)
         /\ Len(Children[p]) \in Nat \ {0}
         /\ Op[p] \in {"and", "or"}
         /\ p \in Nodes
<1>1. Children[p] \in Seq(Nodes) /\ Children[p] # <<>>
  BY ConditionTreeAssumption DEF Composites
<1>2. Op[p] \in {"and", "or"}
  BY ConditionTreeAssumption DEF Composites, Leaves
<1> QED BY <1>1, <1>2, EmptySeq DEF Composites

\* What a composite emits is an event.
LEMMA EmittedEvent ==
  ASSUME TypeOK, ShapeInv, NEW p \in Composites, main[p] = "emit"
  PROVE  UNION {matched[p][i] : i \in 1..Len(Children[p])} \in Events
<1>1. matched[p] \in [1..Len(Children[p]) -> SUBSET Leaves]
  BY DEF TypeOK
<1>2. \E i \in 1..Len(Children[p]) : matched[p][i] # {}
  <2>1. CASE Op[p] = "and"
    <3>1. allMatched(matched[p]) /\ 1 \in 1..Len(Children[p])
      BY <2>1, HasChildren DEF ShapeInv, ReadyToEmit
    <3> QED BY <1>1, <3>1 DEF allMatched
  <2>2. CASE Op[p] = "or"
    BY <2>2 DEF ShapeInv, ReadyToEmit
  <2> QED BY <2>1, <2>2, HasChildren
<1> QED BY <1>1, <1>2 DEF Events

\* The message at the head of merged.
LEMMA HeadMessage ==
  ASSUME TypeOK, ShapeInv, NEW p \in Composites, merged[p] # <<>>
  PROVE  /\ Head(merged[p]) \in Messages
         /\ Head(merged[p]) = merged[p][1]
         /\ 1 \in 1..Len(merged[p])
         /\ Head(merged[p]).child \in 1..Len(Children[p])
         /\ Head(merged[p]).event \in SUBSET Leaves
         /\ Tail(merged[p]) \in Seq(Messages)
         /\ Len(Tail(merged[p])) = Len(merged[p]) - 1
         /\ Len(merged[p]) \in Nat
         /\ \A k \in 1..Len(Tail(merged[p])) :
              k + 1 \in 1..Len(merged[p]) /\ Tail(merged[p])[k] = merged[p][k + 1]
<1>1. merged[p] \in Seq(Messages)
  BY DEF TypeOK
<1>2. Len(merged[p]) \in Nat \ {0} /\ 1 \in 1..Len(merged[p])
  BY <1>1, EmptySeq
<1>3. Head(merged[p]) = merged[p][1] /\ Head(merged[p]) \in Messages
  BY <1>1, <1>2, HeadTailProperties
<1>4. Head(merged[p]).child \in 1..Len(Children[p])
  BY <1>2, <1>3 DEF ShapeInv, OwnMessages
<1>5. Head(merged[p]).event \in SUBSET Leaves
  BY <1>3 DEF Messages
<1>6. /\ Tail(merged[p]) \in Seq(Messages)
      /\ Len(Tail(merged[p])) = Len(merged[p]) - 1
      /\ \A k \in 1..Len(Tail(merged[p])) : Tail(merged[p])[k] = merged[p][k + 1]
  BY <1>1, <1>2, HeadTailProperties
<1> QED BY <1>2, <1>3, <1>4, <1>5, <1>6

LEMMA InitType == Init => TypeOK /\ ShapeInv
<1> SUFFICES ASSUME Init PROVE TypeOK /\ ShapeInv
  OBVIOUS
<1>1. /\ out \in [Nodes -> Seq(Events)] /\ \A n \in Nodes : Len(out[n]) <= 1
      /\ ch \in [Links -> Seq(Events)] /\ \A l \in Links : Len(ch[l]) <= 1
  BY DEF Init
<1>2. /\ merged \in [Composites -> Seq(Messages)]
      /\ \A p \in Composites : Len(merged[p]) <= Len(Children[p])
      /\ \A p \in Composites : Len(merged[p]) = 0
  BY HasChildren DEF Init
<1>3. /\ DOMAIN matched = Composites
      /\ shut \in [Composites -> SUBSET Nat]
      /\ \A p \in Composites : matched[p] \in [1..Len(Children[p]) -> SUBSET Leaves]
      /\ \A p \in Composites : shut[p] \subseteq 1..Len(Children[p])
  BY DEF Init, NothingMatched
<1>4. TypeOK
  BY <1>1, <1>2, <1>3 DEF Init, TypeOK
<1>5. OwnLinks /\ OwnMessages
  BY <1>2 DEF Init, OwnLinks, OwnMessages
<1>6. ReadyToEmit /\ CleanedUp
  BY LinkIsChild DEF Init, ReadyToEmit, CleanedUp, LinksOf, Composites
<1> QED BY <1>4, <1>5, <1>6 DEF ShapeInv

\* Channels of one slot stay such when one of them is emptied.
LEMMA Emptied ==
  ASSUME NEW A, NEW E, NEW f \in [A -> Seq(E)], \A x \in A : Len(f[x]) <= 1, NEW a
  PROVE  /\ [f EXCEPT ![a] = <<>>] \in [A -> Seq(E)]
         /\ \A x \in A : Len([f EXCEPT ![a] = <<>>][x]) <= 1
<1> DEFINE g == [f EXCEPT ![a] = <<>>]
<1>1. <<>> \in Seq(E) /\ Len(<<>>) <= 1
  OBVIOUS
<1>2. ASSUME NEW x \in A
      PROVE  g[x] \in Seq(E) /\ Len(g[x]) <= 1
  <2>1. g[x] = <<>> \/ g[x] = f[x]
    OBVIOUS
  <2> HIDE DEF g
  <2> QED BY <1>1, <2>1
<1>3. g = [x \in A |-> g[x]]
  BY Zenon
<1> HIDE DEF g
<1>4. g \in [A -> Seq(E)]
  BY <1>2, <1>3
<1> QED BY <1>2, <1>4 DEF g

\* Every step preserves the types.
LEMMA NextType == TypeOK /\ ShapeInv /\ [Next]_vars => TypeOK'
<1> SUFFICES ASSUME TypeOK, ShapeInv, [Next]_vars
             PROVE  TypeOK'
  OBVIOUS
<1> USE DEF nodeVars, streamVars, linkVars, mainVars
<1>1. CASE UNCHANGED vars
  BY <1>1 DEF TypeOK, vars
<1>2. CASE Receive
  <2>1. /\ out' \in [Nodes -> Seq(Events)]
        /\ \A n \in Nodes : Len(out'[n]) <= 1
    BY <1>2, Emptied DEF TypeOK, Receive
  <2> QED BY <1>2, <2>1 DEF TypeOK, Receive
<1>3. CASE CancelRoot
  BY <1>3 DEF TypeOK, CancelRoot
<1>4. ASSUME NEW n \in Nodes, NEW S \in Events, Put(n, S)
      PROVE  /\ out' \in [Nodes -> Seq(Events)] /\ \A m \in Nodes : Len(out'[m]) <= 1
             /\ outCount' \in [Nodes -> Nat]
  BY <1>4 DEF TypeOK, Put
<1>5. ASSUME NEW n \in Leaves, LeafEmit(n)
      PROVE  TypeOK'
  <2>1. n \in Nodes /\ {n} \in Events /\ Put(n, {n})
    BY <1>5 DEF LeafEmit, Events, Leaves
  <2> QED BY <1>4, <1>5, <2>1 DEF TypeOK, LeafEmit
<1>6. ASSUME NEW n \in Leaves, LeafClose(n)
      PROVE  TypeOK'
  BY <1>6 DEF TypeOK, LeafClose
<1>7. ASSUME NEW n \in Streams, TakeEvent(n)
      PROVE  TypeOK'
  <2>1. out[n] \in Seq(Events) /\ out[n] # <<>>
    BY <1>7 DEF TypeOK, TakeEvent, Streams
  <2>2. Head(out[n]) \in SUBSET Leaves
    BY <2>1, HeadTailProperties DEF Events
  <2>3. /\ out' \in [Nodes -> Seq(Events)]
        /\ \A m \in Nodes : Len(out'[m]) <= 1
    BY <1>7, Emptied DEF TypeOK, TakeEvent
  <2> QED BY <1>7, <2>2, <2>3 DEF TypeOK, TakeEvent
<1>8. ASSUME NEW n \in Streams, Serve(n)
      PROVE  TypeOK'
  <2>1. PICK l \in serving[n] :
          /\ ch' = [ch EXCEPT ![l] = <<event[n]>>]
          /\ serving' = [serving EXCEPT ![n] = @ \ {l}]
    BY <1>8 DEF Serve
  <2>2. event[n] \in Events
    BY <2>1 DEF TypeOK, ShapeInv, OwnLinks, Events
  <2>3. ch' \in [Links -> Seq(Events)] /\ \A x \in Links : Len(ch'[x]) <= 1
    BY <2>1, <2>2 DEF TypeOK
  <2> QED BY <1>8, <2>1, <2>3 DEF TypeOK, Serve
<1>9. ASSUME NEW L, Unsubscribe(L)
      PROVE  subs' \in [Streams -> SUBSET Links] /\ canceled' \in [Streams -> BOOLEAN]
  BY <1>9 DEF TypeOK, Unsubscribe
<1>10. ASSUME NEW n \in Streams, DropLink(n)
       PROVE  TypeOK'
  <2>1. PICK l \in serving[n] :
          /\ Unsubscribe({l})
          /\ serving' = [serving EXCEPT ![n] = @ \ {l}]
    BY <1>10 DEF DropLink
  <2>2. subs' \in [Streams -> SUBSET Links] /\ canceled' \in [Streams -> BOOLEAN]
    BY <1>9, <2>1
  <2> QED BY <1>10, <2>1, <2>2 DEF TypeOK, DropLink
<1>11. ASSUME NEW n \in Streams, EndStream(n)
       PROVE  TypeOK'
  BY <1>11 DEF TypeOK, EndStream
<1>12. ASSUME NEW l \in Links, ForwardRead(l)
       PROVE  TypeOK'
  <2>1. ch[l] \in Seq(Events)
    BY DEF TypeOK
  <2>2. ch[l] # <<>> => Head(ch[l]) \in SUBSET Leaves
    BY <2>1, HeadTailProperties DEF Events
  <2>3. /\ ch' \in [Links -> Seq(Events)]
        /\ \A x \in Links : Len(ch'[x]) <= 1
    <3>1. ch' = ch \/ ch' = [ch EXCEPT ![l] = <<>>]
      BY <1>12 DEF ForwardRead
    <3>2. ch \in [Links -> Seq(Events)] /\ \A x \in Links : Len(ch[x]) <= 1
      BY DEF TypeOK
    <3>3. CASE ch' = [ch EXCEPT ![l] = <<>>]
      BY <3>2, <3>3, Emptied, Zenon
    <3> QED BY <3>1, <3>2, <3>3
  <2>4. held' \in [Links -> SUBSET Leaves]
    BY <1>12, <2>2 DEF TypeOK, ForwardRead
  <2> QED BY <1>12, <2>3, <2>4 DEF TypeOK, ForwardRead
<1>13. ASSUME NEW l \in Links, ForwardSend(l)
       PROVE  TypeOK'
  <2> DEFINE m == [child |-> l[2], event |-> held[l]]
  <2>1. l[1] \in Composites /\ l[2] \in 1..Len(Children[l[1]])
    BY LinkIsChild
  <2>2. m \in Messages
    BY <2>1 DEF Messages, TypeOK
  <2>3. /\ Len(merged[l[1]]) < Len(Children[l[1]])
        /\ merged' = [merged EXCEPT ![l[1]] = Append(@, m)]
    BY <1>13 DEF ForwardSend
  <2> HIDE DEF m
  <2>4. /\ merged' \in [Composites -> Seq(Messages)]
        /\ \A p \in Composites : Len(merged'[p]) <= Len(Children[p])
    <3>1. ASSUME NEW p \in Composites
          PROVE  merged'[p] \in Seq(Messages) /\ Len(merged'[p]) <= Len(Children[p])
      <4>1. /\ merged[p] \in Seq(Messages)
            /\ Len(merged[p]) \in Nat /\ Len(merged[p]) <= Len(Children[p])
        BY DEF TypeOK
      <4>2. /\ Append(merged[p], m) \in Seq(Messages)
            /\ Len(Append(merged[p], m)) = Len(merged[p]) + 1
        BY <2>2, <4>1
      <4>3. CASE p = l[1]
        <5>1. merged'[p] = Append(merged[p], m)
          BY <2>3, <4>3 DEF TypeOK
        <5>2. Len(Children[p]) \in Nat
          BY HasChildren
        <5> QED BY <2>3, <4>1, <4>2, <4>3, <5>1, <5>2
      <4>4. CASE p # l[1]
        <5>1. merged'[p] = merged[p]
          BY <2>1, <2>3, <4>4 DEF TypeOK
        <5> QED BY <4>1, <5>1
      <4> QED BY <4>3, <4>4
    <3> QED BY <2>1, <2>3, <3>1 DEF TypeOK
  <2>5. /\ fwd' \in [Links -> {"read", "event", "closed", "done"}]
        /\ held' \in [Links -> SUBSET Leaves]
    BY <1>13 DEF ForwardSend, TypeOK
  <2>6. UNCHANGED <<mode, rootDone, nodeVars, streamVars, ch, chClosed, main, matched, shut,
                    runDone>>
    BY <1>13 DEF ForwardSend
  <2> QED BY <2>4, <2>5, <2>6 DEF TypeOK
<1>14. ASSUME NEW l \in Links, ForwardStop(l)
       PROVE  TypeOK'
  BY <1>14 DEF TypeOK, ForwardStop
<1>15. ASSUME NEW p \in Composites, merged[p] # <<>>, merged' = [merged EXCEPT ![p] = Tail(@)]
       PROVE  /\ merged' \in [Composites -> Seq(Messages)]
              /\ \A q \in Composites : Len(merged'[q]) <= Len(Children[q])
  <2>1. /\ Tail(merged[p]) \in Seq(Messages)
        /\ Len(Tail(merged[p])) = Len(merged[p]) - 1
        /\ Len(merged[p]) \in Nat
    BY <1>15, HeadMessage
  <2>2. Len(Tail(merged[p])) <= Len(Children[p])
    BY <2>1, HasChildren DEF TypeOK
  <2> QED BY <1>15, <2>1, <2>2 DEF TypeOK
<1>16. ASSUME NEW p \in Composites, AndReceive(p) \/ OrReceive(p)
       PROVE  TypeOK'
  <2> DEFINE i == Head(merged[p]).child
             e == Head(merged[p]).event
  <2>1. /\ merged[p] # <<>>
        /\ merged' = [merged EXCEPT ![p] = Tail(@)]
        /\ shut' = shut \/ shut' = [shut EXCEPT ![p] = @ \cup {i}]
        /\ main' = main \/ \E s \in {"loop", "emit", "cancel"} : main' = [main EXCEPT ![p] = s]
        /\ matched' = matched \/ matched' = [matched EXCEPT ![p][i] = e]
        /\ UNCHANGED <<mode, rootDone, nodeVars, streamVars, linkVars, runDone>>
    BY <1>16 DEF AndReceive, OrReceive
  <2>2. i \in 1..Len(Children[p]) /\ e \in SUBSET Leaves
    BY <2>1, HeadMessage
  <2> HIDE DEF i, e
  <2>3. main' \in [Composites -> {"loop", "emit", "cancel", "unsubscribe", "wait", "done"}]
    BY <2>1 DEF TypeOK
  <2>4. /\ shut' \in [Composites -> SUBSET Nat]
        /\ \A q \in Composites : shut'[q] \subseteq 1..Len(Children[q])
    <3>1. CASE shut' = [shut EXCEPT ![p] = @ \cup {i}]
      <4>1. shut'[p] = shut[p] \cup {i} /\ \A q \in Composites : q # p => shut'[q] = shut[q]
        BY <3>1 DEF TypeOK
      <4> QED BY <2>2, <3>1, <4>1 DEF TypeOK
    <3> QED BY <2>1, <3>1 DEF TypeOK
  <2>5. /\ DOMAIN matched' = Composites
        /\ \A q \in Composites : matched'[q] \in [1..Len(Children[q]) -> SUBSET Leaves]
    <3>1. CASE matched' = [matched EXCEPT ![p][i] = e]
      <4>1. DOMAIN matched' = Composites /\ matched'[p] = [matched[p] EXCEPT ![i] = e]
        BY <3>1 DEF TypeOK
      <4>2. \A q \in Composites : q # p => matched'[q] = matched[q]
        BY <3>1 DEF TypeOK
      <4>3. matched[p] \in [1..Len(Children[p]) -> SUBSET Leaves]
        BY DEF TypeOK
      <4>4. [matched[p] EXCEPT ![i] = e] \in [1..Len(Children[p]) -> SUBSET Leaves]
        BY <2>2, <4>3
      <4> QED BY <4>1, <4>2, <4>4 DEF TypeOK
    <3> QED BY <2>1, <3>1 DEF TypeOK
  <2> QED BY <1>15, <2>1, <2>3, <2>4, <2>5 DEF TypeOK
<1>17. ASSUME NEW p \in Composites, EmitEvent(p)
       PROVE  TypeOK'
  <2>1. p \in Nodes /\ Put(p, UNION {matched[p][i] : i \in 1..Len(Children[p])})
    BY <1>17 DEF EmitEvent, Composites
  <2>2. /\ out' \in [Nodes -> Seq(Events)] /\ \A m \in Nodes : Len(out'[m]) <= 1
        /\ outCount' \in [Nodes -> Nat]
    BY <1>4, <1>17, <2>1, EmittedEvent DEF EmitEvent
  <2>3. matched' = [matched EXCEPT ![p] = NothingMatched(p)]
    BY <1>17 DEF EmitEvent
  <2>4. /\ DOMAIN matched' = Composites
        /\ \A q \in Composites : matched'[q] \in [1..Len(Children[q]) -> SUBSET Leaves]
    BY <2>3 DEF TypeOK, NothingMatched
  <2>5. main' \in [Composites -> {"loop", "emit", "cancel", "unsubscribe", "wait", "done"}]
    BY <1>17 DEF TypeOK, EmitEvent
  <2>6. UNCHANGED <<mode, rootDone, outClosed, streamVars, linkVars, merged, shut, runDone>>
    BY <1>17 DEF EmitEvent
  <2> QED BY <2>2, <2>4, <2>5, <2>6 DEF TypeOK
<1>18. ASSUME NEW p \in Composites, StopMain(p)
       PROVE  TypeOK'
  BY <1>18 DEF TypeOK, StopMain
<1>19. ASSUME NEW p \in Composites, CancelRun(p)
       PROVE  TypeOK'
  BY <1>19 DEF TypeOK, CancelRun
<1>20. ASSUME NEW p \in Composites, UnsubscribeChildren(p)
       PROVE  TypeOK'
  <2>1. subs' \in [Streams -> SUBSET Links] /\ canceled' \in [Streams -> BOOLEAN]
    BY <1>9, <1>20 DEF UnsubscribeChildren
  <2> QED BY <1>20, <2>1 DEF TypeOK, UnsubscribeChildren
<1>21. ASSUME NEW p \in Composites, CloseEvents(p)
       PROVE  TypeOK'
  <2>1. /\ DOMAIN matched' = Composites
        /\ \A q \in Composites : matched'[q] \in [1..Len(Children[q]) -> SUBSET Leaves]
    BY <1>21 DEF TypeOK, NothingMatched, CloseEvents
  <2>2. /\ merged' \in [Composites -> Seq(Messages)]
        /\ \A q \in Composites : Len(merged'[q]) <= Len(Children[q])
    BY <1>21, HasChildren DEF TypeOK, CloseEvents
  <2>3. p \in Nodes
    BY DEF Composites
  <2> QED BY <1>21, <2>1, <2>2, <2>3 DEF TypeOK, CloseEvents
<1> QED
  BY <1>1, <1>2, <1>3, <1>5, <1>6, <1>7, <1>8, <1>10, <1>11, <1>12, <1>13, <1>14, <1>16, <1>17,
     <1>18, <1>19, <1>20, <1>21 DEF Next, Stream, Forwarder, Composite

LEMMA NextOwnLinks == TypeOK /\ OwnLinks /\ [Next]_vars => OwnLinks'
<1> SUFFICES ASSUME TypeOK, OwnLinks, [Next]_vars
             PROVE  OwnLinks'
  OBVIOUS
<1> USE DEF nodeVars, streamVars, linkVars, mainVars
<1>1. ASSUME UNCHANGED <<subs, serving, event>>
      PROVE  OwnLinks'
  BY <1>1 DEF OwnLinks
<1>2. ASSUME NEW L, Unsubscribe(L)
      PROVE  \A n \in Streams : subs'[n] \subseteq subs[n]
  BY <1>2 DEF Unsubscribe
<1>3. ASSUME NEW n \in Streams, TakeEvent(n)
      PROVE  OwnLinks'
  <2>1. Head(out[n]) # {}
    <3>1. out[n] \in Seq(Events) /\ out[n] # <<>>
      BY <1>3 DEF TypeOK, TakeEvent, Streams
    <3> QED BY <3>1, HeadTailProperties DEF Events
  <2> QED BY <1>3, <2>1 DEF TypeOK, OwnLinks, TakeEvent
<1>4. ASSUME NEW n \in Streams, Serve(n)
      PROVE  OwnLinks'
  <2>1. PICK l \in serving[n] : serving' = [serving EXCEPT ![n] = @ \ {l}]
    BY <1>4 DEF Serve
  <2>2. \A m \in Streams : serving'[m] \subseteq serving[m]
    BY <2>1 DEF TypeOK
  <2>3. UNCHANGED <<subs, event>>
    BY <1>4 DEF Serve
  <2> QED BY <2>2, <2>3 DEF OwnLinks
<1>5. ASSUME NEW n \in Streams, DropLink(n)
      PROVE  OwnLinks'
  <2>1. PICK l \in serving[n] :
          /\ Unsubscribe({l})
          /\ serving' = [serving EXCEPT ![n] = @ \ {l}]
    BY <1>5 DEF DropLink
  <2>2. \A m \in Streams : subs'[m] \subseteq subs[m]
    BY <1>2, <2>1
  <2>3. \A m \in Streams : serving'[m] \subseteq serving[m]
    BY <2>1 DEF TypeOK
  <2>4. event' = event
    BY <1>5 DEF DropLink
  <2> QED BY <2>2, <2>3, <2>4 DEF OwnLinks
<1>6. ASSUME NEW n \in Streams, EndStream(n)
      PROVE  OwnLinks'
  BY <1>6 DEF TypeOK, OwnLinks, EndStream
<1>7. ASSUME NEW p \in Composites, UnsubscribeChildren(p)
      PROVE  OwnLinks'
  <2>1. \A m \in Streams : subs'[m] \subseteq subs[m]
    BY <1>2, <1>7 DEF UnsubscribeChildren
  <2>2. UNCHANGED <<serving, event>>
    BY <1>7 DEF UnsubscribeChildren
  <2> QED BY <2>1, <2>2 DEF OwnLinks
<1>8. ASSUME NEW p \in Composites, Composite(p), ~UnsubscribeChildren(p)
      PROVE  OwnLinks'
  BY <1>1, <1>8 DEF Composite, AndReceive, OrReceive, EmitEvent, StopMain, CancelRun, CloseEvents
<1>9. ASSUME NEW l \in Links, Forwarder(l)
      PROVE  OwnLinks'
  BY <1>1, <1>9 DEF Forwarder, ForwardRead, ForwardSend, ForwardStop
<1>10. ASSUME NEW n \in Leaves, LeafEmit(n) \/ LeafClose(n)
       PROVE  OwnLinks'
  BY <1>1, <1>10 DEF LeafEmit, LeafClose
<1>11. CASE Receive \/ CancelRoot \/ UNCHANGED vars
  BY <1>1, <1>11 DEF Receive, CancelRoot, vars
<1> QED BY <1>3, <1>4, <1>5, <1>6, <1>7, <1>8, <1>9, <1>10, <1>11 DEF Next, Stream

LEMMA NextOwnMessages == TypeOK /\ ShapeInv /\ [Next]_vars => OwnMessages'
<1> SUFFICES ASSUME TypeOK, ShapeInv, [Next]_vars
             PROVE  OwnMessages'
  OBVIOUS
<1> USE DEF nodeVars, streamVars, linkVars, mainVars
<1>1. OwnMessages
  BY DEF ShapeInv
<1>2. ASSUME UNCHANGED <<merged, fwd, held>>
      PROVE  OwnMessages'
  BY <1>1, <1>2 DEF OwnMessages
<1>3. ASSUME NEW l \in Links, ForwardRead(l) \/ ForwardStop(l)
      PROVE  OwnMessages'
  <2>1. /\ merged' = merged
        /\ fwd'[l] = "closed" => held'[l] = {}
        /\ \A x \in Links : x # l => fwd'[x] = fwd[x] /\ held'[x] = held[x]
    BY <1>3 DEF ForwardRead, ForwardStop, TypeOK
  <2> QED BY <1>1, <2>1 DEF OwnMessages
<1>4. ASSUME NEW l \in Links, ForwardSend(l)
      PROVE  OwnMessages'
  <2> DEFINE m == [child |-> l[2], event |-> held[l]]
  <2>1. l[1] \in Composites /\ m.child \in 1..Len(Children[l[1]])
    BY LinkIsChild
  <2>2. merged' = [merged EXCEPT ![l[1]] = Append(@, m)]
    BY <1>4 DEF ForwardSend
  <2>3. /\ fwd'[l] # "closed"
        /\ \A x \in Links : x # l => fwd'[x] = fwd[x] /\ held'[x] = held[x]
    BY <1>4 DEF ForwardSend, TypeOK
  <2> HIDE DEF m
  <2>4. ASSUME NEW p \in Composites, NEW k \in 1..Len(merged'[p])
        PROVE  merged'[p][k].child \in 1..Len(Children[p])
    <3>1. CASE p # l[1]
      BY <1>1, <2>2, <2>4, <3>1 DEF OwnMessages, TypeOK
    <3>2. CASE p = l[1]
      <4>1. merged'[p] = Append(merged[p], m) /\ merged[p] \in Seq(Messages)
        BY <2>2, <3>2 DEF TypeOK
      <4>2. k \in 1..Len(merged[p]) \/ (k = Len(merged[p]) + 1)
        BY <2>4, <4>1
      <4>3. merged'[p][k] = m \/ (merged'[p][k] = merged[p][k] /\ k \in 1..Len(merged[p]))
        BY <4>1, <4>2
      <4> QED BY <1>1, <2>1, <3>2, <4>3 DEF OwnMessages
    <3> QED BY <3>1, <3>2
  <2> QED BY <1>1, <2>3, <2>4 DEF OwnMessages
<1>5. ASSUME NEW p \in Composites, AndReceive(p) \/ OrReceive(p)
      PROVE  OwnMessages'
  <2>1. /\ merged[p] # <<>>
        /\ merged' = [merged EXCEPT ![p] = Tail(@)]
        /\ UNCHANGED <<fwd, held>>
    BY <1>5 DEF AndReceive, OrReceive
  <2>2. merged'[p] = Tail(merged[p]) /\ \A q \in Composites : q # p => merged'[q] = merged[q]
    BY <2>1 DEF TypeOK
  <2>3. \A k \in 1..Len(merged'[p]) : /\ merged'[p][k] = merged[p][k + 1]
                                      /\ k + 1 \in 1..Len(merged[p])
    BY <2>1, <2>2, HeadMessage
  <2> QED BY <1>1, <2>1, <2>2, <2>3 DEF OwnMessages
<1>6. ASSUME NEW p \in Composites, CloseEvents(p)
      PROVE  OwnMessages'
  <2>1. merged'[p] = <<>> /\ \A q \in Composites : q # p => merged'[q] = merged[q]
    BY <1>6 DEF CloseEvents, TypeOK
  <2>2. 1..Len(merged'[p]) = {}
    BY <2>1
  <2>3. UNCHANGED <<fwd, held>>
    BY <1>6 DEF CloseEvents
  <2> QED BY <1>1, <2>1, <2>2, <2>3 DEF OwnMessages
<1>7. ASSUME NEW p \in Composites,
             EmitEvent(p) \/ StopMain(p) \/ CancelRun(p) \/ UnsubscribeChildren(p)
      PROVE  OwnMessages'
  BY <1>2, <1>7 DEF EmitEvent, StopMain, CancelRun, UnsubscribeChildren
<1>8. ASSUME NEW n \in Streams, Stream(n)
      PROVE  OwnMessages'
  BY <1>2, <1>8 DEF Stream, TakeEvent, Serve, DropLink, EndStream
<1>9. ASSUME NEW n \in Leaves, LeafEmit(n) \/ LeafClose(n)
       PROVE  OwnMessages'
  BY <1>2, <1>9 DEF LeafEmit, LeafClose
<1>10. CASE Receive \/ CancelRoot \/ UNCHANGED vars
  BY <1>2, <1>10 DEF Receive, CancelRoot, vars
<1> QED BY <1>3, <1>4, <1>5, <1>6, <1>7, <1>8, <1>9, <1>10 DEF Next, Forwarder, Composite

LEMMA NextReadyToEmit == TypeOK /\ ShapeInv /\ [Next]_vars => ReadyToEmit'
<1> SUFFICES ASSUME TypeOK, ShapeInv, [Next]_vars
             PROVE  ReadyToEmit'
  OBVIOUS
<1> USE DEF nodeVars, streamVars, linkVars, mainVars
<1>1. ReadyToEmit
  BY DEF ShapeInv
<1>2. ASSUME UNCHANGED <<main, matched>>
      PROVE  ReadyToEmit'
  BY <1>1, <1>2 DEF ReadyToEmit
<1>3. ASSUME NEW p \in Composites, main'[p] # "emit",
             \A q \in Composites : q # p => main'[q] = main[q] /\ matched'[q] = matched[q]
      PROVE  ReadyToEmit'
  BY <1>1, <1>3 DEF ReadyToEmit
<1>4. ASSUME NEW p \in Composites,
             EmitEvent(p) \/ StopMain(p) \/ CancelRun(p) \/ UnsubscribeChildren(p) \/ CloseEvents(p)
      PROVE  ReadyToEmit'
  BY <1>3, <1>4 DEF EmitEvent, StopMain, CancelRun, UnsubscribeChildren, CloseEvents, TypeOK
<1>5. ASSUME NEW p \in Composites, AndReceive(p)
      PROVE  ReadyToEmit'
  <2>1. \A q \in Composites : q # p => main'[q] = main[q] /\ matched'[q] = matched[q]
    BY <1>5 DEF AndReceive, TypeOK
  <2>2. main'[p] = "emit" => allMatched(matched'[p])
    BY <1>5 DEF AndReceive, TypeOK
  <2>3. Op[p] = "and"
    BY <1>5 DEF AndReceive
  <2> QED BY <1>1, <2>1, <2>2, <2>3 DEF ReadyToEmit
<1>6. ASSUME NEW p \in Composites, OrReceive(p)
      PROVE  ReadyToEmit'
  <2> DEFINE i == Head(merged[p]).child
             e == Head(merged[p]).event
  <2>1. \A q \in Composites : q # p => main'[q] = main[q] /\ matched'[q] = matched[q]
    BY <1>6 DEF OrReceive, TypeOK
  <2>2. i \in 1..Len(Children[p])
    BY <1>6, HeadMessage DEF OrReceive
  <2>3. main'[p] = "emit" => e # {} /\ matched' = [matched EXCEPT ![p][i] = e]
    BY <1>6 DEF OrReceive, TypeOK
  <2>4. Op[p] = "or"
    BY <1>6 DEF OrReceive
  <2> HIDE DEF i, e
  <2>5. main'[p] = "emit" => matched'[p][i] # {}
    BY <2>2, <2>3 DEF TypeOK
  <2> QED BY <1>1, <2>1, <2>2, <2>4, <2>5 DEF ReadyToEmit
<1>7. ASSUME NEW n \in Streams, Stream(n)
      PROVE  ReadyToEmit'
  BY <1>2, <1>7 DEF Stream, TakeEvent, Serve, DropLink, EndStream
<1>8. ASSUME NEW l \in Links, Forwarder(l)
      PROVE  ReadyToEmit'
  BY <1>2, <1>8 DEF Forwarder, ForwardRead, ForwardSend, ForwardStop
<1>9. ASSUME NEW n \in Leaves, LeafEmit(n) \/ LeafClose(n)
       PROVE  ReadyToEmit'
  BY <1>2, <1>9 DEF LeafEmit, LeafClose
<1>10. CASE Receive \/ CancelRoot \/ UNCHANGED vars
  BY <1>2, <1>10 DEF Receive, CancelRoot, vars
<1> QED BY <1>4, <1>5, <1>6, <1>7, <1>8, <1>9, <1>10 DEF Next, Composite

LEMMA NextCleanedUp == TypeOK /\ ShapeInv /\ [Next]_vars => CleanedUp'
<1> SUFFICES ASSUME TypeOK, ShapeInv, [Next]_vars
             PROVE  CleanedUp'
  OBVIOUS
<1> USE DEF nodeVars, streamVars, linkVars, mainVars
<1>1. CleanedUp
  BY DEF ShapeInv
<1>2. \A p \in Composites : \A l \in LinksOf(p) : l \in Links /\ Child(l) \in Streams
  BY LinkIsChild DEF LinksOf
\* Links do not come back, and forwarders that have ended have ended.
<1>3. ASSUME NEW L, Unsubscribe(L)
      PROVE  \A n \in Streams : subs'[n] = subs[n] \ L
  BY <1>3 DEF Unsubscribe
<1>4. ASSUME \A n \in Streams : subs'[n] \subseteq subs[n],
             \A l \in Links : fwd[l] = "done" => fwd'[l] = "done",
             \A p \in Composites :
               /\ outClosed'[p] => outClosed[p]
               /\ main[p] = "done" => main'[p] = "done"
               /\ main'[p] \in {"wait", "done"} => main'[p] = main[p]
      PROVE  CleanedUp'
  <2> SUFFICES ASSUME NEW p \in Composites
               PROVE  /\ outClosed'[p] => main'[p] = "done"
                      /\ main'[p] \in {"wait", "done"} =>
                           \A l \in LinksOf(p) : l \notin subs'[Child(l)]
                      /\ main'[p] = "done" => \A l \in LinksOf(p) : fwd'[l] = "done"
    BY DEF CleanedUp
  <2> QED BY <1>1, <1>2, <1>4 DEF CleanedUp
<1>5. \A p \in Composites : main[p] \notin {"wait", "done"} => ~outClosed[p]
  BY <1>1 DEF CleanedUp
<1>6. ASSUME NEW n \in Streams, Stream(n)
      PROVE  CleanedUp'
  <2>1. \A m \in Streams : subs'[m] \subseteq subs[m]
    <3>1. CASE DropLink(n)
      BY <1>3, <3>1 DEF DropLink
    <3>2. CASE EndStream(n)
      BY <3>2 DEF EndStream, TypeOK
    <3> QED BY <1>6, <3>1, <3>2 DEF Stream, TakeEvent, Serve
  <2>2. UNCHANGED <<outClosed, main, fwd>>
    BY <1>6 DEF Stream, TakeEvent, Serve, DropLink, EndStream
  <2> QED BY <1>4, <2>1, <2>2
<1>7. ASSUME NEW l \in Links, Forwarder(l)
      PROVE  CleanedUp'
  <2>1. UNCHANGED <<subs, outClosed, main>>
    BY <1>7 DEF Forwarder, ForwardRead, ForwardSend, ForwardStop
  <2>2. \A x \in Links : fwd[x] = "done" => fwd'[x] = "done"
    BY <1>7 DEF Forwarder, ForwardRead, ForwardSend, ForwardStop, TypeOK
  <2> QED BY <1>4, <2>1, <2>2
<1>8. ASSUME NEW p \in Composites,
             AndReceive(p) \/ OrReceive(p) \/ EmitEvent(p) \/ StopMain(p) \/ CancelRun(p)
      PROVE  CleanedUp'
  <2>1. UNCHANGED <<subs, fwd, outClosed>>
    BY <1>8 DEF AndReceive, OrReceive, EmitEvent, StopMain, CancelRun
  <2>2. /\ main[p] \notin {"wait", "done"}
        /\ main' = main \/ \E s \in {"loop", "emit", "cancel", "unsubscribe"} :
                             main' = [main EXCEPT ![p] = s]
    BY <1>8 DEF AndReceive, OrReceive, EmitEvent, StopMain, CancelRun
  <2>3. /\ main'[p] = main[p] \/ main'[p] \notin {"wait", "done"}
        /\ \A q \in Composites : q # p => main'[q] = main[q]
    BY <2>2 DEF TypeOK
  <2> QED BY <1>4, <2>1, <2>2, <2>3
<1>9. ASSUME NEW p \in Composites, UnsubscribeChildren(p)
      PROVE  CleanedUp'
  <2>1. /\ main[p] = "unsubscribe" /\ main'[p] = "wait"
        /\ \A q \in Composites : q # p => main'[q] = main[q]
        /\ Unsubscribe(LinksOf(p))
        /\ UNCHANGED <<outClosed, fwd>>
    BY <1>9 DEF UnsubscribeChildren, TypeOK
  <2>2. \A n \in Streams : subs'[n] = subs[n] \ LinksOf(p)
    BY <1>3, <2>1
  <2>3. ASSUME NEW q \in Composites
        PROVE  /\ outClosed'[q] => main'[q] = "done"
               /\ main'[q] \in {"wait", "done"} =>
                    \A l \in LinksOf(q) : l \notin subs'[Child(l)]
               /\ main'[q] = "done" => \A l \in LinksOf(q) : fwd'[l] = "done"
    <3>1. CASE q = p
      BY <1>2, <1>5, <2>1, <2>2, <3>1
    <3>2. CASE q # p
      BY <1>1, <1>2, <2>1, <2>2, <3>2 DEF CleanedUp
    <3> QED BY <3>1, <3>2
  <2> QED BY <2>3 DEF CleanedUp
<1>10. ASSUME NEW p \in Composites, CloseEvents(p)
       PROVE  CleanedUp'
  <2>1. /\ main[p] = "wait" /\ main'[p] = "done"
        /\ \A l \in LinksOf(p) : fwd[l] = "done"
        /\ \A q \in Composites : q # p => main'[q] = main[q] /\ outClosed'[q] = outClosed[q]
        /\ UNCHANGED <<subs, fwd>>
    BY <1>10 DEF CloseEvents, TypeOK, Composites
  <2>2. ASSUME NEW q \in Composites
        PROVE  /\ outClosed'[q] => main'[q] = "done"
               /\ main'[q] \in {"wait", "done"} =>
                    \A l \in LinksOf(q) : l \notin subs'[Child(l)]
               /\ main'[q] = "done" => \A l \in LinksOf(q) : fwd'[l] = "done"
    BY <1>1, <2>1 DEF CleanedUp
  <2> QED BY <2>2 DEF CleanedUp
<1>11. ASSUME NEW n \in Leaves, LeafEmit(n) \/ LeafClose(n)
       PROVE  CleanedUp'
  <2>1. UNCHANGED <<subs, fwd, main>>
    BY <1>11 DEF LeafEmit, LeafClose
  <2>2. \A p \in Composites : outClosed'[p] = outClosed[p]
    BY <1>11 DEF LeafEmit, LeafClose, TypeOK, Composites
  <2> QED BY <1>4, <2>1, <2>2
<1>12. CASE Receive \/ CancelRoot \/ UNCHANGED vars
  BY <1>4, <1>12 DEF Receive, CancelRoot, vars
<1> QED BY <1>6, <1>7, <1>8, <1>9, <1>10, <1>11, <1>12 DEF Next, Composite

\* Every variable of the tree keeps its type, and the goroutines of the tree
\* keep to their own links, messages and rules.
THEOREM TypeAndShape == Spec => [](TypeOK /\ ShapeInv)
<1>1. Init => TypeOK /\ ShapeInv
  BY InitType
<1>2. TypeOK /\ ShapeInv /\ [Next]_vars => (TypeOK /\ ShapeInv)'
  BY NextType, NextOwnLinks, NextOwnMessages, NextReadyToEmit, NextCleanedUp DEF ShapeInv
<1> QED BY <1>1, <1>2, PTL DEF Spec

\* The variables of the tree keep their types.
THEOREM TypeCorrect == Spec => []TypeOK
BY TypeAndShape, PTL

\* A composite that has closed its channel is subscribed to nothing, and its
\* forwarders have ended.
THEOREM ClosedMeansCleanedUp == Spec => []ClosedIsCleanedUp
<1>1. ShapeInv => ClosedIsCleanedUp
  BY DEF ShapeInv, CleanedUp, ClosedIsCleanedUp
<1> QED BY <1>1, TypeAndShape, PTL

-----------------------------------------------------------------------------
(***************************************************************************)
(* Events are due.                                                         *)
(***************************************************************************)

\* The formula of a condition: the rules by which leaves make it true.
LEMMA LeafHolds ==
  ASSUME NEW n \in Leaves
  PROVE  {n} \in SatisfyingSets(n)
BY DEF SatisfyingSets

LEMMA MoreHolds ==
  ASSUME NEW n, NEW S \in SatisfyingSets(n), NEW T \in SUBSET Leaves, S \subseteq T
  PROVE  T \in SatisfyingSets(n)
<1> SUFFICES ASSUME NEW C \in SUBSET Composites, Forced(C, T)
             PROVE  n \in C \cup T
  BY DEF SatisfyingSets
<1>1. Forced(C, S)
  BY DEF Forced
<1> QED BY <1>1 DEF SatisfyingSets

LEMMA AndHolds ==
  ASSUME NEW p \in Composites, Op[p] = "and", NEW S \in SUBSET Leaves,
         \A i \in 1..Len(Children[p]) : S \in SatisfyingSets(Children[p][i])
  PROVE  S \in SatisfyingSets(p)
<1> SUFFICES ASSUME NEW C \in SUBSET Composites, Forced(C, S)
             PROVE  p \in C
  BY DEF SatisfyingSets
<1>1. \A i \in 1..Len(Children[p]) : Children[p][i] \in C \cup S
  BY DEF SatisfyingSets
<1> QED BY <1>1 DEF Forced

LEMMA OrHolds ==
  ASSUME NEW p \in Composites, Op[p] = "or", NEW S \in SUBSET Leaves,
         NEW i \in 1..Len(Children[p]), S \in SatisfyingSets(Children[p][i])
  PROVE  S \in SatisfyingSets(p)
<1> SUFFICES ASSUME NEW C \in SUBSET Composites, Forced(C, S)
             PROVE  p \in C
  BY DEF SatisfyingSets
<1>1. Children[p][i] \in C \cup S
  BY DEF SatisfyingSets
<1> QED BY <1>1 DEF Forced

\* A composite that emits does so because its rule asks for it.
LEMMA EmittedDue ==
  ASSUME TypeOK, ShapeInv, DueMatched, NEW p \in Composites, main[p] = "emit"
  PROVE  Due(p, UNION {matched[p][i] : i \in 1..Len(Children[p])})
<1> DEFINE S == UNION {matched[p][i] : i \in 1..Len(Children[p])}
<1>1. \A i \in 1..Len(Children[p]) :
        /\ matched[p][i] \subseteq S
        /\ matched[p][i] # {} => Due(Children[p][i], matched[p][i])
  BY DEF DueMatched
<1>2. S \in SUBSET Leaves /\ S \subseteq Fired
  <2>1. \A i \in 1..Len(Children[p]) : matched[p][i] \subseteq Fired
    BY DEF DueMatched, Due
  <2> QED BY <2>1 DEF Fired
<1> HIDE DEF S
<1>3. \A i \in 1..Len(Children[p]) : matched[p][i] # {} => S \in SatisfyingSets(Children[p][i])
  BY <1>1, <1>2, MoreHolds DEF Due
<1>4. S \in SatisfyingSets(p)
  <2>1. CASE Op[p] = "and"
    <3>1. \A i \in 1..Len(Children[p]) : matched[p][i] # {}
      BY <2>1 DEF ShapeInv, ReadyToEmit, allMatched, TypeOK
    <3> QED BY <1>2, <1>3, <2>1, <3>1, AndHolds
  <2>2. CASE Op[p] = "or"
    <3>1. PICK i \in 1..Len(Children[p]) : matched[p][i] # {}
      BY <2>2 DEF ShapeInv, ReadyToEmit
    <3> QED BY <1>2, <1>3, <2>2, <3>1, OrHolds
  <2> QED BY <2>1, <2>2, HasChildren
<1> QED BY <1>2, <1>4 DEF Due, S

\* Which steps write which variables.
LEMMA Writers ==
  ASSUME [Next]_vars
  PROVE  /\ \/ UNCHANGED <<out, outCount>>
            \/ Receive
            \/ \E n \in Leaves : LeafEmit(n)
            \/ \E n \in Streams : TakeEvent(n)
            \/ \E p \in Composites : EmitEvent(p)
         /\ \/ UNCHANGED <<serving, event>>
            \/ \E n \in Streams : TakeEvent(n) \/ Serve(n) \/ DropLink(n) \/ EndStream(n)
         /\ \/ UNCHANGED ch
            \/ \E n \in Streams : Serve(n)
            \/ \E l \in Links : ForwardRead(l)
         /\ \/ UNCHANGED <<fwd, held>>
            \/ \E l \in Links : ForwardRead(l) \/ ForwardSend(l) \/ ForwardStop(l)
         /\ \/ UNCHANGED merged
            \/ \E l \in Links : ForwardSend(l)
            \/ \E p \in Composites : AndReceive(p) \/ OrReceive(p) \/ CloseEvents(p)
         /\ \/ UNCHANGED matched
            \/ \E p \in Composites :
                 AndReceive(p) \/ OrReceive(p) \/ EmitEvent(p) \/ CloseEvents(p)
<1> USE DEF nodeVars, streamVars, linkVars, mainVars
<1>1. CASE UNCHANGED vars
  BY <1>1 DEF vars
<1>2. CASE Receive
  BY <1>2 DEF Receive
<1>3. CASE CancelRoot
  BY <1>3 DEF CancelRoot
<1>4. ASSUME NEW n \in Leaves, LeafEmit(n)
      PROVE  UNCHANGED <<streamVars, linkVars, mainVars>>
  BY <1>4 DEF LeafEmit
<1>5. ASSUME NEW n \in Leaves, LeafClose(n)
      PROVE  UNCHANGED <<out, outCount, streamVars, linkVars, mainVars>>
  BY <1>5 DEF LeafClose
<1>6. ASSUME NEW n \in Streams, Stream(n)
      PROVE  /\ UNCHANGED <<fwd, held, mainVars>>
             /\ TakeEvent(n) \/ UNCHANGED <<out, outCount>>
             /\ Serve(n) \/ UNCHANGED ch
  BY <1>6 DEF Stream, TakeEvent, Serve, DropLink, EndStream
<1>7. ASSUME NEW l \in Links, Forwarder(l)
      PROVE  /\ UNCHANGED <<nodeVars, streamVars, matched>>
             /\ ForwardRead(l) \/ UNCHANGED ch
             /\ ForwardSend(l) \/ UNCHANGED merged
  BY <1>7 DEF Forwarder, ForwardRead, ForwardSend, ForwardStop
<1>8. ASSUME NEW p \in Composites, Composite(p)
      PROVE  /\ UNCHANGED <<serving, event, linkVars>>
             /\ EmitEvent(p) \/ UNCHANGED <<out, outCount>>
             /\ AndReceive(p) \/ OrReceive(p) \/ CloseEvents(p) \/ UNCHANGED merged
             /\ AndReceive(p) \/ OrReceive(p) \/ EmitEvent(p) \/ CloseEvents(p) \/ UNCHANGED matched
  BY <1>8 DEF Composite, AndReceive, OrReceive, EmitEvent, StopMain, CancelRun,
              UnsubscribeChildren, CloseEvents
<1>9. CASE \E n \in Leaves : LeafEmit(n) \/ LeafClose(n)
  BY <1>4, <1>5, <1>9
<1>10. CASE \E n \in Streams : Stream(n)
  BY <1>6, <1>10 DEF Stream
<1>11. CASE \E l \in Links : Forwarder(l)
  BY <1>7, <1>11 DEF Forwarder
<1>12. CASE \E p \in Composites : Composite(p)
  BY <1>8, <1>12
<1> QED BY <1>1, <1>2, <1>3, <1>9, <1>10, <1>11, <1>12 DEF Next

\* Putting an event into a channel.
LEMMA PutEvent ==
  ASSUME TypeOK, NEW n \in Nodes, NEW S, Put(n, S)
  PROVE  /\ out[n] = <<>> /\ out'[n] = <<S>>
         /\ outCount'[n] = outCount[n] + 1
         /\ \A m \in Nodes : m # n => out'[m] = out[m] /\ outCount'[m] = outCount[m]
BY DEF Put, TypeOK

\* The counts only grow, and with them the set of leaves that have emitted.
LEMMA NextCount ==
  ASSUME TypeOK, [Next]_vars
  PROVE  /\ \A n \in Nodes : outCount'[n] >= outCount[n]
         /\ Fired \subseteq Fired'
<1>1. ASSUME NEW n \in Nodes, NEW S, Put(n, S)
      PROVE  \A m \in Nodes : outCount'[m] \in Nat /\ outCount'[m] >= outCount[m]
  <2>1. \A m \in Nodes : outCount[m] \in Nat
    BY DEF TypeOK
  <2> QED BY <1>1, <2>1, PutEvent
<1>2. \A m \in Nodes : outCount'[m] \in Nat /\ outCount'[m] >= outCount[m]
  <2>1. ASSUME NEW n \in Leaves, LeafEmit(n)
        PROVE  n \in Nodes /\ Put(n, {n})
    BY <2>1 DEF LeafEmit, Leaves
  <2>2. ASSUME NEW p \in Composites, EmitEvent(p)
        PROVE  p \in Nodes /\ Put(p, UNION {matched[p][i] : i \in 1..Len(Children[p])})
    BY <2>2, HasChildren DEF EmitEvent
  <2>3. CASE UNCHANGED outCount
    BY <2>3 DEF TypeOK
  <2>4. CASE \E n \in Leaves : LeafEmit(n)
    BY <1>1, <2>1, <2>4
  <2>5. CASE \E p \in Composites : EmitEvent(p)
    BY <1>1, <2>2, <2>5
  <2> QED BY <2>3, <2>4, <2>5, Writers DEF Receive, TakeEvent
<1>3. \A n \in Leaves : n \in Nodes /\ outCount[n] \in Nat
  BY DEF Leaves, TypeOK
<1>4. \A n \in Leaves : outCount[n] > 0 => outCount'[n] > 0
  BY <1>2, <1>3
<1> QED BY <1>2, <1>4 DEF Fired

LEMMA NextEventsAreDue == TypeOK /\ ShapeInv /\ DueInv /\ [Next]_vars => EventsAreDue'
<1> SUFFICES ASSUME TypeOK, ShapeInv, DueInv, [Next]_vars
             PROVE  EventsAreDue'
  OBVIOUS
<1>1. Fired \subseteq Fired'
  BY NextCount
<1>2. ASSUME NEW n \in Nodes, NEW S, Due(n, S)', out'[n] = <<S>>,
             \A m \in Nodes : m # n => out'[m] = out[m]
      PROVE  EventsAreDue'
  <2>1. \A i \in 1..Len(out'[n]) : out'[n][i] = S
    BY <1>2
  <2> QED BY <1>1, <1>2, <2>1 DEF DueInv, EventsAreDue, Due
<1>3. ASSUME NEW n \in Nodes, out' = [out EXCEPT ![n] = <<>>]
      PROVE  EventsAreDue'
  <2>1. out'[n] = <<>> /\ \A m \in Nodes : m # n => out'[m] = out[m]
    BY <1>3 DEF TypeOK
  <2>2. 1..Len(out'[n]) = {}
    BY <2>1
  <2> QED BY <1>1, <2>1, <2>2 DEF DueInv, EventsAreDue
<1>4. ASSUME NEW n \in Leaves, LeafEmit(n)
      PROVE  EventsAreDue'
  <2>1. n \in Nodes /\ Put(n, {n})
    BY <1>4 DEF LeafEmit, Leaves
  <2>2. outCount'[n] > 0
    BY <2>1, PutEvent DEF TypeOK
  <2>3. Due(n, {n})'
    BY <2>2, LeafHolds DEF Due, Fired
  <2> QED BY <1>2, <2>1, <2>3, PutEvent
<1>5. ASSUME NEW p \in Composites, EmitEvent(p)
      PROVE  EventsAreDue'
  <2> DEFINE S == UNION {matched[p][i] : i \in 1..Len(Children[p])}
  <2>1. p \in Nodes /\ Put(p, S)
    BY <1>5, HasChildren DEF EmitEvent
  <2>2. Due(p, S)
    BY <1>5, EmittedDue DEF DueInv, EmitEvent
  <2> HIDE DEF S
  <2>3. PICK T : T = S
    OBVIOUS
  <2>4. Due(p, T)'
    BY <1>1, <2>2, <2>3 DEF Due
  <2> QED BY <1>2, <2>1, <2>3, <2>4, PutEvent
<1>6. CASE UNCHANGED out
  BY <1>1, <1>6 DEF DueInv, EventsAreDue
<1>7. CASE Receive \/ \E n \in Streams : TakeEvent(n)
  BY <1>3, <1>7, ConditionTreeAssumption DEF Receive, TakeEvent, Streams, Composites
<1> QED BY <1>4, <1>5, <1>6, <1>7, Writers

LEMMA NextDueServed == TypeOK /\ ShapeInv /\ DueInv /\ [Next]_vars => DueServed'
<1> SUFFICES ASSUME TypeOK, ShapeInv, DueInv, [Next]_vars
             PROVE  DueServed'
  OBVIOUS
<1>1. Fired \subseteq Fired'
  BY NextCount
<1>2. ASSUME NEW n \in Streams, TakeEvent(n)
      PROVE  DueServed'
  <2>1. /\ event'[n] = Head(out[n]) /\ out[n] # <<>> /\ out[n] \in Seq(Events)
        /\ \A m \in Streams : m # n => event'[m] = event[m] /\ serving'[m] = serving[m]
    BY <1>2 DEF TakeEvent, TypeOK, Streams
  <2>2. event'[n] = out[n][1] /\ 1 \in 1..Len(out[n])
    BY <2>1, EmptySeq, HeadTailProperties
  <2>3. event'[n] \subseteq Fired /\ event'[n] \in SatisfyingSets(n)
    BY <2>2 DEF DueInv, EventsAreDue, Streams
  <2> QED BY <1>1, <2>1, <2>3 DEF DueInv, DueServed, Due
<1>3. ASSUME UNCHANGED event, \A n \in Streams : serving'[n] \subseteq serving[n]
      PROVE  DueServed'
  BY <1>1, <1>3 DEF DueInv, DueServed, Due
<1>4. ASSUME NEW n \in Streams, Serve(n) \/ DropLink(n) \/ EndStream(n)
      PROVE  DueServed'
  <2>1. \A m \in Streams : serving'[m] \subseteq serving[m]
    <3>1. CASE Serve(n) \/ DropLink(n)
      <4>1. PICK l \in serving[n] : serving' = [serving EXCEPT ![n] = @ \ {l}]
        BY <3>1 DEF Serve, DropLink
      <4> QED BY <4>1 DEF TypeOK
    <3>2. CASE EndStream(n)
      <4>1. serving' = [serving EXCEPT ![n] = {}]
        BY <3>2 DEF EndStream
      <4> QED BY <4>1 DEF TypeOK
    <3> QED BY <1>4, <3>1, <3>2
  <2>2. UNCHANGED event
    BY <1>4 DEF Serve, DropLink, EndStream
  <2> QED BY <1>3, <2>1, <2>2
<1>5. CASE UNCHANGED <<serving, event>>
  BY <1>3, <1>5
<1> QED BY <1>2, <1>4, <1>5, Writers

LEMMA NextDueSent == TypeOK /\ ShapeInv /\ DueInv /\ [Next]_vars => DueSent'
<1> SUFFICES ASSUME TypeOK, ShapeInv, DueInv, [Next]_vars
             PROVE  DueSent'
  OBVIOUS
<1>1. Fired \subseteq Fired'
  BY NextCount
<1>2. ASSUME NEW n \in Streams, Serve(n)
      PROVE  DueSent'
  <2>1. PICK l \in serving[n] : ch' = [ch EXCEPT ![l] = <<event[n]>>]
    BY <1>2 DEF Serve
  <2>2. l \in Links /\ Child(l) = n /\ Due(n, event[n])
    BY <2>1 DEF TypeOK, ShapeInv, OwnLinks, DueInv, DueServed
  <2>3. ch'[l] = <<event[n]>> /\ \A x \in Links : x # l => ch'[x] = ch[x]
    BY <2>1, <2>2 DEF TypeOK
  <2>4. \A i \in 1..Len(ch'[l]) : ch'[l][i] = event[n]
    <3>1. PICK e : e = event[n]
      OBVIOUS
    <3>2. Len(<<e>>) = 1 /\ <<e>>[1] = e
      OBVIOUS
    <3>3. ch'[l] = <<e>>
      BY <2>3, <3>1
    <3>4. \A i \in 1..Len(<<e>>) : <<e>>[i] = e
      BY <3>2
    <3> QED BY <3>1, <3>3, <3>4
  <2> QED BY <1>1, <2>2, <2>3, <2>4 DEF DueInv, DueSent, Due
<1>3. ASSUME NEW l \in Links, ForwardRead(l)
      PROVE  DueSent'
  <2>1. /\ ch'[l] = <<>> \/ ch'[l] = ch[l]
        /\ \A x \in Links : x # l => ch'[x] = ch[x]
    BY <1>3 DEF ForwardRead, TypeOK
  <2>2. 1..Len(<<>>) = {}
    OBVIOUS
  <2> QED BY <1>1, <2>1, <2>2 DEF DueInv, DueSent, Due
<1>4. CASE UNCHANGED ch
  BY <1>1, <1>4 DEF DueInv, DueSent, Due
<1> QED BY <1>2, <1>3, <1>4, Writers

LEMMA NextDueHeld == TypeOK /\ ShapeInv /\ DueInv /\ [Next]_vars => DueHeld'
<1> SUFFICES ASSUME TypeOK, ShapeInv, DueInv, [Next]_vars
             PROVE  DueHeld'
  OBVIOUS
<1>1. Fired \subseteq Fired'
  BY NextCount
<1>2. ASSUME NEW l \in Links, ForwardRead(l) \/ ForwardSend(l) \/ ForwardStop(l)
      PROVE  DueHeld'
  <2>1. /\ fwd'[l] = "event" => ForwardRead(l) /\ ch[l] # <<>> /\ held'[l] = Head(ch[l])
        /\ \A x \in Links : x # l => fwd'[x] = fwd[x] /\ held'[x] = held[x]
    BY <1>2 DEF ForwardRead, ForwardSend, ForwardStop, TypeOK
  <2>2. ch[l] # <<>> => Head(ch[l]) = ch[l][1] /\ 1 \in 1..Len(ch[l])
    <3>1. ch[l] \in Seq(Events)
      BY DEF TypeOK
    <3> QED BY <3>1, EmptySeq, HeadTailProperties
  <2> QED BY <1>1, <2>1, <2>2 DEF DueInv, DueSent, DueHeld, Due
<1>3. CASE UNCHANGED <<fwd, held>>
  BY <1>1, <1>3 DEF DueInv, DueHeld, Due
<1> QED BY <1>2, <1>3, Writers

\* A message is put behind those that wait.
LEMMA AppendedMessage ==
  ASSUME NEW messages \in Seq(Messages), NEW m \in Messages
  PROVE  /\ Len(messages) \in Nat /\ Len(Append(messages, m)) = Len(messages) + 1
         /\ Append(messages, m)[Len(messages) + 1] = m
         /\ \A k \in 1..Len(messages) : Append(messages, m)[k] = messages[k]
         /\ \A k \in 1..Len(Append(messages, m)) :
              \/ k = Len(messages) + 1 /\ Append(messages, m)[k] = m
              \/ k \in 1..Len(messages) /\ Append(messages, m)[k] = messages[k]
<1>1. /\ Len(messages) \in Nat /\ Len(Append(messages, m)) = Len(messages) + 1
      /\ Append(messages, m)[Len(messages) + 1] = m
      /\ \A k \in 1..Len(messages) : Append(messages, m)[k] = messages[k]
  BY AppendProperties, LenProperties
<1>2. \A k \in 1..(Len(messages) + 1) : k = Len(messages) + 1 \/ k \in 1..Len(messages)
  BY <1>1
<1> QED BY <1>1, <1>2

LEMMA NextDueMerged == TypeOK /\ ShapeInv /\ DueInv /\ [Next]_vars => DueMerged'
<1> SUFFICES ASSUME TypeOK, ShapeInv, DueInv, [Next]_vars
             PROVE  DueMerged'
  OBVIOUS
<1>1. Fired \subseteq Fired'
  BY NextCount
<1>2. ASSUME NEW l \in Links, ForwardSend(l)
      PROVE  DueMerged'
  <2> DEFINE m == [child |-> l[2], event |-> held[l]]
             p == l[1]
  <2>1. p \in Composites /\ Child(l) = Children[p][l[2]]
    BY LinkIsChild
  <2>2. /\ merged' = [merged EXCEPT ![p] = Append(@, m)]
        /\ fwd[l] \in {"event", "closed"}
    BY <1>2 DEF ForwardSend
  <2>3. m.event # {} => Due(Children[p][m.child], m.event)
    BY <2>1, <2>2 DEF ShapeInv, OwnMessages, DueInv, DueHeld
  <2>4. m \in Messages
    <3>1. held[l] \in SUBSET Leaves /\ l[2] \in 1..Len(Children[p])
      BY LinkIsChild DEF TypeOK
    <3> QED BY <2>1, <3>1 DEF Messages
  <2> HIDE DEF m, p
  <2>5. /\ merged'[p] = Append(merged[p], m)
        /\ merged[p] \in Seq(Messages)
        /\ \A q \in Composites : q # p => merged'[q] = merged[q]
    BY <2>1, <2>2 DEF TypeOK
  <2>6. \A k \in 1..Len(merged'[p]) :
          merged'[p][k] = m \/ (k \in 1..Len(merged[p]) /\ merged'[p][k] = merged[p][k])
    BY <2>4, <2>5, AppendedMessage
  <2>7. ASSUME NEW k \in 1..Len(merged'[p]), merged'[p][k].event # {}
        PROVE  Due(Children[p][merged'[p][k].child], merged'[p][k].event)
    BY <2>1, <2>3, <2>6, <2>7 DEF DueInv, DueMerged
  <2> QED BY <1>1, <2>1, <2>5, <2>7 DEF DueInv, DueMerged, Due
<1>3. ASSUME NEW p \in Composites,
             \A k \in 1..Len(merged'[p]) :
               \E j \in 1..Len(merged[p]) : merged'[p][k] = merged[p][j],
             \A q \in Composites : q # p => merged'[q] = merged[q]
      PROVE  DueMerged'
  <2>1. ASSUME NEW k \in 1..Len(merged'[p]), merged'[p][k].event # {}
        PROVE  Due(Children[p][merged'[p][k].child], merged'[p][k].event)
    BY <1>3, <2>1 DEF DueInv, DueMerged
  <2> QED BY <1>1, <1>3, <2>1 DEF DueInv, DueMerged, Due
<1>4. ASSUME NEW p \in Composites, AndReceive(p) \/ OrReceive(p)
      PROVE  DueMerged'
  <2>1. merged[p] # <<>> /\ merged' = [merged EXCEPT ![p] = Tail(@)]
    BY <1>4 DEF AndReceive, OrReceive
  <2>2. merged'[p] = Tail(merged[p]) /\ \A q \in Composites : q # p => merged'[q] = merged[q]
    BY <2>1 DEF TypeOK
  <2> QED BY <1>3, <2>1, <2>2, HeadMessage
<1>5. ASSUME NEW p \in Composites, CloseEvents(p)
      PROVE  DueMerged'
  <2>1. merged'[p] = <<>> /\ \A q \in Composites : q # p => merged'[q] = merged[q]
    BY <1>5 DEF CloseEvents, TypeOK
  <2>2. 1..Len(<<>>) = {}
    OBVIOUS
  <2> QED BY <1>3, <2>1, <2>2
<1>6. CASE UNCHANGED merged
  BY <1>1, <1>6 DEF DueInv, DueMerged, Due
<1> QED BY <1>2, <1>4, <1>5, <1>6, Writers

LEMMA NextDueMatched == TypeOK /\ ShapeInv /\ DueInv /\ [Next]_vars => DueMatched'
<1> SUFFICES ASSUME TypeOK, ShapeInv, DueInv, [Next]_vars
             PROVE  DueMatched'
  OBVIOUS
<1>1. Fired \subseteq Fired'
  BY NextCount
<1>2. ASSUME NEW p \in Composites, EmitEvent(p) \/ CloseEvents(p)
      PROVE  DueMatched'
  <2>1. matched' = [matched EXCEPT ![p] = NothingMatched(p)]
    BY <1>2 DEF EmitEvent, CloseEvents
  <2>2. \A i \in 1..Len(Children[p]) : matched'[p][i] = {}
    BY <2>1 DEF NothingMatched, TypeOK
  <2>3. \A q \in Composites : q # p => matched'[q] = matched[q]
    BY <2>1 DEF TypeOK
  <2> QED BY <1>1, <2>2, <2>3 DEF DueInv, DueMatched, Due
<1>3. ASSUME NEW p \in Composites, AndReceive(p) \/ OrReceive(p)
      PROVE  DueMatched'
  <2> DEFINE i == Head(merged[p]).child
             e == Head(merged[p]).event
  <2>1. /\ merged[p] # <<>>
        /\ \/ matched' = matched
           \/ e # {} /\ matched' = [matched EXCEPT ![p][i] = e]
    BY <1>3 DEF AndReceive, OrReceive
  <2>2. /\ i \in 1..Len(Children[p])
        /\ e # {} => Due(Children[p][i], e)
    BY <2>1, HeadMessage DEF DueInv, DueMerged
  <2> HIDE DEF i, e
  <2>3. CASE matched' = matched
    BY <1>1, <2>3 DEF DueInv, DueMatched, Due
  <2>4. CASE e # {} /\ matched' = [matched EXCEPT ![p][i] = e]
    <3>1. /\ matched'[p][i] = e
          /\ \A j \in 1..Len(Children[p]) : j # i => matched'[p][j] = matched[p][j]
          /\ \A q \in Composites : q # p => matched'[q] = matched[q]
      BY <2>2, <2>4 DEF TypeOK
    <3> QED BY <1>1, <2>2, <2>4, <3>1 DEF DueInv, DueMatched, Due
  <2> QED BY <2>1, <2>3, <2>4
<1>4. CASE UNCHANGED matched
  BY <1>1, <1>4 DEF DueInv, DueMatched, Due
<1> QED BY <1>2, <1>3, <1>4, Writers

LEMMA InitDue == Init => DueInv
<1> SUFFICES ASSUME Init PROVE DueInv
  OBVIOUS
<1>1. 1..Len(<<>>) = {}
  OBVIOUS
<1>2. EventsAreDue /\ DueServed /\ DueSent /\ DueHeld
  BY <1>1 DEF Init, EventsAreDue, DueServed, DueSent, DueHeld
<1>3. DueMerged
  BY <1>1 DEF Init, DueMerged
<1>4. DueMatched
  BY DEF Init, DueMatched, NothingMatched
<1> QED BY <1>2, <1>3, <1>4 DEF DueInv

\* An event is due at every place it passes.
THEOREM DueInvariant == Spec => []DueInv
<1>1. Init => DueInv
  BY InitDue
<1>2. TypeOK /\ ShapeInv /\ DueInv /\ [Next]_vars => DueInv'
  BY NextEventsAreDue, NextDueServed, NextDueSent, NextDueHeld, NextDueMerged, NextDueMatched
     DEF DueInv
<1> QED BY <1>1, <1>2, TypeAndShape, PTL DEF Spec

\* No condition of the tree emits an event that is not due: its SourceIDs are
\* leaves that have emitted, and they make the condition true.
THEOREM EmissionsAreDue == Spec => []EventsAreDue
<1>1. DueInv => EventsAreDue
  BY DEF DueInv
<1> QED BY <1>1, DueInvariant, PTL

-----------------------------------------------------------------------------
(***************************************************************************)
(* Events are counted.                                                     *)
(***************************************************************************)

\* The events of a child in a sequence of messages can be counted.
LEMMA EventsFinite ==
  ASSUME NEW i, NEW messages \in Seq(Messages)
  PROVE  /\ IsFiniteSet(EventsOf(i, messages))
         /\ Cardinality(EventsOf(i, messages)) \in Nat
<1>1. IsFiniteSet(1..Len(messages))
  BY LenProperties, FS_Interval
<1>2. EventsOf(i, messages) \in SUBSET (1..Len(messages))
  BY DEF EventsOf
<1>3. IsFiniteSet(EventsOf(i, messages))
  BY <1>1, <1>2, FS_Subset
<1> QED BY <1>3, FS_CardinalityType

\* A message adds one to the events of its child, if it is an event.
LEMMA EventsAppended ==
  ASSUME NEW i, NEW messages \in Seq(Messages), NEW m \in Messages
  PROVE  Cardinality(EventsOf(i, Append(messages, m))) =
           Cardinality(EventsOf(i, messages)) + Held(m.child = i /\ m.event # {})
<1> DEFINE old  == EventsOf(i, messages)
           new  == EventsOf(i, Append(messages, m))
           last == Len(messages) + 1
<1>1. last \notin old
  BY LenProperties DEF EventsOf
<1>2. IsFiniteSet(old) /\ Cardinality(old) \in Nat
  BY EventsFinite
<1>3. CASE m.child = i /\ m.event # {}
  <2>1. new = old \cup {last}
    BY <1>3, AppendedMessage DEF EventsOf
  <2>2. Held(m.child = i /\ m.event # {}) = 1
    BY <1>3 DEF Held
  <2> HIDE DEF old, new, last
  <2>3. Cardinality(new) = Cardinality(old) + 1
    BY <1>1, <1>2, <2>1, FS_AddElement
  <2> QED BY <2>2, <2>3 DEF old, new
<1>4. CASE ~(m.child = i /\ m.event # {})
  <2>1. new = old
    BY <1>4, AppendedMessage DEF EventsOf
  <2>2. Held(m.child = i /\ m.event # {}) = 0
    BY <1>4 DEF Held
  <2> QED BY <1>2, <2>1, <2>2
<1> QED BY <1>3, <1>4

\* To receive a message takes one from the events of its child, if it is an event.
LEMMA EventsReceived ==
  ASSUME NEW i, NEW messages \in Seq(Messages), messages # <<>>
  PROVE  Cardinality(EventsOf(i, messages)) =
           Cardinality(EventsOf(i, Tail(messages)))
             + Held(messages[1].child = i /\ messages[1].event # {})
<1> DEFINE all  == EventsOf(i, messages)
           rest == EventsOf(i, Tail(messages))
           f    == [k \in rest |-> k + 1]
<1>1. /\ Len(messages) \in Nat \ {0}
      /\ Tail(messages) \in Seq(Messages)
      /\ Len(Tail(messages)) = Len(messages) - 1
      /\ \A k \in 1..Len(Tail(messages)) : Tail(messages)[k] = messages[k + 1]
  BY EmptySeq, HeadTailProperties
<1>2. /\ IsFiniteSet(all) /\ Cardinality(all) \in Nat
      /\ IsFiniteSet(rest) /\ Cardinality(rest) \in Nat
  BY <1>1, EventsFinite
<1>3. \A k \in rest : k \in Nat /\ k + 1 \in all \ {1}
  BY <1>1 DEF EventsOf
<1>4. \A k \in all \ {1} : k - 1 \in rest /\ (k - 1) + 1 = k
  BY <1>1 DEF EventsOf
<1>5. ExistsBijection(rest, all \ {1})
  <2> HIDE DEF all, rest
  <2>1. f \in [rest -> all \ {1}]
    BY <1>3
  <2>2. \A j, k \in rest : f[j] = f[k] => j = k
    BY <1>3
  <2>3. \A k \in all \ {1} : \E j \in rest : f[j] = k
    <3> TAKE k \in all \ {1}
    <3>1. k - 1 \in rest /\ f[k - 1] = k
      BY <1>4
    <3> QED BY <3>1
  <2>4. f \in Bijection(rest, all \ {1})
    BY <2>1, <2>2, <2>3, Fun_IsBij
  <2> QED BY <2>4 DEF ExistsBijection
<1>6. Cardinality(rest) = Cardinality(all \ {1})
  BY <1>2, <1>5, FS_Bijection
<1>7. Cardinality(all \ {1}) = IF 1 \in all THEN Cardinality(all) - 1 ELSE Cardinality(all)
  BY <1>2, FS_RemoveElement
<1>8. 1 \in all <=> messages[1].child = i /\ messages[1].event # {}
  BY <1>1 DEF EventsOf
<1> HIDE DEF all, rest
<1>9. Held(messages[1].child = i /\ messages[1].event # {}) = IF 1 \in all THEN 1 ELSE 0
  BY <1>8 DEF Held
<1> QED BY <1>2, <1>6, <1>7, <1>9 DEF all, rest

\* What a link has in hand is counted in whole events.
LEMMA PartsAreNat ==
  TypeOK => \A l \in Links :
    /\ InOut(l) \in Nat /\ InServing(l) \in Nat /\ InChannel(l) \in Nat
    /\ InForward(l) \in Nat /\ InMerged(l) \in Nat /\ InMatched(l) \in Nat
    /\ outCount[l[1]] \in Nat /\ outCount[Child(l)] \in Nat
<1> SUFFICES ASSUME TypeOK, NEW l \in Links
             PROVE  /\ InOut(l) \in Nat /\ InServing(l) \in Nat /\ InChannel(l) \in Nat
                    /\ InForward(l) \in Nat /\ InMerged(l) \in Nat /\ InMatched(l) \in Nat
                    /\ outCount[l[1]] \in Nat /\ outCount[Child(l)] \in Nat
  OBVIOUS
<1>1. l[1] \in Composites /\ l[1] \in Nodes /\ Child(l) \in Nodes
  BY LinkIsChild DEF Composites, Streams
<1>2. InOut(l) \in Nat /\ InChannel(l) \in Nat
  BY <1>1 DEF TypeOK, InOut, InChannel
<1>3. InServing(l) \in Nat /\ InForward(l) \in Nat /\ InMatched(l) \in Nat
  BY DEF InServing, InForward, InMatched, Held
<1>4. InMerged(l) \in Nat
  <2>1. merged[l[1]] \in Seq(Messages)
    BY <1>1 DEF TypeOK
  <2> QED BY <2>1, EventsFinite DEF InMerged
<1> QED BY <1>1, <1>2, <1>3, <1>4 DEF TypeOK

LEMMA PartsAreNatNext ==
  (TypeOK => \A l \in Links :
    /\ InOut(l) \in Nat /\ InServing(l) \in Nat /\ InChannel(l) \in Nat
    /\ InForward(l) \in Nat /\ InMerged(l) \in Nat /\ InMatched(l) \in Nat
    /\ outCount[l[1]] \in Nat /\ outCount[Child(l)] \in Nat)'
BY PartsAreNat, PTL

\* No step gives a link of an And events that its child has not emitted, or
\* lets the And emit without an event of the link.
LEMMA NextLinkCount ==
  ASSUME TypeOK, ShapeInv, [Next]_vars, TypeOK',
         NEW l \in Links, Op[l[1]] = "and",
         outCount[l[1]] + UnderWay(l) <= outCount[Child(l)]
  PROVE  outCount'[l[1]] + UnderWay(l)' <= outCount'[Child(l)]
<1> DEFINE p == l[1]
           i == l[2]
           n == Child(l)
<1>1. /\ InOut(l) \in Nat /\ InServing(l) \in Nat /\ InChannel(l) \in Nat
      /\ InForward(l) \in Nat /\ InMerged(l) \in Nat /\ InMatched(l) \in Nat
      /\ outCount[p] \in Nat /\ outCount[n] \in Nat
  BY PartsAreNat
<1>2. /\ InOut(l)' \in Nat /\ InServing(l)' \in Nat /\ InChannel(l)' \in Nat
      /\ InForward(l)' \in Nat /\ InMerged(l)' \in Nat /\ InMatched(l)' \in Nat
      /\ outCount'[p] \in Nat /\ outCount'[n] \in Nat
  BY PartsAreNatNext
<1>3. /\ UnderWay(l) = InOut(l) + InServing(l) + InChannel(l) + InForward(l) + InMerged(l)
                         + InMatched(l)
      /\ UnderWay(l)' = InOut(l)' + InServing(l)' + InChannel(l)' + InForward(l)' + InMerged(l)'
                          + InMatched(l)'
  BY DEF UnderWay
<1>4. /\ p \in Composites /\ p \in Nodes /\ i \in 1..Len(Children[p])
      /\ n \in Streams /\ n \in Nodes /\ n # Root
  BY LinkIsChild DEF Composites, Streams
<1>5. outCount[p] + UnderWay(l) <= outCount[n]
  OBVIOUS
<1>6. Op[p] = "and"
  OBVIOUS
<1>7. /\ out'[n] = out[n] => InOut(l)' = InOut(l)
      /\ (l \in serving'[n] => l \in serving[n]) => InServing(l)' <= InServing(l)
      /\ ch'[l] = ch[l] => InChannel(l)' = InChannel(l)
      /\ (fwd'[l] = "event" => fwd[l] = "event") => InForward(l)' <= InForward(l)
      /\ merged'[p] = merged[p] => InMerged(l)' = InMerged(l)
      /\ matched'[p][i] = matched[p][i] => InMatched(l)' = InMatched(l)
  BY DEF InOut, InServing, InChannel, InForward, InMerged, InMatched, Held
<1>8. /\ Op[p] = "and" => Op[p] # "or"
      /\ ~(p \in Leaves)
  BY <1>4 DEF Composites
<1> HIDE DEF p, i, n
<1>9. ASSUME out'[n] = out[n], l \in serving'[n] => l \in serving[n], ch'[l] = ch[l],
             fwd'[l] = "event" => fwd[l] = "event", merged'[p] = merged[p],
             matched'[p][i] = matched[p][i], outCount'[p] = outCount[p],
             outCount'[n] = outCount[n]
      PROVE  outCount'[p] + UnderWay(l)' <= outCount'[n]
  BY <1>1, <1>2, <1>3, <1>5, <1>7, <1>9
<1>10. ASSUME NEW m \in Nodes, NEW S, Put(m, S), m = p => InMatched(l) = 1 /\ InMatched(l)' = 0,
              m # p => matched'[p][i] = matched[p][i],
              UNCHANGED <<streamVars, linkVars, merged>>
       PROVE  outCount'[p] + UnderWay(l)' <= outCount'[n]
  <2>1. /\ InServing(l)' <= InServing(l) /\ InChannel(l)' = InChannel(l)
        /\ InForward(l)' <= InForward(l) /\ InMerged(l)' = InMerged(l)
    BY <1>7, <1>10 DEF streamVars, linkVars
  <2>2. /\ m = n => InOut(l) = 0 /\ InOut(l)' = 1 /\ outCount'[n] = outCount[n] + 1
        /\ m # n => InOut(l)' = InOut(l) /\ outCount'[n] = outCount[n]
    <3>1. /\ out[m] = <<>> /\ out'[m] = <<S>> /\ outCount'[m] = outCount[m] + 1
          /\ \A x \in Nodes : x # m => out'[x] = out[x] /\ outCount'[x] = outCount[x]
      BY <1>10, PutEvent
    <3>2. Len(<<>>) = 0 /\ Len(<<S>>) = 1
      OBVIOUS
    <3> QED BY <1>4, <3>1, <3>2 DEF InOut, n
  <2>3. /\ m = p => outCount'[p] = outCount[p] + 1
        /\ m # p => outCount'[p] = outCount[p]
    BY <1>4, <1>10, PutEvent
  <2>4. m # p => InMatched(l)' = InMatched(l)
    BY <1>7, <1>10
  <2> QED BY <1>1, <1>2, <1>3, <1>5, <1>10, <2>1, <2>2, <2>3, <2>4
<1>11. ASSUME NEW m \in Leaves, LeafEmit(m)
       PROVE  outCount'[p] + UnderWay(l)' <= outCount'[n]
  <2>1. /\ m \in Nodes /\ m # p /\ Put(m, {m})
        /\ UNCHANGED <<streamVars, linkVars, merged, matched>>
    BY <1>8, <1>11 DEF LeafEmit, Leaves, mainVars
  <2> QED BY <1>10, <2>1
<1>12. ASSUME NEW q \in Composites, EmitEvent(q)
       PROVE  outCount'[p] + UnderWay(l)' <= outCount'[n]
  <2>1. PICK S : S = UNION {matched[q][j] : j \in 1..Len(Children[q])}
    OBVIOUS
  <2>2. /\ q \in Nodes /\ Put(q, S) /\ main[q] = "emit"
        /\ matched' = [matched EXCEPT ![q] = NothingMatched(q)]
        /\ UNCHANGED <<streamVars, linkVars, merged>>
    BY <1>12, <2>1, HasChildren DEF EmitEvent
  <2>3. q # p => matched'[p][i] = matched[p][i]
    BY <1>4, <2>2 DEF TypeOK
  <2>4. ASSUME q = p
        PROVE  matched[p][i] # {} /\ matched'[p][i] = {}
    <3>1. matched[p][i] # {}
      BY <1>4, <1>6, <2>2, <2>4 DEF ShapeInv, ReadyToEmit, allMatched, TypeOK
    <3>2. matched'[p] = NothingMatched(p)
      BY <1>4, <2>2, <2>4 DEF TypeOK
    <3> QED BY <1>4, <3>1, <3>2 DEF NothingMatched
  <2>5. q = p => InMatched(l) = 1 /\ InMatched(l)' = 0
    BY <2>4 DEF InMatched, Held, p, i
  <2> QED BY <1>10, <2>2, <2>3, <2>5
<1>13. ASSUME NEW m \in Streams, TakeEvent(m)
       PROVE  outCount'[p] + UnderWay(l)' <= outCount'[n]
  <2>1. /\ out[m] # <<>> /\ serving[m] = {}
        /\ out'[m] = <<>> /\ \A x \in Nodes : x # m => out'[x] = out[x]
        /\ \A x \in Streams : x # m => serving'[x] = serving[x]
        /\ UNCHANGED <<outCount, linkVars, mainVars>>
    BY <1>13 DEF TakeEvent, TypeOK, Streams
  <2>2. CASE m = n
    <3>1. InOut(l) = 1 /\ InOut(l)' = 0
      <4>1. out[n] \in Seq(Events) /\ Len(out[n]) <= 1 /\ out[n] # <<>>
        BY <1>4, <2>1, <2>2 DEF TypeOK
      <4>2. Len(out[n]) \in Nat /\ Len(out[n]) # 0 /\ Len(out[n]) <= 1
        BY <4>1, EmptySeq
      <4>3. Len(out[n]) = 1
        <5>1. \A k \in Nat : k # 0 /\ k <= 1 => k = 1
          OBVIOUS
        <5> QED BY <4>2, <5>1
      <4>4. Len(out'[n]) = 0
        BY <2>1, <2>2
      <4> QED BY <4>3, <4>4 DEF InOut, n
    <3>2. InServing(l) = 0 /\ InServing(l)' <= 1
      BY <2>1, <2>2 DEF InServing, Held, n
    <3>3. /\ InChannel(l)' = InChannel(l) /\ InForward(l)' <= InForward(l)
          /\ InMerged(l)' = InMerged(l) /\ InMatched(l)' = InMatched(l)
          /\ outCount'[p] = outCount[p] /\ outCount'[n] = outCount[n]
      BY <1>7, <2>1 DEF linkVars, mainVars
    <3> QED BY <1>1, <1>2, <1>3, <1>5, <3>1, <3>2, <3>3
  <2>3. CASE m # n
    BY <1>4, <1>9, <2>1, <2>3 DEF linkVars, mainVars
  <2> QED BY <2>2, <2>3
<1>14. ASSUME NEW m \in Streams, Serve(m)
       PROVE  outCount'[p] + UnderWay(l)' <= outCount'[n]
  <2>1. PICK x \in serving[m] :
          /\ ch[x] = <<>>
          /\ ch' = [ch EXCEPT ![x] = <<event[m]>>]
          /\ serving' = [serving EXCEPT ![m] = @ \ {x}]
    BY <1>14 DEF Serve
  <2>2. x \in Links /\ Child(x) = m
    BY <2>1 DEF TypeOK, ShapeInv, OwnLinks
  <2>3. /\ UNCHANGED <<out, outCount, fwd, merged, matched>>
    BY <1>14 DEF Serve, nodeVars, mainVars
  <2>4. CASE x = l
    <3>1. m = n /\ l \in serving[n] /\ l \notin serving'[n]
      BY <1>4, <2>1, <2>2, <2>4 DEF n, TypeOK
    <3>2. InServing(l) = 1 /\ InServing(l)' = 0
      BY <3>1 DEF InServing, Held, n
    <3>3. InChannel(l) = 0 /\ InChannel(l)' = 1
      <4>1. PICK e : e = event[m]
        OBVIOUS
      <4>2. ch[l] = <<>> /\ ch'[l] = <<e>>
        BY <2>1, <2>2, <2>4, <4>1 DEF TypeOK
      <4>3. Len(<<>>) = 0 /\ Len(<<e>>) = 1
        OBVIOUS
      <4> QED BY <4>2, <4>3 DEF InChannel
    <3>4. /\ InOut(l)' = InOut(l) /\ InForward(l)' <= InForward(l)
          /\ InMerged(l)' = InMerged(l) /\ InMatched(l)' = InMatched(l)
          /\ outCount'[p] = outCount[p] /\ outCount'[n] = outCount[n]
      BY <1>7, <2>3
    <3> QED BY <1>1, <1>2, <1>3, <1>5, <3>2, <3>3, <3>4
  <2>5. CASE x # l
    <3>1. ch'[l] = ch[l] /\ (l \in serving'[n] => l \in serving[n])
      BY <1>4, <2>1, <2>2, <2>5 DEF TypeOK
    <3> QED BY <1>9, <2>3, <3>1
  <2> QED BY <2>4, <2>5
<1>15. ASSUME NEW m \in Streams, DropLink(m) \/ EndStream(m)
       PROVE  outCount'[p] + UnderWay(l)' <= outCount'[n]
  <2>1. /\ UNCHANGED <<out, outCount, ch, fwd, merged, matched>>
    BY <1>15 DEF DropLink, EndStream, nodeVars, linkVars, mainVars
  <2>2. l \in serving'[n] => l \in serving[n]
    <3>1. CASE DropLink(m)
      <4>1. PICK x \in serving[m] : serving' = [serving EXCEPT ![m] = @ \ {x}]
        BY <3>1 DEF DropLink
      <4> QED BY <1>4, <4>1 DEF TypeOK
    <3>2. CASE EndStream(m)
      <4>1. serving' = [serving EXCEPT ![m] = {}]
        BY <3>2 DEF EndStream
      <4> QED BY <1>4, <4>1 DEF TypeOK
    <3> QED BY <1>15, <3>1, <3>2
  <2> QED BY <1>9, <2>1, <2>2
<1>16. ASSUME NEW x \in Links, ForwardRead(x)
       PROVE  outCount'[p] + UnderWay(l)' <= outCount'[n]
  <2>1. UNCHANGED <<out, outCount, serving, merged, matched>>
    BY <1>16 DEF ForwardRead, nodeVars, streamVars, mainVars
  <2>2. CASE ch[x] # <<>> /\ ch' = [ch EXCEPT ![x] = <<>>] /\ x = l
    <3>1. InChannel(l) = 1 /\ InChannel(l)' = 0
      <4>1. ch[l] \in Seq(Events) /\ Len(ch[l]) <= 1 /\ ch[l] # <<>> /\ ch'[l] = <<>>
        BY <2>2 DEF TypeOK
      <4>2. Len(ch[l]) \in Nat /\ Len(ch[l]) # 0 /\ Len(ch[l]) <= 1
        BY <4>1, EmptySeq
      <4>3. Len(ch[l]) = 1
        <5>1. \A k \in Nat : k # 0 /\ k <= 1 => k = 1
          OBVIOUS
        <5> QED BY <4>2, <5>1
      <4>4. Len(ch'[l]) = 0
        BY <4>1
      <4> QED BY <4>3, <4>4 DEF InChannel
    <3>2. InForward(l) = 0 /\ InForward(l)' <= 1
      BY <1>16, <2>2 DEF ForwardRead, InForward, Held
    <3>3. /\ InOut(l)' = InOut(l) /\ InServing(l)' <= InServing(l)
          /\ InMerged(l)' = InMerged(l) /\ InMatched(l)' = InMatched(l)
          /\ outCount'[p] = outCount[p] /\ outCount'[n] = outCount[n]
      BY <1>7, <2>1
    <3> QED BY <1>1, <1>2, <1>3, <1>5, <3>1, <3>2, <3>3
  <2>3. CASE ch' = ch /\ fwd' = [fwd EXCEPT ![x] = "closed"]
    <3>1. fwd'[l] = "event" => fwd[l] = "event"
      BY <2>3 DEF TypeOK
    <3> QED BY <1>9, <2>1, <2>3, <3>1
  <2>4. CASE ch' = [ch EXCEPT ![x] = <<>>] /\ fwd' = [fwd EXCEPT ![x] = "event"] /\ x # l
    <3>1. ch'[l] = ch[l] /\ fwd'[l] = fwd[l]
      BY <2>4 DEF TypeOK
    <3> QED BY <1>9, <2>1, <3>1
  <2> QED BY <1>16, <2>2, <2>3, <2>4 DEF ForwardRead
<1>17. ASSUME NEW x \in Links, ForwardSend(x)
       PROVE  outCount'[p] + UnderWay(l)' <= outCount'[n]
  <2> DEFINE m == [child |-> x[2], event |-> held[x]]
  <2>1. UNCHANGED <<out, outCount, serving, ch, matched>>
    BY <1>17 DEF ForwardSend, nodeVars, streamVars
  <2>2. /\ x[1] \in Composites /\ x = <<x[1], x[2]>> /\ l = <<p, i>>
        /\ held[x] \in SUBSET Leaves /\ x[2] \in 1..Len(Children[x[1]])
    BY LinkIsChild DEF p, i, TypeOK
  <2>3. m \in Messages /\ m.child = x[2] /\ m.event = held[x]
    BY <2>2 DEF Messages
  <2>4. /\ fwd[x] \in {"event", "closed"}
        /\ merged' = [merged EXCEPT ![x[1]] = Append(@, m)]
        /\ fwd'[x] # "event" /\ \A y \in Links : y # x => fwd'[y] = fwd[y]
    BY <1>17 DEF ForwardSend, TypeOK
  <2> HIDE DEF m
  <2>5. merged[p] \in Seq(Messages)
    BY <1>4 DEF TypeOK
  <2>6. CASE x = l
    <3>1. merged'[p] = Append(merged[p], m)
      BY <2>2, <2>4, <2>6 DEF TypeOK, p
    <3>2. PICK b : b = Held(m.child = i /\ m.event # {})
      OBVIOUS
    <3>3. InMerged(l)' = InMerged(l) + b
      <4>1. Cardinality(EventsOf(i, Append(merged[p], m))) = Cardinality(EventsOf(i, merged[p])) + b
        BY <2>3, <2>5, <3>2, EventsAppended
      <4> QED BY <3>1, <4>1 DEF InMerged, p, i
    <3>4. b = 1 \/ b = 0
      BY <3>2 DEF Held
    <3>5. b = 1 => InForward(l) = 1
      <4>1. b = 1 => held[l] # {}
        BY <2>3, <2>6, <3>2 DEF Held
      <4> QED BY <2>4, <2>6, <4>1 DEF ShapeInv, OwnMessages, InForward, Held
    <3>6. InForward(l)' = 0
      BY <2>4, <2>6 DEF InForward, Held
    <3>7. /\ InOut(l)' = InOut(l) /\ InServing(l)' <= InServing(l)
          /\ InChannel(l)' = InChannel(l) /\ InMatched(l)' = InMatched(l)
          /\ outCount'[p] = outCount[p] /\ outCount'[n] = outCount[n]
      BY <1>7, <2>1
    <3> QED BY <1>1, <1>2, <1>3, <1>5, <3>3, <3>4, <3>5, <3>6, <3>7
  <2>7. CASE x # l
    <3>1. CASE x[1] # p
      <4>1. merged'[p] = merged[p] /\ fwd'[l] = fwd[l]
        BY <1>4, <2>4, <2>7, <3>1 DEF TypeOK
      <4> QED BY <1>9, <2>1, <4>1
    <3>2. CASE x[1] = p
      <4>1. x[2] # i
        BY <2>2, <2>7, <3>2
      <4>2. merged'[p] = Append(merged[p], m)
        BY <2>2, <2>4, <3>2 DEF TypeOK
      <4>3. Cardinality(EventsOf(i, Append(merged[p], m))) = Cardinality(EventsOf(i, merged[p])) + 0
        BY <2>3, <2>5, <4>1, EventsAppended DEF Held
      <4>4. InMerged(l)' = InMerged(l)
        <5>1. InMerged(l) = Cardinality(EventsOf(i, merged[p]))
          BY DEF InMerged, p, i
        <5>2. InMerged(l)' = Cardinality(EventsOf(i, Append(merged[p], m)))
          BY <4>2 DEF InMerged, p, i
        <5> QED BY <1>1, <4>3, <5>1, <5>2
      <4>5. /\ InOut(l)' = InOut(l) /\ InServing(l)' <= InServing(l)
            /\ InChannel(l)' = InChannel(l) /\ InMatched(l)' = InMatched(l)
            /\ InForward(l)' <= InForward(l)
            /\ outCount'[p] = outCount[p] /\ outCount'[n] = outCount[n]
        BY <1>7, <2>1, <2>4, <2>7
      <4> QED BY <1>1, <1>2, <1>3, <1>5, <4>4, <4>5
    <3> QED BY <3>1, <3>2
  <2> QED BY <2>6, <2>7
<1>18. ASSUME NEW x \in Links, ForwardStop(x)
       PROVE  outCount'[p] + UnderWay(l)' <= outCount'[n]
  <2>1. UNCHANGED <<out, outCount, serving, ch, merged, matched>>
    BY <1>18 DEF ForwardStop, nodeVars, streamVars, mainVars
  <2>2. fwd'[l] = "event" => fwd[l] = "event"
    BY <1>18 DEF ForwardStop, TypeOK
  <2> QED BY <1>9, <2>1, <2>2
<1>19. ASSUME NEW q \in Composites, AndReceive(q)
       PROVE  outCount'[p] + UnderWay(l)' <= outCount'[n]
  <2>1. UNCHANGED <<out, outCount, serving, ch, fwd>>
    BY <1>19 DEF AndReceive, nodeVars, streamVars, linkVars
  <2>2. merged[q] # <<>> /\ merged' = [merged EXCEPT ![q] = Tail(@)]
    BY <1>19 DEF AndReceive
  <2>3. CASE q # p
    <3>1. merged'[p] = merged[p]
      BY <1>4, <2>2, <2>3 DEF TypeOK
    <3>2. matched'[p][i] = matched[p][i]
      BY <1>4, <1>19, <2>3 DEF AndReceive, TypeOK
    <3> QED BY <1>9, <2>1, <3>1, <3>2
  <2>4. CASE q = p
    <3>1. merged[p] \in Seq(Messages) /\ merged'[p] = Tail(merged[p])
      BY <1>4, <2>2, <2>4 DEF TypeOK
    <3>2. PICK b : b = Held(merged[p][1].child = i /\ merged[p][1].event # {})
      OBVIOUS
    <3>3. InMerged(l) = InMerged(l)' + b
      <4>1. Cardinality(EventsOf(i, merged[p])) = Cardinality(EventsOf(i, Tail(merged[p]))) + b
        BY <2>2, <2>4, <3>1, <3>2, EventsReceived
      <4> QED BY <3>1, <4>1 DEF InMerged, p, i
    <3>4. b = 1 \/ b = 0
      BY <3>2 DEF Held
    <3>5. InMatched(l)' <= InMatched(l) + b
      <4> DEFINE c == Head(merged[p]).child
                 e == Head(merged[p]).event
      <4>1. \/ matched' = matched
            \/ e # {} /\ matched' = [matched EXCEPT ![p][c] = e]
        BY <1>19, <2>4 DEF AndReceive
      <4>2. Head(merged[p]) = merged[p][1] /\ c \in 1..Len(Children[p])
        BY <1>4, <2>2, <2>4, HeadMessage
      <4>3. CASE matched'[p][i] = matched[p][i]
        BY <1>1, <1>7, <3>4, <4>3
      <4>4. CASE e # {} /\ c = i
        <5>1. b = 1
          BY <3>2, <4>2, <4>4 DEF Held
        <5>2. InMatched(l)' <= 1
          BY DEF InMatched, Held
        <5> QED BY <1>1, <1>2, <5>1, <5>2
      <4> HIDE DEF c, e
      <4>5. CASE matched' = [matched EXCEPT ![p][c] = e] /\ c # i
        <5>1. matched'[p][i] = matched[p][i]
          BY <1>4, <4>2, <4>5 DEF TypeOK
        <5> QED BY <4>3, <5>1
      <4> QED BY <4>1, <4>3, <4>4, <4>5
    <3>6. /\ InOut(l)' = InOut(l) /\ InServing(l)' <= InServing(l)
          /\ InChannel(l)' = InChannel(l) /\ InForward(l)' <= InForward(l)
          /\ outCount'[p] = outCount[p] /\ outCount'[n] = outCount[n]
      BY <1>7, <2>1
    <3> QED BY <1>1, <1>2, <1>3, <1>5, <3>3, <3>4, <3>5, <3>6
  <2> QED BY <2>3, <2>4
<1>20. ASSUME NEW q \in Composites, OrReceive(q)
       PROVE  outCount'[p] + UnderWay(l)' <= outCount'[n]
  <2>1. UNCHANGED <<out, outCount, serving, ch, fwd>>
    BY <1>20 DEF OrReceive, nodeVars, streamVars, linkVars
  <2>2. q # p /\ merged' = [merged EXCEPT ![q] = Tail(@)]
    BY <1>8, <1>6, <1>20 DEF OrReceive
  <2>3. merged'[p] = merged[p] /\ matched'[p][i] = matched[p][i]
    BY <1>4, <1>20, <2>2 DEF OrReceive, TypeOK
  <2> QED BY <1>9, <2>1, <2>3
<1>21. ASSUME NEW q \in Composites, CloseEvents(q)
       PROVE  outCount'[p] + UnderWay(l)' <= outCount'[n]
  <2>1. UNCHANGED <<out, outCount, serving, ch, fwd>>
    BY <1>21 DEF CloseEvents, streamVars, linkVars
  <2>2. CASE q # p
    BY <1>4, <1>9, <1>21, <2>1, <2>2 DEF CloseEvents, TypeOK
  <2>3. CASE q = p
    <3>1. InMerged(l)' = 0
      <4>1. merged'[p] = <<>>
        BY <1>4, <1>21, <2>3 DEF CloseEvents, TypeOK
      <4>2. EventsOf(i, <<>>) = {}
        BY DEF EventsOf
      <4> QED BY <4>1, <4>2, FS_EmptySet DEF InMerged, p, i
    <3>2. InMatched(l)' = 0
      <4>1. matched'[p] = NothingMatched(p)
        BY <1>4, <1>21, <2>3 DEF CloseEvents, TypeOK
      <4>2. matched'[p][i] = {}
        BY <1>4, <4>1 DEF NothingMatched
      <4> QED BY <4>2 DEF InMatched, Held, p, i
    <3>3. /\ InOut(l)' = InOut(l) /\ InServing(l)' <= InServing(l)
          /\ InChannel(l)' = InChannel(l) /\ InForward(l)' <= InForward(l)
          /\ outCount'[p] = outCount[p] /\ outCount'[n] = outCount[n]
      BY <1>7, <2>1
    <3> QED BY <1>1, <1>2, <1>3, <1>5, <3>1, <3>2, <3>3
  <2> QED BY <2>2, <2>3
<1>22. ASSUME Receive
       PROVE  outCount'[p] + UnderWay(l)' <= outCount'[n]
  <2>1. out'[n] = out[n] /\ UNCHANGED <<outCount, serving, ch, fwd, merged, matched>>
    BY <1>4, <1>22 DEF Receive, TypeOK, streamVars, linkVars, mainVars
  <2>2. (l \in serving'[n] => l \in serving[n]) /\ (fwd'[l] = "event" => fwd[l] = "event")
    BY <2>1
  <2> QED BY <1>9, <2>1, <2>2
<1>23. ASSUME UNCHANGED <<out, outCount, serving, ch, fwd, merged, matched>>
       PROVE  outCount'[p] + UnderWay(l)' <= outCount'[n]
  <2>1. (l \in serving'[n] => l \in serving[n]) /\ (fwd'[l] = "event" => fwd[l] = "event")
    BY <1>23
  <2> QED BY <1>9, <1>23, <2>1
<1>24. outCount'[p] + UnderWay(l)' <= outCount'[n]
  <2>1. CASE \E m \in Leaves : LeafEmit(m)
    BY <1>11, <2>1
  <2>2. CASE \E m \in Streams : TakeEvent(m) \/ Serve(m) \/ DropLink(m) \/ EndStream(m)
    BY <1>13, <1>14, <1>15, <2>2
  <2>3. CASE \E x \in Links : ForwardRead(x) \/ ForwardSend(x) \/ ForwardStop(x)
    BY <1>16, <1>17, <1>18, <2>3
  <2>4. CASE \E q \in Composites :
               AndReceive(q) \/ OrReceive(q) \/ EmitEvent(q) \/ CloseEvents(q)
    BY <1>12, <1>19, <1>20, <1>21, <2>4
  <2>5. \/ UNCHANGED <<out, outCount, serving, ch, fwd, merged, matched>>
        \/ Receive
        \/ \E m \in Leaves : LeafEmit(m)
        \/ \E m \in Streams : TakeEvent(m) \/ Serve(m) \/ DropLink(m) \/ EndStream(m)
        \/ \E x \in Links : ForwardRead(x) \/ ForwardSend(x) \/ ForwardStop(x)
        \/ \E q \in Composites : AndReceive(q) \/ OrReceive(q) \/ EmitEvent(q) \/ CloseEvents(q)
    BY Writers
  <2> QED BY <1>22, <1>23, <2>1, <2>2, <2>3, <2>4, <2>5
<1> QED BY <1>24 DEF p, n

\* In Once mode a composite emits and is done, and its goroutine never returns
\* to its loop.
LEMMA NextOnce ==
  ASSUME TypeOK, [Next]_vars, NEW p \in Composites, mode = "once"
  PROVE  \/ /\ outCount'[p] = outCount[p]
            /\ main'[p] \in {"loop", "emit"} => main[p] \in {"loop", "emit"}
         \/ /\ main[p] = "emit" /\ main'[p] = "cancel"
            /\ outCount'[p] = outCount[p] + 1
<1>1. p \in Nodes /\ p \notin Leaves
  BY DEF Composites
<1>2. ASSUME NEW n \in Leaves, LeafEmit(n)
      PROVE  outCount'[p] = outCount[p] /\ main'[p] = main[p]
  BY <1>1, <1>2, PutEvent DEF LeafEmit, Leaves, mainVars
<1>3. ASSUME NEW n \in Leaves, LeafClose(n)
      PROVE  outCount'[p] = outCount[p] /\ main'[p] = main[p]
  BY <1>3 DEF LeafClose, mainVars
<1>4. CASE Receive \/ CancelRoot \/ UNCHANGED vars
  BY <1>4 DEF Receive, CancelRoot, vars, nodeVars, mainVars
<1>5. ASSUME NEW n \in Streams, Stream(n)
      PROVE  outCount'[p] = outCount[p] /\ main'[p] = main[p]
  BY <1>5 DEF Stream, TakeEvent, Serve, DropLink, EndStream, nodeVars, mainVars
<1>6. ASSUME NEW l \in Links, Forwarder(l)
      PROVE  outCount'[p] = outCount[p] /\ main'[p] = main[p]
  BY <1>6 DEF Forwarder, ForwardRead, ForwardSend, ForwardStop, nodeVars, mainVars
<1>7. ASSUME NEW q \in Composites, EmitEvent(q)
      PROVE  \/ outCount'[p] = outCount[p] /\ main'[p] = main[p]
             \/ /\ main[p] = "emit" /\ main'[p] = "cancel"
                /\ outCount'[p] = outCount[p] + 1
  <2>1. PICK S : S = UNION {matched[q][i] : i \in 1..Len(Children[q])}
    OBVIOUS
  <2>2. /\ q \in Nodes /\ Put(q, S) /\ main[q] = "emit"
        /\ main' = [main EXCEPT ![q] = "cancel"]
    BY <1>7, <2>1, HasChildren DEF EmitEvent
  <2>3. main'[q] = "cancel" /\ (q # p => main'[p] = main[p])
    BY <2>2 DEF TypeOK
  <2>4. CASE q = p
    BY <2>2, <2>3, <2>4, PutEvent
  <2>5. CASE q # p
    BY <1>1, <2>2, <2>3, <2>5, PutEvent
  <2> QED BY <2>4, <2>5
<1>8. ASSUME NEW q \in Composites,
             \/ AndReceive(q) \/ OrReceive(q) \/ StopMain(q)
             \/ CancelRun(q) \/ UnsubscribeChildren(q) \/ CloseEvents(q)
      PROVE  /\ outCount'[p] = outCount[p]
             /\ main'[p] \in {"loop", "emit"} => main[p] \in {"loop", "emit"}
  <2>1. /\ UNCHANGED outCount
        /\ main' = main \/ \E s : /\ main' = [main EXCEPT ![q] = s]
                                  /\ s \in {"loop", "emit"} => main[q] \in {"loop", "emit"}
    BY <1>8 DEF AndReceive, OrReceive, StopMain, CancelRun, UnsubscribeChildren, CloseEvents,
                nodeVars
  <2> QED BY <2>1 DEF TypeOK
<1>9. CASE \E n \in Leaves : LeafEmit(n) \/ LeafClose(n)
  BY <1>2, <1>3, <1>9
<1>10. CASE \E n \in Streams : Stream(n)
  BY <1>5, <1>10
<1>11. CASE \E l \in Links : Forwarder(l)
  BY <1>6, <1>11
<1>12. CASE \E q \in Composites : Composite(q)
  BY <1>7, <1>8, <1>12 DEF Composite
<1> QED BY <1>4, <1>9, <1>10, <1>11, <1>12 DEF Next

LEMMA ModeFixed == ASSUME [Next]_vars PROVE mode' = mode
<1> USE DEF nodeVars, streamVars, linkVars, mainVars
<1>1. ASSUME NEW n \in Leaves, LeafEmit(n) \/ LeafClose(n)
      PROVE  mode' = mode
  BY <1>1 DEF LeafEmit, LeafClose
<1>2. CASE Receive \/ CancelRoot \/ UNCHANGED vars
  BY <1>2 DEF Receive, CancelRoot, vars
<1>3. ASSUME NEW n \in Streams, Stream(n)
      PROVE  mode' = mode
  BY <1>3 DEF Stream, TakeEvent, Serve, DropLink, EndStream
<1>4. ASSUME NEW l \in Links, Forwarder(l)
      PROVE  mode' = mode
  BY <1>4 DEF Forwarder, ForwardRead, ForwardSend, ForwardStop
<1>5. ASSUME NEW p \in Composites, Composite(p)
      PROVE  mode' = mode
  BY <1>5 DEF Composite, AndReceive, OrReceive, EmitEvent, StopMain, CancelRun,
              UnsubscribeChildren, CloseEvents
<1> QED BY <1>1, <1>2, <1>3, <1>4, <1>5 DEF Next

LEMMA InitCount == Init => CountInv
<1> SUFFICES ASSUME Init PROVE CountInv
  OBVIOUS
<1>1. ASSUME NEW l \in Links
      PROVE  outCount[l[1]] + UnderWay(l) <= outCount[Child(l)]
  <2>1. /\ l[1] \in Composites /\ l[1] \in Nodes /\ l[2] \in 1..Len(Children[l[1]])
        /\ Child(l) \in Nodes /\ Child(l) \in Streams
    BY LinkIsChild DEF Composites, Streams
  <2>2. Len(<<>>) = 0
    OBVIOUS
  <2>3. InOut(l) = 0 /\ InChannel(l) = 0
    BY <2>1, <2>2 DEF Init, InOut, InChannel
  <2>4. InServing(l) = 0 /\ InForward(l) = 0
    BY <2>1 DEF Init, InServing, InForward, Held
  <2>5. InMatched(l) = 0
    BY <2>1 DEF Init, InMatched, NothingMatched, Held
  <2>6. InMerged(l) = 0
    <3>1. merged[l[1]] = <<>> /\ EventsOf(l[2], <<>>) = {}
      BY <2>1 DEF Init, EventsOf
    <3> QED BY <3>1, FS_EmptySet DEF InMerged
  <2>7. outCount[l[1]] = 0 /\ outCount[Child(l)] = 0
    BY <2>1 DEF Init
  <2> QED BY <2>3, <2>4, <2>5, <2>6, <2>7 DEF UnderWay
<1>2. \A p \in Composites : outCount[p] = 0
  BY DEF Init, Composites
<1> QED BY <1>1, <1>2 DEF CountInv

LEMMA NextCountInv == TypeOK /\ ShapeInv /\ CountInv /\ [Next]_vars => CountInv'
<1> SUFFICES ASSUME TypeOK, ShapeInv, CountInv, [Next]_vars
             PROVE  CountInv'
  OBVIOUS
<1>1. TypeOK'
  BY NextType
<1>2. \A l \in Links : Op[l[1]] = "and" => outCount'[l[1]] + UnderWay(l)' <= outCount'[Child(l)]
  BY <1>1, NextLinkCount DEF CountInv
<1>3. ASSUME mode' = "once", NEW p \in Composites
      PROVE  /\ outCount'[p] <= 1
             /\ main'[p] \in {"loop", "emit"} => outCount'[p] = 0
  <2>1. mode = "once"
    BY <1>3, ModeFixed
  <2>2. /\ outCount[p] <= 1
        /\ main[p] \in {"loop", "emit"} => outCount[p] = 0
    BY <2>1 DEF CountInv
  <2> QED BY <2>1, <2>2, NextOnce
<1> QED BY <1>2, <1>3 DEF CountInv

\* The events of a child that an And has used, and those its link has in hand,
\* are never more than the child has emitted.
THEOREM CountInvariant == Spec => []CountInv
<1>1. Init => CountInv
  BY InitCount
<1> QED BY <1>1, NextCountInv, TypeAndShape, PTL DEF Spec

\* A cycle of an And takes a fresh event of every child, and in Once mode no
\* condition emits again.
THEOREM EveryEventCountsOnce == Spec => []NothingCountedTwice
<1>1. TypeOK /\ CountInv => NothingCountedTwice
  <2> SUFFICES ASSUME TypeOK, CountInv, NEW p \in Composites
               PROVE  /\ Op[p] = "and" =>
                           \A i \in 1..Len(Children[p]) : outCount[p] <= outCount[Children[p][i]]
                      /\ mode = "once" => outCount[p] <= 1
    BY DEF NothingCountedTwice
  <2>1. ASSUME Op[p] = "and", NEW i \in 1..Len(Children[p])
        PROVE  outCount[p] <= outCount[Children[p][i]]
    <3>1. PICK l \in Links : l = <<p, i>>
      BY ChildHasLink
    <3>2. l[1] = p /\ Child(l) = Children[p][i]
      BY <3>1, ChildHasLink
    <3>3. outCount[p] + UnderWay(l) <= outCount[Children[p][i]]
      BY <2>1, <3>2 DEF CountInv
    <3>4. UnderWay(l) \in Nat
      BY PartsAreNat DEF UnderWay
    <3>5. outCount[p] \in Nat /\ outCount[Children[p][i]] \in Nat
      BY <3>2, PartsAreNat
    <3> QED BY <3>3, <3>4, <3>5
  <2>2. mode = "once" => outCount[p] <= 1
    BY DEF CountInv
  <2> QED BY <2>1, <2>2
<1> QED BY <1>1, TypeCorrect, CountInvariant, PTL

-----------------------------------------------------------------------------
(***************************************************************************)
(* A tree is a latched plan, step by step.                                 *)
(***************************************************************************)

\* An event of a leaf is a condition that fires.
LEMMA LeafFires ==
  ASSUME TypeOK, NEW n \in Leaves, LeafEmit(n)
  PROVE  Fired' = Fired \cup {n} /\ outCount'[Root] = outCount[Root]
<1>1. n \in Nodes /\ Put(n, {n})
  BY DEF LeafEmit, Leaves
<1>2. outCount'[n] > 0 /\ \A m \in Nodes : m # n => outCount'[m] = outCount[m]
  BY <1>1, PutEvent DEF TypeOK
<1>3. Root \in Nodes /\ Root # n
  BY ConditionTreeAssumption DEF Composites
<1> QED BY <1>2, <1>3 DEF Fired, Leaves

\* An event of a composite fires no condition; one of the root publishes the
\* plan, which then the conditions that have fired satisfy.
LEMMA RootPublishes ==
  ASSUME TypeOK, ShapeInv, DueMatched, NEW p \in Composites, EmitEvent(p)
  PROVE  /\ Fired' = Fired
         /\ p # Root => outCount'[Root] = outCount[Root]
         /\ p = Root => outCount'[Root] > 0 /\ Fired \in SatisfyingSets(Root)
<1>1. PICK S : S = UNION {matched[p][i] : i \in 1..Len(Children[p])}
  OBVIOUS
<1>2. p \in Nodes /\ p \notin Leaves /\ main[p] = "emit" /\ Put(p, S)
  BY <1>1 DEF EmitEvent, Composites
<1>3. /\ outCount'[p] = outCount[p] + 1 /\ outCount[p] \in Nat
      /\ \A m \in Nodes : m # p => outCount'[m] = outCount[m]
  BY <1>2, PutEvent DEF TypeOK
<1>4. Fired' = Fired
  BY <1>2, <1>3 DEF Fired, Leaves
<1>5. Root \in Nodes
  BY ConditionTreeAssumption DEF Composites
<1>6. Fired \in SatisfyingSets(p)
  <2>1. S \subseteq Fired /\ S \in SatisfyingSets(p)
    BY <1>1, <1>2, EmittedDue DEF Due
  <2>2. Fired \in SUBSET Leaves
    BY DEF Fired
  <2> QED BY <2>1, <2>2, MoreHolds
<1> QED BY <1>3, <1>4, <1>5, <1>6

\* Every step of the tree is a step of the latched plan, or changes nothing the
\* plan shows.
LEMMA PlanStep ==
  ASSUME TypeOK, ShapeInv, DueMatched, [Next]_vars
  PROVE  [P!Next]_(P!planVars)
<1> USE DEF P!Next, P!planVars, P!Fire, P!Publish
<1>1. ASSUME NEW n \in Leaves, LeafEmit(n)
      PROVE  [P!Next]_(P!planVars)
  BY <1>1, LeafFires
<1>2. ASSUME NEW p \in Composites, EmitEvent(p)
      PROVE  [P!Next]_(P!planVars)
  <2>1. CASE p # Root
    BY <1>2, <2>1, RootPublishes
  <2>2. CASE p = Root /\ outCount[Root] > 0
    BY <1>2, <2>2, RootPublishes
  <2>3. CASE p = Root /\ ~(outCount[Root] > 0)
    BY <1>2, <2>3, RootPublishes
  <2> QED BY <2>1, <2>2, <2>3
<1>3. CASE UNCHANGED outCount
  <2>1. UNCHANGED Fired
    BY <1>3 DEF Fired
  <2> QED BY <1>3, <2>1
<1> QED BY <1>1, <1>2, <1>3, Writers DEF Receive, TakeEvent

\* A tree of conditions starts as a latched plan and takes only its steps: the
\* root emits when leaves that have emitted make it true, and not before.
THEOREM TakesStepsOfLatchedPlan == Spec => P!Init /\ [][P!Next]_(P!planVars)
<1>1. Init => P!Init
  <2> SUFFICES ASSUME Init PROVE P!Init
    OBVIOUS
  <2>1. \A n \in Nodes : outCount[n] = 0
    BY DEF Init
  <2>2. Root \in Nodes
    BY ConditionTreeAssumption DEF Composites
  <2> QED BY <2>1, <2>2 DEF P!Init, Fired, Leaves
<1>2. TypeOK /\ ShapeInv /\ DueInv /\ [Next]_vars => [P!Next]_(P!planVars)
  BY PlanStep DEF DueInv
<1> QED BY <1>1, <1>2, TypeAndShape, DueInvariant, PTL DEF Spec

=============================================================================
