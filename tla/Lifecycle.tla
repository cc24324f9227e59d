------------------------------ MODULE Lifecycle ------------------------------
(***************************************************************************)
(* What one monitoring run of outage promises to whoever watches it: the   *)
(* state machine that --describe prints, and the records that reach the    *)
(* event descriptor (newDescription in cmd/outage/describe.go).            *)
(***************************************************************************)
EXTENDS Naturals, Sequences

VARIABLES
  state,    \* the lifecycle state
  records   \* what the event descriptor has received

vars == <<state, records>>

States == {"monitoring", "triggered", "cutoff", "eof", "error"}

\* EventFDEvents, in the order in which they are delivered.
EventFDEvents == <<"condition-triggered", "stream-cutoff">>

\* A record is the name of an event and whether its line is complete.
Records == [event : {"condition-triggered", "stream-cutoff"}, whole : BOOLEAN]

TypeOK ==
  /\ state \in States
  /\ records \in Seq(Records)

Init ==
  /\ state = "monitoring"
  /\ records = <<>>

ConditionTriggered ==
  /\ state = "monitoring"
  /\ state' = "triggered"
  /\ UNCHANGED records

\* Delivery is best effort and never reordered; nothing follows a record that
\* was not delivered or not whole.
Deliver ==
  /\ state = "triggered"
  /\ Len(records) < Len(EventFDEvents)
  /\ \A i \in 1..Len(records) : records[i].whole
  /\ \E whole \in BOOLEAN :
       records' = Append(records, [event |-> EventFDEvents[Len(records) + 1],
                                   whole |-> whole])
  /\ UNCHANGED state

StreamCutoff ==
  /\ state = "triggered"
  /\ state' = "cutoff"
  /\ UNCHANGED records

Eof ==
  /\ state = "monitoring"
  /\ state' = "eof"
  /\ UNCHANGED records

Error ==
  /\ state = "monitoring"
  /\ state' = "error"
  /\ UNCHANGED records

Next == ConditionTriggered \/ Deliver \/ StreamCutoff \/ Eof \/ Error

\* A cutoff does not wait for the descriptor, for stdin or for stdout.
Spec == Init /\ [][Next]_vars /\ WF_vars(StreamCutoff)

-----------------------------------------------------------------------------

\* Records are about a cutoff: none is delivered before the condition, or when
\* the run ended with its input or with an error.
OnlyCutoffsAreRecorded ==
  records # <<>> => state \in {"triggered", "cutoff"}

\* What is delivered is a prefix of the two records in their order, and only
\* the last one may be incomplete.
RecordsInOrder ==
  /\ Len(records) <= 2
  /\ \A i \in 1..Len(records) :
       /\ records[i].event = EventFDEvents[i]
       /\ i < Len(records) => records[i].whole

=============================================================================
