-------------------------------- MODULE Leaf --------------------------------
(***************************************************************************)
(* What package condition promises of the channel that the run of a leaf   *)
(* returns: buffered events, one at a time, more than one only if the leaf *)
(* goes on, and a close that follows the last event or a canceled context. *)
(* ConditionTree builds its trees on leaves of this kind (LeafEmit and     *)
(* LeafClose there); module Monitors shows that each monitor is one.       *)
(***************************************************************************)
EXTENDS Naturals

VARIABLES
  goesOn,    \* it may emit again: Continuous mode, and a source that repeats
  external,  \* it may close for a reason of its own
  done,      \* its context is done
  buffered,  \* events in its channel
  emitted,   \* history: events ever put there
  closed     \* its channel is closed

leafVars == <<goesOn, external, done, buffered, emitted, closed>>

Init ==
  /\ goesOn \in BOOLEAN /\ external \in BOOLEAN
  /\ ~done /\ ~closed
  /\ buffered = 0 /\ emitted = 0

\* The context is canceled.
Cancel ==
  /\ done' = TRUE
  /\ UNCHANGED <<goesOn, external, buffered, emitted, closed>>

\* The reader of the channel takes an event, also after the close.
Receive ==
  /\ buffered = 1
  /\ buffered' = 0
  /\ UNCHANGED <<goesOn, external, done, emitted, closed>>

Emit ==
  /\ ~closed /\ buffered = 0
  /\ goesOn \/ emitted = 0
  /\ buffered' = 1
  /\ emitted' = emitted + 1
  /\ UNCHANGED <<goesOn, external, done, closed>>

\* Nothing more will be emitted.
Over == done \/ (~goesOn /\ emitted = 1)

Close ==
  /\ ~closed
  /\ Over \/ external
  /\ closed' = TRUE
  /\ UNCHANGED <<goesOn, external, done, buffered, emitted>>

Next == Cancel \/ Receive \/ Emit \/ Close

\* A leaf that is over closes its channel.
Spec == Init /\ [][Next]_leafVars /\ WF_leafVars(Over /\ Close)

=============================================================================
