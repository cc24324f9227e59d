----------------------------- MODULE LatchedPlan -----------------------------
(***************************************************************************)
(* What the process relies on when it waits for a tree of conditions: an   *)
(* event of a condition is never forgotten, and once those that have fired *)
(* satisfy the plan the channel that Run returned has an event.  Outage    *)
(* takes its tree from here; ConditionTree shows that goroutines, streams  *)
(* and forwarders amount to this.                                          *)
(***************************************************************************)
CONSTANTS
  Conditions,
  Satisfying  \* the sets of conditions that satisfy the plan

VARIABLES
  fired,     \* the conditions that have fired
  published  \* the root has emitted

planVars == <<fired, published>>

Init == fired = {} /\ published = FALSE

Fire(c) ==
  /\ fired' = fired \cup {c}
  /\ UNCHANGED published

Publish ==
  /\ ~published
  /\ fired \in Satisfying
  /\ published' = TRUE
  /\ UNCHANGED fired

Next == Publish \/ \E c \in Conditions : Fire(c)

\* A plan that is satisfied stays so, and is published in the end.
Promise == fired \in Satisfying ~> published

Spec == Init /\ [][Next]_planVars /\ Promise

=============================================================================
