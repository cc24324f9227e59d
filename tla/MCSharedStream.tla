--------------------------- MODULE MCSharedStream ---------------------------
(***************************************************************************)
(* SharedStream for TLC.                                                   *)
(***************************************************************************)
EXTENDS SharedStream, TLC

\* The subscriptions are interchangeable.
SubscriptionSymmetry == Permutations(Subscriptions)

\* Bound on the executions of the child: one that is being torn down and its
\* successor.
TwoExecutions == Cardinality({s \in Subscriptions : subStream[s] = s}) <= 2

=============================================================================
