--------------------------- MODULE MCConditionTree ---------------------------
(***************************************************************************)
(* ConditionTree for TLC: small trees.                                     *)
(***************************************************************************)
EXTENDS ConditionTree, TLC

CONSTANTS root, inner, a, b

\* The tree of: outage 'a && b'.
PairNodes    == {root, a, b}
PairOp       == root :> "and" @@ a :> "leaf" @@ b :> "leaf"
PairChildren == root :> <<a, b>> @@ a :> <<>> @@ b :> <<>>

\* The tree of: outage 'a && b' --or b.  Leaf b is shared.
SharedNodes    == {root, inner, a, b}
SharedOp       == root :> "or" @@ inner :> "and" @@ a :> "leaf" @@ b :> "leaf"
SharedChildren == root :> <<inner, b>> @@ inner :> <<a, b>> @@ a :> <<>> @@ b :> <<>>

\* An And of an Or and of a leaf of the Or, which is shared.
NestedNodes    == {root, inner, a, b}
NestedOp       == root :> "and" @@ inner :> "or" @@ a :> "leaf" @@ b :> "leaf"
NestedChildren == root :> <<inner, a>> @@ inner :> <<b, a>> @@ a :> <<>> @@ b :> <<>>

OnceEach  == [n \in {a, b} |-> 1]
TwiceA    == a :> 2 @@ b :> 1
OnlyB     == a :> 0 @@ b :> 2

=============================================================================
