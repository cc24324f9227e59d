------------------------------ MODULE LocalTime ------------------------------
(***************************************************************************)
(* How internal/cli/datetime.go reads a local date and time: the instant   *)
(* time.Date proposes, its rejection when it shows another wall time, and  *)
(* the search for the earliest instant that shows this one.                *)
(*                                                                         *)
(* Instants and wall times are integers on one scale: a wall time stands   *)
(* for the instant at which UTC shows it.  A zone is the sequence of its   *)
(* transitions and that of the offsets before, between and after them.     *)
(***************************************************************************)
EXTENDS Integers, Sequences, FiniteSetsExt

CONSTANTS MinOffset, MaxOffset  \* the range of offsets a TZif file can hold

ASSUME LocalTimeAssumption ==
  MinOffset \in Int /\ MaxOffset \in Int /\ MinOffset <= 0 /\ 0 <= MaxOffset

\* The zones with n transitions at instants of T and offsets of O.
ZonesWith(n, T, O) ==
  {[at |-> at, offset |-> offset] :
     at \in {s \in [1..n -> T] : \A i \in 1..(n - 1) : s[i] < s[i + 1]},
     offset \in [1..(n + 1) -> O]}

\* What a zone is: its transitions are in order.
IsZone(zone) ==
  /\ zone.at \in Seq(Int) /\ zone.offset \in Seq(MinOffset..MaxOffset)
  /\ Len(zone.offset) = Len(zone.at) + 1
  /\ \A i, j \in DOMAIN zone.at : i < j => zone.at[i] < zone.at[j]

Intervals(zone) == DOMAIN zone.offset

\* Time.ZoneBounds: interval i begins at a transition, unless it is the first,
\* and ends before the next, unless it is the last.
StartsBy(zone, i, t) == i > 1 => zone.at[i - 1] <= t
EndsAfter(zone, i, t) == i <= Len(zone.at) => t < zone.at[i]

IntervalAt(zone, t) ==
  CHOOSE i \in Intervals(zone) : StartsBy(zone, i, t) /\ EndsAfter(zone, i, t)

OffsetAt(zone, t) == zone.offset[IntervalAt(zone, t)]

\* What a clock in the zone shows at t.
Shows(zone, t) == t + OffsetAt(zone, t)

\* time.Date: the offset in effect when UTC shows the wall time, or, if it is
\* not in effect at the instant that gives, the one which is.
Date(zone, wall) ==
  LET i == IntervalAt(zone, wall)
      t == wall - zone.offset[i]
  IN  IF IntervalAt(zone, t) = i THEN t ELSE wall - OffsetAt(zone, t)

\* Bug: only the intervals next to that of the proposal are searched.
NeighboursOnly(zone, wall) ==
  LET here == IntervalAt(zone, Date(zone, wall))
  IN  Intervals(zone) \cap {here - 1, here + 1}

\* The intervals earliestLocalInstant takes offsets from: those next to that of
\* the proposal, and those that hold an instant which can show the wall time.
Searched(zone, wall) ==
  LET here == IntervalAt(zone, Date(zone, wall))
  IN  (Intervals(zone) \cap {here - 1, here + 1}) \cup
      {i \in Intervals(zone) : /\ EndsAfter(zone, i, wall - MaxOffset)
                               /\ StartsBy(zone, i, wall - MinOffset)}

\* sameLocalDateTime of the proposal.
IsLocalTime(zone, wall) == Shows(zone, Date(zone, wall)) = wall

EarliestLocalInstant(zone, wall) ==
  LET candidates == {wall - zone.offset[i] : i \in Searched(zone, wall)}
  IN  Min({Date(zone, wall)} \cup {t \in candidates : Shows(zone, t) = wall})

-----------------------------------------------------------------------------
\* The definition: the instants at which a clock in the zone shows the wall time.
InstantsOf(zone, wall) ==
  {t \in (wall - MaxOffset)..(wall - MinOffset) : Shows(zone, t) = wall}

\* A zone that stays at each offset longer than any two of them differ, or one of
\* them from UTC.
Settled(zone) ==
  \A o, p \in Range(zone.offset) \cup {0} :
    \A i \in 1..(Len(zone.at) - 1) : zone.at[i + 1] - zone.at[i] > o - p

=============================================================================
