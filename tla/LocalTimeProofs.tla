--------------------------- MODULE LocalTimeProofs ---------------------------
(***************************************************************************)
(* For every zone and every wall time: earliestLocalInstant returns the    *)
(* least of the instants that show the wall time, if sameLocalDateTime has *)
(* accepted the proposal of time.Date.                                     *)
(***************************************************************************)
EXTENDS LocalTime, FiniteSetTheorems, TLAPS

\* A nonempty set of positive numbers has a first one.
LEMMA FirstOfSet ==
  ASSUME NEW S, S \subseteq Nat \ {0}, S # {}
  PROVE  \E k \in S : \A j \in S : k <= j
<1> DEFINE Prefixes == {1..k : k \in S}
<1>1. IsWellFoundedOn(StrictSubsetOrdering(Nat), FiniteSubsetsOf(Nat))
  BY FS_StrictSubsetOrderingWellFounded
<1>2. Prefixes \subseteq FiniteSubsetsOf(Nat)
  <2>1. ASSUME NEW k \in S PROVE 1..k \in FiniteSubsetsOf(Nat)
    <3>1. k \in Int /\ 1..k \subseteq Nat
      OBVIOUS
    <3>2. IsFiniteSet(1..k)
      BY <3>1, FS_Interval
    <3> QED BY <3>1, <3>2 DEF FiniteSubsetsOf
  <2> QED BY <2>1
<1>3. Prefixes # {}
  OBVIOUS
<1>4. PICK P \in Prefixes : \A Q \in Prefixes : ~(<<Q, P>> \in StrictSubsetOrdering(Nat))
  BY <1>1, <1>2, <1>3, WFMin, Zenon
<1>5. PICK k \in S : P = 1..k
  OBVIOUS
<1>6. ASSUME NEW j \in S, j < k PROVE FALSE
  <2>1. /\ 1..j \in Prefixes /\ 1..j \in SUBSET Nat /\ 1..k \in SUBSET Nat
        /\ 1..j \subseteq 1..k
    BY <1>6
  <2>2. k \in 1..k /\ k \notin 1..j
    BY <1>6
  <2>3. <<1..j, 1..k>> \in StrictSubsetOrdering(Nat)
    BY <2>1, <2>2 DEF StrictSubsetOrdering
  <2> QED BY <1>4, <1>5, <2>1, <2>3
<1> QED BY <1>6

\* The interval in which an instant lies is determined by the two bounds.
LEMMA IntervalAtBounds ==
  ASSUME NEW zone, IsZone(zone), NEW t \in Int
  PROVE  /\ IntervalAt(zone, t) \in Intervals(zone)
         /\ StartsBy(zone, IntervalAt(zone, t), t)
         /\ EndsAfter(zone, IntervalAt(zone, t), t)
<1> DEFINE Later == {i \in Intervals(zone) : EndsAfter(zone, i, t)}
<1>1. /\ Len(zone.at) \in Nat /\ Intervals(zone) = 1..(Len(zone.at) + 1)
      /\ \A i \in 1..Len(zone.at) : zone.at[i] \in Int
  BY DEF IsZone, Intervals
<1>2. Len(zone.at) + 1 \in Later
  BY <1>1 DEF EndsAfter
<1>3. PICK i \in Later : \A j \in Later : i <= j
  <2>1. Later \subseteq Nat \ {0} /\ Later # {}
    BY <1>1, <1>2
  <2> QED BY <2>1, FirstOfSet
<1>4. StartsBy(zone, i, t)
  <2>1. ASSUME i > 1 PROVE zone.at[i - 1] <= t
    <3>1. i - 1 \in Intervals(zone) /\ i - 1 \notin Later
      BY <1>1, <1>3, <2>1
    <3> QED BY <1>1, <3>1 DEF EndsAfter
  <2> QED BY <2>1 DEF StartsBy
<1>5. \E k \in Intervals(zone) : StartsBy(zone, k, t) /\ EndsAfter(zone, k, t)
  BY <1>4
<1> QED BY <1>5, Zenon DEF IntervalAt

LEMMA OffsetType ==
  ASSUME NEW zone, IsZone(zone)
  PROVE  /\ \A i \in Intervals(zone) : zone.offset[i] \in MinOffset..MaxOffset
         /\ \A t \in Int : OffsetAt(zone, t) \in MinOffset..MaxOffset
<1>1. \A i \in Intervals(zone) : zone.offset[i] \in MinOffset..MaxOffset
  <2>1. ASSUME NEW S, NEW s \in Seq(S), NEW i \in DOMAIN s
        PROVE  s[i] \in S
    OBVIOUS
  <2> QED BY <2>1 DEF IsZone, Intervals
<1> QED BY <1>1, IntervalAtBounds DEF OffsetAt

\* The proposal is an instant.
LEMMA DateType ==
  ASSUME NEW zone, IsZone(zone), NEW wall \in Int
  PROVE  Date(zone, wall) \in Int
<1>1. wall - zone.offset[IntervalAt(zone, wall)] \in Int
  BY OffsetType, IntervalAtBounds, LocalTimeAssumption
<1>2. wall - OffsetAt(zone, wall - zone.offset[IntervalAt(zone, wall)]) \in Int
  BY <1>1, OffsetType, LocalTimeAssumption
<1> QED BY <1>1, <1>2 DEF Date

\* Whatever instant shows the wall time, the search takes the offset at it.
LEMMA SearchIsComplete ==
  ASSUME NEW zone, IsZone(zone), NEW wall \in Int,
         NEW t \in Int, Shows(zone, t) = wall
  PROVE  /\ IntervalAt(zone, t) \in Searched(zone, wall)
         /\ t = wall - zone.offset[IntervalAt(zone, t)]
         /\ t \in InstantsOf(zone, wall)
<1> DEFINE i == IntervalAt(zone, t)
<1>1. /\ i \in Intervals(zone) /\ StartsBy(zone, i, t) /\ EndsAfter(zone, i, t)
      /\ zone.offset[i] \in MinOffset..MaxOffset
  BY IntervalAtBounds, OffsetType
<1>2. t = wall - zone.offset[i] /\ wall - MaxOffset <= t /\ t <= wall - MinOffset
  BY <1>1, LocalTimeAssumption DEF Shows, OffsetAt
<1>3. EndsAfter(zone, i, wall - MaxOffset) /\ StartsBy(zone, i, wall - MinOffset)
  <2>1. i <= Len(zone.at) => zone.at[i] \in Int
    BY <1>1 DEF IsZone, Intervals
  <2>2. i > 1 => zone.at[i - 1] \in Int
    BY <1>1 DEF IsZone, Intervals
  <2> QED BY <1>1, <1>2, <2>1, <2>2, LocalTimeAssumption DEF EndsAfter, StartsBy
<1> HIDE DEF i
<1>4. i \in Searched(zone, wall)
  BY <1>1, <1>3 DEF Searched
<1>5. t \in InstantsOf(zone, wall)
  BY <1>2, LocalTimeAssumption DEF InstantsOf
<1> QED BY <1>2, <1>4, <1>5 DEF i

\* The candidates that pass sameLocalDateTime are exactly the instants that show
\* the wall time.
LEMMA CandidatesAreInstants ==
  ASSUME NEW zone, IsZone(zone), NEW wall \in Int, IsLocalTime(zone, wall)
  PROVE  {Date(zone, wall)} \cup
           {t \in {wall - zone.offset[i] : i \in Searched(zone, wall)} : Shows(zone, t) = wall}
         = InstantsOf(zone, wall)
<1> DEFINE Candidates == {wall - zone.offset[i] : i \in Searched(zone, wall)}
<1>1. ASSUME NEW t \in InstantsOf(zone, wall)
      PROVE  t \in Candidates /\ Shows(zone, t) = wall
  <2>1. t \in Int /\ Shows(zone, t) = wall
    BY LocalTimeAssumption DEF InstantsOf
  <2> QED BY <2>1, SearchIsComplete
<1>2. Date(zone, wall) \in InstantsOf(zone, wall)
  BY DateType, SearchIsComplete DEF IsLocalTime
<1>3. ASSUME NEW t \in Candidates, Shows(zone, t) = wall
      PROVE  t \in InstantsOf(zone, wall)
  <2>1. PICK i \in Searched(zone, wall) : t = wall - zone.offset[i]
    OBVIOUS
  <2>2. i \in Intervals(zone)
    BY DEF Searched
  <2>3. t \in Int
    BY <2>1, <2>2, OffsetType, LocalTimeAssumption
  <2> QED BY <1>3, <2>3, SearchIsComplete
<1> HIDE DEF Candidates
<1>4. {Date(zone, wall)} \cup {t \in Candidates : Shows(zone, t) = wall} = InstantsOf(zone, wall)
  BY <1>1, <1>2, <1>3
<1> QED BY <1>4 DEF Candidates

\* earliestLocalInstant computes what it is named for: in every zone, the least of
\* all instants that show the wall time, however many transitions lie around it.
THEOREM EarliestIsEarliest ==
  ASSUME NEW zone, IsZone(zone), NEW wall \in Int, IsLocalTime(zone, wall)
  PROVE  EarliestLocalInstant(zone, wall) = Min(InstantsOf(zone, wall))
BY CandidatesAreInstants, Zenon DEF EarliestLocalInstant

\* And that least instant exists: the result shows the wall time and no earlier
\* instant does.
THEOREM EarliestExists ==
  ASSUME NEW zone, IsZone(zone), NEW wall \in Int, IsLocalTime(zone, wall)
  PROVE  /\ EarliestLocalInstant(zone, wall) \in Int
         /\ Shows(zone, EarliestLocalInstant(zone, wall)) = wall
         /\ \A t \in Int : Shows(zone, t) = wall => EarliestLocalInstant(zone, wall) <= t
<1> DEFINE low == wall - MaxOffset
           Ranks == {t - low + 1 : t \in InstantsOf(zone, wall)}
<1>1. low \in Int /\ \A t \in InstantsOf(zone, wall) : t \in Int /\ low <= t
  BY LocalTimeAssumption DEF InstantsOf
<1>2. Date(zone, wall) \in InstantsOf(zone, wall)
  BY DateType, SearchIsComplete DEF IsLocalTime
<1>3. Ranks \subseteq Nat \ {0} /\ Ranks # {}
  BY <1>1, <1>2
<1>4. PICK r \in Ranks : \A q \in Ranks : r <= q
  BY <1>3, FirstOfSet
<1>5. PICK s \in InstantsOf(zone, wall) : r = s - low + 1
  OBVIOUS
<1>6. \A t \in InstantsOf(zone, wall) : s <= t
  BY <1>1, <1>4, <1>5
<1>7. /\ Min(InstantsOf(zone, wall)) \in InstantsOf(zone, wall)
      /\ \A t \in InstantsOf(zone, wall) : Min(InstantsOf(zone, wall)) <= t
  BY <1>6, Zenon DEF Min
<1>8. \A t \in Int : Shows(zone, t) = wall => t \in InstantsOf(zone, wall)
  BY SearchIsComplete
<1> QED BY <1>1, <1>7, <1>8, EarliestIsEarliest DEF InstantsOf

-----------------------------------------------------------------------------
(***************************************************************************)
(* The proposal of time.Date.                                              *)
(***************************************************************************)

\* An instant lies in one interval only.
LEMMA IntervalUnique ==
  ASSUME NEW zone, IsZone(zone), NEW t \in Int, NEW i \in Intervals(zone),
         StartsBy(zone, i, t), EndsAfter(zone, i, t)
  PROVE  IntervalAt(zone, t) = i
<1> DEFINE k == IntervalAt(zone, t)
<1>1. k \in Intervals(zone) /\ StartsBy(zone, k, t) /\ EndsAfter(zone, k, t)
  BY IntervalAtBounds
<1>2. ASSUME NEW m \in Intervals(zone), NEW n \in Intervals(zone), m < n,
             EndsAfter(zone, m, t), StartsBy(zone, n, t)
      PROVE  FALSE
  <2>1. /\ Intervals(zone) = 1..(Len(zone.at) + 1) /\ DOMAIN zone.at = 1..Len(zone.at)
        /\ Len(zone.at) \in Nat
        /\ \A x \in 1..Len(zone.at) : zone.at[x] \in Int
        /\ \A x, y \in 1..Len(zone.at) : x < y => zone.at[x] < zone.at[y]
    BY DEF IsZone, Intervals
  <2>2. t < zone.at[m] /\ zone.at[n - 1] <= t /\ m \in 1..Len(zone.at) /\ n - 1 \in 1..Len(zone.at)
    BY <1>2, <2>1 DEF EndsAfter, StartsBy
  <2>3. m = n - 1 \/ m < n - 1
    BY <1>2, <2>1
  <2>4. zone.at[m] <= zone.at[n - 1]
    BY <2>1, <2>2, <2>3
  <2> QED BY <2>1, <2>2, <2>4
<1>3. k \in Int /\ i \in Int
  BY <1>1 DEF Intervals, IsZone
<1> HIDE DEF k
<1>4. ~(k < i) /\ ~(i < k)
  BY <1>1, <1>2
<1>5. k = i
  BY <1>3, <1>4
<1> QED BY <1>5 DEF k

\* In a settled zone two instants as far apart as two offsets are lie in the same
\* interval or in neighbouring ones.
LEMMA NearInstants ==
  ASSUME NEW zone, IsZone(zone), Settled(zone),
         NEW t \in Int, NEW u \in Int,
         NEW o \in Range(zone.offset) \cup {0}, NEW p \in Range(zone.offset) \cup {0},
         t - u = o - p
  PROVE  IntervalAt(zone, t) <= IntervalAt(zone, u) + 1
<1> DEFINE k == IntervalAt(zone, t)
           i == IntervalAt(zone, u)
<1>1. /\ Intervals(zone) = 1..(Len(zone.at) + 1) /\ DOMAIN zone.at = 1..Len(zone.at)
      /\ Len(zone.at) \in Nat
      /\ \A x \in 1..Len(zone.at) : zone.at[x] \in Int
      /\ \A x, y \in 1..Len(zone.at) : x < y => zone.at[x] < zone.at[y]
  BY DEF IsZone, Intervals
<1>2. /\ k \in Intervals(zone) /\ StartsBy(zone, k, t)
      /\ i \in Intervals(zone) /\ EndsAfter(zone, i, u)
  BY IntervalAtBounds
<1> HIDE DEF k, i
<1>3. ASSUME k > i + 1 PROVE FALSE
  <2>1. i \in 1..(Len(zone.at) - 1) /\ k - 1 \in 1..Len(zone.at) /\ i + 1 \in 1..Len(zone.at)
    BY <1>1, <1>2, <1>3
  <2>2. u < zone.at[i] /\ zone.at[k - 1] <= t
    BY <1>1, <1>2, <1>3, <2>1 DEF StartsBy, EndsAfter
  <2>3. zone.at[i + 1] <= zone.at[k - 1]
    <3>1. i + 1 = k - 1 \/ i + 1 < k - 1
      BY <1>1, <1>2, <1>3
    <3> QED BY <1>1, <2>1, <3>1
  <2>4. zone.at[i + 1] - zone.at[i] > t - u
    BY <2>1 DEF Settled
  <2>5. zone.at[i] \in Int /\ zone.at[i + 1] \in Int /\ zone.at[k - 1] \in Int
    BY <1>1, <2>1
  <2>6. \A a, b, c \in Int : u < a /\ b <= c /\ c <= t => ~(b - a > t - u)
    OBVIOUS
  <2> QED BY <2>2, <2>3, <2>4, <2>5, <2>6
<1>4. k \in Int /\ i \in Int
  BY <1>1, <1>2
<1>5. k <= i + 1
  BY <1>3, <1>4
<1> QED BY <1>5 DEF k, i

\* In a settled zone the local times that parseAbsoluteDeadline refuses are exactly
\* those that no instant shows: time.Date finds an instant whenever there is one.
THEOREM RefusesOnlySkipped ==
  ASSUME NEW zone, IsZone(zone), Settled(zone), NEW wall \in Int
  PROVE  IsLocalTime(zone, wall) <=> InstantsOf(zone, wall) # {}
<1>1. ASSUME IsLocalTime(zone, wall) PROVE InstantsOf(zone, wall) # {}
  BY <1>1, DateType, SearchIsComplete DEF IsLocalTime
<1>2. ASSUME NEW t \in InstantsOf(zone, wall) PROVE IsLocalTime(zone, wall)
  <2> DEFINE i == IntervalAt(zone, t)
             j == IntervalAt(zone, wall)
             proposal == wall - zone.offset[j]
             k == IntervalAt(zone, proposal)
  <2>1. t \in Int /\ Shows(zone, t) = wall
    BY LocalTimeAssumption DEF InstantsOf
  <2>2. /\ i \in Intervals(zone) /\ j \in Intervals(zone)
        /\ zone.offset[i] \in Int /\ zone.offset[j] \in Int
        /\ t = wall - zone.offset[i]
    BY <2>1, IntervalAtBounds, OffsetType, LocalTimeAssumption, SearchIsComplete
  <2>3. proposal \in Int /\ k \in Intervals(zone) /\ zone.offset[k] \in Int
    BY <2>2, IntervalAtBounds, OffsetType, LocalTimeAssumption
  <2>4. /\ zone.offset[i] \in Range(zone.offset) /\ zone.offset[j] \in Range(zone.offset)
        /\ zone.offset[k] \in Range(zone.offset)
    BY <2>2, <2>3 DEF Range, Intervals
  <2>5. i <= j + 1 /\ j <= i + 1
    <3>1. t - wall = 0 - zone.offset[i] /\ wall - t = zone.offset[i] - 0
      BY <2>1, <2>2
    <3> HIDE DEF proposal, k
    <3> QED BY <2>1, <2>4, <3>1, NearInstants
  <2>6. k <= j + 1 /\ j <= k + 1
    <3>1. proposal - wall = 0 - zone.offset[j] /\ wall - proposal = zone.offset[j] - 0
      BY <2>2
    <3> HIDE DEF proposal
    <3> QED BY <2>3, <2>4, <3>1, NearInstants
  <2>7. i <= k + 1 /\ k <= i + 1
    <3>1. /\ t - proposal = zone.offset[j] - zone.offset[i]
          /\ proposal - t = zone.offset[i] - zone.offset[j]
      BY <2>2
    <3> HIDE DEF proposal
    <3> QED BY <2>1, <2>3, <2>4, <3>1, NearInstants
  <2>8. i \in Int /\ j \in Int /\ k \in Int
    <3>1. Intervals(zone) = 1..(Len(zone.at) + 1) /\ Len(zone.at) \in Nat
      BY DEF IsZone, Intervals
    <3> HIDE DEF i, j, k, proposal
    <3> QED BY <2>2, <2>3, <3>1
  <2> HIDE DEF i, j, k, proposal
  <2>9. CASE k = j
    <3>1. Date(zone, wall) = proposal
      BY <2>9 DEF Date, proposal, j, k
    <3> QED BY <2>2, <2>9, <3>1 DEF IsLocalTime, Shows, OffsetAt, proposal, k
  <2>10. CASE k # j
    <3>1. i # j
      BY <2>2, <2>10 DEF proposal, i, k
    <3>2. k = i
      BY <2>5, <2>6, <2>7, <2>8, <2>10, <3>1
    <3>3. Date(zone, wall) = wall - zone.offset[k]
      BY <2>10 DEF Date, OffsetAt, proposal, j, k
    <3>4. Date(zone, wall) = t
      BY <2>2, <3>2, <3>3
    <3> QED BY <2>1, <3>4 DEF IsLocalTime
  <2> QED BY <2>9, <2>10
<1> QED BY <1>1, <1>2

=============================================================================
