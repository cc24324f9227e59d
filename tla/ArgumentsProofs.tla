--------------------------- MODULE ArgumentsProofs ---------------------------
(***************************************************************************)
(* What the loops of Arguments compute, for every sequence of arguments:   *)
(* Parse accepts exactly what describe.go describes, and its plan is the   *)
(* formula that was written.  Each loop has an invariant that relates its  *)
(* state after n turns to the first n elements of its input.               *)
(***************************************************************************)
EXTENDS CommandLine, LocalTimeProofs

-----------------------------------------------------------------------------
(***************************************************************************)
(* Loops.                                                                  *)
(***************************************************************************)

\* What holds before a loop and is kept by each of its L turns holds throughout.
LEMMA LoopInduction ==
  ASSUME NEW L \in Nat, NEW T,
         0 \in T, \A n \in 0..(L - 1) : n \in T => n + 1 \in T
  PROVE  \A n \in 0..L : n \in T
<1> DEFINE Missing == {k \in 1..L : k \notin T}
<1>1. SUFFICES ASSUME NEW n \in 0..L, n \notin T PROVE FALSE
  OBVIOUS
<1>2. n \in Missing /\ Missing \subseteq Nat \ {0}
  BY <1>1
<1>3. PICK k \in Missing : \A j \in Missing : k <= j
  BY <1>2, FirstOfSet
<1>4. k \in 1..L /\ k \notin T
  OBVIOUS
<1>5. k - 1 \in 0..(L - 1) /\ (k - 1) + 1 = k
  BY <1>4
<1>6. k - 1 \in T
  <2>1. CASE k - 1 = 0
    BY <2>1
  <2>2. CASE k - 1 # 0
    BY <2>2, <1>3, <1>5
  <2> QED BY <2>1, <2>2
<1> QED BY <1>4, <1>5, <1>6

\* The states of a loop: its turns are functions on a set of states.
IsLoop(g, L, start, turn) == g[0] = start /\ \A n \in 1..L : g[n] = turn[n][g[n - 1]]

LEMMA LoopExists ==
  ASSUME NEW L \in Nat, NEW S, NEW start \in S, NEW turn \in [1..L -> [S -> S]]
  PROVE  \E g \in [0..L -> S] : IsLoop(g, L, start, turn)
<1> DEFINE T == {n \in 0..L : \E g \in [0..n -> S] : IsLoop(g, n, start, turn)}
<1>1. 0 \in T
  <2> DEFINE g0 == [k \in 0..0 |-> start]
  <2>1. g0 \in [0..0 -> S] /\ IsLoop(g0, 0, start, turn)
    BY DEF IsLoop
  <2> HIDE DEF g0
  <2> QED BY <2>1
<1>2. ASSUME NEW n \in 0..(L - 1), n \in T PROVE n + 1 \in T
  <2>1. PICK g \in [0..n -> S] : IsLoop(g, n, start, turn)
    BY <1>2
  <2> DEFINE h == [k \in 0..(n + 1) |-> IF k = n + 1 THEN turn[n + 1][g[n]] ELSE g[k]]
  <2>2. n \in 0..n /\ n + 1 \in 1..L
    OBVIOUS
  <2>3. turn[n + 1] \in [S -> S] /\ g[n] \in S
    BY <2>2
  <2>4. turn[n + 1][g[n]] \in S
    BY <2>3
  <2>5. h \in [0..(n + 1) -> S]
    <3>1. ASSUME NEW k \in 0..(n + 1), k # n + 1 PROVE g[k] \in S
      <4>1. k \in 0..n
        BY <3>1
      <4> QED BY <4>1
    <3> QED BY <2>4, <3>1
  <2>6. h[0] = g[0] /\ h[n + 1] = turn[n + 1][g[n]] /\ \A k \in 0..n : h[k] = g[k]
    OBVIOUS
  <2> HIDE DEF h
  <2>7. ASSUME NEW k \in 1..(n + 1) PROVE h[k] = turn[k][h[k - 1]]
    <3>1. CASE k = n + 1
      BY <3>1, <2>2, <2>6
    <3>2. CASE k # n + 1
      <4>1. k \in 1..n /\ k \in 0..n /\ k - 1 \in 0..n
        BY <3>2
      <4> QED BY <4>1, <2>1, <2>6 DEF IsLoop
    <3> QED BY <3>1, <3>2
  <2>8. IsLoop(h, n + 1, start, turn)
    BY <2>1, <2>6, <2>7 DEF IsLoop
  <2>9. n + 1 \in 0..L
    OBVIOUS
  <2> QED BY <2>5, <2>8, <2>9
<1>3. L \in 0..L
  OBVIOUS
<1> HIDE DEF T
<1>4. L \in T
  BY <1>1, <1>2, <1>3, LoopInduction
<1> QED BY <1>4 DEF T

-----------------------------------------------------------------------------
(***************************************************************************)
(* Keeping(s, I): the elements of s at the places in I, in order.          *)
(***************************************************************************)

\* The rank of a place among those in I.
Rank(I, i) == Cardinality({j \in I : j <= i})

LEMMA PlacesFinite ==
  ASSUME NEW n \in Nat, NEW I \in SUBSET (1..n)
  PROVE  /\ IsFiniteSet(I) /\ Cardinality(I) \in Nat
         /\ \A i : IsFiniteSet({j \in I : j <= i}) /\ Rank(I, i) \in Nat
<1>1. IsFiniteSet(1..n)
  BY FS_Interval
<1>2. IsFiniteSet(I) /\ Cardinality(I) \in Nat
  BY <1>1, FS_Subset, FS_CardinalityType
<1>3. ASSUME NEW i PROVE IsFiniteSet({j \in I : j <= i}) /\ Rank(I, i) \in Nat
  <2>1. {j \in I : j <= i} \in SUBSET I
    OBVIOUS
  <2>2. IsFiniteSet({j \in I : j <= i})
    BY <1>2, <2>1, FS_Subset
  <2> QED BY <2>2, FS_CardinalityType DEF Rank
<1> QED BY <1>2, <1>3

\* Two places have the same rank only if they are one.
LEMMA RankInjective ==
  ASSUME NEW n \in Nat, NEW I \in SUBSET (1..n), NEW i \in I, NEW j \in I,
         Rank(I, i) = Rank(I, j)
  PROVE  i = j
<1>1. ASSUME NEW k \in I, NEW l \in I, k < l, Rank(I, k) = Rank(I, l) PROVE FALSE
  <2> DEFINE A == {m \in I : m <= k}
             B == {m \in I : m <= l}
  <2>1. IsFiniteSet(B)
    BY PlacesFinite
  <2>2. \A m \in I : m \in Int
    OBVIOUS
  <2>3. A \in SUBSET B
    <3>1. \A m \in I : m <= k => m <= l
      BY <1>1, <2>2
    <3> QED BY <3>1
  <2>4. l \in B /\ l \notin A
    BY <1>1, <2>2
  <2>5. Cardinality(A) = Cardinality(B)
    BY <1>1 DEF Rank
  <2> HIDE DEF A, B
  <2> QED BY <2>1, <2>3, <2>4, <2>5, FS_Subset
<1>2. i < j \/ j < i \/ i = j
  OBVIOUS
<1> QED BY <1>1, <1>2

\* One more place, after the others.
LEMMA RankNext ==
  ASSUME NEW n \in Nat, NEW I \in SUBSET (1..n)
  PROVE  LET J == I \cup {n + 1}
         IN  /\ J \in SUBSET (1..(n + 1))
             /\ Cardinality(J) = Cardinality(I) + 1
             /\ Rank(J, n + 1) = Cardinality(I) + 1
             /\ \A i \in I : Rank(J, i) = Rank(I, i)
<1> DEFINE J == I \cup {n + 1}
<1>1. IsFiniteSet(I) /\ Cardinality(I) \in Nat
  BY PlacesFinite
<1>2. n + 1 \notin I /\ \A i \in I : i \in Int /\ i <= n
  OBVIOUS
<1>3. Cardinality(J) = Cardinality(I) + 1
  BY <1>1, <1>2, FS_AddElement
<1>4. {j \in J : j <= n + 1} = J
  <2>1. \A j \in J : j <= n + 1
    BY <1>2
  <2> QED BY <2>1
<1>5. ASSUME NEW i \in I PROVE {j \in J : j <= i} = {j \in I : j <= i}
  BY <1>2
<1>6. J \in SUBSET (1..(n + 1))
  OBVIOUS
<1> QED BY <1>3, <1>4, <1>5, <1>6 DEF Rank

\* The ranks of the places in I are the numbers from 1 to how many there are.
LEMMA RankOnto ==
  ASSUME NEW n \in Nat, NEW I \in SUBSET (1..n)
  PROVE  /\ \A k \in 1..Cardinality(I) : \E i \in I : Rank(I, i) = k
         /\ \A i \in I : Rank(I, i) \in 1..Cardinality(I)
<1> DEFINE Onto(A) == /\ \A k \in 1..Cardinality(A) : \E i \in A : Rank(A, i) = k
                      /\ \A i \in A : Rank(A, i) \in 1..Cardinality(A)
           T == {m \in 0..n : \A A \in SUBSET (1..m) : Onto(A)}
<1>1. 0 \in T
  <2>1. ASSUME NEW A \in SUBSET (1..0) PROVE Onto(A)
    <3>1. A = {}
      OBVIOUS
    <3>2. Cardinality(A) = 0
      BY <3>1, FS_EmptySet
    <3> QED BY <3>1, <3>2
  <2> QED BY <2>1
<1>2. ASSUME NEW m \in 0..(n - 1), m \in T PROVE m + 1 \in T
  <2>1. ASSUME NEW A \in SUBSET (1..(m + 1)) PROVE Onto(A)
    <3>1. CASE m + 1 \notin A
      <4>1. A \in SUBSET (1..m)
        BY <3>1
      <4> QED BY <4>1, <1>2
    <3>2. CASE m + 1 \in A
      <4> DEFINE B == A \ {m + 1}
      <4>1. B \in SUBSET (1..m) /\ A = B \cup {m + 1}
        BY <3>2
      <4>2. Onto(B)
        BY <4>1, <1>2
      <4>3. /\ Cardinality(A) = Cardinality(B) + 1
            /\ Rank(A, m + 1) = Cardinality(B) + 1
            /\ \A i \in B : Rank(A, i) = Rank(B, i)
        BY <4>1, RankNext
      <4>4. Cardinality(B) \in Nat
        <5>1. m \in Nat
          OBVIOUS
        <5> HIDE DEF B
        <5> QED BY <4>1, <5>1, PlacesFinite
      <4> HIDE DEF B
      <4>5. ASSUME NEW k \in 1..Cardinality(A) PROVE \E i \in A : Rank(A, i) = k
        <5>1. CASE k = Cardinality(B) + 1
          BY <5>1, <4>1, <4>3
        <5>2. CASE k # Cardinality(B) + 1
          <6>1. k \in 1..Cardinality(B)
            BY <5>2, <4>3, <4>4
          <6> QED BY <6>1, <4>1, <4>2, <4>3
        <5> QED BY <5>1, <5>2
      <4>6. ASSUME NEW i \in A PROVE Rank(A, i) \in 1..Cardinality(A)
        <5>1. CASE i = m + 1
          BY <5>1, <4>3, <4>4
        <5>2. CASE i # m + 1
          <6>1. i \in B
            BY <5>2, <4>1
          <6>2. Rank(A, i) \in 1..Cardinality(B)
            BY <6>1, <4>2, <4>3
          <6> QED BY <6>2, <4>3, <4>4
        <5> QED BY <5>1, <5>2
      <4> QED BY <4>5, <4>6
    <3> QED BY <3>1, <3>2
  <2> HIDE DEF Onto
  <2> QED BY <2>1
<1>3. n \in 0..n
  OBVIOUS
<1> HIDE DEF T
<1>4. n \in T
  BY <1>1, <1>2, <1>3, LoopInduction
<1> QED BY <1>4 DEF T

\* The k-th element that is kept is the one at the place of rank k.
LEMMA KeepingDomain ==
  ASSUME NEW s, NEW I PROVE DOMAIN Keeping(s, I) = 1..Cardinality(I)
BY DEF Keeping

LEMMA KeptFrom ==
  ASSUME NEW S, NEW s \in Seq(S), NEW n \in Nat, NEW I \in SUBSET (1..n),
         NEW k \in 1..Cardinality(I)
  PROVE  \E i \in I : Rank(I, i) = k /\ Keeping(s, I)[k] = s[i]
<1> DEFINE place == CHOOSE i \in I : Rank(I, i) = k
<1>1. Keeping(s, I)[k] = s[place]
  BY DEF Keeping, Rank
<1>2. place \in I /\ Rank(I, place) = k
  BY RankOnto
<1> QED BY <1>1, <1>2

LEMMA KeptAt ==
  ASSUME NEW S, NEW s \in Seq(S), NEW n \in Nat, NEW I \in SUBSET (1..n),
         NEW i \in I
  PROVE  \E k \in 1..Cardinality(I) : Rank(I, i) = k /\ Keeping(s, I)[k] = s[i]
<1>1. PICK k \in 1..Cardinality(I) : Rank(I, i) = k
  BY RankOnto
<1>2. PICK j \in I : Rank(I, j) = k /\ Keeping(s, I)[k] = s[j]
  BY KeptFrom, Zenon
<1>3. i = j
  BY <1>1, <1>2, RankInjective
<1> QED BY <1>1, <1>2, <1>3

\* Nothing is kept at first; one more place adds its element at the end.
LEMMA KeepingNone ==
  ASSUME NEW s PROVE Keeping(s, {}) = <<>>
<1>1. Cardinality({}) = 0 /\ 1..0 = {}
  BY FS_EmptySet
<1> QED BY <1>1 DEF Keeping

LEMMA KeepingNext ==
  ASSUME NEW S, NEW s \in Seq(S), NEW n \in 0..(Len(s) - 1), NEW I \in SUBSET (1..n)
  PROVE  /\ Keeping(s, I) \in Seq(S)
         /\ Keeping(s, I \cup {n + 1}) = Append(Keeping(s, I), s[n + 1])
<1> DEFINE J == I \cup {n + 1}
           a == Keeping(s, I)
           b == Keeping(s, J)
<1> HIDE DEF J
<1>1. n \in Nat /\ n + 1 \in Nat /\ n + 1 \in 1..Len(s) /\ Cardinality(I) \in Nat
  <2>1. n \in Nat /\ n + 1 \in Nat /\ n + 1 \in 1..Len(s)
    OBVIOUS
  <2> QED BY <2>1, PlacesFinite
<1>2. /\ J \in SUBSET (1..(n + 1)) /\ Cardinality(J) = Cardinality(I) + 1
      /\ Rank(J, n + 1) = Cardinality(I) + 1
      /\ \A i \in I : Rank(J, i) = Rank(I, i)
  BY <1>1, RankNext DEF J
<1>3. ASSUME NEW k \in 1..Cardinality(I)
      PROVE  \E i \in I : Rank(I, i) = k /\ a[k] = s[i]
  BY <1>1, KeptFrom, Zenon
<1>4. ASSUME NEW i \in J
      PROVE  \E k \in 1..Cardinality(J) : Rank(J, i) = k /\ b[k] = s[i]
  <2>1. PICK m \in Nat : J \in SUBSET (1..m)
    BY <1>1, <1>2
  <2> QED BY <2>1, KeptAt, Zenon
<1>5. a = [k \in 1..Cardinality(I) |-> a[k]] /\ b = [k \in 1..Cardinality(J) |-> b[k]]
  BY DEF Keeping
<1> HIDE DEF a, b, J
<1>6. \A i \in 1..Len(s) : s[i] \in S
  OBVIOUS
<1>7. a \in Seq(S) /\ Len(a) = Cardinality(I)
  <2>1. \A k \in 1..Cardinality(I) : a[k] \in S
    BY <1>1, <1>3, <1>6
  <2>2. a \in [1..Cardinality(I) -> S]
    BY <2>1, <1>5
  <2> QED BY <1>1, <2>2
<1>8. \A k \in 1..Cardinality(I) : b[k] = a[k]
  <2>1. I \subseteq J
    BY DEF J
  <2> QED BY <2>1, <1>2, <1>3, <1>4
<1>9. b[Cardinality(I) + 1] = s[n + 1]
  <2>1. n + 1 \in J
    BY DEF J
  <2> QED BY <2>1, <1>2, <1>4
<1>10. b = Append(a, s[n + 1])
  <2> DEFINE c == Append(a, s[n + 1])
  <2>1. s[n + 1] \in S
    BY <1>1, <1>6
  <2>2. /\ c \in Seq(S) /\ Len(c) = Cardinality(I) + 1 /\ DOMAIN c = 1..(Cardinality(I) + 1)
        /\ c[Cardinality(I) + 1] = s[n + 1]
        /\ \A k \in 1..Cardinality(I) : c[k] = a[k]
    BY <1>1, <1>7, <2>1
  <2>3. b \in [1..(Cardinality(I) + 1) -> S]
    <3>1. ASSUME NEW k \in 1..(Cardinality(I) + 1) PROVE b[k] \in S
      <4>1. CASE k = Cardinality(I) + 1
        BY <4>1, <1>9, <2>1
      <4>2. CASE k # Cardinality(I) + 1
        <5>1. k \in 1..Cardinality(I)
          BY <4>2, <1>1
        <5> QED BY <5>1, <1>8, <1>7
      <4> QED BY <4>1, <4>2
    <3> QED BY <3>1, <1>5, <1>2
  <2>4. b \in Seq(S) /\ Len(b) = Cardinality(I) + 1
    BY <2>3, <1>1
  <2>5. \A k \in 1..(Cardinality(I) + 1) : b[k] = c[k]
    <3>1. ASSUME NEW k \in 1..(Cardinality(I) + 1) PROVE b[k] = c[k]
      <4>1. CASE k = Cardinality(I) + 1
        BY <4>1, <1>9, <2>2
      <4>2. CASE k # Cardinality(I) + 1
        <5>1. k \in 1..Cardinality(I)
          BY <4>2, <1>1
        <5> QED BY <5>1, <1>8, <2>2
      <4> QED BY <4>1, <4>2
    <3> QED BY <3>1
  <2> HIDE DEF c
  <2>6. b = c
    BY <2>2, <2>4, <2>5
  <2> QED BY <2>6 DEF c
<1> QED BY <1>7, <1>10 DEF a, b, J

-----------------------------------------------------------------------------
(***************************************************************************)
(* parseEventsFDOptions.                                                   *)
(***************************************************************************)

EventsFDStates(A) ==
  [rest : Seq(A), fd : Int, fdSet : BOOLEAN, awaiting : BOOLEAN, failed : BOOLEAN]

LEMMA CommandLineElements ==
  ASSUME NEW args, IsCommandLine(args)
  PROVE  /\ Len(args) \in Nat /\ DOMAIN args = 1..Len(args)
         /\ \A n \in 1..Len(args) : args[n] \in ToSet(args) /\ IsArgument(args[n])
<1>1. args \in Seq(ToSet(args)) /\ \A arg \in ToSet(args) : IsArgument(arg)
  BY DEF IsCommandLine
<1>2. Len(args) \in Nat /\ DOMAIN args = 1..Len(args)
  BY <1>1
<1>3. \A n \in 1..Len(args) : args[n] \in ToSet(args)
  BY <1>2 DEF ToSet
<1> QED BY <1>1, <1>2, <1>3

LEMMA NumberType ==
  ASSUME NEW arg, IsArgument(arg) PROVE Number(arg) \in Int
<1>1. CASE arg.kind = "plain" /\ Len(arg.value) = 1 /\ arg.value[1].kind = "number"
  <2>1. arg.value \in Seq(ToSet(arg.value)) /\ \A m \in ToSet(arg.value) : IsMember(m)
    BY <1>1 DEF IsArgument
  <2>2. 1 \in DOMAIN arg.value
    BY <1>1, <2>1
  <2>3. IsMember(arg.value[1])
    BY <2>1, <2>2 DEF ToSet
  <2> QED BY <1>1, <2>3 DEF IsMember, Number
<1>2. CASE ~(arg.kind = "plain" /\ Len(arg.value) = 1 /\ arg.value[1].kind = "number")
  BY <1>2 DEF Number
<1> QED BY <1>1, <1>2

LEMMA EventsFDTurnType ==
  ASSUME NEW A, NEW s \in EventsFDStates(A), NEW arg \in A, IsArgument(arg)
  PROVE  EventsFDTurn(s, arg) \in EventsFDStates(A)
<1>1. Number(arg) \in Int /\ (arg.kind = "fd=" => arg.value \in Int)
  BY NumberType DEF IsArgument
<1>2. Append(s.rest, arg) \in Seq(A)
  BY DEF EventsFDStates
<1>3. ASSUME NEW number \in Int PROVE SetEventsFD(s, number) \in EventsFDStates(A)
  BY DEF SetEventsFD, EventsFDStates
<1> QED BY <1>1, <1>2, <1>3 DEF EventsFDTurn, EventsFDStates

LEMMA EventsFDLoop ==
  ASSUME NEW args, IsCommandLine(args)
  PROVE  /\ EventsFDAfter(args)[0] = NoEventsFD
         /\ \A n \in 1..Len(args) :
              EventsFDAfter(args)[n] = EventsFDTurn(EventsFDAfter(args)[n - 1], args[n])
         /\ \A n \in 0..Len(args) : EventsFDAfter(args)[n] \in EventsFDStates(ToSet(args))
<1> DEFINE L == Len(args)
           S == EventsFDStates(ToSet(args))
           IsAfter(g) == g = [n \in 0..L |-> IF n = 0 THEN NoEventsFD
                                             ELSE EventsFDTurn(g[n - 1], args[n])]
           turn == [n \in 1..L |-> [s \in S |-> EventsFDTurn(s, args[n])]]
<1>1. L \in Nat /\ \A n \in 1..L : args[n] \in ToSet(args) /\ IsArgument(args[n])
  BY CommandLineElements
<1>2. NoEventsFD \in S
  BY DEF NoEventsFD, EventsFDStates
<1>3. \A n \in 1..L : \A s \in S : EventsFDTurn(s, args[n]) \in S
  BY <1>1, EventsFDTurnType
<1> HIDE DEF L, S
<1>4. turn \in [1..L -> [S -> S]]
  BY <1>3
<1>5. \E g : IsAfter(g)
  <2> HIDE DEF turn
  <2>1. PICK g \in [0..L -> S] : IsLoop(g, L, NoEventsFD, turn)
    BY <1>1, <1>2, <1>4, LoopExists
  <2>2. ASSUME NEW n \in 1..L PROVE g[n] = EventsFDTurn(g[n - 1], args[n])
    <3>1. n - 1 \in 0..L /\ g[n - 1] \in S
      BY <1>1
    <3> QED BY <2>1, <3>1 DEF turn, IsLoop
  <2>3. g = [n \in 0..L |-> g[n]]
    OBVIOUS
  <2>4. \A n \in 0..L : g[n] = IF n = 0 THEN NoEventsFD ELSE EventsFDTurn(g[n - 1], args[n])
    BY <1>1, <2>1, <2>2 DEF IsLoop
  <2>5. IsAfter(g)
    BY <2>3, <2>4
  <2> QED BY <2>5
<1>6. IsAfter(EventsFDAfter(args))
  BY <1>5 DEF EventsFDAfter, L
<1> DEFINE f == EventsFDAfter(args)
<1>7. f[0] = NoEventsFD /\ \A n \in 1..L : f[n] = EventsFDTurn(f[n - 1], args[n])
  BY <1>1, <1>6
<1> HIDE DEF f
<1>8. \A n \in 0..L : f[n] \in S
  <2> DEFINE T == {n \in 0..L : f[n] \in S}
  <2>1. 0 \in T
    BY <1>1, <1>2, <1>7
  <2>2. ASSUME NEW n \in 0..(L - 1), n \in T PROVE n + 1 \in T
    <3>1. n + 1 \in 1..L /\ (n + 1) - 1 = n
      BY <1>1
    <3>2. f[n + 1] = EventsFDTurn(f[n], args[n + 1])
      BY <1>7, <3>1
    <3> QED BY <1>3, <2>2, <3>1, <3>2
  <2> HIDE DEF T
  <2>3. \A n \in 0..L : n \in T
    BY <1>1, <2>1, <2>2, LoopInduction
  <2> QED BY <2>3 DEF T
<1> QED BY <1>7, <1>8 DEF L, S, f

\* The first n arguments as DescribedFD describes them, except that the value of
\* the last may be still to come.
DescribedSoFar(args, n) ==
  /\ \A i, j \in 1..n : {args[i].kind, args[j].kind} \subseteq {"fd", "fd="} => i = j
  /\ \A i \in 1..n :
       /\ args[i].kind = "fd" /\ i < n =>
            args[i + 1].kind = "plain" /\ Number(args[i + 1]) >= 3
       /\ args[i].kind = "fd=" => args[i].value >= 3

\* The places, up to n, of the arguments that are left for the conditions.
OtherPlaces(args, n) ==
  {i \in 1..n : args[i].kind \notin {"fd", "fd="}} \ FDValues(args)

EventsFDInv(args, n, s) ==
  /\ ~s.failed <=> DescribedSoFar(args, n)
  /\ ~s.failed =>
       /\ s.awaiting <=> n > 0 /\ args[n].kind = "fd"
       /\ s.fdSet <=> \E i \in 1..n : args[i].kind = "fd=" \/ (args[i].kind = "fd" /\ i < n)
       /\ s.rest = Keeping(args, OtherPlaces(args, n))

LEMMA OtherPlacesNext ==
  ASSUME NEW args, IsCommandLine(args), NEW n \in 0..(Len(args) - 1)
  PROVE  LET arg == args[n + 1]
         IN  IF arg.kind \in {"fd", "fd="} \/ (n > 0 /\ args[n].kind = "fd" /\ arg.kind = "plain")
             THEN OtherPlaces(args, n + 1) = OtherPlaces(args, n)
             ELSE /\ OtherPlaces(args, n + 1) = OtherPlaces(args, n) \cup {n + 1}
                  /\ Keeping(args, OtherPlaces(args, n + 1)) =
                       Append(Keeping(args, OtherPlaces(args, n)), arg)
<1> DEFINE arg == args[n + 1]
           value == n > 0 /\ args[n].kind = "fd" /\ arg.kind = "plain"
<1>1. /\ args \in Seq(ToSet(args)) /\ DOMAIN args = 1..Len(args) /\ Len(args) \in Nat
      /\ n \in Nat /\ n + 1 \in 1..Len(args) /\ 1..(n + 1) = (1..n) \cup {n + 1} /\ n + 1 \notin 1..n
  BY CommandLineElements DEF IsCommandLine
<1>2. n + 1 \in FDValues(args) <=> value
  BY <1>1 DEF FDValues
<1>3. OtherPlaces(args, n) \in SUBSET (1..n)
  BY DEF OtherPlaces
<1>4. OtherPlaces(args, n + 1) = IF arg.kind \in {"fd", "fd="} \/ value
                                 THEN OtherPlaces(args, n)
                                 ELSE OtherPlaces(args, n) \cup {n + 1}
  BY <1>1, <1>2 DEF OtherPlaces
<1>5. Keeping(args, OtherPlaces(args, n) \cup {n + 1}) =
        Append(Keeping(args, OtherPlaces(args, n)), arg)
  BY <1>1, <1>3, KeepingNext
<1> QED BY <1>4, <1>5

LEMMA EventsFDStep ==
  ASSUME NEW args, IsCommandLine(args), NEW n \in 0..(Len(args) - 1),
         NEW s \in EventsFDStates(ToSet(args)), EventsFDInv(args, n, s)
  PROVE  EventsFDInv(args, n + 1, EventsFDTurn(s, args[n + 1]))
<1> DEFINE arg == args[n + 1]
           t == EventsFDTurn(s, arg)
<1>1. /\ n \in Nat /\ n + 1 \in 1..Len(args) /\ Len(args) \in Nat /\ n + 1 \in Nat
      /\ 1..(n + 1) = (1..n) \cup {n + 1} /\ n + 1 \notin 1..n
      /\ \A i \in 1..n : i \in Int /\ i < n + 1 /\ i <= n
  BY CommandLineElements
<1>2. /\ s.failed \in BOOLEAN /\ s.awaiting \in BOOLEAN /\ s.fdSet \in BOOLEAN
      /\ s = [rest |-> s.rest, fd |-> s.fd, fdSet |-> s.fdSet, awaiting |-> s.awaiting,
              failed |-> s.failed]
  BY DEF EventsFDStates
<1>3. Number(arg) \in Int /\ (arg.kind = "fd=" => arg.value \in Int)
  BY <1>1, CommandLineElements, NumberType DEF IsArgument
<1>4. DescribedSoFar(args, n + 1) => DescribedSoFar(args, n)
  BY <1>1 DEF DescribedSoFar
<1>5. CASE s.failed
  BY <1>2, <1>4, <1>5 DEF EventsFDInv, EventsFDTurn
<1>6. CASE ~s.failed /\ s.awaiting
  <2>1. /\ n > 0 /\ n \in 1..n /\ args[n].kind = "fd" /\ DescribedSoFar(args, n)
        /\ s.rest = Keeping(args, OtherPlaces(args, n))
    BY <1>1, <1>6 DEF EventsFDInv
  <2>2. CASE arg.kind = "plain" /\ Number(arg) >= 3
    <3>1. /\ ~t.failed /\ ~t.awaiting /\ t.fdSet /\ t.rest = s.rest
      BY <1>2, <1>3, <1>6, <2>2 DEF EventsFDTurn, SetEventsFD, DoubleDash
    <3>2. DescribedSoFar(args, n + 1)
      BY <1>1, <2>1, <2>2 DEF DescribedSoFar
    <3>3. OtherPlaces(args, n + 1) = OtherPlaces(args, n)
      BY <2>1, <2>2, OtherPlacesNext
    <3>4. \E i \in 1..(n + 1) : args[i].kind = "fd" /\ i < n + 1
      BY <1>1, <2>1
    <3> HIDE DEF t
    <3>5. n + 1 > 0 /\ arg.kind # "fd"
      BY <1>1, <2>2
    <3> QED BY <2>1, <3>1, <3>2, <3>3, <3>4, <3>5 DEF EventsFDInv, t
  <2>3. CASE ~(arg.kind = "plain" /\ Number(arg) >= 3)
    <3>1. t.failed
      <4>1. arg.kind # "plain" => Number(arg) = 0
        BY DEF Number
      <4> QED BY <1>2, <1>3, <1>6, <2>3, <4>1 DEF EventsFDTurn, SetEventsFD
    <3>2. ~DescribedSoFar(args, n + 1)
      BY <1>1, <2>1, <2>3 DEF DescribedSoFar
    <3> QED BY <3>1, <3>2 DEF EventsFDInv
  <2> QED BY <2>2, <2>3
<1>7. CASE ~s.failed /\ ~s.awaiting
  <2>1. /\ ~(n > 0 /\ args[n].kind = "fd") /\ DescribedSoFar(args, n)
        /\ s.fdSet <=> \E i \in 1..n : args[i].kind \in {"fd", "fd="}
        /\ s.rest = Keeping(args, OtherPlaces(args, n))
    BY <1>1, <1>2, <1>7 DEF EventsFDInv
  <2>2. CASE arg.kind \notin {"fd", "fd="}
    <3>1. /\ ~t.failed /\ ~t.awaiting /\ t.fdSet = s.fdSet /\ t.rest = Append(s.rest, arg)
      BY <1>2, <1>7, <2>2 DEF EventsFDTurn
    <3>2. DescribedSoFar(args, n + 1)
      BY <1>1, <2>1, <2>2 DEF DescribedSoFar
    <3>3. t.rest = Keeping(args, OtherPlaces(args, n + 1))
      BY <2>1, <2>2, <3>1, OtherPlacesNext
    <3>4. s.fdSet <=> \E i \in 1..(n + 1) : args[i].kind = "fd=" \/ (args[i].kind = "fd" /\ i < n + 1)
      BY <1>1, <2>1, <2>2
    <3> HIDE DEF t
    <3> QED BY <2>2, <3>1, <3>2, <3>3, <3>4 DEF EventsFDInv, t
  <2>3. CASE arg.kind \in {"fd", "fd="} /\ s.fdSet
    <3>1. t.failed
      BY <1>2, <1>7, <2>3 DEF EventsFDTurn
    <3>2. ~DescribedSoFar(args, n + 1)
      BY <1>1, <2>1, <2>3 DEF DescribedSoFar
    <3> QED BY <3>1, <3>2 DEF EventsFDInv
  <2>4. CASE arg.kind = "fd" /\ ~s.fdSet
    <3>1. /\ ~t.failed /\ t.awaiting /\ ~t.fdSet /\ t.rest = s.rest
      BY <1>2, <1>7, <2>4 DEF EventsFDTurn
    <3>2. DescribedSoFar(args, n + 1)
      BY <1>1, <2>1, <2>4 DEF DescribedSoFar
    <3>3. OtherPlaces(args, n + 1) = OtherPlaces(args, n)
      BY <2>1, <2>4, OtherPlacesNext
    <3>4. ~\E i \in 1..(n + 1) : args[i].kind = "fd=" \/ (args[i].kind = "fd" /\ i < n + 1)
      BY <1>1, <2>1, <2>4
    <3>5. n + 1 > 0
      BY <1>1
    <3> HIDE DEF t
    <3> QED BY <2>1, <2>4, <3>1, <3>2, <3>3, <3>4, <3>5 DEF EventsFDInv, t
  <2>5. CASE arg.kind = "fd=" /\ ~s.fdSet
    <3>1. DescribedSoFar(args, n + 1) <=> arg.value >= 3
      BY <1>1, <2>1, <2>5 DEF DescribedSoFar
    <3>2. OtherPlaces(args, n + 1) = OtherPlaces(args, n)
      BY <2>1, <2>5, OtherPlacesNext
    <3>3. \E i \in 1..(n + 1) : args[i].kind = "fd="
      BY <1>1, <2>5
    <3>4. CASE arg.value >= 3
      <4>1. /\ ~t.failed /\ ~t.awaiting /\ t.fdSet /\ t.rest = s.rest
        BY <1>2, <1>3, <1>7, <2>5, <3>4 DEF EventsFDTurn, SetEventsFD
      <4> HIDE DEF t
      <4> QED BY <2>1, <2>5, <3>1, <3>2, <3>3, <3>4, <4>1 DEF EventsFDInv, t
    <3>5. CASE ~(arg.value >= 3)
      <4>1. t.failed
        BY <1>2, <1>3, <1>7, <2>5, <3>5 DEF EventsFDTurn, SetEventsFD
      <4> QED BY <3>1, <3>5, <4>1 DEF EventsFDInv
    <3> QED BY <3>4, <3>5
  <2> QED BY <1>2, <2>2, <2>3, <2>4, <2>5
<1> QED BY <1>2, <1>5, <1>6, <1>7

\* The options are accepted exactly if they are as described, and what is left are
\* the arguments without them.
LEMMA OptionsAsDescribed ==
  ASSUME NEW args, IsCommandLine(args)
  PROVE  LET options == parseEventsFDOptions(args)
         IN  /\ ~options.failed /\ ~options.awaiting <=> DescribedFD(args)
             /\ ~options.failed => options.rest = WithoutFD(args)
             /\ options \in EventsFDStates(ToSet(args))
<1> DEFINE L == Len(args)
           after == EventsFDAfter(args)
           T == {n \in 0..L : EventsFDInv(args, n, after[n])}
           Options == {i \in DOMAIN args : args[i].kind \in {"fd", "fd="}}
<1>1. /\ L \in Nat /\ L \in 0..L /\ DOMAIN args = 1..L
      /\ \A i \in 1..L : i \in Int /\ i <= L
  BY CommandLineElements
<1>2. after[0] = NoEventsFD /\ \A n \in 0..L : after[n] \in EventsFDStates(ToSet(args))
  BY EventsFDLoop
<1>3. \A n \in 1..L : after[n] = EventsFDTurn(after[n - 1], args[n])
  BY EventsFDLoop
<1> HIDE DEF after
<1>4. 0 \in T
  <2>1. OtherPlaces(args, 0) = {} /\ 1..0 = {}
    BY DEF OtherPlaces
  <2>2. DescribedSoFar(args, 0)
    BY <2>1 DEF DescribedSoFar
  <2>3. /\ ~NoEventsFD.failed /\ ~NoEventsFD.awaiting /\ ~NoEventsFD.fdSet
        /\ NoEventsFD.rest = Keeping(args, OtherPlaces(args, 0))
    BY <2>1, KeepingNone DEF NoEventsFD
  <2>4. ~(0 > 0) /\ ~\E i \in 1..0 : args[i].kind = "fd=" \/ (args[i].kind = "fd" /\ i < 0)
    BY <2>1
  <2>5. EventsFDInv(args, 0, NoEventsFD)
    BY ONLY <2>2, <2>3, <2>4 DEF EventsFDInv
  <2> QED BY <1>1, <1>2, <2>5
<1>5. ASSUME NEW n \in 0..(L - 1), n \in T PROVE n + 1 \in T
  <2>1. n + 1 \in 1..L /\ n + 1 \in 0..L /\ n \in 0..L /\ (n + 1) - 1 = n
    BY <1>1
  <2>2. after[n + 1] = EventsFDTurn(after[n], args[n + 1])
    BY <1>3, <2>1
  <2> QED BY <1>2, <1>5, <2>1, <2>2, EventsFDStep
<1> HIDE DEF T
<1>6. L \in T
  BY <1>1, <1>4, <1>5, LoopInduction
<1>7. EventsFDInv(args, L, after[L]) /\ after[L] \in EventsFDStates(ToSet(args))
  BY <1>1, <1>2, <1>6 DEF T
<1>8. Cardinality(Options) <= 1 <=>
        \A i, j \in 1..L : {args[i].kind, args[j].kind} \subseteq {"fd", "fd="} => i = j
  <2>1. Options \in SUBSET (1..L)
    BY <1>1
  <2>2. IsFiniteSet(Options) /\ Cardinality(Options) \in Nat
    BY <1>1, <2>1, PlacesFinite
  <2>3. /\ Cardinality(Options) = 0 <=> Options = {}
        /\ Cardinality(Options) = 1 <=> \E i : Options = {i}
    BY <2>2, FS_EmptySet, FS_Singleton
  <2>4. Cardinality(Options) <= 1 <=> Cardinality(Options) = 0 \/ Cardinality(Options) = 1
    BY <2>2
  <2>5. Cardinality(Options) <= 1 <=> \A i, j \in Options : i = j
    <3> HIDE DEF Options
    <3>1. ASSUME \A i, j \in Options : i = j, Options # {} PROVE \E i : Options = {i}
      <4>1. PICK i \in Options : TRUE
        BY <3>1
      <4>2. Options = {i}
        BY <3>1, <4>1
      <4> QED BY <4>2
    <3>2. Options = {} \/ (\E i : Options = {i}) => \A i, j \in Options : i = j
      OBVIOUS
    <3> QED BY <2>3, <2>4, <3>1, <3>2
  <2>6. \A i \in 1..L : i \in Options <=> args[i].kind \in {"fd", "fd="}
    BY <1>1
  <2> HIDE DEF Options
  <2> QED BY <2>1, <2>5, <2>6
<1>9. DescribedFD(args) <=>
        DescribedSoFar(args, L) /\ ~(L > 0 /\ args[L].kind = "fd")
  <2>1. ASSUME NEW i \in 1..L
        PROVE  i + 1 \in FDValues(args) /\ args[i].kind = "fd" <=>
               i < L /\ args[i].kind = "fd" /\ args[i + 1].kind = "plain"
    BY <1>1 DEF FDValues
  <2>2. DescribedFD(args) <=>
          /\ \A i, j \in 1..L : {args[i].kind, args[j].kind} \subseteq {"fd", "fd="} => i = j
          /\ \A i \in 1..L :
               /\ args[i].kind = "fd" =>
                    i < L /\ args[i + 1].kind = "plain" /\ Number(args[i + 1]) >= 3
               /\ args[i].kind = "fd=" => args[i].value >= 3
    BY <1>1, <1>8, <2>1 DEF DescribedFD
  <2> HIDE DEF L
  <2>3. L > 0 => L \in 1..L
    BY <1>1
  <2>4. \A i \in 1..L : (i < L \/ i = L) /\ ~(L < L) /\ L > 0
    BY <1>1
  <2> QED BY <2>2, <2>3, <2>4 DEF DescribedSoFar
<1>10. WithoutFD(args) = Keeping(args, OtherPlaces(args, L))
  BY <1>1 DEF WithoutFD, OtherPlaces
<1>11. parseEventsFDOptions(args) = after[L]
  BY DEF parseEventsFDOptions, after
<1> HIDE DEF L
<1> QED BY <1>7, <1>9, <1>10, <1>11 DEF EventsFDInv

-----------------------------------------------------------------------------
(***************************************************************************)
(* parseConditionArguments.                                                *)
(***************************************************************************)

ConditionStates(V) ==
  [values : Seq(V), hasCondition : BOOLEAN, pendingOR : BOOLEAN, failed : BOOLEAN]

ValuesOf(args) == [g \in DOMAIN args |-> args[g].value]

LEMMA ConditionTurnType ==
  ASSUME NEW V, NEW s \in ConditionStates(V), NEW arg, arg.value \in V
  PROVE  ConditionTurn(s, arg) \in ConditionStates(V)
<1>1. Append(s.values, arg.value) \in Seq(V)
  BY DEF ConditionStates
<1>2. (arg.kind = "or") \in BOOLEAN
  OBVIOUS
<1> QED BY <1>1, <1>2 DEF ConditionTurn, ConditionStates

LEMMA ConditionsLoop ==
  ASSUME NEW A, NEW rest \in Seq(A)
  PROVE  /\ ConditionsAfter(rest)[0] = NoCondition
         /\ \A n \in 1..Len(rest) :
              ConditionsAfter(rest)[n] = ConditionTurn(ConditionsAfter(rest)[n - 1], rest[n])
         /\ \A n \in 0..Len(rest) :
              ConditionsAfter(rest)[n] \in ConditionStates({a.value : a \in A})
<1> DEFINE L == Len(rest)
           S == ConditionStates({a.value : a \in A})
           IsAfter(g) == g = [n \in 0..L |-> IF n = 0 THEN NoCondition
                                             ELSE ConditionTurn(g[n - 1], rest[n])]
           turn == [n \in 1..L |-> [s \in S |-> ConditionTurn(s, rest[n])]]
<1>1. L \in Nat /\ \A n \in 1..L : rest[n] \in A
  OBVIOUS
<1>2. NoCondition \in S
  BY DEF NoCondition, ConditionStates
<1>3. \A n \in 1..L : \A s \in S : ConditionTurn(s, rest[n]) \in S
  BY <1>1, ConditionTurnType
<1> HIDE DEF L, S
<1>4. turn \in [1..L -> [S -> S]]
  BY <1>3
<1>5. \E g : IsAfter(g)
  <2> HIDE DEF turn
  <2>1. PICK g \in [0..L -> S] : IsLoop(g, L, NoCondition, turn)
    BY <1>1, <1>2, <1>4, LoopExists
  <2>2. ASSUME NEW n \in 1..L PROVE g[n] = ConditionTurn(g[n - 1], rest[n])
    <3>1. n - 1 \in 0..L /\ g[n - 1] \in S
      BY <1>1
    <3> QED BY <2>1, <3>1 DEF turn, IsLoop
  <2>3. g = [n \in 0..L |-> g[n]]
    OBVIOUS
  <2>4. \A n \in 0..L : g[n] = IF n = 0 THEN NoCondition ELSE ConditionTurn(g[n - 1], rest[n])
    BY <1>1, <2>1, <2>2 DEF IsLoop
  <2>5. IsAfter(g)
    BY <2>3, <2>4
  <2> QED BY <2>5
<1>6. IsAfter(ConditionsAfter(rest))
  BY <1>5 DEF ConditionsAfter, L
<1> DEFINE f == ConditionsAfter(rest)
<1>7. f[0] = NoCondition /\ \A n \in 1..L : f[n] = ConditionTurn(f[n - 1], rest[n])
  BY <1>1, <1>6
<1> HIDE DEF f
<1>8. \A n \in 0..L : f[n] \in S
  <2> DEFINE T == {n \in 0..L : f[n] \in S}
  <2>1. 0 \in T
    BY <1>1, <1>2, <1>7
  <2>2. ASSUME NEW n \in 0..(L - 1), n \in T PROVE n + 1 \in T
    <3>1. n + 1 \in 1..L /\ (n + 1) - 1 = n
      BY <1>1
    <3>2. f[n + 1] = ConditionTurn(f[n], rest[n + 1])
      BY <1>7, <3>1
    <3> QED BY <1>3, <2>2, <3>1, <3>2
  <2> HIDE DEF T
  <2>3. \A n \in 0..L : n \in T
    BY <1>1, <2>1, <2>2, LoopInduction
  <2> QED BY <2>3 DEF T
<1> QED BY <1>7, <1>8 DEF L, S, f

\* The first n arguments as DescribedGroups describes them, except that the
\* condition for the last --or may be still to come.
GroupsSoFar(rest, n) ==
  /\ n > 0 => rest[1].kind = "plain"
  /\ \A i \in 1..n :
       /\ rest[i].kind \in {"plain", "or", "or="}
       /\ rest[i].kind = "plain" /\ i > 1 => rest[i - 1].kind = "or"
       /\ rest[i].kind = "or" /\ i < n => rest[i + 1].kind = "plain"
       /\ rest[i].kind = "or=" => rest[i].value # <<>>

\* The places, up to n, of the alternatives.
AlternativePlaces(rest, n) == {i \in 1..n : rest[i].kind # "or"}

ConditionsInv(rest, n, s) ==
  /\ ~s.failed <=> GroupsSoFar(rest, n)
  /\ ~s.failed =>
       /\ s.hasCondition <=> n > 0
       /\ s.pendingOR <=> n > 0 /\ rest[n].kind = "or"
       /\ s.values = ValuesOf(Keeping(rest, AlternativePlaces(rest, n)))

LEMMA ValuesOfNext ==
  ASSUME NEW A, NEW s \in Seq(A), NEW a \in A
  PROVE  ValuesOf(Append(s, a)) = Append(ValuesOf(s), a.value)
<1> DEFINE V == {b.value : b \in A}
           v == ValuesOf(s)
           w == ValuesOf(Append(s, a))
<1>1. Append(s, a) \in Seq(A) /\ Len(Append(s, a)) = Len(s) + 1 /\ Len(s) \in Nat
  OBVIOUS
<1>2. /\ v \in Seq(V) /\ Len(v) = Len(s)
      /\ \A k \in 1..Len(s) : v[k] = s[k].value
  BY <1>1 DEF ValuesOf
<1>3. /\ w \in Seq(V) /\ Len(w) = Len(s) + 1
      /\ \A k \in 1..(Len(s) + 1) : w[k] = Append(s, a)[k].value
  <2>1. DOMAIN Append(s, a) = 1..(Len(s) + 1) /\ \A k \in 1..(Len(s) + 1) : Append(s, a)[k] \in A
    BY <1>1
  <2>2. w = [k \in 1..(Len(s) + 1) |-> Append(s, a)[k].value]
    BY <2>1 DEF ValuesOf
  <2>3. \A k \in 1..(Len(s) + 1) : Append(s, a)[k].value \in V
    BY <2>1
  <2> HIDE DEF w, V
  <2>4. w \in [1..(Len(s) + 1) -> V]
    BY <2>2, <2>3
  <2> QED BY <1>1, <2>2, <2>4
<1>4. a.value \in V
  OBVIOUS
<1> HIDE DEF v, w, V
<1>5. /\ Append(v, a.value) \in Seq(V) /\ Len(Append(v, a.value)) = Len(s) + 1
      /\ \A k \in 1..Len(s) : Append(v, a.value)[k] = v[k]
      /\ Append(v, a.value)[Len(s) + 1] = a.value
  BY <1>1, <1>2, <1>4
<1>6. \A k \in 1..(Len(s) + 1) : w[k] = Append(v, a.value)[k]
  <2>1. \A k \in 1..Len(s) : Append(s, a)[k] = s[k]
    BY <1>1
  <2>2. Append(s, a)[Len(s) + 1] = a
    BY <1>1
  <2>3. \A k \in 1..(Len(s) + 1) : k \in 1..Len(s) \/ k = Len(s) + 1
    BY <1>1
  <2> QED BY <1>2, <1>3, <1>5, <2>1, <2>2, <2>3
<1>7. w = Append(v, a.value)
  <2> DEFINE u == Append(v, a.value)
  <2>1. u \in Seq(V) /\ Len(u) = Len(s) + 1 /\ \A k \in 1..(Len(s) + 1) : w[k] = u[k]
    BY <1>5, <1>6
  <2> HIDE DEF u
  <2>2. w = u
    BY <1>1, <1>3, <2>1
  <2> QED BY <2>2 DEF u
<1> QED BY <1>7 DEF v, w

LEMMA AlternativePlacesNext ==
  ASSUME NEW A, NEW rest \in Seq(A), NEW n \in 0..(Len(rest) - 1)
  PROVE  LET arg    == rest[n + 1]
             before == Keeping(rest, AlternativePlaces(rest, n))
             now    == Keeping(rest, AlternativePlaces(rest, n + 1))
         IN  IF arg.kind = "or" THEN now = before
             ELSE ValuesOf(now) = Append(ValuesOf(before), arg.value)
<1> DEFINE arg    == rest[n + 1]
           before == Keeping(rest, AlternativePlaces(rest, n))
           now    == Keeping(rest, AlternativePlaces(rest, n + 1))
<1>1. /\ n + 1 \in 1..Len(rest) /\ Len(rest) \in Nat /\ arg \in A
      /\ 1..(n + 1) = (1..n) \cup {n + 1}
  OBVIOUS
<1>2. AlternativePlaces(rest, n) \in SUBSET (1..n)
  BY DEF AlternativePlaces
<1>3. CASE arg.kind = "or"
  <2>1. AlternativePlaces(rest, n + 1) = AlternativePlaces(rest, n)
    BY <1>1, <1>3 DEF AlternativePlaces
  <2> QED BY <1>3, <2>1
<1>4. CASE arg.kind # "or"
  <2>1. AlternativePlaces(rest, n + 1) = AlternativePlaces(rest, n) \cup {n + 1}
    BY <1>1, <1>4 DEF AlternativePlaces
  <2>2. before \in Seq(A) /\ now = Append(before, arg)
    BY <1>2, <2>1, KeepingNext
  <2> HIDE DEF before, now, arg
  <2>3. ValuesOf(now) = Append(ValuesOf(before), arg.value)
    BY <1>1, <2>2, ValuesOfNext
  <2> QED BY <1>4, <2>3 DEF before, now, arg
<1> QED BY <1>3, <1>4

LEMMA ConditionsStep ==
  ASSUME NEW A, NEW rest \in Seq(A), NEW n \in 0..(Len(rest) - 1),
         NEW s \in ConditionStates({a.value : a \in A}), ConditionsInv(rest, n, s)
  PROVE  ConditionsInv(rest, n + 1, ConditionTurn(s, rest[n + 1]))
<1> DEFINE arg == rest[n + 1]
           t == ConditionTurn(s, arg)
<1>1. /\ n \in Nat /\ n + 1 \in 1..Len(rest) /\ Len(rest) \in Nat /\ n + 1 > 0
      /\ 1..(n + 1) = (1..n) \cup {n + 1} /\ n + 1 \notin 1..n
      /\ \A i \in 1..n : i \in Int /\ i < n + 1 /\ i <= n
  OBVIOUS
<1>2. s.failed \in BOOLEAN /\ s.hasCondition \in BOOLEAN /\ s.pendingOR \in BOOLEAN
  BY DEF ConditionStates
<1>3. GroupsSoFar(rest, n + 1) => GroupsSoFar(rest, n)
  BY <1>1 DEF GroupsSoFar
<1>4. CASE s.failed
  <2>1. t.failed
    BY <1>4 DEF ConditionTurn, ConditionStates
  <2> QED BY <1>3, <1>4, <2>1 DEF ConditionsInv
<1>5. CASE ~s.failed
  <2>1. /\ GroupsSoFar(rest, n)
        /\ s.hasCondition <=> n > 0
        /\ s.pendingOR <=> n > 0 /\ rest[n].kind = "or"
        /\ s.values = ValuesOf(Keeping(rest, AlternativePlaces(rest, n)))
    BY <1>5 DEF ConditionsInv
  <2>2. n > 0 => n \in 1..n
    BY <1>1
  <2>3. WellPlaced(s, arg) <=> GroupsSoFar(rest, n + 1)
    <3>1. WellPlaced(s, arg) <=>
            /\ arg.kind \in {"plain", "or", "or="}
            /\ arg.kind = "plain" => (n > 0 => rest[n].kind = "or")
            /\ arg.kind \in {"or", "or="} => n > 0 /\ ~(rest[n].kind = "or")
            /\ arg.kind = "or=" => arg.value # <<>>
      <4>1. CASE arg.kind = "plain"
        BY <1>2, <2>1, <4>1 DEF WellPlaced
      <4>2. CASE arg.kind = "or"
        BY <1>2, <2>1, <4>2 DEF WellPlaced
      <4>3. CASE arg.kind = "or="
        BY <1>2, <2>1, <4>3 DEF WellPlaced
      <4>4. CASE arg.kind \notin {"plain", "or", "or="}
        BY <4>4 DEF WellPlaced
      <4> QED BY <4>1, <4>2, <4>3, <4>4
    <3>2. GroupsSoFar(rest, n + 1) <=>
            /\ n = 0 => arg.kind = "plain"
            /\ n > 0 /\ rest[n].kind = "or" => arg.kind = "plain"
            /\ arg.kind \in {"plain", "or", "or="}
            /\ arg.kind = "plain" /\ n > 0 => rest[n].kind = "or"
            /\ arg.kind = "or=" => arg.value # <<>>
      BY <1>1, <2>1, <2>2 DEF GroupsSoFar
    <3>3. n = 0 <=> ~(n > 0)
      BY <1>1
    <3> HIDE DEF arg
    <3> QED BY <3>1, <3>2, <3>3, Zenon
  <2>4. CASE ~WellPlaced(s, arg)
    <3>1. t.failed
      BY <2>4 DEF ConditionTurn, ConditionStates
    <3> QED BY <2>3, <2>4, <3>1 DEF ConditionsInv
  <2>5. CASE WellPlaced(s, arg)
    <3>1. /\ t.failed = FALSE /\ t.hasCondition = TRUE /\ t.pendingOR = (arg.kind = "or")
          /\ t.values = IF arg.kind = "or" THEN s.values ELSE Append(s.values, arg.value)
      BY <1>5, <2>5 DEF ConditionTurn
    <3>2. t.values = ValuesOf(Keeping(rest, AlternativePlaces(rest, n + 1)))
      <4>1. CASE arg.kind = "or"
        BY <2>1, <3>1, <4>1, AlternativePlacesNext
      <4>2. CASE arg.kind # "or"
        BY <2>1, <3>1, <4>2, AlternativePlacesNext
      <4> QED BY <4>1, <4>2
    <3>3. t.pendingOR <=> n + 1 > 0 /\ arg.kind = "or"
      BY <1>1, <3>1
    <3>4. ~t.failed /\ t.hasCondition
      BY <3>1
    <3> HIDE DEF t
    <3> QED BY <1>1, <2>3, <2>5, <3>2, <3>3, <3>4 DEF ConditionsInv, t
  <2> QED BY <2>4, <2>5
<1> QED BY <1>2, <1>4, <1>5

\* The groups are accepted exactly if they are as described, and their values are
\* those of the alternatives.
LEMMA GroupsAsDescribed ==
  ASSUME NEW A, NEW rest \in Seq(A)
  PROVE  LET scan == parseConditionArguments(rest)
         IN  /\ ~scan.failed /\ ~scan.pendingOR <=> DescribedGroups(rest)
             /\ ~scan.failed => scan.values = ValuesOf(AlternativesOf(rest))
<1> DEFINE L == Len(rest)
           after == ConditionsAfter(rest)
           T == {n \in 0..L : ConditionsInv(rest, n, after[n])}
<1>1. L \in Nat /\ L \in 0..L /\ DOMAIN rest = 1..L /\ (rest = <<>> <=> L = 0)
  OBVIOUS
<1>2. /\ after[0] = NoCondition
      /\ \A n \in 0..L : after[n] \in ConditionStates({a.value : a \in A})
  BY ConditionsLoop
<1>3. \A n \in 1..L : after[n] = ConditionTurn(after[n - 1], rest[n])
  BY ConditionsLoop
<1> HIDE DEF after
<1>4. 0 \in T
  <2>1. AlternativePlaces(rest, 0) = {} /\ 1..0 = {} /\ ~(0 > 0)
    BY DEF AlternativePlaces
  <2>2. GroupsSoFar(rest, 0)
    BY <2>1 DEF GroupsSoFar
  <2>3. ValuesOf(<<>>) = <<>>
    BY DEF ValuesOf
  <2>4. /\ ~NoCondition.failed /\ ~NoCondition.hasCondition /\ ~NoCondition.pendingOR
        /\ NoCondition.values = ValuesOf(Keeping(rest, AlternativePlaces(rest, 0)))
    BY <2>1, <2>3, KeepingNone DEF NoCondition
  <2>5. ConditionsInv(rest, 0, NoCondition)
    BY ONLY <2>1, <2>2, <2>4 DEF ConditionsInv
  <2> QED BY <1>1, <1>2, <2>5
<1>5. ASSUME NEW n \in 0..(L - 1), n \in T PROVE n + 1 \in T
  <2>1. n + 1 \in 1..L /\ n + 1 \in 0..L /\ n \in 0..L /\ (n + 1) - 1 = n
    BY <1>1
  <2>2. after[n + 1] = ConditionTurn(after[n], rest[n + 1])
    BY <1>3, <2>1
  <2> QED BY <1>2, <1>5, <2>1, <2>2, ConditionsStep
<1> HIDE DEF T
<1>6. L \in T
  BY <1>1, <1>4, <1>5, LoopInduction
<1>7. ConditionsInv(rest, L, after[L]) /\ after[L] \in ConditionStates({a.value : a \in A})
  BY <1>1, <1>2, <1>6 DEF T
<1>8. AlternativesOf(rest) = Keeping(rest, AlternativePlaces(rest, L))
  BY <1>1 DEF AlternativesOf, AlternativePlaces
<1>9. CASE rest = <<>>
  <2>1. parseConditionArguments(rest).failed
    BY <1>9 DEF parseConditionArguments, NoCondition
  <2>2. ~DescribedGroups(rest)
    BY <1>9 DEF DescribedGroups
  <2> QED BY <2>1, <2>2
<1>10. CASE rest # <<>>
  <2> HIDE DEF L
  <2>1. parseConditionArguments(rest) = after[L]
    BY <1>10 DEF parseConditionArguments, after, L
  <2>2. L \in 1..L /\ L > 0 /\ \A i \in 1..L : i \in Int /\ (i < L \/ i = L) /\ ~(L < L)
    BY <1>1, <1>10
  <2>3. DescribedGroups(rest) <=> GroupsSoFar(rest, L) /\ rest[L].kind # "or"
    <3>1. ASSUME NEW i \in 1..L
          PROVE  (CASE rest[i].kind = "plain" -> i > 1 => rest[i - 1].kind = "or"
                    [] rest[i].kind = "or"    -> i < L /\ rest[i + 1].kind = "plain"
                    [] rest[i].kind = "or="   -> rest[i].value # <<>>
                    [] OTHER                  -> FALSE) <=>
                 /\ rest[i].kind \in {"plain", "or", "or="}
                 /\ rest[i].kind = "plain" /\ i > 1 => rest[i - 1].kind = "or"
                 /\ rest[i].kind = "or" => i < L /\ rest[i + 1].kind = "plain"
                 /\ rest[i].kind = "or=" => rest[i].value # <<>>
      OBVIOUS
    <3>2. DescribedGroups(rest) <=>
            /\ rest[1].kind = "plain"
            /\ \A i \in 1..L :
                 /\ rest[i].kind \in {"plain", "or", "or="}
                 /\ rest[i].kind = "plain" /\ i > 1 => rest[i - 1].kind = "or"
                 /\ rest[i].kind = "or" => i < L /\ rest[i + 1].kind = "plain"
                 /\ rest[i].kind = "or=" => rest[i].value # <<>>
      BY <1>1, <1>10, <3>1 DEF DescribedGroups, L
    <3> QED BY <2>2, <3>2 DEF GroupsSoFar
  <2> QED BY <1>7, <1>8, <2>1, <2>2, <2>3 DEF ConditionsInv
<1> QED BY <1>9, <1>10

-----------------------------------------------------------------------------
(***************************************************************************)
(* What Parse accepts.                                                     *)
(***************************************************************************)

LEMMA KeptElements ==
  ASSUME NEW S, NEW s \in Seq(S), NEW I \in SUBSET (1..Len(s))
  PROVE  /\ Keeping(s, I) \in Seq(S)
         /\ \A a \in ToSet(Keeping(s, I)) : \E i \in I : a = s[i]
         /\ \A i \in I : s[i] \in ToSet(Keeping(s, I))
<1> DEFINE k == Keeping(s, I)
<1>1. Len(s) \in Nat /\ \A i \in I : s[i] \in S
  OBVIOUS
<1>2. Cardinality(I) \in Nat
  BY <1>1, PlacesFinite
<1>3. DOMAIN k = 1..Cardinality(I) /\ k = [n \in 1..Cardinality(I) |-> k[n]]
  BY DEF Keeping
<1>4. ASSUME NEW n \in 1..Cardinality(I) PROVE \E i \in I : Rank(I, i) = n /\ k[n] = s[i]
  <2>1. PICK m \in Nat : I \in SUBSET (1..m)
    BY <1>1
  <2> QED BY <2>1, KeptFrom, Zenon
<1>5. ASSUME NEW i \in I PROVE \E n \in 1..Cardinality(I) : Rank(I, i) = n /\ k[n] = s[i]
  <2>1. PICK m \in Nat : I \in SUBSET (1..m)
    BY <1>1
  <2> QED BY <2>1, KeptAt, Zenon
<1> HIDE DEF k
<1>6. k \in Seq(S)
  <2>1. \A n \in 1..Cardinality(I) : k[n] \in S
    BY <1>1, <1>4
  <2>2. k \in [1..Cardinality(I) -> S]
    BY <1>3, <2>1
  <2> QED BY <1>2, <2>2
<1>7. \A a \in ToSet(k) : \E i \in I : a = s[i]
  BY <1>3, <1>4 DEF ToSet
<1>8. \A i \in I : s[i] \in ToSet(k)
  BY <1>3, <1>5 DEF ToSet
<1> QED BY <1>6, <1>7, <1>8 DEF k

\* The arguments without --events-fd are arguments, and so are the alternatives.
LEMMA RestElements ==
  ASSUME NEW args, IsCommandLine(args)
  PROVE  /\ WithoutFD(args) \in Seq(ToSet(args))
         /\ \A a \in ToSet(WithoutFD(args)) : a.kind # "fd=" /\ IsArgument(a)
         /\ \A i \in DOMAIN args :
              args[i].kind \notin {"fd", "fd=", "plain"} => args[i] \in ToSet(WithoutFD(args))
<1> DEFINE I == OtherPlaces(args, Len(args))
<1>1. args \in Seq(ToSet(args)) /\ DOMAIN args = 1..Len(args)
      /\ \A n \in 1..Len(args) : IsArgument(args[n])
  BY CommandLineElements DEF IsCommandLine
<1>2. WithoutFD(args) = Keeping(args, I)
  BY <1>1 DEF WithoutFD, OtherPlaces
<1>3. I \in SUBSET (1..Len(args)) /\ \A i \in I : args[i].kind # "fd="
  BY DEF OtherPlaces
<1>4. \A i \in DOMAIN args : args[i].kind \notin {"fd", "fd=", "plain"} => i \in I
  BY <1>1 DEF OtherPlaces, FDValues
<1> HIDE DEF I
<1>5. /\ Keeping(args, I) \in Seq(ToSet(args))
      /\ \A a \in ToSet(Keeping(args, I)) : \E i \in I : a = args[i]
      /\ \A i \in I : args[i] \in ToSet(Keeping(args, I))
  BY <1>1, <1>3, KeptElements
<1> QED BY <1>1, <1>2, <1>3, <1>4, <1>5

LEMMA AlternativeElements ==
  ASSUME NEW args, IsCommandLine(args)
  PROVE  /\ Alternatives(args) \in Seq(ToSet(args))
         /\ \A a \in ToSet(Alternatives(args)) :
              a \in ToSet(WithoutFD(args)) /\ a.kind # "or" /\ a.kind # "fd=" /\ IsArgument(a)
<1> DEFINE rest == WithoutFD(args)
           I == {i \in DOMAIN rest : rest[i].kind # "or"}
<1>1. /\ rest \in Seq(ToSet(args))
      /\ \A a \in ToSet(rest) : a.kind # "fd=" /\ IsArgument(a)
  BY RestElements
<1> HIDE DEF rest
<1>2. DOMAIN rest = 1..Len(rest) /\ \A i \in DOMAIN rest : rest[i] \in ToSet(rest)
  BY <1>1 DEF ToSet
<1>3. I \in SUBSET (1..Len(rest)) /\ \A i \in I : rest[i] \in ToSet(rest) /\ rest[i].kind # "or"
  BY <1>2
<1>4. Alternatives(args) = Keeping(rest, I)
  BY DEF Alternatives, AlternativesOf, rest
<1> HIDE DEF I
<1>5. /\ Keeping(rest, I) \in Seq(ToSet(args))
      /\ \A a \in ToSet(Keeping(rest, I)) : \E i \in I : a = rest[i]
  BY <1>1, <1>3, KeptElements
<1> QED BY <1>1, <1>3, <1>4, <1>5 DEF rest

LEMMA MembersGivenType ==
  ASSUME NEW args, IsCommandLine(args) PROVE \A m \in MembersGiven(args) : IsMember(m)
<1> DEFINE alternatives == Alternatives(args)
<1>1. \A a \in ToSet(alternatives) : a.kind # "fd=" /\ IsArgument(a)
  BY AlternativeElements
<1>2. ASSUME NEW m \in MembersGiven(args) PROVE IsMember(m)
  <2> HIDE DEF alternatives
  <2>1. PICK g \in DOMAIN alternatives : m \in ToSet(alternatives[g].value)
    BY <1>2 DEF MembersGiven, alternatives
  <2>2. alternatives[g] \in ToSet(alternatives)
    BY DEF ToSet
  <2> QED BY <1>1, <2>1, <2>2 DEF IsArgument
<1> QED BY <1>2

\* A duration that does not begin with a minus is one that is not negative, except
\* for a zero that does.
LEMMA DurationAsDescribed ==
  ASSUME NEW m, IsMember(m), m.kind = "duration"
  PROVE  ~m.value.minus <=> ParseDuration(m.value) >= 0 /\ ~MinusZero(m)
<1>1. PICK minus \in BOOLEAN, count \in Nat, unit \in {"ms", "s"} :
        m.value.minus = minus /\ m.value.count = count /\ m.value.unit = unit
  BY DEF IsMember
<1>2. PICK factor \in {1, 1000} : Milliseconds[unit] = factor
  BY DEF Milliseconds
<1>3. ParseDuration(m.value) = IF minus THEN -(count * factor) ELSE count * factor
  BY <1>1, <1>2 DEF ParseDuration
<1>4. count * factor \in Nat /\ (count * factor = 0 <=> count = 0)
  BY <1>2
<1>5. ~minus <=> ParseDuration(m.value) >= 0 /\ ~(minus /\ ParseDuration(m.value) = 0)
  BY <1>3, <1>4
<1> QED BY <1>1, <1>5 DEF MinusZero

\* The validation of a member accepts the forms that are described, but for a zero
\* with a minus, if the zone does not change twice within the time it changes by.
LEMMA SyntaxAsDescribed ==
  ASSUME NEW zone, IsZone(zone), Settled(zone), NEW m, IsMember(m)
  PROVE  ValidSyntax(m, zone) <=> DescribedMember(m, zone) /\ ~MinusZero(m)
<1>0. m.kind # "duration" => ~MinusZero(m)
  BY DEF MinusZero
<1>1. CASE m.kind = "local"
  <2>1. m.value \in Int
    BY <1>1 DEF IsMember
  <2>2. IsLocalTime(zone, m.value) <=> InstantsOf(zone, m.value) # {}
    BY <2>1, RefusesOnlySkipped
  <2>3. ValidSyntax(m, zone) <=> IsLocalTime(zone, m.value)
    BY <1>1 DEF ValidSyntax
  <2>4. DescribedMember(m, zone) <=> InstantsOf(zone, m.value) # {}
    BY <1>1 DEF DescribedMember
  <2> QED BY <1>0, <1>1, <2>2, <2>3, <2>4
<1>2. CASE m.kind = "duration"
  <2>1. ValidSyntax(m, zone) <=> ~m.value.minus
    BY <1>2 DEF ValidSyntax
  <2>2. DescribedMember(m, zone) <=> ParseDuration(m.value) >= 0
    BY <1>2 DEF DescribedMember
  <2> QED BY <1>2, <2>1, <2>2, DurationAsDescribed
<1>3. CASE m.kind = "file"
  BY <1>0, <1>3 DEF ValidSyntax, DescribedMember
<1>4. CASE m.kind \notin {"local", "duration", "file"}
  BY <1>0, <1>4 DEF ValidSyntax, DescribedMember
<1> QED BY <1>1, <1>2, <1>3, <1>4

\* The checks of Parse in order.
LEMMA ParseInOrder ==
  ASSUME NEW args, IsCommandLine(args), NEW zone, NEW platform
  PROVE  LET parsed    == Parse(args, zone, platform)
             described == DescribedFD(args) /\ DescribedGroups(WithoutFD(args))
             valid     == \A m \in MembersGiven(args) : ValidSyntax(m, zone)
             supported == \A m \in MembersGiven(args) : Supported(m, platform)
         IN  /\ parsed.error = "none" <=> described /\ valid /\ supported
             /\ parsed.error = "capability" <=> described /\ valid /\ ~supported
             /\ parsed.error = "none" =>
                  LET plan == canonicalPlan(ValuesOf(Alternatives(args)), zone)
                  IN  parsed.conditions = plan.conditions /\ parsed.groups = plan.groups
<1> DEFINE options == parseEventsFDOptions(args)
           scan == parseConditionArguments(options.rest)
           members == MembersOf(scan.values)
           plan == canonicalPlan(scan.values, zone)
           parsed == Parse(args, zone, platform)
<1>1. /\ ~options.failed /\ ~options.awaiting <=> DescribedFD(args)
      /\ ~options.failed => options.rest = WithoutFD(args)
      /\ options \in EventsFDStates(ToSet(args))
  BY OptionsAsDescribed
<1> HIDE DEF options
<1>2. options.rest \in Seq(ToSet(args))
  BY <1>1 DEF EventsFDStates
<1>3. /\ ~scan.failed /\ ~scan.pendingOR <=> DescribedGroups(options.rest)
      /\ ~scan.failed => scan.values = ValuesOf(AlternativesOf(options.rest))
  BY <1>2, GroupsAsDescribed
<1>4. parsed = IF options.failed \/ options.awaiting THEN Refused("options")
               ELSE IF scan.failed \/ scan.pendingOR THEN Refused("grammar")
               ELSE IF \E m \in members : ~ValidSyntax(m, zone) THEN Refused("syntax")
               ELSE IF \E m \in members : ~Supported(m, platform) THEN Refused("capability")
               ELSE [error |-> "none", conditions |-> plan.conditions, groups |-> plan.groups,
                     fdSet |-> options.fdSet]
  BY DEF Parse, options
<1> HIDE DEF scan
<1>5. ASSUME DescribedFD(args), DescribedGroups(WithoutFD(args))
      PROVE  /\ ~(options.failed \/ options.awaiting) /\ ~(scan.failed \/ scan.pendingOR)
             /\ scan.values = ValuesOf(Alternatives(args)) /\ members = MembersGiven(args)
  <2>1. /\ ~(options.failed \/ options.awaiting) /\ ~(scan.failed \/ scan.pendingOR)
        /\ scan.values = ValuesOf(Alternatives(args))
    BY <1>1, <1>3, <1>5 DEF Alternatives
  <2> DEFINE alternatives == Alternatives(args)
  <2> HIDE DEF alternatives
  <2>2. MembersOf(ValuesOf(alternatives)) =
          UNION {ToSet(alternatives[g].value) : g \in DOMAIN alternatives}
    BY DEF MembersOf, ValuesOf
  <2>3. MembersOf(ValuesOf(Alternatives(args))) = MembersGiven(args)
    BY <2>2 DEF alternatives, MembersGiven
  <2> QED BY <2>1, <2>3
<1>6. CASE DescribedFD(args) /\ DescribedGroups(WithoutFD(args))
  <2> DEFINE given == MembersGiven(args)
             valid == \A m \in given : ValidSyntax(m, zone)
             supported == \A m \in given : Supported(m, platform)
             p == canonicalPlan(ValuesOf(Alternatives(args)), zone)
  <2>1. parsed = IF ~valid THEN Refused("syntax")
                 ELSE IF ~supported THEN Refused("capability")
                 ELSE [error |-> "none", conditions |-> p.conditions, groups |-> p.groups,
                       fdSet |-> options.fdSet]
    BY <1>4, <1>5, <1>6
  <2> HIDE DEF valid, supported, p, parsed
  <2>2. /\ parsed.error = "none" <=> valid /\ supported
        /\ parsed.error = "capability" <=> valid /\ ~supported
        /\ parsed.error = "none" => parsed.conditions = p.conditions /\ parsed.groups = p.groups
    BY <2>1 DEF Refused
  <2> QED BY <1>6, <2>2 DEF valid, supported, p, parsed
<1>7. CASE ~(DescribedFD(args) /\ DescribedGroups(WithoutFD(args)))
  <2>1. (options.failed \/ options.awaiting) \/ (scan.failed \/ scan.pendingOR)
    BY <1>1, <1>3, <1>7
  <2>2. parsed = Refused("options") \/ parsed = Refused("grammar")
    BY <1>4, <2>1
  <2> HIDE DEF parsed
  <2>3. parsed.error \notin {"none", "capability"}
    BY <2>2 DEF Refused
  <2> QED BY <1>7, <2>3 DEF parsed
<1> QED BY <1>6, <1>7

\* Parse accepts the command lines that describe.go describes, except those with a
\* zero duration that has a minus, and no others; it refuses those that name a
\* signal on Windows for that reason if nothing else is wrong in them.
THEOREM ParseAcceptsDescribed ==
  ASSUME NEW args, IsCommandLine(args), NEW zone, IsZone(zone), Settled(zone), NEW platform
  PROVE  LET members     == MembersGiven(args)
             acceptable  == Described(args, zone) /\ \A m \in members : ~MinusZero(m)
             unsupported == platform = "windows" /\ \E m \in members : m.kind = "signal"
             error       == Parse(args, zone, platform).error
         IN  /\ error = "none" <=> acceptable /\ ~unsupported
             /\ error = "capability" <=> acceptable /\ unsupported
<1> DEFINE members == MembersGiven(args)
           valid == \A m \in members : ValidSyntax(m, zone)
           supported == \A m \in members : Supported(m, platform)
           unsupported == platform = "windows" /\ \E m \in members : m.kind = "signal"
           error == Parse(args, zone, platform).error
           grammar == DescribedFD(args) /\ DescribedGroups(WithoutFD(args))
<1>1. valid <=> \A m \in members : DescribedMember(m, zone) /\ ~MinusZero(m)
  BY MembersGivenType, SyntaxAsDescribed
<1>2. supported <=> ~unsupported
  BY DEF Supported
<1>3. /\ error = "none" <=> grammar /\ valid /\ supported
      /\ error = "capability" <=> grammar /\ valid /\ ~supported
  BY ParseInOrder
<1> HIDE DEF valid, supported, unsupported, error
<1>4. /\ error = "none" <=> grammar /\ valid /\ ~unsupported
      /\ error = "capability" <=> grammar /\ valid /\ unsupported
  BY <1>2, <1>3
<1> QED BY <1>1, <1>4 DEF unsupported, error, Described

\* A command line with --version and something else is refused.
LEMMA VersionNotAccepted ==
  ASSUME NEW args, IsCommandLine(args), NEW zone, NEW platform,
         NEW i \in DOMAIN args, args[i].kind = "version"
  PROVE  Parse(args, zone, platform).error # "none"
<1> DEFINE rest == WithoutFD(args)
<1>1. args[i] \in ToSet(rest)
  BY RestElements
<1>2. PICK j \in DOMAIN rest : rest[j].kind = "version"
  BY <1>1 DEF ToSet
<1>3. ~DescribedGroups(rest)
  <2> HIDE DEF rest
  <2> QED BY <1>2 DEF DescribedGroups
<1> QED BY <1>3, ParseInOrder

-----------------------------------------------------------------------------
(***************************************************************************)
(* canonicalPlan.                                                          *)
(***************************************************************************)

LEMMA AppendFacts ==
  ASSUME NEW S, NEW s \in Seq(S), NEW a \in S
  PROVE  /\ Append(s, a) \in Seq(S) /\ Len(s) \in Nat /\ DOMAIN s = 1..Len(s)
         /\ Len(Append(s, a)) = Len(s) + 1 /\ DOMAIN Append(s, a) = (1..Len(s)) \cup {Len(s) + 1}
         /\ \A k \in 1..Len(s) : Append(s, a)[k] = s[k]
         /\ Append(s, a)[Len(s) + 1] = a
         /\ ToSet(Append(s, a)) = ToSet(s) \cup {a}
         /\ IsInjective(s) /\ a \notin ToSet(s) => IsInjective(Append(s, a))
<1> DEFINE t == Append(s, a)
           n == Len(s) + 1
<1>1. t \in Seq(S) /\ Len(s) \in Nat /\ DOMAIN s = 1..Len(s) /\ Len(t) = n
  OBVIOUS
<1>2. DOMAIN t = (1..Len(s)) \cup {n} /\ n \notin 1..Len(s)
  BY <1>1
<1>3. (\A k \in 1..Len(s) : t[k] = s[k]) /\ t[n] = a
  BY <1>1
<1> HIDE DEF t, n
<1>4. ToSet(t) = ToSet(s) \cup {a}
  BY <1>1, <1>2, <1>3 DEF ToSet
<1>5. ASSUME IsInjective(s), a \notin ToSet(s) PROVE IsInjective(t)
  <2>1. \A k \in 1..Len(s) : s[k] # a
    BY <1>1, <1>5 DEF ToSet
  <2> QED BY <1>1, <1>2, <1>3, <1>5, <2>1 DEF IsInjective
<1> QED BY <1>1, <1>2, <1>3, <1>4, <1>5 DEF t, n

\* The state of the loop over the members of a group.
MemberStates(D) == [conditions : Seq(D), group : Seq(Nat)]

\* A member that the group has changes nothing; another is the condition at the
\* index that the group gets, whether it is known already or new.
KnownOrNew(s, identity, t) ==
  IF \E i \in ToSet(s.group) : s.conditions[i] = identity THEN t = s
  ELSE /\ IF identity \in ToSet(s.conditions) THEN t.conditions = s.conditions
          ELSE t.conditions = Append(s.conditions, identity)
       /\ \E index \in DOMAIN t.conditions :
            t.conditions[index] = identity /\ t.group = Append(s.group, index)

LEMMA MemberTurnFacts ==
  ASSUME NEW D, NEW s \in MemberStates(D), NEW identity \in D
  PROVE  /\ MemberTurn(s, identity) \in MemberStates(D)
         /\ KnownOrNew(s, identity, MemberTurn(s, identity))
<1> DEFINE t == MemberTurn(s, identity)
           conditions == IF identity \in ToSet(s.conditions) THEN s.conditions
                         ELSE Append(s.conditions, identity)
           index == CHOOSE i \in DOMAIN conditions : conditions[i] = identity
<1>1. s.conditions \in Seq(D) /\ s.group \in Seq(Nat)
  BY DEF MemberStates
<1>2. conditions \in Seq(D) /\ identity \in ToSet(conditions)
  BY <1>1, AppendFacts
<1> HIDE DEF conditions
<1>3. \E i \in DOMAIN conditions : conditions[i] = identity
  BY <1>2 DEF ToSet
<1>4. index \in DOMAIN conditions /\ conditions[index] = identity
  BY <1>3
<1>5. index \in Nat
  BY <1>2, <1>4
<1>6. t = IF \E i \in ToSet(s.group) : s.conditions[i] = identity THEN s
          ELSE [conditions |-> conditions, group |-> Append(s.group, index)]
  BY DEF MemberTurn, conditions
<1> HIDE DEF index, t
<1>7. CASE \E i \in ToSet(s.group) : s.conditions[i] = identity
  BY <1>6, <1>7 DEF t, KnownOrNew
<1>8. CASE ~\E i \in ToSet(s.group) : s.conditions[i] = identity
  <2>1. t.conditions = conditions /\ t.group = Append(s.group, index)
    BY <1>6, <1>8
  <2>2. t \in MemberStates(D)
    BY <1>1, <1>2, <1>5, <1>6, <1>8 DEF MemberStates
  <2>3. IF identity \in ToSet(s.conditions) THEN t.conditions = s.conditions
        ELSE t.conditions = Append(s.conditions, identity)
    BY <2>1 DEF conditions
  <2> QED BY <1>4, <1>8, <2>1, <2>2, <2>3 DEF t, KnownOrNew
<1> QED BY <1>7, <1>8

LEMMA MembersLoop ==
  ASSUME NEW D, NEW conditions \in Seq(D), NEW identities \in Seq(D)
  PROVE  LET after == MembersAfter(conditions, identities)
         IN  /\ after[0] = [conditions |-> conditions, group |-> <<>>]
             /\ \A n \in 1..Len(identities) : after[n] = MemberTurn(after[n - 1], identities[n])
             /\ \A n \in 0..Len(identities) : after[n] \in MemberStates(D)
<1> DEFINE L == Len(identities)
           S == MemberStates(D)
           start == [conditions |-> conditions, group |-> <<>>]
           IsAfter(g) == g = [n \in 0..L |-> IF n = 0 THEN start
                                             ELSE MemberTurn(g[n - 1], identities[n])]
           turn == [n \in 1..L |-> [s \in S |-> MemberTurn(s, identities[n])]]
<1>1. L \in Nat /\ \A n \in 1..L : identities[n] \in D
  OBVIOUS
<1>2. start \in S
  BY DEF MemberStates
<1>3. \A n \in 1..L : \A s \in S : MemberTurn(s, identities[n]) \in S
  BY <1>1, MemberTurnFacts
<1> HIDE DEF L, S, start
<1>4. turn \in [1..L -> [S -> S]]
  BY <1>3
<1>5. \E g : IsAfter(g)
  <2> HIDE DEF turn
  <2>1. PICK g \in [0..L -> S] : IsLoop(g, L, start, turn)
    BY <1>1, <1>2, <1>4, LoopExists
  <2>2. ASSUME NEW n \in 1..L PROVE g[n] = MemberTurn(g[n - 1], identities[n])
    <3>1. n - 1 \in 0..L /\ g[n - 1] \in S
      BY <1>1
    <3> QED BY <2>1, <3>1 DEF turn, IsLoop
  <2>3. g = [n \in 0..L |-> g[n]]
    OBVIOUS
  <2>4. \A n \in 0..L : g[n] = IF n = 0 THEN start ELSE MemberTurn(g[n - 1], identities[n])
    BY <1>1, <2>1, <2>2 DEF IsLoop
  <2>5. IsAfter(g)
    BY <2>3, <2>4
  <2> QED BY <2>5
<1>6. IsAfter(MembersAfter(conditions, identities))
  BY <1>5 DEF MembersAfter, L, start
<1> DEFINE f == MembersAfter(conditions, identities)
<1>7. f[0] = start /\ \A n \in 1..L : f[n] = MemberTurn(f[n - 1], identities[n])
  BY <1>1, <1>6
<1> HIDE DEF f
<1>8. \A n \in 0..L : f[n] \in S
  <2> DEFINE T == {n \in 0..L : f[n] \in S}
  <2>1. 0 \in T
    BY <1>1, <1>2, <1>7
  <2>2. ASSUME NEW n \in 0..(L - 1), n \in T PROVE n + 1 \in T
    <3>1. n + 1 \in 1..L /\ (n + 1) - 1 = n
      BY <1>1
    <3>2. f[n + 1] = MemberTurn(f[n], identities[n + 1])
      BY <1>7, <3>1
    <3> QED BY <1>3, <2>2, <3>1, <3>2
  <2> HIDE DEF T
  <2>3. \A n \in 0..L : n \in T
    BY <1>1, <2>1, <2>2, LoopInduction
  <2> QED BY <2>3 DEF T
<1> QED BY <1>7, <1>8 DEF L, S, f, start

\* The group of the first n members: an index for each different one, into the
\* conditions, which have gained those that were new and nothing else.
MembersInv(conditions, identities, n, s) ==
  /\ Len(conditions) <= Len(s.conditions)
  /\ \A i \in 1..Len(conditions) : s.conditions[i] = conditions[i]
  /\ IsInjective(s.conditions)
  /\ IsInjective(s.group)
  /\ \A i \in ToSet(s.group) : i \in DOMAIN s.conditions
  /\ \A i \in ToSet(s.group) : \E k \in 1..n : s.conditions[i] = identities[k]
  /\ \A k \in 1..n : \E i \in ToSet(s.group) : s.conditions[i] = identities[k]
  /\ \A i \in DOMAIN s.conditions : i \in 1..Len(conditions) \/ i \in ToSet(s.group)

LEMMA MembersStep ==
  ASSUME NEW D, NEW conditions \in Seq(D), NEW identities \in Seq(D),
         NEW n \in 0..(Len(identities) - 1),
         NEW s \in MemberStates(D), MembersInv(conditions, identities, n, s)
  PROVE  MembersInv(conditions, identities, n + 1, MemberTurn(s, identities[n + 1]))
<1> DEFINE identity == identities[n + 1]
           t == MemberTurn(s, identity)
           c == s.conditions
           L == Len(conditions)
<1>1. /\ n \in Nat /\ identity \in D /\ L \in Nat
      /\ 1..(n + 1) = (1..n) \cup {n + 1}
  OBVIOUS
<1>2. /\ c \in Seq(D) /\ Len(c) \in Nat /\ DOMAIN c = 1..Len(c)
      /\ s.group \in Seq(Nat)
  BY DEF MemberStates
<1>3. /\ t \in MemberStates(D)
      /\ KnownOrNew(s, identity, t)
  BY <1>1, MemberTurnFacts
<1> HIDE DEF t, identity, L
<1>4. CASE \E i \in ToSet(s.group) : c[i] = identity
  <2>1. t = s
    BY <1>3, <1>4 DEF KnownOrNew
  <2>2. MembersInv(conditions, identities, n + 1, s)
    BY <1>1, <1>4 DEF MembersInv, identity
  <2> QED BY <2>1, <2>2 DEF t, identity
<1>5. CASE ~\E i \in ToSet(s.group) : c[i] = identity
  <2>1. PICK index \in DOMAIN t.conditions :
          t.conditions[index] = identity /\ t.group = Append(s.group, index)
    BY <1>3, <1>5 DEF KnownOrNew
  <2> DEFINE e == t.conditions
  <2>2. /\ e \in Seq(D) /\ Len(e) \in Nat /\ DOMAIN e = 1..Len(e) /\ index \in Nat
    BY <1>3 DEF MemberStates
  <2>3. /\ \A i \in DOMAIN c : i \in DOMAIN e /\ e[i] = c[i]
        /\ \A i \in DOMAIN e : i \in DOMAIN c \/ i = index
        /\ IsInjective(e) /\ Len(c) <= Len(e)
    <3>1. CASE identity \in ToSet(c)
      <4>1. e = c
        BY <1>3, <1>5, <3>1 DEF KnownOrNew
      <4> QED BY <1>2, <4>1 DEF MembersInv
    <3>2. CASE identity \notin ToSet(c)
      <4>1. e = Append(c, identity)
        BY <1>3, <1>5, <3>2 DEF KnownOrNew
      <4>2. /\ DOMAIN e = (1..Len(c)) \cup {Len(c) + 1} /\ Len(e) = Len(c) + 1
            /\ \A k \in 1..Len(c) : e[k] = c[k]
            /\ (IsInjective(c) /\ identity \notin ToSet(c) => IsInjective(e))
        BY <1>1, <1>2, <4>1, AppendFacts
      <4>3. IsInjective(e)
        BY <3>2, <4>2 DEF MembersInv
      <4>4. index \notin DOMAIN c
        BY <1>2, <2>1, <3>2, <4>2 DEF ToSet
      <4> HIDE DEF e, c
      <4> QED BY <1>2, <2>1, <4>2, <4>3, <4>4 DEF e
    <3> QED BY <3>1, <3>2
  <2>4. \A i \in ToSet(s.group) : i \in DOMAIN c
    BY DEF MembersInv
  <2>5. index \notin ToSet(s.group)
    BY <1>5, <2>1, <2>3, <2>4
  <2>6. /\ ToSet(t.group) = ToSet(s.group) \cup {index}
        /\ IsInjective(t.group)
    <3> DEFINE group == s.group
    <3>1. IsInjective(group) /\ group \in Seq(Nat) /\ t.group = Append(group, index)
          /\ index \notin ToSet(group)
      BY <1>2, <2>1, <2>5 DEF MembersInv
    <3> HIDE DEF group
    <3>2. /\ ToSet(Append(group, index)) = ToSet(group) \cup {index}
          /\ IsInjective(group) /\ index \notin ToSet(group) => IsInjective(Append(group, index))
      BY <2>2, <3>1, AppendFacts
    <3> QED BY <3>1, <3>2 DEF group
  <2> HIDE DEF e, c
  <2>7. L <= Len(e) /\ \A i \in 1..L : e[i] = conditions[i]
    <3>1. L <= Len(c) /\ \A i \in 1..L : c[i] = conditions[i]
      BY DEF MembersInv, L, c
    <3>2. /\ L \in Nat /\ Len(c) \in Nat /\ Len(e) \in Nat /\ Len(c) <= Len(e)
          /\ DOMAIN c = 1..Len(c)
      BY <1>1, <1>2, <2>2, <2>3 DEF c, e
    <3>3. L <= Len(e) /\ \A i \in 1..L : i \in DOMAIN c
      BY <3>1, <3>2
    <3> QED BY <2>3, <3>1, <3>3
  <2>8. \A i \in ToSet(t.group) : i \in DOMAIN e
    BY <2>1, <2>3, <2>4, <2>6 DEF e
  <2>9. \A i \in ToSet(t.group) : \E k \in 1..(n + 1) : e[i] = identities[k]
    <3>1. \A i \in ToSet(s.group) : \E k \in 1..n : c[i] = identities[k]
      BY DEF MembersInv, c
    <3>2. e[index] = identities[n + 1] /\ n + 1 \in 1..(n + 1)
      BY <1>1, <2>1 DEF e, identity
    <3> QED BY <1>1, <2>3, <2>4, <2>6, <3>1, <3>2
  <2>10. \A k \in 1..(n + 1) : \E i \in ToSet(t.group) : e[i] = identities[k]
    <3>1. \A k \in 1..n : \E i \in ToSet(s.group) : c[i] = identities[k]
      BY DEF MembersInv, c
    <3>2. e[index] = identities[n + 1]
      BY <2>1 DEF e, identity
    <3> QED BY <1>1, <2>3, <2>4, <2>6, <3>1, <3>2
  <2>11. \A i \in DOMAIN e : i \in 1..L \/ i \in ToSet(t.group)
    <3>1. \A i \in DOMAIN c : i \in 1..L \/ i \in ToSet(s.group)
      BY DEF MembersInv, c, L
    <3> QED BY <2>3, <2>6, <3>1
  <2> QED BY <2>3, <2>6, <2>7, <2>8, <2>9, <2>10, <2>11 DEF MembersInv, e, L, t, identity
<1> QED BY <1>4, <1>5

LEMMA MembersResult ==
  ASSUME NEW D, NEW conditions \in Seq(D), IsInjective(conditions), NEW identities \in Seq(D)
  PROVE  LET s == MembersAfter(conditions, identities)[Len(identities)]
         IN  s \in MemberStates(D) /\ MembersInv(conditions, identities, Len(identities), s)
<1> DEFINE L == Len(identities)
           after == MembersAfter(conditions, identities)
           start == [conditions |-> conditions, group |-> <<>>]
           T == {n \in 0..L : MembersInv(conditions, identities, n, after[n])}
<1>1. L \in Nat /\ L \in 0..L
  OBVIOUS
<1>2. /\ after[0] = start
      /\ \A n \in 1..L : after[n] = MemberTurn(after[n - 1], identities[n])
      /\ \A n \in 0..L : after[n] \in MemberStates(D)
  BY MembersLoop
<1> HIDE DEF after
<1>3. 0 \in T
  <2>1. ToSet(<<>>) = {} /\ IsInjective(<<>>)
    BY DEF ToSet, IsInjective
  <2>2. 1..0 = {} /\ DOMAIN conditions = 1..Len(conditions) /\ Len(conditions) <= Len(conditions)
    OBVIOUS
  <2>3. start.conditions = conditions /\ start.group = <<>>
    OBVIOUS
  <2> HIDE DEF start
  <2>4. MembersInv(conditions, identities, 0, start)
    BY <2>1, <2>2, <2>3 DEF MembersInv
  <2> QED BY <1>1, <1>2, <2>4
<1>4. ASSUME NEW n \in 0..(L - 1), n \in T PROVE n + 1 \in T
  <2>1. n + 1 \in 1..L /\ n + 1 \in 0..L /\ n \in 0..L /\ (n + 1) - 1 = n
    BY <1>1
  <2>2. after[n + 1] = MemberTurn(after[n], identities[n + 1])
    BY <1>2, <2>1
  <2> QED BY <1>2, <1>4, <2>1, <2>2, MembersStep
<1> HIDE DEF T
<1>5. L \in T
  BY <1>1, <1>3, <1>4, LoopInduction
<1> QED BY <1>1, <1>2, <1>5 DEF T, after

\* The state of the loop over the groups.
PlanStates(D) == [conditions : Seq(D), groups : Seq(Seq(Nat))]

\* A group of indices stands for the identities, each once.
StandsFor(conditions, group, identities) ==
  /\ IsInjective(group)
  /\ \A i \in ToSet(group) :
       i \in DOMAIN conditions /\ \E k \in DOMAIN identities : conditions[i] = identities[k]
  /\ \A k \in DOMAIN identities : \E i \in ToSet(group) : conditions[i] = identities[k]

\* The plan of the first n groups.
PlanInv(groups, n, plan) ==
  /\ Len(plan.groups) = n
  /\ IsInjective(plan.conditions)
  /\ \A g \in 1..n : StandsFor(plan.conditions, plan.groups[g], groups[g])
  /\ \A i \in DOMAIN plan.conditions : \E g \in 1..n : i \in ToSet(plan.groups[g])

\* One group: its own, and no change to what the earlier ones stand for.
LEMMA PlanStep ==
  ASSUME NEW D, NEW groups \in Seq(Seq(D)), NEW n \in 0..(Len(groups) - 1),
         NEW plan \in PlanStates(D), PlanInv(groups, n, plan)
  PROVE  LET t == GroupTurn(plan, groups[n + 1])
         IN  t \in PlanStates(D) /\ PlanInv(groups, n + 1, t)
<1> DEFINE identities == groups[n + 1]
           s == MembersAfter(plan.conditions, identities)[Len(identities)]
           t == GroupTurn(plan, identities)
           c == plan.conditions
           d == s.conditions
<1>1. /\ n \in Nat /\ identities \in Seq(D) /\ 1..(n + 1) = (1..n) \cup {n + 1}
      /\ DOMAIN identities = 1..Len(identities)
  OBVIOUS
<1>2. /\ c \in Seq(D) /\ DOMAIN c = 1..Len(c) /\ Len(c) \in Nat
      /\ plan.groups \in Seq(Seq(Nat)) /\ Len(plan.groups) = n
      /\ IsInjective(c)
  BY DEF PlanStates, PlanInv
<1>3. s \in MemberStates(D) /\ MembersInv(c, identities, Len(identities), s)
  BY <1>1, <1>2, MembersResult
<1>4. t.conditions = d /\ t.groups = Append(plan.groups, s.group)
      /\ t = [conditions |-> d, groups |-> Append(plan.groups, s.group)]
  BY DEF GroupTurn
<1> HIDE DEF t, s, identities
<1>5. s.group \in Seq(Nat) /\ d \in Seq(D) /\ DOMAIN d = 1..Len(d) /\ Len(d) \in Nat
  BY <1>3 DEF MemberStates
<1>6. t \in PlanStates(D)
  BY <1>2, <1>4, <1>5 DEF PlanStates
<1>7. /\ Len(t.groups) = n + 1 /\ t.groups[n + 1] = s.group
      /\ \A g \in 1..n : t.groups[g] = plan.groups[g]
  BY <1>1, <1>2, <1>4, <1>5
<1> HIDE DEF c, d
<1>8. \A i \in DOMAIN c : i \in DOMAIN d /\ d[i] = c[i]
  <2>1. Len(c) <= Len(d) /\ \A i \in 1..Len(c) : d[i] = c[i]
    BY <1>3 DEF MembersInv, d
  <2> QED BY <1>2, <1>5, <2>1
<1>9. StandsFor(d, s.group, identities)
  BY <1>1, <1>3 DEF MembersInv, StandsFor, d
<1>10. ASSUME NEW g \in 1..n PROVE StandsFor(d, plan.groups[g], groups[g])
  <2>1. StandsFor(c, plan.groups[g], groups[g])
    BY DEF PlanInv, c
  <2> QED BY <1>8, <2>1 DEF StandsFor
<1>11. \A g \in 1..(n + 1) : StandsFor(d, t.groups[g], groups[g])
  BY <1>1, <1>7, <1>9, <1>10 DEF identities
<1>12. \A i \in DOMAIN d : \E g \in 1..(n + 1) : i \in ToSet(t.groups[g])
  <2>1. \A i \in DOMAIN d : i \in DOMAIN c \/ i \in ToSet(s.group)
    BY <1>2, <1>3 DEF MembersInv, d
  <2>2. \A i \in DOMAIN c : \E g \in 1..n : i \in ToSet(plan.groups[g])
    BY DEF PlanInv, c
  <2>3. n + 1 \in 1..(n + 1)
    BY <1>1
  <2> QED BY <1>1, <1>7, <2>1, <2>2, <2>3
<1>13. IsInjective(d)
  BY <1>3 DEF MembersInv, d
<1>14. PlanInv(groups, n + 1, t)
  BY <1>4, <1>7, <1>11, <1>12, <1>13 DEF PlanInv
<1> QED BY <1>6, <1>14 DEF t, identities

\* The typing of the loop does not come without its invariant: what MembersAfter
\* returns is known for conditions without repetition.
LEMMA PlanLoop ==
  ASSUME NEW D, NEW groups \in Seq(Seq(D))
  PROVE  LET plan == GroupsAfter(groups)[Len(groups)]
         IN  plan \in PlanStates(D) /\ PlanInv(groups, Len(groups), plan)
<1> DEFINE L == Len(groups)
           S == PlanStates(D)
           start == [conditions |-> <<>>, groups |-> <<>>]
           IsAfter(g) == g = [n \in 0..L |-> IF n = 0 THEN start ELSE GroupTurn(g[n - 1], groups[n])]
           turn == [n \in 1..L |-> [p \in S |-> IF PlanInv(groups, n - 1, p)
                                                THEN GroupTurn(p, groups[n]) ELSE start]]
<1>1. L \in Nat /\ L \in 0..L
  OBVIOUS
<1>2. start \in S /\ PlanInv(groups, 0, start)
  <2>1. start \in S
    BY DEF PlanStates
  <2>2. IsInjective(<<>>) /\ DOMAIN <<>> = {} /\ 1..0 = {} /\ Len(<<>>) = 0
    BY DEF IsInjective
  <2>3. start.conditions = <<>> /\ start.groups = <<>>
    OBVIOUS
  <2> HIDE DEF start
  <2>4. PlanInv(groups, 0, start)
    BY <2>2, <2>3 DEF PlanInv
  <2> QED BY <2>1, <2>4
<1>3. ASSUME NEW n \in 0..(L - 1), NEW p \in S, PlanInv(groups, n, p)
      PROVE  GroupTurn(p, groups[n + 1]) \in S /\ PlanInv(groups, n + 1, GroupTurn(p, groups[n + 1]))
  BY <1>3, PlanStep
<1> HIDE DEF L, S, start
<1>4. turn \in [1..L -> [S -> S]]
  <2>1. ASSUME NEW n \in 1..L, NEW p \in S, PlanInv(groups, n - 1, p)
        PROVE  GroupTurn(p, groups[n]) \in S
    <3>1. n - 1 \in 0..(L - 1) /\ (n - 1) + 1 = n
      BY <1>1
    <3> QED BY <1>3, <2>1, <3>1
  <2> QED BY <1>2, <2>1
<1>5. \E g : IsAfter(g)
  <2> HIDE DEF turn
  <2>1. PICK g \in [0..L -> S] : IsLoop(g, L, start, turn)
    BY <1>1, <1>2, <1>4, LoopExists
  <2> DEFINE T == {n \in 0..L : PlanInv(groups, n, g[n])}
  <2>2. ASSUME NEW n \in 1..L, PlanInv(groups, n - 1, g[n - 1])
        PROVE  g[n] = GroupTurn(g[n - 1], groups[n])
    <3>1. n - 1 \in 0..L /\ g[n - 1] \in S
      BY <1>1
    <3> QED BY <2>1, <2>2, <3>1 DEF turn, IsLoop
  <2>3. 0 \in T
    BY <1>1, <1>2, <2>1 DEF IsLoop
  <2>4. ASSUME NEW n \in 0..(L - 1), n \in T PROVE n + 1 \in T
    <3>1. n + 1 \in 1..L /\ n + 1 \in 0..L /\ n \in 0..L /\ (n + 1) - 1 = n
      BY <1>1
    <3>2. g[n + 1] = GroupTurn(g[n], groups[n + 1]) /\ g[n] \in S
      BY <2>2, <2>4, <3>1
    <3> QED BY <1>3, <2>4, <3>1, <3>2
  <2> HIDE DEF T
  <2>5. \A n \in 0..L : n \in T
    BY <1>1, <2>3, <2>4, LoopInduction
  <2>6. ASSUME NEW n \in 1..L PROVE g[n] = GroupTurn(g[n - 1], groups[n])
    <3>1. n - 1 \in 0..L
      BY <1>1
    <3> QED BY <2>2, <2>5, <3>1 DEF T
  <2>7. g = [n \in 0..L |-> g[n]]
    OBVIOUS
  <2>8. \A n \in 0..L : g[n] = IF n = 0 THEN start ELSE GroupTurn(g[n - 1], groups[n])
    BY <1>1, <2>1, <2>6 DEF IsLoop
  <2>9. IsAfter(g)
    BY <2>7, <2>8
  <2> QED BY <2>9
<1>6. IsAfter(GroupsAfter(groups))
  BY <1>5 DEF GroupsAfter, L, start
<1> DEFINE f == GroupsAfter(groups)
<1>7. f[0] = start /\ \A n \in 1..L : f[n] = GroupTurn(f[n - 1], groups[n])
  BY <1>1, <1>6
<1> HIDE DEF f
<1> DEFINE T == {n \in 0..L : f[n] \in S /\ PlanInv(groups, n, f[n])}
<1>8. 0 \in T
  BY <1>1, <1>2, <1>7
<1>9. ASSUME NEW n \in 0..(L - 1), n \in T PROVE n + 1 \in T
  <2>1. n + 1 \in 1..L /\ n + 1 \in 0..L /\ (n + 1) - 1 = n
    BY <1>1
  <2>2. f[n + 1] = GroupTurn(f[n], groups[n + 1])
    BY <1>7, <2>1
  <2> QED BY <1>3, <1>9, <2>1, <2>2
<1> HIDE DEF T
<1>10. L \in T
  BY <1>1, <1>8, <1>9, LoopInduction
<1> QED BY <1>10 DEF T, L, S, f

\* A valid member is known by what it denotes.
LEMMA IdentityDenotes ==
  ASSUME NEW zone, NEW m, IsMember(m), ValidSyntax(m, zone)
  PROVE  Identity(m, zone) = Denotes(m, zone)
<1>1. m.kind \in {"signal", "file", "duration", "rfc3339", "local"}
  BY DEF ValidSyntax
<1>2. CASE m.kind = "signal"
  <2> DEFINE named == CHOOSE name \in {"USR1", "USR2"} : m.value \in Spellings(name)
  <2>1. CASE m.value \in {"USR1", "SIGUSR1"}
    <3>1. \A name \in {"USR1", "USR2"} : m.value \in Spellings(name) <=> name = "USR1"
      BY <2>1 DEF Spellings
    <3>2. named = "USR1"
      BY <3>1
    <3> HIDE DEF named
    <3>3. canonicalSignalName(m.value) = "USR1"
      BY <2>1 DEF canonicalSignalName
    <3>4. Identity(m, zone) = <<"signal", canonicalSignalName(m.value)>>
      BY <1>2 DEF Identity
    <3>5. Denotes(m, zone) = <<"signal", named>>
      BY <1>2 DEF Denotes, named
    <3> QED BY <3>2, <3>3, <3>4, <3>5
  <2>2. CASE m.value \in {"USR2", "SIGUSR2"}
    <3>1. \A name \in {"USR1", "USR2"} : m.value \in Spellings(name) <=> name = "USR2"
      BY <2>2 DEF Spellings
    <3>2. named = "USR2"
      BY <3>1
    <3> HIDE DEF named
    <3>3. canonicalSignalName(m.value) = "USR2"
      BY <2>2 DEF canonicalSignalName
    <3>4. Identity(m, zone) = <<"signal", canonicalSignalName(m.value)>>
      BY <1>2 DEF Identity
    <3>5. Denotes(m, zone) = <<"signal", named>>
      BY <1>2 DEF Denotes, named
    <3> QED BY <3>2, <3>3, <3>4, <3>5
  <2> QED BY <1>2, <2>1, <2>2 DEF IsMember
<1>3. CASE m.kind = "file"
  BY <1>3 DEF Identity, Denotes
<1>4. CASE m.kind = "duration"
  BY <1>4 DEF Identity, Denotes
<1>5. CASE m.kind = "rfc3339"
  BY <1>5 DEF Identity, Denotes
<1>6. CASE m.kind = "local"
  BY <1>6 DEF Identity, Denotes
<1> QED BY <1>1, <1>2, <1>3, <1>4, <1>5, <1>6

\* The alternatives of a command line that is accepted have members.
LEMMA AlternativesNotEmpty ==
  ASSUME NEW args, IsCommandLine(args), DescribedGroups(WithoutFD(args))
  PROVE  \A g \in DOMAIN Alternatives(args) :
           /\ Alternatives(args)[g].value \in Seq(ToSet(Alternatives(args)[g].value))
           /\ Alternatives(args)[g].value # <<>>
<1> DEFINE rest == WithoutFD(args)
           alternatives == Alternatives(args)
<1>1. \A a \in ToSet(alternatives) :
        a \in ToSet(rest) /\ a.kind # "or" /\ a.kind # "fd=" /\ IsArgument(a)
  BY AlternativeElements
<1> HIDE DEF rest, alternatives
<1>2. ASSUME NEW i \in DOMAIN rest
      PROVE  rest[i].kind \in {"plain", "or", "or="} /\ (rest[i].kind = "or=" => rest[i].value # <<>>)
  BY DEF DescribedGroups, rest
<1>3. \A a \in ToSet(rest) : a.kind \in {"plain", "or", "or="} /\ (a.kind = "or=" => a.value # <<>>)
  BY <1>2 DEF ToSet
<1>4. ASSUME NEW a \in ToSet(alternatives) PROVE a.value \in Seq(ToSet(a.value)) /\ a.value # <<>>
  BY <1>1, <1>3 DEF IsArgument
<1>5. \A g \in DOMAIN alternatives : alternatives[g] \in ToSet(alternatives)
  BY DEF ToSet
<1> QED BY <1>4, <1>5 DEF alternatives

\* The plan of an accepted command line is the formula that was written, each
\* condition once, and none that no group needs.
THEOREM PlanMeansFormula ==
  ASSUME NEW args, IsCommandLine(args), NEW zone, NEW platform,
         Parse(args, zone, platform).error = "none"
  PROVE  MeansFormula(Parse(args, zone, platform), Alternatives(args), zone)
<1> DEFINE alternatives == Alternatives(args)
           values == ValuesOf(alternatives)
           D == {Identity(m, zone) : m \in MembersGiven(args)}
           groups == [g \in DOMAIN values |-> IdentitiesOf(values[g], zone)]
           made == GroupsAfter(groups)[Len(values)]
           plan == Parse(args, zone, platform)
<1>1. /\ DescribedGroups(WithoutFD(args))
      /\ \A m \in MembersGiven(args) : ValidSyntax(m, zone)
      /\ plan.conditions = made.conditions /\ plan.groups = made.groups
  BY ParseInOrder DEF canonicalPlan
<1>2. /\ alternatives \in Seq(ToSet(args))
      /\ \A g \in DOMAIN alternatives :
           alternatives[g].value \in Seq(ToSet(alternatives[g].value)) /\ alternatives[g].value # <<>>
  BY <1>1, AlternativeElements, AlternativesNotEmpty
<1>3. \A g \in DOMAIN alternatives : \A m \in ToSet(alternatives[g].value) :
        m \in MembersGiven(args) /\ Identity(m, zone) = Denotes(m, zone)
  <2>1. ASSUME NEW g \in DOMAIN alternatives, NEW m \in ToSet(alternatives[g].value)
        PROVE  m \in MembersGiven(args)
    BY DEF MembersGiven
  <2>2. \A m \in MembersGiven(args) : Identity(m, zone) = Denotes(m, zone)
    BY <1>1, MembersGivenType, IdentityDenotes
  <2> QED BY <2>1, <2>2
<1> HIDE DEF alternatives, plan
<1>4. /\ DOMAIN alternatives = 1..Len(alternatives) /\ Len(alternatives) \in Nat
      /\ DOMAIN values = 1..Len(alternatives)
      /\ \A g \in 1..Len(alternatives) : values[g] = alternatives[g].value
  BY <1>2 DEF ValuesOf
<1> HIDE DEF values
<1>5. ASSUME NEW g \in 1..Len(alternatives)
      PROVE  /\ groups[g] \in Seq(D) /\ groups[g] # <<>>
             /\ {groups[g][k] : k \in DOMAIN groups[g]} =
                {Denotes(m, zone) : m \in ToSet(alternatives[g].value)}
  <2> DEFINE v == alternatives[g].value
  <2>1. v \in Seq(ToSet(v)) /\ v # <<>> /\ DOMAIN v = 1..Len(v) /\ Len(v) \in Nat
    BY <1>2, <1>4
  <2>2. \A m \in ToSet(v) : Identity(m, zone) \in D /\ Identity(m, zone) = Denotes(m, zone)
    BY <1>3, <1>4
  <2>3. groups[g] = [k \in DOMAIN v |-> Identity(v[k], zone)]
    BY <1>4 DEF IdentitiesOf
  <2> HIDE DEF v, D, groups
  <2>4. \A k \in DOMAIN v : v[k] \in ToSet(v)
    BY DEF ToSet
  <2>5. groups[g] \in [1..Len(v) -> D]
    BY <2>1, <2>2, <2>3, <2>4
  <2>6. groups[g] \in Seq(D)
    BY <2>1, <2>5
  <2>7. groups[g] # <<>>
    BY <2>1, <2>3
  <2>8. {groups[g][k] : k \in DOMAIN groups[g]} = {Denotes(m, zone) : m \in ToSet(v)}
    <3>1. ToSet(v) = {v[k] : k \in DOMAIN v}
      BY DEF ToSet
    <3>2. DOMAIN groups[g] = DOMAIN v /\ \A k \in DOMAIN v : groups[g][k] = Denotes(v[k], zone)
      BY <2>2, <2>3, <2>4
    <3> QED BY <3>1, <3>2
  <2> QED BY <2>6, <2>7, <2>8 DEF v
<1>6. groups \in Seq(Seq(D)) /\ Len(groups) = Len(alternatives) /\ Len(values) = Len(groups)
  <2>1. DOMAIN groups = 1..Len(alternatives)
    BY <1>4
  <2>2. groups = [g \in 1..Len(alternatives) |-> groups[g]]
    BY <1>4
  <2> HIDE DEF groups, D
  <2>3. groups \in [1..Len(alternatives) -> Seq(D)]
    BY <1>5, <2>2
  <2>4. groups \in Seq(Seq(D)) /\ Len(groups) = Len(alternatives)
    BY <1>4, <2>3
  <2>5. Len(values) = Len(alternatives)
    BY <1>2, <1>4 DEF values, ValuesOf
  <2> QED BY <2>4, <2>5
<1> HIDE DEF groups, D
<1>7. made \in PlanStates(D) /\ PlanInv(groups, Len(alternatives), made)
  BY <1>6, PlanLoop
<1> HIDE DEF made
<1>8. /\ Len(plan.groups) = Len(alternatives) /\ IsInjective(plan.conditions)
      /\ \A g \in 1..Len(alternatives) :
           StandsFor(plan.conditions, plan.groups[g], groups[g])
      /\ \A i \in DOMAIN plan.conditions :
           \E g \in 1..Len(alternatives) : i \in ToSet(plan.groups[g])
      /\ plan.groups \in Seq(Seq(Nat))
  BY <1>1, <1>7 DEF PlanInv, PlanStates
<1>9. ASSUME NEW g \in DOMAIN alternatives
      PROVE  /\ plan.groups[g] # <<>> /\ IsInjective(plan.groups[g])
             /\ ToSet(plan.groups[g]) \subseteq DOMAIN plan.conditions
             /\ {plan.conditions[i] : i \in ToSet(plan.groups[g])} =
                {Denotes(m, zone) : m \in ToSet(alternatives[g].value)}
  <2> DEFINE group == plan.groups[g]
             c == plan.conditions
  <2>1. /\ IsInjective(group)
        /\ \A i \in ToSet(group) :
             i \in DOMAIN c /\ \E k \in DOMAIN groups[g] : c[i] = groups[g][k]
        /\ \A k \in DOMAIN groups[g] : \E i \in ToSet(group) : c[i] = groups[g][k]
    BY <1>4, <1>8 DEF StandsFor
  <2>2. /\ groups[g] # <<>> /\ groups[g] \in Seq(D)
        /\ {groups[g][k] : k \in DOMAIN groups[g]} =
           {Denotes(m, zone) : m \in ToSet(alternatives[g].value)}
    BY <1>4, <1>5
  <2> HIDE DEF group, c
  <2>3. {c[i] : i \in ToSet(group)} = {groups[g][k] : k \in DOMAIN groups[g]}
    BY <2>1
  <2>4. group # <<>>
    <3>1. \E k \in DOMAIN groups[g] : TRUE
      BY <2>2
    <3>2. \E i \in DOMAIN group : TRUE
      BY <2>1, <3>1 DEF ToSet
    <3> QED BY <3>2
  <2> QED BY <2>1, <2>2, <2>3, <2>4 DEF group, c
<1>10. DOMAIN plan.conditions = UNION {ToSet(plan.groups[g]) : g \in DOMAIN plan.groups}
  <2>1. DOMAIN plan.groups = 1..Len(alternatives)
    BY <1>8
  <2>2. \A g \in 1..Len(alternatives) : \A i \in ToSet(plan.groups[g]) : i \in DOMAIN plan.conditions
    BY <1>8 DEF StandsFor
  <2> QED BY <1>8, <2>1, <2>2
<1>11. MeansFormula(plan, alternatives, zone)
  BY <1>8, <1>9, <1>10 DEF MeansFormula
<1> QED BY <1>11 DEF alternatives, plan

=============================================================================
