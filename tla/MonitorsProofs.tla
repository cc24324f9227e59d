--------------------------- MODULE MonitorsProofs ---------------------------
(***************************************************************************)
(* Theorems about Monitors, for every duration, deadline and longest       *)
(* timer, and any number of changes, signals and settings of the clock.    *)
(***************************************************************************)
EXTENDS Monitors, TLAPS

\* Where each kind of monitor gets, and what it has emitted by then.
Progress ==
  /\ pc \in {"start", "arm"} => emitted = 0
  /\ ~GoesOn /\ pc \in {"wait", "emit"} => emitted = 0
  /\ ~GoesOn => emitted <= 1
  /\ pc = "closing" => ctxDone \/ kind = "nosignal" \/ (~GoesOn /\ emitted = 1)
  /\ pc = "arm" => kind \in {"duration", "datetime"}
  /\ kind = "nosignal" => pc \in {"start", "closing", "done"} /\ emitted = 0
  /\ kind # "signal" => caught = 0

Emitting == IF pc = "emit" THEN 1 ELSE 0

\* Besides the event under way there may be a file the next poll will find.
FileDue ==
  kind = "file" =>
    /\ emitted + Emitting + (IF regular /\ ~previous THEN 1 ELSE 0) <= risings
    /\ pc = "start" => ~previous

SignalDue ==
  kind = "signal" => emitted + caught + Emitting <= sent

\* The timer does not end before the duration, however late it was armed.
DurationDue ==
  kind = "duration" =>
    /\ ~capped
    /\ emitted > 0 \/ pc = "emit" => elapsed = Duration
    /\ pc \in {"arm", "wait"} => left + elapsed >= Duration

\* Nor does a timer that is not capped end before the deadline as reckoned.
DateTimeDue ==
  kind = "datetime" =>
    /\ emitted > 0 \/ pc = "emit" => reckoned = Deadline
    /\ pc \in {"arm", "wait"} /\ ~capped => left + reckoned >= Deadline

IInv == TypeOK /\ Progress /\ FileDue /\ SignalDue /\ DurationDue /\ DateTimeDue

-----------------------------------------------------------------------------
LEMMA AtMostType ==
  ASSUME NEW limit \in Nat, NEW n \in Nat
  PROVE  AtMost(limit, n) \in 0..limit /\ AtMost(limit, n) <= n
BY DEF AtMost

LEMMA InitInv ==
  ASSUME Init PROVE IInv
<1> USE MonitorsAssumption DEF Init
<1>1. TypeOK
  <2>1. wall \in 0..Deadline /\ 0 \in 0..Deadline
    OBVIOUS
  <2>2. regular \in BOOLEAN /\ previous \in BOOLEAN /\ risings \in Nat
    OBVIOUS
  <2>3. ctxDone \in BOOLEAN /\ reached \in BOOLEAN /\ capped \in BOOLEAN
    OBVIOUS
  <2> QED BY <2>1, <2>2, <2>3 DEF TypeOK
<1>2. Progress
  BY DEF Progress, GoesOn
<1>3. FileDue /\ SignalDue
  BY DEF FileDue, SignalDue, Emitting
<1>4. DurationDue /\ DateTimeDue
  BY DEF DurationDue, DateTimeDue
<1> QED BY <1>1, <1>2, <1>3, <1>4 DEF IInv

\* What the wall clock gives a dateTimeCondition to wait for.
LEMMA ReadWallType ==
  ASSUME TypeOK, ReadWall
  PROVE  /\ left' \in Nat /\ capped' \in BOOLEAN /\ reckoned' \in 0..Deadline
         /\ pc' \in {"emit", "arm"}
         /\ pc' = "emit" => reckoned' = Deadline
         /\ ~capped' => left' + reckoned' = Deadline
<1> DEFINE ahead == Deadline - wall
<1>1. ahead \in Nat /\ wall \in 0..Deadline /\ Deadline \in Nat /\ MaxWait \in Nat
  BY MonitorsAssumption DEF TypeOK
<1>2. /\ left' = AtMost(MaxWait, ahead) /\ capped' = (ahead > MaxWait) /\ reckoned' = wall
      /\ pc' = IF ahead = 0 THEN "emit" ELSE "arm"
  BY DEF ReadWall, Go
<1>3. left' \in Nat /\ (~(ahead > MaxWait) => left' = ahead)
  BY <1>1, <1>2 DEF AtMost
<1>4. ~capped' => left' = ahead
  BY <1>2, <1>3
<1> QED BY <1>1, <1>2, <1>3, <1>4

LEMMA TypeStep ==
  ASSUME TypeOK, [Next]_vars PROVE TypeOK'
<1> USE MonitorsAssumption DEF TypeOK, Go, common, file, signal, clocks, timer
<1>1. CASE StartFile \/ PollFile \/ StartSignal \/ TakeSignal \/ ArmTimer
  BY <1>1 DEF StartFile, PollFile, StartSignal, TakeSignal, ArmTimer
<1>2. CASE FileChanges
  BY <1>2 DEF FileChanges
<1>3. CASE SendSignal
  BY <1>3 DEF SendSignal
<1>4. CASE StartDuration
  BY <1>4 DEF StartDuration
<1>5. CASE ReadWall
  BY <1>5, ReadWallType DEF ReadWall
<1>6. CASE FireTimer
  BY <1>5, <1>6 DEF FireTimer
<1>7. CASE StartDateTime
  BY <1>5, <1>7 DEF StartDateTime
<1>8. CASE Tick
  BY <1>8, AtMostType DEF Tick
<1>9. CASE SetWall
  BY <1>9 DEF SetWall
<1>10. CASE Emit \/ Receive
  BY <1>10 DEF Emit, Receive
<1>12. CASE Abandon \/ Close
  BY <1>12 DEF Abandon, Close
<1>13. CASE Cancel
  BY <1>13 DEF Cancel
<1>11. CASE UNCHANGED vars
  BY <1>11 DEF vars
<1> QED BY <1>1, <1>2, <1>3, <1>4, <1>6, <1>7, <1>8, <1>9, <1>10, <1>11, <1>12, <1>13
     DEF Next, Monitor, World

LEMMA ProgressStep ==
  ASSUME TypeOK, Progress, [Next]_vars PROVE Progress'
<1> USE DEF Progress, GoesOn, Go, common, file, signal, clocks, timer
<1>0. emitted \in Nat
  BY DEF TypeOK
<1>1. CASE StartFile \/ PollFile \/ StartSignal \/ TakeSignal \/ ArmTimer
  BY <1>0, <1>1 DEF StartFile, PollFile, StartSignal, TakeSignal, ArmTimer
<1>2. CASE FileChanges \/ Tick \/ SetWall \/ Receive
  BY <1>2 DEF FileChanges, Tick, SetWall, Receive
<1>3. CASE SendSignal
  BY <1>3 DEF SendSignal
<1>4. CASE StartDuration
  BY <1>4 DEF StartDuration
<1>5. CASE StartDateTime
  BY <1>5 DEF StartDateTime, ReadWall
<1>6. CASE FireTimer
  BY <1>6 DEF FireTimer, ReadWall
<1>7. CASE Emit
  BY <1>0, <1>7 DEF Emit
<1>8. CASE Abandon \/ Close \/ Cancel
  BY <1>8 DEF Abandon, Close, Cancel
<1>9. CASE UNCHANGED vars
  BY <1>9 DEF vars
<1> QED BY <1>1, <1>2, <1>3, <1>4, <1>5, <1>6, <1>7, <1>8, <1>9 DEF Next, Monitor, World

LEMMA FileDueStep ==
  ASSUME TypeOK, Progress, FileDue, [Next]_vars PROVE FileDue'
<1> SUFFICES ASSUME kind' = "file" PROVE FileDue'
  BY DEF FileDue
<1> USE DEF FileDue, Emitting, Go, common, file, signal, clocks, timer
<1>0. /\ kind = "file"
      /\ emitted \in Nat /\ risings \in Nat
      /\ regular \in BOOLEAN /\ previous \in BOOLEAN
  BY DEF TypeOK, Next, Monitor, World, StartFile, PollFile, StartSignal, TakeSignal,
         StartDuration, StartDateTime, ReadWall, ArmTimer, FireTimer, Emit, Abandon, Close,
         FileChanges, SendSignal, Tick, SetWall, Receive, Cancel, vars
<1>1. CASE StartFile \/ PollFile
  BY <1>0, <1>1 DEF StartFile, PollFile
<1>2. CASE FileChanges
  BY <1>0, <1>2 DEF FileChanges
<1>3. CASE Emit
  BY <1>0, <1>3 DEF Emit
<1>4. CASE Abandon \/ Close \/ Cancel \/ Receive
  BY <1>0, <1>4 DEF Abandon, Close, Cancel, Receive
<1>5. CASE UNCHANGED vars
  BY <1>0, <1>5 DEF vars
<1>6. CASE ArmTimer
  BY <1>0, <1>6 DEF ArmTimer, Progress
<1> QED BY <1>0, <1>1, <1>2, <1>3, <1>4, <1>5, <1>6
     DEF Next, Monitor, World, StartSignal, TakeSignal, StartDuration, StartDateTime, FireTimer,
         SendSignal, Tick, SetWall

LEMMA SignalDueStep ==
  ASSUME TypeOK, Progress, SignalDue, [Next]_vars PROVE SignalDue'
<1> SUFFICES ASSUME kind' = "signal" PROVE SignalDue'
  BY DEF SignalDue
<1> USE DEF SignalDue, Emitting, Go, common, file, signal, clocks, timer
<1>0. kind = "signal" /\ emitted \in Nat /\ sent \in Nat /\ caught \in 0..1
  BY DEF TypeOK, Next, Monitor, World, StartFile, PollFile, StartSignal, TakeSignal,
         StartDuration, StartDateTime, ReadWall, ArmTimer, FireTimer, Emit, Abandon, Close,
         FileChanges, SendSignal, Tick, SetWall, Receive, Cancel, vars
<1>1. CASE StartSignal \/ TakeSignal
  BY <1>0, <1>1 DEF StartSignal, TakeSignal
<1>2. CASE SendSignal
  BY <1>0, <1>2 DEF SendSignal
<1>3. CASE Emit
  BY <1>0, <1>3 DEF Emit
<1>4. CASE Abandon \/ Close \/ Cancel \/ Receive
  BY <1>0, <1>4 DEF Abandon, Close, Cancel, Receive
<1>5. CASE UNCHANGED vars
  BY <1>0, <1>5 DEF vars
<1>6. CASE ArmTimer
  BY <1>0, <1>6 DEF ArmTimer, Progress
<1> QED BY <1>0, <1>1, <1>2, <1>3, <1>4, <1>5, <1>6
     DEF Next, Monitor, World, StartFile, PollFile, StartDuration, StartDateTime, FireTimer,
         FileChanges, Tick, SetWall

LEMMA DurationDueStep ==
  ASSUME TypeOK, Progress, DurationDue, [Next]_vars PROVE DurationDue'
<1> SUFFICES ASSUME kind' = "duration" PROVE DurationDue'
  BY DEF DurationDue
<1> USE MonitorsAssumption DEF DurationDue, Go, common, file, signal, clocks, timer
<1>0. /\ kind = "duration" /\ ~GoesOn
      /\ emitted \in Nat /\ left \in Nat /\ elapsed \in 0..Duration /\ Duration \in Nat
  BY DEF TypeOK, GoesOn, Next, Monitor, World, StartFile, PollFile, StartSignal, TakeSignal,
         StartDuration, StartDateTime, ReadWall, ArmTimer, FireTimer, Emit, Abandon, Close,
         FileChanges, SendSignal, Tick, SetWall, Receive, Cancel, vars
<1>1. CASE StartDuration
  <2>1. /\ left' = Duration - elapsed /\ elapsed' = elapsed /\ emitted' = emitted
        /\ capped' = capped /\ pc = "start" /\ pc' = IF left' = 0 THEN "emit" ELSE "arm"
    BY <1>1 DEF StartDuration
  <2>2. emitted = 0
    BY <2>1 DEF Progress
  <2> QED BY <1>0, <2>1, <2>2
<1>2. CASE FireTimer
  BY <1>0, <1>2 DEF FireTimer
<1>3. CASE Tick
  BY <1>0, <1>3 DEF Tick, AtMost
<1>4. CASE Emit
  BY <1>0, <1>4 DEF Emit
<1>5. CASE ArmTimer \/ Abandon \/ Close \/ Cancel \/ Receive
  BY <1>0, <1>5 DEF ArmTimer, Abandon, Close, Cancel, Receive
<1>6. CASE UNCHANGED vars
  BY <1>0, <1>6 DEF vars
<1> QED BY <1>0, <1>1, <1>2, <1>3, <1>4, <1>5, <1>6
     DEF Next, Monitor, World, StartFile, PollFile, StartSignal, TakeSignal, StartDateTime,
         FileChanges, SendSignal, SetWall

LEMMA DateTimeDueStep ==
  ASSUME TypeOK, Progress, DateTimeDue, [Next]_vars PROVE DateTimeDue'
<1> SUFFICES ASSUME kind' = "datetime" PROVE DateTimeDue'
  BY DEF DateTimeDue
<1> USE MonitorsAssumption DEF DateTimeDue, Go, common, file, signal, clocks, timer
<1>0. /\ kind = "datetime" /\ ~GoesOn
      /\ emitted \in Nat /\ left \in Nat /\ reckoned \in 0..Deadline /\ Deadline \in Nat
  BY DEF TypeOK, GoesOn, Next, Monitor, World, StartFile, PollFile, StartSignal, TakeSignal,
         StartDuration, StartDateTime, ReadWall, ArmTimer, FireTimer, Emit, Abandon, Close,
         FileChanges, SendSignal, Tick, SetWall, Receive, Cancel, vars
<1>1. ASSUME ReadWall, pc \in {"start", "wait"} PROVE DateTimeDue'
  <2>1. emitted' = 0
    BY <1>0, <1>1 DEF ReadWall, Progress
  <2>2. /\ left' \in Nat /\ reckoned' \in 0..Deadline
        /\ pc' = "emit" => reckoned' = Deadline
        /\ ~capped' => left' + reckoned' = Deadline
    BY <1>1, ReadWallType
  <2>3. left' + reckoned' = Deadline => left' + reckoned' >= Deadline
    BY <1>0
  <2> QED BY ONLY <2>1, <2>2, <2>3 DEF DateTimeDue
<1>2. CASE StartDateTime
  BY <1>1, <1>2 DEF StartDateTime
<1>3. CASE FireTimer
  <2>1. CASE capped /\ ReadWall
    BY <1>1, <1>3, <2>1 DEF FireTimer
  <2>2. CASE ~capped /\ UNCHANGED timer /\ UNCHANGED emitted
    BY <1>0, <1>3, <2>2 DEF FireTimer
  <2> QED BY <1>3, <2>1, <2>2 DEF FireTimer
<1>4. CASE Tick
  BY <1>0, <1>4 DEF Tick, AtMost
<1>5. CASE Emit
  BY <1>0, <1>5 DEF Emit
<1>6. CASE ArmTimer \/ Abandon \/ Close \/ Cancel \/ Receive \/ SetWall
  BY <1>0, <1>6 DEF ArmTimer, Abandon, Close, Cancel, Receive, SetWall
<1>7. CASE UNCHANGED vars
  BY <1>0, <1>7 DEF vars
<1> QED BY <1>0, <1>2, <1>3, <1>4, <1>5, <1>6, <1>7
     DEF Next, Monitor, World, StartFile, PollFile, StartSignal, TakeSignal, StartDuration,
         FileChanges, SendSignal

LEMMA InductiveInvariant == Spec => []IInv
<1>1. Init => IInv
  BY InitInv
<1>2. IInv /\ [Next]_vars => IInv'
  BY TypeStep, ProgressStep, FileDueStep, SignalDueStep, DurationDueStep, DateTimeDueStep DEF IInv
<1> QED BY <1>1, <1>2, PTL DEF Spec

-----------------------------------------------------------------------------
\* Type correctness: one event in the channel of a monitor, one signal in the
\* channel package os/signal sends to, and waits that are never negative.
THEOREM TypeCorrect == Spec => []TypeOK
<1>1. IInv => TypeOK
  BY DEF IInv
<1> QED BY <1>1, InductiveInvariant, PTL

\* No monitor emits an event for which nothing occurred, or two for one occurrence,
\* whatever the deadline, the longest timer and the settings of the wall clock.
THEOREM EventsAreAlwaysDue == Spec => []EventsAreDue
<1>1. IInv => EventsAreDue
  <2> SUFFICES ASSUME IInv PROVE EventsAreDue
    OBVIOUS
  <2> USE DEF IInv, EventsAreDue, Occurrences, Progress
  <2>0. /\ emitted \in Nat /\ caught \in 0..1 /\ risings \in Nat /\ sent \in Nat
        /\ kind \in {"file", "signal", "nosignal", "duration", "datetime"}
        /\ elapsed \in 0..Duration /\ reckoned \in 0..Deadline
        /\ Duration \in Nat /\ Deadline \in Nat
    BY MonitorsAssumption DEF TypeOK
  <2>1. CASE kind = "file"
    BY <2>0, <2>1 DEF FileDue, Emitting
  <2>2. CASE kind = "signal"
    BY <2>0, <2>2 DEF SignalDue, Emitting
  <2>3. CASE kind = "nosignal"
    BY <2>0, <2>3
  <2>4. CASE kind = "duration"
    BY <2>0, <2>4 DEF DurationDue, GoesOn
  <2>5. CASE kind = "datetime"
    BY <2>0, <2>5 DEF DateTimeDue, GoesOn
  <2> QED BY <2>0, <2>1, <2>2, <2>3, <2>4, <2>5
<1> QED BY <1>1, InductiveInvariant, PTL

LEMMA LeafStep ==
  ASSUME IInv, [Next]_vars PROVE [L!Next]_(L!leafVars)
<1> USE DEF IInv, Go, common, L!leafVars, GoesOn
<1>0. emitted \in Nat /\ out \in 0..1
  BY DEF TypeOK
<1>1. CASE StartFile \/ PollFile \/ StartSignal \/ TakeSignal \/ StartDuration \/ ArmTimer
  BY <1>1 DEF StartFile, PollFile, StartSignal, TakeSignal, StartDuration, ArmTimer
<1>2. CASE StartDateTime \/ FireTimer
  BY <1>2 DEF StartDateTime, FireTimer, ReadWall
<1>3. CASE FileChanges \/ SendSignal \/ Tick \/ SetWall
  BY <1>3 DEF FileChanges, SendSignal, Tick, SetWall
<1>4. CASE Emit
  <2>1. L!Emit
    BY <1>0, <1>4 DEF Emit, L!Emit, Progress
  <2> QED BY <2>1 DEF L!Next
<1>5. CASE Close
  <2>1. L!Close
    BY <1>0, <1>5 DEF Close, L!Close, L!Over, Progress
  <2> QED BY <2>1 DEF L!Next
<1>6. CASE Abandon
  BY <1>6 DEF Abandon
<1>7. CASE Receive
  BY <1>7 DEF Receive, L!Receive, L!Next
<1>8. CASE Cancel
  BY <1>8 DEF Cancel, L!Cancel, L!Next
<1>9. CASE UNCHANGED vars
  BY <1>9 DEF vars
<1> QED BY <1>1, <1>2, <1>3, <1>4, <1>5, <1>6, <1>7, <1>8, <1>9 DEF Next, Monitor, World

\* Step refinement: the four monitors are leaves in the sense of module Leaf, one
\* step of a monitor being one step of the leaf or none.
THEOREM ImplementsLeafSteps == Spec => L!Init /\ [][L!Next]_(L!leafVars)
<1>1. Init => L!Init
  BY DEF Init, L!Init, GoesOn
<1>2. IInv /\ [Next]_vars => [L!Next]_(L!leafVars)
  BY LeafStep
<1> QED BY <1>1, <1>2, InductiveInvariant, PTL DEF Spec

=============================================================================
