------------------------------ MODULE Monitors ------------------------------
(***************************************************************************)
(* The run of one leaf condition of internal/condition: fileCondition,     *)
(* signalCondition, durationCondition or dateTimeCondition, with the part  *)
(* of the world it observes: a path, a signal, or the clocks and a timer.  *)
(*                                                                         *)
(* Time passes in units, on the monotonic clock (elapsed, and what is left *)
(* of the timer) and on the wall clock, which may also be set.  Both are   *)
(* kept up to the moment that matters, after which they stay there.  An    *)
(* event that run publishes before it returns is put into a channel that   *)
(* nobody reads yet, so the same action stands for it.                     *)
(***************************************************************************)
EXTENDS Naturals

CONSTANTS
  Kinds,       \* of "file", "signal", "nosignal" (a nil os.Signal), "duration", "datetime"
  Modes,       \* of "once", "continuous"
  Duration,    \* the duration to wait for, since startTime
  Deadline,    \* the reading of the wall clock to wait for
  MaxWait,     \* the longest time.Duration: deadline.Sub stays below it
  MaxChanges,  \* bounds how often the path changes
  MaxSignals,  \* bounds the signals sent
  MaxSettings  \* bounds how often the wall clock is set

ASSUME MonitorsAssumption ==
  /\ Kinds \subseteq {"file", "signal", "nosignal", "duration", "datetime"}
  /\ Modes \subseteq {"once", "continuous"}
  /\ Duration \in Nat /\ Deadline \in Nat
  /\ MaxWait \in Nat \ {0}
  /\ MaxChanges \in Nat /\ MaxSignals \in Nat /\ MaxSettings \in Nat

VARIABLES
  kind, mode,  \* what the condition is and how it was run; they never change
  pc,          \* where the goroutine is
  ctxDone,     \* ctx.Done() is closed
  out,         \* events in the channel
  emitted,     \* history: events ever put there
  regular,     \* the path resolves to a regular file
  previous,    \* what the last poll found
  risings,     \* history: how often it has become one, once if it was at first
  changes,     \* counts the changes of the path
  caught,      \* signals in the channel received
  sent,        \* history: signals sent since signal.Notify
  wall,        \* the wall clock
  elapsed,     \* the monotonic clock, since startTime
  reached,     \* history: the wall clock has been at the deadline
  settings,    \* counts the settings of the wall clock
  left,        \* of the timer
  capped,      \* the timer ends before the deadline
  reckoned     \* history: the wall clock when last read, and the time since

common == <<kind, mode, pc, ctxDone, out, emitted>>
file   == <<regular, previous, risings, changes>>
signal == <<caught, sent>>
clocks == <<wall, elapsed, reached, settings>>
timer  == <<left, capped, reckoned>>
vars   == <<common, file, signal, clocks, timer>>

TypeOK ==
  /\ kind \in Kinds /\ mode \in Modes
  /\ pc \in {"start", "arm", "wait", "emit", "closing", "done"}
  /\ ctxDone \in BOOLEAN
  /\ out \in 0..1 /\ emitted \in Nat
  /\ regular \in BOOLEAN /\ previous \in BOOLEAN
  /\ risings \in Nat /\ changes \in 0..MaxChanges
  /\ caught \in 0..1 /\ sent \in 0..MaxSignals
  /\ wall \in 0..Deadline /\ elapsed \in 0..Duration
  /\ reached \in BOOLEAN /\ settings \in 0..MaxSettings
  /\ left \in Nat /\ capped \in BOOLEAN
  /\ reckoned \in 0..Deadline

Init ==
  /\ kind \in Kinds /\ mode \in Modes
  /\ pc = "start" /\ ctxDone = FALSE
  /\ out = 0 /\ emitted = 0
  /\ regular \in {FALSE, kind = "file"} /\ previous = FALSE
  /\ risings = (IF regular THEN 1 ELSE 0) /\ changes = 0
  /\ caught = 0 /\ sent = 0
  /\ wall \in IF kind = "datetime" THEN 0..Deadline ELSE {0}
  /\ elapsed = 0 /\ reached = (wall = Deadline) /\ settings = 0
  /\ left = 0 /\ capped = FALSE /\ reckoned = 0

Go(to) == pc' = to /\ UNCHANGED <<kind, mode, ctxDone, out, emitted>>

-----------------------------------------------------------------------------
(***************************************************************************)
(* fileCondition.                                                          *)
(***************************************************************************)

\* Bug: the first poll has nothing to compare with.
StartFileUnknown ==
  /\ kind = "file" /\ pc = "start"
  /\ previous' = TRUE
  /\ Go(IF regular THEN "emit" ELSE "wait")
  /\ UNCHANGED <<regular, risings, changes, signal, clocks, timer>>

StartFile ==
  /\ kind = "file" /\ pc = "start"
  /\ previous' = regular
  /\ Go(IF regular THEN "emit" ELSE "wait")
  /\ UNCHANGED <<regular, risings, changes, signal, clocks, timer>>

\* case <-ticker.C.  Only a path that has become a regular file is reported.
PollFile ==
  /\ kind = "file" /\ pc = "wait"
  /\ previous' = regular
  /\ Go(IF regular /\ ~previous THEN "emit" ELSE "wait")
  /\ UNCHANGED <<regular, risings, changes, signal, clocks, timer>>

FileChanges ==
  /\ kind = "file" /\ changes < MaxChanges
  /\ regular' = ~regular
  /\ risings' = IF regular THEN risings ELSE risings + 1
  /\ changes' = changes + 1
  /\ UNCHANGED <<common, previous, signal, clocks, timer>>

-----------------------------------------------------------------------------
(***************************************************************************)
(* signalCondition.                                                        *)
(***************************************************************************)

\* signal.Notify, unless the platform has no such signal.
StartSignal ==
  /\ kind \in {"signal", "nosignal"} /\ pc = "start"
  /\ Go(IF kind = "signal" THEN "wait" ELSE "closing")
  /\ UNCHANGED <<file, signal, clocks, timer>>

\* Bug: the channel received grows.
SendSignalQueued ==
  /\ kind = "signal" /\ pc \in {"wait", "emit"} /\ sent < MaxSignals
  /\ caught' = caught + 1
  /\ sent' = sent + 1
  /\ UNCHANGED <<common, file, clocks, timer>>

\* A signal sent while it is registered; package os/signal drops it when the
\* last one has not been taken.
SendSignal ==
  /\ kind = "signal" /\ pc \in {"wait", "emit"} /\ sent < MaxSignals
  /\ caught' = 1
  /\ sent' = sent + 1
  /\ UNCHANGED <<common, file, clocks, timer>>

\* case <-received.
TakeSignal ==
  /\ kind = "signal" /\ pc = "wait" /\ caught = 1
  /\ caught' = 0
  /\ Go("emit")
  /\ UNCHANGED <<sent, file, clocks, timer>>

-----------------------------------------------------------------------------
(***************************************************************************)
(* durationCondition and dateTimeCondition.                                *)
(***************************************************************************)

AtMost(limit, n) == IF n > limit THEN limit ELSE n

\* What is left of the duration by the monotonic clock.
StartDuration ==
  /\ kind = "duration" /\ pc = "start"
  /\ left' = Duration - elapsed
  /\ Go(IF left' = 0 THEN "emit" ELSE "arm")
  /\ UNCHANGED <<file, signal, clocks, capped, reckoned>>

\* deadline.Sub(current): what is left until the deadline by the wall clock,
\* capped at the longest duration.
ReadWall ==
  LET ahead == Deadline - wall
  IN  /\ left' = AtMost(MaxWait, ahead)
      /\ capped' = (ahead > MaxWait)
      /\ reckoned' = wall
      /\ Go(IF ahead = 0 THEN "emit" ELSE "arm")
      /\ UNCHANGED <<file, signal, clocks>>

StartDateTime == kind = "datetime" /\ pc = "start" /\ ReadWall

ArmTimer ==
  /\ pc = "arm"
  /\ Go("wait")
  /\ UNCHANGED <<file, signal, clocks, timer>>

\* Bug: a capped timer is taken for the deadline.
FireTimerCapped ==
  /\ kind \in {"duration", "datetime"} /\ pc = "wait" /\ left = 0
  /\ Go("emit")
  /\ UNCHANGED <<file, signal, clocks, timer>>

\* case fired := <-timerC.  The wall clock is read again after a capped timer.
FireTimer ==
  /\ kind \in {"duration", "datetime"} /\ pc = "wait" /\ left = 0
  /\ \/ capped /\ ReadWall
     \/ ~capped /\ Go("emit") /\ UNCHANGED <<file, signal, clocks, timer>>

Tick ==
  /\ kind \in {"duration", "datetime"}
  /\ wall' = AtMost(Deadline, wall + 1)
  /\ elapsed' = AtMost(Duration, elapsed + 1)
  /\ reached' = (reached \/ wall' = Deadline)
  /\ reckoned' = AtMost(Deadline, reckoned + 1)
  /\ left' = IF pc = "wait" /\ left > 0 THEN left - 1 ELSE left
  /\ UNCHANGED <<common, file, signal, settings, capped>>

SetWall ==
  /\ kind = "datetime" /\ settings < MaxSettings
  /\ wall' \in 0..Deadline
  /\ reached' = (reached \/ wall' = Deadline)
  /\ settings' = settings + 1
  /\ UNCHANGED <<common, file, signal, elapsed, timer>>

-----------------------------------------------------------------------------
(***************************************************************************)
(* What they share.                                                        *)
(***************************************************************************)

GoesOn == mode = "continuous" /\ kind \in {"file", "signal"}

\* emitEvent, and the return that follows it or not.
Emit ==
  /\ pc = "emit" /\ out = 0
  /\ out' = 1
  /\ emitted' = emitted + 1
  /\ pc' = IF GoesOn THEN "wait" ELSE "closing"
  /\ UNCHANGED <<kind, mode, ctxDone, file, signal, clocks, timer>>

\* Bug: a full channel is not left when the context is done.
AbandonWait ==
  /\ ctxDone /\ pc = "wait"
  /\ Go("closing")
  /\ UNCHANGED <<file, signal, clocks, timer>>

\* case <-ctx.Done() of any select.
Abandon ==
  /\ ctxDone /\ pc \in {"wait", "emit"}
  /\ Go("closing")
  /\ UNCHANGED <<file, signal, clocks, timer>>

\* The deferred stopTimer or signal.Stop, and close(events).
Close ==
  /\ pc = "closing"
  /\ Go("done")
  /\ caught' = 0
  /\ UNCHANGED <<sent, file, clocks, timer>>

\* The subscription that reads the channel.
Receive ==
  /\ out = 1
  /\ out' = 0
  /\ UNCHANGED <<kind, mode, pc, ctxDone, emitted, file, signal, clocks, timer>>

Cancel ==
  /\ ~ctxDone
  /\ ctxDone' = TRUE
  /\ UNCHANGED <<kind, mode, pc, out, emitted, file, signal, clocks, timer>>

Monitor ==
  \/ StartFile \/ PollFile
  \/ StartSignal \/ TakeSignal
  \/ StartDuration \/ StartDateTime \/ ArmTimer \/ FireTimer
  \/ Emit \/ Abandon \/ Close

World == FileChanges \/ SendSignal \/ Tick \/ SetWall \/ Receive \/ Cancel

Next == Monitor \/ World

Spec == Init /\ [][Next]_vars

\* The goroutine runs, and time passes.
FairSpec == Spec /\ WF_vars(Monitor) /\ WF_vars(Tick)

-----------------------------------------------------------------------------
(***************************************************************************)
(* What the monitors promise.                                              *)
(***************************************************************************)

Occurrences ==
  CASE kind = "file"     -> risings
    [] kind = "signal"   -> sent
    [] kind = "nosignal" -> 0
    [] kind = "duration" -> IF elapsed >= Duration THEN 1 ELSE 0
    [] kind = "datetime" -> IF reckoned >= Deadline THEN 1 ELSE 0

\* Every event, and every one under way, stands for an occurrence of its own: a
\* file that became regular, a signal sent, the duration elapsed by the
\* monotonic clock, the deadline reached by the wall clock as last read and the
\* time since, however many capped timers that takes.
EventsAreDue ==
  emitted + caught + (IF pc = "emit" THEN 1 ELSE 0) <= Occurrences

\* Unless it is canceled, a monitor reports a file that has come to stay, a
\* signal it has caught, and a moment that comes, whatever happens to the wall
\* clock while it waits.
OccurrenceIsReported ==
  /\ (kind = "file" /\ <>[]regular) => <>(emitted > 0 \/ ctxDone)
  /\ (caught = 1 /\ pc = "wait") ~> (pc = "emit" \/ ctxDone)
  /\ (kind \in {"duration", "datetime"}) ~> (emitted > 0 \/ ctxDone)

\* Every monitor is a leaf as ConditionTree takes it.
L == INSTANCE Leaf WITH
       goesOn <- GoesOn, external <- kind = "nosignal", done <- ctxDone,
       buffered <- out, closed <- pc = "done"

ImplementsLeaf == L!Spec

\* The README: datetime "exits when the local wall clock reaches the specified
\* time".  The timer of dateTimeCondition runs on the monotonic clock, so when
\* the wall clock is set back the event comes before it has got there.
NotBeforeDeadline == kind = "datetime" /\ pc = "emit" => reached

=============================================================================
