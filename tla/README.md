# A formal model of outage

`outage` copies stdin to stdout until a condition occurs: a signal arrives, a
file appears, a duration elapses, a point in time is reached, or a combination
of these with ` && ` and `--or`. It then exits with status 0 although the
producer goes on. With `--events-fd` it also records what happened as two JSON
lines on a descriptor.

The program is small and almost all of its difficulty is concurrent: a
condition tree of goroutines and channels with shared leaves, a copy that can
block on either side, a main goroutine that arbitrates between them and leaves
by `os.Exit`, and observation (records, warnings) that must not disturb any of
it. What is sequential in it, the command line and the local times, has rules
of its own. This directory holds TLA+ models of those parts, their TLC
configurations, and TLAPS proofs. File names below are relative to `src/`.

## The system

| component | source | state | operations | talks to |
|---|---|---|---|---|
| run registry and shared streams | `internal/condition/condition.go` | `streams`, `pending`, `started`; for each stream `subs`, `closed`, its context; for each subscription a channel of one event | `subscribe`, `startStream`, `startPending`, `unsubscribe`, `dispatch`, `finish` | composites call it; it runs children and forwards their events |
| And, Or | `and.go`, `or.go` | `matched`, `closedChild`, `merged`, the run's context | the run goroutine, one forwarder for each child, the deferred cleanup | registry, other composites through channels |
| leaf monitors | `file.go`, `signal.go`, `duration.go`, `datetime.go` | last poll, signal channel, timer | `run` | file system, `os/signal`, clocks; the stream that reads their channel |
| runtime clock | `cmd/outage/datetime_event.go` | none | `now`, `newTimer` | monitors, main |
| monitoring run | `cmd/outage/main.go` | initial observations, the tree, `copyDone` | `runWithClock`, `waitForCopyOrCondition`, `handleConditionEvent` | all of the above, stdin, stdout |
| event emitter | `cmd/outage/events.go` | `disabled`, `closed`, the duplicated descriptor | `emitCutoffEvents`, `emitRecord`, `close` | the reader of the descriptor, stderr |
| event descriptor | `events_fd_unix.go`, `events_fd_windows.go` | the mode of the open pipe, shared with other processes | `validateEventDescriptor`, `duplicateEventFile`, `writeEvent` | emitter, other processes |
| command line | `internal/cli/cli.go`, `signal_*.go` | none | `HelpRequested`, `VersionRequested`, `Parse`: options, groups, validation, canonical plan | main |
| datetime parsing | `internal/cli/datetime.go` | none | proposal, validation, `earliestLocalInstant` | `Parse` |
| lifecycle description | `cmd/outage/describe.go` | none | printed by `--describe` | supervisors |
| platform glue | `signal_unix.go`, `signal_windows.go`, `file_event.go` | none | `ignoreSIGPIPE`, one `os.Stat` | main, monitors |
| release automation | `.github`, `docs` | | | not part of the program |

What makes them correct, in a line each: a child has one live execution, and
whoever is attached gets its events in order and its end; a tree emits what its
formula says, once, and leaves no goroutine behind; a monitor reports every
occurrence that has come to stay, and nothing else; a run exits with 0 only when
it has earned it, and then does not wait; records say what happened; an exit
does not wait for whoever reads them; the command lines that are described are
accepted and no others, and the plan is the formula that was written; a repeated
local time is its first occurrence.

### What is hard

* `unsubscribe` empties a stream under two locks and cancels it after releasing
  them; `dispatch` serves a copy of the subscriber set made under a lock it has
  released; `finish` closes channels, and others may subscribe in between.
* A shared leaf can fire and close before its second branch exists, which is
  why `startPending` holds dispatch back.
* The event of a child and its close travel through three channels and two
  goroutines before an And sees them. A child may close before its match, which a
  message tells, or after one, which the And has to remember until it has emitted.
* Teardown crosses everything: an And waits for forwarders that may be blocked
  on a channel nobody reads.
* The main goroutine looks at the conditions three times (sample, select with a
  default, recheck) while they change; with `--events-fd` it looks at the copy
  up to three times.
* A record can be written in part; a warning is left to a goroutine; the mode
  that keeps a write from blocking belongs to a pipe other processes hold too.
* A monitor looks at a world that moves on: a file between two polls, a burst of
  signals, a wall clock that is set while a monotonic timer runs, a wait longer
  than the longest timer.
* A local time may occur never, twice or more often, and `time.Date` proposes
  one instant all the same.
* Errors are reported in an order of passes, and the option `--events-fd` is
  taken out of arguments that may hold it anywhere.

The complete list, each with the line where it bites and the properties that
cover it, is under `hazards` in `PROJECT.json`.

## Modules

| module | models | role |
|---|---|---|
| `SharedStream` | registry, stream, subscriptions of one child | detailed, proved about |
| `SharedStreamProofs` | | proofs about `SharedStream`: registry, streams and subscriptions |
| `SharedStreamOrderProofs` | | proofs about `SharedStream`: what subscribers are sent |
| `ConditionTree` | composites, forwarders and streams of a whole tree | composition; streams in coarser steps; implements `LatchedPlan` |
| `ConditionTreeProofs` | | proofs about `ConditionTree`, and that its steps are those of `LatchedPlan` |
| `LatchedPlan` | what the caller of a tree relies on | abstract specification |
| `Leaf` | what a leaf promises of its channel | abstract specification |
| `Monitors` | the run of each of the four monitors | detailed, implements `Leaf` |
| `MonitorsProofs` | | proofs about `Monitors`, and that its steps are those of `Leaf` |
| `Lifecycle` | the state machine printed by `--describe` | abstract specification |
| `Outage` | one run of the process | detailed, implements `Lifecycle` |
| `OutageProofs` | | proofs about `Outage`, and that its steps are those of `Lifecycle` |
| `LocalTime` | time zones and `earliestLocalInstant` | operators |
| `LocalTimeProofs` | | proofs about `LocalTime` |
| `Arguments` | `Parse` and what it calls | operators, on `LocalTime` |
| `EventDescriptor` | the descriptor, its check and a write to it | actions of emitter and other processes |
| `CommandLine` | an invocation from its arguments to its exit | composes `Arguments` and `EventDescriptor` |
| `ArgumentsProofs` | | proofs about the loops of `Arguments`, `Parse` and the plan |
| `CommandLineProofs` | | proofs about `CommandLine` |
| `MC*` | | instances for TLC |

`Outage` and `CommandLine` are the same process seen twice. `CommandLine` has
all that comes before the first sample and what the pipe does to a write, and
takes the monitoring itself in one step; `Outage` starts from an accepted plan
and has the monitoring in full. What `Outage` assumes of a plan
(`OutageAssumption`) is part of what is checked, and proved, of the plan of any
command line (`PlanMeansArguments`). The tree of `Outage` is `LatchedPlan`: its publication is
the action `Publish` of that module, and `ConditionTree` implements it: its steps
are proved to, for trees of any shape, and TLC checks its promise
(`ImplementsPlan`). What `ConditionTree` assumes of a leaf (`LeafEmit`,
`LeafClose`) is `Leaf`, which `Monitors` implements.

Every module defines some operators whose comment begins with "Mutant" or
"Bug". They are plausible faults of the code, next to the definition they would
replace; no specification uses them. For each property of each run,
`PROJECT.json` names one that makes TLC report the property violated.

### SharedStream

One registry key, that is one child condition. Every call of `subscribe` for it
is an element of `Subscriptions`, and the stream that a call creates has the
name of that call. A region under `registry.mu` or `stream.mu` is one action,
what follows the unlock is another, and all goroutines interleave between them:

| code | actions |
|---|---|
| `subscribe`, `startStream` with `runChild`, `startPending` | `Subscribe`, `StartStream`, `StartPending` |
| `unsubscribe` by a composite | `CancelSubscriber` (its `runCtx`), `Unsubscribe`, `CancelStream` |
| a forwarder, or whoever reads `sub.ch` | `Receive` |
| the child | `ChildEmit`, `ChildClose` |
| `dispatch` | `TakeEvent`, `SourceClosed`, `DispatchCanceled`, `Snapshot`, `Send`, `DispatchUnsubscribe`, `DispatchUnsubscribeCancel` |
| `finish` | `Finish`, `FinishCancel` |
| the caller of `Run` | `CancelRoot` |

`pc` says where the caller of `subscribe` is, `disp` where the stream's
goroutine is. `todo` and `target` are the copy of `subs` that dispatch works
through. `early` and `seen` are history. The order in which a Go map is
iterated is a nondeterministic choice. A child may close its channel at any
time: implementations from outside the package are not bound by anything.

### ConditionTree

Any finite tree (a DAG, since leaves are shared), in `Once` or `Continuous`
mode, from the state in which `runRoot` leaves it. For each composite there is
its goroutine (`main`: its loop, a pending `emitEvent`, and the three stages of
the deferred function), its forwarders (`fwd`, `held`) and its `merged`
channel. A stream is that of `SharedStream`, with fewer places to be
interrupted at. An event is the set of its `SourceIDs`; its time is left out.

A composite without children is excluded by an assumption: the command line
cannot produce one.

### Outage

The whole run: arguments (accepted, rejected or answered at once), the initial
sample, one step for each monitor started, the select with a default, the
recheck, the copy goroutine, arbitration, records, exit. The tree is an instance
of `LatchedPlan`: once a group is complete it publishes one event, some time later,
unless the plan is a single condition whose monitor is the root. Around the
process are a file system and a clock (`holds`), signals, a producer, a consumer
and the reader of the descriptor, all of them free to do anything at any time.
`occurred`, `atRecheck` and `copyFirst` are history.

The branches for a root channel that closes without an event are not modelled:
with the monitors of this program and a context that is only canceled on
return, the channel does not close before its event.

### LatchedPlan

The set of conditions that have fired, whether the root has emitted, and the sets
of conditions that satisfy the plan. Conditions fire, never to be forgotten; a
satisfied plan is published, and only such a plan; it is not kept back for ever
(`Promise`). `ConditionTree` maps to it by the leaves that have emitted and the
formula of the root (`SatisfyingSets`), `Outage` by the monitors that have fired
and its groups. `SatisfyingSets` reads the tree as a formula without recursion: a
set of leaves makes a node true that belongs to the least set of composites those
leaves force.

### Lifecycle

`newDescription` prints a state machine and describes the delivery of records.
`Outage` maps to it by `cause` and `pc` (`lifecycleState`), and `records` to
itself.

### Monitors and Leaf

One monitor, of any kind and mode, with what it observes:

| code | actions |
|---|---|
| `fileCondition.run`: first look, `<-ticker.C` | `StartFile`, `PollFile`; the path: `FileChanges` |
| `signalCondition.run`: `signal.Notify`, `<-received` | `StartSignal`, `TakeSignal`; `os/signal`: `SendSignal` |
| `durationCondition.run` | `StartDuration`, `ArmTimer`, `FireTimer` |
| `dateTimeCondition.run`, `emitDeadline` | `StartDateTime`, `ArmTimer`, `FireTimer`; time: `Tick`, `SetWall` |
| `emitEvent`, and the send at the end of a `run` that is not deferred | `Emit` |
| `<-ctx.Done()` in any select | `Abandon` |
| `stopTimer`, `signal.Stop`, `close(events)` | `Close` |
| the subscription that reads the channel; the stream's cancel | `Receive`, `Cancel` |

Time passes in units, on the monotonic clock (`elapsed`, and `left` of the timer)
and on the wall clock, which may also be set, forwards or back. `ArmTimer` is a
step of its own, since time passes between the computation of a wait and the
start of its timer. `MaxWait` is the longest `time.Duration`, at which
`deadline.Sub` saturates. The two readings of the clock at the start of
`dateTimeCondition.run` (36 and 39) are one step: a second reading that is later
only leads to the branch that the first would have taken then. The default case
of a signal without `signal.Notify` is kind `nosignal`.

`Leaf` is the channel such a run returns: events one at a time, more than one
only if it goes on, a close after the last event or a canceled context, and the
obligation to close. It is what `ConditionTree` has for a leaf.

### LocalTime

A zone is the sequence of its transitions and the offsets between them; instants
and wall times are integers on one scale. `Date` is the proposal of `time.Date`
(Go's library, as `datetime.go` uses it), `IsLocalTime` the check that it shows
the wall time asked for, `Searched` the intervals whose offsets
`earliestLocalInstant` tries: those next to the proposal's, and those that hold
an instant which can show this wall time. `InstantsOf` is the definition to
compare with.

### Arguments

An argument is its kind, by the prefixes the code looks at, and its value. A loop
over a slice is the function of its state after so many turns (`EventsFDAfter`,
`ConditionsAfter`, `MembersAfter`, `GroupsAfter`), with an operator for one turn
(`EventsFDTurn`, `ConditionTurn`, `MemberTurn`, `GroupTurn`), so that every early
return and every flag of the loop is there. `IsCommandLine` says which sequences
of arguments the module is about; `CommandLine` assumes it of its `Inputs`
(`InputsAssumption`, which TLC evaluates on the run). `Parse` composes them in the order of
the code: options, grammar, syntax of all members, capability of all members,
plan. The spelling of a number, a duration or a datetime is abstracted to the
cases that decide something: what `strconv.Atoi`, `time.ParseDuration` or a
layout refuses is one value. A duration is its sign, a number and a unit: the code
refuses a minus in front before it parses, so the sign is kept apart from the value,
and `-0s` is not `0s` although both are zero.

### EventDescriptor

The mode, `O_NONBLOCK` or `PIPE_NOWAIT`, is a property of the open pipe and not of
a descriptor, so `SwitchMode`, `FillOrDrain` and `ReaderCloses` of other processes
interleave with `CheckMode` and `Write`, also between the two. A write is whole,
fails, is written in part, or, without the mode, blocks until there is room or
nobody to read. Unix and Windows differ in what they call this mode and in how
they ask for it. `emitter.close` on the return of `runWithClock` is left out, as
nothing is emitted after it, and so is `events_fd_other.go`, which builds only
where `internal/cli` does not.

### CommandLine

`runWithClock` from its arguments to its exit: `Help`, `Describe`, `Version`,
`ParseArguments` in the order in which they are looked for; `Decide` (the error of
`Parse`, or `validateEventDescriptor`); `MakeEmitter`, whose duplicate can fail;
`ConditionEnds` with the records after it, or `EndsSilently`. An invocation is an
element of the constant `Inputs`. `input` never changes.

## Runs

| run | instance | shows |
|---|---|---|
| `shared_stream` | 3 subscribers, 1 event, at most 2 executions | no panic, one execution, no revival, and the inductive invariant |
| `shared_stream_events` | 2 subscribers, 2 events | types, order without gaps, completeness for early subscribers |
| `shared_stream_liveness` | 2 subscribers, 1 event, fair | abandoned executions are reclaimed |
| `tree_pair` | `a && b`, Continuous, 2 events of `a`, which may end, and 1 of `b`, which then ends; fair, cancel | nothing counted twice, clean close; cancel ends everything; the And closes once a child is spent, before a match or after a used one |
| `tree_shared` | `'a && b' --or b`, both modes, only `b` occurs, each may end; fair | a dead subscriber does not block a live one; the event in Once mode ends everything, the monitor of `a` included; an Or closes once its children are spent |
| `tree_nested` | And of (`b` or `a`) and `a`, Once, fair | one event, due, with a leaf shared on two levels; the tree implements `LatchedPlan` |
| `outage_mixed` | `'signal:USR1 && file:F' --or duration:D --events-fd N` | all safety properties of a run, refinement of `Lifecycle`, and under fairness: a latched group, or the end of the input, ends the process |
| `outage_immediate_race` | `file:F && duration:D` | violation, see Findings |
| `outage_warning` | `file:F --events-fd N` | violation, see Findings |
| `monitors` | each kind in each mode, fair; a deadline three timers away | types; every event stands for an occurrence of its own; what has come to stay is reported; each monitor is a `Leaf`, liveness included |
| `monitors_deadline` | `datetime`, the wall clock set once | violation, see Findings |
| `command_line` | all command lines of up to 3 arguments, others of up to 5; 8 descriptors; 2,082 small zones; fair | what `--describe` describes is accepted and no more, except for zero durations with a minus; the plan is the formula written; the earliest instant; help, description and version; records block, or delay the exit, only if the mode was not kept |

### Bounds

* Three subscribers allow one that leaves, one that stays and one that arrives;
  an execution being torn down, and its successor, are both present. The
  invariant is proved for every number of subscribers, events and executions.
* Two events are one in a channel and one behind it, with every channel of the
  code holding one: the second is blocked when the reader has gone.
* In trees, two leaves with one of them shared, on two levels, contain each
  ordering of event, close and cancellation between parent and child.
* Conditions of a plan matter by kind; `duration` and `datetime` are one kind
  here, since both hold for ever once they hold. Three conditions in two groups
  have a group of two kinds and an alternative. One chunk of input makes the
  copy block on each side. A plan of one condition, whose monitor is the root
  itself, is among the plans `OutageProofs` is about.
* A deadline of 5 with timers of at most 2 takes three of them when the monitor
  starts at 0, the last one not capped, and takes any smaller number from a
  later start or after a setting of the clock, of which there are 2. Four changes
  of the path show two files that come and go; three signals are one taken, one
  in the channel and one dropped.
* The turns of the parser depend on the argument before and on four flags. Up to
  3 arguments of all 22 kinds, 4 of ten and 5 of the five that interact most put
  each after each other, in front of `--events-fd`, between it and its value,
  and behind both. Members include an alias, two spellings of one duration, and
  an error in the first or the last place. Durations are on both sides of their
  bound, and on it: -1 s, 0 in two units, and 0 with a minus.
* Zones have up to 3 transitions at any of 6 instants and offsets from
  {-1, 0, 2}: intervals shorter than the difference of two offsets, a wall time
  that occurs three times, and gaps. The theorems are about all zones.

`CHECK_DEADLOCK FALSE` is in every configuration: each of these systems ends,
by design. That goroutines end rather than hang is the subject of `Reclaimed`,
`EverythingEnds`, `LatchedGroupExits`, `ImplementsLeaf` and
`RecordsDoNotDelayExit`.

### Fairness

Weak fairness of every goroutine that can take a step is what the Go scheduler
gives. In `SharedStream` and `ConditionTree` readers of a channel go on reading
until they are canceled (forwarders do), and a child whose context is done
closes its channel (all monitors do). A leaf is never obliged to fire. In
`Outage` a timer that has expired goes off and a file that stays is polled;
nothing is assumed of the world, of a write to stdout, which may block for
ever, or of the goroutine that warns. In `Monitors` the goroutine runs and time
passes (`Tick`), no more: the wall clock may be set, a path may change, nobody
has to read the channel. In `CommandLine` only the two actions after
`ConditionEnds` are fair, and what other processes do to the pipe is not.

## Findings

* **Latched conditions are left out of the recheck** (`cmd/outage/main.go:179`).
  With `'file:F && duration:1ms'`, the file found at startup and the duration
  elapsed when the recheck runs, the plan is satisfied but the copy is started,
  because the recheck skips files and does not know what was latched, and the
  And may not have published yet. The comment above it says an immediate event
  cannot race an input error; here it can. Run `outage_immediate_race`.
* **The warning may never be attempted** (`cmd/outage/events.go:88`). `--describe`
  promises one attempt after a failed write; the goroutine that makes it can be
  overtaken by `os.Exit`. Run `outage_warning`.
* **A datetime may come before the wall clock shows it**
  (`internal/condition/datetime.go:82`). The README (220-221) and the help text
  (`cmd/outage/main.go:63`) promise an exit when the local wall clock reaches the
  time. A timer that was not capped runs on the monotonic clock and is taken for
  the deadline without another look at the wall clock; when that has been set
  back meanwhile, the event is early. `main.go:44`, that datetime events "use the
  process-local wall clock captured at startup", may be read as the intent. What
  does hold is in `EventsAreDue`: the wall clock when last read, and the time
  since, have reached the deadline. Run `monitors_deadline`.

Besides, a zero with a minus is refused (`internal/cli/cli.go:371`). The description
has durations in Go's format that are non-negative, zero allowed
(`cmd/outage/describe.go:166-168`). `duration:-0s` and `duration:-0` are such
durations, and end with status 2: the code looks for a minus before it parses. A
test wants just that (`cmd/outage/main_test.go:1575`), so it is the description that
leaves the case out, and it has no run of its own: `AcceptsWhatIsDescribed` has it as
its one exception (`MinusZero`), and the inputs of `command_line` contain it.

## Proofs

`SharedStreamProofs` proves for every set of subscriptions and every bound on
events: type correctness; `RegistryInv`; and from it `NoPanic`,
`LiveStreamNotCanceled`, `OneExecution` and the action property `NeverRevived`.

`NoPanic` is not inductive: that dispatch does not send on a closed channel
depends on who may close it, that on what is attached to which stream, and that
on the registry. `RegistryInv` has the five facts that support each other:

1. who is attached to a stream is attached to the registered one, and that one
   is open and not canceled (`SubscribedStream`);
2. only the last steps of dispatch have closed a stream, and only a closed
   stream has closed channels (`ClosedStream`);
3. a stream that was, or is about to be, canceled for want of subscribers has
   left the registry (`CanceledStream`);
4. a stream nobody has created has no trace (`UnusedStream`);
5. dispatch serves its own subscriptions (`ServedSubscriptions`).

1 makes `OneExecution` immediate, since only one stream is registered. 1 and 3
give `LiveStreamNotCanceled`. A target of dispatch belongs to the stream (5),
and while dispatch is sending the stream is not closed and therefore neither is
the channel (2): `NoPanic`. The only assumptions are those of the module:
`MaxEvents` is a natural number and `None` is not a subscription.

`SharedStreamOrderProofs` proves `InOrderNoGap` and `EndIsComplete` on top of it.
Neither is inductive: that the next event a subscriber is sent is the one after
its last depends on which event dispatch has, on whether the subscriber has had
it yet, and on there being one event between the child and dispatch. `OrderInv`
follows an event along that way:

| part | says |
|---|---|
| `BufferedEvent` | what the child has emitted and dispatch has not taken is in the channel |
| `HeldEvent` | where dispatch has an event, and that its target is no longer to do |
| `Served` | who still awaits the event in hand (`Awaiting`) was sent the one before, everybody else attached was sent this one (`SentUpTo`) |
| `BeforeStart` | nothing is dispatched before `startPending`, so that who subscribed before misses none |
| `RootIsOver`, `EndedInOrder` | a stream ends because its last subscriber left or the run was canceled, or when it has taken everything |
| `CompleteAtEnd` | `EndIsComplete`, with the event it was sent last |

`Served` has one exception, a stream that a canceled run has made go to its end with
an event in hand: whoever is still attached to it then has been canceled too
(`RootIsOver`).

`ConditionTreeProofs` proves, for trees of any shape (any number of conditions,
composites of any width and depth, children shared by any number of parents), in
both modes, every invariant that the runs check, and the steps of the refinement:

* `ShapeInv`, and with it `TypeOK` and `ClosedIsCleanedUp`: streams serve their own
  links, messages are about children of their composite, a composite about to emit
  has what its rule asks for, one that waits has left its streams, one that
  has closed has seen its forwarders end. That `merged` holds a message for each
  child at most is part of `TypeOK`.
* `DueInv`, and with it `EventsAreDue`: an event is due (`Due`: leaves that have
  emitted, and that make its condition true) at each of the six places it passes.
  When a composite unites the events of its children, the union must make the
  composite true. The formula has any depth, but no induction over the tree is
  needed: the least set of composites that a set of leaves forces is below every
  set with that property, which gives the rule for an And (`AndHolds`), for an Or
  (`OrHolds`), and that more leaves make no less true (`MoreHolds`).
* `CountInv`, and with it `NothingCountedTwice`: for each link of an And, the events
  the And has emitted and those of the child still under way to it (`UnderWay`: in
  the child's channel, with dispatch, in the link's channel, with the forwarder,
  in `merged`, matched) are together no more than the child has emitted. Each
  action moves one of them by one place, or drops it.
* `TakesStepsOfLatchedPlan`: what a caller sees of the tree are steps of
  `LatchedPlan`, or stutters. The root's first event is a `Publish` because it is
  due. This is the step half of `ImplementsPlan`.

The assumptions are those of the module about the tree: children are nodes,
composites have some, and the root is nobody's child.

`OutageProofs` proves, for every plan (any number of conditions of any kind in
any groups), with or without event output and for any amount of input, every
safety property that the runs check: `TypeOK`, `ExitZeroIsEarned`,
`InputUntouched`, `WatchedBeforeReading`, `CopyFirstWins`, `Latched`,
`DeliveredRecords`; and `ImplementsStateMachine`, that every step of a run is a
step of `Lifecycle` or a stutter; and `TreeIsLatchedPlan`, the same for its monitors
and its tree and `LatchedPlan`. The assumption is that of the module: groups
are sets, none empty, of conditions `1 .. NumConditions`.

Not even `TypeOK` is inductive: it says that nothing is written that was not
read, and `CopyWrite` keeps that only because it happens once for each read.
`RunInv` is the strengthening. Its parts, and what each is for:

| part | says | carries |
|---|---|---|
| `Watching` | monitors are started in order, all before the copy | `WatchedBeforeReading`, half of `InputUntouched` |
| `Latching` | what the sample found is in the tree as fired | `Latched` |
| `Occurring` | what the program knows of a condition has occurred | with the next two, `ExitZeroIsEarned` |
| `Triggering` | the tree publishes, and main stops, for satisfied plans only | `ExitZeroIsEarned` |
| `Copying` | how read, written and produced input are related at each place | `TypeOK`, the end of input in `ExitZeroIsEarned` |
| `Rechecking` | once a copy exists, sample and recheck were both unsatisfied | `InputUntouched` |
| `Arbitrating` | a copy that ended first goes first | `CopyFirstWins` |
| `Recording` | what is on the descriptor at each place | `DeliveredRecords`, the refinement |

The one fact about plans behind them is `SatisfiedMonotone`: more conditions
never make a plan less satisfied. `Rechecking` needs it because `atRecheck` is
what held when the recheck began, while the recheck looks at the clock again
for each condition: it finds at least that. `Occurring` and `Triggering` need it because
`occurred` goes on growing after the tree has decided.

`MonitorsProofs` proves for every duration, deadline and longest timer, and any
number of changes, signals and settings: `TypeOK`; `EventsAreDue`; and
`ImplementsLeafSteps`, that each step of a monitor is one of `Leaf` or a stutter.
`EventsAreDue` counts what was emitted or is under way, so it takes an account of
what is still to come for each kind: a poll that has not been made (`FileDue`), a
signal in the channel (`SignalDue`), a timer that does not end before the duration
(`DurationDue`) or, unless it was capped, before the deadline as reckoned
(`DateTimeDue`). `Progress` says where each kind gets, and with it that a close
is one that `Leaf` allows. The assumptions are those of the module.

`LocalTimeProofs` proves, for every zone and wall time:

* `EarliestIsEarliest` and `EarliestExists`: the search returns the least instant
  that shows the wall time, when there is any. `SearchIsComplete` is the heart of
  it: an instant that shows the wall time lies within the range of offsets around
  it, so its interval is searched. `CandidatesAreInstants` then makes the candidates
  and `InstantsOf` one set. That each instant lies in one interval, and that a
  least one exists, takes a least element of a set of numbers (`FirstOfSet`, by
  the well-foundedness of inclusion among finite sets).
* `RefusesOnlySkipped`: in a zone that is `Settled`, the proposal of `time.Date` is
  refused only if no instant shows the wall time. `Settled`, that a zone stays at
  each offset longer than any two of its offsets differ or one differs from UTC,
  cannot be dropped: TLC finds zones with shorter stays in which a local time that
  exists is refused, which is why `AcceptsWhatIsDescribed` has it too. Real zones are
  settled, except for rare changes within a day. `NearInstants`: two instants
  that differ by no more than two offsets do are at most one transition apart.

`ArgumentsProofs` proves what the loops of `Arguments` compute, for every command
line. A loop is a recursive function on `0 .. L`. The induction theorems of the
library cannot be used, so `LoopInduction` derives what is needed from
`FirstOfSet`: the first turn before which a claim held and after which it does
not is none. `LoopExists` shows that the function defined is one. Each loop then
has an invariant about its state after `n` turns and the first `n` elements:

| loop | invariant | says |
|---|---|---|
| `parseEventsFDOptions` | `EventsFDInv` | it has failed exactly if the first `n` arguments have no description (`DescribedSoFar`); what is left of them is what `WithoutFD` keeps |
| `parseConditionArguments` | `ConditionsInv` | the same for `DescribedGroups` (`GroupsSoFar`) and `AlternativesOf` |
| members of a group | `MembersInv` | an index for each identity among the first `n`, once; the conditions known before keep their index, and those that are new follow |
| groups of a plan | `PlanInv` | each group made so far stands for its members (`StandsFor`), and every condition belongs to one |

`DescribedFD` and `DescribedGroups` say what each argument is next to, without a
state; that they describe a loop with flags is what the first two invariants
show. `Keeping` selects the elements at some places by their rank, so its lemmas
(`RankNext`, `RankOnto`, `KeptAt`, `KeepingNext`) are about cardinalities. From
these follow:

* `ParseAcceptsDescribed`: `Parse` accepts what the description allows, less what has
  a zero duration with a minus (`MinusZero`), and nothing else, and reports an
  unsupported signal exactly if nothing else is wrong. That a duration without a
  minus in front is one that is not negative, and not a zero with a minus, is
  `DurationAsDescribed`. It has the hypothesis `Settled` for the reason given above.
* `PlanMeansFormula`: the plan has one group for each alternative, with the
  conditions its members denote, each once (`MeansFormula`). `IdentityDenotes` is
  why: two members have one identity exactly if they denote the same.

`CommandLineProofs` proves, for every set of invocations (`InputsAssumption`), all the
invariants of its run: `TypeOK`; `BlocksOnlyUnkept`, with the invariant that the mode
is set from a check to the write that follows, unless someone has cleared it
(`ModeKnown`); `EarliestInstant`, from `EarliestIsEarliest`; `AcceptsWhatIsDescribed`
and `PlanMeansArguments`, from the two theorems above, since `result` is what
`Parse` returned (`ArgumentsKnown`); and `StandaloneOptions`, which also needs that an
option that stands alone never gets past `Decide`: not inductive, as it says
something only of an invocation that has ended. `VersionNotAccepted`, by the
invariants of the two parser loops, is what it takes for `--version` among others.

So each safety invariant and each action property of the passing runs is the
statement of a theorem. What stays with TLC: the liveness properties
(`Reclaimed`, `EverythingEnds`, `DeadBranchCloses`, `NothingStuck`,
`LatchedGroupExits`, `EndOfInputExits`, `OccurrenceIsReported`,
`RecordsDoNotDelayExit`), since fairness needs `ENABLED`, which is out of the
prover's reach; and for the same reason the fair half of the refinements
(`ImplementsPlan`, `ImplementsLeaf`, `ImplementsLifecycle`), whose steps are proved.

## Not modelled, and plan

Left out, and why:

* constant texts (help, version, the rest of the description), JSON encoding,
  `ignoreSIGPIPE` and `os.Stat` itself: no state and no decision;
* digits and layouts of numbers, durations and datetimes, which are the standard
  library's;
* the guards of `datetime.go` against overflow of seconds, which no year up to 9999
  reaches;
* a `condition.Runtime` with missing or nil members, which the program never
  installs;
* composites without children and the time stamp of events in `ConditionTree`;
* release automation, which is no part of the program.

What is left, in this order:

1. The safety half of the liveness properties as theorems: for each state in which
   the run must go on, an action that can be taken (a guard that holds, rather than
   `ENABLED`), beginning with the teardown of `ConditionTree` and the dispatch of
   `SharedStream`.
2. `SharedStream` as the stream of `ConditionTree`: an abstract stream that both
   implement, so that what is proved of the registry carries over to the tree.
3. That the plan of an accepted command line meets `OutageAssumption`, and `Outage` and
   `CommandLine` as refinements of one invocation, with the emitter of
   `EventDescriptor` in the place of the records of `Outage`.
