-------------------------------- MODULE Outage --------------------------------
(***************************************************************************)
(* One run of the outage process: runWithClock and what it calls in        *)
(* cmd/outage/main.go and cmd/outage/events.go.                            *)
(*                                                                         *)
(* The goroutines are the main one (pc), the copy of stdin to stdout       *)
(* (copy), one monitor for each condition, the condition tree above them,  *)
(* and the one that writes the warning.  Around them are the world the     *)
(* conditions look at, the producer, the consumer and the reader of the    *)
(* event descriptor.  The tree is a LatchedPlan: once a group is complete   *)
(* it publishes one event, some time later.                                *)
(***************************************************************************)
EXTENDS Naturals, Sequences, FiniteSets

CONSTANTS
  NumConditions,  \* len(plan.Conditions)
  Kind,           \* Kind[c] is "signal", "file", or "time" (duration, datetime)
  Groups,         \* plan.Groups, each as the set of its members
  WithEvents,     \* plan.EventsFDSet
  MaxChunks       \* bound on the chunks the producer writes

Conditions == 1..NumConditions

ASSUME OutageAssumption ==
  /\ NumConditions \in Nat \ {0}
  /\ Kind \in [Conditions -> {"signal", "file", "time"}]
  /\ Groups \in Seq((SUBSET Conditions) \ {{}})
  /\ Groups # <<>>
  /\ WithEvents \in BOOLEAN
  /\ MaxChunks \in Nat

VARIABLES
  pc,            \* where the main goroutine is
  index,         \* the condition its current loop is at
  initial,       \* the conditions initialConditionStates found satisfied
  rechecked,     \* those the recheck before the copy found satisfied
  cause,         \* what ended the run
  status,        \* the exit status, once the main goroutine has chosen one
  monitor,       \* the monitor of each condition
  treeEvent,     \* the event of the And or Or at the root is in its channel
  holds,         \* what a look at the clock, or at the path, would find
  copy,          \* the copy goroutine, or the result it has put into copyDone
  produced,      \* chunks written to stdin
  inputEnd,      \* how stdin ended
  consumed,      \* chunks the copy has read
  written,       \* chunks it has written
  outputClosed,  \* the consumer has closed stdout
  records,       \* what the event descriptor has received
  disabled,      \* emitter.disabled
  warning,       \* the goroutine that warns of a failed event write
  occurred,      \* history: conditions that have occurred under observation
  atRecheck,     \* history: conditions that held when the recheck began
  copyFirst      \* history: the copy ended before the root event was there

mainVars  == <<pc, index, initial, rechecked, cause, status>>
treeVars  == <<monitor, treeEvent>>
copyVars  == <<copy, consumed, written, copyFirst>>
pipeVars  == <<produced, inputEnd, outputClosed>>
eventVars == <<records, disabled, warning>>
worldVars == <<holds, occurred>>
vars == <<mainVars, treeVars, copyVars, pipeVars, eventVars, worldVars, atRecheck>>

Records == [event : {"condition-triggered", "stream-cutoff"}, whole : BOOLEAN]

TypeOK ==
  /\ pc \in {"args", "sample", "monitor", "immediate", "recheck", "ready", "select",
             "arbitrate", "trigger", "cutoff", "exit", "exited"}
  /\ index \in Conditions
  /\ initial \subseteq Conditions
  /\ rechecked \subseteq Conditions
  /\ cause \in {"none", "standalone", "rejected", "condition", "eof", "error"}
  /\ status \in 0..2
  /\ monitor \in [Conditions -> {"off", "armed", "caught", "fired"}]
  /\ treeEvent \in BOOLEAN
  /\ holds \in [Conditions -> BOOLEAN]
  /\ copy \in {"none", "reading", "writing", "eof", "error"}
  /\ produced \in 0..MaxChunks
  /\ inputEnd \in {"open", "eof", "error"}
  /\ consumed \in 0..produced
  /\ written \in 0..consumed
  /\ outputClosed \in BOOLEAN
  /\ records \in Seq(Records)
  /\ disabled \in BOOLEAN
  /\ warning \in {"none", "pending", "written"}
  /\ occurred \subseteq Conditions
  /\ atRecheck \subseteq Conditions
  /\ copyFirst \in BOOLEAN

Init ==
  /\ pc = "args"
  /\ index = 1
  /\ initial = {}
  /\ rechecked = {}
  /\ cause = "none"
  /\ status = 0
  /\ monitor = [c \in Conditions |-> "off"]
  /\ treeEvent = FALSE
  /\ holds \in {h \in [Conditions -> BOOLEAN] : \A c \in Conditions : Kind[c] = "signal" => ~h[c]}
  /\ copy = "none"
  /\ produced = 0
  /\ inputEnd = "open"
  /\ consumed = 0
  /\ written = 0
  /\ outputClosed = FALSE
  /\ records = <<>>
  /\ disabled = FALSE
  /\ warning = "none"
  /\ occurred = {}
  /\ atRecheck = {}
  /\ copyFirst = FALSE

\* The process is alive, with its goroutines.
Running == pc \notin {"args", "exited"}

\* Mutant of Satisfied: one member of a group is enough.
AnyMemberSatisfied(C) == \E i \in 1..Len(Groups) : Groups[i] \cap C # {}

\* conditionPlanSatisfied, of the conditions found satisfied.
Satisfied(C) == \E i \in 1..Len(Groups) : Groups[i] \subseteq C

\* buildConditionTree: one group of one condition has neither an And nor an Or
\* above it, and the root is the monitor itself.
Direct == Len(Groups) = 1 /\ Cardinality(Groups[1]) = 1

Fired == {c \in Conditions : monitor[c] = "fired"}

\* There is an event to receive from the channel root.Run returned.
RootReady == IF Direct THEN Satisfied(Fired) ELSE treeEvent

\* There is a result to receive from copyDone.
CopyReady == copy \in {"eof", "error"}

-----------------------------------------------------------------------------
(***************************************************************************)
(* The main goroutine: runWithClock.                                       *)
(***************************************************************************)

\* --help, --describe or --version: print and exit, with 1 if stdout fails.
PrintAndExit ==
  /\ pc = "args"
  /\ pc' = "exited"
  /\ cause' = "standalone"
  /\ status' \in {0, 1}
  /\ UNCHANGED <<index, initial, rechecked, treeVars, copyVars, pipeVars, eventVars,
                 worldVars, atRecheck>>

\* Arguments that do not parse, --describe among others, or a descriptor that
\* is not writable and nonblocking or cannot be duplicated.
RejectArguments ==
  /\ pc = "args"
  /\ pc' = "exited"
  /\ cause' = "rejected"
  /\ status' = 2
  /\ UNCHANGED <<index, initial, rechecked, treeVars, copyVars, pipeVars, eventVars,
                 worldVars, atRecheck>>

\* A plan to monitor.  What has occurred is counted from here.
AcceptPlan ==
  /\ pc = "args"
  /\ pc' = "sample"
  /\ occurred' = {c \in Conditions : holds[c]}
  /\ UNCHANGED <<index, initial, rechecked, cause, status, treeVars, copyVars, pipeVars,
                 eventVars, holds, atRecheck>>

\* One iteration of the loop of initialConditionStates.
SampleCondition ==
  /\ pc = "sample"
  /\ initial' = IF holds[index] THEN initial \cup {index} ELSE initial
  /\ IF index < NumConditions
     THEN index' = index + 1 /\ UNCHANGED pc
     ELSE index' = 1 /\ pc' = "monitor"
  /\ UNCHANGED <<rechecked, cause, status, treeVars, copyVars, pipeVars, eventVars, worldVars,
                 atRecheck>>

\* Mutants of StartMonitor: the last monitor is not started; the monitor of a
\* condition that was found satisfied takes a new look.
StartAllButLastMonitor ==
  /\ pc = "monitor"
  /\ monitor' = [monitor EXCEPT ![index] =
                   IF index \in initial \/ holds[index] THEN "fired" ELSE "armed"]
  /\ IF index + 1 < NumConditions
     THEN index' = index + 1 /\ UNCHANGED pc
     ELSE index' = 1 /\ pc' = IF Satisfied(initial) THEN "trigger" ELSE "immediate"
  /\ cause' = IF pc' = "trigger" THEN "condition" ELSE cause
  /\ UNCHANGED <<initial, rechecked, status, treeEvent, copyVars, pipeVars, eventVars,
                 worldVars, atRecheck>>

StartMonitorAfresh ==
  /\ pc = "monitor"
  /\ monitor' = [monitor EXCEPT ![index] = IF holds[index] THEN "fired" ELSE "armed"]
  /\ IF index < NumConditions
     THEN index' = index + 1 /\ UNCHANGED pc
     ELSE index' = 1 /\ pc' = IF Satisfied(initial) THEN "trigger" ELSE "immediate"
  /\ cause' = IF pc' = "trigger" THEN "condition" ELSE cause
  /\ UNCHANGED <<initial, rechecked, status, treeEvent, copyVars, pipeVars, eventVars,
                 worldVars, atRecheck>>

\* root.Run starts the monitors one by one.  One that was found satisfied is
\* replaced by one that has fired; one that holds by now fires at once; a
\* signal is caught from signal.Notify on.  The next statement tests whether
\* the plan was satisfied from the beginning.
StartMonitor ==
  /\ pc = "monitor"
  /\ monitor' = [monitor EXCEPT ![index] =
                   IF index \in initial \/ holds[index] THEN "fired" ELSE "armed"]
  /\ IF index < NumConditions
     THEN index' = index + 1 /\ UNCHANGED pc
     ELSE index' = 1 /\ pc' = IF Satisfied(initial) THEN "trigger" ELSE "immediate"
  /\ cause' = IF pc' = "trigger" THEN "condition" ELSE cause
  /\ UNCHANGED <<initial, rechecked, status, treeEvent, copyVars, pipeVars, eventVars,
                 worldVars, atRecheck>>

\* select { case <-events: ... default: }, before there is a copy goroutine.
CheckImmediateEvent ==
  /\ pc = "immediate"
  /\ IF RootReady
     THEN pc' = "trigger" /\ cause' = "condition"
     ELSE pc' = "recheck" /\ UNCHANGED cause
  /\ atRecheck' = {c \in Conditions : holds[c] /\ Kind[c] = "time"}
  /\ UNCHANGED <<index, initial, rechecked, status, treeVars, copyVars, pipeVars, eventVars,
                 worldVars>>

\* Mutant of Recheck: start the copy without another look.
SkipRecheck ==
  /\ pc = "recheck"
  /\ pc' = "ready"
  /\ copy' = "reading"
  /\ UNCHANGED <<index, initial, rechecked, cause, status, treeVars, consumed, written,
                 copyFirst, pipeVars, eventVars, worldVars, atRecheck>>

\* One iteration of initialConditionStates without the files, and after the
\* last one the decision on its result, which may be to start the copy.
Recheck ==
  LET found == IF Kind[index] = "time" /\ holds[index] THEN rechecked \cup {index} ELSE rechecked
  IN  /\ pc = "recheck"
      /\ rechecked' = found
      /\ \/ /\ index < NumConditions
            /\ index' = index + 1
            /\ UNCHANGED <<pc, cause, copy>>
         \/ /\ index = NumConditions
            /\ Satisfied(found)
            /\ pc' = "trigger"
            /\ cause' = "condition"
            /\ UNCHANGED <<index, copy>>
         \/ /\ index = NumConditions
            /\ ~Satisfied(found)
            /\ pc' = IF WithEvents THEN "ready" ELSE "select"
            /\ copy' = "reading"
            /\ UNCHANGED <<index, cause>>
      /\ UNCHANGED <<initial, status, treeVars, consumed, written, copyFirst, pipeVars,
                     eventVars, worldVars, atRecheck>>

-----------------------------------------------------------------------------
(***************************************************************************)
(* The main goroutine: waitForCopyOrCondition, handleConditionEvent,       *)
(* emitCutoffEvents.                                                       *)
(***************************************************************************)

\* The result of the copy ends the run.
EndWithCopy ==
  /\ pc' = "exit"
  /\ cause' = IF copy = "error" THEN "error" ELSE "eof"
  /\ status' = IF copy = "error" THEN 1 ELSE 0

EndWithCondition ==
  /\ pc' = "trigger"
  /\ cause' = "condition"
  /\ UNCHANGED status

waitUnchanged == <<index, initial, rechecked, treeVars, copyVars, pipeVars, eventVars,
                   worldVars, atRecheck>>

\* With events, a look at copyDone alone comes first.
CheckCopy ==
  /\ pc = "ready"
  /\ IF CopyReady THEN EndWithCopy ELSE pc' = "select" /\ UNCHANGED <<cause, status>>
  /\ UNCHANGED waitUnchanged

\* The select takes either channel that is ready.
SelectEvent ==
  /\ pc = "select"
  /\ RootReady
  /\ IF WithEvents THEN pc' = "arbitrate" /\ UNCHANGED <<cause, status>> ELSE EndWithCondition
  /\ UNCHANGED waitUnchanged

\* Mutant of SelectCopy: with events, only the first look receives a result.
SelectCopyWithoutEvents ==
  /\ pc = "select"
  /\ CopyReady /\ ~WithEvents
  /\ EndWithCopy
  /\ UNCHANGED waitUnchanged

SelectCopy ==
  /\ pc = "select"
  /\ CopyReady
  /\ EndWithCopy
  /\ UNCHANGED waitUnchanged

\* Mutants of Arbitrate: take the condition for the cutoff without looking at
\* the copy again; wait for the copy to end.
TakeCondition ==
  /\ pc = "arbitrate"
  /\ EndWithCondition
  /\ UNCHANGED waitUnchanged

WaitForCopy ==
  /\ pc = "arbitrate"
  /\ CopyReady
  /\ EndWithCopy
  /\ UNCHANGED waitUnchanged

\* handleConditionEvent: a copy that has ended by now goes first.
Arbitrate ==
  /\ pc = "arbitrate"
  /\ IF CopyReady THEN EndWithCopy ELSE EndWithCondition
  /\ UNCHANGED waitUnchanged

\* Mutant of EmitRecord: go on after a failed write.
EmitRecordAlways(event) ==
  \/ /\ records' = Append(records, [event |-> event, whole |-> TRUE])
     /\ UNCHANGED <<disabled, warning>>
  \/ /\ disabled' = TRUE
     /\ warning' = "pending"
     /\ UNCHANGED records

\* emitRecord: the whole line, a part of it, or nothing is written; unless it
\* is the whole line, events are disabled and a goroutine warns of it.
EmitRecord(event) ==
  \/ /\ disabled
     /\ UNCHANGED eventVars
  \/ /\ ~disabled
     /\ records' = Append(records, [event |-> event, whole |-> TRUE])
     /\ UNCHANGED <<disabled, warning>>
  \/ /\ ~disabled
     /\ records' \in {records, Append(records, [event |-> event, whole |-> FALSE])}
     /\ disabled' = TRUE
     /\ warning' = "pending"

emitUnchanged == <<index, initial, rechecked, cause, status, treeVars, copyVars, pipeVars,
                   worldVars, atRecheck>>

\* Mutant of EmitConditionTriggered: the cutoff is recorded first.
EmitCutoffFirst ==
  /\ pc = "trigger"
  /\ IF WithEvents
     THEN EmitRecord("stream-cutoff") /\ pc' = "cutoff"
     ELSE UNCHANGED eventVars /\ pc' = "exit"
  /\ UNCHANGED emitUnchanged

EmitConditionTriggered ==
  /\ pc = "trigger"
  /\ IF WithEvents
     THEN EmitRecord("condition-triggered") /\ pc' = "cutoff"
     ELSE UNCHANGED eventVars /\ pc' = "exit"
  /\ UNCHANGED emitUnchanged

EmitStreamCutoff ==
  /\ pc = "cutoff"
  /\ EmitRecord("stream-cutoff")
  /\ pc' = "exit"
  /\ UNCHANGED emitUnchanged

\* The deferred calls, and os.Exit, which takes every goroutine with it.
Exit ==
  /\ pc = "exit"
  /\ pc' = "exited"
  /\ UNCHANGED <<emitUnchanged, eventVars>>

Main ==
  \/ PrintAndExit
  \/ RejectArguments
  \/ AcceptPlan
  \/ SampleCondition
  \/ StartMonitor
  \/ CheckImmediateEvent
  \/ Recheck
  \/ CheckCopy
  \/ SelectEvent
  \/ SelectCopy
  \/ Arbitrate
  \/ EmitConditionTriggered
  \/ EmitStreamCutoff
  \/ Exit

-----------------------------------------------------------------------------
(***************************************************************************)
(* Monitors, tree, and the goroutine that warns.                           *)
(***************************************************************************)

othersUnchanged == <<mainVars, copyVars, pipeVars, atRecheck>>

\* A timer goes off, a poll finds the file, a caught signal is received.
Fire(c) ==
  /\ Running
  /\ \/ monitor[c] = "caught"
     \/ monitor[c] = "armed" /\ holds[c]
  /\ monitor' = [monitor EXCEPT ![c] = "fired"]
  /\ UNCHANGED <<treeEvent, eventVars, worldVars, othersUnchanged>>

\* The And and Or conditions above the monitors.
Tree == INSTANCE LatchedPlan WITH
          Satisfying <- {C \in SUBSET Conditions : Satisfied(C)},
          fired <- Fired, published <- treeEvent

\* The tree runs once root.Run has subscribed every branch.  It publishes its
\* event after those of all members of some group.
PublishTreeEvent ==
  /\ Running /\ pc \notin {"sample", "monitor"}
  /\ ~Direct
  /\ UNCHANGED <<monitor, eventVars, worldVars, othersUnchanged>>
  /\ Tree!Publish

WriteWarning ==
  /\ Running
  /\ warning = "pending"
  /\ warning' = "written"
  /\ UNCHANGED <<treeVars, records, disabled, worldVars, othersUnchanged>>

-----------------------------------------------------------------------------
(***************************************************************************)
(* The copy goroutine: io.Copy, a chunk at a time, then copyDone.          *)
(***************************************************************************)

copyUnchanged == <<mainVars, treeVars, pipeVars, eventVars, worldVars, atRecheck>>

\* Mutant of CopyRead: count a read that finds nothing.
CopyReadAhead ==
  /\ Running
  /\ copy = "reading" /\ consumed <= produced
  /\ consumed' = consumed + 1
  /\ copy' = "writing"
  /\ UNCHANGED <<written, copyFirst, copyUnchanged>>

CopyRead ==
  /\ Running
  /\ copy = "reading" /\ consumed < produced
  /\ consumed' = consumed + 1
  /\ copy' = "writing"
  /\ UNCHANGED <<written, copyFirst, copyUnchanged>>

\* The consumer may be slow for ever; the write then blocks.
CopyWrite ==
  /\ Running
  /\ copy = "writing" /\ ~outputClosed
  /\ written' = written + 1
  /\ copy' = "reading"
  /\ UNCHANGED <<consumed, copyFirst, copyUnchanged>>

\* stdin ends, or fails, or stdout fails: io.Copy returns.
CopyEnd ==
  /\ Running
  /\ \/ /\ copy = "reading" /\ consumed = produced /\ inputEnd # "open"
        /\ copy' = inputEnd
     \/ /\ copy = "writing" /\ outputClosed
        /\ copy' = "error"
  /\ copyFirst' = ~RootReady
  /\ UNCHANGED <<consumed, written, copyUnchanged>>

-----------------------------------------------------------------------------
(***************************************************************************)
(* The world around the process.                                           *)
(***************************************************************************)

worldUnchanged == <<mainVars, copyVars, eventVars, atRecheck, treeEvent>>

\* A duration has elapsed or a deadline has been reached.
TimePasses(c) ==
  /\ Running
  /\ Kind[c] = "time" /\ ~holds[c]
  /\ holds' = [holds EXCEPT ![c] = TRUE]
  /\ occurred' = occurred \cup {c}
  /\ UNCHANGED <<monitor, pipeVars, worldUnchanged>>

\* The path becomes a regular file, or ceases to be one.
FileChanges(c) ==
  /\ Running
  /\ Kind[c] = "file"
  /\ holds' = [holds EXCEPT ![c] = ~@]
  /\ occurred' = occurred \cup {c}
  /\ UNCHANGED <<monitor, pipeVars, worldUnchanged>>

\* A signal is sent: the channel given to signal.Notify keeps one of them.  The
\* Go runtime drops USR1 and USR2 before that, so they do not count.
SignalSent(c) ==
  /\ Running
  /\ Kind[c] = "signal"
  /\ monitor[c] = "armed"
  /\ monitor' = [monitor EXCEPT ![c] = "caught"]
  /\ occurred' = occurred \cup {c}
  /\ UNCHANGED <<holds, pipeVars, worldUnchanged>>

pipeUnchanged == <<monitor, worldVars, worldUnchanged>>

Produce ==
  /\ Running
  /\ inputEnd = "open" /\ produced < MaxChunks
  /\ produced' = produced + 1
  /\ UNCHANGED <<inputEnd, outputClosed, pipeUnchanged>>

EndInput ==
  /\ Running
  /\ inputEnd = "open"
  /\ inputEnd' \in {"eof", "error"}
  /\ UNCHANGED <<produced, outputClosed, pipeUnchanged>>

CloseOutput ==
  /\ Running
  /\ ~outputClosed
  /\ outputClosed' = TRUE
  /\ UNCHANGED <<produced, inputEnd, pipeUnchanged>>

World ==
  \/ \E c \in Conditions : TimePasses(c) \/ FileChanges(c) \/ SignalSent(c)
  \/ Produce
  \/ EndInput
  \/ CloseOutput

-----------------------------------------------------------------------------

Next ==
  \/ Main
  \/ \E c \in Conditions : Fire(c)
  \/ PublishTreeEvent
  \/ WriteWarning
  \/ CopyRead
  \/ CopyWrite
  \/ CopyEnd
  \/ World

Spec == Init /\ [][Next]_vars

\* Goroutines that can run do run; timers go off and polls are made.  A write
\* to stdout may block for ever, the warning may never be written, and nothing
\* is assumed of the world.
Fairness ==
  /\ WF_vars(Main)
  /\ \A c \in Conditions : WF_vars(Fire(c))
  /\ WF_vars(PublishTreeEvent)
  /\ WF_vars(CopyRead)
  /\ WF_vars(CopyEnd)

FairSpec == Spec /\ Fairness

-----------------------------------------------------------------------------
(***************************************************************************)
(* What the process promises.                                              *)
(***************************************************************************)

\* Every member of some group is in C: what the README says ends a run.
GroupIn(C) == \E i \in DOMAIN Groups : \A c \in Groups[i] : c \in C

\* The exit status 0 of a monitoring run is earned: a group of conditions did
\* occur, or the whole input has been forwarded.
ExitZeroIsEarned ==
  pc = "exited" /\ status = 0 /\ cause # "standalone" =>
    \/ cause = "condition" /\ GroupIn(occurred)
    \/ cause = "eof" /\ inputEnd = "eof" /\ written = produced

\* A plan that is satisfied from the start, or by timers alone when the recheck
\* begins, ends the run with stdin unread: no copy goroutine is ever started.
InputUntouched ==
  GroupIn(initial) \/ GroupIn(atRecheck) => copy = "none" /\ consumed = 0

\* Every condition is being watched before the first byte is read: a signal
\* sent in answer to a byte of output is never dropped.
WatchedBeforeReading ==
  copy # "none" => \A c \in Conditions : monitor[c] # "off"

\* "Once a condition occurs it is latched": what was found or caught is never
\* forgotten, also when its source is gone a moment later.
Latched ==
  [][/\ initial \subseteq initial'
     /\ \A c \in Conditions :
          /\ monitor[c] = "caught" => monitor'[c] \in {"caught", "fired"}
          /\ monitor[c] = "fired" => monitor'[c] = "fired"
          /\ c \in initial /\ monitor'[c] # "off" => monitor'[c] = "fired"]_vars

\* With event output, an end of the copy that precedes the condition's event is
\* never reported as a cutoff, however late the main goroutine looks at either.
CopyFirstWins ==
  WithEvents /\ copyFirst => cause \in {"none", "eof", "error"}

\* When a group has been latched in full the process exits, though stdin stays
\* open and the consumer has stopped reading.
LatchedGroupExits ==
  GroupIn({c \in Conditions : c \in initial \/ monitor[c] \in {"caught", "fired"}})
    ~> (pc = "exited")

\* Once its input has ended and been forwarded, the process exits.
EndOfInputExits ==
  (copy = "reading" /\ consumed = produced /\ inputEnd # "open") ~> (pc = "exited")

\* The state machine that --describe prints.
lifecycleState ==
  CASE cause = "condition" -> IF pc = "exited" THEN "cutoff" ELSE "triggered"
    [] cause \in {"eof", "error"} -> cause
    [] OTHER -> "monitoring"

Lifecycle == INSTANCE Lifecycle WITH state <- lifecycleState, records <- records

\* Every run is a run of that state machine, with the records it allows.
ImplementsLifecycle == Lifecycle!Spec

\* Records are delivered for cutoffs only, in order, and only the last one may
\* be incomplete.
DeliveredRecords == Lifecycle!OnlyCutoffsAreRecorded /\ Lifecycle!RecordsInOrder

\* cmd/outage/main.go:166-169: no copy goroutine exists when "an immediate
\* event" would race "an input error".  A plan that is satisfied when the recheck
\* begins, by what was latched and what has elapsed, starts no copy.
ImmediateEventNotRaced ==
  GroupIn(initial \cup atRecheck) => copy = "none"

\* cmd/outage/describe.go:210: after a failed event write "outage attempts one
\* warning to stderr".
WarningAttempted ==
  pc = "exited" /\ disabled => warning = "written"

=============================================================================
