---------------------------- MODULE OutageProofs ----------------------------
(***************************************************************************)
(* Proofs about Outage, for every plan and any amount of input.            *)
(***************************************************************************)
EXTENDS Outage, TLAPS

-----------------------------------------------------------------------------
(***************************************************************************)
(* The inductive invariant.                                                *)
(***************************************************************************)

\* The places of the main goroutine before a copy goroutine can exist, and
\* those from which it is certain that every monitor has been started.
BeforeCopy == {"args", "sample", "monitor", "immediate", "recheck"}

Monitoring == {"immediate", "recheck", "ready", "select", "arbitrate", "trigger", "cutoff", "exit"}

\* Monitors are started in order, and the copy after the last one.
Watching ==
  /\ pc \in {"args", "sample"} => \A c \in Conditions : monitor[c] = "off"
  /\ pc \in {"args", "immediate"} => index = 1
  /\ pc = "monitor" => \A c \in Conditions : monitor[c] # "off" <=> c < index
  /\ pc \in Monitoring \/ copy # "none" => \A c \in Conditions : monitor[c] # "off"
  /\ pc \in BeforeCopy => copy = "none"
  /\ copy = "none" => consumed = 0

\* What was found at first is in the tree as a monitor that has fired.
Latching ==
  \A c \in initial : monitor[c] \in {"off", "fired"}

\* Whatever the program knows of the conditions has occurred.
Occurring ==
  /\ pc \notin {"args", "exited"} => \A c \in Conditions : holds[c] => c \in occurred
  /\ initial \subseteq occurred
  /\ rechecked \subseteq occurred
  /\ \A c \in Conditions : monitor[c] \in {"caught", "fired"} => c \in occurred

\* The main goroutine ends the run for a condition only when the plan is
\* satisfied.
Triggering ==
  /\ treeEvent => Satisfied(Fired)
  /\ pc = "arbitrate" => RootReady
  /\ cause = "condition" => Satisfied(occurred)

\* Once there is a copy goroutine, neither the initial sample nor what the
\* recheck could see satisfies the plan.
Rechecking ==
  /\ pc = "args" => initial = {} /\ rechecked = {}
  /\ pc \in {"args", "sample", "monitor", "immediate"} => atRecheck = {}
  /\ pc \in {"immediate", "recheck"} => ~Satisfied(initial)
  /\ pc = "recheck" => \A c \in atRecheck :
       /\ Kind[c] = "time" /\ holds[c]
       /\ c < index => c \in rechecked
  /\ copy # "none" => ~Satisfied(initial) /\ ~Satisfied(atRecheck)

\* How far the copy is, and what the exit status says of it.
Copying ==
  /\ copy \in {"none", "reading"} => written = consumed
  /\ copy = "writing" => consumed = written + 1
  /\ copy = "eof" => inputEnd = "eof" /\ written = produced /\ consumed = produced
  /\ cause = "eof" => copy = "eof"
  /\ pc \notin {"exit", "exited"} => cause \in {"none", "condition"}
  /\ pc \in {"exit", "exited"} => cause # "none"
  /\ cause = "error" => status = 1
  /\ cause = "rejected" => status = 2
  /\ cause \in {"standalone", "rejected"} => copy = "none"

\* A copy that ended before the root event was there goes first.
Arbitrating ==
  /\ copyFirst => CopyReady
  /\ pc \in {"trigger", "cutoff"} => cause = "condition"
  /\ pc \notin {"trigger", "cutoff", "exit", "exited"} => cause = "none"
  /\ copyFirst => pc \notin BeforeCopy
  /\ WithEvents /\ cause = "condition" /\ copy # "none" => RootReady /\ ~copyFirst

Whole(event) == [event |-> event, whole |-> TRUE]
Part(event)  == [event |-> event, whole |-> FALSE]

\* What has been recorded at each place.
Recording ==
  /\ records # <<>> => cause = "condition" /\ pc \in {"cutoff", "exit", "exited"}
  /\ pc \notin {"cutoff", "exit", "exited"} => ~disabled
  /\ pc = "cutoff" =>
       \/ ~disabled /\ records = <<Whole("condition-triggered")>>
       \/ disabled /\ records \in {<<>>, <<Part("condition-triggered")>>}
  /\ records \in { <<>>,
                   <<Whole("condition-triggered")>>,
                   <<Part("condition-triggered")>>,
                   <<Whole("condition-triggered"), Whole("stream-cutoff")>>,
                   <<Whole("condition-triggered"), Part("stream-cutoff")>> }

RunInv ==
  /\ Watching
  /\ Latching
  /\ Occurring
  /\ Rechecking
  /\ Copying
  /\ Triggering
  /\ Arbitrating
  /\ Recording

-----------------------------------------------------------------------------
(***************************************************************************)
(* Steps.                                                                  *)
(***************************************************************************)

\* More conditions never make a plan less satisfied.
LEMMA SatisfiedMonotone ==
  ASSUME NEW A, NEW B, A \subseteq B, Satisfied(A)
  PROVE  Satisfied(B)
BY DEF Satisfied

\* What the promise of the tree comes to: no more than this changes.
LEMMA Publishing ==
  ASSUME PublishTreeEvent
  PROVE  /\ Running /\ pc \notin {"sample", "monitor"}
         /\ ~Direct /\ ~treeEvent
         /\ Satisfied(Fired)
         /\ treeEvent' = TRUE
         /\ UNCHANGED <<monitor, eventVars, worldVars, othersUnchanged>>
BY Zenon DEF PublishTreeEvent, Tree!Publish

\* A record is what EmitRecord appends.
LEMMA RecordType ==
  ASSUME NEW event \in {"condition-triggered", "stream-cutoff"}, TypeOK, EmitRecord(event)
  PROVE  /\ records' \in Seq(Records)
         /\ disabled' \in BOOLEAN
         /\ warning' \in {"none", "pending", "written"}
<1>1. \A w \in BOOLEAN : [event |-> event, whole |-> w] \in Records
  BY DEF Records
<1>2. \A r \in Records : Append(records, r) \in Seq(Records)
  BY DEF TypeOK
<1> QED BY <1>1, <1>2 DEF TypeOK, EmitRecord, eventVars

\* Every step preserves the types.
LEMMA NextType ==
  ASSUME TypeOK, Watching, Copying, [Next]_vars
  PROVE  TypeOK'
<1> USE OutageAssumption DEF Conditions, Running, mainVars, treeVars, copyVars, pipeVars,
    eventVars, worldVars
<1>1. CASE PrintAndExit
  BY <1>1 DEF TypeOK, Watching, Copying, PrintAndExit
<1>2. CASE RejectArguments
  BY <1>2 DEF TypeOK, Watching, Copying, RejectArguments
<1>3. CASE AcceptPlan
  BY <1>3 DEF TypeOK, Watching, Copying, AcceptPlan
<1>4. CASE SampleCondition
  BY <1>4 DEF TypeOK, Watching, Copying, SampleCondition
<1>5. CASE StartMonitor
  BY <1>5 DEF TypeOK, Watching, Copying, StartMonitor
<1>6. CASE CheckImmediateEvent
  BY <1>6 DEF TypeOK, Watching, Copying, CheckImmediateEvent
<1>7. CASE Recheck
  BY <1>7 DEF TypeOK, Watching, Copying, Recheck
<1>8. CASE CheckCopy
  BY <1>8 DEF TypeOK, Watching, Copying, CheckCopy, EndWithCopy, waitUnchanged
<1>9. CASE SelectEvent
  BY <1>9 DEF TypeOK, Watching, Copying, SelectEvent, EndWithCondition, waitUnchanged
<1>10. CASE SelectCopy
  BY <1>10 DEF TypeOK, Watching, Copying, SelectCopy, EndWithCopy, waitUnchanged
<1>11. CASE Arbitrate
  BY <1>11 DEF TypeOK, Watching, Copying, Arbitrate, EndWithCopy, EndWithCondition, waitUnchanged
<1>12. CASE EmitConditionTriggered
  <2>1. /\ records' \in Seq(Records)
        /\ disabled' \in BOOLEAN
        /\ warning' \in {"none", "pending", "written"}
    BY <1>12, RecordType DEF TypeOK, EmitConditionTriggered
  <2> QED BY <1>12, <2>1 DEF TypeOK, EmitConditionTriggered, emitUnchanged
<1>13. CASE EmitStreamCutoff
  <2>1. /\ records' \in Seq(Records)
        /\ disabled' \in BOOLEAN
        /\ warning' \in {"none", "pending", "written"}
    BY <1>13, RecordType DEF EmitStreamCutoff
  <2> QED BY <1>13, <2>1 DEF TypeOK, EmitStreamCutoff, emitUnchanged
<1>14. CASE Exit
  BY <1>14 DEF TypeOK, Watching, Copying, Exit, emitUnchanged
<1>15. CASE PublishTreeEvent
  <2>1. treeEvent' = TRUE /\ UNCHANGED <<monitor, eventVars, worldVars, othersUnchanged>>
    BY <1>15, Publishing
  <2> QED BY <2>1 DEF TypeOK, othersUnchanged
<1>16. CASE WriteWarning
  BY <1>16 DEF TypeOK, Watching, Copying, WriteWarning, othersUnchanged
<1>17. CASE CopyRead
  BY <1>17 DEF TypeOK, Watching, Copying, CopyRead, copyUnchanged
<1>18. CASE CopyWrite
  BY <1>18 DEF TypeOK, Watching, Copying, CopyWrite, copyUnchanged
<1>19. CASE CopyEnd
  BY <1>19 DEF TypeOK, Watching, Copying, CopyEnd, copyUnchanged
<1>20. CASE Produce
  BY <1>20 DEF TypeOK, Watching, Copying, Produce, pipeUnchanged, worldUnchanged
<1>21. CASE EndInput
  BY <1>21 DEF TypeOK, Watching, Copying, EndInput, pipeUnchanged, worldUnchanged
<1>22. CASE CloseOutput
  BY <1>22 DEF TypeOK, Watching, Copying, CloseOutput, pipeUnchanged, worldUnchanged
<1>23. ASSUME NEW c \in Conditions, Fire(c)
       PROVE  TypeOK'
  BY <1>23 DEF TypeOK, Watching, Copying, Fire, othersUnchanged
<1>24. ASSUME NEW c \in Conditions, TimePasses(c)
       PROVE  TypeOK'
  BY <1>24 DEF TypeOK, Watching, Copying, TimePasses, worldUnchanged
<1>25. ASSUME NEW c \in Conditions, FileChanges(c)
       PROVE  TypeOK'
  BY <1>25 DEF TypeOK, Watching, Copying, FileChanges, worldUnchanged
<1>26. ASSUME NEW c \in Conditions, SignalSent(c)
       PROVE  TypeOK'
  BY <1>26 DEF TypeOK, Watching, Copying, SignalSent, worldUnchanged
<1>27. CASE UNCHANGED vars
  BY <1>27 DEF TypeOK, Watching, Copying, vars
<1> QED BY <1>1, <1>2, <1>3, <1>4, <1>5, <1>6, <1>7, <1>8, <1>9, <1>10, <1>11, <1>12, <1>13, <1>14,
    <1>15, <1>16, <1>17, <1>18, <1>19, <1>20, <1>21, <1>22, <1>23, <1>24, <1>25, <1>26, <1>27 DEF
        Next, Main, World

\* Every step preserves Watching.
LEMMA NextWatching ==
  ASSUME TypeOK, Watching, [Next]_vars
  PROVE  Watching'
<1> USE OutageAssumption DEF Conditions, Running, mainVars, treeVars, copyVars, pipeVars,
    eventVars, worldVars
<1>1. CASE PrintAndExit
  BY <1>1 DEF TypeOK, Watching, BeforeCopy, Monitoring, PrintAndExit
<1>2. CASE RejectArguments
  BY <1>2 DEF TypeOK, Watching, BeforeCopy, Monitoring, RejectArguments
<1>3. CASE AcceptPlan
  BY <1>3 DEF TypeOK, Watching, BeforeCopy, Monitoring, AcceptPlan
<1>4. CASE SampleCondition
  BY <1>4 DEF TypeOK, Watching, BeforeCopy, Monitoring, SampleCondition
<1>5. CASE StartMonitor
  BY <1>5 DEF TypeOK, Watching, BeforeCopy, Monitoring, StartMonitor
<1>6. CASE CheckImmediateEvent
  BY <1>6 DEF TypeOK, Watching, BeforeCopy, Monitoring, CheckImmediateEvent
<1>7. CASE Recheck
  BY <1>7 DEF TypeOK, Watching, BeforeCopy, Monitoring, Recheck
<1>8. CASE CheckCopy
  BY <1>8 DEF TypeOK, Watching, BeforeCopy, Monitoring, CheckCopy, EndWithCopy, waitUnchanged
<1>9. CASE SelectEvent
  BY <1>9 DEF TypeOK, Watching, BeforeCopy, Monitoring, SelectEvent, EndWithCondition, waitUnchanged
<1>10. CASE SelectCopy
  BY <1>10 DEF TypeOK, Watching, BeforeCopy, Monitoring, SelectCopy, EndWithCopy, waitUnchanged
<1>11. CASE Arbitrate
  BY <1>11 DEF TypeOK, Watching, BeforeCopy, Monitoring, Arbitrate, EndWithCopy, EndWithCondition,
      waitUnchanged
<1>12. CASE EmitConditionTriggered
  BY <1>12 DEF TypeOK, Watching, BeforeCopy, Monitoring, EmitConditionTriggered, EmitRecord,
      emitUnchanged
<1>13. CASE EmitStreamCutoff
  BY <1>13 DEF TypeOK, Watching, BeforeCopy, Monitoring, EmitStreamCutoff, EmitRecord, emitUnchanged
<1>14. CASE Exit
  BY <1>14 DEF TypeOK, Watching, BeforeCopy, Monitoring, Exit, emitUnchanged
<1>15. CASE PublishTreeEvent
  BY <1>15, Publishing DEF TypeOK, Watching, BeforeCopy, Monitoring, othersUnchanged
<1>16. CASE WriteWarning
  BY <1>16 DEF TypeOK, Watching, BeforeCopy, Monitoring, WriteWarning, othersUnchanged
<1>17. CASE CopyRead
  BY <1>17 DEF TypeOK, Watching, BeforeCopy, Monitoring, CopyRead, copyUnchanged
<1>18. CASE CopyWrite
  BY <1>18 DEF TypeOK, Watching, BeforeCopy, Monitoring, CopyWrite, copyUnchanged
<1>19. CASE CopyEnd
  BY <1>19 DEF TypeOK, Watching, BeforeCopy, Monitoring, CopyEnd, copyUnchanged
<1>20. CASE Produce
  BY <1>20 DEF TypeOK, Watching, BeforeCopy, Monitoring, Produce, pipeUnchanged, worldUnchanged
<1>21. CASE EndInput
  BY <1>21 DEF TypeOK, Watching, BeforeCopy, Monitoring, EndInput, pipeUnchanged, worldUnchanged
<1>22. CASE CloseOutput
  BY <1>22 DEF TypeOK, Watching, BeforeCopy, Monitoring, CloseOutput, pipeUnchanged, worldUnchanged
<1>23. ASSUME NEW c \in Conditions, Fire(c)
       PROVE  Watching'
  BY <1>23 DEF TypeOK, Watching, BeforeCopy, Monitoring, Fire, othersUnchanged
<1>24. ASSUME NEW c \in Conditions, TimePasses(c)
       PROVE  Watching'
  BY <1>24 DEF TypeOK, Watching, BeforeCopy, Monitoring, TimePasses, worldUnchanged
<1>25. ASSUME NEW c \in Conditions, FileChanges(c)
       PROVE  Watching'
  BY <1>25 DEF TypeOK, Watching, BeforeCopy, Monitoring, FileChanges, worldUnchanged
<1>26. ASSUME NEW c \in Conditions, SignalSent(c)
       PROVE  Watching'
  BY <1>26 DEF TypeOK, Watching, BeforeCopy, Monitoring, SignalSent, worldUnchanged
<1>27. CASE UNCHANGED vars
  BY <1>27 DEF TypeOK, Watching, BeforeCopy, Monitoring, vars
<1> QED BY <1>1, <1>2, <1>3, <1>4, <1>5, <1>6, <1>7, <1>8, <1>9, <1>10, <1>11, <1>12, <1>13, <1>14,
    <1>15, <1>16, <1>17, <1>18, <1>19, <1>20, <1>21, <1>22, <1>23, <1>24, <1>25, <1>26, <1>27 DEF
        Next, Main, World

\* Every step preserves Latching.
LEMMA NextLatching ==
  ASSUME TypeOK, Watching, Latching, [Next]_vars
  PROVE  Latching'
<1> USE OutageAssumption DEF Conditions, Running, mainVars, treeVars, copyVars, pipeVars,
    eventVars, worldVars
<1>1. CASE PrintAndExit
  BY <1>1 DEF TypeOK, Watching, Latching, Monitoring, PrintAndExit
<1>2. CASE RejectArguments
  BY <1>2 DEF TypeOK, Watching, Latching, Monitoring, RejectArguments
<1>3. CASE AcceptPlan
  BY <1>3 DEF TypeOK, Watching, Latching, Monitoring, AcceptPlan
<1>4. CASE SampleCondition
  BY <1>4 DEF TypeOK, Watching, Latching, Monitoring, SampleCondition
<1>5. CASE StartMonitor
  BY <1>5 DEF TypeOK, Watching, Latching, Monitoring, StartMonitor
<1>6. CASE CheckImmediateEvent
  BY <1>6 DEF TypeOK, Watching, Latching, Monitoring, CheckImmediateEvent
<1>7. CASE Recheck
  BY <1>7 DEF TypeOK, Watching, Latching, Monitoring, Recheck
<1>8. CASE CheckCopy
  BY <1>8 DEF TypeOK, Watching, Latching, Monitoring, CheckCopy, EndWithCopy, waitUnchanged
<1>9. CASE SelectEvent
  BY <1>9 DEF TypeOK, Watching, Latching, Monitoring, SelectEvent, EndWithCondition, waitUnchanged
<1>10. CASE SelectCopy
  BY <1>10 DEF TypeOK, Watching, Latching, Monitoring, SelectCopy, EndWithCopy, waitUnchanged
<1>11. CASE Arbitrate
  BY <1>11 DEF TypeOK, Watching, Latching, Monitoring, Arbitrate, EndWithCopy, EndWithCondition,
      waitUnchanged
<1>12. CASE EmitConditionTriggered
  BY <1>12 DEF TypeOK, Watching, Latching, Monitoring, EmitConditionTriggered, EmitRecord,
      emitUnchanged
<1>13. CASE EmitStreamCutoff
  BY <1>13 DEF TypeOK, Watching, Latching, Monitoring, EmitStreamCutoff, EmitRecord, emitUnchanged
<1>14. CASE Exit
  BY <1>14 DEF TypeOK, Watching, Latching, Monitoring, Exit, emitUnchanged
<1>15. CASE PublishTreeEvent
  BY <1>15, Publishing DEF TypeOK, Watching, Latching, Monitoring, othersUnchanged
<1>16. CASE WriteWarning
  BY <1>16 DEF TypeOK, Watching, Latching, Monitoring, WriteWarning, othersUnchanged
<1>17. CASE CopyRead
  BY <1>17 DEF TypeOK, Watching, Latching, Monitoring, CopyRead, copyUnchanged
<1>18. CASE CopyWrite
  BY <1>18 DEF TypeOK, Watching, Latching, Monitoring, CopyWrite, copyUnchanged
<1>19. CASE CopyEnd
  BY <1>19 DEF TypeOK, Watching, Latching, Monitoring, CopyEnd, copyUnchanged
<1>20. CASE Produce
  BY <1>20 DEF TypeOK, Watching, Latching, Monitoring, Produce, pipeUnchanged, worldUnchanged
<1>21. CASE EndInput
  BY <1>21 DEF TypeOK, Watching, Latching, Monitoring, EndInput, pipeUnchanged, worldUnchanged
<1>22. CASE CloseOutput
  BY <1>22 DEF TypeOK, Watching, Latching, Monitoring, CloseOutput, pipeUnchanged, worldUnchanged
<1>23. ASSUME NEW c \in Conditions, Fire(c)
       PROVE  Latching'
  BY <1>23 DEF TypeOK, Watching, Latching, Monitoring, Fire, othersUnchanged
<1>24. ASSUME NEW c \in Conditions, TimePasses(c)
       PROVE  Latching'
  BY <1>24 DEF TypeOK, Watching, Latching, Monitoring, TimePasses, worldUnchanged
<1>25. ASSUME NEW c \in Conditions, FileChanges(c)
       PROVE  Latching'
  BY <1>25 DEF TypeOK, Watching, Latching, Monitoring, FileChanges, worldUnchanged
<1>26. ASSUME NEW c \in Conditions, SignalSent(c)
       PROVE  Latching'
  BY <1>26 DEF TypeOK, Watching, Latching, Monitoring, SignalSent, worldUnchanged
<1>27. CASE UNCHANGED vars
  BY <1>27 DEF TypeOK, Watching, Latching, Monitoring, vars
<1> QED BY <1>1, <1>2, <1>3, <1>4, <1>5, <1>6, <1>7, <1>8, <1>9, <1>10, <1>11, <1>12, <1>13, <1>14,
    <1>15, <1>16, <1>17, <1>18, <1>19, <1>20, <1>21, <1>22, <1>23, <1>24, <1>25, <1>26, <1>27 DEF
        Next, Main, World

\* Every step preserves Copying.
LEMMA NextCopying ==
  ASSUME TypeOK, Watching, Arbitrating, Copying, [Next]_vars
  PROVE  Copying'
<1> USE OutageAssumption DEF Conditions, Running, mainVars, treeVars, copyVars, pipeVars,
    eventVars, worldVars
<1>1. CASE PrintAndExit
  BY <1>1 DEF TypeOK, Watching, BeforeCopy, Monitoring, Arbitrating, CopyReady, Copying,
      PrintAndExit
<1>2. CASE RejectArguments
  BY <1>2 DEF TypeOK, Watching, BeforeCopy, Monitoring, Arbitrating, CopyReady, Copying,
      RejectArguments
<1>3. CASE AcceptPlan
  BY <1>3 DEF TypeOK, Watching, BeforeCopy, Monitoring, Arbitrating, CopyReady, Copying, AcceptPlan
<1>4. CASE SampleCondition
  BY <1>4 DEF TypeOK, Watching, BeforeCopy, Monitoring, Arbitrating, CopyReady, Copying,
      SampleCondition
<1>5. CASE StartMonitor
  BY <1>5 DEF TypeOK, Watching, BeforeCopy, Monitoring, Arbitrating, CopyReady, Copying,
      StartMonitor
<1>6. CASE CheckImmediateEvent
  BY <1>6 DEF TypeOK, Watching, BeforeCopy, Monitoring, Arbitrating, CopyReady, Copying,
      CheckImmediateEvent
<1>7. CASE Recheck
  BY <1>7 DEF TypeOK, Watching, BeforeCopy, Monitoring, Arbitrating, CopyReady, Copying, Recheck
<1>8. CASE CheckCopy
  BY <1>8 DEF TypeOK, Watching, BeforeCopy, Monitoring, Arbitrating, CopyReady, Copying, CheckCopy,
      EndWithCopy, waitUnchanged
<1>9. CASE SelectEvent
  BY <1>9 DEF TypeOK, Watching, BeforeCopy, Monitoring, Arbitrating, CopyReady, Copying,
      SelectEvent, EndWithCondition, waitUnchanged
<1>10. CASE SelectCopy
  BY <1>10 DEF TypeOK, Watching, BeforeCopy, Monitoring, Arbitrating, CopyReady, Copying,
      SelectCopy, EndWithCopy, waitUnchanged
<1>11. CASE Arbitrate
  BY <1>11 DEF TypeOK, Watching, BeforeCopy, Monitoring, Arbitrating, CopyReady, Copying,
      Arbitrate, EndWithCopy, EndWithCondition, waitUnchanged
<1>12. CASE EmitConditionTriggered
  BY <1>12 DEF TypeOK, Watching, BeforeCopy, Monitoring, Arbitrating, CopyReady, Copying,
      EmitConditionTriggered, EmitRecord, emitUnchanged
<1>13. CASE EmitStreamCutoff
  BY <1>13 DEF TypeOK, Watching, BeforeCopy, Monitoring, Arbitrating, CopyReady, Copying,
      EmitStreamCutoff, EmitRecord, emitUnchanged
<1>14. CASE Exit
  BY <1>14 DEF TypeOK, Watching, BeforeCopy, Monitoring, Arbitrating, CopyReady, Copying, Exit,
      emitUnchanged
<1>15. CASE PublishTreeEvent
  BY <1>15, Publishing DEF TypeOK, Watching, BeforeCopy, Monitoring, Arbitrating, CopyReady, Copying,
      othersUnchanged
<1>16. CASE WriteWarning
  BY <1>16 DEF TypeOK, Watching, BeforeCopy, Monitoring, Arbitrating, CopyReady, Copying,
      WriteWarning, othersUnchanged
<1>17. CASE CopyRead
  BY <1>17 DEF TypeOK, Watching, BeforeCopy, Monitoring, Arbitrating, CopyReady, Copying, CopyRead,
      copyUnchanged
<1>18. CASE CopyWrite
  BY <1>18 DEF TypeOK, Watching, BeforeCopy, Monitoring, Arbitrating, CopyReady, Copying,
      CopyWrite, copyUnchanged
<1>19. CASE CopyEnd
  BY <1>19 DEF TypeOK, Watching, BeforeCopy, Monitoring, Arbitrating, CopyReady, Copying, CopyEnd,
      copyUnchanged
<1>20. CASE Produce
  BY <1>20 DEF TypeOK, Watching, BeforeCopy, Monitoring, Arbitrating, CopyReady, Copying, Produce,
      pipeUnchanged, worldUnchanged
<1>21. CASE EndInput
  BY <1>21 DEF TypeOK, Watching, BeforeCopy, Monitoring, Arbitrating, CopyReady, Copying, EndInput,
      pipeUnchanged, worldUnchanged
<1>22. CASE CloseOutput
  BY <1>22 DEF TypeOK, Watching, BeforeCopy, Monitoring, Arbitrating, CopyReady, Copying,
      CloseOutput, pipeUnchanged, worldUnchanged
<1>23. ASSUME NEW c \in Conditions, Fire(c)
       PROVE  Copying'
  BY <1>23 DEF TypeOK, Watching, BeforeCopy, Monitoring, Arbitrating, CopyReady, Copying, Fire,
      othersUnchanged
<1>24. ASSUME NEW c \in Conditions, TimePasses(c)
       PROVE  Copying'
  BY <1>24 DEF TypeOK, Watching, BeforeCopy, Monitoring, Arbitrating, CopyReady, Copying,
      TimePasses, worldUnchanged
<1>25. ASSUME NEW c \in Conditions, FileChanges(c)
       PROVE  Copying'
  BY <1>25 DEF TypeOK, Watching, BeforeCopy, Monitoring, Arbitrating, CopyReady, Copying,
      FileChanges, worldUnchanged
<1>26. ASSUME NEW c \in Conditions, SignalSent(c)
       PROVE  Copying'
  BY <1>26 DEF TypeOK, Watching, BeforeCopy, Monitoring, Arbitrating, CopyReady, Copying,
      SignalSent, worldUnchanged
<1>27. CASE UNCHANGED vars
  BY <1>27 DEF TypeOK, Watching, BeforeCopy, Monitoring, Arbitrating, CopyReady, Copying, vars
<1> QED BY <1>1, <1>2, <1>3, <1>4, <1>5, <1>6, <1>7, <1>8, <1>9, <1>10, <1>11, <1>12, <1>13, <1>14,
    <1>15, <1>16, <1>17, <1>18, <1>19, <1>20, <1>21, <1>22, <1>23, <1>24, <1>25, <1>26, <1>27 DEF
        Next, Main, World

\* What the first record can leave on the descriptor.
LEMMA FirstRecord ==
  ASSUME NEW event, EmitRecord(event), records = <<>>, ~disabled
  PROVE  \/ ~disabled' /\ records' = <<Whole(event)>>
         \/ disabled' /\ records' \in {<<>>, <<Part(event)>>}
BY DEF EmitRecord, Whole, Part

\* What the second record can add to the first.
LEMMA SecondRecord ==
  ASSUME NEW first, NEW event, EmitRecord(event), records = <<first>>, ~disabled
  PROVE  records' \in {<<first>>, <<first, Whole(event)>>, <<first, Part(event)>>}
BY DEF EmitRecord, Whole, Part

\* Every step preserves Recording.
LEMMA NextRecording ==
  ASSUME TypeOK, Arbitrating, Recording, [Next]_vars
  PROVE  Recording'
<1> USE OutageAssumption DEF Conditions, Running, mainVars, treeVars, copyVars, pipeVars,
    eventVars, worldVars
<1>1. CASE PrintAndExit
  BY <1>1 DEF TypeOK, Arbitrating, Recording, PrintAndExit
<1>2. CASE RejectArguments
  BY <1>2 DEF TypeOK, Arbitrating, Recording, RejectArguments
<1>3. CASE AcceptPlan
  BY <1>3 DEF TypeOK, Arbitrating, Recording, AcceptPlan
<1>4. CASE SampleCondition
  BY <1>4 DEF TypeOK, Arbitrating, Recording, SampleCondition
<1>5. CASE StartMonitor
  BY <1>5 DEF TypeOK, Arbitrating, Recording, StartMonitor
<1>6. CASE CheckImmediateEvent
  BY <1>6 DEF TypeOK, Arbitrating, Recording, CheckImmediateEvent
<1>7. CASE Recheck
  BY <1>7 DEF TypeOK, Arbitrating, Recording, Recheck
<1>8. CASE CheckCopy
  BY <1>8 DEF TypeOK, Arbitrating, Recording, CheckCopy, EndWithCopy, waitUnchanged
<1>9. CASE SelectEvent
  BY <1>9 DEF TypeOK, Arbitrating, Recording, SelectEvent, EndWithCondition, waitUnchanged
<1>10. CASE SelectCopy
  BY <1>10 DEF TypeOK, Arbitrating, Recording, SelectCopy, EndWithCopy, waitUnchanged
<1>11. CASE Arbitrate
  BY <1>11 DEF TypeOK, Arbitrating, Recording, Arbitrate, EndWithCopy, EndWithCondition,
      waitUnchanged
<1>12. CASE EmitConditionTriggered
  <2>1. cause = "condition" /\ cause' = cause
    BY <1>12 DEF Arbitrating, EmitConditionTriggered, emitUnchanged
  <2>2. records = <<>> /\ ~disabled
    BY <1>12 DEF Recording, EmitConditionTriggered
  <2>3. CASE WithEvents
    <3>1. pc' = "cutoff" /\ EmitRecord("condition-triggered")
      BY <1>12, <2>3 DEF EmitConditionTriggered
    <3>2. \/ ~disabled' /\ records' = <<Whole("condition-triggered")>>
          \/ disabled' /\ records' \in {<<>>, <<Part("condition-triggered")>>}
      BY <2>2, <3>1, FirstRecord
    <3> QED BY <2>1, <3>1, <3>2 DEF Recording
  <2>4. CASE ~WithEvents
    <3>1. pc' = "exit" /\ records' = <<>>
      BY <1>12, <2>2, <2>4 DEF EmitConditionTriggered
    <3> QED BY <3>1 DEF Recording
  <2> QED BY <2>3, <2>4
<1>13. CASE EmitStreamCutoff
  <2>1. cause = "condition" /\ cause' = cause /\ pc' = "exit"
    BY <1>13 DEF Arbitrating, EmitStreamCutoff, emitUnchanged
  <2>2. EmitRecord("stream-cutoff")
    BY <1>13 DEF EmitStreamCutoff
  <2>3. CASE disabled
    <3>1. records' = records
      BY <2>2, <2>3 DEF EmitRecord
    <3> QED BY <2>1, <3>1 DEF Recording
  <2>4. CASE ~disabled
    <3>1. records = <<Whole("condition-triggered")>>
      BY <1>13, <2>4 DEF Recording, EmitStreamCutoff
    <3>2. records' \in { <<Whole("condition-triggered")>>,
                         <<Whole("condition-triggered"), Whole("stream-cutoff")>>,
                         <<Whole("condition-triggered"), Part("stream-cutoff")>> }
      BY <2>2, <2>4, <3>1, SecondRecord
    <3> QED BY <2>1, <3>2 DEF Recording
  <2> QED BY <2>3, <2>4
<1>14. CASE Exit
  BY <1>14 DEF TypeOK, Arbitrating, Recording, Exit, emitUnchanged
<1>15. CASE PublishTreeEvent
  BY <1>15, Publishing DEF TypeOK, Arbitrating, Recording, othersUnchanged
<1>16. CASE WriteWarning
  BY <1>16 DEF TypeOK, Arbitrating, Recording, WriteWarning, othersUnchanged
<1>17. CASE CopyRead
  BY <1>17 DEF TypeOK, Arbitrating, Recording, CopyRead, copyUnchanged
<1>18. CASE CopyWrite
  BY <1>18 DEF TypeOK, Arbitrating, Recording, CopyWrite, copyUnchanged
<1>19. CASE CopyEnd
  BY <1>19 DEF TypeOK, Arbitrating, Recording, CopyEnd, copyUnchanged
<1>20. CASE Produce
  BY <1>20 DEF TypeOK, Arbitrating, Recording, Produce, pipeUnchanged, worldUnchanged
<1>21. CASE EndInput
  BY <1>21 DEF TypeOK, Arbitrating, Recording, EndInput, pipeUnchanged, worldUnchanged
<1>22. CASE CloseOutput
  BY <1>22 DEF TypeOK, Arbitrating, Recording, CloseOutput, pipeUnchanged, worldUnchanged
<1>23. ASSUME NEW c \in Conditions, Fire(c)
       PROVE  Recording'
  BY <1>23 DEF TypeOK, Arbitrating, Recording, Fire, othersUnchanged
<1>24. ASSUME NEW c \in Conditions, TimePasses(c)
       PROVE  Recording'
  BY <1>24 DEF TypeOK, Arbitrating, Recording, TimePasses, worldUnchanged
<1>25. ASSUME NEW c \in Conditions, FileChanges(c)
       PROVE  Recording'
  BY <1>25 DEF TypeOK, Arbitrating, Recording, FileChanges, worldUnchanged
<1>26. ASSUME NEW c \in Conditions, SignalSent(c)
       PROVE  Recording'
  BY <1>26 DEF TypeOK, Arbitrating, Recording, SignalSent, worldUnchanged
<1>27. CASE UNCHANGED vars
  BY <1>27 DEF TypeOK, Arbitrating, Recording, vars
<1> QED BY <1>1, <1>2, <1>3, <1>4, <1>5, <1>6, <1>7, <1>8, <1>9, <1>10, <1>11, <1>12, <1>13, <1>14,
    <1>15, <1>16, <1>17, <1>18, <1>19, <1>20, <1>21, <1>22, <1>23, <1>24, <1>25, <1>26, <1>27 DEF
        Next, Main, World

\* Every step preserves Rechecking.
LEMMA NextRechecking ==
  ASSUME TypeOK, Watching, Rechecking, [Next]_vars
  PROVE  Rechecking'
<1> USE OutageAssumption DEF Conditions, Running, mainVars, treeVars, copyVars, pipeVars,
    eventVars, worldVars
<1>1. CASE PrintAndExit
  BY <1>1 DEF TypeOK, Watching, BeforeCopy, Monitoring, Rechecking, PrintAndExit
<1>2. CASE RejectArguments
  BY <1>2 DEF TypeOK, Watching, BeforeCopy, Monitoring, Rechecking, RejectArguments
<1>3. CASE AcceptPlan
  BY <1>3 DEF TypeOK, Watching, BeforeCopy, Monitoring, Rechecking, AcceptPlan
<1>4. CASE SampleCondition
  BY <1>4 DEF TypeOK, Watching, BeforeCopy, Monitoring, Rechecking, SampleCondition
<1>5. CASE StartMonitor
  BY <1>5 DEF TypeOK, Watching, BeforeCopy, Monitoring, Rechecking, StartMonitor
<1>6. CASE CheckImmediateEvent
  BY <1>6 DEF TypeOK, Watching, BeforeCopy, Monitoring, Rechecking, CheckImmediateEvent
<1>7. CASE Recheck
  <2> DEFINE found == IF Kind[index] = "time" /\ holds[index]
                      THEN rechecked \cup {index} ELSE rechecked
  <2>1. \A c \in atRecheck : c < index + 1 => c \in found
    BY <1>7 DEF TypeOK, Watching, Rechecking, Recheck
  <2>2. CASE index < NumConditions
    <3>1. /\ pc' = "recheck" /\ index' = index + 1 /\ rechecked' = found
          /\ copy' = copy /\ copy = "none"
          /\ UNCHANGED <<initial, atRecheck, holds>>
      BY <1>7, <2>2 DEF TypeOK, Watching, BeforeCopy, Recheck
    <3> QED BY <1>7, <2>1, <3>1 DEF Rechecking, Recheck
  <2>3. CASE index = NumConditions
    <3>1. atRecheck \subseteq found
      BY <2>1, <2>3 DEF TypeOK
    <3>2. Satisfied(atRecheck) => Satisfied(found)
      BY <3>1, SatisfiedMonotone
    <3>3. /\ UNCHANGED <<initial, atRecheck>>
          /\ \/ pc' = "trigger" /\ copy' = "none"
             \/ pc' \in {"ready", "select"} /\ ~Satisfied(found)
      BY <1>7, <2>3 DEF Watching, BeforeCopy, Recheck
    <3>4. ~Satisfied(initial)
      BY <1>7 DEF Rechecking, Recheck
    <3> QED BY <3>2, <3>3, <3>4 DEF Rechecking
  <2> QED BY <2>2, <2>3 DEF TypeOK
<1>8. CASE CheckCopy
  BY <1>8 DEF TypeOK, Watching, BeforeCopy, Monitoring, Rechecking, CheckCopy, EndWithCopy,
      waitUnchanged
<1>9. CASE SelectEvent
  BY <1>9 DEF TypeOK, Watching, BeforeCopy, Monitoring, Rechecking, SelectEvent, EndWithCondition,
      waitUnchanged
<1>10. CASE SelectCopy
  BY <1>10 DEF TypeOK, Watching, BeforeCopy, Monitoring, Rechecking, SelectCopy, EndWithCopy,
      waitUnchanged
<1>11. CASE Arbitrate
  BY <1>11 DEF TypeOK, Watching, BeforeCopy, Monitoring, Rechecking, Arbitrate, EndWithCopy,
      EndWithCondition, waitUnchanged
<1>12. CASE EmitConditionTriggered
  BY <1>12 DEF TypeOK, Watching, BeforeCopy, Monitoring, Rechecking, EmitConditionTriggered,
      EmitRecord, emitUnchanged
<1>13. CASE EmitStreamCutoff
  BY <1>13 DEF TypeOK, Watching, BeforeCopy, Monitoring, Rechecking, EmitStreamCutoff, EmitRecord,
      emitUnchanged
<1>14. CASE Exit
  BY <1>14 DEF TypeOK, Watching, BeforeCopy, Monitoring, Rechecking, Exit, emitUnchanged
<1>15. CASE PublishTreeEvent
  BY <1>15, Publishing DEF TypeOK, Watching, BeforeCopy, Monitoring, Rechecking, othersUnchanged
<1>16. CASE WriteWarning
  BY <1>16 DEF TypeOK, Watching, BeforeCopy, Monitoring, Rechecking, WriteWarning, othersUnchanged
<1>17. CASE CopyRead
  BY <1>17 DEF TypeOK, Watching, BeforeCopy, Monitoring, Rechecking, CopyRead, copyUnchanged
<1>18. CASE CopyWrite
  BY <1>18 DEF TypeOK, Watching, BeforeCopy, Monitoring, Rechecking, CopyWrite, copyUnchanged
<1>19. CASE CopyEnd
  BY <1>19 DEF TypeOK, Watching, BeforeCopy, Monitoring, Rechecking, CopyEnd, copyUnchanged
<1>20. CASE Produce
  BY <1>20 DEF TypeOK, Watching, BeforeCopy, Monitoring, Rechecking, Produce, pipeUnchanged,
      worldUnchanged
<1>21. CASE EndInput
  BY <1>21 DEF TypeOK, Watching, BeforeCopy, Monitoring, Rechecking, EndInput, pipeUnchanged,
      worldUnchanged
<1>22. CASE CloseOutput
  BY <1>22 DEF TypeOK, Watching, BeforeCopy, Monitoring, Rechecking, CloseOutput, pipeUnchanged,
      worldUnchanged
<1>23. ASSUME NEW c \in Conditions, Fire(c)
       PROVE  Rechecking'
  BY <1>23 DEF TypeOK, Watching, BeforeCopy, Monitoring, Rechecking, Fire, othersUnchanged
<1>24. ASSUME NEW c \in Conditions, TimePasses(c)
       PROVE  Rechecking'
  BY <1>24 DEF TypeOK, Watching, BeforeCopy, Monitoring, Rechecking, TimePasses, worldUnchanged
<1>25. ASSUME NEW c \in Conditions, FileChanges(c)
       PROVE  Rechecking'
  BY <1>25 DEF TypeOK, Watching, BeforeCopy, Monitoring, Rechecking, FileChanges, worldUnchanged
<1>26. ASSUME NEW c \in Conditions, SignalSent(c)
       PROVE  Rechecking'
  BY <1>26 DEF TypeOK, Watching, BeforeCopy, Monitoring, Rechecking, SignalSent, worldUnchanged
<1>27. CASE UNCHANGED vars
  BY <1>27 DEF TypeOK, Watching, BeforeCopy, Monitoring, Rechecking, vars
<1> QED BY <1>1, <1>2, <1>3, <1>4, <1>5, <1>6, <1>7, <1>8, <1>9, <1>10, <1>11, <1>12, <1>13, <1>14,
    <1>15, <1>16, <1>17, <1>18, <1>19, <1>20, <1>21, <1>22, <1>23, <1>24, <1>25, <1>26, <1>27 DEF
        Next, Main, World

\* Every step preserves Occurring.
LEMMA NextOccurring ==
  ASSUME TypeOK, Watching, Rechecking, Occurring, [Next]_vars
  PROVE  Occurring'
<1> USE OutageAssumption DEF Conditions, Running, mainVars, treeVars, copyVars, pipeVars,
    eventVars, worldVars
<1>1. CASE PrintAndExit
  BY <1>1 DEF TypeOK, Watching, Rechecking, Occurring, PrintAndExit
<1>2. CASE RejectArguments
  BY <1>2 DEF TypeOK, Watching, Rechecking, Occurring, RejectArguments
<1>3. CASE AcceptPlan
  BY <1>3 DEF TypeOK, Watching, Rechecking, Occurring, AcceptPlan
<1>4. CASE SampleCondition
  BY <1>4 DEF TypeOK, Watching, Rechecking, Occurring, SampleCondition
<1>5. CASE StartMonitor
  BY <1>5 DEF TypeOK, Watching, Rechecking, Occurring, StartMonitor
<1>6. CASE CheckImmediateEvent
  BY <1>6 DEF TypeOK, Watching, Rechecking, Occurring, CheckImmediateEvent
<1>7. CASE Recheck
  BY <1>7 DEF TypeOK, Watching, Rechecking, Occurring, Recheck
<1>8. CASE CheckCopy
  BY <1>8 DEF TypeOK, Watching, Rechecking, Occurring, CheckCopy, EndWithCopy, waitUnchanged
<1>9. CASE SelectEvent
  BY <1>9 DEF TypeOK, Watching, Rechecking, Occurring, SelectEvent, EndWithCondition, waitUnchanged
<1>10. CASE SelectCopy
  BY <1>10 DEF TypeOK, Watching, Rechecking, Occurring, SelectCopy, EndWithCopy, waitUnchanged
<1>11. CASE Arbitrate
  BY <1>11 DEF TypeOK, Watching, Rechecking, Occurring, Arbitrate, EndWithCopy, EndWithCondition,
      waitUnchanged
<1>12. CASE EmitConditionTriggered
  BY <1>12 DEF TypeOK, Watching, Rechecking, Occurring, EmitConditionTriggered, EmitRecord,
      emitUnchanged
<1>13. CASE EmitStreamCutoff
  BY <1>13 DEF TypeOK, Watching, Rechecking, Occurring, EmitStreamCutoff, EmitRecord, emitUnchanged
<1>14. CASE Exit
  BY <1>14 DEF TypeOK, Watching, Rechecking, Occurring, Exit, emitUnchanged
<1>15. CASE PublishTreeEvent
  BY <1>15, Publishing DEF TypeOK, Watching, Rechecking, Occurring, othersUnchanged
<1>16. CASE WriteWarning
  BY <1>16 DEF TypeOK, Watching, Rechecking, Occurring, WriteWarning, othersUnchanged
<1>17. CASE CopyRead
  BY <1>17 DEF TypeOK, Watching, Rechecking, Occurring, CopyRead, copyUnchanged
<1>18. CASE CopyWrite
  BY <1>18 DEF TypeOK, Watching, Rechecking, Occurring, CopyWrite, copyUnchanged
<1>19. CASE CopyEnd
  BY <1>19 DEF TypeOK, Watching, Rechecking, Occurring, CopyEnd, copyUnchanged
<1>20. CASE Produce
  BY <1>20 DEF TypeOK, Watching, Rechecking, Occurring, Produce, pipeUnchanged, worldUnchanged
<1>21. CASE EndInput
  BY <1>21 DEF TypeOK, Watching, Rechecking, Occurring, EndInput, pipeUnchanged, worldUnchanged
<1>22. CASE CloseOutput
  BY <1>22 DEF TypeOK, Watching, Rechecking, Occurring, CloseOutput, pipeUnchanged, worldUnchanged
<1>23. ASSUME NEW c \in Conditions, Fire(c)
       PROVE  Occurring'
  BY <1>23 DEF TypeOK, Watching, Rechecking, Occurring, Fire, othersUnchanged
<1>24. ASSUME NEW c \in Conditions, TimePasses(c)
       PROVE  Occurring'
  BY <1>24 DEF TypeOK, Watching, Rechecking, Occurring, TimePasses, worldUnchanged
<1>25. ASSUME NEW c \in Conditions, FileChanges(c)
       PROVE  Occurring'
  BY <1>25 DEF TypeOK, Watching, Rechecking, Occurring, FileChanges, worldUnchanged
<1>26. ASSUME NEW c \in Conditions, SignalSent(c)
       PROVE  Occurring'
  BY <1>26 DEF TypeOK, Watching, Rechecking, Occurring, SignalSent, worldUnchanged
<1>27. CASE UNCHANGED vars
  BY <1>27 DEF TypeOK, Watching, Rechecking, Occurring, vars
<1> QED BY <1>1, <1>2, <1>3, <1>4, <1>5, <1>6, <1>7, <1>8, <1>9, <1>10, <1>11, <1>12, <1>13, <1>14,
    <1>15, <1>16, <1>17, <1>18, <1>19, <1>20, <1>21, <1>22, <1>23, <1>24, <1>25, <1>26, <1>27 DEF
        Next, Main, World

\* A monitor that has fired stays so, and so does the event of the tree.
LEMMA FiredGrows ==
  ASSUME TypeOK, Watching, [Next]_vars
  PROVE  Fired \subseteq Fired' /\ (treeEvent => treeEvent')
<1> USE OutageAssumption DEF Conditions, Running, mainVars, treeVars, copyVars, pipeVars,
    eventVars, worldVars
<1>1. CASE PrintAndExit
  BY <1>1 DEF TypeOK, Watching, Fired, PrintAndExit
<1>2. CASE RejectArguments
  BY <1>2 DEF TypeOK, Watching, Fired, RejectArguments
<1>3. CASE AcceptPlan
  BY <1>3 DEF TypeOK, Watching, Fired, AcceptPlan
<1>4. CASE SampleCondition
  BY <1>4 DEF TypeOK, Watching, Fired, SampleCondition
<1>5. CASE StartMonitor
  BY <1>5 DEF TypeOK, Watching, Fired, StartMonitor
<1>6. CASE CheckImmediateEvent
  BY <1>6 DEF TypeOK, Watching, Fired, CheckImmediateEvent
<1>7. CASE Recheck
  BY <1>7 DEF TypeOK, Watching, Fired, Recheck
<1>8. CASE CheckCopy
  BY <1>8 DEF TypeOK, Watching, Fired, CheckCopy, EndWithCopy, waitUnchanged
<1>9. CASE SelectEvent
  BY <1>9 DEF TypeOK, Watching, Fired, SelectEvent, EndWithCondition, waitUnchanged
<1>10. CASE SelectCopy
  BY <1>10 DEF TypeOK, Watching, Fired, SelectCopy, EndWithCopy, waitUnchanged
<1>11. CASE Arbitrate
  BY <1>11 DEF TypeOK, Watching, Fired, Arbitrate, EndWithCopy, EndWithCondition, waitUnchanged
<1>12. CASE EmitConditionTriggered
  BY <1>12 DEF TypeOK, Watching, Fired, EmitConditionTriggered, EmitRecord, emitUnchanged
<1>13. CASE EmitStreamCutoff
  BY <1>13 DEF TypeOK, Watching, Fired, EmitStreamCutoff, EmitRecord, emitUnchanged
<1>14. CASE Exit
  BY <1>14 DEF TypeOK, Watching, Fired, Exit, emitUnchanged
<1>15. CASE PublishTreeEvent
  BY <1>15, Publishing DEF TypeOK, Watching, Fired, othersUnchanged
<1>16. CASE WriteWarning
  BY <1>16 DEF TypeOK, Watching, Fired, WriteWarning, othersUnchanged
<1>17. CASE CopyRead
  BY <1>17 DEF TypeOK, Watching, Fired, CopyRead, copyUnchanged
<1>18. CASE CopyWrite
  BY <1>18 DEF TypeOK, Watching, Fired, CopyWrite, copyUnchanged
<1>19. CASE CopyEnd
  BY <1>19 DEF TypeOK, Watching, Fired, CopyEnd, copyUnchanged
<1>20. CASE Produce
  BY <1>20 DEF TypeOK, Watching, Fired, Produce, pipeUnchanged, worldUnchanged
<1>21. CASE EndInput
  BY <1>21 DEF TypeOK, Watching, Fired, EndInput, pipeUnchanged, worldUnchanged
<1>22. CASE CloseOutput
  BY <1>22 DEF TypeOK, Watching, Fired, CloseOutput, pipeUnchanged, worldUnchanged
<1>23. ASSUME NEW c \in Conditions, Fire(c)
       PROVE  Fired \subseteq Fired' /\ (treeEvent => treeEvent')
  BY <1>23 DEF TypeOK, Watching, Fired, Fire, othersUnchanged
<1>24. ASSUME NEW c \in Conditions, TimePasses(c)
       PROVE  Fired \subseteq Fired' /\ (treeEvent => treeEvent')
  BY <1>24 DEF TypeOK, Watching, Fired, TimePasses, worldUnchanged
<1>25. ASSUME NEW c \in Conditions, FileChanges(c)
       PROVE  Fired \subseteq Fired' /\ (treeEvent => treeEvent')
  BY <1>25 DEF TypeOK, Watching, Fired, FileChanges, worldUnchanged
<1>26. ASSUME NEW c \in Conditions, SignalSent(c)
       PROVE  Fired \subseteq Fired' /\ (treeEvent => treeEvent')
  BY <1>26 DEF TypeOK, Watching, Fired, SignalSent, worldUnchanged
<1>27. CASE UNCHANGED vars
  BY <1>27 DEF TypeOK, Watching, Fired, vars
<1> QED BY <1>1, <1>2, <1>3, <1>4, <1>5, <1>6, <1>7, <1>8, <1>9, <1>10, <1>11, <1>12, <1>13, <1>14,
    <1>15, <1>16, <1>17, <1>18, <1>19, <1>20, <1>21, <1>22, <1>23, <1>24, <1>25, <1>26, <1>27 DEF
        Next, Main, World

\* The root stays ready, and occurred grows.
LEMMA RootReadyStays ==
  ASSUME TypeOK, Watching, Arbitrating, [Next]_vars
  PROVE  /\ RootReady => RootReady'
         /\ Satisfied(Fired) => Satisfied(Fired')
         /\ cause = "condition" /\ Satisfied(occurred) => Satisfied(occurred')
<1>1. Fired \subseteq Fired' /\ (treeEvent => treeEvent')
  BY FiredGrows
<1>2. Satisfied(Fired) => Satisfied(Fired')
  BY <1>1, SatisfiedMonotone
<1>3. RootReady => RootReady'
  BY <1>1, <1>2 DEF RootReady, Direct
<1>4. pc # "args" => occurred \subseteq occurred'
  BY Publishing DEF TypeOK, Next, Main, World, vars, mainVars, treeVars, copyVars, pipeVars,
     eventVars, worldVars, othersUnchanged, copyUnchanged, worldUnchanged, pipeUnchanged,
     waitUnchanged, emitUnchanged, PrintAndExit, RejectArguments, AcceptPlan, SampleCondition,
     StartMonitor, CheckImmediateEvent, Recheck, CheckCopy, SelectEvent, SelectCopy, Arbitrate,
     EmitConditionTriggered, EmitStreamCutoff, Exit, Fire, WriteWarning, CopyRead, CopyWrite, CopyEnd, TimePasses, FileChanges, SignalSent, Produce, EndInput,
     CloseOutput
<1>5. cause = "condition" => pc # "args"
  BY DEF Arbitrating
<1> QED BY <1>2, <1>3, <1>4, <1>5, SatisfiedMonotone

\* When there is an event of the root to receive, the plan is satisfied.
LEMMA RootReadySatisfied ==
  ASSUME TypeOK, Occurring, Triggering, RootReady
  PROVE  Satisfied(occurred)
<1>1. Satisfied(Fired)
  BY DEF RootReady, Triggering
<1>2. Fired \subseteq occurred
  BY DEF Fired, Occurring
<1> QED BY <1>1, <1>2, SatisfiedMonotone

\* Every step preserves Triggering.
LEMMA NextTriggering ==
  ASSUME TypeOK, Watching, Arbitrating, Occurring, Triggering, [Next]_vars
  PROVE  Triggering'
<1> USE OutageAssumption DEF Conditions, Running, mainVars, treeVars, copyVars, pipeVars,
    eventVars, worldVars
<1>1. /\ RootReady => RootReady'
      /\ Satisfied(Fired) => Satisfied(Fired')
      /\ cause = "condition" /\ Satisfied(occurred) => Satisfied(occurred')
  BY RootReadyStays
<1>2. UNCHANGED occurred => (Satisfied(occurred) => Satisfied(occurred'))
  OBVIOUS
<1>3. CASE PrintAndExit
  BY <1>1, <1>3 DEF Arbitrating, Triggering, PrintAndExit
<1>4. CASE RejectArguments
  BY <1>1, <1>4 DEF Arbitrating, Triggering, RejectArguments
<1>5. CASE AcceptPlan
  BY <1>1, <1>5 DEF Arbitrating, Triggering, AcceptPlan
<1>6. CASE SampleCondition
  BY <1>1, <1>6 DEF Arbitrating, Triggering, SampleCondition
<1>7. CASE StartMonitor
  <2>1. Satisfied(initial) => Satisfied(occurred)
    BY SatisfiedMonotone DEF Occurring
  <2> QED BY <1>1, <1>2, <2>1, <1>7 DEF Triggering, StartMonitor
<1>8. CASE CheckImmediateEvent
  BY <1>1, <1>2, RootReadySatisfied, <1>8 DEF Triggering, CheckImmediateEvent
<1>9. CASE Recheck
  <2> DEFINE found == IF Kind[index] = "time" /\ holds[index]
                      THEN rechecked \cup {index} ELSE rechecked
  <2>1. found \subseteq occurred
    BY <1>9 DEF TypeOK, Occurring, Recheck
  <2>2. Satisfied(found) => Satisfied(occurred)
    BY <2>1, SatisfiedMonotone
  <2> HIDE DEF found
  <2>3. /\ pc' # "arbitrate" /\ UNCHANGED <<treeEvent, occurred>>
        /\ cause' = "condition" => cause = "condition" \/ Satisfied(found)
    BY <1>9 DEF Recheck, found
  <2> QED BY <1>1, <2>2, <2>3 DEF Triggering
<1>10. CASE CheckCopy
  BY <1>1, <1>10 DEF Arbitrating, Triggering, CheckCopy, EndWithCopy, waitUnchanged
<1>11. CASE SelectEvent
  BY <1>1, <1>2, RootReadySatisfied, <1>11 DEF Triggering, SelectEvent, EndWithCondition,
      waitUnchanged
<1>12. CASE SelectCopy
  BY <1>1, <1>12 DEF Arbitrating, Triggering, SelectCopy, EndWithCopy, waitUnchanged
<1>13. CASE Arbitrate
  BY <1>1, <1>2, RootReadySatisfied, <1>13 DEF Triggering, Arbitrate, EndWithCondition,
      EndWithCopy, waitUnchanged
<1>14. CASE EmitConditionTriggered
  BY <1>1, <1>14 DEF Arbitrating, Triggering, EmitConditionTriggered, EmitRecord, emitUnchanged
<1>15. CASE EmitStreamCutoff
  BY <1>1, <1>15 DEF Arbitrating, Triggering, EmitStreamCutoff, EmitRecord, emitUnchanged
<1>16. CASE Exit
  BY <1>1, <1>16 DEF Arbitrating, Triggering, Exit, emitUnchanged
<1>17. CASE PublishTreeEvent
  BY <1>1, <1>17, Publishing DEF Triggering, othersUnchanged
<1>18. CASE WriteWarning
  BY <1>1, <1>18 DEF Arbitrating, Triggering, WriteWarning, othersUnchanged
<1>19. CASE CopyRead
  BY <1>1, <1>19 DEF Arbitrating, Triggering, CopyRead, copyUnchanged
<1>20. CASE CopyWrite
  BY <1>1, <1>20 DEF Arbitrating, Triggering, CopyWrite, copyUnchanged
<1>21. CASE CopyEnd
  BY <1>1, <1>21 DEF Arbitrating, Triggering, CopyEnd, copyUnchanged
<1>22. CASE Produce
  BY <1>1, <1>22 DEF Arbitrating, Triggering, Produce, pipeUnchanged, worldUnchanged
<1>23. CASE EndInput
  BY <1>1, <1>23 DEF Arbitrating, Triggering, EndInput, pipeUnchanged, worldUnchanged
<1>24. CASE CloseOutput
  BY <1>1, <1>24 DEF Arbitrating, Triggering, CloseOutput, pipeUnchanged, worldUnchanged
<1>25. ASSUME NEW c \in Conditions, Fire(c)
       PROVE  Triggering'
  BY <1>1, <1>25 DEF Arbitrating, Triggering, Fire, othersUnchanged
<1>26. ASSUME NEW c \in Conditions, TimePasses(c)
       PROVE  Triggering'
  BY <1>1, <1>26 DEF Arbitrating, Triggering, TimePasses, worldUnchanged
<1>27. ASSUME NEW c \in Conditions, FileChanges(c)
       PROVE  Triggering'
  BY <1>1, <1>27 DEF Arbitrating, Triggering, FileChanges, worldUnchanged
<1>28. ASSUME NEW c \in Conditions, SignalSent(c)
       PROVE  Triggering'
  BY <1>1, <1>28 DEF Arbitrating, Triggering, SignalSent, worldUnchanged
<1>29. CASE UNCHANGED vars
  BY <1>1, <1>29 DEF Arbitrating, Triggering, vars
<1> QED BY <1>3, <1>4, <1>5, <1>6, <1>7, <1>8, <1>9, <1>10, <1>11, <1>12, <1>13, <1>14, <1>15,
    <1>16, <1>17, <1>18, <1>19, <1>20, <1>21, <1>22, <1>23, <1>24, <1>25, <1>26, <1>27, <1>28,
        <1>29 DEF Next, Main, World

\* Every step preserves Arbitrating.
LEMMA NextArbitrating ==
  ASSUME TypeOK, Watching, Copying, Triggering, Arbitrating, [Next]_vars
  PROVE  Arbitrating'
<1> USE OutageAssumption DEF Conditions, Running, mainVars, treeVars, copyVars, pipeVars,
    eventVars, worldVars
<1>1. RootReady => RootReady'
  BY RootReadyStays
<1>2. CASE PrintAndExit
  BY <1>1, <1>2 DEF TypeOK, Watching, BeforeCopy, Triggering, Arbitrating, CopyReady, PrintAndExit
<1>3. CASE RejectArguments
  BY <1>1, <1>3 DEF TypeOK, Watching, BeforeCopy, Triggering, Arbitrating, CopyReady,
      RejectArguments
<1>4. CASE AcceptPlan
  BY <1>1, <1>4 DEF TypeOK, Watching, BeforeCopy, Triggering, Arbitrating, CopyReady, AcceptPlan
<1>5. CASE SampleCondition
  BY <1>1, <1>5 DEF TypeOK, Watching, BeforeCopy, Triggering, Arbitrating, CopyReady,
      SampleCondition
<1>6. CASE StartMonitor
  BY <1>1, <1>6 DEF TypeOK, Watching, BeforeCopy, Triggering, Arbitrating, CopyReady, StartMonitor
<1>7. CASE CheckImmediateEvent
  BY <1>1, <1>7 DEF TypeOK, Watching, BeforeCopy, Triggering, Arbitrating, CopyReady,
      CheckImmediateEvent
<1>8. CASE Recheck
  BY <1>1, <1>8 DEF TypeOK, Watching, BeforeCopy, Triggering, Arbitrating, CopyReady, Recheck
<1>9. CASE CheckCopy
  BY <1>1, <1>9 DEF TypeOK, Watching, BeforeCopy, Triggering, Arbitrating, CopyReady, CheckCopy,
      EndWithCopy, waitUnchanged
<1>10. CASE SelectEvent
  BY <1>1, <1>10 DEF TypeOK, Watching, BeforeCopy, Triggering, Arbitrating, CopyReady, SelectEvent,
      EndWithCondition, waitUnchanged
<1>11. CASE SelectCopy
  BY <1>1, <1>11 DEF TypeOK, Watching, BeforeCopy, Triggering, Arbitrating, CopyReady, SelectCopy,
      EndWithCopy, waitUnchanged
<1>12. CASE Arbitrate
  BY <1>1, <1>12 DEF TypeOK, Watching, BeforeCopy, Triggering, Arbitrating, CopyReady, Arbitrate,
      EndWithCopy, EndWithCondition, waitUnchanged
<1>13. CASE EmitConditionTriggered
  BY <1>1, <1>13 DEF TypeOK, Watching, BeforeCopy, Triggering, Arbitrating, CopyReady,
      EmitConditionTriggered, EmitRecord, emitUnchanged
<1>14. CASE EmitStreamCutoff
  BY <1>1, <1>14 DEF TypeOK, Watching, BeforeCopy, Triggering, Arbitrating, CopyReady,
      EmitStreamCutoff, EmitRecord, emitUnchanged
<1>15. CASE Exit
  BY <1>1, <1>15 DEF TypeOK, Watching, BeforeCopy, Triggering, Arbitrating, CopyReady, Exit,
      emitUnchanged
<1>16. CASE PublishTreeEvent
  BY <1>1, <1>16, Publishing DEF TypeOK, Watching, BeforeCopy, Triggering, Arbitrating, CopyReady,
      othersUnchanged
<1>17. CASE WriteWarning
  BY <1>1, <1>17 DEF TypeOK, Watching, BeforeCopy, Triggering, Arbitrating, CopyReady,
      WriteWarning, othersUnchanged
<1>18. CASE CopyRead
  BY <1>1, <1>18 DEF TypeOK, Watching, BeforeCopy, Triggering, Arbitrating, CopyReady, CopyRead,
      copyUnchanged
<1>19. CASE CopyWrite
  BY <1>1, <1>19 DEF TypeOK, Watching, BeforeCopy, Triggering, Arbitrating, CopyReady, CopyWrite,
      copyUnchanged
<1>20. CASE CopyEnd
  BY <1>1, <1>20 DEF TypeOK, Watching, BeforeCopy, Triggering, Arbitrating, CopyReady, CopyEnd,
      copyUnchanged
<1>21. CASE Produce
  BY <1>1, <1>21 DEF TypeOK, Watching, BeforeCopy, Triggering, Arbitrating, CopyReady, Produce,
      pipeUnchanged, worldUnchanged
<1>22. CASE EndInput
  BY <1>1, <1>22 DEF TypeOK, Watching, BeforeCopy, Triggering, Arbitrating, CopyReady, EndInput,
      pipeUnchanged, worldUnchanged
<1>23. CASE CloseOutput
  BY <1>1, <1>23 DEF TypeOK, Watching, BeforeCopy, Triggering, Arbitrating, CopyReady, CloseOutput,
      pipeUnchanged, worldUnchanged
<1>24. ASSUME NEW c \in Conditions, Fire(c)
       PROVE  Arbitrating'
  BY <1>1, <1>24 DEF TypeOK, Watching, BeforeCopy, Triggering, Arbitrating, CopyReady, Fire,
      othersUnchanged
<1>25. ASSUME NEW c \in Conditions, TimePasses(c)
       PROVE  Arbitrating'
  BY <1>1, <1>25 DEF TypeOK, Watching, BeforeCopy, Triggering, Arbitrating, CopyReady, TimePasses,
      worldUnchanged
<1>26. ASSUME NEW c \in Conditions, FileChanges(c)
       PROVE  Arbitrating'
  BY <1>1, <1>26 DEF TypeOK, Watching, BeforeCopy, Triggering, Arbitrating, CopyReady, FileChanges,
      worldUnchanged
<1>27. ASSUME NEW c \in Conditions, SignalSent(c)
       PROVE  Arbitrating'
  BY <1>1, <1>27 DEF TypeOK, Watching, BeforeCopy, Triggering, Arbitrating, CopyReady, SignalSent,
      worldUnchanged
<1>28. CASE UNCHANGED vars
  BY <1>1, <1>28 DEF TypeOK, Watching, BeforeCopy, Triggering, Arbitrating, CopyReady, vars
<1> QED BY <1>2, <1>3, <1>4, <1>5, <1>6, <1>7, <1>8, <1>9, <1>10, <1>11, <1>12, <1>13, <1>14,
    <1>15, <1>16, <1>17, <1>18, <1>19, <1>20, <1>21, <1>22, <1>23, <1>24, <1>25, <1>26, <1>27,
        <1>28 DEF Next, Main, World

\* The invariant holds of every plan before the arguments are read.
LEMMA InitRunInv == Init => TypeOK /\ RunInv
<1> SUFFICES ASSUME Init PROVE TypeOK /\ RunInv
  OBVIOUS
<1> USE OutageAssumption DEF Conditions
<1>1. TypeOK
  <2>1. records \in Seq(Records)
    BY DEF Init
  <2>2. holds \in [Conditions -> BOOLEAN]
    BY DEF Init
  <2>3. /\ index \in Conditions
        /\ produced \in 0..MaxChunks /\ consumed \in 0..produced /\ written \in 0..consumed
    BY DEF Init
  <2>4. monitor \in [Conditions -> {"off", "armed", "caught", "fired"}]
    BY DEF Init
  <2>5. /\ initial = {} /\ rechecked = {} /\ occurred = {} /\ atRecheck = {}
        /\ pc = "args" /\ cause = "none" /\ copy = "none" /\ warning = "none"
        /\ status = 0 /\ inputEnd = "open"
        /\ ~treeEvent /\ ~outputClosed /\ ~disabled /\ ~copyFirst
    BY DEF Init
  <2>6. treeEvent \in BOOLEAN /\ outputClosed \in BOOLEAN /\ disabled \in BOOLEAN
        /\ copyFirst \in BOOLEAN
    BY DEF Init
  <2> QED BY <2>1, <2>2, <2>3, <2>4, <2>5, <2>6 DEF TypeOK
<1> USE DEF Init
<1>2. Watching /\ Latching /\ Rechecking
  BY DEF Watching, Monitoring, Latching, Rechecking
<1>3. Occurring /\ Triggering
  BY DEF Occurring, Triggering
<1>4. Copying /\ Arbitrating /\ Recording
  BY DEF Copying, Arbitrating, Recording
<1> QED BY <1>1, <1>2, <1>3, <1>4 DEF RunInv

\* Every step preserves the invariant.
LEMMA NextRunInv == TypeOK /\ RunInv /\ [Next]_vars => TypeOK' /\ RunInv'
BY NextType, NextWatching, NextLatching, NextOccurring, NextTriggering, NextRechecking,
   NextCopying, NextArbitrating, NextRecording DEF RunInv

\* Types and the invariant together are inductive.
LEMMA Invariance == Spec => [](TypeOK /\ RunInv)
BY InitRunInv, NextRunInv, PTL DEF Spec

-----------------------------------------------------------------------------
(***************************************************************************)
(* The theorems.                                                           *)
(***************************************************************************)

\* Type correctness of a run: among others, nothing is written that was not
\* read, and nothing read that was not produced.
THEOREM TypeCorrect == Spec => []TypeOK
BY Invariance, PTL

\* A plan has a group in C in the words of the README exactly when
\* conditionPlanSatisfied says so.
LEMMA GroupInSatisfied ==
  ASSUME NEW C
  PROVE  GroupIn(C) <=> Satisfied(C)
BY OutageAssumption DEF GroupIn, Satisfied

\* The exit status 0 of a monitoring run means that a group of conditions did
\* occur or that the whole input was forwarded, whatever the plan is.
THEOREM ZeroIsEarned == Spec => []ExitZeroIsEarned
<1>1. TypeOK /\ RunInv => ExitZeroIsEarned
  BY GroupInSatisfied DEF TypeOK, RunInv, Copying, Triggering, ExitZeroIsEarned
<1> QED BY <1>1, Invariance, PTL

\* A plan satisfied from the start, or by its timers at the recheck, never
\* touches stdin.
THEOREM SatisfiedPlanLeavesInput == Spec => []InputUntouched
<1>1. TypeOK /\ RunInv => InputUntouched
  BY GroupInSatisfied DEF RunInv, Watching, Rechecking, InputUntouched
<1> QED BY <1>1, Invariance, PTL

\* No byte is read before every condition is being watched.
THEOREM EveryConditionIsWatched == Spec => []WatchedBeforeReading
<1>1. RunInv => WatchedBeforeReading
  BY DEF RunInv, Watching, WatchedBeforeReading
<1> QED BY <1>1, Invariance, PTL

\* With event output, an end of the copy that precedes the event of the
\* condition is never reported as a cutoff.
THEOREM EarlierCopyWins == Spec => []CopyFirstWins
<1>1. TypeOK /\ RunInv => CopyFirstWins
  BY DEF TypeOK, RunInv, Copying, Arbitrating, CopyReady, Watching, CopyFirstWins
<1> QED BY <1>1, Invariance, PTL

\* What was found or caught is kept by every step.
LEMMA StepLatched ==
  ASSUME TypeOK, Watching, [Next]_vars
  PROVE  /\ initial \subseteq initial'
         /\ \A x \in Conditions :
              /\ monitor[x] = "caught" => monitor'[x] \in {"caught", "fired"}
              /\ monitor[x] = "fired" => monitor'[x] = "fired"
<1> USE OutageAssumption DEF Conditions, Running, mainVars, treeVars, copyVars, pipeVars,
    eventVars, worldVars
<1>1. CASE PrintAndExit
  BY <1>1 DEF TypeOK, Watching, PrintAndExit
<1>2. CASE RejectArguments
  BY <1>2 DEF TypeOK, Watching, RejectArguments
<1>3. CASE AcceptPlan
  BY <1>3 DEF TypeOK, Watching, AcceptPlan
<1>4. CASE SampleCondition
  BY <1>4 DEF TypeOK, Watching, SampleCondition
<1>5. CASE StartMonitor
  BY <1>5 DEF TypeOK, Watching, StartMonitor
<1>6. CASE CheckImmediateEvent
  BY <1>6 DEF TypeOK, Watching, CheckImmediateEvent
<1>7. CASE Recheck
  BY <1>7 DEF TypeOK, Watching, Recheck
<1>8. CASE CheckCopy
  BY <1>8 DEF TypeOK, Watching, CheckCopy, EndWithCopy, waitUnchanged
<1>9. CASE SelectEvent
  BY <1>9 DEF TypeOK, Watching, SelectEvent, EndWithCondition, waitUnchanged
<1>10. CASE SelectCopy
  BY <1>10 DEF TypeOK, Watching, SelectCopy, EndWithCopy, waitUnchanged
<1>11. CASE Arbitrate
  BY <1>11 DEF TypeOK, Watching, Arbitrate, EndWithCopy, EndWithCondition, waitUnchanged
<1>12. CASE EmitConditionTriggered
  BY <1>12 DEF TypeOK, Watching, EmitConditionTriggered, EmitRecord, emitUnchanged
<1>13. CASE EmitStreamCutoff
  BY <1>13 DEF TypeOK, Watching, EmitStreamCutoff, EmitRecord, emitUnchanged
<1>14. CASE Exit
  BY <1>14 DEF TypeOK, Watching, Exit, emitUnchanged
<1>15. CASE PublishTreeEvent
  BY <1>15, Publishing DEF TypeOK, Watching, othersUnchanged
<1>16. CASE WriteWarning
  BY <1>16 DEF TypeOK, Watching, WriteWarning, othersUnchanged
<1>17. CASE CopyRead
  BY <1>17 DEF TypeOK, Watching, CopyRead, copyUnchanged
<1>18. CASE CopyWrite
  BY <1>18 DEF TypeOK, Watching, CopyWrite, copyUnchanged
<1>19. CASE CopyEnd
  BY <1>19 DEF TypeOK, Watching, CopyEnd, copyUnchanged
<1>20. CASE Produce
  BY <1>20 DEF TypeOK, Watching, Produce, pipeUnchanged, worldUnchanged
<1>21. CASE EndInput
  BY <1>21 DEF TypeOK, Watching, EndInput, pipeUnchanged, worldUnchanged
<1>22. CASE CloseOutput
  BY <1>22 DEF TypeOK, Watching, CloseOutput, pipeUnchanged, worldUnchanged
<1>23. ASSUME NEW c \in Conditions, Fire(c)
       PROVE  /\ initial \subseteq initial'
         /\ \A x \in Conditions :
              /\ monitor[x] = "caught" => monitor'[x] \in {"caught", "fired"}
              /\ monitor[x] = "fired" => monitor'[x] = "fired"
  BY <1>23 DEF TypeOK, Watching, Fire, othersUnchanged
<1>24. ASSUME NEW c \in Conditions, TimePasses(c)
       PROVE  /\ initial \subseteq initial'
         /\ \A x \in Conditions :
              /\ monitor[x] = "caught" => monitor'[x] \in {"caught", "fired"}
              /\ monitor[x] = "fired" => monitor'[x] = "fired"
  BY <1>24 DEF TypeOK, Watching, TimePasses, worldUnchanged
<1>25. ASSUME NEW c \in Conditions, FileChanges(c)
       PROVE  /\ initial \subseteq initial'
         /\ \A x \in Conditions :
              /\ monitor[x] = "caught" => monitor'[x] \in {"caught", "fired"}
              /\ monitor[x] = "fired" => monitor'[x] = "fired"
  BY <1>25 DEF TypeOK, Watching, FileChanges, worldUnchanged
<1>26. ASSUME NEW c \in Conditions, SignalSent(c)
       PROVE  /\ initial \subseteq initial'
         /\ \A x \in Conditions :
              /\ monitor[x] = "caught" => monitor'[x] \in {"caught", "fired"}
              /\ monitor[x] = "fired" => monitor'[x] = "fired"
  BY <1>26 DEF TypeOK, Watching, SignalSent, worldUnchanged
<1>27. CASE UNCHANGED vars
  BY <1>27 DEF TypeOK, Watching, vars
<1> QED BY <1>1, <1>2, <1>3, <1>4, <1>5, <1>6, <1>7, <1>8, <1>9, <1>10, <1>11, <1>12, <1>13, <1>14,
    <1>15, <1>16, <1>17, <1>18, <1>19, <1>20, <1>21, <1>22, <1>23, <1>24, <1>25, <1>26, <1>27 DEF
        Next, Main, World

\* "Once a condition occurs it is latched", for every plan.
THEOREM ConditionsAreLatched == Spec => Latched
<1>1. ASSUME TypeOK, RunInv, RunInv', [Next]_vars
      PROVE  /\ initial \subseteq initial'
             /\ \A c \in Conditions :
                  /\ monitor[c] = "caught" => monitor'[c] \in {"caught", "fired"}
                  /\ monitor[c] = "fired" => monitor'[c] = "fired"
                  /\ c \in initial /\ monitor'[c] # "off" => monitor'[c] = "fired"
  <2>1. Watching /\ Latching'
    BY <1>1 DEF RunInv
  <2>2. /\ initial \subseteq initial'
        /\ \A x \in Conditions :
             /\ monitor[x] = "caught" => monitor'[x] \in {"caught", "fired"}
             /\ monitor[x] = "fired" => monitor'[x] = "fired"
    BY <1>1, <2>1, StepLatched
  <2> QED BY <2>1, <2>2 DEF Latching
<1> QED BY <1>1, Invariance, PTL DEF Spec, Latched

\* The records delivered are a prefix of the two, about a cutoff, and only the
\* last may be incomplete.
THEOREM RecordsAreDelivered == Spec => []DeliveredRecords
<1>1. Recording /\ TypeOK => DeliveredRecords
  <2> SUFFICES ASSUME Recording, TypeOK PROVE DeliveredRecords
    OBVIOUS
  <2>1. Lifecycle!OnlyCutoffsAreRecorded
    BY DEF Recording, Lifecycle!OnlyCutoffsAreRecorded, lifecycleState
  <2>2. Lifecycle!RecordsInOrder
    <3> USE DEF Whole, Part, Lifecycle!RecordsInOrder, Lifecycle!EventFDEvents
    <3>1. CASE records = <<>>
      BY <3>1
    <3>2. CASE records = <<Whole("condition-triggered")>>
      BY <3>2
    <3>3. CASE records = <<Part("condition-triggered")>>
      BY <3>3
    <3>4. CASE records = <<Whole("condition-triggered"), Whole("stream-cutoff")>>
      BY <3>4
    <3>5. CASE records = <<Whole("condition-triggered"), Part("stream-cutoff")>>
      BY <3>5
    <3> QED BY <3>1, <3>2, <3>3, <3>4, <3>5 DEF Recording
  <2> QED BY <2>1, <2>2 DEF DeliveredRecords
<1> QED BY <1>1, Invariance, PTL DEF RunInv

-----------------------------------------------------------------------------
(***************************************************************************)
(* Outage implements Lifecycle, its fairness apart.                        *)
(***************************************************************************)

\* A step that keeps cause and records, and does not exit, is none of the
\* lifecycle.
LEMMA QuietStep ==
  ASSUME cause' = cause, records' = records, pc' = "exited" <=> pc = "exited"
  PROVE  UNCHANGED Lifecycle!vars
BY DEF Lifecycle!vars, lifecycleState

\* Neither is one in which a run ends that monitored nothing.
LEMMA UnmonitoredStep ==
  ASSUME cause = "none", records' = records, cause' \in {"standalone", "rejected"}
  PROVE  UNCHANGED Lifecycle!vars
BY DEF Lifecycle!vars, lifecycleState

\* The main goroutine takes the condition, or the result of the copy.
LEMMA EndingStep ==
  ASSUME cause = "none", records' = records, pc' # "exited",
         cause' \in {"condition", "eof", "error"}
  PROVE  Lifecycle!Next
BY DEF lifecycleState, Lifecycle!Next, Lifecycle!ConditionTriggered, Lifecycle!Eof,
   Lifecycle!Error

\* EmitRecord is one delivery, or none.
LEMMA DeliveringStep ==
  ASSUME NEW event, EmitRecord(event), cause = "condition", cause' = cause,
         pc # "exited", pc' # "exited",
         ~disabled => /\ records \in Seq(Records)
                      /\ Len(records) < 2
                      /\ \A i \in 1..Len(records) : records[i].whole
                      /\ event = Lifecycle!EventFDEvents[Len(records) + 1]
  PROVE  [Lifecycle!Next]_(Lifecycle!vars)
<1>1. CASE records' = records
  BY <1>1, QuietStep
<1>2. CASE records' # records
  <2>1. ~disabled /\ \E w \in BOOLEAN : records' = Append(records, [event |-> event, whole |-> w])
    BY <1>2 DEF EmitRecord, eventVars
  <2>2. Lifecycle!Deliver
    BY <2>1 DEF lifecycleState, Lifecycle!Deliver, Lifecycle!EventFDEvents
  <2> QED BY <2>2 DEF Lifecycle!Next
<1> QED BY <1>1, <1>2

\* Every step of a run is a step of the lifecycle, or none.
LEMMA NextImplements ==
  ASSUME TypeOK, Copying, Arbitrating, Recording, [Next]_vars
  PROVE  [Lifecycle!Next]_(Lifecycle!vars)
<1> USE OutageAssumption DEF Conditions, Running, mainVars, treeVars, copyVars, pipeVars,
    eventVars, worldVars
<1>1. CASE PrintAndExit
  BY UnmonitoredStep, <1>1 DEF Arbitrating, PrintAndExit
<1>2. CASE RejectArguments
  BY UnmonitoredStep, <1>2 DEF Arbitrating, RejectArguments
<1>3. CASE AcceptPlan
  BY QuietStep, <1>3 DEF AcceptPlan
<1>4. CASE SampleCondition
  BY QuietStep, <1>4 DEF SampleCondition
<1>5. CASE StartMonitor
  <2>1. cause = "none" /\ records' = records /\ pc # "exited" /\ pc' # "exited"
    BY <1>5 DEF Arbitrating, StartMonitor
  <2>2. cause' \in {"none", "condition", "eof", "error"}
    BY <2>1, <1>5 DEF StartMonitor
  <2> QED BY <2>1, <2>2, QuietStep, EndingStep
<1>6. CASE CheckImmediateEvent
  <2>1. cause = "none" /\ records' = records /\ pc # "exited" /\ pc' # "exited"
    BY <1>6 DEF Arbitrating, CheckImmediateEvent
  <2>2. cause' \in {"none", "condition", "eof", "error"}
    BY <2>1, <1>6 DEF CheckImmediateEvent
  <2> QED BY <2>1, <2>2, QuietStep, EndingStep
<1>7. CASE Recheck
  <2>1. cause = "none" /\ records' = records /\ pc # "exited" /\ pc' # "exited"
    BY <1>7 DEF Arbitrating, Recheck
  <2>2. cause' \in {"none", "condition", "eof", "error"}
    BY <2>1, <1>7 DEF Recheck
  <2> QED BY <2>1, <2>2, QuietStep, EndingStep
<1>8. CASE CheckCopy
  <2>1. cause = "none" /\ records' = records /\ pc # "exited" /\ pc' # "exited"
    BY <1>8 DEF Arbitrating, CheckCopy, EndWithCopy, waitUnchanged
  <2>2. cause' \in {"none", "condition", "eof", "error"}
    BY <2>1, <1>8 DEF CheckCopy, EndWithCopy, waitUnchanged
  <2> QED BY <2>1, <2>2, QuietStep, EndingStep
<1>9. CASE SelectEvent
  <2>1. cause = "none" /\ records' = records /\ pc # "exited" /\ pc' # "exited"
    BY <1>9 DEF Arbitrating, SelectEvent, EndWithCondition, waitUnchanged
  <2>2. cause' \in {"none", "condition", "eof", "error"}
    BY <2>1, <1>9 DEF SelectEvent, EndWithCondition, waitUnchanged
  <2> QED BY <2>1, <2>2, QuietStep, EndingStep
<1>10. CASE SelectCopy
  <2>1. cause = "none" /\ records' = records /\ pc # "exited" /\ pc' # "exited"
    BY <1>10 DEF Arbitrating, SelectCopy, EndWithCopy, waitUnchanged
  <2>2. cause' \in {"none", "condition", "eof", "error"}
    BY <2>1, <1>10 DEF SelectCopy, EndWithCopy, waitUnchanged
  <2> QED BY <2>1, <2>2, QuietStep, EndingStep
<1>11. CASE Arbitrate
  <2>1. cause = "none" /\ records' = records /\ pc # "exited" /\ pc' # "exited"
    BY <1>11 DEF Arbitrating, Arbitrate, EndWithCopy, EndWithCondition, waitUnchanged
  <2>2. cause' \in {"none", "condition", "eof", "error"}
    BY <2>1, <1>11 DEF Arbitrate, EndWithCopy, EndWithCondition, waitUnchanged
  <2> QED BY <2>1, <2>2, QuietStep, EndingStep
<1>12. CASE EmitConditionTriggered
  <2>1. /\ cause = "condition" /\ cause' = cause /\ pc' # "exited"
        /\ records = <<>>
    BY <1>12 DEF Arbitrating, Recording, EmitConditionTriggered, emitUnchanged
  <2>2. CASE WithEvents
    BY <2>1, <2>2, <1>12, DeliveringStep DEF TypeOK, EmitConditionTriggered, Lifecycle!EventFDEvents
  <2>3. CASE ~WithEvents
    BY <2>1, <2>3, <1>12, QuietStep DEF EmitConditionTriggered
  <2> QED BY <2>2, <2>3
<1>13. CASE EmitStreamCutoff
  <2>1. /\ cause = "condition" /\ cause' = cause /\ pc' # "exited" /\ pc # "exited"
        /\ ~disabled => records = <<Whole("condition-triggered")>>
        /\ EmitRecord("stream-cutoff")
    BY <1>13 DEF Arbitrating, Recording, EmitStreamCutoff, emitUnchanged
  <2>2. ~disabled => /\ records \in Seq(Records)
                     /\ Len(records) < 2
                     /\ \A i \in 1..Len(records) : records[i].whole
                     /\ "stream-cutoff" = Lifecycle!EventFDEvents[Len(records) + 1]
    <3> SUFFICES ASSUME ~disabled
                 PROVE  /\ records \in Seq(Records)
                        /\ Len(records) < 2
                        /\ \A i \in 1..Len(records) : records[i].whole
                        /\ "stream-cutoff" = Lifecycle!EventFDEvents[Len(records) + 1]
      OBVIOUS
    <3>1. Len(records) = 1 /\ records[1] = Whole("condition-triggered")
      BY <2>1
    <3>2. records[1].whole
      BY <3>1 DEF Whole
    <3>3. Lifecycle!EventFDEvents[2] = "stream-cutoff"
      BY DEF Lifecycle!EventFDEvents
    <3> QED BY <3>1, <3>2, <3>3 DEF TypeOK
  <2> QED BY <2>1, <2>2, DeliveringStep
<1>14. CASE Exit
  <2>1. /\ cause' = cause /\ records' = records
        /\ pc = "exit" /\ pc' = "exited"
        /\ cause # "none"
    BY <1>14 DEF Copying, Exit, emitUnchanged
  <2>2. CASE cause = "condition"
    BY <2>1, <2>2 DEF lifecycleState, Lifecycle!Next, Lifecycle!StreamCutoff
  <2>3. CASE cause # "condition"
    BY <2>1, <2>3 DEF lifecycleState, Lifecycle!vars
  <2> QED BY <2>2, <2>3
<1>15. CASE PublishTreeEvent
  BY QuietStep, <1>15, Publishing DEF othersUnchanged
<1>16. CASE WriteWarning
  BY QuietStep, <1>16 DEF WriteWarning, othersUnchanged
<1>17. CASE CopyRead
  BY QuietStep, <1>17 DEF CopyRead, copyUnchanged
<1>18. CASE CopyWrite
  BY QuietStep, <1>18 DEF CopyWrite, copyUnchanged
<1>19. CASE CopyEnd
  BY QuietStep, <1>19 DEF CopyEnd, copyUnchanged
<1>20. CASE Produce
  BY QuietStep, <1>20 DEF Produce, pipeUnchanged, worldUnchanged
<1>21. CASE EndInput
  BY QuietStep, <1>21 DEF EndInput, pipeUnchanged, worldUnchanged
<1>22. CASE CloseOutput
  BY QuietStep, <1>22 DEF CloseOutput, pipeUnchanged, worldUnchanged
<1>23. ASSUME NEW c \in Conditions, Fire(c)
       PROVE  [Lifecycle!Next]_(Lifecycle!vars)
  BY QuietStep, <1>23 DEF Fire, othersUnchanged
<1>24. ASSUME NEW c \in Conditions, TimePasses(c)
       PROVE  [Lifecycle!Next]_(Lifecycle!vars)
  BY QuietStep, <1>24 DEF TimePasses, worldUnchanged
<1>25. ASSUME NEW c \in Conditions, FileChanges(c)
       PROVE  [Lifecycle!Next]_(Lifecycle!vars)
  BY QuietStep, <1>25 DEF FileChanges, worldUnchanged
<1>26. ASSUME NEW c \in Conditions, SignalSent(c)
       PROVE  [Lifecycle!Next]_(Lifecycle!vars)
  BY QuietStep, <1>26 DEF SignalSent, worldUnchanged
<1>27. CASE UNCHANGED vars
  BY <1>27, QuietStep DEF vars
<1> QED BY <1>1, <1>2, <1>3, <1>4, <1>5, <1>6, <1>7, <1>8, <1>9, <1>10, <1>11, <1>12, <1>13, <1>14,
    <1>15, <1>16, <1>17, <1>18, <1>19, <1>20, <1>21, <1>22, <1>23, <1>24, <1>25, <1>26, <1>27 DEF
        Next, Main, World

\* Every run is a run of the state machine that --describe prints, and what it
\* records is what that machine delivers.
THEOREM ImplementsStateMachine ==
  Spec => Lifecycle!Init /\ [][Lifecycle!Next]_(Lifecycle!vars)
<1>1. Init => Lifecycle!Init
  BY DEF Init, lifecycleState, Lifecycle!Init
<1>2. TypeOK /\ RunInv /\ [Next]_vars => [Lifecycle!Next]_(Lifecycle!vars)
  BY NextImplements DEF RunInv
<1> QED BY <1>1, <1>2, Invariance, PTL DEF Spec

-----------------------------------------------------------------------------
(***************************************************************************)
(* The tree.                                                               *)
(***************************************************************************)

\* What starts, catches or fires one monitor fires at most one condition.
LEMMA MonitorStep ==
  ASSUME NEW c \in Conditions, NEW m, monitor' = [monitor EXCEPT ![c] = m],
         TypeOK, monitor[c] # "fired", treeEvent' = treeEvent
  PROVE  [Tree!Next]_(Tree!planVars)
<1>1. Fired' = IF m = "fired" THEN Fired \cup {c} ELSE Fired
  BY DEF Fired, TypeOK
<1>2. CASE m = "fired"
  <2>1. Tree!Fire(c)
    BY <1>1, <1>2 DEF Tree!Fire
  <2> QED BY <2>1 DEF Tree!Next
<1>3. CASE m # "fired"
  BY <1>1, <1>3 DEF Tree!planVars
<1> QED BY <1>2, <1>3

LEMMA TreeStep ==
  ASSUME TypeOK, Watching, [Next]_vars
  PROVE  [Tree!Next]_(Tree!planVars)
<1>1. CASE UNCHANGED treeVars
  BY <1>1 DEF treeVars, Tree!planVars, Fired
<1>2. CASE StartMonitor
  <2>1. index \in Conditions /\ monitor[index] # "fired"
    BY <1>2, OutageAssumption DEF StartMonitor, TypeOK, Watching, Conditions
  <2> QED BY <1>2, <2>1, MonitorStep DEF StartMonitor
<1>3. ASSUME NEW c \in Conditions, Fire(c)
      PROVE  [Tree!Next]_(Tree!planVars)
  BY <1>3, MonitorStep DEF Fire
<1>4. ASSUME NEW c \in Conditions, SignalSent(c)
      PROVE  [Tree!Next]_(Tree!planVars)
  BY <1>4, MonitorStep DEF SignalSent, worldUnchanged
<1>5. CASE PublishTreeEvent
  BY <1>5 DEF PublishTreeEvent, Tree!Next
<1>6. ASSUME NEW c \in Conditions, TimePasses(c) \/ FileChanges(c)
      PROVE  UNCHANGED treeVars
  BY <1>6 DEF TimePasses, FileChanges, worldUnchanged, treeVars
<1>7. CASE Main
  <2>1. StartMonitor \/ UNCHANGED treeVars
    BY <1>7 DEF Main, PrintAndExit, RejectArguments, AcceptPlan, SampleCondition,
       CheckImmediateEvent, Recheck, CheckCopy, SelectEvent, SelectCopy, Arbitrate,
       EmitConditionTriggered, EmitStreamCutoff, Exit, EndWithCopy, EndWithCondition,
       waitUnchanged, emitUnchanged
  <2> QED BY <2>1, <1>1, <1>2
<1>8. CASE WriteWarning \/ CopyRead \/ CopyWrite \/ CopyEnd \/ Produce \/ EndInput \/ CloseOutput
  BY <1>1, <1>8 DEF WriteWarning, CopyRead, CopyWrite, CopyEnd, Produce, EndInput, CloseOutput,
     othersUnchanged, copyUnchanged, pipeUnchanged, worldUnchanged, treeVars
<1>9. CASE UNCHANGED vars
  BY <1>1, <1>9 DEF vars
<1> QED BY <1>1, <1>3, <1>4, <1>5, <1>6, <1>7, <1>8, <1>9 DEF Next, World

\* The monitors and the root event of a run are a latched plan, the one that
\* ConditionTree implements: whatever else the process does, nothing that has fired
\* is taken back, and nothing is published for a plan that is not satisfied.
THEOREM TreeIsLatchedPlan ==
  Spec => Tree!Init /\ [][Tree!Next]_(Tree!planVars)
<1>1. Init => Tree!Init
  BY DEF Init, Fired, Tree!Init
<1>2. TypeOK /\ RunInv /\ [Next]_vars => [Tree!Next]_(Tree!planVars)
  BY TreeStep DEF RunInv
<1> QED BY <1>1, <1>2, Invariance, PTL DEF Spec

=============================================================================
