----------------------------- MODULE CommandLine -----------------------------
(***************************************************************************)
(* One invocation of outage from its arguments to its exit: runWithClock   *)
(* of cmd/outage/main.go with the parser of module Arguments and the       *)
(* descriptor of module EventDescriptor.  The time from the first sample   *)
(* of the conditions to the outcome is one step here; module Outage is     *)
(* about that time, and takes the plans that get there.                    *)
(***************************************************************************)
EXTENDS Arguments, EventDescriptor

\* The invocations, as records [args, zone, platform, descriptor, noWait]; the
\* platform is "unix" or "windows".
CONSTANT Inputs

ASSUME InputsAssumption ==
  \A i \in Inputs :
    /\ IsCommandLine(i.args) /\ IsZone(i.zone)
    /\ i.descriptor \in [stream : BOOLEAN, writable : BOOLEAN] /\ i.noWait \in BOOLEAN

VARIABLES
  input,   \* the invocation, which never changes
  pc,      \* where the main goroutine is
  result,  \* what Parse returned
  output,  \* what has been written to stdout
  status   \* the exit status

processVars == <<input, pc, result, output, status>>
vars == <<processVars, descriptorVars>>

Running == 3  \* stands for no exit status yet

TypeOK ==
  /\ DescriptorTypeOK
  /\ pc \in {"start", "parsed", "validated", "monitor", "records", "exit"}
  /\ result.error \in {"none", "options", "grammar", "syntax", "capability"}
  /\ output \in {"", "help", "description", "version"}
  /\ status \in {0, 1, 2, Running}
  /\ pc = "exit" <=> status # Running
  /\ emitter # "none" => pc \in {"monitor", "records", "exit"} /\ result.fdSet
  /\ emitter \in {"write", "blocked"} => unsent > 0

Init ==
  /\ input \in Inputs
  /\ pc = "start" /\ result = Refused("none") /\ output = "" /\ status = Running
  /\ descriptor = input.descriptor /\ noWait = input.noWait
  /\ room = "all" /\ reader = TRUE
  /\ EmitterInit

ExitWith(code) == pc' = "exit" /\ status' = code

\* fmt.Fprint to stdout succeeds, or fails with exitCopyError.
PrintAndExit(text) ==
  /\ \/ output' = text /\ ExitWith(0)
     \/ output' = output /\ ExitWith(1)
  /\ UNCHANGED <<input, result, descriptorVars>>

Help ==
  /\ pc = "start" /\ HelpRequested(input.args)
  /\ PrintAndExit("help")

Describe ==
  /\ pc = "start" /\ ~HelpRequested(input.args) /\ describeRequested(input.args)
  /\ \/ Len(input.args) = 1 /\ PrintAndExit("description")
     \/ /\ Len(input.args) # 1 /\ ExitWith(2)
        /\ UNCHANGED <<input, result, output, descriptorVars>>

\* Bug: --version is looked for before --describe, and anywhere.
VersionFirst ==
  /\ pc = "start" /\ ~HelpRequested(input.args)
  /\ \E i \in DOMAIN input.args : input.args[i].kind = "version"
  /\ PrintAndExit("version")

Version ==
  /\ pc = "start" /\ ~HelpRequested(input.args) /\ VersionRequested(input.args)
  /\ PrintAndExit("version")

ParseArguments ==
  /\ pc = "start"
  /\ ~HelpRequested(input.args) /\ ~describeRequested(input.args)
  /\ ~VersionRequested(input.args)
  /\ result' = Parse(input.args, input.zone, input.platform)
  /\ pc' = "parsed"
  /\ UNCHANGED <<input, output, status, descriptorVars>>

\* Bug: a descriptor is taken whether or not one is given.
DecideAnyDescriptor ==
  /\ pc = "parsed"
  /\ IF result.error # "none" \/ (result.fdSet /\ ~Validated) THEN ExitWith(2)
     ELSE pc' = "validated" /\ UNCHANGED status
  /\ UNCHANGED <<input, result, output, descriptorVars>>

\* Reject the arguments, or the descriptor, or go on.
Decide ==
  /\ pc = "parsed"
  /\ IF result.error # "none" \/ (result.fdSet /\ ~Validated) THEN ExitWith(2)
     ELSE pc' = (IF result.fdSet THEN "validated" ELSE "monitor") /\ UNCHANGED status
  /\ UNCHANGED <<input, result, output, descriptorVars>>

\* newEventEmitterWithClock.
MakeEmitter ==
  /\ pc = "validated"
  /\ \/ Duplicate /\ pc' = "monitor" /\ UNCHANGED status
     \/ ExitWith(2) /\ UNCHANGED descriptorVars
  /\ UNCHANGED <<input, result, output>>

\* A condition ends the run, and emitCutoffEvents is called.
ConditionEnds ==
  /\ pc = "monitor" /\ emitter # "none"
  /\ pc' = "records"
  /\ BeginRecords
  /\ UNCHANGED <<input, result, output, status>>

\* The run ends without records.
EndsSilently ==
  /\ pc = "monitor"
  /\ \E code \in {0, 1} : ExitWith(code)
  /\ UNCHANGED <<input, result, output, descriptorVars>>

EmitRecords ==
  /\ pc = "records" /\ Emitter
  /\ UNCHANGED processVars

ExitAfterRecords ==
  /\ pc = "records" /\ RecordsDone
  /\ ExitWith(0)
  /\ UNCHANGED <<input, result, output, descriptorVars>>

Process ==
  \/ Help \/ Describe \/ Version \/ ParseArguments
  \/ Decide \/ MakeEmitter
  \/ ConditionEnds \/ EndsSilently \/ EmitRecords \/ ExitAfterRecords

\* What other processes do to the descriptor while it matters.
World ==
  /\ pc \in {"validated", "monitor", "records"} /\ result.fdSet
  /\ Others
  /\ UNCHANGED processVars

Next == Process \/ World

Spec == Init /\ [][Next]_vars

\* The main goroutine runs.  What it does before the records needs no fairness.
FairSpec == Spec /\ WF_vars(EmitRecords) /\ WF_vars(ExitAfterRecords)

-----------------------------------------------------------------------------
(***************************************************************************)
(* The command line as describe.go describes it.                           *)
(***************************************************************************)

KindsOf(args) == {args[i].kind : i \in DOMAIN args}

\* The elements of a sequence at the places in I, in order.
Keeping(s, I) ==
  [n \in 1..Cardinality(I) |-> s[CHOOSE i \in I : Cardinality({j \in I : j <= i}) = n]]

\* The values of --events-fd N, and the arguments without it and them.
FDValues(args) ==
  {i \in DOMAIN args : i > 1 /\ args[i - 1].kind = "fd" /\ args[i].kind = "plain"}
WithoutFD(args) ==
  Keeping(args, {i \in DOMAIN args : args[i].kind \notin {"fd", "fd="}} \ FDValues(args))

\* Option --events-fd: at most once, and a value of at least 3.
DescribedFD(args) ==
  /\ Cardinality({i \in DOMAIN args : args[i].kind \in {"fd", "fd="}}) <= 1
  /\ \A i \in DOMAIN args :
       /\ args[i].kind = "fd" => i + 1 \in FDValues(args) /\ Number(args[i + 1]) >= 3
       /\ args[i].kind = "fd=" => args[i].value >= 3

\* Argument CONDITION, once, and then --or CONDITION or --or=CONDITION.
DescribedGroups(rest) ==
  /\ rest # <<>> /\ rest[1].kind = "plain"
  /\ \A i \in DOMAIN rest : 
       CASE rest[i].kind = "plain" -> i > 1 => rest[i - 1].kind = "or"
         [] rest[i].kind = "or"    -> i < Len(rest) /\ rest[i + 1].kind = "plain"
         [] rest[i].kind = "or="   -> rest[i].value # <<>>
         [] OTHER                  -> FALSE

\* The alternatives, and the members of all of them.
AlternativesOf(rest) == Keeping(rest, {i \in DOMAIN rest : rest[i].kind # "or"})
Alternatives(args)   == AlternativesOf(WithoutFD(args))
MembersGiven(args) ==
  UNION {ToSet(Alternatives(args)[g].value) : g \in DOMAIN Alternatives(args)}

\* The forms of a condition: a duration is not negative and may be zero, a local
\* time must exist.
DescribedMember(member, zone) ==
  \/ member.kind \in {"signal", "rfc3339"}
  \/ member.kind = "file" /\ member.value # ""
  \/ member.kind = "duration" /\ ParseDuration(member.value) >= 0
  \/ member.kind = "local" /\ InstantsOf(zone, member.value) # {}

Described(args, zone) ==
  /\ DescribedFD(args)
  /\ DescribedGroups(WithoutFD(args))
  /\ \A m \in MembersGiven(args) : DescribedMember(m, zone)

\* duration:-0s and duration:-0, zero durations that cli.go:371 refuses nonetheless,
\* as its test wants it (cmd/outage/main_test.go:1575).
MinusZero(member) ==
  member.kind = "duration" /\ member.value.minus /\ ParseDuration(member.value) = 0

\* The spellings of a signal.
Spellings(name) ==
  IF name = "USR1" THEN {"USR1", "SIGUSR1"} ELSE {"USR2", "SIGUSR2"}

\* What a member denotes.  Whether that is right for a local time is the question
\* of EarliestInstant.
Denotes(member, zone) ==
  CASE member.kind = "signal"   -> <<"signal", CHOOSE name \in {"USR1", "USR2"} :
                                                 member.value \in Spellings(name)>>
    [] member.kind = "file"     -> <<"file", member.value>>
    [] member.kind = "duration" -> <<"duration", ParseDuration(member.value)>>
    [] member.kind = "rfc3339"  -> <<"datetime", member.value>>
    [] member.kind = "local"    -> <<"datetime", EarliestLocalInstant(zone, member.value)>>

-----------------------------------------------------------------------------
(***************************************************************************)
(* Properties.                                                             *)
(***************************************************************************)

\* The command lines that describe.go describes are accepted, except those with a
\* zero duration that has a minus, and no others are: options with their values,
\* conflicts and repetition, the forms of CONDITION, and no local time that a clock
\* change skips, in a zone that does not change twice within the time it changes
\* by.  On Windows those with a signal are refused, for that reason only if nothing
\* else is wrong anywhere in them.
AcceptsWhatIsDescribed ==
  pc = "parsed" /\ Settled(input.zone) =>
    LET members     == MembersGiven(input.args)
        acceptable  == Described(input.args, input.zone) /\ \A m \in members : ~MinusZero(m)
        unsupported == input.platform = "windows" /\ \E m \in members : m.kind = "signal"
    IN  /\ result.error = "none" <=> acceptable /\ ~unsupported
        /\ result.error = "capability" <=> acceptable /\ unsupported

\* The plan is the formula that was written: group by group the conditions its
\* members denote, each condition once, none that no group needs.  Module
\* Outage assumes the shape of such a plan (OutageAssumption).
MeansFormula(plan, alternatives, zone) ==
  /\ Len(plan.groups) = Len(alternatives)
  /\ \A g \in DOMAIN alternatives :
       /\ plan.groups[g] # <<>> /\ IsInjective(plan.groups[g])
       /\ ToSet(plan.groups[g]) \subseteq DOMAIN plan.conditions
       /\ {plan.conditions[i] : i \in ToSet(plan.groups[g])} =
          {Denotes(m, zone) : m \in ToSet(alternatives[g].value)}
  /\ IsInjective(plan.conditions)
  /\ DOMAIN plan.conditions = UNION {ToSet(plan.groups[g]) : g \in DOMAIN plan.groups}

\* What is accepted becomes the formula it spells, conditions known by several
\* spellings included.
PlanMeansArguments ==
  pc = "parsed" /\ result.error = "none" =>
    MeansFormula(result, Alternatives(input.args), input.zone)

\* A local time that occurs twice, or more often, stands for the earliest of the
\* instants, in any zone, however short the time it spends at an offset.
EarliestInstant ==
  pc = "parsed" =>
    \A m \in MembersGiven(input.args) :
      m.kind = "local" /\ IsLocalTime(input.zone, m.value) =>
        EarliestLocalInstant(input.zone, m.value) = Min(InstantsOf(input.zone, m.value))

\* Help has the highest priority, --describe and --version stand alone, and what
\* is not a command line ends with status 2 and without output.
StandaloneOptions ==
  pc = "exit" =>
    LET kinds == KindsOf(input.args)
    IN  /\ output = "help" => "help" \in kinds
        /\ output # "" => status = 0
        /\ "help" \in kinds => status # 2 /\ output \in {"", "help"}
        /\ "help" \notin kinds /\ {"describe", "version"} \cap kinds # {} =>
             IF Len(input.args) > 1 THEN status = 2 /\ output = "" ELSE status # 2

\* A write of a record waits for a reader only if another process has cleared
\* the mode after the check that precedes this write.
BlocksOnlyUnkept == emitter = "blocked" => ~keptCheck

\* If the mode is kept, as describe.go asks of the caller, the exit never waits
\* for whoever reads the descriptor.
RecordsDoNotDelayExit == (pc = "records") ~> (pc = "exit" \/ ~kept)

=============================================================================
