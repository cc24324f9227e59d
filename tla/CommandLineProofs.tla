-------------------------- MODULE CommandLineProofs --------------------------
(***************************************************************************)
(* Theorems about CommandLine for every set of invocations: any arguments, *)
(* any zone, any state of the descriptor.                                  *)
(***************************************************************************)
EXTENDS ArgumentsProofs

\* TypeOK, in two parts.
ProcessTypeOK ==
  /\ pc \in {"start", "parsed", "validated", "monitor", "records", "exit"}
  /\ result.error \in {"none", "options", "grammar", "syntax", "capability"}
  /\ output \in {"", "help", "description", "version"}
  /\ status \in {0, 1, 2, Running}
  /\ pc = "exit" <=> status # Running

\* Where the emitter is in use.
EmitterWhere ==
  /\ emitter # "none" => pc \in {"monitor", "records", "exit"} /\ result.fdSet
  /\ emitter \in {"write", "blocked"} => unsent > 0
  /\ pc = "validated" => result.fdSet
  /\ pc \in {"start", "parsed", "validated", "monitor"} => emitter \in {"none", "idle"}

\* After a check of the mode it is set, as far as the process can know.
ModeKnown ==
  /\ emitter \in {"write", "blocked"} /\ keptCheck => noWait
  /\ BlocksOnlyUnkept

\* StandaloneOptions of n arguments of these kinds, the output and the status.
ExitsRight(kinds, n, text, code) ==
  /\ text = "help" => "help" \in kinds
  /\ text # "" => code = 0
  /\ "help" \in kinds => code # 2 /\ text \in {"", "help"}
  /\ "help" \notin kinds /\ {"describe", "version"} \cap kinds # {} =>
       IF n > 1 THEN code = 2 /\ text = "" ELSE code # 2

\* What is known of the arguments where the main goroutine is: no option that
\* stands alone gets past Decide.
ArgumentsKnown ==
  /\ pc # "exit" => output = ""
  /\ pc = "parsed" =>
       /\ result = Parse(input.args, input.zone, input.platform)
       /\ {"help", "describe"} \cap KindsOf(input.args) = {}
       /\ "version" \in KindsOf(input.args) => Len(input.args) > 1
  /\ pc \in {"validated", "monitor", "records"} =>
       {"help", "describe", "version"} \cap KindsOf(input.args) = {}
  /\ StandaloneOptions

IInv ==
  /\ input \in Inputs /\ ProcessTypeOK /\ DescriptorTypeOK /\ EmitterWhere /\ ModeKnown
  /\ ArgumentsKnown

\* Parse returns a plan or one of the four kinds of error.
LEMMA ParseErrors ==
  ASSUME NEW args, NEW zone, NEW platform
  PROVE  Parse(args, zone, platform).error \in
           {"none", "options", "grammar", "syntax", "capability"}
BY DEF Parse, Refused

LEMMA InitInv ==
  ASSUME Init PROVE IInv
<1>1. input \in Inputs /\ DescriptorTypeOK
  <2>1. /\ input \in Inputs
        /\ descriptor \in [stream : BOOLEAN, writable : BOOLEAN] /\ noWait \in BOOLEAN
    BY InputsAssumption DEF Init
  <2>2. /\ room = "all" /\ reader = TRUE /\ emitter = "none" /\ unsent = 0
        /\ kept = TRUE /\ keptCheck = TRUE
    BY DEF Init, EmitterInit
  <2> QED BY <2>1, <2>2 DEF DescriptorTypeOK, Rooms
<1>2. ProcessTypeOK
  BY DEF Init, ProcessTypeOK, Refused, Running
<1>3. EmitterWhere /\ ModeKnown
  BY DEF Init, EmitterInit, EmitterWhere, ModeKnown, BlocksOnlyUnkept
<1>4. ArgumentsKnown
  BY DEF Init, ArgumentsKnown, StandaloneOptions
<1> QED BY <1>1, <1>2, <1>3, <1>4 DEF IInv

\* The options that stand alone, by the kinds of the arguments.
LEMMA KindsRequested ==
  ASSUME NEW args, IsCommandLine(args)
  PROVE  /\ HelpRequested(args) <=> "help" \in KindsOf(args)
         /\ describeRequested(args) <=> "describe" \in KindsOf(args)
         /\ VersionRequested(args) => "version" \in KindsOf(args)
         /\ "version" \in KindsOf(args) /\ ~VersionRequested(args) => Len(args) > 1
         /\ Len(args) \in Nat /\ (KindsOf(args) # {} => Len(args) > 0)
<1>1. DOMAIN args = 1..Len(args) /\ Len(args) \in Nat
  BY CommandLineElements
<1>2. (KindsOf(args) # {} => Len(args) > 0) /\ (Len(args) = 1 => 1 \in DOMAIN args)
  BY <1>1 DEF KindsOf
<1>3. /\ HelpRequested(args) <=> "help" \in KindsOf(args)
      /\ describeRequested(args) <=> "describe" \in KindsOf(args)
  BY DEF HelpRequested, describeRequested, KindsOf
<1>4. VersionRequested(args) => "version" \in KindsOf(args)
  BY <1>2 DEF VersionRequested, KindsOf
<1>5. ASSUME "version" \in KindsOf(args), Len(args) = 1 PROVE VersionRequested(args)
  <2>1. DOMAIN args = {1}
    BY <1>1, <1>5
  <2> QED BY <1>5, <2>1 DEF KindsOf, VersionRequested
<1> QED BY <1>1, <1>2, <1>3, <1>4, <1>5

\* Each way to go on or to exit, with what it prints and its status.
LEMMA ArgumentsStep ==
  ASSUME IInv,
         Help \/ Describe \/ Version \/ ParseArguments \/ Decide \/ MakeEmitter
           \/ ConditionEnds \/ EndsSilently \/ ExitAfterRecords
  PROVE  ArgumentsKnown'
<1>1. PICK args : args = input.args
  OBVIOUS
<1>2. PICK kinds : kinds = KindsOf(args)
  OBVIOUS
<1>3. input' = input /\ input'.args = args /\ KindsOf(input'.args) = kinds
  BY <1>1, <1>2 DEF Help, Describe, Version, ParseArguments, Decide, MakeEmitter, ConditionEnds,
         EndsSilently, ExitAfterRecords, PrintAndExit
<1>4. IsCommandLine(args)
  BY <1>1, InputsAssumption DEF IInv
<1>5. /\ HelpRequested(args) <=> "help" \in kinds
      /\ describeRequested(args) <=> "describe" \in kinds
      /\ VersionRequested(args) => "version" \in kinds
      /\ "version" \in kinds /\ ~VersionRequested(args) => Len(args) > 1
      /\ Len(args) \in Nat /\ (kinds # {} => Len(args) > 0)
  BY <1>2, <1>4, KindsRequested
<1>6. /\ pc # "exit" => output = ""
      /\ pc = "parsed" => /\ result = Parse(args, input.zone, input.platform)
                          /\ {"help", "describe"} \cap kinds = {}
                          /\ "version" \in kinds => Len(args) > 1
      /\ pc \in {"validated", "monitor", "records"} => {"help", "describe", "version"} \cap kinds = {}
  BY <1>1, <1>2 DEF IInv, ArgumentsKnown
<1>7. /\ (pc' # "exit" => output' = "")
      /\ pc' = "parsed" => /\ result' = Parse(args, input.zone, input.platform)
                           /\ {"help", "describe"} \cap kinds = {}
                           /\ "version" \in kinds => Len(args) > 1
      /\ pc' \in {"validated", "monitor", "records"} => {"help", "describe", "version"} \cap kinds = {}
      /\ pc' = "exit" => ExitsRight(kinds, Len(args), output', status')
  <2>0. PICK n \in Nat : n = Len(args)
    BY <1>5, Zenon
  <2>n. 0 # 2 /\ 1 # 2 /\ 0 # 1 /\ (n = 1 => ~(n > 1)) /\ (n > 0 /\ n # 1 => n > 1)
    OBVIOUS
  <2>1. CASE Help
    <3>1. /\ pc' = "exit" /\ "help" \in kinds
          /\ \/ output' = "help" /\ status' = 0
             \/ output' = "" /\ status' = 1
      <4>1. output = ""
        <5>1. pc # "exit"
          BY <2>1 DEF Help
        <5> QED BY <1>6, <5>1, Zenon
      <4>2. PrintAndExit("help") /\ "help" \in kinds
        BY <1>1, <1>5, <2>1, Zenon DEF Help
      <4> QED BY <4>1, <4>2, Zenon DEF PrintAndExit, ExitWith
    <3>2. ExitsRight(kinds, n, output', status')
      BY <2>n, <3>1, Zenon DEF ExitsRight
    <3> QED BY <2>0, <3>1, <3>2, Zenon
  <2>2. CASE Describe
    <3>1. /\ pc' = "exit" /\ "help" \notin kinds /\ n > 0
          /\ \/ n = 1 /\ output' = "description" /\ status' = 0
             \/ n = 1 /\ output' = "" /\ status' = 1
             \/ n # 1 /\ output' = "" /\ status' = 2
      <4>1. output = ""
        <5>1. pc # "exit"
          BY <2>2 DEF Describe
        <5> QED BY <1>6, <5>1, Zenon
      <4>2. /\ \/ n = 1 /\ PrintAndExit("description")
               \/ n # 1 /\ ExitWith(2) /\ output' = output
            /\ ~HelpRequested(args) /\ describeRequested(args)
        BY <1>1, <2>0, <2>2, Zenon DEF Describe
      <4>3. "help" \notin kinds /\ n > 0
        BY <1>5, <2>0, <4>2, Zenon
      <4> QED BY <4>1, <4>2, <4>3, Zenon DEF PrintAndExit, ExitWith
    <3>2. ExitsRight(kinds, n, output', status')
      BY <2>n, <3>1, Zenon DEF ExitsRight
    <3> QED BY <2>0, <3>1, <3>2, Zenon
  <2>3. CASE Version
    <3>1. /\ pc' = "exit" /\ "help" \notin kinds /\ n = 1
          /\ \/ output' = "version" /\ status' = 0
             \/ output' = "" /\ status' = 1
      <4>1. output = ""
        <5>1. pc # "exit"
          BY <2>3 DEF Version
        <5> QED BY <1>6, <5>1, Zenon
      <4>2. PrintAndExit("version") /\ ~HelpRequested(args) /\ n = 1
        BY <1>1, <2>0, <2>3, Zenon DEF Version, VersionRequested
      <4>3. "help" \notin kinds
        BY <1>5, <4>2, Zenon
      <4> QED BY <4>1, <4>2, <4>3, Zenon DEF PrintAndExit, ExitWith
    <3>2. ExitsRight(kinds, n, output', status')
      BY <2>n, <3>1, Zenon DEF ExitsRight
    <3> QED BY <2>0, <3>1, <3>2, Zenon
  <2>4. CASE ParseArguments
    BY <1>1, <1>5, <1>6, <2>4 DEF ParseArguments
  <2>5. CASE Decide
    <3>1. pc = "parsed" /\ output' = output
      BY <2>5 DEF Decide
    <3>2. CASE result.error # "none" \/ (result.fdSet /\ ~Validated)
      BY <1>6, <2>5, <3>1, <3>2 DEF Decide, ExitWith, ExitsRight
    <3>3. CASE ~(result.error # "none" \/ (result.fdSet /\ ~Validated))
      <4>1. "version" \notin kinds
        <5>1. Parse(args, input.zone, input.platform).error = "none"
          BY <1>6, <3>1, <3>3
        <5>2. \A i \in DOMAIN args : args[i].kind # "version"
          BY <1>4, <5>1, VersionNotAccepted
        <5> QED BY <1>2, <5>2 DEF KindsOf
      <4>2. pc' \in {"validated", "monitor"}
        BY <2>5, <3>3 DEF Decide
      <4> QED BY <1>6, <3>1, <4>1, <4>2
    <3> QED BY <3>2, <3>3
  <2>6. CASE MakeEmitter \/ ConditionEnds \/ EndsSilently \/ ExitAfterRecords
    BY <1>6, <2>6 DEF MakeEmitter, ConditionEnds, EndsSilently, ExitAfterRecords, ExitWith,
                 ExitsRight
  <2> QED BY <2>1, <2>2, <2>3, <2>4, <2>5, <2>6
<1> QED BY <1>3, <1>7 DEF ArgumentsKnown, StandaloneOptions, ExitsRight

\* What the main goroutine does before the records leaves the pipe alone, and the
\* emitter too, unless it makes one or begins the records.
LEMMA BeforeRecords ==
  ASSUME IInv,
         Help \/ Describe \/ Version \/ ParseArguments \/ Decide \/ MakeEmitter
           \/ ConditionEnds \/ EndsSilently \/ ExitAfterRecords
  PROVE  IInv'
<1> USE DEF ExitWith, PrintAndExit, descriptorVars, pipeVars, emitterVars
<1>1. input' \in Inputs
  BY DEF IInv, Help, Describe, Version, ParseArguments, Decide, MakeEmitter, ConditionEnds,
         EndsSilently, ExitAfterRecords
<1>2. DescriptorTypeOK'
  BY DEF IInv, DescriptorTypeOK, Rooms, Help, Describe, Version, ParseArguments, Decide,
         MakeEmitter, Duplicate, ConditionEnds, BeginRecords, EndsSilently, ExitAfterRecords
<1>3. ProcessTypeOK'
  <2>1. result'.error \in {"none", "options", "grammar", "syntax", "capability"}
    BY ParseErrors DEF IInv, ProcessTypeOK, Help, Describe, Version, ParseArguments, Decide,
       MakeEmitter, ConditionEnds, EndsSilently, ExitAfterRecords
  <2>2. /\ pc' \in {"start", "parsed", "validated", "monitor", "records", "exit"}
        /\ output' \in {"", "help", "description", "version"}
        /\ status' \in {0, 1, 2, Running}
    BY DEF IInv, ProcessTypeOK, Help, Describe, Version, ParseArguments, Decide, MakeEmitter,
           ConditionEnds, EndsSilently, ExitAfterRecords
  <2>3. \/ pc # "exit" /\ pc' # "exit" /\ status' = status
        \/ pc' = "exit" /\ status' \in {0, 1, 2}
    BY DEF Help, Describe, Version, ParseArguments, Decide, MakeEmitter, ConditionEnds,
           EndsSilently, ExitAfterRecords
  <2>4. pc' = "exit" <=> status' # Running
    <3>1. pc # "exit" => status = Running
      BY DEF IInv, ProcessTypeOK
    <3>2. Running \notin {0, 1, 2}
      BY DEF Running
    <3> QED BY <2>3, <3>1, <3>2, Zenon
  <2> QED BY <2>1, <2>2, <2>4 DEF ProcessTypeOK
<1>4. EmitterWhere'
  <2>1. CASE Help \/ Describe \/ Version \/ ParseArguments
    BY <2>1 DEF IInv, EmitterWhere, Help, Describe, Version, ParseArguments
  <2>2. CASE Decide
    BY <2>2 DEF IInv, EmitterWhere, Decide
  <2>3. CASE MakeEmitter
    BY <2>3 DEF IInv, EmitterWhere, MakeEmitter, Duplicate
  <2>4. CASE ConditionEnds
    BY <2>4 DEF IInv, EmitterWhere, ConditionEnds, BeginRecords
  <2>5. CASE EndsSilently \/ ExitAfterRecords
    BY <2>5 DEF IInv, EmitterWhere, EndsSilently, ExitAfterRecords
  <2> QED BY <2>1, <2>2, <2>3, <2>4, <2>5
<1>5. ModeKnown'
  BY DEF IInv, ModeKnown, BlocksOnlyUnkept, Help, Describe, Version, ParseArguments, Decide,
         MakeEmitter, Duplicate, ConditionEnds, BeginRecords, EndsSilently, ExitAfterRecords
<1> QED BY <1>1, <1>2, <1>3, <1>4, <1>5, ArgumentsStep DEF IInv

\* The emitter and the other processes leave the main goroutine where it is.
LEMMA DuringRecords ==
  ASSUME IInv, EmitRecords \/ World
  PROVE  IInv'
<1>1. UNCHANGED processVars
  BY DEF EmitRecords, World
<1>2. input' \in Inputs /\ ProcessTypeOK' /\ ArgumentsKnown'
  BY <1>1 DEF IInv, ProcessTypeOK, ArgumentsKnown, StandaloneOptions, processVars
<1>3. CASE EmitRecords
  <2> USE <1>3 DEF EmitRecords, Emitter, CheckMode, Write, Unblock, Written, Failed, processVars,
                   pipeVars
  <2>1. DescriptorTypeOK'
    <3>1. unsent' \in 0..2
      BY DEF IInv, DescriptorTypeOK, EmitterWhere
    <3>2. room' \in Rooms /\ emitter' \in {"none", "idle", "write", "blocked", "disabled"}
      BY DEF IInv, DescriptorTypeOK
    <3>3. descriptor' = descriptor /\ noWait' = noWait /\ reader' = reader /\ kept' = kept
      OBVIOUS
    <3>4. keptCheck' \in BOOLEAN
      BY DEF IInv, DescriptorTypeOK
    <3> QED BY ONLY IInv, <3>1, <3>2, <3>3, <3>4 DEF IInv, DescriptorTypeOK
  <2>2. EmitterWhere'
    BY DEF IInv, EmitterWhere
  <2>3. ModeKnown'
    <3>1. CASE CheckMode
      BY <3>1 DEF ModeKnown, BlocksOnlyUnkept
    <3>2. CASE Write \/ Unblock
      BY <3>2 DEF IInv, ModeKnown, BlocksOnlyUnkept
    <3> QED BY <3>1, <3>2
  <2> QED BY <1>2, <2>1, <2>2, <2>3 DEF IInv
<1>4. CASE World
  <2> USE <1>4 DEF World, Others, SwitchMode, FillOrDrain, ReaderCloses, processVars, emitterVars
  <2>1. DescriptorTypeOK'
    BY DEF IInv, DescriptorTypeOK, Rooms
  <2>2. EmitterWhere'
    BY DEF IInv, EmitterWhere
  <2>3. ModeKnown'
    <3>1. CASE SwitchMode
      <4>1. emitter' = emitter /\ (keptCheck' => keptCheck /\ noWait')
        BY <3>1, Zenon
      <4> QED BY ONLY IInv, <4>1 DEF IInv, ModeKnown, BlocksOnlyUnkept
    <3>2. CASE FillOrDrain \/ ReaderCloses
      BY <3>2 DEF IInv, ModeKnown, BlocksOnlyUnkept
    <3> QED BY <3>1, <3>2
  <2> QED BY <1>2, <2>1, <2>2, <2>3 DEF IInv
<1> QED BY <1>3, <1>4

LEMMA StepInv ==
  ASSUME IInv, [Next]_vars PROVE IInv'
<1>1. CASE Next
  BY <1>1, BeforeRecords, DuringRecords DEF Next, Process
<1>2. CASE UNCHANGED vars
  <2> USE <1>2 DEF vars, processVars, descriptorVars, pipeVars, emitterVars
  <2>1. input' \in Inputs /\ ProcessTypeOK' /\ ArgumentsKnown'
    BY DEF IInv, ProcessTypeOK, ArgumentsKnown, StandaloneOptions
  <2>2. DescriptorTypeOK'
    BY DEF IInv, DescriptorTypeOK
  <2>3. EmitterWhere' /\ ModeKnown'
    BY DEF IInv, EmitterWhere, ModeKnown, BlocksOnlyUnkept
  <2> QED BY <2>1, <2>2, <2>3 DEF IInv
<1> QED BY <1>1, <1>2

LEMMA InductiveInvariant ==
  Spec => []IInv
<1>1. Init => IInv
  BY InitInv
<1>2. IInv /\ [Next]_vars => IInv'
  BY StepInv
<1> QED BY <1>1, <1>2, PTL DEF Spec

\* Type correctness: an emitter exists only with a validated descriptor and an
\* accepted option, there is an exit status exactly at the end, and a write is
\* under way only for a record that is still to be sent.
THEOREM TypeCorrect ==
  Spec => []TypeOK
<1>1. IInv => TypeOK
  BY DEF IInv, TypeOK, ProcessTypeOK, EmitterWhere
<1> QED BY <1>1, InductiveInvariant, PTL

\* However other processes treat the pipe, a write waits for its reader only after
\* the mode was cleared behind the check of writeEvent.
THEOREM BlocksOnlyIfUnkept ==
  Spec => []BlocksOnlyUnkept
<1>1. IInv => BlocksOnlyUnkept
  BY DEF IInv, ModeKnown
<1> QED BY <1>1, InductiveInvariant, PTL

\* For any arguments in any zone, each local datetime that is accepted stands for
\* the earliest instant that shows it.
THEOREM EarliestInstantIsTaken ==
  Spec => []EarliestInstant
<1>1. ASSUME IInv PROVE EarliestInstant
  <2>1. IsCommandLine(input.args) /\ IsZone(input.zone)
    BY <1>1, InputsAssumption DEF IInv
  <2>2. \A m \in MembersGiven(input.args) : m.kind = "local" => m.value \in Int
    BY <2>1, MembersGivenType DEF IsMember
  <2> QED BY <2>1, <2>2, EarliestIsEarliest DEF EarliestInstant
<1> QED BY <1>1, InductiveInvariant, PTL

\* For any arguments in any zone that stays long enough at an offset, on either
\* platform: they get past the parser exactly if describe.go describes them and no
\* zero duration among them has a minus.
THEOREM AcceptsDescribed ==
  Spec => []AcceptsWhatIsDescribed
<1>1. ASSUME IInv PROVE AcceptsWhatIsDescribed
  <2>1. IsCommandLine(input.args) /\ IsZone(input.zone)
    BY <1>1, InputsAssumption DEF IInv
  <2>2. pc = "parsed" => result = Parse(input.args, input.zone, input.platform)
    BY <1>1 DEF IInv, ArgumentsKnown
  <2> QED BY <2>1, <2>2, ParseAcceptsDescribed DEF AcceptsWhatIsDescribed
<1> QED BY <1>1, InductiveInvariant, PTL

\* For any arguments: the plan that leaves the parser is the formula they spell,
\* with the shape that module Outage assumes.
THEOREM PlanIsFormula ==
  Spec => []PlanMeansArguments
<1>1. ASSUME IInv PROVE PlanMeansArguments
  <2>1. IsCommandLine(input.args)
    BY <1>1, InputsAssumption DEF IInv
  <2>2. pc = "parsed" => result = Parse(input.args, input.zone, input.platform)
    BY <1>1 DEF IInv, ArgumentsKnown
  <2> QED BY <2>1, <2>2, PlanMeansFormula DEF PlanMeansArguments
<1> QED BY <1>1, InductiveInvariant, PTL

\* For any arguments: help comes first, --describe and --version stand alone, and
\* what is not a command line ends with status 2 and no output.
THEOREM OptionsStandAlone ==
  Spec => []StandaloneOptions
<1>1. IInv => StandaloneOptions
  BY DEF IInv, ArgumentsKnown
<1> QED BY <1>1, InductiveInvariant, PTL

=============================================================================
