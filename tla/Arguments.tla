------------------------------ MODULE Arguments ------------------------------
(***************************************************************************)
(* Command lines, and what internal/cli/cli.go makes of them: a Plan or an *)
(* error.  A loop over a slice is the function of its state after so many  *)
(* turns, with an operator for one turn.                                   *)
(*                                                                         *)
(* An argument is a record [kind, value], by the prefixes the code looks   *)
(* at: "help" is --help or -h, "fd" --events-fd, "fd=" --events-fd=value,  *)
(* "or=" --or=value, "dash" any other that begins with one dash, "plain"   *)
(* one that does not.  The value of a condition is the sequence of members *)
(* that strings.Split cuts it into, never empty; <<>> is that of --or=     *)
(* alone and of options that take none.  That of --events-fd= is a number, *)
(* 0 for what strconv.Atoi refuses.                                        *)
(*                                                                         *)
(* A member is a record [kind, value]: a "signal" with its spelling, a     *)
(* "file" with its path, a "duration" as a minus or none in front of a     *)
(* count and a unit, a "local" or "rfc3339" datetime with its wall time or *)
(* instant, a "number" (which is no condition), or "other".                *)
(***************************************************************************)
EXTENDS LocalTime, SequencesExt

IsMember(member) ==
  /\ member.kind = "signal" => member.value \in {"USR1", "SIGUSR1", "USR2", "SIGUSR2"}
  /\ member.kind \in {"local", "number"} => member.value \in Int
  /\ member.kind = "duration" =>
       member.value \in [minus : BOOLEAN, count : Nat, unit : {"ms", "s"}]

IsArgument(arg) ==
  IF arg.kind = "fd=" THEN arg.value \in Int
  ELSE /\ arg.value \in Seq(ToSet(arg.value))
       /\ \A m \in ToSet(arg.value) : IsMember(m)
       /\ arg.kind = "plain" => arg.value # <<>>

IsCommandLine(args) == args \in Seq(ToSet(args)) /\ \A arg \in ToSet(args) : IsArgument(arg)

HelpRequested(args)     == \E i \in DOMAIN args : args[i].kind = "help"
describeRequested(args) == \E i \in DOMAIN args : args[i].kind = "describe"
VersionRequested(args)  == Len(args) = 1 /\ args[1].kind = "version"

-----------------------------------------------------------------------------
(***************************************************************************)
(* parseEventsFDOptions.                                                   *)
(***************************************************************************)

\* strings.HasPrefix(arg, "--"), of arguments without help.
DoubleDash == {"describe", "version", "fd", "fd=", "or", "or="}

\* strconv.Atoi of a whole argument.
Number(arg) ==
  IF arg.kind = "plain" /\ Len(arg.value) = 1 /\ arg.value[1].kind = "number"
  THEN arg.value[1].value ELSE 0

\* parseEventsFD and the assignments that follow it.
SetEventsFD(s, number) ==
  IF number < 3 THEN [s EXCEPT !.failed = TRUE]
  ELSE [s EXCEPT !.fd = number, !.fdSet = TRUE, !.awaiting = FALSE]

EventsFDTurn(s, arg) ==
  IF s.failed THEN s
  ELSE IF s.awaiting
  THEN IF arg.kind \in DoubleDash THEN [s EXCEPT !.failed = TRUE]
       ELSE SetEventsFD(s, Number(arg))
  ELSE IF arg.kind \notin {"fd", "fd="} THEN [s EXCEPT !.rest = Append(@, arg)]
  ELSE IF s.fdSet THEN [s EXCEPT !.failed = TRUE]
  ELSE IF arg.kind = "fd" THEN [s EXCEPT !.awaiting = TRUE]
  ELSE SetEventsFD(s, arg.value)

NoEventsFD == [rest |-> <<>>, fd |-> 0, fdSet |-> FALSE, awaiting |-> FALSE, failed |-> FALSE]

EventsFDAfter(args) ==
  LET after[n \in 0..Len(args)] ==
        IF n = 0 THEN NoEventsFD ELSE EventsFDTurn(after[n - 1], args[n])
  IN  after

parseEventsFDOptions(args) == EventsFDAfter(args)[Len(args)]

-----------------------------------------------------------------------------
(***************************************************************************)
(* parseConditionArguments.                                                *)
(***************************************************************************)

\* Whether an argument may stand where it does.
WellPlaced(s, arg) ==
  CASE arg.kind = "or"    -> s.hasCondition /\ ~s.pendingOR
    [] arg.kind = "or="   -> s.hasCondition /\ ~s.pendingOR /\ arg.value # <<>>
    [] arg.kind = "plain" -> s.hasCondition => s.pendingOR
    [] OTHER              -> FALSE

ConditionTurn(s, arg) ==
  IF s.failed \/ ~WellPlaced(s, arg) THEN [s EXCEPT !.failed = TRUE]
  ELSE [values |-> IF arg.kind = "or" THEN s.values ELSE Append(s.values, arg.value),
        hasCondition |-> TRUE, pendingOR |-> arg.kind = "or", failed |-> FALSE]

NoCondition == [values |-> <<>>, hasCondition |-> FALSE, pendingOR |-> FALSE, failed |-> FALSE]

ConditionsAfter(args) ==
  LET after[n \in 0..Len(args)] ==
        IF n = 0 THEN NoCondition ELSE ConditionTurn(after[n - 1], args[n])
  IN  after

parseConditionArguments(args) ==
  IF args = <<>> THEN [NoCondition EXCEPT !.failed = TRUE] ELSE ConditionsAfter(args)[Len(args)]

-----------------------------------------------------------------------------
(***************************************************************************)
(* Members.                                                                *)
(***************************************************************************)

canonicalSignalName(value) ==
  CASE value \in {"USR1", "SIGUSR1"} -> "USR1"
    [] value \in {"USR2", "SIGUSR2"} -> "USR2"

Milliseconds == [ms |-> 1, s |-> 1000]

\* time.ParseDuration.
ParseDuration(value) ==
  LET magnitude == value.count * Milliseconds[value.unit]
  IN  IF value.minus THEN -magnitude ELSE magnitude

\* Bug: parseDurationEvent looks at the sign of what it has parsed.
ValidSyntaxOfParsed(member, zone) ==
  CASE member.kind = "duration" -> ParseDuration(member.value) >= 0
    [] member.kind = "local"    -> IsLocalTime(zone, member.value)
    [] member.kind = "file"     -> member.value # ""
    [] OTHER                    -> member.kind \in {"signal", "rfc3339"}

\* validateConditionSyntaxAt, with parseDurationEvent, which refuses a minus before
\* it parses.  What time.ParseDuration or the layout of a datetime refuses is "other".
ValidSyntax(member, zone) ==
  CASE member.kind = "duration" -> ~member.value.minus
    [] member.kind = "local"    -> IsLocalTime(zone, member.value)
    [] member.kind = "file"     -> member.value # ""
    [] OTHER                    -> member.kind \in {"signal", "rfc3339"}

\* validateConditionCapabilityAt, signalSupported.
Supported(member, platform) == member.kind = "signal" => platform # "windows"

\* Bug: a signal is known by its spelling.
IdentityAsSpelled(member, zone) ==
  CASE member.kind = "duration" -> <<"duration", ParseDuration(member.value)>>
    [] member.kind = "local"    -> <<"datetime", EarliestLocalInstant(zone, member.value)>>
    [] member.kind = "rfc3339"  -> <<"datetime", member.value>>
    [] OTHER                    -> <<member.kind, member.value>>

\* conditionIdentity of parseConditionSpec.
Identity(member, zone) ==
  CASE member.kind = "duration" -> <<"duration", ParseDuration(member.value)>>
    [] member.kind = "local"    -> <<"datetime", EarliestLocalInstant(zone, member.value)>>
    [] member.kind = "rfc3339"  -> <<"datetime", member.value>>
    [] member.kind = "file"     -> <<"file", member.value>>
    [] member.kind = "signal"   -> <<"signal", canonicalSignalName(member.value)>>

-----------------------------------------------------------------------------
(***************************************************************************)
(* canonicalPlan and Parse.                                                *)
(***************************************************************************)

\* One member of a group: skipped if the group has it, known if another does.
MemberTurn(s, identity) ==
  IF \E i \in ToSet(s.group) : s.conditions[i] = identity THEN s
  ELSE LET conditions == IF identity \in ToSet(s.conditions) THEN s.conditions
                         ELSE Append(s.conditions, identity)
           index == CHOOSE i \in DOMAIN conditions : conditions[i] = identity
       IN  [conditions |-> conditions, group |-> Append(s.group, index)]

MembersAfter(conditions, identities) ==
  LET after[n \in 0..Len(identities)] ==
        IF n = 0 THEN [conditions |-> conditions, group |-> <<>>]
        ELSE MemberTurn(after[n - 1], identities[n])
  IN  after

\* One group, given as the identities of its members.
GroupTurn(plan, identities) ==
  LET s == MembersAfter(plan.conditions, identities)[Len(identities)]
  IN  [conditions |-> s.conditions, groups |-> Append(plan.groups, s.group)]

GroupsAfter(groups) ==
  LET after[n \in 0..Len(groups)] ==
        IF n = 0 THEN [conditions |-> <<>>, groups |-> <<>>]
        ELSE GroupTurn(after[n - 1], groups[n])
  IN  after

IdentitiesOf(members, zone) == [i \in DOMAIN members |-> Identity(members[i], zone)]

canonicalPlan(values, zone) ==
  GroupsAfter([g \in DOMAIN values |-> IdentitiesOf(values[g], zone)])[Len(values)]

MembersOf(values) == UNION {ToSet(values[g]) : g \in DOMAIN values}

Refused(error) == [error |-> error, conditions |-> <<>>, groups |-> <<>>, fdSet |-> FALSE]

\* parseWithSignalSupport: the Plan, or the first error, by what reports it.
Parse(args, zone, platform) ==
  LET options == parseEventsFDOptions(args)
      scan    == parseConditionArguments(options.rest)
      members == MembersOf(scan.values)
      plan    == canonicalPlan(scan.values, zone)
  IN  IF options.failed \/ options.awaiting THEN Refused("options")
      ELSE IF scan.failed \/ scan.pendingOR THEN Refused("grammar")
      ELSE IF \E m \in members : ~ValidSyntax(m, zone) THEN Refused("syntax")
      ELSE IF \E m \in members : ~Supported(m, platform) THEN Refused("capability")
      ELSE [error |-> "none", conditions |-> plan.conditions, groups |-> plan.groups,
            fdSet |-> options.fdSet]

=============================================================================
