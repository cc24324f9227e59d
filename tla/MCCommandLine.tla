--------------------------- MODULE MCCommandLine ---------------------------
(***************************************************************************)
(* CommandLine for TLC: short command lines of all kinds of arguments, all *)
(* descriptors for one of them, and a local datetime in small zones.       *)
(***************************************************************************)
EXTENDS CommandLine

MinusTwo == -2

Option(kind)      == [kind |-> kind, value |-> <<>>]
EventsFD(number)  == [kind |-> "fd=", value |-> number]
Plain(members)    == [kind |-> "plain", value |-> members]
Or(members)       == [kind |-> "or=", value |-> members]
Member(kind, value) == [kind |-> kind, value |-> value]
Lasting(count, unit) == Member("duration", [minus |-> FALSE, count |-> count, unit |-> unit])
Minus(count, unit)   == Member("duration", [minus |-> TRUE, count |-> count, unit |-> unit])

usr1  == Member("signal", "USR1")
alias == Member("signal", "SIGUSR1")
stop  == Member("file", "/tmp/stop")

\* --events-fd and what may be next to it; --or and what may be next to it.
Core == {Option("fd"), Option("or"), Plain(<<Member("number", 3)>>), Plain(<<usr1>>),
         Or(<<stop, alias>>)}
Common == Core \cup
  {Option("help"), Option("version"), EventsFD(3), Plain(<<alias, stop>>),
   Plain(<<Lasting(1, "s"), Lasting(1000, "ms"), usr1>>)}
All == Common \cup
  {Option("describe"), Option("dash"), EventsFD(2), EventsFD(0), Or(<<>>),
   Plain(<<Member("number", 2)>>), Plain(<<Member("other", "")>>),
   Plain(<<Member("file", ""), usr1>>), Plain(<<usr1, Minus(1, "s")>>),
   Plain(<<Lasting(0, "s"), Lasting(0, "ms")>>), Plain(<<usr1, Minus(0, "s")>>),
   Plain(<<Member("local", 1), Member("rfc3339", 0), Member("local", 0)>>)}

\* Offsets 0, 2, 1: the local time 1 is skipped at instant 0 and does not exist.
Summer == [at |-> <<0, 4>>, offset |-> <<0, 2, 1>>]
\* The local time 1 occurs at the instants -1 and 0.
Autumn == [at |-> <<0>>, offset |-> <<2, 1>>]

Open(stream, writable) == [stream |-> stream, writable |-> writable]
Invocations(lists, zones, platforms, descriptors, modes) ==
  [args : lists, zone : zones, platform : platforms,
   descriptor : descriptors, noWait : modes]

ListsOf(n, arguments) == UNION {[1..i -> arguments] : i \in 0..n}

LocalTimes ==
  Invocations({<<Plain(<<Member("local", wall)>>)>> : wall \in 0..5},
              UNION {ZonesWith(n, 0..5, {-1, 0, 2}) : n \in 0..3},
              {"windows"}, {Open(FALSE, FALSE)}, {FALSE})

Descriptors ==
  Invocations({<<EventsFD(3), Plain(<<stop>>)>>}, {Autumn}, {"unix"},
              [stream : BOOLEAN, writable : BOOLEAN], BOOLEAN)

ShortLines ==
  Invocations(ListsOf(2, All), {Summer, Autumn}, {"unix", "windows"},
              {Open(TRUE, TRUE)}, {TRUE})

LongLines ==
  Invocations(ListsOf(3, All) \cup ListsOf(4, Common) \cup ListsOf(5, Core), {Autumn},
              {"unix"}, {Open(TRUE, TRUE)}, {TRUE})

AllInputs == LocalTimes \cup Descriptors \cup ShortLines \cup LongLines

=============================================================================
