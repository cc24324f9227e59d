------------------------------ MODULE MCOutage ------------------------------
(***************************************************************************)
(* Outage for TLC: plans given on the command line.                        *)
(***************************************************************************)
EXTENDS Outage

\* outage 'signal:USR1 && file:/tmp/stop' --or duration:30s
MixedKinds  == <<"signal", "file", "time">>
MixedGroups == <<{1, 2}, {3}>>

\* outage file:/tmp/stop
FileKinds  == <<"file">>
FileGroups == <<{1}>>

\* outage 'file:/tmp/stop && duration:1ms'
FileAndTimeKinds  == <<"file", "time">>
FileAndTimeGroups == <<{1, 2}>>

=============================================================================
