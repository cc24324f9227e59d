----------------------------- MODULE MCMonitors -----------------------------
(***************************************************************************)
(* Monitors for TLC: a deadline three capped timers away.                  *)
(***************************************************************************)
EXTENDS Monitors

AllKinds == {"file", "signal", "nosignal", "duration", "datetime"}

=============================================================================
