--------------------------- MODULE EventDescriptor ---------------------------
(***************************************************************************)
(* The descriptor given with --events-fd and the emitter that owns a       *)
(* duplicate of it: events_fd_unix.go, events_fd_windows.go and the        *)
(* writing of events.go in cmd/outage.                                     *)
(*                                                                         *)
(* The mode, O_NONBLOCK or PIPE_NOWAIT, belongs to the open pipe, which    *)
(* other processes hold as well: they may change it, fill the pipe or      *)
(* drain it at any time, between the check of the mode and the write too.  *)
(***************************************************************************)
EXTENDS Naturals

VARIABLES
  descriptor,  \* [stream, writable]: what it was opened as
  noWait,      \* the mode is set
  room,        \* how much of a record fits: "none", "part" or "all"
  reader,      \* the other end is open
  emitter,     \* "none", "idle", "write", "blocked", "disabled"
  unsent,      \* records still to be emitted
  kept,        \* history: the mode has been kept since it was validated
  keptCheck    \* history: the mode has been kept since the last check

pipeVars == <<descriptor, noWait, room, reader>>
emitterVars == <<emitter, unsent, kept, keptCheck>>
descriptorVars == <<pipeVars, emitterVars>>

Rooms == {"none", "part", "all"}

DescriptorTypeOK ==
  /\ descriptor \in [stream : BOOLEAN, writable : BOOLEAN]
  /\ noWait \in BOOLEAN /\ room \in Rooms /\ reader \in BOOLEAN
  /\ emitter \in {"none", "idle", "write", "blocked", "disabled"}
  /\ unsent \in 0..2
  /\ kept \in BOOLEAN /\ keptCheck \in BOOLEAN

EmitterInit == emitter = "none" /\ unsent = 0 /\ kept = TRUE /\ keptCheck = TRUE

\* validateEventDescriptor.
Validated == descriptor.stream /\ descriptor.writable /\ noWait

\* duplicateEventFile succeeds.
Duplicate ==
  /\ emitter' = "idle"
  /\ UNCHANGED <<pipeVars, unsent, kept, keptCheck>>

\* emitCutoffEvents begins.
BeginRecords ==
  /\ unsent' = 2
  /\ UNCHANGED <<pipeVars, emitter, kept, keptCheck>>

\* Bug: the mode is checked for the first record only.
CheckModeOnce ==
  /\ emitter = "idle" /\ unsent > 0
  /\ emitter' = IF noWait \/ unsent = 1 THEN "write" ELSE "disabled"
  /\ keptCheck' = TRUE
  /\ UNCHANGED <<pipeVars, unsent, kept>>

\* writeEvent looks at the mode again.
CheckMode ==
  /\ emitter = "idle" /\ unsent > 0
  /\ emitter' = IF noWait THEN "write" ELSE "disabled"
  /\ keptCheck' = TRUE
  /\ UNCHANGED <<pipeVars, unsent, kept>>

\* The system call writes the whole record, and the pipe may be fuller.
Written ==
  /\ room = "all" /\ reader
  /\ room' \in Rooms
  /\ emitter' = "idle"
  /\ unsent' = unsent - 1
  /\ UNCHANGED <<descriptor, noWait, reader, kept, keptCheck>>

\* It fails, or writes a part: emitRecord disables the emitter.
Failed ==
  /\ emitter' = "disabled"
  /\ UNCHANGED <<pipeVars, unsent, kept, keptCheck>>

\* Bug: a full pipe is tried again.
WriteRetrying ==
  /\ emitter = "write"
  /\ \/ Written
     \/ (~reader \/ (noWait /\ room = "part")) /\ Failed
     \/ /\ reader /\ ~noWait /\ room # "all"
        /\ emitter' = "blocked"
        /\ UNCHANGED <<pipeVars, unsent, kept, keptCheck>>

\* The write: without the mode it waits for room.
Write ==
  /\ emitter = "write"
  /\ \/ Written
     \/ (~reader \/ (noWait /\ room # "all")) /\ Failed
     \/ /\ reader /\ ~noWait /\ room # "all"
        /\ emitter' = "blocked"
        /\ UNCHANGED <<pipeVars, unsent, kept, keptCheck>>

\* The blocked write goes on when there is room or nobody to read.
Unblock == emitter = "blocked" /\ (Written \/ (~reader /\ Failed))

RecordsDone == unsent = 0 \/ emitter = "disabled"

Emitter == CheckMode \/ Write \/ Unblock

-----------------------------------------------------------------------------
(***************************************************************************)
(* Other processes.                                                        *)
(***************************************************************************)

SwitchMode ==
  /\ noWait' = ~noWait
  /\ kept' = (kept /\ noWait')
  /\ keptCheck' = (keptCheck /\ noWait')
  /\ UNCHANGED <<descriptor, room, reader, emitter, unsent>>

FillOrDrain ==
  /\ room' \in Rooms \ {room}
  /\ UNCHANGED <<descriptor, noWait, reader, emitterVars>>

ReaderCloses ==
  /\ reader /\ reader' = FALSE
  /\ UNCHANGED <<descriptor, noWait, room, emitterVars>>

Others == SwitchMode \/ FillOrDrain \/ ReaderCloses

=============================================================================
