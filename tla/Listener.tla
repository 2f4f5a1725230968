------------------------------ MODULE Listener ------------------------------
(***************************************************************************)
(* What the target listener task promises to those who send it commands    *)
(* and watch its status, without the driver: commands are taken in order,  *)
(* one at a time, and each does one thing to the published status.         *)
(* TargetListener implements it; ListenerUi is built on it.                *)
(***************************************************************************)
EXTENDS Sequences

CONSTANT Codes   \* the commands that are sent

VARIABLES
  commandQueue,    \* commands not yet taken, oldest first
  listenerStatus,  \* the last status published
  doing,           \* "ready", or what the task is in the middle of
  opened           \* the device was opened, which nothing undoes

vars == <<commandQueue, listenerStatus, doing, opened>>

Init ==
  /\ commandQueue = <<>> /\ listenerStatus = "Absent"
  /\ doing = "ready" /\ opened = FALSE

Queue(c) ==
  /\ commandQueue' = Append(commandQueue, c)
  /\ UNCHANGED <<listenerStatus, doing, opened>>

Take(c) ==
  /\ doing = "ready" /\ commandQueue # <<>> /\ Head(commandQueue) = c
  /\ commandQueue' = Tail(commandQueue)
  /\ UNCHANGED opened

TakeStart == Take("Start") /\ doing' = "start" /\ UNCHANGED listenerStatus
TakeStop  == Take("Stop") /\ doing' = "stop" /\ UNCHANGED listenerStatus

TakeOther ==
  \/ Take("Configure") /\ listenerStatus' = "Absent" /\ UNCHANGED doing
  \/ Take("ConfigureNoData") /\ UNCHANGED <<listenerStatus, doing>>
  \/ Take("ConfigureNotJson") /\ doing' = "dead" /\ UNCHANGED listenerStatus
  \/ Take("Unknown") /\ UNCHANGED <<listenerStatus, doing>>

\* A Start listens, on an opened device, or leaves things as they were.
StartSucceeds ==
  /\ doing = "start" /\ opened
  /\ listenerStatus' = "Listening" /\ doing' = "ready"
  /\ UNCHANGED <<commandQueue, opened>>

StartFails ==
  /\ doing = "start"
  /\ doing' = "ready"
  /\ UNCHANGED <<commandQueue, listenerStatus, opened>>

StopEnds ==
  /\ doing = "stop"
  /\ listenerStatus' = "Idle" /\ doing' = "ready"
  /\ UNCHANGED <<commandQueue, opened>>

\* Between commands a task without a device looks for it.
OpenBegins ==
  /\ doing = "ready" /\ ~opened
  /\ doing' = "opening"
  /\ UNCHANGED <<commandQueue, listenerStatus, opened>>

\* A Start may also find the device, on a bus that a failed opening left open.
DeviceOpens ==
  /\ doing \in {"opening", "start"} /\ ~opened
  /\ opened' = TRUE
  /\ UNCHANGED <<commandQueue, listenerStatus, doing>>

OpenEnds ==
  /\ doing = "opening"
  /\ listenerStatus' = IF opened THEN "Idle" ELSE "Absent"
  /\ doing' = "ready"
  /\ UNCHANGED <<commandQueue, opened>>

Next ==
  \/ \E c \in Codes : Queue(c)
  \/ TakeStart \/ TakeStop \/ TakeOther
  \/ StartSucceeds \/ StartFails \/ StopEnds
  \/ OpenBegins \/ DeviceOpens \/ OpenEnds

Spec == Init /\ [][Next]_vars
=============================================================================
