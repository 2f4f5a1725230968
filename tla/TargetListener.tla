--------------------------- MODULE TargetListener ---------------------------
(***************************************************************************)
(* The target listener task (hce-tasks/.../TargetListenerTask.cpp) on top   *)
(* of the PN7160 driver: loop() takes one command from commandQueue, then   *)
(* opens the device or processes its events.  Every driver call is made of  *)
(* the driver's own steps (module PN7160), so commands are queued, the      *)
(* controller answers and the reader moves in the middle of each of them.   *)
(***************************************************************************)
EXTENDS PN7160

CONSTANTS
  Codes,        \* the commands that are sent, a subset of AllCodes
  MaxCommands   \* bound: how many commands are sent

\* A Configure command carries JSON, or no data, or text that is not JSON.
AllCodes == {"Start", "Stop", "Configure", "ConfigureNoData", "ConfigureNotJson", "Unknown"}

ASSUME CodesAssumption == Codes \subseteq AllCodes
ASSUME MaxCommandsAssumption == MaxCommands \in Nat

VARIABLES
  commandQueue,    \* AbstractTask::commandQueue, oldest first
  listenerStatus,  \* Impl::listenerStatus, which is also the last status published
  task,            \* where loop() is
  asked            \* how many commands were sent

listenerVars == <<commandQueue, listenerStatus, task>>
systemVars   == <<vars, listenerVars, asked>>

TaskPcs == {"loop", "device", "start", "stop", "refresh", "process", "respond", "dead"}

ListenerInit ==
  /\ Init
  /\ commandQueue = <<>> /\ listenerStatus = "Absent" /\ task = "loop" /\ asked = 0

\* The observer of "target.listener.command" queues a command, on any thread.
Ask(c) ==
  /\ asked < MaxCommands
  /\ asked' = asked + 1
  /\ commandQueue' = Append(commandQueue, c)
  /\ UNCHANGED <<vars, listenerStatus, task>>

-----------------------------------------------------------------------------
(* loop(): process pending commands                                        *)

NoCommand ==
  /\ task = "loop" /\ commandQueue = <<>>
  /\ task' = "device"
  /\ UNCHANGED <<vars, commandQueue, listenerStatus, asked>>

Take(c) ==
  /\ task = "loop" /\ commandQueue # <<>> /\ Head(commandQueue) = c
  /\ commandQueue' = Tail(commandQueue)
  /\ UNCHANGED asked

\* The parameters of the target are never empty.
TakeStart ==
  /\ Take("Start")
  /\ BeginDiscovery("listen", "some")
  /\ task' = "start"
  /\ UNCHANGED listenerStatus

\* Faulty variants, used only to show that the properties can fail: a start whose
\* result is not looked at, and a stop that looks for the wrong driver status.
StartEndsUnchecked ==
  /\ task = "start" /\ call = "none"
  /\ listenerStatus' = "Listening"
  /\ task' = "device"
  /\ UNCHANGED <<vars, commandQueue, asked>>

TakeStopWrongStatus ==
  /\ Take("Stop")
  /\ IF status = "OPENED" THEN Begin("stop") ELSE UNCHANGED vars
  /\ task' = "stop"
  /\ UNCHANGED listenerStatus

\* A start that fails leaves the status, and publishes nothing.
StartEnds ==
  /\ task = "start" /\ call = "none"
  /\ listenerStatus' = IF ret = "true" THEN "Listening" ELSE listenerStatus
  /\ task' = "device"
  /\ UNCHANGED <<vars, commandQueue, asked>>

TakeStop ==
  /\ Take("Stop")
  /\ IF status # "CLOSED" THEN Begin("stop") ELSE UNCHANGED vars
  /\ task' = "stop"
  /\ UNCHANGED listenerStatus

\* The result of stopDiscovery is ignored.
StopEnds ==
  /\ task = "stop" /\ call = "none"
  /\ listenerStatus' = "Idle"
  /\ task' = "device"
  /\ UNCHANGED <<vars, commandQueue, asked>>

\* updateListenerStatus(0), and 0 is Absent; without data the command is rejected;
\* json::parse throws out of loop() and of Worker::run, and the task is gone
TakeConfigure ==
  /\ \/ Take("Configure") /\ listenerStatus' = "Absent" /\ task' = "device"
     \/ Take("ConfigureNoData") /\ task' = "device" /\ UNCHANGED listenerStatus
     \/ Take("ConfigureNotJson") /\ task' = "dead" /\ UNCHANGED listenerStatus
     \/ Take("Unknown") /\ UNCHANGED <<listenerStatus, task>>
  /\ UNCHANGED vars

-----------------------------------------------------------------------------
(* loop(): refresh() or process()                                          *)

\* faulty: the device is looked for whenever the task does not listen
RefreshByStatus ==
  /\ task = "device" /\ listenerStatus # "Listening"
  /\ OpenBegin \/ OpenFails
  /\ task' = "refresh"
  /\ UNCHANGED <<commandQueue, listenerStatus, asked>>

Refresh ==
  /\ task = "device" /\ status = "CLOSED"
  /\ OpenBegin \/ OpenFails
  /\ task' = "refresh"
  /\ UNCHANGED <<commandQueue, listenerStatus, asked>>

\* Absent is published on every failure, before a wait of a second.
RefreshEnds ==
  /\ task = "refresh" /\ call = "none"
  /\ listenerStatus' = IF ret = "true" THEN "Idle" ELSE "Absent"
  /\ task' = "loop"
  /\ UNCHANGED <<vars, commandQueue, asked>>

Process ==
  /\ task = "device" /\ status # "CLOSED"
  /\ IF listenerStatus = "Listening"
       THEN Begin("wait") /\ task' = "process"
       ELSE task' = "loop" /\ UNCHANGED vars
  /\ UNCHANGED <<commandQueue, listenerStatus, asked>>

\* faulty: the loop of process() is not left on a timeout
EventNoTimeout ==
  /\ task = "process" /\ call = "none"
  /\ IF ret = "DATA"
       THEN Begin("send") /\ task' = "respond"
       ELSE Begin("wait") /\ UNCHANGED task
  /\ UNCHANGED <<commandQueue, listenerStatus, asked>>

\* The loop of process() ends when waitEvent times out.  The card answers data;
\* everything else only goes to the frame stream.
Event ==
  /\ task = "process" /\ call = "none"
  /\ CASE ret = "TIMEOUT" -> task' = "loop" /\ UNCHANGED vars
       [] ret = "DATA"    -> Begin("send") /\ task' = "respond"
       [] OTHER           -> Begin("wait") /\ UNCHANGED task
  /\ UNCHANGED <<commandQueue, listenerStatus, asked>>

Responded ==
  /\ task = "respond" /\ call = "none"
  /\ Begin("wait") /\ task' = "process"
  /\ UNCHANGED <<commandQueue, listenerStatus, asked>>

TaskStep ==
  \/ NoCommand \/ TakeStart \/ StartEnds \/ TakeStop \/ StopEnds \/ TakeConfigure
  \/ Refresh \/ RefreshEnds \/ Process \/ Event \/ Responded

ListenerStep == TaskStep \/ (DriverStep /\ UNCHANGED <<listenerVars, asked>>)
ControllerMoves == ChipStep /\ UNCHANGED <<listenerVars, asked>>
ReaderMoves == ReaderStep /\ UNCHANGED <<listenerVars, asked>>

ListenerNext ==
  \/ \E c \in Codes : Ask(c)
  \/ ListenerStep \/ ControllerMoves \/ ReaderMoves

ListenerSpec == ListenerInit /\ [][ListenerNext]_systemVars

(* The pool thread of the task keeps running and the controller works; the *)
(* reader owes nobody anything.                                            *)
ListenerFairSpec ==
  ListenerSpec /\ WF_systemVars(ListenerStep) /\ WF_systemVars(ControllerMoves)

-----------------------------------------------------------------------------
(* What the task promises, without the driver                              *)

DoingOf(t) ==
  IF t \in {"start", "stop", "dead"} THEN t
  ELSE IF t = "refresh" THEN "opening"
  ELSE "ready"

Promise == INSTANCE Listener WITH
  doing  <- DoingOf(task),
  opened <- status # "CLOSED"

\* Behind its status and its queue the task is the abstract listener: commands
\* are taken in order and one at a time, a Start listens or changes nothing, a
\* Stop ends in Idle, and a device once opened is not looked for again, whatever
\* the driver, the controller and the reader do (loop, refresh, process).
ImplementsListener == Promise!Spec

-----------------------------------------------------------------------------
(* Properties                                                              *)

ListenerTypeOK ==
  /\ TypeOK
  /\ commandQueue \in Seq(Codes) /\ asked \in 0..MaxCommands
  /\ listenerStatus \in {"Absent", "Idle", "Listening"} /\ task \in TaskPcs

\* The commands that turn the radio off.
Silencing == {"RESET", "DEACTIVATE"}

\* With the commands c outstanding and the radio in state r, the radio is on once
\* the controller has done them all, if it rejects none.
WillListen(c, r) ==
  \/ \E i \in 1..Len(c) : c[i] = "DISCOVER" /\ \A k \in i..Len(c) : c[k] \notin Silencing
  \/ r # "idle" /\ \A k \in 1..Len(c) : c[k] \notin Silencing

RadioOn == WillListen(cmds, rf)

\* While the listener says Listening the radio is on, or will be as soon as the
\* controller gets to it, although any response the driver believed in may have
\* been a stale message (startListening, stopListening and the driver's resets).
ListeningMeansDiscovering == listenerStatus = "Listening" /\ task # "stop" => RadioOn

\* A Stop turns the radio off, or has told the controller to, before Idle is
\* published: also when the answer never comes or belongs to another command.
StopTurnsOff ==
  [][listenerStatus = "Listening" /\ listenerStatus' = "Idle" => ~RadioOn']_systemVars

\* "stop discovery" in stopListening, whose result it publishes as Idle: a
\* listener that says Idle has its radio off.  A Start that takes an old error
\* for the response of its DISCOVER leaves it on, with no fault anywhere.
IdleMeansQuiet == listenerStatus = "Idle" /\ task # "start" => ~RadioOn

\* Once the reader leaves the card alone, every command that was queued is taken
\* by loop(), since the loop of process() comes to a timeout: unless the task died
\* of a Configure whose text json::parse does not take.
QuietReaderServes ==
  <>[][~ReaderMoves]_systemVars => <>[](commandQueue = <<>> \/ task = "dead")
=============================================================================
