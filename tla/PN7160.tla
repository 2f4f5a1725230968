------------------------------- MODULE PN7160 -------------------------------
(***************************************************************************)
(* The PN7160 driver (hw-dev/src/main/cpp/hw/ic/PN7160.cpp) and the NFC    *)
(* controller behind the MPSSE bus.  The driver is single threaded: one    *)
(* API call at a time, made of NCI commands, each one sent and answered    *)
(* over the bus.  The controller is another actor: it answers when it      *)
(* likes and queues notifications for whatever the reader in the field     *)
(* does, and the driver takes the next message off that queue whoever it   *)
(* is for.  A message keeps its kind and whether its fourth byte, which    *)
(* nciControl reads as the status, is NCI_STATUS_OK.                       *)
(***************************************************************************)
EXTENDS Integers, Sequences

CONSTANTS
  Faults,    \* what may go wrong: a subset of FaultKinds
  MaxQueue   \* bound: commands and messages outstanding when more are caused

FaultKinds == {"late",    \* the controller answers after the driver's timeout
               "reject",  \* the controller answers a command with an error status
               "bus",     \* a bus transfer fails, before or after it took effect
               "gpio"}    \* the VEN reset pulse has no effect (setGpio is unchecked)

ASSUME FaultsAssumption == Faults \subseteq FaultKinds
ASSUME MaxQueueAssumption == MaxQueue \in Nat \ {0}

VARIABLES
  status,   \* Impl::status
  busOpen,  \* the MPSSE bus is open
  call,     \* the API call in progress, or "none"
  step,     \* the step of its script it is at
  sent,     \* the command of that step was sent, its response is awaited
  ret,      \* what the last call returned
  cmds,     \* what the controller still has to do: commands, notifications owed
  inbox,    \* messages of the controller the driver has not yet read
  rf,       \* RF state of the controller
  readerWaits  \* the reader in the field waits for an answer of the card

driverVars == <<status, busOpen, call, step, sent, ret>>
chipVars   == <<cmds, inbox, rf, readerWaits>>
vars == <<driverVars, chipVars>>

-----------------------------------------------------------------------------
(* Messages and scripts                                                    *)

Commands == {"RESET", "INIT", "CONF_CORE", "CONF_CORE_EXT", "CONF_TVDD", "CONF_RF",
             "POWER_MODE", "SET_CONFIG", "DISCOVER_MAP", "LISTEN_ROUTING", "DISCOVER",
             "DEACTIVATE"}

Notifications == {"RESET_NTF", "CREDITS", "ACTIVATED", "DEACTIVATED"}

Response(c, ok)     == [type |-> "rsp", of |-> c, ok |-> ok]
Notification(n, ok) == [type |-> "ntf", of |-> n, ok |-> ok]
DataMessage(ok)     == [type |-> "data", of |-> "DATA", ok |-> ok]

Tasks == Commands \cup Notifications \cup {"DATA"}

Messages == [type : {"rsp", "ntf", "data"}, of : Tasks, ok : BOOLEAN]

\* What is read off a bus on which nobody sends.
Noise == [type |-> "noise", of |-> "NOISE", ok |-> FALSE]

\* The NCI steps of each call; "RESET_NTF" only reads, every other step sends a
\* command and reads one message as its response.
Scripts ==
  [open   |-> <<"RESET", "RESET_NTF", "INIT", "CONF_CORE", "CONF_CORE_EXT", "CONF_TVDD",
                "CONF_RF", "RESET", "RESET_NTF", "INIT", "POWER_MODE">>,
   reset  |-> <<"RESET", "RESET_NTF", "INIT">>,
   listen |-> <<"SET_CONFIG", "DISCOVER_MAP", "LISTEN_ROUTING", "DISCOVER">>,
   poll   |-> <<"SET_CONFIG", "DISCOVER_MAP", "DISCOVER">>,
   stop   |-> <<"DEACTIVATE">>]

ControlCalls == {"open", "reset", "listen", "poll", "stop"}
WaitCalls    == {"wait", "recv", "recvForever"}
Calls        == ControlCalls \cup WaitCalls \cup {"send"}

InControl == call \in ControlCalls
Step      == Scripts[call][step]
ReadsOnly == Step = "RESET_NTF"

\* open() gives the bus back when it fails, except in its nciSetConfig steps.
ConfigSteps == {"CONF_CORE", "CONF_CORE_EXT", "CONF_TVDD", "CONF_RF"}

Events == {"TIMEOUT", "UNKNOWN", "ACTIVATED", "DEACTIVATED", "CREDITS", "DATA"}
Results == Events \cup {"none", "true", "false"}

\* waitEvent: the event a message stands for (field notifications are disabled
\* by the parameters of the only client, and left out)
EventOf(m) ==
  IF m.type = "data" THEN "DATA"
  ELSE IF m.type = "ntf" /\ m.of \in {"ACTIVATED", "DEACTIVATED", "CREDITS"} THEN m.of
  ELSE "UNKNOWN"

Init ==
  /\ status = "CLOSED" /\ busOpen = FALSE
  /\ call = "none" /\ step = 1 /\ sent = FALSE /\ ret = "none"
  /\ cmds = <<>> /\ inbox = <<>> /\ rf = "idle" /\ readerWaits = FALSE

Outstanding == Len(cmds) + Len(inbox)

-----------------------------------------------------------------------------
(* The API: how each call begins.  These leave the controller to the       *)
(* caller's step, so that a client module can use them.                    *)

Enter(c) == call' = c /\ step' = 1 /\ sent' = FALSE /\ ret' = "none"

Return(v) == call' = "none" /\ step' = 1 /\ sent' = FALSE /\ ret' = v

\* Faulty variants, used only to show that the properties can fail, stand before
\* the action they replace: here an open() without the VEN pulse and a close()
\* that forgets the status.
OpenBeginNoPulse ==
  /\ call = "none"
  /\ status' = "CLOSED"
  /\ busOpen' = TRUE
  /\ Enter("open")
  /\ UNCHANGED chipVars

CloseKeepsStatus ==
  /\ call = "none"
  /\ busOpen' = FALSE
  /\ Return("none")
  /\ UNCHANGED <<status, chipVars>>

\* open(): close(), mpsse.open(), and the VEN pulse that resets the controller;
\* a pulse is lost only while less than MaxQueue is outstanding (a bound)
OpenBegin ==
  /\ call = "none"
  /\ status' = "CLOSED"
  /\ busOpen' = TRUE
  /\ Enter("open")
  /\ \/ cmds' = <<>> /\ inbox' = <<>> /\ rf' = "idle" /\ readerWaits' = FALSE
     \/ "gpio" \in Faults /\ Outstanding < MaxQueue /\ UNCHANGED chipVars

\* no device, or mpsse.open() fails
OpenFails ==
  /\ call = "none"
  /\ status' = "CLOSED" /\ busOpen' = FALSE
  /\ Return("false")
  /\ UNCHANGED chipVars

Close ==
  /\ call = "none"
  /\ status' = "CLOSED" /\ busOpen' = FALSE
  /\ Return("none")
  /\ UNCHANGED chipVars

\* coreReset(), stopDiscovery(), waitEvent(), recvData(), sendData()
Begin(c) ==
  /\ call = "none"
  /\ Enter(c)
  /\ UNCHANGED <<status, busOpen, chipVars>>

\* startDiscovery(parameters, mode): without parameters nothing is configured,
\* an empty parameter value fails before anything is sent
BeginDiscovery(c, parameters) ==
  /\ call = "none"
  /\ \/ parameters = "some" /\ Enter(c)
     \/ parameters = "none" /\ call' = c /\ step' = 2 /\ sent' = FALSE /\ ret' = "none"
     \/ parameters = "invalid" /\ Return("false")
  /\ UNCHANGED <<status, busOpen, chipVars>>

-----------------------------------------------------------------------------
(* nciControl, nciSend and nciRecv inside a call                           *)

\* A step of a control call failed: the call returns false.
Fail ==
  /\ Return("false")
  /\ busOpen' = (busOpen /\ (call # "open" \/ Step \in ConfigSteps))
  /\ UNCHANGED status

\* The status a successful call leaves; the others do not touch it.
StatusAfter == [open |-> "OPENED", listen |-> "LISTENING", poll |-> "POLLING"]

\* faulty: the last step is not recognised
AdvanceOffByOne ==
  IF step <= Len(Scripts[call])
    THEN step' = step + 1 /\ sent' = FALSE /\ UNCHANGED <<status, busOpen, call, ret>>
    ELSE Return("true") /\ UNCHANGED <<status, busOpen>>

\* A step succeeded: the next one, or the end of the call.
Advance ==
  IF step < Len(Scripts[call])
    THEN step' = step + 1 /\ sent' = FALSE /\ UNCHANGED <<status, busOpen, call, ret>>
    ELSE /\ Return("true")
         /\ status' = IF call \in DOMAIN StatusAfter THEN StatusAfter[call] ELSE status
         /\ UNCHANGED busOpen

\* nciSend of the step's command
ControlSend ==
  /\ InControl /\ ~sent /\ ~ReadsOnly /\ busOpen
  /\ cmds' = Append(cmds, Step)
  /\ sent' = TRUE
  /\ UNCHANGED <<status, busOpen, call, step, ret, inbox, rf, readerWaits>>

\* faulty: the result of nciSend is ignored
ControlSendUnchecked ==
  /\ InControl /\ ~sent /\ ~ReadsOnly /\ "bus" \in Faults
  /\ sent' = TRUE
  /\ UNCHANGED <<status, busOpen, call, step, ret, chipVars>>

\* nciSend fails: the bus is closed, or a transfer fails, perhaps after the
\* controller got the command
ControlSendFails ==
  /\ InControl /\ ~sent /\ ~ReadsOnly
  /\ \/ ~busOpen /\ UNCHANGED cmds
     \/ busOpen /\ "bus" \in Faults /\ cmds' \in {cmds, Append(cmds, Step)}
  /\ Fail
  /\ UNCHANGED <<inbox, rf, readerWaits>>

Awaiting == InControl /\ (sent \/ ReadsOnly)

\* What nciRecv may return: the next message, or noise when the IRQ line cannot
\* be read, since getGpio then returns -1 and hasMessage takes it for a message.
Readable ==
  IF inbox # <<>> THEN {Head(inbox)} ELSE IF "bus" \in Faults THEN {Noise} ELSE {}

Unread == IF inbox = <<>> THEN inbox ELSE Tail(inbox)

\* nciRecv takes the next message, whatever it is; nciControl looks only at its
\* fourth byte, and the reset notification is not looked at at all
ControlRecv ==
  /\ Awaiting /\ busOpen
  /\ inbox' = Unread
  /\ \E m \in Readable : IF ReadsOnly \/ m.ok THEN Advance ELSE Fail
  /\ UNCHANGED <<cmds, rf, readerWaits>>

\* faulty: the result of nciRecv is ignored
ControlRecvUnchecked ==
  /\ Awaiting /\ inbox = <<>> /\ "late" \in Faults
  /\ Advance
  /\ UNCHANGED chipVars

\* nciRecv: timeout, or a transfer that fails before or after the message is read
ControlRecvFails ==
  /\ Awaiting
  /\ \/ inbox = <<>> /\ Faults \cap {"late", "bus"} # {} /\ UNCHANGED inbox
     \/ inbox # <<>> /\ "bus" \in Faults /\ inbox' \in {inbox, Tail(inbox)}
     \/ ~busOpen /\ UNCHANGED inbox
  /\ Fail
  /\ UNCHANGED <<cmds, rf, readerWaits>>

-----------------------------------------------------------------------------
(* waitEvent, recvData and sendData                                        *)

\* recvData(timeout >= 0) takes a count of nanoseconds from its milliseconds, so
\* it gives up at the first message that is not data, unless that count was long
\* enough to turn negative as an int; recvData(-1) goes on.
WaitRecv ==
  /\ call \in WaitCalls /\ busOpen
  /\ inbox' = Unread
  /\ \E e \in {EventOf(m) : m \in Readable} :
       \/ call = "wait" /\ Return(e)
       \/ call # "wait" /\ e = "DATA" /\ Return("true")
       \/ call = "recv" /\ e # "DATA" /\ Return("false")
       \/ call # "wait" /\ e # "DATA" /\ UNCHANGED <<call, step, sent, ret>>
  /\ UNCHANGED <<status, busOpen, cmds, rf, readerWaits>>

\* nciRecv returns false: nothing came in time (never with timeout -1), or the bus failed
WaitEnds ==
  /\ call \in WaitCalls
  /\ \/ inbox = <<>> /\ call # "recvForever" /\ UNCHANGED inbox
     \/ inbox # <<>> /\ "bus" \in Faults /\ inbox' \in {inbox, Tail(inbox)}
     \/ ~busOpen /\ UNCHANGED inbox
  /\ Return(IF call = "wait" THEN "TIMEOUT" ELSE "false")
  /\ UNCHANGED <<status, busOpen, cmds, rf, readerWaits>>

SendData ==
  /\ call = "send"
  /\ \/ busOpen /\ cmds' = Append(cmds, "DATA") /\ Return("true")
     \/ ~busOpen /\ UNCHANGED cmds /\ Return("false")
     \/ busOpen /\ "bus" \in Faults /\ cmds' \in {cmds, Append(cmds, "DATA")} /\ Return("false")
  /\ UNCHANGED <<status, busOpen, inbox, rf, readerWaits>>

DriverStep ==
  \/ ControlSend \/ ControlSendFails \/ ControlRecv \/ ControlRecvFails
  \/ WaitRecv \/ WaitEnds \/ SendData

-----------------------------------------------------------------------------
(* The NFC controller and the reader in its field (external)               *)

\* The notification that follows the response of an accepted command: a reset is
\* always notified, a deactivation if a reader was there.
Owed(c) ==
  IF c = "RESET" THEN <<"RESET_NTF">>
  ELSE IF c = "DEACTIVATE" /\ rf = "active" THEN <<"DEACTIVATED">>
  ELSE <<>>

\* DISCOVER needs an idle RF state, DEACTIVATE one that is not.
Accepts(c) ==
  /\ c = "DISCOVER" => rf = "idle"
  /\ c = "DEACTIVATE" => rf # "idle"

ChipAccepts ==
  /\ cmds # <<>> /\ Head(cmds) \in Commands /\ Accepts(Head(cmds))
  /\ cmds' = Owed(Head(cmds)) \o Tail(cmds)
  /\ inbox' = Append(inbox, Response(Head(cmds), TRUE))
  /\ rf' = IF Head(cmds) = "DISCOVER" THEN "discovering"
           ELSE IF Head(cmds) \in {"RESET", "DEACTIVATE"} THEN "idle"
           ELSE rf
  /\ readerWaits' = (readerWaits /\ Head(cmds) \notin {"RESET", "DEACTIVATE"})
  /\ UNCHANGED driverVars

ChipRejects ==
  /\ cmds # <<>> /\ Head(cmds) \in Commands
  /\ ~Accepts(Head(cmds)) \/ "reject" \in Faults
  /\ cmds' = Tail(cmds)
  /\ inbox' = Append(inbox, Response(Head(cmds), FALSE))
  /\ UNCHANGED <<driverVars, rf, readerWaits>>

\* The fourth byte of a RESET_NTF is its trigger, which is not 0; that of a
\* deactivation by command is type IDLE, whose code is that of NCI_STATUS_OK.
ChipNotifies ==
  /\ cmds # <<>> /\ Head(cmds) \in Notifications
  /\ cmds' = Tail(cmds)
  /\ inbox' = Append(inbox, Notification(Head(cmds), Head(cmds) = "DEACTIVATED"))
  /\ UNCHANGED <<driverVars, rf, readerWaits>>

\* An answer of the card goes to the reader, and the credit comes back; without
\* an activated reader it is dropped.
ChipSendsData ==
  /\ cmds # <<>> /\ Head(cmds) = "DATA"
  /\ cmds' = Tail(cmds)
  /\ IF rf = "active"
       THEN inbox' = Append(inbox, Notification("CREDITS", FALSE)) /\ readerWaits' = FALSE
       ELSE UNCHANGED <<inbox, readerWaits>>
  /\ UNCHANGED <<driverVars, rf>>

ChipStep == ChipAccepts \/ ChipRejects \/ ChipNotifies \/ ChipSendsData

\* A reader selects the emulated card.
ReaderActivates ==
  /\ rf = "discovering" /\ Outstanding < MaxQueue
  /\ rf' = "active"
  /\ inbox' = Append(inbox, Notification("ACTIVATED", FALSE))
  /\ UNCHANGED <<driverVars, cmds, readerWaits>>

\* It sends a command, whose first byte may be zero, and waits for the answer.
ReaderSends ==
  /\ rf = "active" /\ ~readerWaits /\ Outstanding < MaxQueue
  /\ readerWaits' = TRUE
  /\ \E ok \in BOOLEAN : inbox' = Append(inbox, DataMessage(ok))
  /\ UNCHANGED <<driverVars, cmds, rf>>

\* It leaves the field; the controller goes back to discovery (type DISCOVERY).
ReaderLeaves ==
  /\ rf = "active" /\ Outstanding < MaxQueue
  /\ rf' = "discovering" /\ readerWaits' = FALSE
  /\ inbox' = Append(inbox, Notification("DEACTIVATED", FALSE))
  /\ UNCHANGED <<driverVars, cmds>>

ReaderStep == ReaderActivates \/ ReaderSends \/ ReaderLeaves

-----------------------------------------------------------------------------
(* Any client: the calls of the class in any order.  Those that send are   *)
(* begun while less than MaxQueue is outstanding.                          *)

ClientStep ==
  \/ OpenFails \/ Close
  \/ \E c \in WaitCalls : Begin(c)
  \/ /\ Outstanding < MaxQueue
     /\ \/ OpenBegin
        \/ \E c \in {"reset", "stop", "send"} : Begin(c)
        \/ \E c \in {"listen", "poll"}, p \in {"some", "none", "invalid"} : BeginDiscovery(c, p)

Next == ClientStep \/ DriverStep \/ ChipStep \/ ReaderStep

Spec == Init /\ [][Next]_vars

-----------------------------------------------------------------------------
(* Properties                                                              *)

DriverTypeOK ==
  /\ status \in {"CLOSED", "OPENED", "LISTENING", "POLLING"}
  /\ call \in Calls \cup {"none"} /\ step \in Nat \ {0} /\ ret \in Results
  /\ InControl => step \in 1..Len(Scripts[call])

ChipTypeOK ==
  /\ cmds \in Seq(Tasks) /\ inbox \in Seq(Messages)
  /\ rf \in {"idle", "discovering", "active"}

FlagsOK == busOpen \in BOOLEAN /\ sent \in BOOLEAN /\ readerWaits \in BOOLEAN

TypeOK == DriverTypeOK /\ ChipTypeOK /\ FlagsOK

\* A driver that is not CLOSED has its bus open: sends of a started driver
\* never find it closed (status against mpsse, open and close).
StatusMeansBus == status # "CLOSED" => busOpen

ResetNtf == Notification("RESET_NTF", FALSE)

\* With a script at step s, its command sent or not: the commands c and the
\* messages i that are outstanding when each message is read where it belongs.
InStep(s, wasSent, c, i) ==
  IF s = "RESET_NTF"
    THEN /\ ~wasSent
         /\ \/ c = <<"RESET_NTF">> /\ i = <<>>
            \/ c = <<>> /\ i = <<ResetNtf>>
  ELSE IF ~wasSent
    THEN c = <<>> /\ i = <<>>
  ELSE \/ c = <<s>> /\ i = <<>>
       \/ c = <<>> /\ i = <<Response(s, FALSE)>>
       \/ s # "RESET" /\ c = <<>> /\ i = <<Response(s, TRUE)>>
       \/ s = "RESET" /\ c = <<"RESET_NTF">> /\ i = <<Response(s, TRUE)>>
       \/ s = "RESET" /\ c = <<>> /\ i = <<Response(s, TRUE), ResetNtf>>

\* Noise was taken for the RESET_NTF, which is then the next message to be read.
Slipped(s, wasSent, c, i) ==
  /\ s = "INIT"
  /\ IF wasSent
       THEN \/ c = <<"RESET_NTF", "INIT">> /\ i = <<>>
            \/ c = <<"INIT">> /\ i = <<ResetNtf>>
            \/ c = <<>> /\ \E ok \in BOOLEAN : i = <<ResetNtf, Response("INIT", ok)>>
       ELSE \/ c = <<"RESET_NTF">> /\ i = <<>>
            \/ c = <<>> /\ i = <<ResetNtf>>

\* While open() runs the controller does nothing but the command in progress.
\* The one way out of step is to take noise for the RESET_NTF; then INIT reads
\* that notification for its response, and open() fails.
OpenInStep ==
  call = "open" =>
    /\ busOpen /\ rf = "idle"
    /\ InStep(Step, sent, cmds, inbox) \/ Slipped(Step, sent, cmds, inbox)

\* open() recovers from anything: whatever commands and messages earlier calls
\* left behind, a driver that becomes OPENED has a controller with nothing
\* outstanding and its radio off, so the next command reads its own response
\* (the VEN pulse and the reset sequence of open()).
OpenIsClean ==
  [][status # "OPENED" /\ status' = "OPENED" => cmds' = <<>> /\ inbox' = <<>> /\ rf' = "idle"]_vars

Succeeds(c) == call = c /\ call' = "none" /\ ret' = "true"
Fails(c)    == call = c /\ call' = "none" /\ ret' = "false"

\* The command c is on its way to the controller, or its refusal is unread.
OnItsWay(c)  == \E i \in 1..Len(cmds) : cmds[i] = c
Refused(c)   == \E i \in 1..Len(inbox) : inbox[i] = Response(c, FALSE)
Unsettled(c) == OnItsWay(c) \/ Refused(c)

\* When startDiscovery returns true the radio is on, and when stopDiscovery does
\* it is off, or the controller has not yet got to the command, or has refused it
\* and nobody has read that: although either call may have taken a stale message
\* for its response, which is why the last two can be.
DiscoveryFollowsCalls ==
  [][/\ Succeeds("listen") \/ Succeeds("poll") => rf' # "idle" \/ Unsettled("DISCOVER")'
     /\ Succeeds("stop") => rf' = "idle" \/ Unsettled("DEACTIVATE")']_vars

\* "Wait to receive data message, skip other events" of recvData: it returns
\* false because nothing came, never because of a message it should skip.
RecvSkipsEvents == [][Fails("recv") => inbox' = inbox]_vars
=============================================================================
