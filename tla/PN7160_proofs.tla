---------------------------- MODULE PN7160_proofs ----------------------------
(* Proofs about the PN7160 driver, for every bound and every set of faults; *)
(* what is proved of open() needs a VEN pulse that works.                   *)
EXTENDS PN7160, SequenceTheorems, TLAPS

-----------------------------------------------------------------------------
(* The scripts                                                             *)

LEMMA ScriptSteps ==
  \A c \in ControlCalls :
    /\ Len(Scripts[c]) \in Nat \ {0}
    /\ \A i \in 1..Len(Scripts[c]) : Scripts[c][i] \in Commands \cup {"RESET_NTF"}
<1> SUFFICES ASSUME NEW c \in ControlCalls
             PROVE  /\ Len(Scripts[c]) \in Nat \ {0}
                    /\ \A i \in 1..Len(Scripts[c]) : Scripts[c][i] \in Commands \cup {"RESET_NTF"}
  OBVIOUS
<1>1. CASE c = "open"
  BY <1>1 DEF Scripts, Commands
<1>2. CASE c = "reset"
  BY <1>2 DEF Scripts, Commands
<1>3. CASE c = "listen"
  BY <1>3 DEF Scripts, Commands
<1>4. CASE c = "poll"
  BY <1>4 DEF Scripts, Commands
<1>5. CASE c = "stop"
  BY <1>5 DEF Scripts, Commands
<1> QED BY <1>1, <1>2, <1>3, <1>4, <1>5 DEF ControlCalls

LEMMA ScriptLengths ==
  /\ Len(Scripts["open"]) = 11
  /\ Len(Scripts["listen"]) >= 2
  /\ Len(Scripts["poll"]) >= 2
BY DEF Scripts

\* What follows what in open(): a reset, its notification, INIT; nothing else is
\* followed by a notification, and nothing touches the radio.
LEMMA OpenScript ==
  /\ Scripts["open"][1] = "RESET"
  /\ \A i \in 1..11 :
       LET S == Scripts["open"][i] IN
       /\ S \in Commands \cup {"RESET_NTF"}
       /\ S \notin {"DISCOVER", "DEACTIVATE"}
       /\ S = "RESET" => i < 11 /\ Scripts["open"][i + 1] = "RESET_NTF"
       /\ S = "RESET_NTF" => i < 11 /\ Scripts["open"][i + 1] = "INIT"
       /\ S # "RESET" /\ i < 11 => Scripts["open"][i + 1] # "RESET_NTF"
BY DEF Scripts, Commands

-----------------------------------------------------------------------------
(* Types                                                                   *)

LEMMA InitTyped == Init => TypeOK
<1>1. Init => DriverTypeOK
  BY DEF Init, DriverTypeOK, InControl, ControlCalls, Results
<1>2. Init => ChipTypeOK
  BY DEF Init, ChipTypeOK
<1>3. Init => FlagsOK
  BY DEF Init, FlagsOK
<1> QED BY <1>1, <1>2, <1>3 DEF TypeOK

LEMMA MessageTypes ==
  /\ \A c \in Commands, ok \in BOOLEAN : Response(c, ok) \in Messages
  /\ \A n \in Notifications, ok \in BOOLEAN : Notification(n, ok) \in Messages
  /\ \A ok \in BOOLEAN : DataMessage(ok) \in Messages
BY DEF Response, Notification, DataMessage, Messages, Tasks

LEMMA CallNames ==
  /\ "none" \notin Calls
  /\ ControlCalls \subseteq Calls /\ WaitCalls \subseteq Calls /\ "send" \in Calls
  /\ ControlCalls \cap WaitCalls = {} /\ "send" \notin ControlCalls
BY DEF Calls, ControlCalls, WaitCalls

LEMMA ResultNames ==
  /\ {"none", "true", "false", "TIMEOUT"} \subseteq Results
  /\ \A m : EventOf(m) \in Results
BY DEF Results, Events, EventOf

\* The calls of the class, without the bound of ClientStep.
AnyCall ==
  \/ OpenBegin \/ OpenFails \/ Close
  \/ \E c \in WaitCalls \cup {"reset", "stop", "send"} : Begin(c)
  \/ \E c \in {"listen", "poll"}, p \in {"some", "none", "invalid"} : BeginDiscovery(c, p)

\* The driver, the controller and the reader with a client that makes these calls
\* whenever it likes: what is proved of it holds for every client.
AnyNext   == AnyCall \/ DriverStep \/ ChipStep \/ ReaderStep
AnyClient == Init /\ [][AnyNext]_vars

LEMMA ClientCalls == ClientStep => AnyCall
BY DEF ClientStep, AnyCall

LEMMA SpecIsClient == Spec => AnyClient
<1>1. [Next]_vars => [AnyNext]_vars
  BY ClientCalls DEF Next, AnyNext
<1> QED
  BY <1>1, PTL DEF Spec, AnyClient

LEMMA FlagsTyped ==
  FlagsOK /\ (AnyCall \/ DriverStep \/ ChipStep \/ ReaderStep) => FlagsOK'
<1>1. Fail \/ Advance => sent' \in BOOLEAN /\ (FlagsOK => busOpen' \in BOOLEAN)
  BY DEF Fail, Advance, Return, FlagsOK
<1>2. FlagsOK /\ DriverStep => FlagsOK'
  BY <1>1 DEF DriverStep, ControlSend, ControlSendFails, ControlRecv, ControlRecvFails,
     WaitRecv, WaitEnds, SendData, Return, FlagsOK
<1>3. FlagsOK /\ ChipStep => FlagsOK'
  BY DEF ChipStep, ChipAccepts, ChipRejects, ChipNotifies, ChipSendsData, FlagsOK, driverVars
<1>4. FlagsOK /\ ReaderStep => FlagsOK'
  BY DEF ReaderStep, ReaderActivates, ReaderSends, ReaderLeaves, FlagsOK, driverVars
<1>5. FlagsOK /\ AnyCall => FlagsOK'
  BY DEF AnyCall, OpenBegin, OpenFails, Close, Begin, BeginDiscovery, Enter, Return,
     FlagsOK, chipVars
<1> QED BY <1>2, <1>3, <1>4, <1>5

LEMMA CallTyped == TypeOK /\ AnyCall => TypeOK'
<1> SUFFICES ASSUME TypeOK, AnyCall PROVE TypeOK'
  OBVIOUS
<1>1. ChipTypeOK'
  <2>1. CASE UNCHANGED chipVars
    BY <2>1 DEF TypeOK, ChipTypeOK, chipVars
  <2>2. CASE cmds' = <<>> /\ inbox' = <<>> /\ rf' = "idle"
    BY <2>2 DEF ChipTypeOK
  <2> QED
    BY <2>1, <2>2 DEF AnyCall, OpenBegin, OpenFails, Close, Begin, BeginDiscovery
<1>2. DriverTypeOK'
  <2>1. CASE OpenBegin
    BY <2>1, ScriptLengths, CallNames, ResultNames
       DEF OpenBegin, Enter, DriverTypeOK, InControl, ControlCalls
  <2>2. CASE OpenFails \/ Close
    BY <2>2, CallNames, ResultNames DEF OpenFails, Close, Return, DriverTypeOK, InControl
  <2>3. ASSUME NEW c \in Calls, Begin(c) PROVE DriverTypeOK'
    BY <2>3, ScriptSteps, ResultNames DEF Begin, Enter, TypeOK, DriverTypeOK, InControl
  <2>4. ASSUME NEW c \in {"listen", "poll"}, NEW p, BeginDiscovery(c, p) PROVE DriverTypeOK'
    BY <2>4, ScriptSteps, ScriptLengths, CallNames, ResultNames
       DEF BeginDiscovery, Enter, Return, TypeOK, DriverTypeOK, InControl, ControlCalls
  <2> QED
    BY <2>1, <2>2, <2>3, <2>4 DEF AnyCall, Calls, ControlCalls, Calls, ControlCalls
<1> QED
  BY <1>1, <1>2, FlagsTyped DEF TypeOK

LEMMA FailTyped == DriverTypeOK /\ Fail => DriverTypeOK'
BY CallNames, ResultNames DEF Fail, Return, DriverTypeOK, InControl

LEMMA AdvanceTyped == DriverTypeOK /\ InControl /\ Advance => DriverTypeOK'
<1> SUFFICES ASSUME DriverTypeOK, InControl, Advance PROVE DriverTypeOK'
  OBVIOUS
<1>1. Len(Scripts[call]) \in Nat
  BY ScriptSteps DEF InControl
<1>2. CASE step < Len(Scripts[call])
  BY <1>1, <1>2 DEF Advance, DriverTypeOK, InControl
<1>3. CASE ~(step < Len(Scripts[call]))
  <2>1. status' \in {"CLOSED", "OPENED", "LISTENING", "POLLING"}
    BY <1>3 DEF Advance, StatusAfter, DriverTypeOK
  <2> QED BY <1>3, <2>1, CallNames, ResultNames DEF Advance, Return, DriverTypeOK, InControl
<1> QED BY <1>2, <1>3

LEMMA StepIsTask == DriverTypeOK /\ InControl /\ ~ReadsOnly => Step \in Commands
BY ScriptSteps DEF DriverTypeOK, InControl, Step, ReadsOnly

LEMMA UnreadTyped ==
  inbox \in Seq(Messages) =>
    /\ inbox # <<>> => Head(inbox) \in Messages /\ Tail(inbox) \in Seq(Messages)
    /\ Unread \in Seq(Messages)
BY DEF Unread

LEMMA DriverTyped == TypeOK /\ DriverStep => TypeOK'
<1> SUFFICES ASSUME TypeOK, DriverStep PROVE TypeOK'
  OBVIOUS
<1>1. ChipTypeOK'
  <2>1. InControl /\ ~ReadsOnly => Step \in Tasks
    BY StepIsTask DEF TypeOK, Tasks
  <2>2. "DATA" \in Tasks
    BY DEF Tasks
  <2>3. cmds \in Seq(Tasks) /\ \A x \in Tasks : Append(cmds, x) \in Seq(Tasks)
    BY DEF TypeOK, ChipTypeOK
  <2>4. cmds' = cmds \/ (InControl /\ ~ReadsOnly /\ cmds' = Append(cmds, Step))
                     \/ cmds' = Append(cmds, "DATA")
    BY DEF DriverStep, ControlSend, ControlSendFails, ControlRecv, ControlRecvFails,
       WaitRecv, WaitEnds, SendData
  <2>5. cmds' \in Seq(Tasks)
    BY <2>1, <2>2, <2>3, <2>4
  <2>6. inbox' \in Seq(Messages)
    BY UnreadTyped DEF DriverStep, ControlSend, ControlSendFails, ControlRecv, ControlRecvFails,
       WaitRecv, WaitEnds, SendData, TypeOK, ChipTypeOK
  <2>7. UNCHANGED <<rf, readerWaits>>
    BY DEF DriverStep, ControlSend, ControlSendFails, ControlRecv, ControlRecvFails,
       WaitRecv, WaitEnds, SendData
  <2> QED BY <2>5, <2>6, <2>7 DEF TypeOK, ChipTypeOK
<1>2. DriverTypeOK'
  <2>1. CASE ControlSend
    BY <2>1 DEF ControlSend, TypeOK, DriverTypeOK, InControl
  <2>2. CASE ControlSendFails \/ ControlRecvFails
    BY <2>2, FailTyped DEF ControlSendFails, ControlRecvFails, TypeOK
  <2>3. CASE ControlRecv
    BY <2>3, FailTyped, AdvanceTyped DEF ControlRecv, Awaiting, TypeOK
  <2>4. CASE WaitRecv
    BY <2>4, CallNames, ResultNames DEF WaitRecv, Return, TypeOK, DriverTypeOK, InControl
  <2>5. CASE WaitEnds
    BY <2>5, CallNames, ResultNames DEF WaitEnds, Return, TypeOK, DriverTypeOK, InControl
  <2>6. CASE SendData
    BY <2>6, CallNames, ResultNames DEF SendData, Return, TypeOK, DriverTypeOK, InControl
  <2> QED BY <2>1, <2>2, <2>3, <2>4, <2>5, <2>6 DEF DriverStep
<1> QED
  BY <1>1, <1>2, FlagsTyped DEF TypeOK, Next

LEMMA ControllerTyped == TypeOK /\ (ChipStep \/ ReaderStep) => TypeOK'
<1> SUFFICES ASSUME TypeOK, ChipStep \/ ReaderStep PROVE TypeOK'
  OBVIOUS
<1>1. DriverTypeOK'
  <2>1. UNCHANGED driverVars
    BY DEF ChipStep, ReaderStep, ChipAccepts, ChipRejects, ChipNotifies, ChipSendsData,
       ReaderActivates, ReaderSends, ReaderLeaves
  <2> QED BY <2>1 DEF TypeOK, DriverTypeOK, driverVars, InControl
<1>2. cmds # <<>> => Tail(cmds) \in Seq(Tasks) /\ Head(cmds) \in Tasks
  BY DEF TypeOK, ChipTypeOK
<1>3. \A c : Owed(c) \in Seq(Tasks)
  <2>1. "RESET_NTF" \in Tasks /\ "DEACTIVATED" \in Tasks
    BY DEF Tasks, Notifications
  <2>2. <<>> \in Seq(Tasks) /\ <<"RESET_NTF">> \in Seq(Tasks) /\ <<"DEACTIVATED">> \in Seq(Tasks)
    BY <2>1
  <2> QED BY <2>2 DEF Owed
<1>4. ASSUME ChipStep PROVE ChipTypeOK'
  <2>1. cmds # <<>> /\ (cmds' = Owed(Head(cmds)) \o Tail(cmds) \/ cmds' = Tail(cmds))
    BY <1>4 DEF ChipStep, ChipAccepts, ChipRejects, ChipNotifies, ChipSendsData
  <2>2. \A a, b \in Seq(Tasks) : a \o b \in Seq(Tasks)
    OBVIOUS
  <2>3. cmds' \in Seq(Tasks)
    BY <1>2, <1>3, <2>1, <2>2
  <2>4. \A m \in Messages : Append(inbox, m) \in Seq(Messages)
    BY DEF TypeOK, ChipTypeOK
  <2>5. inbox' \in Seq(Messages)
    <3>1. CASE ChipAccepts
      BY <2>4, <3>1, MessageTypes DEF ChipAccepts
    <3>2. CASE ChipRejects
      BY <2>4, <3>2, MessageTypes DEF ChipRejects
    <3>3. CASE ChipNotifies
      <4>1. (Head(cmds) = "DEACTIVATED") \in BOOLEAN
        OBVIOUS
      <4> QED BY <2>4, <3>3, <4>1, MessageTypes DEF ChipNotifies
    <3>4. CASE ChipSendsData
      <4>1. Notification("CREDITS", FALSE) \in Messages
        BY MessageTypes DEF Notifications
      <4> QED BY <2>4, <3>4, <4>1 DEF ChipSendsData, TypeOK, ChipTypeOK
    <3> QED BY <1>4, <3>1, <3>2, <3>3, <3>4 DEF ChipStep
  <2>6. rf' \in {"idle", "discovering", "active"}
    BY <1>4 DEF ChipStep, ChipAccepts, ChipRejects, ChipNotifies, ChipSendsData, TypeOK, ChipTypeOK
  <2> QED BY <2>3, <2>5, <2>6 DEF ChipTypeOK
<1>5. ASSUME ReaderStep PROVE ChipTypeOK'
  <2>1. Notification("ACTIVATED", FALSE) \in Messages /\ Notification("DEACTIVATED", FALSE) \in Messages
    BY MessageTypes DEF Notifications
  <2>2. \A m \in Messages : Append(inbox, m) \in Seq(Messages)
    BY DEF TypeOK, ChipTypeOK
  <2>3. inbox' \in Seq(Messages)
    BY <1>5, <2>1, <2>2, MessageTypes DEF ReaderStep, ReaderActivates, ReaderSends, ReaderLeaves
  <2>4. cmds' = cmds /\ rf' \in {"idle", "discovering", "active"}
    BY <1>5 DEF ReaderStep, ReaderActivates, ReaderSends, ReaderLeaves, TypeOK, ChipTypeOK
  <2> QED BY <2>3, <2>4 DEF TypeOK, ChipTypeOK
<1> QED
  BY <1>1, <1>4, <1>5, FlagsTyped DEF TypeOK, Next

LEMMA StutterTyped == TypeOK /\ UNCHANGED vars => TypeOK'
<1> SUFFICES ASSUME TypeOK, UNCHANGED vars PROVE TypeOK'
  OBVIOUS
<1>1. DriverTypeOK'
  BY DEF vars, driverVars, TypeOK, DriverTypeOK, InControl
<1>2. ChipTypeOK'
  BY DEF vars, chipVars, TypeOK, ChipTypeOK
<1>3. FlagsOK'
  BY DEF vars, driverVars, chipVars, TypeOK, FlagsOK
<1> QED
  BY <1>1, <1>2, <1>3 DEF TypeOK

LEMMA ClientTyped == AnyClient => []TypeOK
<1>1. TypeOK /\ [AnyNext]_vars => TypeOK'
  BY StutterTyped, CallTyped, DriverTyped, ControllerTyped DEF AnyNext
<1> QED
  BY InitTyped, <1>1, PTL DEF AnyClient

\* The driver and the controller keep their types: in particular no call runs
\* past the end of its script.
THEOREM DriverTypes == Spec => []TypeOK
BY ClientTyped, SpecIsClient, PTL

-----------------------------------------------------------------------------
(* open() stays in step with the controller                                *)

LEMMA ShortSequences ==
  ASSUME NEW a, NEW b
  PROVE  /\ <<a>> # <<>> /\ Head(<<a>>) = a /\ Tail(<<a>>) = <<>>
         /\ <<a, b>> # <<>> /\ Head(<<a, b>>) = a /\ Tail(<<a, b>>) = <<b>>
         /\ Append(<<>>, a) = <<a>> /\ Append(<<a>>, b) = <<a, b>>
         /\ <<>> \o <<a>> = <<a>> /\ <<a>> \o <<>> = <<a>> /\ <<>> \o <<>> = <<>>
<1>1. Append(<<a>>, b) = <<a, b>>
  <2> DEFINE s == Append(<<a>>, b)
  <2>1. <<a>> \in Seq({a, b})
    OBVIOUS
  <2>2. s \in Seq({a, b}) /\ Len(s) = 2 /\ s[1] = a /\ s[2] = b
    BY <2>1
  <2> HIDE DEF s
  <2>3. s = <<a, b>>
    BY <2>2
  <2> QED BY <2>3 DEF s
<1>2. <<a>> # <<>> /\ Head(<<a>>) = a /\ Tail(<<a>>) = <<>>
  OBVIOUS
<1>3. <<a, b>> # <<>> /\ Head(<<a, b>>) = a /\ Tail(<<a, b>>) = <<b>>
  OBVIOUS
<1>4. Append(<<>>, a) = <<a>> /\ <<>> \o <<a>> = <<a>> /\ <<a>> \o <<>> = <<a>> /\ <<>> \o <<>> = <<>>
  OBVIOUS
<1> QED BY <1>1, <1>2, <1>3, <1>4

LEMMA OpenSteps == DriverTypeOK /\ call = "open" => step \in 1..11 /\ Step = Scripts["open"][step]
BY ScriptLengths DEF DriverTypeOK, InControl, ControlCalls, Step

\* open() begins in step, since its VEN pulse empties the controller.
LEMMA OpenBeginsInStep == "gpio" \notin Faults /\ AnyCall => OpenInStep'
<1> SUFFICES ASSUME "gpio" \notin Faults, AnyCall, call' = "open" PROVE OpenInStep'
  BY DEF OpenInStep
<1>1. OpenBegin
  BY DEF AnyCall, OpenFails, Close, Begin, BeginDiscovery, Enter, Return, WaitCalls
<1>2. Step' = "RESET"
  BY <1>1, OpenScript DEF OpenBegin, Enter, Step
<1>3. busOpen' /\ rf' = "idle" /\ ~sent' /\ cmds' = <<>> /\ inbox' = <<>>
  BY <1>1 DEF OpenBegin, Enter
<1> QED
  BY <1>2, <1>3 DEF OpenInStep, InStep

\* The driver's steps keep it: it sends when nothing is outstanding, and reads
\* what it sent for.
LEMMA OpenSends == TypeOK /\ OpenInStep /\ ControlSend => OpenInStep'
<1> SUFFICES ASSUME TypeOK, OpenInStep, ControlSend, call = "open" PROVE OpenInStep'
  BY DEF OpenInStep, ControlSend
<1>1. /\ ~sent /\ Step # "RESET_NTF" /\ sent' /\ cmds' = Append(cmds, Step)
      /\ UNCHANGED <<busOpen, call, step, inbox, rf>> /\ Step' = Step
  BY DEF ControlSend, ReadsOnly, Step
<1>2. CASE InStep(Step, sent, cmds, inbox)
  <2>1. cmds' = <<Step>> /\ inbox' = <<>>
    BY <1>1, <1>2, ShortSequences DEF InStep
  <2> QED BY <1>1, <2>1 DEF OpenInStep, InStep
<1>3. CASE Slipped(Step, sent, cmds, inbox)
  <2>1. /\ Step = "INIT"
        /\ \/ cmds = <<"RESET_NTF">> /\ inbox = <<>>
           \/ cmds = <<>> /\ inbox = <<ResetNtf>>
    BY <1>1, <1>3 DEF Slipped
  <2>2. \/ cmds' = <<"RESET_NTF", "INIT">> /\ inbox' = <<>>
        \/ cmds' = <<"INIT">> /\ inbox' = <<ResetNtf>>
    <3>1. /\ Append(<<"RESET_NTF">>, "INIT") = <<"RESET_NTF", "INIT">>
          /\ Append(<<>>, "INIT") = <<"INIT">>
      BY ShortSequences
    <3> QED BY <1>1, <2>1, <3>1
  <2> QED BY <1>1, <2>1, <2>2 DEF OpenInStep, Slipped
<1> QED BY <1>2, <1>3 DEF OpenInStep

LEMMA OpenReads == TypeOK /\ OpenInStep /\ ControlRecv => OpenInStep'
<1> SUFFICES ASSUME TypeOK, OpenInStep, ControlRecv, call' = "open" PROVE OpenInStep'
  BY DEF OpenInStep
<1>1. Advance /\ step < Len(Scripts[call]) /\ call = "open"
  BY DEF ControlRecv, Fail, Advance, Return
<1>2. PICK m \in Readable : ReadsOnly \/ m.ok
  BY <1>1 DEF ControlRecv, Fail, Return
<1>3. step' = step + 1 /\ ~sent' /\ busOpen' = busOpen /\ rf' = rf /\ cmds' = cmds /\ inbox' = Unread
  BY <1>1 DEF Advance, ControlRecv
<1>4. step \in 1..11 /\ Step = Scripts["open"][step] /\ step < 11 /\ Step' = Scripts["open"][step + 1]
  BY <1>1, <1>3, OpenSteps, ScriptLengths DEF TypeOK, Step
<1>5. sent \/ Step = "RESET_NTF"
  BY DEF ControlRecv, Awaiting, ReadsOnly
<1>6. ~ResetNtf.ok /\ ~Noise.ok /\ ~Response(Step, FALSE).ok
  BY DEF ResetNtf, Notification, Noise, Response
<1>7. (inbox # <<>> /\ m = Head(inbox)) \/ (inbox = <<>> /\ m = Noise)
  <2>1. CASE inbox # <<>>
    <3>1. Readable = {Head(inbox)}
      BY <2>1 DEF Readable
    <3> QED BY <1>2, <2>1, <3>1
  <2>2. CASE inbox = <<>>
    <3>1. Readable \subseteq {Noise}
      BY <2>2 DEF Readable
    <3> QED BY <1>2, <2>2, <3>1
  <2> QED BY <2>1, <2>2
<1>8. CASE InStep(Step, sent, cmds, inbox)
  <2>1. CASE Step = "RESET_NTF"
    <3>1. Step' = "INIT"
      BY <1>4, <2>1, OpenScript
    <3>2. \/ cmds' = <<"RESET_NTF">> /\ inbox' = <<>>
          \/ cmds' = <<>> /\ inbox' = <<>>
      BY <1>3, <1>8, <2>1, ShortSequences DEF InStep, Unread
    <3> QED BY <1>1, <1>3, <3>1, <3>2 DEF OpenInStep, InStep, Slipped
  <2>2. CASE Step = "RESET"
    <3>1. Step' = "RESET_NTF"
      BY <1>4, <2>2, OpenScript
    <3>2. sent /\ inbox # <<>> /\ Head(inbox).ok
      BY <1>2, <1>5, <1>6, <1>7, <2>2 DEF ReadsOnly
    <3>3. inbox # <<Response(Step, FALSE)>>
      BY <1>6, <3>2, ShortSequences
    <3>4. \/ cmds = <<"RESET_NTF">> /\ inbox = <<Response(Step, TRUE)>>
          \/ cmds = <<>> /\ inbox = <<Response(Step, TRUE), ResetNtf>>
      BY <1>8, <2>2, <3>2, <3>3 DEF InStep
    <3>5. \/ cmds' = <<"RESET_NTF">> /\ inbox' = <<>>
          \/ cmds' = <<>> /\ inbox' = <<ResetNtf>>
      <4>1. cmds' = cmds /\ inbox' = Tail(inbox)
        BY <1>3, <3>2 DEF Unread
      <4> DEFINE r == Response(Step, TRUE)
      <4>2. Tail(<<r>>) = <<>> /\ Tail(<<r, ResetNtf>>) = <<ResetNtf>>
        BY ShortSequences
      <4> QED BY <3>4, <4>1, <4>2
    <3> QED BY <1>1, <1>3, <3>1, <3>5 DEF OpenInStep, InStep
  <2>3. CASE Step \notin {"RESET", "RESET_NTF"}
    <3>1. Step' # "RESET_NTF"
      BY <1>4, <2>3, OpenScript
    <3>2. cmds' = <<>> /\ inbox' = <<>>
      BY <1>2, <1>3, <1>5, <1>6, <1>8, <1>7, <2>3, ShortSequences DEF InStep, Unread, ReadsOnly
    <3> QED BY <1>1, <1>3, <3>1, <3>2 DEF OpenInStep, InStep
  <2> QED BY <2>1, <2>2, <2>3
<1>9. CASE Slipped(Step, sent, cmds, inbox)
  <2>1. sent /\ Step = "INIT"
    BY <1>5, <1>9 DEF Slipped
  <2>2. m \in {ResetNtf, Noise}
    BY <1>9, <1>7, <2>1, ShortSequences DEF Slipped
  <2> QED BY <1>2, <1>6, <2>1, <2>2 DEF ReadsOnly
<1> QED BY <1>1, <1>8, <1>9 DEF OpenInStep

LEMMA OpenDrives == TypeOK /\ OpenInStep /\ DriverStep => OpenInStep'
<1> SUFFICES ASSUME TypeOK, OpenInStep, DriverStep, call' = "open" PROVE OpenInStep'
  BY DEF OpenInStep
<1>1. CASE ControlSendFails \/ ControlRecvFails
  BY <1>1 DEF ControlSendFails, ControlRecvFails, Fail, Return
<1>2. CASE WaitRecv \/ WaitEnds \/ SendData
  BY <1>2 DEF WaitRecv, WaitEnds, SendData, WaitCalls, Return
<1> QED
  BY <1>1, <1>2, OpenSends, OpenReads DEF DriverStep

\* What the controller does next is what the step waits for.
LEMMA OpenController == TypeOK /\ OpenInStep /\ (ChipStep \/ ReaderStep) => OpenInStep'
<1> SUFFICES ASSUME TypeOK, OpenInStep, ChipStep \/ ReaderStep, call' = "open" PROVE OpenInStep'
  BY DEF OpenInStep
<1>1. UNCHANGED driverVars
  BY DEF ChipStep, ReaderStep, ChipAccepts, ChipRejects, ChipNotifies, ChipSendsData,
     ReaderActivates, ReaderSends, ReaderLeaves
<1>2. call = "open" /\ busOpen /\ rf = "idle" /\ busOpen' /\ Step' = Step /\ sent' = sent
  BY <1>1 DEF driverVars, OpenInStep, Step
<1>3. ChipStep /\ cmds # <<>>
  BY <1>2 DEF ReaderStep, ReaderActivates, ReaderSends, ReaderLeaves,
     ChipStep, ChipAccepts, ChipRejects, ChipNotifies, ChipSendsData
<1>4. Step \in Commands \cup {"RESET_NTF"} /\ Step \notin {"DISCOVER", "DEACTIVATE"}
  BY <1>2, OpenSteps, OpenScript DEF TypeOK
\* Outstanding is a command of the script, or the notification of a reset.
<1> DEFINE h == Head(cmds)
<1>5. h \in (Commands \ {"DISCOVER", "DEACTIVATE"}) \cup {"RESET_NTF"}
  <2>1. cmds \in {<<Step>>, <<"RESET_NTF">>, <<"RESET_NTF", "INIT">>, <<"INIT">>}
    BY <1>2, <1>3 DEF OpenInStep, InStep, Slipped
  <2> QED BY <1>4, <2>1, ShortSequences DEF Commands
<1> HIDE DEF h
<1>6. CASE h = "RESET_NTF"
  <2>1. cmds' = Tail(cmds) /\ inbox' = Append(inbox, ResetNtf) /\ rf' = "idle"
    BY <1>2, <1>3, <1>6 DEF h, Commands, ChipStep, ChipAccepts, ChipRejects, ChipNotifies, ChipSendsData, ResetNtf
  <2>2. CASE InStep(Step, sent, cmds, inbox)
    <3>1. cmds = <<"RESET_NTF">>
      <4>1. cmds \in {<<Step>>, <<"RESET_NTF">>}
        BY <1>3, <2>2 DEF InStep
      <4>2. Head(<<Step>>) = Step
        BY ShortSequences
      <4> QED BY <1>6, <4>1, <4>2 DEF h
    <3>2. cmds' = <<>>
      BY <2>1, <3>1, ShortSequences
    <3>3. CASE Step = "RESET_NTF"
      <4>1. ~sent /\ inbox = <<>>
        BY <2>2, <3>1, <3>3, ShortSequences DEF InStep
      <4>2. inbox' = <<ResetNtf>>
        BY <2>1, <4>1, ShortSequences
      <4> QED BY <1>2, <2>1, <3>2, <3>3, <4>1, <4>2 DEF OpenInStep, InStep
    <3>4. CASE Step # "RESET_NTF"
      <4>1. <<Step>> # <<"RESET_NTF">> /\ <<"RESET_NTF">> # <<>>
        BY <3>4, ShortSequences
      <4>2. sent /\ Step = "RESET" /\ inbox = <<Response(Step, TRUE)>>
        BY <2>2, <3>1, <3>4, <4>1 DEF InStep
      <4>3. inbox' = <<Response(Step, TRUE), ResetNtf>>
        BY <2>1, <4>2, ShortSequences
      <4> QED BY <1>2, <2>1, <3>2, <4>2, <4>3 DEF OpenInStep, InStep
    <3> QED BY <3>3, <3>4
  <2>3. CASE Slipped(Step, sent, cmds, inbox)
    <3>1. cmds # <<"INIT">>
      BY <1>6, ShortSequences DEF h
    <3>2. inbox = <<>> /\ cmds = IF sent THEN <<"RESET_NTF", "INIT">> ELSE <<"RESET_NTF">>
      BY <1>3, <2>3, <3>1 DEF Slipped
    <3>3. inbox' = <<ResetNtf>> /\ cmds' = IF sent THEN <<"INIT">> ELSE <<>>
      BY <2>1, <3>2, ShortSequences
    <3> QED BY <1>2, <2>1, <2>3, <3>3 DEF OpenInStep, Slipped
  <2> QED BY <1>2, <2>2, <2>3 DEF OpenInStep
<1>7. CASE h # "RESET_NTF"
  <2>1. \E ok \in BOOLEAN : /\ inbox' = Append(inbox, Response(h, ok))
                           /\ cmds' = IF ok /\ h = "RESET" THEN <<"RESET_NTF">> \o Tail(cmds) ELSE Tail(cmds)
    <3>1. CASE ChipAccepts
      <4>1. Owed(h) = IF h = "RESET" THEN <<"RESET_NTF">> ELSE <<>>
        BY <1>5, <1>7 DEF Owed
      <4>2. <<>> \o Tail(cmds) = Tail(cmds)
        BY <1>3 DEF TypeOK, ChipTypeOK
      <4> QED BY <3>1, <4>1, <4>2 DEF ChipAccepts, h
    <3>2. CASE ChipRejects
      BY <3>2 DEF ChipRejects, h
    <3> QED
      BY <1>3, <1>5, <1>7, <3>1, <3>2 DEF h, ChipStep, ChipNotifies, ChipSendsData, Commands, Notifications
  <2>2. rf' = "idle"
    BY <1>2, <1>3, <1>5, <1>7 DEF h, ChipStep, ChipAccepts, ChipRejects, ChipNotifies, ChipSendsData
  <2>3. PICK ok \in BOOLEAN : /\ inbox' = Append(inbox, Response(h, ok))
                             /\ cmds' = IF ok /\ h = "RESET" THEN <<"RESET_NTF">> \o Tail(cmds) ELSE Tail(cmds)
    BY <2>1
  <2>4. CASE InStep(Step, sent, cmds, inbox)
    <3>1. sent /\ Step # "RESET_NTF" /\ cmds = <<Step>> /\ inbox = <<>> /\ h = Step
      BY <1>3, <1>7, <2>4, ShortSequences DEF h, InStep
    <3>2. inbox' = <<Response(Step, ok)>>
      BY <2>3, <3>1, ShortSequences
    <3>3. cmds' = IF ok /\ Step = "RESET" THEN <<"RESET_NTF">> ELSE <<>>
      BY <2>3, <3>1, ShortSequences
    <3> QED BY <1>2, <2>2, <3>1, <3>2, <3>3 DEF OpenInStep, InStep
  <2>5. CASE Slipped(Step, sent, cmds, inbox)
    <3>1. sent /\ cmds = <<"INIT">> /\ inbox = <<ResetNtf>> /\ h = "INIT"
      BY <1>3, <1>7, <2>5, ShortSequences DEF h, Slipped
    <3>2. inbox' = <<ResetNtf, Response("INIT", ok)>> /\ cmds' = <<>>
      BY <2>3, <3>1, ShortSequences
    <3> QED BY <1>2, <2>2, <2>5, <3>1, <3>2 DEF OpenInStep, Slipped
  <2> QED BY <1>2, <2>4, <2>5 DEF OpenInStep
<1> QED BY <1>6, <1>7

LEMMA OpenInStepNext ==
  "gpio" \notin Faults /\ TypeOK /\ OpenInStep /\ [AnyNext]_vars => OpenInStep'
<1>1. OpenInStep /\ UNCHANGED vars => OpenInStep'
  BY DEF vars, driverVars, chipVars, OpenInStep, Step
<1> QED
  BY <1>1, OpenBeginsInStep, OpenDrives, OpenController DEF AnyNext

LEMMA ClientInStep == ASSUME "gpio" \notin Faults PROVE AnyClient => []OpenInStep
<1>1. Init => OpenInStep
  BY DEF Init, OpenInStep
<1>2. TypeOK /\ OpenInStep /\ [AnyNext]_vars => OpenInStep'
  BY OpenInStepNext
<1> QED
  BY <1>1, <1>2, ClientTyped, PTL DEF AnyClient

\* With a VEN pulse that works, open() reads the answer of each command it
\* sends, whatever came before it and whatever else fails.
THEOREM OpenStaysInStep == ASSUME "gpio" \notin Faults PROVE Spec => []OpenInStep
<1>1. AnyClient => []OpenInStep
  BY ClientInStep
<1> QED
  BY <1>1, SpecIsClient, PTL

\* Only the last step of open() makes the driver OPENED.
LEMMA OpenedByOpen ==
  ASSUME [AnyNext]_vars, status # "OPENED", status' = "OPENED"
  PROVE  ControlRecv /\ Advance /\ call = "open" /\ ~(step < Len(Scripts[call]))
<1>1. DriverStep
  BY DEF AnyNext, vars, driverVars, AnyCall, OpenBegin, OpenFails, Close, Begin, BeginDiscovery,
     ChipStep, ChipAccepts, ChipRejects, ChipNotifies, ChipSendsData,
     ReaderStep, ReaderActivates, ReaderSends, ReaderLeaves
<1>2. ControlRecv
  BY <1>1 DEF DriverStep, ControlSend, ControlSendFails, ControlRecvFails, WaitRecv, WaitEnds,
     SendData, Fail
<1>3. Advance /\ ~(step < Len(Scripts[call]))
  BY <1>2 DEF ControlRecv, Fail, Advance
<1> QED
  BY <1>2, <1>3 DEF Advance, StatusAfter

LEMMA ClientOpensClean == ASSUME "gpio" \notin Faults PROVE AnyClient => OpenIsClean
<1> DEFINE Clean == cmds' = <<>> /\ inbox' = <<>> /\ rf' = "idle"
<1>1. ASSUME TypeOK, OpenInStep, [AnyNext]_vars, status # "OPENED", status' = "OPENED"
      PROVE  Clean
  <2>1. ControlRecv /\ Advance /\ call = "open" /\ ~(step < Len(Scripts[call]))
    BY <1>1, OpenedByOpen
  <2>2. Step = "POWER_MODE"
    <3>1. step \in 1..11 /\ Step = Scripts["open"][step] /\ ~(step < 11)
      BY <1>1, <2>1, OpenSteps, ScriptLengths DEF TypeOK
    <3> QED BY <3>1 DEF Scripts
  <2>3. sent /\ ~ReadsOnly /\ rf' = rf /\ cmds' = cmds /\ inbox' = Unread
    BY <2>1, <2>2 DEF ControlRecv, Awaiting, ReadsOnly
  <2>4. PICK m \in Readable : m.ok
    BY <2>1, <2>3 DEF ControlRecv, Fail, Advance, Return
  <2>5. InStep(Step, sent, cmds, inbox) /\ rf = "idle"
    BY <1>1, <2>1, <2>2 DEF OpenInStep, Slipped
  <2>6. inbox # <<>> /\ Head(inbox).ok
    <3>1. CASE inbox = <<>>
      BY <2>4, <3>1 DEF Readable, Noise
    <3> QED BY <2>4, <3>1 DEF Readable
  <2>7. inbox # <<Response(Step, FALSE)>>
    BY <2>6, ShortSequences DEF Response
  <2>8. cmds = <<>> /\ inbox = <<Response(Step, TRUE)>>
    BY <2>2, <2>3, <2>5, <2>6, <2>7 DEF InStep
  <2>9. inbox' = Tail(inbox)
    BY <2>3, <2>6 DEF Unread
  <2> QED BY <2>3, <2>5, <2>8, <2>9, ShortSequences
<1>2. TypeOK /\ OpenInStep /\ [AnyNext]_vars
        => [status # "OPENED" /\ status' = "OPENED" => Clean]_vars
  BY <1>1
<1>3. AnyClient => []OpenInStep
  BY ClientInStep
<1> QED
  BY <1>2, <1>3, ClientTyped, PTL DEF AnyClient, OpenIsClean

\* A driver that becomes OPENED has a controller with nothing outstanding and
\* its radio off.
THEOREM OpenLeavesClean == ASSUME "gpio" \notin Faults PROVE Spec => OpenIsClean
<1>1. AnyClient => OpenIsClean
  BY ClientOpensClean
<1> QED
  BY <1>1, SpecIsClient, PTL

-----------------------------------------------------------------------------
(* The status and the bus                                                  *)

\* A driver that is not CLOSED has its bus open; inductive with the status being
\* CLOSED all through open().
BusInv == StatusMeansBus /\ (call = "open" => status = "CLOSED")

LEMMA BusKept ==
  BusInv /\ (AnyCall \/ DriverStep \/ UNCHANGED <<status, busOpen, call>>) => BusInv'
<1> SUFFICES ASSUME BusInv, AnyCall \/ DriverStep \/ UNCHANGED <<status, busOpen, call>>
             PROVE  BusInv'
  OBVIOUS
<1>1. CASE UNCHANGED <<status, busOpen, call>>
  BY <1>1 DEF BusInv, StatusMeansBus
<1>2. CASE AnyCall
  BY <1>2 DEF AnyCall, OpenBegin, OpenFails, Close, Begin, BeginDiscovery, Enter, Return,
     WaitCalls, BusInv, StatusMeansBus
<1>3. CASE DriverStep
  <2>1. Fail => BusInv'
    BY DEF Fail, Return, BusInv, StatusMeansBus
  <2>2. busOpen /\ Advance => BusInv'
    BY DEF Advance, Return, BusInv, StatusMeansBus
  <2>3. CASE ControlSendFails \/ ControlRecvFails \/ ControlRecv
    BY <2>1, <2>2, <2>3 DEF ControlSendFails, ControlRecvFails, ControlRecv
  <2>4. CASE ControlSend \/ WaitRecv \/ WaitEnds \/ SendData
    BY <2>4 DEF ControlSend, WaitRecv, WaitEnds, SendData, Return, BusInv, StatusMeansBus
  <2> QED BY <1>3, <2>3, <2>4 DEF DriverStep
<1> QED BY <1>1, <1>2, <1>3

LEMMA ClientMeansBus == AnyClient => []StatusMeansBus
<1>1. Init => BusInv
  BY DEF Init, BusInv, StatusMeansBus
<1>2. BusInv /\ [AnyNext]_vars => BusInv'
  <2>1. ChipStep \/ ReaderStep \/ UNCHANGED vars => UNCHANGED <<status, busOpen, call>>
    BY DEF vars, driverVars, ChipStep, ChipAccepts, ChipRejects, ChipNotifies, ChipSendsData,
       ReaderStep, ReaderActivates, ReaderSends, ReaderLeaves
  <2> QED BY <2>1, BusKept DEF AnyNext
<1>3. BusInv => StatusMeansBus
  BY DEF BusInv
<1> QED
  BY <1>1, <1>2, <1>3, PTL DEF AnyClient

\* A driver that is not CLOSED has its bus open, also when a call has failed half
\* way (status against mpsse, open and close).
THEOREM StatusMeansBusHolds == Spec => []StatusMeansBus
BY ClientMeansBus, SpecIsClient, PTL

-----------------------------------------------------------------------------
(* The radio follows the calls                                             *)

\* While the response to the command that switches the radio is awaited, that
\* command is the last the controller has to do; or it is done, and the radio
\* is as it says or its refusal is unread.
Tracked ==
  InControl /\ sent /\ Step \in {"DISCOVER", "DEACTIVATE"} =>
    \/ cmds # <<>> /\ cmds[Len(cmds)] = Step
    \/ /\ \A i \in 1..Len(cmds) : cmds[i] \in Notifications
       /\ Refused(Step) \/ (rf # "idle" <=> Step = "DISCOVER")

RadioSteps == {"DISCOVER", "DEACTIVATE"}

\* Messages keep their place when one comes behind them.
LEMMA AppendKeeps ==
  ASSUME NEW S, NEW q \in Seq(S), NEW e \in S, NEW j \in 1..Len(q)
  PROVE  Append(q, e)[j] = q[j]
BY AppendProperties

\* A refusal stays unread when messages come behind it.
LEMMA RefusedStays ==
  ASSUME ChipTypeOK, NEW c, NEW m \in Messages, Refused(c), inbox' = Append(inbox, m)
  PROVE  Refused(c)'
<1>1. PICK i \in 1..Len(inbox) : inbox[i] = Response(c, FALSE)
  BY DEF Refused
<1>2. inbox \in Seq(Messages)
  BY DEF ChipTypeOK
<1>3. Len(Append(inbox, m)) = Len(inbox) + 1 /\ Len(inbox) \in Nat
  BY <1>2
<1>4. Append(inbox, m)[i] = inbox[i]
  BY <1>1, <1>2, AppendKeeps, Zenon
<1>5. i \in 1..Len(Append(inbox, m))
  BY <1>1, <1>3
<1> QED
  BY <1>1, <1>4, <1>5 DEF Refused

\* The controller does the command that switches the radio, or refuses it; until
\* it gets there that command stays the last, and afterwards there is none that
\* could undo it.
LEMMA TrackedController ==
  ASSUME TypeOK, Tracked, ChipStep \/ ReaderStep
  PROVE  Tracked'
<1>1. UNCHANGED <<call, step, sent>>
  BY DEF ChipStep, ReaderStep, ChipAccepts, ChipRejects, ChipNotifies, ChipSendsData,
     ReaderActivates, ReaderSends, ReaderLeaves, driverVars
<1>2. UNCHANGED <<InControl, Step>>
  BY <1>1 DEF InControl, Step
<1> SUFFICES ASSUME InControl, sent, Step \in RadioSteps
             PROVE  \/ cmds' # <<>> /\ cmds'[Len(cmds')] = Step
                    \/ /\ \A i \in 1..Len(cmds') : cmds'[i] \in Notifications
                       /\ Refused(Step)' \/ (rf' # "idle" <=> Step = "DISCOVER")
  BY <1>1, <1>2 DEF Tracked, RadioSteps, Refused
<1>3. ChipTypeOK /\ cmds \in Seq(Tasks) /\ rf \in {"idle", "discovering", "active"}
  BY DEF TypeOK, ChipTypeOK
<1>4. \A c : c \in Commands => c \notin Notifications
  BY DEF Commands, Notifications
<1>5. Step \in Commands /\ Step \notin Notifications /\ Step # "DATA" /\ "DATA" \notin Notifications
  BY DEF RadioSteps, Commands, Notifications
<1>6. CASE ReaderStep
  <2>1. cmds' = cmds /\ (rf' # "idle" <=> rf # "idle")
    BY <1>6 DEF ReaderStep, ReaderActivates, ReaderSends, ReaderLeaves
  <2>a. \E m \in Messages : inbox' = Append(inbox, m)
    BY <1>6, MessageTypes DEF ReaderStep, ReaderActivates, ReaderSends, ReaderLeaves, Notifications
  <2>2. Refused(Step) => Refused(Step)'
    BY <1>2, <1>3, <2>a, RefusedStays
  <2> QED
    BY <2>1, <2>2 DEF Tracked, RadioSteps
<1>7. CASE ChipStep /\ cmds # <<>> /\ cmds[Len(cmds)] = Step
  <2>1. cmds' = Owed(Head(cmds)) \o Tail(cmds) \/ cmds' = Tail(cmds)
    BY <1>7 DEF ChipStep, ChipAccepts, ChipRejects, ChipNotifies, ChipSendsData
  <2>2. Owed(Head(cmds)) \in Seq(Tasks)
    <3>1. "RESET_NTF" \in Tasks /\ "DEACTIVATED" \in Tasks
      BY DEF Tasks, Notifications
    <3>2. <<>> \in Seq(Tasks) /\ <<"RESET_NTF">> \in Seq(Tasks) /\ <<"DEACTIVATED">> \in Seq(Tasks)
      BY <3>1
    <3> QED
      BY <3>2 DEF Owed
  <2>3. CASE Tail(cmds) # <<>>
    <3>1. Tail(cmds) \in Seq(Tasks) /\ Len(Tail(cmds)) = Len(cmds) - 1 /\ Len(cmds) > 1
      BY <1>3, <1>7, <2>3
    <3>2. Tail(cmds)[Len(cmds) - 1] = Step
      BY <1>3, <1>7, <3>1
    <3>3. ASSUME NEW a \in Seq(Tasks), NEW b \in Seq(Tasks), b # <<>>
          PROVE  a \o b # <<>> /\ (a \o b)[Len(a \o b)] = b[Len(b)]
      <4>1. Len(b) \in Nat /\ Len(b) > 0 /\ Len(a) \in Nat /\ Len(a \o b) = Len(a) + Len(b)
        BY <3>3
      <4>2. (a \o b)[Len(a) + Len(b)] = b[Len(b)]
        BY <4>1
      <4>3. a \o b \in Seq(Tasks) /\ Len(a \o b) # 0
        BY <4>1
      <4> QED
        BY <4>1, <4>2, <4>3
    <3> QED
      BY <2>1, <2>2, <2>3, <3>1, <3>2, <3>3
  <2>4. CASE Tail(cmds) = <<>>
    <3>1. Len(cmds) = 1 /\ Head(cmds) = Step
      <4>1. cmds \in Seq(Tasks) /\ cmds # <<>> /\ Len(Tail(cmds)) = 0
        BY <1>3, <1>7, <2>4
      <4>2. Len(cmds) \in Nat /\ Len(Tail(cmds)) = Len(cmds) - 1
        <5>1. cmds \in Seq(Tasks) /\ cmds # <<>>
          BY <4>1
        <5> QED
          BY <5>1
      <4>3. Len(cmds) = 1
        BY <4>1, <4>2
      <4> QED
        BY <1>7, <4>1, <4>3
    <3>2. CASE ChipAccepts
      <4>1. cmds' = Owed(Step) /\ \A i \in 1..Len(Owed(Step)) : Owed(Step)[i] \in Notifications
        <5>1. Owed(Step) \in Seq(Notifications)
          <6>1. "RESET_NTF" \in Notifications /\ "DEACTIVATED" \in Notifications
            BY DEF Notifications
          <6>2. /\ <<>> \in Seq(Notifications) /\ <<"RESET_NTF">> \in Seq(Notifications)
                /\ <<"DEACTIVATED">> \in Seq(Notifications)
            BY <6>1
          <6> QED
            BY <6>2 DEF Owed
        <5>2. Owed(Step) \o <<>> = Owed(Step)
          BY <5>1, ConcatEmptySeq
        <5>3. cmds' = Owed(Step)
          BY <2>4, <3>1, <3>2, <5>2 DEF ChipAccepts
        <5>4. \A i \in 1..Len(Owed(Step)) : Owed(Step)[i] \in Notifications
          BY <5>1
        <5> QED
          BY <5>3, <5>4
      <4>2. rf' # "idle" <=> Step = "DISCOVER"
        BY <3>1, <3>2 DEF ChipAccepts, RadioSteps
      <4> QED
        BY <4>1, <4>2
    <3>3. CASE ChipRejects
      <4>1. cmds' = <<>> /\ inbox' = Append(inbox, Response(Step, FALSE))
        BY <2>4, <3>1, <3>3 DEF ChipRejects
      <4>2. inbox \in Seq(Messages)
        BY <1>3 DEF ChipTypeOK
      <4>3. Len(inbox') = Len(inbox) + 1 /\ Len(inbox) \in Nat /\ inbox'[Len(inbox) + 1] = Response(Step, FALSE)
        <5>1. Response(Step, FALSE) \in Messages
          BY <1>5, MessageTypes
        <5>2. /\ Len(Append(inbox, Response(Step, FALSE))) = Len(inbox) + 1
              /\ Append(inbox, Response(Step, FALSE))[Len(inbox) + 1] = Response(Step, FALSE)
          BY <4>2, <5>1, AppendProperties, Zenon
        <5>3. Len(inbox) \in Nat
          BY <4>2
        <5> QED
          BY <4>1, <5>2, <5>3
      <4>4. Refused(Step)'
        <5>1. Len(inbox) + 1 \in 1..Len(inbox') /\ Step' = Step
          BY <1>2, <4>3
        <5> QED
          BY <4>3, <5>1 DEF Refused
      <4> QED
        BY <4>1, <4>4
    <3>4. ~ChipNotifies /\ ~ChipSendsData
      BY <1>5, <3>1 DEF ChipNotifies, ChipSendsData
    <3> QED
      BY <1>7, <3>2, <3>3, <3>4 DEF ChipStep
  <2> QED
    BY <2>3, <2>4
<1>8. CASE /\ ChipStep
           /\ \A i \in 1..Len(cmds) : cmds[i] \in Notifications
           /\ Refused(Step) \/ (rf # "idle" <=> Step = "DISCOVER")
  <2>1. cmds # <<>>
    BY <1>8 DEF ChipStep, ChipAccepts, ChipRejects, ChipNotifies, ChipSendsData
  <2>2. Head(cmds) \in Notifications
    BY <1>3, <1>8, <2>1
  <2>3. ChipNotifies
    BY <1>4, <1>5, <1>8, <2>2 DEF ChipStep, ChipAccepts, ChipRejects, ChipSendsData
  <2>4. cmds' = Tail(cmds) /\ rf' = rf
    BY <2>3 DEF ChipNotifies
  <2>a. \E m \in Messages : inbox' = Append(inbox, m)
    <3>1. (Head(cmds) = "DEACTIVATED") \in BOOLEAN
      OBVIOUS
    <3> QED
      BY <2>3, <3>1, MessageTypes DEF ChipNotifies
  <2>5. \A i \in 1..Len(Tail(cmds)) : Tail(cmds)[i] \in Notifications
    BY <1>3, <1>8, <2>1
  <2>6. Refused(Step) => Refused(Step)'
    BY <1>2, <1>3, <2>a, RefusedStays
  <2> QED
    BY <1>8, <2>4, <2>5, <2>6
<1> QED
  BY <1>6, <1>7, <1>8 DEF Tracked, RadioSteps

\* The driver sends the command, and then waits for its response or gives up.
LEMMA TrackedDriver ==
  ASSUME TypeOK, AnyCall \/ DriverStep
  PROVE  Tracked'
<1>1. CASE ControlSend
  <2>1. cmds' = Append(cmds, Step) /\ Step' = Step /\ cmds \in Seq(Tasks)
    BY <1>1 DEF ControlSend, Step, TypeOK, ChipTypeOK
  <2>2. /\ Len(cmds') = Len(cmds) + 1 /\ Len(cmds) \in Nat /\ cmds'[Len(cmds) + 1] = Step
        /\ cmds' # <<>>
    BY <2>1
  <2> QED
    BY <2>1, <2>2 DEF Tracked
<1>2. CASE ControlRecv \/ ControlSendFails \/ ControlRecvFails
  <2>1. sent' = FALSE
    BY <1>2 DEF ControlRecv, ControlSendFails, ControlRecvFails, Fail, Advance, Return
  <2> QED
    BY <2>1 DEF Tracked
<1>3. CASE WaitRecv \/ WaitEnds \/ SendData
  <2>1. sent' = FALSE \/ call' \in WaitCalls
    BY <1>3 DEF WaitRecv, WaitEnds, SendData, Return
  <2> QED
    BY <2>1, CallNames DEF Tracked, InControl
<1>4. CASE AnyCall
  <2>1. sent' = FALSE
    BY <1>4 DEF AnyCall, OpenBegin, OpenFails, Close, Begin, BeginDiscovery, Enter, Return
  <2> QED
    BY <2>1 DEF Tracked
<1> QED
  BY <1>1, <1>2, <1>3, <1>4 DEF DriverStep

\* A call that switches the radio ends with the response to its last command.
LEMMA RadioCallEnds ==
  ASSUME TypeOK, AnyNext, NEW c \in {"listen", "poll", "stop"}, Succeeds(c)
  PROVE  /\ InControl /\ sent
         /\ Step = IF c = "stop" THEN "DEACTIVATE" ELSE "DISCOVER"
         /\ inbox # <<>> /\ Head(inbox).ok /\ inbox' = Tail(inbox) /\ UNCHANGED <<cmds, rf>>
<1>1. call = c /\ call' = "none" /\ ret' = "true" /\ c \in ControlCalls /\ InControl
  BY DEF Succeeds, ControlCalls, InControl
<1>2. c # "none" /\ c \notin WaitCalls /\ c # "send"
  BY DEF WaitCalls
<1>3. ControlRecv
  <2>1. ~AnyCall
    BY <1>1, <1>2 DEF AnyCall, OpenBegin, OpenFails, Close, Begin, BeginDiscovery
  <2>2. ~ChipStep /\ ~ReaderStep
    BY <1>1, <1>2 DEF ChipStep, ChipAccepts, ChipRejects, ChipNotifies, ChipSendsData, ReaderStep,
       ReaderActivates, ReaderSends, ReaderLeaves, driverVars
  <2>3. ~WaitRecv /\ ~WaitEnds /\ ~SendData
    BY <1>1, <1>2 DEF WaitRecv, WaitEnds, SendData
  <2>4. ~ControlSend /\ ~ControlSendFails /\ ~ControlRecvFails
    BY <1>1, <1>2 DEF ControlSend, ControlSendFails, ControlRecvFails, Fail, Return
  <2> QED
    BY <2>1, <2>2, <2>3, <2>4 DEF AnyNext, DriverStep
<1>4. PICK m \in Readable : IF ReadsOnly \/ m.ok THEN Advance ELSE Fail
  BY <1>3 DEF ControlRecv
<1>5. (ReadsOnly \/ m.ok) /\ Advance
  BY <1>1, <1>4 DEF Fail, Return
<1>6. step = Len(Scripts[c])
  <2>1. ~(step < Len(Scripts[call]))
    BY <1>1, <1>2, <1>5 DEF Advance
  <2>2. step \in 1..Len(Scripts[c]) /\ Len(Scripts[c]) \in Nat
    BY <1>1, ScriptSteps DEF TypeOK, DriverTypeOK
  <2> QED
    BY <1>1, <2>1, <2>2
<1>7. Step = IF c = "stop" THEN "DEACTIVATE" ELSE "DISCOVER"
  <2>1. CASE c = "listen"
    BY <1>1, <1>6, <2>1 DEF Step, Scripts
  <2>2. CASE c = "poll"
    BY <1>1, <1>6, <2>2 DEF Step, Scripts
  <2>3. CASE c = "stop"
    BY <1>1, <1>6, <2>3 DEF Step, Scripts
  <2> QED
    BY <2>1, <2>2, <2>3
<1>8. ~ReadsOnly
  BY <1>7 DEF ReadsOnly
<1>9. sent /\ m.ok
  BY <1>3, <1>5, <1>8 DEF ControlRecv, Awaiting
<1>10. inbox # <<>> /\ m = Head(inbox)
  BY <1>9 DEF Readable, Noise
<1> QED
  BY <1>1, <1>3, <1>7, <1>9, <1>10 DEF ControlRecv, Unread

LEMMA TrackedHolds == AnyClient => [](TypeOK /\ Tracked)
<1>1. Init => Tracked
  BY DEF Init, Tracked
<1>2. TypeOK /\ Tracked /\ [AnyNext]_vars => Tracked'
  <2>1. TypeOK /\ Tracked /\ AnyNext => Tracked'
    BY TrackedController, TrackedDriver DEF AnyNext
  <2>2. Tracked /\ UNCHANGED vars => Tracked'
    BY DEF vars, driverVars, chipVars, Tracked, InControl, Step, Refused
  <2> QED
    BY <2>1, <2>2
<1> QED
  BY <1>1, <1>2, ClientTyped, PTL DEF AnyClient

LEMMA ClientFollows == AnyClient => DiscoveryFollowsCalls
<1> DEFINE A == /\ Succeeds("listen") \/ Succeeds("poll") => rf' # "idle" \/ Unsettled("DISCOVER")'
                /\ Succeeds("stop") => rf' = "idle" \/ Unsettled("DEACTIVATE")'
<1>1. ASSUME TypeOK, Tracked, AnyNext, NEW c \in {"listen", "poll", "stop"}, Succeeds(c),
             NEW s, s = IF c = "stop" THEN "DEACTIVATE" ELSE "DISCOVER"
      PROVE  (rf' # "idle" <=> s = "DISCOVER") \/ Unsettled(s)'
  <2>1. /\ InControl /\ sent /\ Step = s /\ UNCHANGED <<cmds, rf>>
        /\ inbox # <<>> /\ Head(inbox).ok /\ inbox' = Tail(inbox)
    BY <1>1, RadioCallEnds
  <2>2. cmds \in Seq(Tasks) /\ inbox \in Seq(Messages)
    BY <1>1 DEF TypeOK, ChipTypeOK
  <2>3. CASE cmds # <<>> /\ cmds[Len(cmds)] = s
    <3>1. Len(cmds) \in 1..Len(cmds)
      BY <2>2, <2>3
    <3>2. OnItsWay(s)'
      BY <2>1, <2>3, <3>1 DEF OnItsWay
    <3> QED
      BY <3>2 DEF Unsettled
  <2>4. CASE Refused(s)
    <3>1. PICK i \in 1..Len(inbox) : inbox[i] = Response(s, FALSE)
      BY <2>4 DEF Refused
    <3>2. i # 1
      BY <2>1, <2>2, <3>1 DEF Response
    <3>3. i - 1 \in 1..Len(Tail(inbox)) /\ Tail(inbox)[i - 1] = inbox[i]
      BY <2>1, <2>2, <3>2
    <3>4. Refused(s)'
      BY <2>1, <3>1, <3>3 DEF Refused
    <3> QED
      BY <3>4 DEF Unsettled
  <2>5. CASE rf # "idle" <=> s = "DISCOVER"
    BY <2>1, <2>5
  <2> QED
    BY <1>1, <2>1, <2>3, <2>4, <2>5 DEF Tracked
<1>2. ASSUME TypeOK, Tracked, AnyNext PROVE A
  BY <1>1, <1>2
<1>3. TypeOK /\ Tracked /\ [AnyNext]_vars => [A]_vars
  BY <1>2
<1> QED
  BY <1>3, TrackedHolds, PTL DEF AnyClient, DiscoveryFollowsCalls

\* When startDiscovery or stopDiscovery returns true, the radio is as they say,
\* or the command is on its way or its refusal unread; with every fault.
THEOREM DiscoveryFollowsCallsHolds == Spec => DiscoveryFollowsCalls
BY ClientFollows, SpecIsClient, PTL
=============================================================================
