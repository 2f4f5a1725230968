------------------------ MODULE TargetListener_proofs ------------------------
(* Proofs about the target listener task on the PN7160 driver, for every    *)
(* bound and every choice of commands.                                      *)
EXTENDS TargetListener, PN7160_proofs

-----------------------------------------------------------------------------
(* The task and the driver call it is inside                               *)

CallOf(t) ==
  IF t = "start" THEN "listen"
  ELSE IF t = "stop" THEN "stop"
  ELSE IF t = "refresh" THEN "open"
  ELSE IF t = "process" THEN "wait"
  ELSE IF t = "respond" THEN "send"
  ELSE "none"

\* The call in progress is the one the task made, and what it returned agrees
\* with the status of the driver.
TaskInv ==
  /\ call \in {"none", CallOf(task)}
  /\ call = "open" => status = "CLOSED"
  /\ task = "refresh" /\ call = "none" => (ret = "true" <=> status # "CLOSED")
  /\ task = "start" /\ call = "none" /\ ret = "true" => status # "CLOSED"
  /\ listenerStatus = "Listening" => status # "CLOSED" /\ task # "refresh"

\* A call ends with its result, and only one that succeeds changes the status.
CallGoesOn == call' = call /\ status' = status
CallEnds ==
  /\ call' = "none"
  /\ \/ status' = status /\ (call \in {"open", "listen"} => ret' = "false")
     \/ call = "open" /\ ret' = "true" /\ status' = "OPENED"
     \/ call = "listen" /\ ret' = "true" /\ status' = "LISTENING"

LEMMA DriverCalls ==
  ASSUME DriverStep, call # "poll"
  PROVE  call # "none" /\ (CallGoesOn \/ CallEnds)
<1>1. Fail => CallEnds
  BY DEF Fail, Return, CallEnds
<1>2. Advance => CallGoesOn \/ CallEnds
  <2> SUFFICES ASSUME Advance PROVE CallGoesOn \/ CallEnds
    OBVIOUS
  <2>1. CASE step < Len(Scripts[call])
    BY <2>1 DEF Advance, CallGoesOn
  <2>2. CASE ~(step < Len(Scripts[call]))
    BY <2>2 DEF Advance, Return, StatusAfter, CallEnds
  <2> QED BY <2>1, <2>2
<1>3. CASE ControlSend
  BY <1>3 DEF ControlSend, InControl, ControlCalls, CallGoesOn
<1>4. CASE ControlSendFails
  BY <1>1, <1>4 DEF ControlSendFails, InControl, ControlCalls
<1>5. CASE ControlRecv
  BY <1>1, <1>2, <1>5 DEF ControlRecv, Awaiting, InControl, ControlCalls
<1>6. CASE ControlRecvFails
  BY <1>1, <1>6 DEF ControlRecvFails, Awaiting, InControl, ControlCalls
<1>7. CASE WaitRecv
  BY <1>7 DEF WaitRecv, WaitCalls, Return, CallGoesOn, CallEnds
<1>8. CASE WaitEnds
  BY <1>8 DEF WaitEnds, WaitCalls, Return, CallEnds
<1>9. CASE SendData
  BY <1>9 DEF SendData, Return, CallEnds
<1> QED BY <1>3, <1>4, <1>5, <1>6, <1>7, <1>8, <1>9 DEF DriverStep

LEMMA ListenerInitOK == ListenerInit => TaskInv
BY DEF ListenerInit, Init, TaskInv

LEMMA TaskKeepsInv == TaskInv /\ TaskStep => TaskInv'
<1> SUFFICES ASSUME TaskInv, TaskStep PROVE TaskInv'
  OBVIOUS
<1>1. CASE NoCommand
  BY <1>1 DEF NoCommand, TaskInv, CallOf, vars, driverVars
<1>2. CASE TakeStart
  BY <1>2 DEF TakeStart, Take, BeginDiscovery, Enter, TaskInv, CallOf
<1>3. CASE StartEnds
  BY <1>3 DEF StartEnds, TaskInv, CallOf, vars, driverVars
<1>4. CASE TakeStop
  BY <1>4 DEF TakeStop, Take, Begin, Enter, TaskInv, CallOf, vars, driverVars
<1>5. CASE StopEnds
  BY <1>5 DEF StopEnds, TaskInv, CallOf, vars, driverVars
<1>6. CASE TakeConfigure
  BY <1>6 DEF TakeConfigure, Take, TaskInv, CallOf, vars, driverVars
<1>7. CASE Refresh
  BY <1>7 DEF Refresh, OpenBegin, OpenFails, Enter, Return, TaskInv, CallOf
<1>8. CASE RefreshEnds
  BY <1>8 DEF RefreshEnds, TaskInv, CallOf, vars, driverVars
<1>9. CASE Process
  BY <1>9 DEF Process, Begin, Enter, TaskInv, CallOf, vars, driverVars
<1>10. CASE Event
  BY <1>10 DEF Event, Begin, Enter, TaskInv, CallOf, vars, driverVars
<1>11. CASE Responded
  BY <1>11 DEF Responded, Begin, Enter, TaskInv, CallOf
<1> QED
  BY <1>1, <1>2, <1>3, <1>4, <1>5, <1>6, <1>7, <1>8, <1>9, <1>10, <1>11 DEF TaskStep

LEMMA DriverKeepsInv ==
  TaskInv /\ DriverStep /\ UNCHANGED listenerVars => TaskInv'
<1> SUFFICES ASSUME TaskInv, DriverStep, UNCHANGED listenerVars PROVE TaskInv'
  OBVIOUS
<1>1. call # "poll"
  BY DEF TaskInv, CallOf
<1>2. call # "none" /\ (CallGoesOn \/ CallEnds)
  BY <1>1, DriverCalls
<1> QED BY <1>2 DEF CallGoesOn, CallEnds, TaskInv, CallOf, listenerVars

LEMMA ListenerKeepsInv == TaskInv /\ [ListenerNext]_systemVars => TaskInv'
<1> SUFFICES ASSUME TaskInv, [ListenerNext]_systemVars PROVE TaskInv'
  OBVIOUS
<1>1. CASE ControllerMoves \/ ReaderMoves
  BY <1>1 DEF ControllerMoves, ReaderMoves, ChipStep, ChipAccepts, ChipRejects, ChipNotifies,
     ChipSendsData, ReaderStep, ReaderActivates, ReaderSends, ReaderLeaves,
     driverVars, listenerVars, TaskInv
<1>2. ASSUME NEW c \in Codes, Ask(c) PROVE TaskInv'
  BY <1>2 DEF Ask, vars, driverVars, TaskInv
<1>3. CASE UNCHANGED systemVars
  BY <1>3 DEF systemVars, vars, driverVars, listenerVars, TaskInv
<1> QED
  BY <1>1, <1>2, <1>3, TaskKeepsInv, DriverKeepsInv DEF ListenerNext, ListenerStep

-----------------------------------------------------------------------------
(* The task implements the abstract listener                               *)

LEMMA PromiseInit == ListenerInit => Promise!Init
BY DEF ListenerInit, Init, Promise!Init, DoingOf

\* What the steps of loop() are in the eyes of those who watch the task.
LEMMA TaskPromised == TaskInv /\ TaskStep => [Promise!Next]_Promise!vars
<1> SUFFICES ASSUME TaskInv, TaskStep PROVE Promise!Next \/ UNCHANGED Promise!vars
  OBVIOUS
<1>1. CASE NoCommand
  BY <1>1 DEF NoCommand, DoingOf, vars, driverVars, Promise!vars
<1>2. CASE TakeStart
  BY <1>2 DEF TakeStart, Take, BeginDiscovery, Enter, DoingOf,
     Promise!Next, Promise!TakeStart, Promise!Take
<1>3. CASE StartEnds
  <2>1. Promise!StartSucceeds \/ Promise!StartFails
    BY <1>3 DEF StartEnds, TaskInv, DoingOf, vars, driverVars,
       Promise!StartSucceeds, Promise!StartFails
  <2> QED BY <2>1 DEF Promise!Next
<1>4. CASE TakeStop
  <2>1. Promise!TakeStop
    BY <1>4 DEF TakeStop, Take, Begin, Enter, DoingOf, vars, driverVars,
       Promise!TakeStop, Promise!Take
  <2> QED BY <2>1 DEF Promise!Next
<1>5. CASE StopEnds
  BY <1>5 DEF StopEnds, DoingOf, vars, driverVars, Promise!Next, Promise!StopEnds
<1>6. CASE TakeConfigure
  <2>1. Promise!TakeOther
    BY <1>6 DEF TakeConfigure, Take, DoingOf, vars, driverVars, Promise!TakeOther, Promise!Take
  <2> QED BY <2>1 DEF Promise!Next
<1>7. CASE Refresh
  <2>1. Promise!OpenBegins
    BY <1>7 DEF Refresh, OpenBegin, OpenFails, Enter, Return, DoingOf, Promise!OpenBegins
  <2> QED BY <2>1 DEF Promise!Next
<1>8. CASE RefreshEnds
  <2>1. Promise!OpenEnds
    BY <1>8 DEF RefreshEnds, TaskInv, DoingOf, vars, driverVars, Promise!OpenEnds
  <2> QED BY <2>1 DEF Promise!Next
<1>9. CASE Process
  BY <1>9 DEF Process, Begin, Enter, DoingOf, vars, driverVars, Promise!vars
<1>10. CASE Event
  BY <1>10 DEF Event, Begin, Enter, DoingOf, vars, driverVars, Promise!vars
<1>11. CASE Responded
  BY <1>11 DEF Responded, Begin, Enter, DoingOf, Promise!vars
<1> QED
  BY <1>1, <1>2, <1>3, <1>4, <1>5, <1>6, <1>7, <1>8, <1>9, <1>10, <1>11 DEF TaskStep

\* A driver step is seen only when it opens the device.
LEMMA DriverPromised ==
  TaskInv /\ DriverStep /\ UNCHANGED listenerVars => [Promise!Next]_Promise!vars
<1> SUFFICES ASSUME TaskInv, DriverStep, UNCHANGED listenerVars
             PROVE  Promise!Next \/ UNCHANGED Promise!vars
  OBVIOUS
<1>1. call # "none" /\ (CallGoesOn \/ CallEnds)
  BY DriverCalls DEF TaskInv, CallOf
<1>2. CASE (status # "CLOSED")' = (status # "CLOSED")
  BY <1>2 DEF listenerVars, Promise!vars
<1>3. CASE (status # "CLOSED")' # (status # "CLOSED")
  <2>1. call \in {"open", "listen"} /\ status = "CLOSED" /\ status' # "CLOSED"
    BY <1>1, <1>3 DEF CallGoesOn, CallEnds
  <2>2. Promise!DeviceOpens
    BY <2>1 DEF TaskInv, CallOf, DoingOf, listenerVars, Promise!DeviceOpens
  <2> QED BY <2>2 DEF Promise!Next
<1> QED BY <1>2, <1>3

\* Behind its status and its queue the task is the abstract listener (loop,
\* refresh and process with every step of the driver, any faults and any bound).
THEOREM ListenerImplementsPromise == ListenerSpec => ImplementsListener
<1>1. TaskInv /\ [ListenerNext]_systemVars => [Promise!Next]_Promise!vars
  <2> SUFFICES ASSUME TaskInv, [ListenerNext]_systemVars
               PROVE  Promise!Next \/ UNCHANGED Promise!vars
    OBVIOUS
  <2>1. CASE ControllerMoves \/ ReaderMoves \/ UNCHANGED systemVars
    BY <2>1 DEF ControllerMoves, ReaderMoves, ChipStep, ChipAccepts, ChipRejects, ChipNotifies,
       ChipSendsData, ReaderStep, ReaderActivates, ReaderSends, ReaderLeaves,
       systemVars, vars, driverVars, listenerVars, Promise!vars
  <2>2. ASSUME NEW c \in Codes, Ask(c) PROVE Promise!Next
    BY <2>2 DEF Ask, vars, driverVars, Promise!Next, Promise!Queue
  <2> QED
    BY <2>1, <2>2, TaskPromised, DriverPromised DEF ListenerNext, ListenerStep
<1> QED
  BY ListenerInitOK, PromiseInit, ListenerKeepsInv, <1>1, PTL
     DEF ListenerSpec, ImplementsListener, Promise!Spec

-----------------------------------------------------------------------------
(* Types                                                                   *)

LEMMA TaskCalls == TaskStep => AnyCall \/ UNCHANGED vars
BY DEF TaskStep, NoCommand, TakeStart, StartEnds, TakeStop, StopEnds, TakeConfigure,
   Refresh, RefreshEnds, Process, Event, Responded, AnyCall, WaitCalls

\* The task is a client of the driver: whatever it does in loop(), the driver and
\* the controller see calls of the class, one at a time.
LEMMA ListenerIsClient == ListenerSpec => AnyClient
<1>1. ListenerInit => Init
  BY DEF ListenerInit
<1>2. [ListenerNext]_systemVars => [AnyNext]_vars
  BY TaskCalls
     DEF ListenerNext, ListenerStep, ControllerMoves, ReaderMoves, Ask, systemVars, AnyNext
<1> QED
  BY <1>1, <1>2, PTL DEF ListenerSpec, AnyClient

\* Under the task, with any commands and any faults: the driver's status and its bus
\* agree, and where a Start or a Stop succeeded the radio follows the call.
THEOREM ListenerDriverFollows == ListenerSpec => []StatusMeansBus /\ DiscoveryFollowsCalls
BY ListenerIsClient, ClientMeansBus, ClientFollows, PTL

\* Under the task a device that is opened has nothing outstanding and its radio off,
\* whatever the commands before it left behind (refresh), if the VEN pulse works.
THEOREM ListenerOpensClean == ASSUME "gpio" \notin Faults PROVE ListenerSpec => OpenIsClean
<1>1. AnyClient => OpenIsClean
  BY ClientOpensClean
<1> QED
  BY <1>1, ListenerIsClient, PTL

LEMMA ListenerTypesKept == ListenerTypeOK /\ [ListenerNext]_systemVars => ListenerTypeOK'
<1> SUFFICES ASSUME ListenerTypeOK, [ListenerNext]_systemVars PROVE ListenerTypeOK'
  OBVIOUS
<1>1. TypeOK'
  <2>1. CASE AnyCall
    BY <2>1, CallTyped DEF ListenerTypeOK
  <2>2. CASE UNCHANGED vars
    BY <2>2, StutterTyped DEF ListenerTypeOK
  <2> QED
    BY <2>1, <2>2, TaskCalls, DriverTyped, ControllerTyped
       DEF ListenerTypeOK, ListenerNext, ListenerStep, ControllerMoves, ReaderMoves, Ask, systemVars
<1>2. commandQueue' \in Seq(Codes) /\ asked' \in 0..MaxCommands
  <2>1. ASSUME NEW c \in Codes, Ask(c)
        PROVE  commandQueue' \in Seq(Codes) /\ asked' \in 0..MaxCommands
    BY <2>1, MaxCommandsAssumption DEF Ask, ListenerTypeOK
  <2>2. CASE TaskStep
    BY <2>2 DEF TaskStep, NoCommand, TakeStart, StartEnds, TakeStop, StopEnds, TakeConfigure, Take,
       Refresh, RefreshEnds, Process, Event, Responded, ListenerTypeOK
  <2>3. CASE UNCHANGED <<listenerVars, asked>>
    BY <2>3 DEF listenerVars, ListenerTypeOK
  <2> QED
    BY <2>1, <2>2, <2>3 DEF ListenerNext, ListenerStep, ControllerMoves, ReaderMoves, systemVars
<1>3. listenerStatus' \in {"Absent", "Idle", "Listening"} /\ task' \in TaskPcs
  <2>1. CASE TaskStep
    BY <2>1 DEF TaskStep, NoCommand, TakeStart, StartEnds, TakeStop, StopEnds, TakeConfigure,
       Refresh, RefreshEnds, Process, Event, Responded, ListenerTypeOK, TaskPcs
  <2>2. CASE UNCHANGED <<listenerStatus, task>>
    BY <2>2 DEF ListenerTypeOK
  <2> QED
    BY <2>1, <2>2
       DEF ListenerNext, ListenerStep, ControllerMoves, ReaderMoves, Ask, systemVars, listenerVars
<1> QED BY <1>1, <1>2, <1>3 DEF ListenerTypeOK

\* Every state of task, driver and controller is well typed.
THEOREM ListenerTyped == ListenerSpec => []ListenerTypeOK
<1>1. ListenerInit => ListenerTypeOK
  BY InitTyped, MaxCommandsAssumption DEF ListenerInit, ListenerTypeOK, TaskPcs
<1> QED BY <1>1, ListenerTypesKept, PTL DEF ListenerSpec

-----------------------------------------------------------------------------
(* Listening means that the radio is on                                    *)

LEMMA WillListenAppend ==
  ASSUME NEW S, NEW s \in Seq(S), NEW x \in S, x \notin Silencing, NEW r, x = "DISCOVER" \/ WillListen(s, r)
  PROVE  WillListen(Append(s, x), r)
<1> DEFINE t == Append(s, x)
<1>1. t \in Seq(S) /\ Len(t) = Len(s) + 1 /\ t[Len(s) + 1] = x /\ \A k \in 1..Len(s) : t[k] = s[k]
  OBVIOUS
<1> HIDE DEF t
<1>2. CASE x = "DISCOVER"
  BY <1>1, <1>2 DEF WillListen
<1>3. CASE WillListen(s, r)
  BY <1>1, <1>3 DEF WillListen
<1> QED BY <1>2, <1>3 DEF t

\* The controller takes the first command, and what it still owes for it is not a
\* command.
LEMMA WillListenTail ==
  ASSUME NEW S, NEW s \in Seq(S), s # <<>>, NEW r, WillListen(s, r), NEW q,
         Head(s) = "DISCOVER" => q # "idle",
         Head(s) \notin Silencing => (r # "idle" => q # "idle")
  PROVE  WillListen(Tail(s), q)
<1> DEFINE t == Tail(s)
<1>1. /\ Len(s) \in Nat /\ Len(s) >= 1 /\ s[1] = Head(s)
      /\ Len(t) = Len(s) - 1 /\ \A k \in 1..Len(t) : t[k] = s[k + 1]
  OBVIOUS
<1> HIDE DEF t
<1>2. ASSUME NEW i \in 1..Len(s), s[i] = "DISCOVER", \A k \in i..Len(s) : s[k] \notin Silencing
      PROVE  WillListen(t, q)
  <2>1. CASE i = 1
    <3>1. q # "idle" /\ \A k \in 1..Len(t) : t[k] \notin Silencing
      BY <1>1, <1>2, <2>1
    <3> QED BY <3>1 DEF WillListen
  <2>2. CASE i > 1
    <3>1. /\ i - 1 \in 1..Len(t) /\ t[i - 1] = "DISCOVER"
          /\ \A k \in (i - 1)..Len(t) : t[k] \notin Silencing
      BY <1>1, <1>2, <2>2
    <3> QED BY <3>1 DEF WillListen
  <2> QED BY <1>1, <2>1, <2>2
<1>3. ASSUME r # "idle", \A k \in 1..Len(s) : s[k] \notin Silencing
      PROVE  WillListen(t, q)
  BY <1>1, <1>3 DEF WillListen
<1> QED BY <1>2, <1>3 DEF WillListen, t

LEMMA WillListenCons ==
  ASSUME NEW S, NEW s \in Seq(S), NEW x \in S, x \notin Silencing, NEW r, WillListen(s, r)
  PROVE  WillListen(<<x>> \o s, r)
<1> DEFINE t == <<x>> \o s
<1>1. Len(t) = Len(s) + 1 /\ t[1] = x /\ \A k \in 1..Len(s) : t[k + 1] = s[k]
  OBVIOUS
<1> HIDE DEF t
<1>2. ASSUME NEW i \in 1..Len(s), s[i] = "DISCOVER", \A k \in i..Len(s) : s[k] \notin Silencing
      PROVE  WillListen(t, r)
  <2>1. i + 1 \in 1..Len(t) /\ t[i + 1] = "DISCOVER"
    BY <1>1, <1>2
  <2>2. ASSUME NEW k \in (i + 1)..Len(t) PROVE t[k] \notin Silencing
    BY <1>1, <1>2, k - 1 \in i..Len(s), t[(k - 1) + 1] = s[k - 1]
  <2> QED BY <2>1, <2>2 DEF WillListen
<1>3. ASSUME r # "idle", \A k \in 1..Len(s) : s[k] \notin Silencing
      PROVE  WillListen(t, r)
  <2>1. ASSUME NEW k \in 1..Len(t) PROVE t[k] \notin Silencing
    <3>1. CASE k = 1
      BY <1>1, <3>1
    <3>2. CASE k > 1
      BY <1>1, <1>3, <3>2, k - 1 \in 1..Len(s), t[(k - 1) + 1] = s[k - 1]
    <3> QED BY <1>1, <3>1, <3>2
  <2> QED BY <1>3, <2>1 DEF WillListen
<1> QED BY <1>2, <1>3 DEF WillListen, t

\* A Start that has sent its DISCOVER has the radio on, and so has the listener
\* that says so, until it is in the middle of a Stop.
RadioInv ==
  /\ call = "listen" /\ step = 4 /\ sent => RadioOn
  /\ task = "start" /\ call = "none" /\ ret = "true" => RadioOn
  /\ listenerStatus = "Listening" /\ task # "stop" => RadioOn

ListenInv == ListenerTypeOK /\ TaskInv /\ RadioInv

LEMMA ListenScript ==
  /\ Len(Scripts["listen"]) = 4 /\ Scripts["listen"][4] = "DISCOVER"
  /\ \A i \in 1..4 : Scripts["listen"][i] \in Commands \ (Silencing \cup {"RESET_NTF"})
BY DEF Scripts, Commands, Silencing

\* The controller, unless it rejects commands, and the reader leave the radio on.
LEMMA ChipKeepsRadio ==
  "reject" \notin Faults /\ ListenerTypeOK /\ RadioOn /\ (ChipStep \/ ReaderStep) => RadioOn'
<1> SUFFICES ASSUME "reject" \notin Faults, cmds \in Seq(Tasks), RadioOn, ChipStep \/ ReaderStep
             PROVE  RadioOn'
  BY DEF ListenerTypeOK, TypeOK, ChipTypeOK
<1> USE DEF RadioOn
<1>1. CASE ReaderStep
  <2>1. cmds' = cmds /\ rf' # "idle"
    BY <1>1 DEF ReaderStep, ReaderActivates, ReaderSends, ReaderLeaves
  <2> QED BY <2>1 DEF WillListen
<1>2. CASE ChipAccepts
  <2>1. cmds # <<>> /\ Head(cmds) \in Commands /\ Accepts(Head(cmds))
    BY <1>2 DEF ChipAccepts
  <2>2. /\ Head(cmds) = "DISCOVER" => rf' # "idle"
        /\ Head(cmds) \notin Silencing => (rf # "idle" => rf' # "idle")
    BY <1>2 DEF ChipAccepts, Silencing
  <2>3. WillListen(Tail(cmds), rf')
    BY <2>1, <2>2, WillListenTail
  <2>4. Tail(cmds) \in Seq(Tasks)
    BY <2>1
  <2>5. ASSUME NEW n \in {"RESET_NTF", "DEACTIVATED"} PROVE WillListen(<<n>> \o Tail(cmds), rf')
    <3>1. n \in Tasks /\ n \notin Silencing
      BY DEF Tasks, Notifications, Silencing
    <3> QED BY <2>3, <2>4, <3>1, WillListenCons
  <2>6. Owed(Head(cmds)) \in {<<"RESET_NTF">>, <<"DEACTIVATED">>, <<>>}
    BY DEF Owed
  <2>7. <<>> \o Tail(cmds) = Tail(cmds)
    BY <2>4
  <2>8. cmds' = Owed(Head(cmds)) \o Tail(cmds)
    BY <1>2 DEF ChipAccepts
  <2> QED BY <2>3, <2>5, <2>6, <2>7, <2>8
<1>3. CASE ChipRejects
  <2>1. cmds # <<>> /\ ~Accepts(Head(cmds)) /\ cmds' = Tail(cmds) /\ rf' = rf
    BY <1>3 DEF ChipRejects
  <2>2. Head(cmds) = "DISCOVER" => rf # "idle"
    BY <2>1 DEF Accepts
  <2> QED BY <2>1, <2>2, WillListenTail
<1>4. CASE ChipNotifies \/ ChipSendsData
  <2>1. cmds # <<>> /\ Head(cmds) # "DISCOVER" /\ cmds' = Tail(cmds) /\ rf' = rf
    BY <1>4 DEF ChipNotifies, ChipSendsData, Notifications
  <2> QED BY <2>1, WillListenTail
<1> QED BY <1>1, <1>2, <1>3, <1>4 DEF ChipStep

\* What the driver sends inside a call of the listener, and when it ends one.
LEMMA DriverSends ==
  ASSUME ListenerTypeOK, DriverStep, call \in {"listen", "wait", "send"}
  PROVE  /\ rf' = rf
         /\ \/ cmds' = cmds
            \/ \E x \in Tasks \ Silencing : cmds' = Append(cmds, x)
         /\ call' = "listen" /\ step' = 4 /\ sent' =>
               (sent /\ step = 4) \/ cmds' = Append(cmds, "DISCOVER")
         /\ call = "listen" /\ call' = "none" /\ ret' = "true" =>
               sent /\ step = 4 /\ cmds' = cmds
<1>1. call = "listen" => InControl /\ step \in 1..4 /\ Step = Scripts["listen"][step] /\ ~ReadsOnly
  BY ListenScript DEF ListenerTypeOK, TypeOK, DriverTypeOK, InControl, ControlCalls, Step, ReadsOnly
<1>2. call = "listen" => Step \in Tasks \ Silencing /\ (step = 4 => Step = "DISCOVER")
  BY <1>1, ListenScript DEF Tasks
<1>3. call # "listen" => ~InControl
  BY DEF InControl, ControlCalls
<1>4. Fail => call' = "none" /\ ret' = "false"
  BY DEF Fail, Return
<1>5. CASE ControlSend
  BY <1>1, <1>2, <1>3, <1>5 DEF ControlSend
<1>6. CASE ControlSendFails
  BY <1>1, <1>2, <1>3, <1>4, <1>6 DEF ControlSendFails
<1>7. CASE ControlRecv
  <2>1. call = "listen" /\ sent /\ cmds' = cmds /\ rf' = rf /\ (Advance \/ Fail)
    BY <1>1, <1>3, <1>7 DEF ControlRecv, Awaiting
  <2>2. CASE Fail
    BY <1>4, <2>1, <2>2
  <2>3. CASE Advance /\ step < 4
    BY <1>1, <2>1, <2>3, ListenScript DEF Advance
  <2>4. CASE Advance /\ step = 4
    BY <2>1, <2>4, ListenScript DEF Advance, Return
  <2> QED BY <1>1, <2>1, <2>2, <2>3, <2>4
<1>8. CASE ControlRecvFails
  BY <1>1, <1>3, <1>4, <1>8 DEF ControlRecvFails, Awaiting
<1>9. CASE WaitRecv
  BY <1>9 DEF WaitRecv, WaitCalls, Return
<1>10. CASE WaitEnds
  BY <1>10 DEF WaitEnds, WaitCalls, Return
<1>11. CASE SendData
  BY <1>11 DEF SendData, Return, Tasks, Silencing
<1> QED BY <1>5, <1>6, <1>7, <1>8, <1>9, <1>10, <1>11 DEF DriverStep

LEMMA DriverKeepsRadio ==
  ListenInv /\ DriverStep /\ UNCHANGED listenerVars => RadioInv'
<1> SUFFICES ASSUME ListenInv, DriverStep, UNCHANGED listenerVars PROVE RadioInv'
  OBVIOUS
<1>1. call # "none" /\ call = CallOf(task) /\ call' \in {"none", call}
  BY DriverCalls DEF ListenInv, TaskInv, CallOf, CallGoesOn, CallEnds
<1>2. CASE call \in {"listen", "wait", "send"}
  <2>1. cmds \in Seq(Tasks)
    BY DEF ListenInv, ListenerTypeOK, TypeOK, ChipTypeOK
  <2>2. RadioOn => RadioOn'
    <3>1. /\ rf' = rf
          /\ \/ cmds' = cmds
             \/ \E x \in Tasks \ Silencing : cmds' = Append(cmds, x)
      BY <1>2, DriverSends DEF ListenInv
    <3>2. CASE cmds' = cmds
      BY <3>1, <3>2 DEF RadioOn
    <3>3. ASSUME NEW x \in Tasks \ Silencing, cmds' = Append(cmds, x), RadioOn PROVE RadioOn'
      <4>1. WillListen(Append(cmds, x), rf)
        BY <2>1, <3>3, WillListenAppend DEF RadioOn
      <4> QED BY <3>1, <3>3, <4>1 DEF RadioOn
    <3> QED BY <3>1, <3>2, <3>3
  <2>3. cmds' = Append(cmds, "DISCOVER") => RadioOn'
    <3>1. WillListen(Append(cmds, "DISCOVER"), rf)
      BY <2>1, WillListenAppend DEF Tasks, Commands, Silencing
    <3> QED BY <1>2, <3>1, DriverSends DEF ListenInv, RadioOn
  <2>4. call' = "listen" /\ step' = 4 /\ sent' => RadioOn'
    BY <1>1, <1>2, <2>2, <2>3, DriverSends DEF ListenInv, RadioInv
  <2>5. task' = "start" /\ call' = "none" /\ ret' = "true" => RadioOn'
    <3> SUFFICES ASSUME task' = "start", call' = "none", ret' = "true" PROVE RadioOn'
      OBVIOUS
    <3>1. call = "listen"
      BY <1>1 DEF CallOf, listenerVars
    <3> QED BY <1>2, <2>2, <3>1, DriverSends DEF ListenInv, RadioInv
  <2>6. listenerStatus' = "Listening" /\ task' # "stop" => RadioOn'
    BY <2>2 DEF ListenInv, RadioInv, listenerVars
  <2> QED BY <2>4, <2>5, <2>6 DEF RadioInv
<1>3. CASE call \notin {"listen", "wait", "send"}
  BY <1>1, <1>3 DEF ListenInv, TaskInv, RadioInv, CallOf, listenerVars
<1> QED BY <1>2, <1>3

LEMMA TaskKeepsRadio == ListenInv /\ TaskStep => RadioInv'
<1> SUFFICES ASSUME ListenInv, TaskStep PROVE RadioInv'
  OBVIOUS
<1> USE DEF ListenInv, TaskInv, RadioInv, CallOf
<1>1. CASE Refresh
  BY <1>1 DEF Refresh, OpenBegin, OpenFails, Enter, Return
<1>2. CASE ~Refresh
  <2>1. cmds' = cmds /\ rf' = rf
    BY <1>2 DEF TaskStep, NoCommand, TakeStart, StartEnds, TakeStop, StopEnds, TakeConfigure,
       RefreshEnds, Process, Event, Responded, BeginDiscovery, Begin, vars, driverVars, chipVars
  <2>2. RadioOn' = RadioOn
    BY <2>1 DEF RadioOn
  <2>3. CASE NoCommand
    BY <2>2, <2>3 DEF NoCommand, vars, driverVars
  <2>4. CASE TakeStart
    BY <2>2, <2>4 DEF TakeStart, Take, BeginDiscovery, Enter
  <2>5. CASE StartEnds
    BY <2>2, <2>5 DEF StartEnds, vars, driverVars
  <2>6. CASE TakeStop
    BY <2>2, <2>6 DEF TakeStop, Take, Begin, Enter, vars, driverVars
  <2>7. CASE StopEnds
    BY <2>2, <2>7 DEF StopEnds, vars, driverVars
  <2>8. CASE TakeConfigure
    BY <2>2, <2>8 DEF TakeConfigure, Take, vars, driverVars
  <2>9. CASE RefreshEnds
    BY <2>2, <2>9 DEF RefreshEnds, vars, driverVars
  <2>10. CASE Process
    BY <2>2, <2>10 DEF Process, Begin, Enter, vars, driverVars
  <2>11. CASE Event
    BY <2>2, <2>11 DEF Event, Begin, Enter, vars, driverVars
  <2>12. CASE Responded
    BY <2>2, <2>12 DEF Responded, Begin, Enter
  <2> QED
    BY <1>2, <2>3, <2>4, <2>5, <2>6, <2>7, <2>8, <2>9, <2>10, <2>11, <2>12 DEF TaskStep
<1> QED BY <1>1, <1>2

\* While the listener says Listening the radio is on, or will be as soon as the
\* controller gets to it, if it rejects no command: startListening and
\* stopListening with any faults of the bus, any answers and any bound.
THEOREM ListeningMeansDiscoveringHolds ==
  "reject" \notin Faults => (ListenerSpec => []ListeningMeansDiscovering)
<1> SUFFICES ASSUME "reject" \notin Faults PROVE ListenerSpec => []ListeningMeansDiscovering
  OBVIOUS
<1>1. ListenerInit => ListenInv
  BY ListenerInitOK, InitTyped, MaxCommandsAssumption
     DEF ListenerInit, Init, ListenInv, ListenerTypeOK, TaskPcs, RadioInv
<1>2. ListenInv /\ [ListenerNext]_systemVars => ListenInv'
  <2> SUFFICES ASSUME ListenInv, [ListenerNext]_systemVars PROVE RadioInv'
    BY ListenerTypesKept, ListenerKeepsInv DEF ListenInv
  <2>1. CASE ControllerMoves \/ ReaderMoves
    <3>1. UNCHANGED driverVars /\ UNCHANGED listenerVars
      BY <2>1 DEF ControllerMoves, ReaderMoves, ChipStep, ChipAccepts, ChipRejects, ChipNotifies,
         ChipSendsData, ReaderStep, ReaderActivates, ReaderSends, ReaderLeaves
    <3>2. RadioOn => RadioOn'
      BY <2>1, ChipKeepsRadio DEF ControllerMoves, ReaderMoves, ListenInv
    <3> QED BY <3>1, <3>2 DEF ListenInv, RadioInv, driverVars, listenerVars
  <2>2. CASE UNCHANGED <<vars, listenerStatus, task>>
    BY <2>2 DEF ListenInv, RadioInv, RadioOn, vars, driverVars, chipVars
  <2> QED
    BY <2>1, <2>2, TaskKeepsRadio, DriverKeepsRadio
       DEF ListenerNext, ListenerStep, Ask, systemVars, listenerVars
<1>3. ListenInv => ListeningMeansDiscovering
  BY DEF ListenInv, RadioInv, ListeningMeansDiscovering
<1> QED BY <1>1, <1>2, <1>3, PTL DEF ListenerSpec

-----------------------------------------------------------------------------
(* A Stop turns the radio off                                              *)

\* With the commands c outstanding and the radio in state r, the radio is off once
\* the controller has done them all.
WillBeOff(c, r) ==
  \/ \E i \in 1..Len(c) : c[i] \in Silencing /\ \A k \in i..Len(c) : c[k] # "DISCOVER"
  \/ r = "idle" /\ \A k \in 1..Len(c) : c[k] # "DISCOVER"

LEMMA OffIsNotOn ==
  ASSUME NEW S, NEW c \in Seq(S), NEW r, WillBeOff(c, r)
  PROVE  ~WillListen(c, r)
<1>1. Len(c) \in Nat
  OBVIOUS
<1>2. CASE \E i \in 1..Len(c) : c[i] \in Silencing /\ \A k \in i..Len(c) : c[k] # "DISCOVER"
  <2>1. PICK i \in 1..Len(c) : c[i] \in Silencing /\ \A k \in i..Len(c) : c[k] # "DISCOVER"
    BY <1>2
  <2>2. ASSUME NEW j \in 1..Len(c), c[j] = "DISCOVER", \A k \in j..Len(c) : c[k] \notin Silencing
        PROVE  FALSE
    <3>1. CASE i <= j
      BY <1>1, <2>1, <2>2, <3>1
    <3>2. CASE j <= i
      BY <1>1, <2>1, <2>2, <3>2
    <3> QED BY <1>1, <3>1, <3>2
  <2> QED BY <2>1, <2>2 DEF WillListen
<1>3. CASE r = "idle" /\ \A k \in 1..Len(c) : c[k] # "DISCOVER"
  BY <1>3 DEF WillListen
<1> QED BY <1>2, <1>3 DEF WillBeOff

LEMMA WillBeOffAppend ==
  ASSUME NEW S, NEW s \in Seq(S), NEW x \in Silencing, x \in S, NEW r
  PROVE  WillBeOff(Append(s, x), r)
<1> DEFINE t == Append(s, x)
<1>1. Len(s) \in Nat /\ Len(t) = Len(s) + 1 /\ t[Len(s) + 1] = x
  OBVIOUS
<1> HIDE DEF t
<1>2. t[Len(t)] \in Silencing /\ \A k \in Len(t)..Len(t) : t[k] # "DISCOVER"
  BY <1>1 DEF Silencing
<1>3. Len(t) \in 1..Len(t)
  BY <1>1
<1> QED BY <1>2, <1>3 DEF WillBeOff, t

LEMMA WillBeOffTail ==
  ASSUME NEW S, NEW s \in Seq(S), s # <<>>, NEW r, WillBeOff(s, r), NEW q,
         Head(s) \in Silencing => q = "idle",
         Head(s) # "DISCOVER" => (r = "idle" => q = "idle")
  PROVE  WillBeOff(Tail(s), q)
<1> DEFINE t == Tail(s)
<1>1. /\ Len(s) \in Nat /\ Len(s) >= 1 /\ s[1] = Head(s)
      /\ Len(t) = Len(s) - 1 /\ \A k \in 1..Len(t) : t[k] = s[k + 1]
  OBVIOUS
<1> HIDE DEF t
<1>2. ASSUME NEW i \in 1..Len(s), s[i] \in Silencing, \A k \in i..Len(s) : s[k] # "DISCOVER"
      PROVE  WillBeOff(t, q)
  <2>1. CASE i = 1
    <3>1. q = "idle" /\ \A k \in 1..Len(t) : t[k] # "DISCOVER"
      BY <1>1, <1>2, <2>1
    <3> QED BY <3>1 DEF WillBeOff
  <2>2. CASE i > 1
    <3>1. /\ i - 1 \in 1..Len(t) /\ t[i - 1] \in Silencing
          /\ \A k \in (i - 1)..Len(t) : t[k] # "DISCOVER"
      BY <1>1, <1>2, <2>2
    <3> QED BY <3>1 DEF WillBeOff
  <2> QED BY <1>1, <2>1, <2>2
<1>3. ASSUME r = "idle", \A k \in 1..Len(s) : s[k] # "DISCOVER"
      PROVE  WillBeOff(t, q)
  BY <1>1, <1>3 DEF WillBeOff
<1> QED BY <1>2, <1>3 DEF WillBeOff, t

LEMMA WillBeOffCons ==
  ASSUME NEW S, NEW s \in Seq(S), NEW x \in S, x # "DISCOVER", NEW r, WillBeOff(s, r)
  PROVE  WillBeOff(<<x>> \o s, r)
<1> DEFINE t == <<x>> \o s
<1>1. Len(t) = Len(s) + 1 /\ t[1] = x /\ \A k \in 1..Len(s) : t[k + 1] = s[k]
  OBVIOUS
<1> HIDE DEF t
<1>2. ASSUME NEW i \in 1..Len(s), s[i] \in Silencing, \A k \in i..Len(s) : s[k] # "DISCOVER"
      PROVE  WillBeOff(t, r)
  <2>1. i + 1 \in 1..Len(t) /\ t[i + 1] \in Silencing
    BY <1>1, <1>2
  <2>2. ASSUME NEW k \in (i + 1)..Len(t) PROVE t[k] # "DISCOVER"
    BY <1>1, <1>2, k - 1 \in i..Len(s), t[(k - 1) + 1] = s[k - 1]
  <2> QED BY <2>1, <2>2 DEF WillBeOff
<1>3. ASSUME r = "idle", \A k \in 1..Len(s) : s[k] # "DISCOVER"
      PROVE  WillBeOff(t, r)
  <2>1. ASSUME NEW k \in 1..Len(t) PROVE t[k] # "DISCOVER"
    <3>1. CASE k = 1
      BY <1>1, <3>1
    <3>2. CASE k > 1
      BY <1>1, <1>3, <3>2, k - 1 \in 1..Len(s), t[(k - 1) + 1] = s[k - 1]
    <3> QED BY <1>1, <3>1, <3>2
  <2> QED BY <1>3, <2>1 DEF WillBeOff
<1> QED BY <1>2, <1>3 DEF WillBeOff, t

StopInv ==
  task = "stop" /\ listenerStatus = "Listening" =>
    /\ call = "stop" => step = 1
    /\ call = "none" \/ sent => WillBeOff(cmds, rf)

StopsInv == ListenerTypeOK /\ TaskInv /\ BusInv /\ StopInv

LEMMA ChipKeepsOff ==
  "reject" \notin Faults /\ ListenerTypeOK /\ WillBeOff(cmds, rf) /\ (ChipStep \/ ReaderStep)
    => WillBeOff(cmds', rf')
<1> SUFFICES ASSUME "reject" \notin Faults, cmds \in Seq(Tasks), WillBeOff(cmds, rf),
                    ChipStep \/ ReaderStep
             PROVE  WillBeOff(cmds', rf')
  BY DEF ListenerTypeOK, TypeOK, ChipTypeOK
<1>1. CASE ReaderStep
  <2>1. cmds' = cmds /\ rf # "idle"
    BY <1>1 DEF ReaderStep, ReaderActivates, ReaderSends, ReaderLeaves
  <2> QED BY <2>1 DEF WillBeOff
<1>2. CASE ChipAccepts
  <2>1. cmds # <<>> /\ Head(cmds) \in Commands
    BY <1>2 DEF ChipAccepts
  <2>2. /\ Head(cmds) \in Silencing => rf' = "idle"
        /\ Head(cmds) # "DISCOVER" => (rf = "idle" => rf' = "idle")
    BY <1>2 DEF ChipAccepts, Silencing
  <2>3. WillBeOff(Tail(cmds), rf')
    BY <2>1, <2>2, WillBeOffTail
  <2>4. Tail(cmds) \in Seq(Tasks)
    BY <2>1
  <2>5. ASSUME NEW n \in {"RESET_NTF", "DEACTIVATED"} PROVE WillBeOff(<<n>> \o Tail(cmds), rf')
    <3>1. n \in Tasks /\ n # "DISCOVER"
      BY DEF Tasks, Notifications
    <3> QED BY <2>3, <2>4, <3>1, WillBeOffCons
  <2>6. Owed(Head(cmds)) \in {<<"RESET_NTF">>, <<"DEACTIVATED">>, <<>>}
    BY DEF Owed
  <2>7. <<>> \o Tail(cmds) = Tail(cmds)
    BY <2>4
  <2>8. cmds' = Owed(Head(cmds)) \o Tail(cmds)
    BY <1>2 DEF ChipAccepts
  <2> QED BY <2>3, <2>5, <2>6, <2>7, <2>8
<1>3. CASE ChipRejects
  <2>1. cmds # <<>> /\ ~Accepts(Head(cmds)) /\ cmds' = Tail(cmds) /\ rf' = rf
    BY <1>3 DEF ChipRejects
  <2>2. Head(cmds) \in Silencing => rf = "idle"
    BY <2>1 DEF Accepts, Silencing
  <2> QED BY <2>1, <2>2, WillBeOffTail
<1>4. CASE ChipNotifies \/ ChipSendsData
  <2>1. cmds # <<>> /\ Head(cmds) \notin Silencing /\ cmds' = Tail(cmds) /\ rf' = rf
    BY <1>4 DEF ChipNotifies, ChipSendsData, Notifications, Silencing
  <2> QED BY <2>1, WillBeOffTail
<1> QED BY <1>1, <1>2, <1>3, <1>4 DEF ChipStep

LEMMA StopScript == Len(Scripts["stop"]) = 1 /\ Scripts["stop"][1] = "DEACTIVATE"
BY DEF Scripts

\* stopDiscovery sends its DEACTIVATE first, and that cannot fail.
LEMMA StopSends ==
  ASSUME "bus" \notin Faults, busOpen, DriverStep, call = "stop", step = 1
  PROVE  /\ rf' = rf
         /\ \/ sent /\ cmds' = cmds /\ call' = "none"
            \/ ~sent /\ cmds' = Append(cmds, "DEACTIVATE") /\ call' = "stop" /\ step' = 1
<1>1. Step = "DEACTIVATE" /\ ~ReadsOnly
  BY StopScript DEF Step, ReadsOnly
<1>2. Advance \/ Fail => call' = "none"
  <2>1. ~(step < Len(Scripts[call]))
    BY StopScript
  <2>2. Advance => Return("true")
    BY <2>1 DEF Advance
  <2>3. Fail => Return("false")
    BY DEF Fail
  <2> QED BY <2>2, <2>3 DEF Return
<1>3. "stop" \notin WaitCalls /\ "stop" # "send"
  BY DEF WaitCalls
<1>4. CASE ControlSend
  BY <1>1, <1>4 DEF ControlSend
<1>5. CASE ControlSendFails
  BY <1>1, <1>2, <1>5 DEF ControlSendFails
<1>6. CASE ControlRecv \/ ControlRecvFails
  <2>1. sent /\ UNCHANGED <<cmds, rf>>
    BY <1>1, <1>6 DEF ControlRecv, ControlRecvFails, Awaiting
  <2>2. Advance \/ Fail
    BY <1>6 DEF ControlRecv, ControlRecvFails
  <2> QED BY <1>2, <2>1, <2>2
<1> QED
  BY <1>3, <1>4, <1>5, <1>6 DEF DriverStep, WaitRecv, WaitEnds, SendData

LEMMA StopInvKept ==
  Faults \cap {"bus", "reject"} = {} /\ StopsInv /\ [ListenerNext]_systemVars => StopInv'
<1> SUFFICES ASSUME Faults \cap {"bus", "reject"} = {}, StopsInv, [ListenerNext]_systemVars,
                    task' = "stop", listenerStatus' = "Listening"
             PROVE  /\ call' = "stop" => step' = 1
                    /\ call' = "none" \/ sent' => WillBeOff(cmds', rf')
  BY DEF StopInv
<1> USE DEF StopsInv
<1>1. CASE TaskStep
  <2>1. TakeStop
    BY <1>1 DEF TaskStep, NoCommand, TakeStart, StartEnds, StopEnds, TakeConfigure, Take,
       Refresh, RefreshEnds, Process, Event, Responded
  <2> QED
    BY <2>1 DEF TakeStop, Take, Begin, Enter, TaskInv
<1>2. CASE DriverStep /\ UNCHANGED <<listenerVars, asked>>
  <2>1. call = "stop" /\ step = 1 /\ busOpen
    BY <1>2, DriverCalls
       DEF TaskInv, CallOf, StopInv, BusInv, StatusMeansBus, listenerVars
  <2>2. cmds \in Seq(Tasks) /\ "DEACTIVATE" \in Tasks /\ "DEACTIVATE" \in Silencing
    BY DEF ListenerTypeOK, TypeOK, ChipTypeOK, Tasks, Commands, Silencing
  <2>3. WillBeOff(Append(cmds, "DEACTIVATE"), rf)
    BY <2>2, WillBeOffAppend
  <2>4. sent => WillBeOff(cmds, rf)
    BY <1>2, <2>1 DEF StopInv, listenerVars
  <2> QED BY <1>2, <2>1, <2>3, <2>4, StopSends
<1>3. CASE ControllerMoves \/ ReaderMoves
  <2>1. UNCHANGED driverVars /\ UNCHANGED listenerVars
    BY <1>3 DEF ControllerMoves, ReaderMoves, ChipStep, ChipAccepts, ChipRejects, ChipNotifies,
       ChipSendsData, ReaderStep, ReaderActivates, ReaderSends, ReaderLeaves
  <2>2. WillBeOff(cmds, rf) => WillBeOff(cmds', rf')
    BY <1>3, ChipKeepsOff DEF ControllerMoves, ReaderMoves
  <2> QED BY <2>1, <2>2 DEF StopInv, driverVars, listenerVars
<1>4. CASE UNCHANGED <<vars, listenerStatus, task>>
  BY <1>4 DEF StopInv, vars, driverVars, chipVars
<1> QED
  BY <1>1, <1>2, <1>3, <1>4 DEF ListenerNext, ListenerStep, Ask, systemVars, listenerVars

LEMMA BusKeptByListener == BusInv /\ [ListenerNext]_systemVars => BusInv'
<1>1. ChipStep \/ ReaderStep \/ UNCHANGED vars => UNCHANGED <<status, busOpen, call>>
  BY DEF vars, driverVars, ChipStep, ChipAccepts, ChipRejects, ChipNotifies, ChipSendsData,
     ReaderStep, ReaderActivates, ReaderSends, ReaderLeaves
<1> QED
  BY <1>1, TaskCalls, BusKept
     DEF ListenerNext, ListenerStep, ControllerMoves, ReaderMoves, Ask, systemVars

\* When Idle takes the place of Listening the radio is off, or the controller has
\* been told to turn it off: stopListening with late answers and with answers
\* taken for others, if the bus works and the controller rejects nothing.
THEOREM StopTurnsOffHolds ==
  Faults \cap {"bus", "reject"} = {} => (ListenerSpec => StopTurnsOff)
<1> SUFFICES ASSUME Faults \cap {"bus", "reject"} = {} PROVE ListenerSpec => StopTurnsOff
  OBVIOUS
<1>1. ListenerInit => StopsInv
  BY ListenerInitOK, InitTyped, MaxCommandsAssumption
     DEF ListenerInit, Init, StopsInv, ListenerTypeOK, TaskPcs, BusInv, StatusMeansBus, StopInv
<1>2. StopsInv /\ [ListenerNext]_systemVars => StopsInv'
  BY ListenerTypesKept, ListenerKeepsInv, BusKeptByListener, StopInvKept DEF StopsInv
<1>3. StopsInv /\ [ListenerNext]_systemVars
        => [listenerStatus = "Listening" /\ listenerStatus' = "Idle" => ~RadioOn']_systemVars
  <2> SUFFICES ASSUME StopsInv, [ListenerNext]_systemVars,
                      listenerStatus = "Listening", listenerStatus' = "Idle"
               PROVE  ~RadioOn'
    OBVIOUS
  <2>1. CASE StopEnds
    <3>1. WillBeOff(cmds, rf) /\ cmds \in Seq(Tasks) /\ UNCHANGED <<cmds, rf>>
      BY <2>1 DEF StopEnds, StopsInv, StopInv, ListenerTypeOK, TypeOK, ChipTypeOK, vars, chipVars
    <3>2. ~WillListen(cmds, rf)
      BY <3>1, OffIsNotOn
    <3> QED BY <3>1, <3>2 DEF RadioOn
  <2>2. CASE RefreshEnds
    BY <2>2 DEF RefreshEnds, StopsInv, TaskInv
  <2>3. StopEnds \/ RefreshEnds
    BY DEF ListenerNext, ListenerStep, ControllerMoves, ReaderMoves, Ask, systemVars, listenerVars,
       TaskStep, NoCommand, TakeStart, StartEnds, TakeStop, TakeConfigure, Refresh, Process,
       Event, Responded
  <2> QED BY <2>1, <2>2, <2>3
<1> QED BY <1>1, <1>2, <1>3, PTL DEF ListenerSpec, StopTurnsOff
=============================================================================
