----------------------------- MODULE ListenerUi -----------------------------
(***************************************************************************)
(* The listener task and the window of the desktop program, each on its    *)
(* thread.  A status goes from the task through rt::Subject (Subject.h),   *)
(* QtControl and the event queue of Qt to QtWindow; a command goes from a   *)
(* button through the event queue and QtControl to the task.  The task is   *)
(* what module Listener promises of it.                                    *)
(***************************************************************************)
EXTENDS Listener, Naturals

CONSTANT MaxPosted   \* bound: events waiting in the queue of Qt

ASSUME MaxPostedAssumption == MaxPosted \in Nat \ {0}

VARIABLES
  publishing,     \* where the task is in Subject::next, see Publishing
  copied,         \* QtControl is in the copy of the observers next() made
  subscribed,     \* QtControl is among the observers
  retained,       \* the retained status, or "none"
  posted,         \* events posted to QtApplication, oldest first
  windowStatus,   \* QtWindow::Impl::targetListenerStatus
  listenEnabled,  \* actionListen is enabled
  stopEnabled,    \* actionStop is enabled
  app             \* "running", "quit" (shuttingDown), "joined" (the executor), "gone"

subjectVars == <<publishing, copied, retained>>
windowVars  == <<subscribed, posted, windowStatus, listenEnabled, stopEnabled>>
uiVars      == <<vars, subjectVars, windowVars, app>>

\* updateListenerStatus: how a status is written in the event.
Shown == [Absent |-> "disabled", Idle |-> "idle", Listening |-> "listening"]

Controls == {"Start", "Stop"}
Shows    == {"disabled", "idle", "listening"}
Events   == Controls \cup Shows \cup {"Startup"}

\* Subject::next copies its observers, calls them, and retains the value; QtControl
\* is called into QtApplication::post, which looks at a flag and then posts.
Publishing == {"no", "copy", "call", "post", "store"}

\* The task is submitted before the event loop runs, and its start() publishes
\* Absent; the window's buttons are not yet set, and nobody can press them.
UiInit ==
  /\ Init
  /\ publishing = "copy" /\ copied = FALSE /\ retained = "none"
  /\ subscribed = FALSE /\ posted = <<"Startup">>
  /\ windowStatus = "disabled" /\ listenEnabled = TRUE /\ stopEnabled = TRUE
  /\ app = "running"

-----------------------------------------------------------------------------
(* The task's thread.  The window sends no command but Start and Stop.     *)

\* faulty: Idle is only published once the device was opened, not after a Stop
PublishesNoStop == StartSucceeds \/ OpenEnds

\* What ends in updateListenerStatus.
Publishes == StartSucceeds \/ StopEnds \/ OpenEnds

TaskMoves ==
  /\ app \in {"running", "quit"} /\ publishing = "no"
  /\ \/ Publishes /\ publishing' = "copy"
     \/ /\ TakeStart \/ TakeStop \/ StartFails \/ OpenBegins \/ DeviceOpens
        /\ UNCHANGED publishing
  /\ UNCHANGED <<copied, retained, windowVars, app>>

\* faulty: the copy is the list as it was before anybody subscribed
CopyNobody ==
  /\ publishing = "copy"
  /\ copied' = FALSE /\ publishing' = "call"
  /\ UNCHANGED <<vars, retained, windowVars, app>>

\* with the lock held
CopyObservers ==
  /\ publishing = "copy"
  /\ copied' = subscribed /\ publishing' = "call"
  /\ UNCHANGED <<vars, retained, windowVars, app>>

\* without it; the bound holds the task up while the window is slow
CallObservers ==
  /\ publishing = "call"
  /\ copied /\ app = "running" => Len(posted) < MaxPosted
  /\ publishing' = IF copied /\ app = "running" THEN "post" ELSE "store"
  /\ UNCHANGED <<vars, copied, retained, windowVars, app>>

\* faulty: the name of the status is posted as it is
PostName ==
  /\ publishing = "post"
  /\ posted' = Append(posted, listenerStatus)
  /\ publishing' = "store"
  /\ UNCHANGED <<vars, copied, retained, subscribed, windowStatus, listenEnabled, stopEnabled, app>>

PostStatus ==
  /\ publishing = "post"
  /\ posted' = Append(posted, Shown[listenerStatus])
  /\ publishing' = "store"
  /\ UNCHANGED <<vars, copied, retained, subscribed, windowStatus, listenEnabled, stopEnabled, app>>

\* with the lock held again
StoreRetained ==
  /\ publishing = "store"
  /\ retained' = listenerStatus /\ copied' = FALSE /\ publishing' = "no"
  /\ UNCHANGED <<vars, windowVars, app>>

TaskThread == TaskMoves \/ CopyObservers \/ CallObservers \/ PostStatus \/ StoreRetained

-----------------------------------------------------------------------------
(* The GUI thread: handlers of the window, then of QtControl               *)

\* faulty: a device that is not there can listen
CanListenAlways(s) == s # "listening"

\* updateActions
CanListen(s) == s = "idle"
CanStop(s)   == s = "listening"

Received(e) == app = "running" /\ posted # <<>> /\ Head(posted) = e

\* QtWindow sets its buttons, QtControl subscribes; a value that was retained
\* comes at once, with the lock held
StartupEvent ==
  /\ Received("Startup")
  /\ listenEnabled' = CanListen(windowStatus) /\ stopEnabled' = CanStop(windowStatus)
  /\ subscribed' = TRUE
  /\ posted' = Tail(posted) \o (IF retained = "none" THEN <<>> ELSE <<Shown[retained]>>)
  /\ UNCHANGED <<vars, subjectVars, windowStatus, app>>

\* The buttons are set only when the status is another one.
StatusEvent ==
  /\ \E s \in Shows :
       /\ Received(s)
       /\ windowStatus' = s
       /\ IF s = windowStatus
            THEN UNCHANGED <<listenEnabled, stopEnabled>>
            ELSE listenEnabled' = CanListen(s) /\ stopEnabled' = CanStop(s)
  /\ posted' = Tail(posted)
  /\ UNCHANGED <<vars, subjectVars, subscribed, app>>

\* The command goes through its subject into the task's queue.
ControlEvent ==
  /\ \E c \in Controls : Received(c) /\ Queue(c)
  /\ posted' = Tail(posted)
  /\ UNCHANGED <<subjectVars, subscribed, windowStatus, listenEnabled, stopEnabled, app>>

HandleEvent == StartupEvent \/ StatusEvent \/ ControlEvent

CanPress(enabled) ==
  app = "running" /\ subscribed /\ enabled /\ Len(posted) < MaxPosted

\* faulty: the button stays enabled
ToggleStartTwice ==
  /\ CanPress(listenEnabled)
  /\ posted' = Append(posted, "Start")
  /\ UNCHANGED <<vars, subjectVars, subscribed, windowStatus, listenEnabled, stopEnabled, app>>

\* A button that is enabled is pressed; it disables itself.
ToggleStart ==
  /\ CanPress(listenEnabled)
  /\ listenEnabled' = FALSE
  /\ posted' = Append(posted, "Start")
  /\ UNCHANGED <<vars, subjectVars, subscribed, windowStatus, stopEnabled, app>>

ToggleStop ==
  /\ CanPress(stopEnabled)
  /\ stopEnabled' = FALSE
  /\ posted' = Append(posted, "Stop")
  /\ UNCHANGED <<vars, subjectVars, subscribed, windowStatus, listenEnabled, app>>

\* faulty: the application is destroyed before the executor
QuitAtOnce ==
  \/ app = "running" /\ subscribed /\ app' = "quit"
  \/ app = "quit" /\ app' = "gone"

\* The window is closed: shutdown() raises shuttingDown, main returns from exec(),
\* the executor's destructor joins the task, and then the application is destroyed.
Quits ==
  \/ app = "running" /\ subscribed /\ app' = "quit"
  \/ app = "quit" /\ doing = "ready" /\ publishing = "no" /\ app' = "joined"
  \/ app = "joined" /\ app' = "gone"

Quit == Quits /\ UNCHANGED <<vars, subjectVars, windowVars>>

UiNext == TaskThread \/ HandleEvent \/ ToggleStart \/ ToggleStop \/ Quit

UiSpec == UiInit /\ [][UiNext]_uiVars

\* Both threads go on, the task's because the reader gets quiet in the end
\* (TargetListener!QuietReaderServes); nobody has to press a button.
UiFairSpec == UiSpec /\ WF_uiVars(TaskThread) /\ WF_uiVars(HandleEvent)

-----------------------------------------------------------------------------
(* Properties                                                              *)

UiTypeOK ==
  /\ commandQueue \in Seq(Controls) /\ listenerStatus \in DOMAIN Shown
  /\ doing \in {"ready", "start", "stop", "opening"} /\ opened \in BOOLEAN
  /\ publishing \in Publishing /\ app \in {"running", "quit", "joined", "gone"}
  /\ copied \in BOOLEAN /\ subscribed \in BOOLEAN
  /\ retained \in DOMAIN Shown \cup {"none"}
  /\ posted \in Seq(Events) /\ windowStatus \in Shows
  /\ listenEnabled \in BOOLEAN /\ stopEnabled \in BOOLEAN

\* Where there is a command between the press of a button and the end of its work.
OnTheWay ==
  {<<"posted", i>> : i \in {k \in 1..Len(posted) : posted[k] \in Controls}}
    \cup {<<"queued", i>> : i \in 1..Len(commandQueue)}
    \cup {<<"doing", i>> : i \in {k \in {1} : doing \in {"start", "stop"}}}

\* "disable action to avoid multiple start" and "multiple pause / stop": however
\* statuses and commands cross on their way between the two threads, there is
\* never more than one command between the window and the end of its work.
OneCommandAtATime == \A a, b \in OnTheWay : a = b

\* A button that can be pressed is about the listener as it is, not as it was
\* when the status was published (updateActions).
ButtonsAreCurrent ==
  /\ subscribed /\ listenEnabled => listenerStatus = "Idle" /\ OnTheWay = {}
  /\ subscribed /\ stopEnabled => listenerStatus = "Listening" /\ OnTheWay = {}

\* A Stop that was sent ends with the Listen button enabled (toggleStop,
\* stopListening, listenerStatusEvent).
StopIsAnswered == (\E i \in 1..Len(posted) : posted[i] = "Stop") ~> listenEnabled \/ app # "running"

\* Every status that is published once QtControl has subscribed comes to the
\* window (Subject::next, targetListenerStatusChange, listenerStatusEvent).
PublishedIsShown ==
  \A s \in DOMAIN Shown :
    subscribed /\ publishing = "copy" /\ listenerStatus = s
      ~> windowStatus = Shown[s] \/ app # "running"

\* An event that was to be posted when the flag was looked at finds its application,
\* although the flag is raised at any moment (QtApplication::post, and the order in
\* which main declares the application and the executor).
PostFindsApplication == publishing = "post" => app # "gone"

\* "emit retained values" in Subject::subscribe: an observer knows the last value
\* whenever it subscribed, so with nothing on its way the window agrees with the
\* listener.  It does not if QtControl subscribes while next() is between its
\* copy and the store.
WindowAgrees ==
  app = "running" /\ subscribed /\ publishing = "no" /\ (\A i \in 1..Len(posted) : posted[i] \notin Shows)
    => windowStatus = Shown[listenerStatus]
=============================================================================
