------------------------- MODULE ListenerUi_proofs --------------------------
(***************************************************************************)
(* Proofs about the window and the listener task (module ListenerUi), for   *)
(* any bound on the event queue.                                           *)
(***************************************************************************)
EXTENDS ListenerUi, SequenceTheorems, TLAPS

\* All events but the last are "disabled", which the task publishes while it looks
\* for its device, so only the last matters.
OnlyDisabled(p) == \A i \in 1..Len(p) : i < Len(p) => p[i] = "disabled"
LastOf(p) == IF p = <<>> THEN "none" ELSE p[Len(p)]

Coming == LastOf(posted)
Doing(c) == IF c = "Start" THEN "start" ELSE "stop"

\* A command c is somewhere on its way, or none is.
Sent(c) == Coming = c \/ commandQueue = <<c>> \/ doing = Doing(c)
NoneSent == Coming \notin Controls /\ commandQueue = <<>> /\ doing \notin {"start", "stop"}

\* The task has told nobody of its status yet.
Untold == publishing \in {"copy", "call", "post"}

\* Before QtControl subscribes nothing was ever sent.
BeforeStartup ==
  /\ Coming = "Startup" <=> ~subscribed
  /\ publishing = "post" => copied
  /\ copied => subscribed
  /\ ~subscribed =>
       /\ posted = <<"Startup">> /\ windowStatus = "disabled" /\ NoneSent
       /\ listenerStatus # "Listening" /\ retained # "Listening"
       /\ retained = "Idle" => listenerStatus = "Idle" /\ publishing = "no"

\* A command is sent for the status the window shows, which is the current one.
SentForStatus ==
  /\ Len(commandQueue) <= 1
  /\ Sent("Start") => listenerStatus = "Idle" /\ windowStatus = "idle"
  /\ Sent("Stop") => listenerStatus = "Listening" /\ windowStatus = "listening"
  /\ ~NoneSent =>
       /\ ~Untold /\ subscribed /\ ~listenEnabled /\ ~stopEnabled
       /\ Coming \in Controls \cup {"none"}
  /\ Coming \in Controls => commandQueue = <<>> /\ doing \notin {"start", "stop"}
  /\ commandQueue # <<>> => doing \notin {"start", "stop"}

\* A status on its way is the current one, and news for the window.
TellsNews ==
  /\ Coming \in {"idle", "listening"} =>
       /\ Shown[listenerStatus] = Coming /\ windowStatus # Coming
       /\ ~Untold /\ NoneSent
  /\ Untold =>
       /\ NoneSent /\ Coming \in {"none", "disabled", "Startup"}
       /\ listenerStatus # "Absent" => windowStatus # Shown[listenerStatus]
  /\ Len(posted) > 1 \/ Coming = "disabled" \/ listenerStatus = "Absent"
       => windowStatus = "disabled"

\* A button that is enabled is so for the current status.
Enabled(button, status) ==
  subscribed /\ button =>
    /\ listenerStatus = status /\ windowStatus = Shown[status]
    /\ NoneSent /\ ~Untold /\ Coming = "none"

UiInv ==
  /\ UiTypeOK /\ OnlyDisabled(posted)
  /\ BeforeStartup /\ SentForStatus /\ TellsNews
  /\ Enabled(listenEnabled, "Idle") /\ Enabled(stopEnabled, "Listening")
  /\ listenerStatus # "Absent" => opened /\ doing # "opening"
  /\ app \in {"joined", "gone"} => publishing = "no"

-----------------------------------------------------------------------------
(* Sequences                                                               *)

LEMMA Lengths ==
  ASSUME NEW S, NEW s \in Seq(S)
  PROVE  /\ Len(s) \in Nat /\ (Len(s) = 0 <=> s = <<>>)
         /\ s # <<>> /\ Len(s) <= 1 => Len(s) = 1
<1>1. Len(s) \in Nat /\ (Len(s) = 0 => s = <<>>) /\ (s = <<>> => Len(s) = 0)
  OBVIOUS
<1> DEFINE n == Len(s)
<1>2. n \in Nat /\ n # 0 /\ n <= 1 => n = 1
  <2> HIDE DEF n
  <2> QED OBVIOUS
<1> QED BY <1>1, <1>2

LEMMA AppendLast ==
  ASSUME NEW p \in Seq(Events), NEW x \in Events, OnlyDisabled(p),
         LastOf(p) \in {"none", "disabled"}
  PROVE  /\ Append(p, x) \in Seq(Events) /\ OnlyDisabled(Append(p, x))
         /\ LastOf(Append(p, x)) = x
         /\ p = <<>> => Len(Append(p, x)) = 1
<1> DEFINE q == Append(p, x)
<1>1. /\ q \in Seq(Events) /\ Len(q) = Len(p) + 1 /\ Len(p) \in Nat /\ q[Len(q)] = x
      /\ \A i \in 1..Len(p) : q[i] = p[i]
  OBVIOUS
<1>2. p # <<>> => p[Len(p)] = "disabled"
  <2>1. p # <<>> => p[Len(p)] \in Events
    OBVIOUS
  <2> QED BY <2>1 DEF LastOf, Events, Controls, Shows
<1>3. \A i \in 1..Len(p) : p[i] = "disabled"
  <2> SUFFICES ASSUME NEW i \in 1..Len(p) PROVE p[i] = "disabled"
    OBVIOUS
  <2>1. CASE i < Len(p)
    BY <2>1 DEF OnlyDisabled
  <2>2. CASE i = Len(p)
    <3>1. p # <<>>
      BY <1>1
    <3> QED BY <1>2, <2>2, <3>1
  <2> QED BY <1>1, <2>1, <2>2
<1> HIDE DEF q
<1>4. OnlyDisabled(q)
  <2> SUFFICES ASSUME NEW i \in 1..Len(q), i < Len(q) PROVE q[i] = "disabled"
    BY DEF OnlyDisabled
  <2>1. i \in 1..Len(p)
    BY <1>1
  <2> QED BY <1>1, <1>3, <2>1
<1>5. LastOf(q) = x /\ (p = <<>> => Len(q) = 1)
  BY <1>1 DEF LastOf
<1> QED BY <1>1, <1>4, <1>5 DEF q

LEMMA OneEvent ==
  ASSUME NEW x \in Events
  PROVE  /\ <<x>> \in Seq(Events) /\ Len(<<x>>) = 1 /\ <<>> \o <<x>> = <<x>>
         /\ OnlyDisabled(<<x>>) /\ LastOf(<<x>>) = x
<1>1. <<x>> \in Seq(Events) /\ Len(<<x>>) = 1 /\ <<x>>[1] = x /\ <<x>> # <<>>
  OBVIOUS
<1>2. <<>> \o <<x>> = <<x>>
  BY <1>1, ConcatEmptySeq
<1> QED BY <1>1, <1>2 DEF OnlyDisabled, LastOf

LEMMA TailLast ==
  ASSUME NEW p \in Seq(Events), OnlyDisabled(p), p # <<>>
  PROVE  /\ Tail(p) \in Seq(Events) /\ OnlyDisabled(Tail(p))
         /\ \/ Len(p) = 1 /\ Head(p) = LastOf(p) /\ Tail(p) = <<>>
            \/ /\ Len(p) > 1 /\ Head(p) = "disabled"
               /\ LastOf(Tail(p)) = LastOf(p) /\ Tail(p) # <<>> /\ Len(Tail(p)) < Len(p)
<1> DEFINE q == Tail(p)
<1>1. /\ q \in Seq(Events) /\ Len(p) \in Nat \ {0} /\ Len(q) = Len(p) - 1
      /\ Head(p) = p[1] /\ \A i \in 1..Len(q) : q[i] = p[i + 1]
  OBVIOUS
<1> HIDE DEF q
<1>2. OnlyDisabled(q)
  <2> SUFFICES ASSUME NEW i \in 1..Len(q), i < Len(q) PROVE q[i] = "disabled"
    BY DEF OnlyDisabled
  <2>1. i + 1 \in 1..Len(p) /\ i + 1 < Len(p) /\ q[i] = p[i + 1]
    BY <1>1
  <2> QED BY <2>1 DEF OnlyDisabled
<1>3. CASE Len(p) = 1
  <2>1. q = <<>>
    BY <1>1, <1>3, Lengths
  <2> QED BY <1>1, <1>2, <1>3, <2>1 DEF LastOf, q
<1>4. CASE Len(p) # 1
  <2>1. 1 \in 1..Len(p) /\ 1 < Len(p) /\ Len(q) \in 1..Len(q) /\ Len(q) + 1 = Len(p)
    BY <1>1, <1>4
  <2>2. Head(p) = "disabled"
    BY <1>1, <2>1 DEF OnlyDisabled
  <2>3. q # <<>> /\ q[Len(q)] = p[Len(p)]
    BY <1>1, <2>1, Lengths
  <2> QED BY <1>1, <1>2, <2>1, <2>2, <2>3 DEF LastOf, q
<1> QED BY <1>1, <1>3, <1>4

LEMMA OneCommand ==
  ASSUME NEW q \in Seq(Controls), q # <<>>, Len(q) <= 1
  PROVE  q = <<Head(q)>> /\ Head(q) \in Controls /\ Tail(q) = <<>>
<1>1. Len(q) = 1
  BY Lengths
<1>2. /\ Head(q) \in Controls /\ q[1] = Head(q)
      /\ Tail(q) \in Seq(Controls) /\ Len(Tail(q)) = 0
  BY <1>1
<1>3. /\ <<Head(q)>> \in Seq(Controls) /\ Len(<<Head(q)>>) = 1
      /\ <<Head(q)>>[1] = Head(q)
  BY <1>2
<1>4. q = <<Head(q)>>
  BY <1>1, <1>2, <1>3, SeqEqual
<1> QED BY <1>2, <1>4, Lengths

LEMMA TakesOnly ==
  ASSUME UiTypeOK, NEW c, Take(c), Len(commandQueue) <= 1
  PROVE  commandQueue = <<c>> /\ commandQueue' = <<>>
BY OneCommand DEF Take, UiTypeOK

-----------------------------------------------------------------------------
(* The invariant                                                           *)

LEMMA UiInitOK == UiInit => UiInv
<1> SUFFICES ASSUME UiInit PROVE UiInv
  OBVIOUS
<1>1. UiTypeOK
  <2>1. DOMAIN Shown = {"Absent", "Idle", "Listening"}
    BY DEF Shown
  <2>2. posted \in Seq(Events) /\ commandQueue \in Seq(Controls)
    BY DEF UiInit, Init, Events
  <2> QED BY <2>1, <2>2 DEF UiInit, Init, UiTypeOK, Shows, Publishing
<1>2. Coming = "Startup" /\ OnlyDisabled(posted) /\ Len(posted) = 1
  BY DEF UiInit, Coming, LastOf, OnlyDisabled
<1>3. NoneSent
  BY <1>2 DEF NoneSent, Controls, UiInit, Init
<1> QED
  BY <1>1, <1>2, <1>3 DEF UiInv, BeforeStartup, SentForStatus, TellsNews, Enabled, Sent, Doing, Untold,
     Controls, Shown, UiInit, Init

LEMMA ShownNames ==
  /\ DOMAIN Shown = {"Absent", "Idle", "Listening"}
  /\ Shown["Absent"] = "disabled" /\ Shown["Idle"] = "idle" /\ Shown["Listening"] = "listening"
BY DEF Shown

LEMMA TaskMovesTyped == ASSUME UiInv, TaskMoves PROVE UiTypeOK'
<1> USE ShownNames DEF UiInv, UiTypeOK
<1>1. /\ UNCHANGED <<copied, retained, subscribed, posted, windowStatus, listenEnabled, stopEnabled, app>>
      /\ publishing' \in Publishing
  BY DEF TaskMoves, windowVars, Publishing
<1>2. listenerStatus' \in DOMAIN Shown /\ doing' \in {"ready", "start", "stop", "opening"}
      /\ opened' \in BOOLEAN
  BY DEF TaskMoves, Publishes, StartSucceeds, StopEnds, OpenEnds, TakeStart, TakeStop, Take,
     StartFails, OpenBegins, DeviceOpens
<1>3. commandQueue' \in Seq(Controls)
  <2>1. commandQueue' = commandQueue \/ \E c \in Controls : Take(c)
    BY DEF TaskMoves, Publishes, StartSucceeds, StopEnds, OpenEnds, TakeStart, TakeStop, StartFails,
       OpenBegins, DeviceOpens, Controls
  <2>2. ASSUME NEW c \in Controls, Take(c) PROVE commandQueue' \in Seq(Controls)
    BY <2>2 DEF Take
  <2> QED BY <2>1, <2>2
<1> QED BY <1>1, <1>2, <1>3

LEMMA TaskMovesKept == ASSUME UiInv, TaskMoves PROVE UiInv'
<1> USE ShownNames DEF UiInv
<1>1. /\ UNCHANGED <<copied, retained, subscribed, posted, windowStatus, listenEnabled, stopEnabled, app>>
      /\ publishing = "no" /\ app \in {"running", "quit"}
  BY DEF TaskMoves, windowVars
<1>2. UiTypeOK' /\ Coming' = Coming
  BY <1>1, TaskMovesTyped DEF Coming
<1>3. CASE (TakeStart \/ TakeStop) /\ UNCHANGED publishing
  <2> PICK c \in Controls : /\ Take(c) /\ doing' = Doing(c) /\ UNCHANGED <<listenerStatus, publishing>>
    BY <1>3 DEF TakeStart, TakeStop, Controls, Doing
  <2>1. commandQueue = <<c>> /\ commandQueue' = <<>> /\ doing = "ready" /\ UNCHANGED opened
    BY TakesOnly DEF SentForStatus, Take
  <2>2. Sent(c) /\ (\A d \in Controls : Sent(d)' => d = c) /\ Coming \notin Controls
    BY <1>2, <2>1 DEF Sent, SentForStatus, Doing, Controls
  <2>3. ~NoneSent /\ ~NoneSent' /\ Len(commandQueue') <= 1
    BY <1>2, <2>1 DEF NoneSent, Doing
  <2> QED
    BY <1>1, <1>2, <2>1, <2>2, <2>3
       DEF BeforeStartup, SentForStatus, TellsNews, Enabled, Untold, Doing, Controls
<1>4. CASE (StartSucceeds \/ StopEnds) /\ publishing' = "copy"
  <2>1. doing \in {"start", "stop"} /\ ~NoneSent
    BY <1>4 DEF StartSucceeds, StopEnds, NoneSent
  <2>2. Coming = "none" /\ commandQueue = <<>> /\ UNCHANGED commandQueue /\ doing' = "ready"
    BY <1>4, <2>1 DEF SentForStatus, StartSucceeds, StopEnds
  <2>3. NoneSent' /\ (\A d \in Controls : ~Sent(d)')
    BY <1>2, <2>2 DEF NoneSent, Sent, Doing, Controls
  <2>4. \/ listenerStatus' = "Listening" /\ windowStatus = "idle"
        \/ listenerStatus' = "Idle" /\ windowStatus = "listening"
    BY <1>4, <2>1 DEF StartSucceeds, StopEnds, SentForStatus, Sent, Doing
  <2> QED
    BY <1>1, <1>2, <1>4, <2>1, <2>2, <2>3, <2>4
       DEF BeforeStartup, SentForStatus, TellsNews, Enabled, Untold, Controls, StartSucceeds, StopEnds
<1>5. CASE OpenEnds /\ publishing' = "copy"
  <2>1. doing = "opening" /\ listenerStatus = "Absent" /\ windowStatus = "disabled"
    BY <1>5 DEF OpenEnds, TellsNews
  <2>2. NoneSent
    <3>1. Coming \notin Controls
      BY <2>1 DEF SentForStatus, Sent, Controls
    <3>2. commandQueue = <<>>
      <4>1. commandQueue \in Seq(Controls) /\ Len(commandQueue) <= 1
        BY DEF UiTypeOK, SentForStatus
      <4>2. ASSUME commandQueue # <<>> PROVE \E c \in Controls : commandQueue = <<c>>
        BY <4>1, <4>2, OneCommand
      <4> QED BY <2>1, <4>2 DEF SentForStatus, Sent, Controls
    <3> QED BY <2>1, <3>1, <3>2 DEF NoneSent
  <2>3. Coming \in {"none", "disabled", "Startup"}
    <3>1. Coming \in Events \cup {"none"}
      BY DEF UiTypeOK, Coming, LastOf
    <3> QED BY <2>1, <2>2, <3>1 DEF TellsNews, NoneSent, Events, Shows
  <2> QED
    BY <1>1, <1>2, <1>5, <2>1, <2>2, <2>3
       DEF OpenEnds, BeforeStartup, SentForStatus, TellsNews, Enabled, NoneSent, Untold, Sent, Doing, Controls
<1>6. CASE (StartFails \/ OpenBegins \/ DeviceOpens) /\ UNCHANGED publishing
  <2>1. /\ UNCHANGED <<commandQueue, listenerStatus>>
        /\ NoneSent => NoneSent'
        /\ \A d \in Controls : Sent(d)' => Sent(d)
    BY <1>2, <1>6 DEF StartFails, OpenBegins, DeviceOpens, NoneSent, Sent, Doing, Controls
  <2> QED
    BY <1>1, <1>2, <1>6, <2>1
       DEF StartFails, OpenBegins, DeviceOpens, BeforeStartup, SentForStatus, TellsNews, Enabled, Untold, Controls
<1> QED BY <1>3, <1>4, <1>5, <1>6 DEF TaskMoves, Publishes

\* Subject::next, but for the event it posts, changes only where the task is in it.
LEMMA SubjectKept == ASSUME UiInv, CopyObservers \/ CallObservers \/ StoreRetained PROVE UiInv'
<1> USE ShownNames DEF UiInv
<1>1. /\ UNCHANGED <<vars, windowVars, app>> /\ publishing # "no"
      /\ \/ publishing' = "call" /\ publishing = "copy" /\ copied' = subscribed /\ UNCHANGED retained
         \/ publishing' = "post" /\ publishing = "call" /\ copied /\ UNCHANGED <<copied, retained>>
         \/ publishing' = "store" /\ publishing = "call" /\ UNCHANGED <<copied, retained>>
         \/ publishing' = "no" /\ copied' = FALSE /\ retained' = listenerStatus
  BY DEF CopyObservers, CallObservers, StoreRetained
<1>2. UiTypeOK'
  <2>1. publishing' \in Publishing /\ copied' \in BOOLEAN /\ retained' \in DOMAIN Shown \cup {"none"}
    BY <1>1 DEF UiTypeOK, Publishing
  <2> QED BY <1>1, <2>1 DEF UiTypeOK, vars, windowVars
<1>3. Coming' = Coming /\ NoneSent' = NoneSent /\ (\A c \in Controls : Sent(c)' = Sent(c))
  BY <1>1 DEF vars, windowVars, Coming, NoneSent, Sent
<1>4. Untold' => Untold
  BY <1>1 DEF Untold
<1>5. BeforeStartup'
  BY <1>1, <1>3 DEF BeforeStartup, vars, windowVars
<1>6. SentForStatus' /\ TellsNews'
  BY <1>1, <1>3, <1>4 DEF SentForStatus, TellsNews, vars, windowVars, Controls
<1>7. Enabled(listenEnabled, "Idle")' /\ Enabled(stopEnabled, "Listening")'
  BY <1>1, <1>3, <1>4 DEF Enabled, vars, windowVars
<1>8. app' \in {"joined", "gone"} => publishing' = "no"
  BY <1>1
<1> QED BY <1>1, <1>2, <1>5, <1>6, <1>7, <1>8 DEF vars, windowVars

LEMMA PostStatusKept == ASSUME UiInv, PostStatus PROVE UiInv'
<1> USE ShownNames DEF UiInv
<1>1. /\ publishing = "post" /\ publishing' = "store"
      /\ posted' = Append(posted, Shown[listenerStatus])
      /\ UNCHANGED <<vars, copied, retained, subscribed, windowStatus, listenEnabled, stopEnabled, app>>
  BY DEF PostStatus
<1>2. copied /\ subscribed /\ NoneSent /\ Coming \in {"none", "disabled"}
  BY <1>1 DEF BeforeStartup, TellsNews, Untold
<1>3. Shown[listenerStatus] \in Shows /\ Shown[listenerStatus] \in Events
  BY DEF UiTypeOK, Shows, Events
<1>4. /\ posted' \in Seq(Events) /\ OnlyDisabled(posted')
      /\ Coming' = Shown[listenerStatus] /\ (posted = <<>> => Len(posted') = 1)
  BY <1>1, <1>2, <1>3, AppendLast DEF UiTypeOK, Coming
<1>5. UiTypeOK'
  BY <1>1, <1>4 DEF UiTypeOK, vars, Publishing
<1>6. NoneSent' /\ (\A c \in Controls : ~Sent(c)')
  BY <1>1, <1>2, <1>3, <1>4 DEF NoneSent, Sent, Doing, vars, Controls, Shows
<1>7. posted # <<>> => windowStatus = "disabled"
  <2>1. CASE Coming = "none"
    BY <2>1 DEF Coming, LastOf, UiTypeOK, Events, Controls, Shows
  <2> QED BY <1>2, <2>1 DEF TellsNews
<1>8. listenerStatus # "Absent" => windowStatus # Shown[listenerStatus]
  BY <1>1 DEF TellsNews, Untold
<1>9. TellsNews'
  BY <1>1, <1>4, <1>6, <1>7, <1>8 DEF TellsNews, Untold, vars, UiTypeOK
<1>10. BeforeStartup' /\ SentForStatus'
  BY <1>1, <1>2, <1>4, <1>6 DEF BeforeStartup, SentForStatus, NoneSent, vars, Controls, UiTypeOK
<1>11. Enabled(listenEnabled, "Idle")' /\ Enabled(stopEnabled, "Listening")'
  BY <1>1 DEF Enabled, Untold
<1> QED
  BY <1>1, <1>4, <1>5, <1>9, <1>10, <1>11 DEF vars

\* What is handled is the last event, or a "disabled" that others wait behind.
LEMMA ReceivedLast ==
  ASSUME UiInv, NEW e \in Events, Received(e)
  PROVE  /\ posted # <<>> /\ Tail(posted) \in Seq(Events) /\ OnlyDisabled(Tail(posted))
         /\ \/ Coming = e /\ Tail(posted) = <<>>
            \/ /\ e = "disabled" /\ windowStatus = "disabled"
               /\ LastOf(Tail(posted)) = Coming /\ Tail(posted) # <<>>
BY TailLast DEF UiInv, UiTypeOK, Received, Coming, TellsNews

LEMMA StartupKept == ASSUME UiInv, StartupEvent PROVE UiInv'
<1> USE ShownNames DEF UiInv
<1>1. /\ UNCHANGED <<vars, subjectVars, windowStatus, app>> /\ subscribed'
      /\ posted' = Tail(posted) \o (IF retained = "none" THEN <<>> ELSE <<Shown[retained]>>)
      /\ listenEnabled' = CanListen(windowStatus) /\ stopEnabled' = CanStop(windowStatus)
  BY DEF StartupEvent
<1>2. Coming = "Startup"
  BY ReceivedLast DEF StartupEvent, Events
<1>3. /\ ~subscribed /\ posted = <<"Startup">> /\ windowStatus = "disabled" /\ NoneSent
      /\ listenerStatus # "Listening" /\ retained # "Listening" /\ ~copied /\ publishing # "post"
      /\ retained = "Idle" => listenerStatus = "Idle" /\ publishing = "no"
  BY <1>2 DEF BeforeStartup
<1>4. Tail(posted) = <<>>
  BY <1>3
<1>5. /\ posted' \in Seq(Events) /\ OnlyDisabled(posted') /\ ~(Len(posted') > 1)
      /\ \/ posted' = <<>> /\ Coming' = "none"
         \/ retained \in {"Absent", "Idle"} /\ posted' = <<Shown[retained]>> /\ Coming' = Shown[retained]
  <2>1. CASE retained = "none"
    <3>1. posted' = <<>>
      BY <1>1, <1>4, <2>1
    <3> QED BY <3>1 DEF Coming, LastOf, OnlyDisabled
  <2>2. CASE retained \in {"Absent", "Idle"}
    <3> DEFINE x == Shown[retained]
    <3>1. x \in Events
      BY <2>2 DEF Events, Shows
    <3>2. posted' = <<>> \o <<x>>
      BY <1>1, <1>4, <2>2
    <3> HIDE DEF x
    <3>3. /\ posted' = <<x>> /\ <<x>> \in Seq(Events) /\ Len(<<x>>) = 1
          /\ OnlyDisabled(<<x>>) /\ LastOf(<<x>>) = x
      BY <3>1, <3>2, OneEvent
    <3>4. posted' \in Seq(Events) /\ OnlyDisabled(posted') /\ ~(Len(posted') > 1) /\ Coming' = x
      BY <3>3 DEF Coming
    <3> QED BY <2>2, <3>3, <3>4 DEF x
  <2> QED BY <1>3, <2>1, <2>2 DEF UiTypeOK
<1>7. listenEnabled' = FALSE /\ stopEnabled' = FALSE
  BY <1>1, <1>3 DEF CanListen, CanStop
<1>8. UiTypeOK'
  BY <1>1, <1>5, <1>7 DEF UiTypeOK, vars, subjectVars
<1>9. NoneSent' /\ (\A c \in Controls : ~Sent(c)')
  BY <1>1, <1>3, <1>5 DEF NoneSent, Sent, Doing, vars, Controls
<1> QED
  BY <1>1, <1>3, <1>5, <1>7, <1>8, <1>9
     DEF BeforeStartup, SentForStatus, TellsNews, Enabled, Untold, NoneSent, vars, subjectVars, Controls

LEMMA StatusKept == ASSUME UiInv, StatusEvent PROVE UiInv'
<1> USE ShownNames DEF UiInv
<1>1. PICK s \in Shows :
        /\ Received(s) /\ windowStatus' = s
        /\ IF s = windowStatus
             THEN UNCHANGED <<listenEnabled, stopEnabled>>
             ELSE listenEnabled' = CanListen(s) /\ stopEnabled' = CanStop(s)
  BY DEF StatusEvent
<1>2. posted' = Tail(posted) /\ UNCHANGED <<vars, subjectVars, subscribed, app>>
  BY DEF StatusEvent
<1>3. /\ posted # <<>> /\ posted' \in Seq(Events) /\ OnlyDisabled(posted')
      /\ \/ Coming = s /\ posted' = <<>>
         \/ s = "disabled" /\ windowStatus = "disabled" /\ Coming' = Coming /\ posted' # <<>>
  BY <1>1, <1>2, ReceivedLast DEF Events, Coming
<1>4. UiTypeOK'
  BY <1>1, <1>2, <1>3 DEF UiTypeOK, vars, subjectVars, CanListen, CanStop
<1>5. CASE s = "disabled"
  <2>1. windowStatus = "disabled" /\ UNCHANGED <<windowStatus, listenEnabled, stopEnabled>>
    BY <1>1, <1>3, <1>5 DEF TellsNews
  <2>2. \/ Coming = "disabled" /\ Coming' = "none"
        \/ Coming' = Coming
    BY <1>3, <1>5 DEF Coming, LastOf
  <2>3. NoneSent' = NoneSent /\ (\A c \in Controls : Sent(c)' => Sent(c)) /\ ~(subscribed /\ listenEnabled)
        /\ ~(subscribed /\ stopEnabled)
    BY <1>2, <2>1, <2>2 DEF NoneSent, Sent, vars, Controls, Enabled
  <2>4. BeforeStartup'
    <3>1. subscribed
      BY <1>1, <1>3, <1>5 DEF BeforeStartup, Received
    <3> QED BY <1>2, <2>2, <3>1 DEF BeforeStartup, vars, subjectVars
  <2>5. SentForStatus'
    BY <1>2, <2>1, <2>2, <2>3 DEF SentForStatus, vars, subjectVars, Untold, Controls
  <2>6. TellsNews'
    BY <1>2, <2>1, <2>2, <2>3 DEF TellsNews, vars, subjectVars, Untold
  <2> QED
    BY <1>2, <1>3, <1>4, <2>1, <2>3, <2>4, <2>5, <2>6 DEF Enabled, vars, subjectVars
<1>6. CASE s # "disabled"
  <2>1. s \in {"idle", "listening"} /\ Coming = s /\ posted' = <<>> /\ Coming' = "none"
    BY <1>3, <1>6 DEF Shows, Coming, LastOf
  <2>2. Shown[listenerStatus] = s /\ windowStatus # s /\ ~Untold /\ NoneSent
    BY <2>1 DEF TellsNews
  <2>3. NoneSent' /\ (\A c \in Controls : ~Sent(c)')
    BY <1>2, <2>1, <2>2 DEF NoneSent, Sent, Doing, vars, Controls
  <2>4. subscribed /\ ~Untold' /\ listenerStatus' # "Absent" /\ Len(posted') = 0
    BY <1>2, <2>1, <2>2 DEF BeforeStartup, Untold, vars, subjectVars
  <2>5. listenEnabled' = (s = "idle") /\ stopEnabled' = (s = "listening") /\ windowStatus' = s
    BY <1>1, <2>2 DEF CanListen, CanStop
  <2> QED
    BY <1>2, <1>3, <1>4, <2>1, <2>2, <2>3, <2>4, <2>5
       DEF BeforeStartup, SentForStatus, TellsNews, Enabled, Untold, NoneSent, vars, subjectVars, Controls, UiTypeOK
<1> QED BY <1>5, <1>6

\* The command that the window had sent is the only one, and goes into the queue.
LEMMA ControlKept == ASSUME UiInv, ControlEvent PROVE UiInv'
<1> USE ShownNames DEF UiInv
<1>1. PICK c \in Controls : Received(c) /\ Queue(c)
  BY DEF ControlEvent
<1>2. /\ posted' = Tail(posted) /\ commandQueue' = Append(commandQueue, c)
      /\ UNCHANGED <<listenerStatus, doing, opened>>
      /\ UNCHANGED <<subjectVars, subscribed, windowStatus, listenEnabled, stopEnabled, app>>
  BY <1>1 DEF ControlEvent, Queue
<1>3. Coming = c /\ posted' = <<>> /\ Coming' = "none"
  BY <1>1, <1>2, ReceivedLast DEF Controls, Events, Coming, LastOf
<1>4. /\ commandQueue = <<>> /\ doing \notin {"start", "stop"} /\ Sent(c) /\ ~NoneSent
      /\ ~Untold /\ subscribed /\ ~listenEnabled /\ ~stopEnabled
  BY <1>3 DEF SentForStatus, Sent, NoneSent
<1>5. commandQueue' = <<c>> /\ commandQueue' \in Seq(Controls) /\ Len(commandQueue') = 1 /\ commandQueue' # <<>>
  <2>1. commandQueue' = Append(<<>>, c)
    BY <1>2, <1>4
  <2> QED BY <2>1
<1>6. ~NoneSent' /\ (\A d \in Controls : Sent(d)' => d = c)
  <2>1. ASSUME NEW d \in Controls, <<c>> = <<d>> PROVE d = c
    BY <2>1
  <2> QED BY <1>2, <1>3, <1>4, <1>5, <2>1 DEF NoneSent, Sent, Doing, Controls
<1>7. UiTypeOK'
  <2>1. posted' \in Seq(Events)
    BY <1>3
  <2> QED BY <1>2, <1>5, <2>1 DEF UiTypeOK, subjectVars
<1>8. BeforeStartup'
  BY <1>2, <1>3, <1>4 DEF BeforeStartup, subjectVars
<1>9. SentForStatus'
  BY <1>2, <1>3, <1>4, <1>5, <1>6 DEF SentForStatus, Untold, subjectVars, Controls
<1>10. TellsNews'
  <2>1. Len(posted') = 0 /\ ~Untold'
    BY <1>2, <1>3, <1>4 DEF Untold, subjectVars
  <2> QED BY <1>2, <1>3, <2>1 DEF TellsNews
<1>11. OnlyDisabled(posted') /\ Enabled(listenEnabled, "Idle")' /\ Enabled(stopEnabled, "Listening")'
  BY <1>2, <1>3, <1>4 DEF OnlyDisabled, Enabled
<1> QED BY <1>2, <1>7, <1>8, <1>9, <1>10, <1>11 DEF subjectVars

\* A button that is pressed sends its command for the status it was enabled by.
LEMMA PressKept ==
  ASSUME UiInv, NEW c \in Controls,
         \/ c = "Start" /\ ToggleStart
         \/ c = "Stop" /\ ToggleStop
  PROVE  UiInv'
<1> USE ShownNames DEF UiInv
<1> DEFINE status == IF c = "Start" THEN "Idle" ELSE "Listening"
<1>1. /\ app = "running" /\ subscribed /\ posted' = Append(posted, c)
      /\ UNCHANGED <<vars, subjectVars, subscribed, windowStatus, app>>
      /\ \/ c = "Start" /\ listenEnabled /\ listenEnabled' = FALSE /\ stopEnabled' = stopEnabled
         \/ c = "Stop" /\ stopEnabled /\ stopEnabled' = FALSE /\ listenEnabled' = listenEnabled
  BY DEF ToggleStart, ToggleStop, CanPress
<1>2. /\ listenerStatus = status /\ windowStatus = Shown[status]
      /\ NoneSent /\ ~Untold /\ Coming = "none"
  BY <1>1 DEF Enabled
<1>3. posted = <<>>
  BY <1>2 DEF Coming, LastOf, UiTypeOK, Events, Controls, Shows
<1>4. /\ posted' \in Seq(Events) /\ OnlyDisabled(posted') /\ Coming' = c /\ Len(posted') = 1
  BY <1>1, <1>2, <1>3, AppendLast DEF UiTypeOK, Coming, Events
<1>5. ~listenEnabled' /\ ~stopEnabled'
  BY <1>1, <1>2 DEF Enabled, Controls
<1>6. UiTypeOK'
  BY <1>1, <1>4, <1>5 DEF UiTypeOK, vars, subjectVars
<1>7. ~NoneSent' /\ (\A d \in Controls : Sent(d)' => d = c)
  BY <1>1, <1>2, <1>4 DEF NoneSent, Sent, Doing, vars, Controls
<1>8. BeforeStartup'
  BY <1>1, <1>4 DEF BeforeStartup, vars, subjectVars, Controls
<1>9. SentForStatus'
  BY <1>1, <1>2, <1>4, <1>5, <1>7 DEF SentForStatus, NoneSent, Untold, vars, subjectVars, Controls
<1>10. TellsNews'
  <2>1. ~Untold' /\ ~(Len(posted') > 1)
    BY <1>1, <1>2, <1>4 DEF Untold, subjectVars
  <2> QED BY <1>1, <1>2, <1>4, <2>1 DEF TellsNews, vars, Controls
<1> QED
  BY <1>1, <1>4, <1>5, <1>6, <1>8, <1>9, <1>10 DEF Enabled, vars, subjectVars

\* The executor is joined only once the task is out of Subject::next, and from
\* then on nothing of it runs.
LEMMA QuitKept == ASSUME UiInv, Quit PROVE UiInv'
<1> USE DEF UiInv
<1>1. UNCHANGED <<vars, subjectVars, windowVars>> /\ app' \in {"quit", "joined", "gone"}
      /\ (app' \in {"joined", "gone"} => publishing = "no")
  BY DEF Quit, Quits
<1>2. UiTypeOK' /\ OnlyDisabled(posted')
  BY <1>1 DEF UiTypeOK, vars, subjectVars, windowVars
<1>3. Coming' = Coming /\ NoneSent' = NoneSent /\ (\A c : Sent(c)' = Sent(c)) /\ Untold' = Untold
  BY <1>1 DEF Coming, NoneSent, Sent, Untold, vars, subjectVars, windowVars
<1>4. BeforeStartup' /\ SentForStatus' /\ TellsNews'
  BY <1>1, <1>3 DEF BeforeStartup, SentForStatus, TellsNews, vars, subjectVars, windowVars
<1>5. Enabled(listenEnabled, "Idle")' /\ Enabled(stopEnabled, "Listening")'
  BY <1>1, <1>3 DEF Enabled, vars, windowVars
<1> QED BY <1>1, <1>2, <1>4, <1>5 DEF vars, subjectVars

LEMMA StutterKept == ASSUME UiInv, UNCHANGED uiVars PROVE UiInv'
<1> USE DEF UiInv
<1>1. UNCHANGED <<vars, subjectVars, windowVars, app>>
  BY DEF uiVars
<1>2. UiTypeOK' /\ OnlyDisabled(posted')
  BY <1>1 DEF UiTypeOK, vars, subjectVars, windowVars
<1>3. Coming' = Coming /\ NoneSent' = NoneSent /\ (\A c : Sent(c)' = Sent(c)) /\ Untold' = Untold
  BY <1>1 DEF Coming, NoneSent, Sent, Untold, vars, subjectVars, windowVars
<1>4. BeforeStartup' /\ SentForStatus' /\ TellsNews'
  BY <1>1, <1>3 DEF BeforeStartup, SentForStatus, TellsNews, vars, subjectVars, windowVars
<1>5. Enabled(listenEnabled, "Idle")' /\ Enabled(stopEnabled, "Listening")'
  BY <1>1, <1>3 DEF Enabled, vars, windowVars
<1> QED BY <1>1, <1>2, <1>4, <1>5 DEF vars, subjectVars

\* The invariant that the theorems below follow from.
THEOREM UiInvariant == UiSpec => []UiInv
<1>1. UiInit => UiInv
  BY UiInitOK
<1>2. UiInv /\ [UiNext]_uiVars => UiInv'
  <2> SUFFICES ASSUME UiInv, [UiNext]_uiVars PROVE UiInv'
    OBVIOUS
  <2>1. CASE TaskThread
    BY <2>1, TaskMovesKept, SubjectKept, PostStatusKept DEF TaskThread
  <2>2. CASE HandleEvent
    BY <2>2, StartupKept, StatusKept, ControlKept DEF HandleEvent
  <2>3. CASE ToggleStart \/ ToggleStop
    BY <2>3, PressKept DEF Controls
  <2>4. CASE Quit
    BY <2>4, QuitKept
  <2>5. CASE UNCHANGED uiVars
    BY <2>5, StutterKept
  <2> QED BY <2>1, <2>2, <2>3, <2>4, <2>5 DEF UiNext
<1> QED BY <1>1, <1>2, PTL DEF UiSpec

-----------------------------------------------------------------------------
(* What the window may rely on                                             *)

\* Types: in every reachable state, whatever the bound on the event queue.
THEOREM UiTyped == UiSpec => []UiTypeOK
<1>1. UiInv => UiTypeOK
  BY DEF UiInv
<1> QED BY <1>1, UiInvariant, PTL

\* However commands and statuses cross, there is one command at a time between
\* the press of a button and the end of its work (toggleStart, toggleStop).
THEOREM OneCommandAtATimeHolds == UiSpec => []OneCommandAtATime
<1>1. UiInv => OneCommandAtATime
  <2> SUFFICES ASSUME UiInv PROVE OneCommandAtATime
    OBVIOUS
  <2> USE DEF UiInv
  <2>1. ASSUME NEW i \in 1..Len(posted), posted[i] \in Controls
        PROVE  Coming \in Controls /\ i = Len(posted)
    <3>1. posted # <<>> /\ Len(posted) \in Nat
      BY DEF UiTypeOK
    <3>2. i = Len(posted)
      BY <2>1, <3>1 DEF OnlyDisabled, Controls
    <3> QED BY <2>1, <3>1, <3>2 DEF Coming, LastOf
  <2>2. ASSUME NEW i \in 1..Len(commandQueue)
        PROVE  commandQueue # <<>> /\ i = 1
    BY <2>2, Lengths DEF SentForStatus, UiTypeOK
  <2> SUFFICES ASSUME NEW a \in OnTheWay, NEW b \in OnTheWay PROVE a = b
    BY DEF OneCommandAtATime
  <2>3. ASSUME NEW x \in OnTheWay
        PROVE  \/ x = <<"posted", Len(posted)>> /\ Coming \in Controls
               \/ x = <<"queued", 1>> /\ commandQueue # <<>>
               \/ x = <<"doing", 1>> /\ doing \in {"start", "stop"}
    BY <2>1, <2>2 DEF OnTheWay
  <2> QED BY <2>3 DEF SentForStatus
<1> QED BY <1>1, UiInvariant, PTL

\* A button that can be pressed is about the listener as it is, with no command
\* on its way (updateActions).
THEOREM ButtonsAreCurrentHolds == UiSpec => []ButtonsAreCurrent
<1>1. UiInv => ButtonsAreCurrent
  <2> SUFFICES ASSUME UiInv PROVE ButtonsAreCurrent
    OBVIOUS
  <2> USE DEF UiInv
  <2>1. NoneSent /\ Coming = "none" => OnTheWay = {}
    <3> SUFFICES ASSUME NoneSent, Coming = "none" PROVE OnTheWay = {}
      OBVIOUS
    <3>1. posted = <<>> /\ commandQueue = <<>> /\ doing \notin {"start", "stop"}
      BY DEF Coming, LastOf, UiTypeOK, Events, Controls, Shows, NoneSent
    <3> QED BY <3>1 DEF OnTheWay
  <2> QED BY <2>1 DEF ButtonsAreCurrent, Enabled
<1> QED BY <1>1, UiInvariant, PTL

\* Whoever is between the look at the flag and the post finds the application,
\* at whatever moment the window is closed (QtApplication::post, main).
THEOREM PostFindsApplicationHolds == UiSpec => []PostFindsApplication
<1>1. UiInv => PostFindsApplication
  BY DEF UiInv, PostFindsApplication
<1> QED BY <1>1, UiInvariant, PTL
=============================================================================
