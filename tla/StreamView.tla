----------------------------- MODULE StreamView -----------------------------
(***************************************************************************)
(* How a frame comes from the listener task into the table of the window:  *)
(* process() stamps and publishes it, the event queue of Qt carries it to   *)
(* the GUI thread, StreamModel queues it until the next refresh and inserts *)
(* it "sorted by time", and StreamFilter shows the rows its filters accept. *)
(* QSortFilterProxyModel is external: it asks filterAcceptsRow for the rows *)
(* it is told were inserted, and for all rows when it is invalidated.       *)
(***************************************************************************)
EXTENDS Integers, Sequences, SequencesExt

CONSTANTS
  Columns,    \* columns that can be filtered
  Modes,      \* StreamFilter::Mode
  Accepts,    \* what a filter may accept: sets of frame types
  MaxFrames,  \* bound: frames that are made
  MaxTime     \* bound: milliseconds on the clock

ASSUME StreamAssumption ==
  MaxFrames \in Nat \ {0} /\ MaxTime \in Nat

VARIABLES
  now,       \* the clock timeMs() reads, here one that is not set back
  made,      \* number of frames made so far
  exchange,  \* frames of the turn of process() that are not published yet
  turn,      \* where process() is: "wait", "target" or "publish"
  posted,    \* frame events in the queue of Qt
  stream,    \* StreamModel: frames not fetched yet
  frames,    \* StreamModel: the rows
  enabled,   \* StreamFilter: filtering is on
  filters,   \* StreamFilter: columnFilters, a set of filters for each column
  accepted,  \* StreamFilter: rowsAccepted[column] is not zero, all that is read of it
  shown      \* the source rows the proxy shows

taskVars   == <<now, made, exchange, turn>>
modelVars  == <<posted, stream, frames>>
filterVars == <<enabled, filters>>
proxyVars  == <<accepted, shown>>
vars       == <<taskVars, modelVars, filterVars, proxyVars>>

\* A request and its response have numbers that follow each other.
Kinds  == {"activate", "deactivate", "request", "response"}
Frames == [id : 1..MaxFrames, kind : Kinds, time : 0..MaxTime + 1]

NoFilter == [c \in Columns |-> {}]

Init ==
  /\ now = 0 /\ made = 0 /\ exchange = <<>> /\ turn = "wait"
  /\ posted = <<>> /\ stream = <<>> /\ frames = <<>>
  /\ enabled \in BOOLEAN /\ filters = NoFilter   \* enabled is a setting
  /\ accepted = [c \in Columns |-> FALSE] /\ shown = {}

-----------------------------------------------------------------------------
(* The task: TargetListenerTask::process                                   *)

Frame(k, t) == [id |-> made + 1, kind |-> k, time |-> t]

Tick ==
  /\ now < MaxTime
  /\ now' = now + 1
  /\ UNCHANGED <<made, exchange, turn, modelVars, filterVars, proxyVars>>

FieldEvent ==
  /\ turn = "wait" /\ made < MaxFrames
  /\ \E k \in {"activate", "deactivate"} : exchange' = <<Frame(k, now)>>
  /\ made' = made + 1 /\ turn' = "publish"
  /\ UNCHANGED <<now, modelVars, filterVars, proxyVars>>

Request ==
  /\ turn = "wait" /\ made + 2 <= MaxFrames
  /\ exchange' = <<Frame("request", now)>>
  /\ made' = made + 1 /\ turn' = "target"
  /\ UNCHANGED <<now, modelVars, filterVars, proxyVars>>

\* faulty: both frames of an exchange are stamped with the plain clock
RespondNow ==
  /\ turn = "target" /\ exchange' = Append(exchange, Frame("response", now)) /\ made' = made + 1
  /\ turn' = "publish"
  /\ UNCHANGED <<now, modelVars, filterVars, proxyVars>>

\* A response is stamped one millisecond later than it is.
Respond ==
  /\ turn = "target"
  /\ \/ exchange' = Append(exchange, Frame("response", now + 1)) /\ made' = made + 1
     \/ UNCHANGED <<exchange, made>>   \* the target failed to process the command
  /\ turn' = "publish"
  /\ UNCHANGED <<now, modelVars, filterVars, proxyVars>>

\* faulty: a frame replaces the ones still in the queue of Qt
PublishNoQueue ==
  /\ turn = "publish"
  /\ exchange' = Tail(exchange)
  /\ posted' = <<Head(exchange)>>
  /\ turn' = IF exchange' = <<>> THEN "wait" ELSE "publish"
  /\ UNCHANGED <<now, made, stream, frames, filterVars, proxyVars>>

\* Through the frame subject and QtControl into the event queue.
Publish ==
  /\ turn = "publish"
  /\ exchange' = Tail(exchange)
  /\ posted' = Append(posted, Head(exchange))
  /\ turn' = IF exchange' = <<>> THEN "wait" ELSE "publish"
  /\ UNCHANGED <<now, made, stream, frames, filterVars, proxyVars>>

-----------------------------------------------------------------------------
(* The GUI thread: StreamModel                                             *)

AppendFrame ==
  /\ posted # <<>>
  /\ stream' = Append(stream, Head(posted)) /\ posted' = Tail(posted)
  /\ UNCHANGED <<taskVars, frames, filterVars, proxyVars>>

\* faulty: behind the last row
InsertLast(rows, f) == Append(rows, f)

\* The first row that is not earlier, as std::lower_bound finds it, or the end.
LowerBound(rows, f) ==
  CHOOSE i \in 1..Len(rows) + 1 :
    /\ \A j \in 1..i - 1 : rows[j].time < f.time
    /\ i <= Len(rows) => rows[i].time >= f.time

InsertByTime(rows, f) == InsertAt(rows, LowerBound(rows, f), f)

\* The loop of fetchMore: the frames new, one after the other.
InsertAll(rows, new) ==
  LET after[n \in 0..Len(new)] ==
        IF n = 0 THEN rows ELSE InsertByTime(after[n - 1], new[n])
  IN after[Len(new)]

\* filterAcceptsRow looks at every column that has a filter, and at all its filters.
ColumnAccepts(c, f) == \A filter \in filters[c] : f.kind \in filter.accepts
RowAccepted(f)      == enabled => \A c \in Columns : ColumnAccepts(c, f)

\* rowsAccepted[c] is counted up when the proxy asks for the frames fs.
Counts(c, fs) == enabled /\ filters[c] # {} /\ \E f \in fs : ColumnAccepts(c, f)

\* The rows are announced behind the last one, wherever they are inserted.
Announced == (Len(frames) + 1)..(Len(frames) + Len(stream))

\* faulty: what was fetched stays in the queue
FetchKeepsQueue ==
  /\ stream # <<>>
  /\ frames' = InsertAll(frames, stream)
  /\ shown' = shown \cup {r \in Announced : RowAccepted(frames'[r])}
  /\ UNCHANGED <<taskVars, posted, stream, filterVars>>

Fetch ==
  /\ stream # <<>>
  /\ frames' = InsertAll(frames, stream) /\ stream' = <<>>
  /\ shown' = shown \cup {r \in Announced : RowAccepted(frames'[r])}
  /\ UNCHANGED <<taskVars, posted, filterVars>>

\* faulty: rows fetched while others are shown are counted anew
FetchMoreForgets ==
  Fetch /\ accepted' = [c \in Columns |-> Counts(c, {frames'[r] : r \in Announced})]

\* The timer and the table call it, when there is something to fetch.
FetchMore ==
  /\ Fetch
  /\ accepted' = [c \in Columns |->
       accepted[c] \/ Counts(c, {frames'[r] : r \in Announced})]

-----------------------------------------------------------------------------
(* The GUI thread: StreamFilter.  invalidateFilter asks for every row again. *)

Rows     == DOMAIN frames
FrameSet == {frames[r] : r \in Rows}

\* faulty: the rows stay as they were
ChangeFiltersOnly(new) ==
  /\ filters' = new
  /\ UNCHANGED <<taskVars, modelVars, enabled, proxyVars>>

ChangeFilters(new) ==
  /\ filters' = new
  /\ UNCHANGED <<taskVars, modelVars, enabled>>
  /\ shown' = {r \in Rows : RowAccepted(frames[r])'}
  /\ accepted' = [c \in Columns |-> Counts(c, FrameSet)']   \* cleared, then counted

Without(c, m) == {filter \in filters[c] : filter.mode # m}

\* The menu of a column opens while filtering is on.
AddFilter(c, m, s) ==
  /\ enabled
  /\ ChangeFilters([filters EXCEPT ![c] = Without(c, m) \cup {[mode |-> m, accepts |-> s]}])

\* The options of a list filter, all unchecked.
RemoveFilter(c, m) ==
  enabled /\ ChangeFilters([filters EXCEPT ![c] = Without(c, m)])

ClearFilters(c) == enabled /\ ChangeFilters([filters EXCEPT ![c] = {}])

\* The button: what was accepted is not cleared, rows are counted on top of it.
SetEnabled ==
  /\ enabled' = ~enabled
  /\ UNCHANGED <<taskVars, modelVars, filters>>
  /\ shown' = {r \in Rows : RowAccepted(frames[r])'}
  /\ accepted' = [c \in Columns |-> accepted[c] \/ Counts(c, FrameSet)']

-----------------------------------------------------------------------------
TaskStep == Respond \/ Publish
ViewStep == AppendFrame \/ FetchMore

Next ==
  \/ Tick \/ FieldEvent \/ Request \/ TaskStep \/ ViewStep
  \/ \E c \in Columns, m \in Modes, s \in Accepts : AddFilter(c, m, s)
  \/ \E c \in Columns : RemoveFilter(c, "List") \/ ClearFilters(c)
  \/ SetEnabled

Spec == Init /\ [][Next]_vars

\* The task ends its turn, the event loop runs, and the timer fires every 500 ms.
FairSpec == Spec /\ WF_vars(TaskStep) /\ WF_vars(AppendFrame) /\ WF_vars(FetchMore)

-----------------------------------------------------------------------------
\* Every variable has its type; a frame's time is at most one ahead of the clock.
StreamTypeOK ==
  /\ now \in 0..MaxTime /\ made \in 0..MaxFrames
  /\ turn \in {"wait", "target", "publish"}
  /\ \A s \in {exchange, posted, stream, frames} :
       Len(s) <= MaxFrames /\ \A i \in DOMAIN s : s[i] \in Frames
  /\ enabled \in BOOLEAN
  /\ filters \in [Columns -> SUBSET [mode : Modes, accepts : Accepts]]
  /\ accepted \in [Columns -> BOOLEAN] /\ shown \subseteq Rows

\* A response never stands above the request it answers, however many frames of
\* one millisecond are fetched at once: the table reads from top to bottom.
RequestFirst ==
  \A r \in Rows : frames[r].kind = "response" =>
    \E q \in 1..r - 1 : frames[q].kind = "request" /\ frames[q].id + 1 = frames[r].id

\* The rows are sorted by time, whatever was fetched together.
SortedByTime == \A r, q \in Rows : r < q => frames[r].time <= frames[q].time

\* No frame came to stand above one that was made before it.
InOrder == \A r, q \in Rows : r < q => frames[r].id < frames[q].id

\* As long as every insertion was at the end, as it is announced, the proxy
\* shows just the rows that all filters of all columns accept, however frames
\* arrive between changes of the filters and clicks on the filter button.
FilteredViewIsRight ==
  InOrder => shown = {r \in Rows : RowAccepted(frames[r])}

\* The mark of a filtered column says whether any row passes its filters: the
\* counts survive fetches and switching filtering off and on.
HeaderAgrees ==
  InOrder /\ enabled =>
    \A c \in Columns : filters[c] # {} =>
      (accepted[c] <=> \E r \in Rows : ColumnAccepts(c, frames[r]))

\* Every frame the task makes becomes a row.
EveryFrameIsShown ==
  \A n \in 1..MaxFrames : made >= n ~> \E r \in Rows : frames[r].id = n
=============================================================================
