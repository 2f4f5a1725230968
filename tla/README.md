# Verification of hce-laboratory

TLA+ models of the parts of hce-laboratory that are concurrent, talk to hardware or
keep state that other parts believe, the TLC runs that check them on small instances
and the TLAPS proofs that hold for every instance. Paths below are relative to the
repository; `rt-lang`, `hw-dev` and `hce-tasks` stand for their `src/main` directories
under `src/hce-lib`.

## 1. The system

The desktop program (`app-qt`) emulates an NFC card. A *listener task* drives a PN7160
controller through an FTDI cable, answers the reader in the field with a *target*, and
reports what it does; the window shows its status and the frames, and sends it commands.
A command line tool (`app-t4t`, `main-pn7160.cpp`) does the same without the window. Beside it
stands `main-pn532.cpp`, the same on a PN532 behind a serial port; it is not in the
`CMakeLists.txt` and includes a target that is gone (`Desfire`), but it is the only code that
shows how the drivers `PN532` and `HSU` of the library are used.

```
 QtWindow <-- events --> QtControl                     reader in the field
                           |  ^                               |
          "target.listener.command"  "target.listener.status"  |  (radio)
                 (rt::Subject)        "target.listener.frame"   |
                           v  |                               |
   rt::Executor --runs--> TargetListenerTask --> PN7160 --> MPSSE --> controller
    (pool threads)         (rt::Worker)         (driver)   (FTDI bus)

   main-pn532 --> PN532 --> HSU --> serial line --> chip      any thread --> Logger --> stream
```

| component | state it keeps | operations | hard because |
|---|---|---|---|
| `rt::Executor` (`rt-lang/cpp/Executor.cpp`) | shutdown flag, queue of waiting jobs, list of running jobs, threads | `submit`, `exec` (each thread), `terminate`, destructor | threads, submitters and terminator interleave between five unsynchronised steps; condition variable without predicate |
| `rt::Worker` (`Worker.cpp`) | `terminated`, `aliveMutex`, `sleepMutex` | `run`, `wait`, `notify`, `terminate` | a flag read outside the lock that guards the sleep |
| `rt::BlockingQueue`, `Subject`, `Finally`, `Promise` | queued items; observers and a retained event | `add/get/remove/clear`; `next/error/close/subscribe` | called from several threads; observers are called without the lock |
| `PN7160` (`hw-dev/cpp/hw/ic/PN7160.cpp`) | `status`, the bus | `open`, `close`, `coreReset`, `startDiscovery`, `stopDiscovery`, `waitEvent`, `recvData`, `sendData` | request/response over a channel on which the other side also talks; time-outs, half finished calls |
| `MPSSE` (`hw/proto/MPSSE.cpp`) on `ftdi.c` | FTDI handle, pin masks; libftdi's read buffer, the cable's FIFO | `open`, `close`, `start/stop`, `read/write`, `getGpio/setGpio` | bytes without an owner in three buffers, status bytes in every packet, transfers that fail half way |
| `TargetListenerTask` (`hce-tasks`) | command queue, `listenerStatus`, target | `loop`: one command, then `refresh` or `process` | commands of other threads in the middle of exchanges with the controller |
| `Usb` (`hw/dev/Usb.cpp`) | handle, event thread, transfer list | `open`, `close`, `syncTransfer`, `asyncTransfer`, `cancelTransfer`, callback | callback thread, list without a lock, shutdown |
| `ACR122U`, `PCSC` | handle | `open`, `close`, transceive | blocking exchanges |
| `PN532` on `HSU` (serial) | port, guess of the chip's power mode | frame send, acknowledge, receive, target calls | neither acknowledgement nor answer says whose it is; time-outs, late answers, a chip that falls asleep |
| `Buffer`, `ByteBuffer` | position, limit, capacity over shared memory | put/get/push/pop/rotate/shift | index and bit arithmetic |
| `Logger` | loggers, levels, appender queue, flush and shutdown flags | `trace ... error`, `flush`, `shutdown`, writer thread | flags that are under no lock of the queue; join while others log |
| `Frame`, `CRC`, `CMAC` (`hce-core`) | none | pure | boundary values |
| `T4T` target | selected application | `select`, `deselect`, `process` | small |
| `QtApplication`, `QtControl`, `QtWindow` | action state, last status | start-up, shutdown, event handlers | GUI thread against task threads |
| `StreamModel`, `StreamFilter`, parsers | pending queue, rows | `append`, `fetchMore`, `resetModel` | producer thread, time order |

Left out for good: widgets and styles (painting), file, library and archive access (pure
I/O), and vendored code (`lib-ext`, `3party`).

What makes each part correct:

- *Executor*: a submitted job is run once, by one thread, or is dropped only after the
  pool is closed; a task that is listed as running is told to stop; shutdown ends.
- *PN7160*: `open()` recovers from whatever earlier calls left; the driver's status and
  the bus agree; the radio is where the last successful call put it.
- *Listener task*: the status it publishes is what the controller does; a Stop is never
  lost; queued commands are taken.
- *Subject and window*: every observer sees the last retained value; a button that can be
  pressed is about the listener as it is; one command at a time.
- *MPSSE*: bytes come in their order, none twice, no status byte among them; while no
  transfer fails a read has its own; reads return.
- *HSU, PN532*: an answer is not taken for another command's; the loop gets back to a card that
  works after any time-out.
- *Logger*: what was logged is written once and in order; shutdown ends.

## 2. Modules and plan

| # | module | state |
|---|---|---|
| 1 | `Executor` (detailed), `TaskPool` (what it promises), `Executor_proofs` | done |
| 2 | `PN7160` (driver, controller, reader), `PN7160_proofs` | done |
| 3 | `Listener` (what the task promises), `TargetListener` (the task on top of `PN7160`, which it EXTENDS), `TargetListener_proofs` | done |
| 4 | `ListenerUi` (window, `QtControl`, event queue and subject, on top of `Listener`, which it EXTENDS), `ListenerUi_proofs` | done |
| 5 | `StreamView` (frames from the task into the filtered table), `StreamView_proofs` | done |
| 6 | `MPSSE` (driver, libftdi and cable), `MPSSE_proofs` | done |
| 7 | `Logger` (writer thread and its queue), `Logger_proofs` | done |
| 8 | `PN532` (`main-pn532`, `PN532`, `HSU`, line and chip), `PN532_proofs` | done |

`TargetListener` and `ListenerUi` compose: the task runs on the actions of the PN7160 driver, and
the window on the abstract listener the task was shown to implement. `PN7160` sees its cable as
transfers that fail before or after they took effect; `MPSSE` is that cable from the inside. `Executor`, `Logger`, `StreamView`
and `PN532` share no state with the others that any of their properties depends on. What was
planned and is not there, and why, is in section 7.

Conventions: one action per step that touches shared state, named after the function and
the point in it; a `...Step` operator groups the actions of one actor; faulty variants,
used to show that a property can fail, stand before the action they replace and are
marked as such.

## 3. What each module models

### Executor, TaskPool

`pc[t]` is where a pool thread is in `exec()`: `check` (the `while`), `poll`
(`waitingJobs.get()`), `popped`, `run`, `loop` (inside `Worker::run`), `after`, `remove`,
`idle` (the queue was empty), `lock` (before `threadSync.wait`), `asleep`, `exit`. `sub`
and `term` are the same for the callers of `submit` and for the one call of `terminate`.
Each step between two accesses to shared state is an action, so the window between
`waitingJobs.get()` and `runningJobs.add`, and the one between the last look at `shutdown`
and `wait`, are there. `notify_all` wakes only threads that are `asleep`; `wait` may also
wake for no reason. The mutexes of the two queues make each of their operations one step
and have no variable. `Worker::terminate` raises the flag and then waits for `aliveMutex`
(`term = "await"`), which `run()` holds while `work = "running"`.

`TaskPool` is the promise: a job is new, queued, running, finished or dropped; it is
started at most once, only while the pool is open, and dropped only when it is closed. The
refinement mapping takes the queue and the hands of a thread before `run()` together as
*queued*; *closed* is that every thread left `exec()`.

### PN7160

A call is a script of NCI steps (`Scripts`), read off `open`, `coreReset`,
`startDiscovery...` and `nciRfDiscoveryStop`; a step sends its command (`nciSend`) and reads one message
(`nciRecv`), and the call returns at the first failure. A message keeps its kind and
whether its fourth byte is zero, since that byte is all `nciControl` looks at. The
controller (external: no source in the repository; modelled from the exchanges the driver
expects) works off commands in order, answers, and queues notifications; the reader
activates the card, sends data, leaves. `Faults` switches on late answers, error answers,
bus transfers that fail before or after they took effect (an unreadable interrupt pin makes noise a
message), and reset pulses without effect. `recvData` is
modelled with its time arithmetic: a time-out of zero or more gives up at the first
message that is not data, or goes on when the truncated count of nanoseconds is negative.

### Listener, TargetListener

`task` is where `loop()` is. One turn takes at most one command, then calls `refresh()`
or `process()`. Every driver call is made of the actions of `PN7160`, so commands arrive,
the controller answers and the reader moves inside each call. `TakeConfigure` has the three outcomes of the code: status 0 (which is
Absent) is published, the command is rejected, or `json::parse` throws and the task is
gone. The card answers every command it is given.

`Listener` is what a client of the task may rely on without knowing the driver: the queue
of commands, the published status, what the task is in the middle of, and whether the
device was opened. The refinement mapping reads `doing` off `task`, and *opened* is a driver
status other than CLOSED, which nothing in the task's code takes back.

### ListenerUi

The listener task is `Listener`, which `TargetListener` was shown to implement; around it
stand the two threads of the desktop program. What the task publishes goes through
`Subject::next` in the steps that take its lock (`publishing`: `copy` the observers, `call`
them, `store` the retained value), and through `QtApplication::post`, which looks at
`shuttingDown` (`call`) and then posts (`post`). The GUI thread handles one event at a
time, the window's handler and then `QtControl`'s, as `customEvent` does; the start-up event
sets the buttons and makes `QtControl` subscribe. A button is a press of an enabled action.
`app` follows `main`: the window is closed, the executor's destructor joins the task, and
only then is the application destroyed. The window sends Start and Stop only, so the
other commands of `Listener` do not occur here. One subject is modelled step by step; the
command subject has one observer from the task's constructor on, and is the queue behind it.

### StreamView

`exchange` is what a turn of `process()` has to publish: a field event, or a request and its
response; `posted`, `stream` and `frames` are the event queue, the model's queue and its
rows, and `shown` the row numbers the proxy shows. `Respond` keeps the `+ 1` of the code's time
stamp, and `Fetch` announces rows at the end while it inserts each at the first row that is
not earlier. Of a filter only its mode and the frame types it accepts are kept, and of
`rowsAccepted` only whether it is zero, which is all `rowsAccepted()` returns. `QSortFilterProxyModel` is
external: asked for rows that were inserted, and for all of them when invalidated. Sorting by a
column is left out, since it maps the same set of rows. The menu of a column is there
only while filtering is on; the button may be pressed at any time.

### MPSSE

A byte is the number of its clocking. It moves from `owed` (asked of the cable) into the cable's
`fifo`, from there in a bulk transfer through `ftdi_read_data` to the caller (`got`) or, what the
caller did not want yet, into libftdi's `readbuffer`. `Raw` is a transfer as it comes, with two
status bytes at the head of every packet. It ends with the first packet that is not full, and that
is a status alone when the data just filled the ones before it, or with the chunk, when all are
full (`RawLength`). `DataLength`, `Moved` and `Strip` are the length arithmetic and the moves of
`ftdi_read_data` over these cases.
`call` is where a call is between two USB transfers. A command that was cut off by a failed
write (`cut`) makes the cable read what follows as the rest, so it may clock in any number of bytes
or leave the pins alone. A failed read keeps everything else where it was: nothing flushes until
the next `open`, which resets cable and buffer. The result of the flush at the end of `open` is not looked at, so an
error byte of the set-up may stay (`OpenSucceeds`, second case). Written data has no content
here: nothing comes back for it. `getGpio` changes nothing and is left out.

### Logger

`pc` is where the writer is: in `BlockingQueue::get` (`get`, `waiting`), in `write`, at the test of
the flags, between `stream.flush()` and `flush = false`, at the test of `shutdown`. `get` returns
nothing when its 100 ms are over, without another look at the queue (`TimeOut`). `Push` is
any thread's, so is `Flush`; `Shutdown` and `Joined` are the two halves of `stop()`. `good` is
`stream.good()`, which a failed write ends for good. The state `looked` records how many events had
been added when the writer last saw its queue empty.

### PN532

`stage` is the call the program is in: the set-up, whose failures end the program except those of
the registers, then `tgInitAsTarget`, `tgGetData`, `tgSetData`. `pc` is the read `HSU::transmit` is
in. What the chip sends travels as pieces (acknowledgement, header, body, postamble) from `tx` to
`rx`; a piece carries, for the properties and for what the program makes of the content, which
command it is for. The driver's checks see only what part it is. A purge empties `rx` and may tear
the piece that is just arriving; it cannot reach what the chip has not sent. A garbled piece keeps
its length and passes no check. `powerMode` is the driver's guess, `asleep` the truth: a frame
without wake-up to a sleeping chip is not heard. The chip (external) drops the command it is
at when a frame arrives, acknowledges, and answers later: a TgInitAsTarget when a reader comes, a
TgGetData when the reader sends or leaves. A time-out of 0 is none: those reads wait for ever.

## 4. Runs

| run | instance | shows |
|---|---|---|
| `executor` | 2 threads, 2 jobs | `OneOwner`, `JoinedIsQuiet`, `DrainReachesListed`, refinement of `TaskPool`, and the three liveness properties |
| `executor_shutdown` | 1 thread, 1 job | violation: `terminate()` of a pool that was given no job may never return |
| `pn7160` | late, reject, bus; `MaxQueue` 2 | types, `StatusMeansBus`, `OpenInStep`, `OpenIsClean`, `DiscoveryFollowsCalls` |
| `pn7160_recv` | no faults; `MaxQueue` 2 | violation: `recvData` gives up at a message it should skip |
| `listener` | late, gpio; `MaxQueue` 3; all commands, 3 of them | `ListeningMeansDiscovering`, refinement of `Listener`, `StopTurnsOff`, `QuietReaderServes` |
| `listener_idle` | no faults; `MaxQueue` 3; 4 commands | violation: Idle is published with the radio on |
| `ui` | `MaxPosted` 3 | `OneCommandAtATime`, `ButtonsAreCurrent`, `PostFindsApplication`, `StopIsAnswered`, `PublishedIsShown` |
| `ui_missed` | `MaxPosted` 3 | violation: a status published while `QtControl` subscribes never reaches the window |
| `stream` | 3 frames, 2 columns, 1 mode, filters for requests and for responses, `MaxTime` 1 | `RequestFirst`, `SortedByTime`, `FilteredViewIsRight`, `HeaderAgrees`, `EveryFrameIsShown` |
| `mpsse` | packets of 4 bytes, 2 in a transfer, blocks of 2; reads of up to 3, 6 bytes in all | `BusInStep`, `BytesKeepOrder`, `ReadReturns` |
| `logger` | 4 events, 2 flushes | `PendingAreWritten`, `StopReturns` |
| `pn532` | `MaxFaults` 3 | `AnswerIsOwn`, `ReaderIsServed` |

Bounds, all named in the modules:

- *Threads, Jobs*: every property is about one job, one thread, or a pair; two of each give
  every race between two threads and between a thread and a terminator. The refinement and all safety
  properties of this module are proved for any number.
- *MaxQueue*: new commands and new moves of the reader are allowed while fewer messages
  and commands are outstanding; a call that has begun always finishes its own. Two or three
  stale messages are enough to put the driver one or two exchanges out of step, which is as far as its
  longest confusions between Start and Stop reach. A reset pulse without effect
  has the same bound.
- *MaxPosted*: events in the queue of Qt. The task waits for room, and the buttons allow one
  command; three is the start-up event or a command with two statuses, and the safety
  properties are proved for any number.
- *MaxCommands*: three commands give every Start, Stop, Start; the violation needs four.
- *MaxFrames, MaxTime*: three frames are an exchange and a field event before or after it, fetched
  together or apart; two ticks of the clock and the response's extra millisecond give every order of
  their times. Two columns with a filter each, for requests or for responses, give filters that
  hide what another accepts, and marks that differ. A second mode in a column adds one more filter
  to it; with it the run took twelve times as long and found nothing else. The safety properties are proved for any numbers of frames, columns and modes.
- *PacketSize, Packets, TxSize, MaxRead, MaxBytes*: two data bytes in a packet and two packets in
  a transfer give transfers that are empty, that end with a short packet, alone or behind a full one,
  or with a status alone behind a full one, that fill the chunk, and that leave a rest in the cable;
  three bytes are two blocks, the second short. Six bytes let a read be
  followed by another that finds its remains. The safety properties are proved for any sizes.
- *MaxEvents, MaxFlushes*: one event in the writer's hand, one in the queue, one that comes
  between the last look and the exit, and one behind it; a flush before and one during the reset of its flag. Safety is
  proved for any number.
- *MaxFaults*: the writes that fail, the time-outs that come before what the chip is about to send,
  the calls that begin while it is still sending, its answers to an older call while a frame is on
  its way, and the garbled pieces, counted together. Three are a late answer, the call that
  begins over it and one more failure on the way back. `AnswerIsOwn` is proved for any number.
  `ReaderIsServed` is about what happens once they end, and cannot do without: see section 6.

Deadlock is checked for the executor's passing run. It is switched off where
the system really may stop: `recvData(-1)` on an idle radio, a listener task that died
of a parse error, with no commands left, a program whose window was closed, a
table that has all its frames, a cable whose bytes are used up, a logger that was shut down, and
`main-pn532` after a set-up that failed.

Fairness: a pool thread that can go on does (the OS scheduler), and so does a call of
`submit` or `terminate` that has begun. Nothing is assumed of tasks (they end only when
told to), of spurious wake-ups, of callers and of the reader. In the listener runs the
task's thread and the controller are fair; with `late` the controller may take any time.
In `ui` both threads are fair; of the task's this holds once the reader lets go of the card,
which is what `QuietReaderServes` shows. Nobody has to
press a button. In `stream` the task ends a turn it began, and the event loop and the 500 ms timer
of the window run. In `mpsse` the driver goes on with a call it began and the cable clocks in what
it owes; no transfer has to fail, so `ReadReturns` does not lean on an error. In `logger` the writer
runs and its 100 ms end; nobody has to log, flush or stop. In `pn532` the program runs, its time-outs end, the line delivers and
the chip takes its commands; readers do as they like.

### What the violations show

- `executor_shutdown`: a thread finds the queue empty and the flag down (Executor.cpp 132);
  `terminate` raises the flag and notifies; the thread then waits (138), for ever. The property is
  about a pool to which nothing was submitted, so that no task can be what `join` waits for.
  `ShutdownFromQuietPool` says from which states it does end.
- `pn7160_recv`: nanoseconds are subtracted from milliseconds (PN7160.cpp 615).
- `listener_idle`: `nciControl` takes any message for its response (1111); a failed Start
  can leave its DISCOVER to be carried out later, after Idle.
- `ui_missed`: `next` copies its observers (Subject.h 72) and stores the value (86) with the
  lock released in between. `QtControl` subscribing in the gap gets the old value, Absent,
  and the window stays disabled: an idle listener publishes nothing more.

## 5. Proofs

`Executor_proofs`: `ExecutorInv` is inductive. `OneOwner` has two parts: a job is in the queue or in
the hands of one thread, never both or twice (`SingleOwner`), and one that was submitted and not
started is somewhere, as long as a thread is left to run it (`NoneLost`; it needs the first, since
what leaves the queue must arrive in a hand). `DrainReachesListed` needs that a thread between `runningJobs.add` and
the end of `run()` has its job listed or flagged (`ListedWhileRun`): when the drain finds the list
empty, only flagged ones are left. `JoinedIsQuiet` is needed because `terminate` may be called again. From
it come types, the two invariants, the action property and the refinement: every action maps to a
step of `TaskPool` or to a stutter. Assumed: there is a thread, and `NoJob` is not a job.

`PN7160_proofs`: types, and `StatusMeansBus`, whose invariant adds what the bus is while
`open()` runs. `OpenInStep` is its own strengthening: step by step, which
commands and messages are outstanding while `open()` runs; `OpenLeavesClean` follows from
it at the last step. These two have the premise `"gpio" \notin Faults`: without the
reset pulse `open()` starts with whatever is in the controller, and they are false.
`DiscoveryFollowsCalls` is about the last step of a call, and needs what holds before it
(`Tracked`): while the answer to a DISCOVER or a DEACTIVATE is awaited, that command is the last the
controller has to do; or it is done, nothing but notifications are behind it, and the radio is as it
says or its refusal is unread. A stale message taken for the answer, a lost one or a failed transfer
does not touch that, so there is no premise on the faults.
All of this is proved of `AnyClient`, in which the calls of the class come whenever no other is in
progress and without the bound `MaxQueue`. The specification of the run is one such client
(`SpecIsClient`), the listener task another.

`TargetListener_proofs`, for any bounds and any number of commands. The invariant `TaskInv`
ties `task` to the driver's `call` and to `ret`, and is what types
(`ListenerTyped`) and the refinement (`ListenerImplementsPromise`) rest on: a step of the
task is a step of `Listener`, and a step of the driver, the controller or the reader is a
stutter, or `DeviceOpens`. That the task is a client of the driver (`ListenerIsClient`) carries the
driver's theorems over to it (`ListenerDriverFollows`, `ListenerOpensClean`), commands
arriving in the middle of its calls included. `ListeningMeansDiscovering` needs more than itself: that the
radio is on, or will be, *once* the last step of a Start has sent its DISCOVER and until a
Stop or a reset sends something else (`RadioInv`). It has the premise
`"reject" \notin Faults`: a driver that takes an old response for its own cannot know that
its DISCOVER was refused. `StopTurnsOff` has the invariant `StopInv`: after the DEACTIVATE
of a Stop was sent, no DISCOVER stands behind it; its premise excludes failing transfers
too, since a Stop whose DEACTIVATE never left publishes Idle all the same.

`ListenerUi_proofs`, for any `MaxPosted`. The four safety properties rest on one inductive
invariant, `UiInv`. All events but the last are "disabled" (the task repeats them while it
looks for its device, `OnlyDisabled`), so the last one, `Coming`, decides: if a command is on
its way, the window shows the status it was sent for, that status is the current one,
nothing is being published and both buttons are off (`SentForStatus`); if a status is on its
way, it is the current one and news to the window, and no command is (`TellsNews`). That
together excludes crossing. `BeforeStartup` is the same for the time before the start-up
event. The only assumption is the one on the bound.

`MPSSE_proofs`, for any packet, block and transfer size. `ReceivedIsSent` is the lemma the rest
stands on: for any bytes that fit in a transfer, what `ftdi_read_data` makes of a transfer is what
was put into it; it is arithmetic on quotients and remainders (`PacketsOf`, `LengthIsRight`,
`WhereDataIs`), and the delicate cases are a status alone behind full packets and a chunk of full
ones. `BytesKeepOrderHolds` follows by the invariant that `got`, `readbuffer` and `fifo` in a row
are increasing and bounded by what was clocked. `BusInStepHolds` needs more than itself: in the
middle of a read the row is consecutive from the first byte asked for, and what is asked, received
and still to come add up. Assumed: `MpsseAssumption` (sizes that are positive, packets that hold
data).

`Logger_proofs`, for any number of events and flushes. What was written, what the writer holds and
what is queued are, in a row, the events in the order of `add()`; and once the writer has left
`get` empty handed, everything up to `looked` is written.

`PN532_proofs`, for any number of faults. `AnswerIsOwn` is not inductive. The invariant `Mine` is
about the call in progress, if no older acknowledgement was due when it began. Then every acknowledgement that has
arrived or is on the line is the call's own, and in that order nothing older stands behind a piece of
the call (`LineOf`); so once the acknowledgement was read, all that is left to read is the call's.

`StreamView_proofs`, for any number of frames, columns, modes and times. `fetchMore` inserts in a loop,
which the model writes as a recursive function over its passes (`InsertAll`). What it returns
needs induction, and the library states induction for an operator, which the provers cannot take. It
is had instead as a fact about sets: a set of numbers that is not empty has a least element, since
strict inclusion of finite sets is well founded (`LeastElement`), and so a set with 0 and every
successor has all numbers (`SetInduction`). That gives first that the function exists
(`InsertAllPasses`) and then what the loop does: it adds each frame once, loses no row and keeps rows
sorted (`InsertAllShape`); and if the frames are newer than the rows and the numbers still
increase afterwards, no row moved (`InsertAllLast`), which is what `shown`, row numbers announced
at the end, depends on. The invariant `StreamInv` adds to the run's properties what they need:

- `Inventory`: rows and queues together are the frames made, each once, and the queues are in the
  order of their making; so no frame is lost, doubled or overtaken on its way to the table. It is a
  theorem of its own (`InventoryHolds`).
- `Answers`: a response has the number after its request's and a later time, wherever the two are.
  With `Inventory` (the request is made earlier, so it is a row when its response is) and
  `SortedByTime` this is `RequestFirst`, which is not inductive: it says nothing of a response in the queue.
- `CountsAreReal`: a count that is not zero has a row behind it also while filtering is off, when the
  header says nothing. Without it switching filtering on again could bring back a mark that is wrong.

The only assumption is `StreamAssumption`, on the bounds.

Only model-checked is liveness: `ServedUnlessRacing`, `WorkerStops`, `ShutdownFromQuietPool`,
`QuietReaderServes`, `StopIsAnswered`, `PublishedIsShown`, `EveryFrameIsShown`, `ReadReturns`,
`StopReturns`, `ReaderIsServed`. Each rests on weak fairness, hence on ENABLED, which the prover does not
handle. Every invariant and action property of a passing run, and both refinements, are theorems.

## 6. Known and not turned into a run

- `submit()`'s notification can be lost in the same race as `terminate()`'s; the task
  then waits for the next one.
- A job popped but not yet in `runningJobs` when `terminate()` drains the list (Executor.cpp 94-99) is
  run and is not told to stop, and `join` waits for it as long as it likes. `DrainReachesListed` is
  about listed jobs, and `ShutdownFromQuietPool` starts from states without such a job.
- A failed `nciSetConfig` leaves the bus open (PN7160.cpp 293-315); the next `open()`
  closes it first.
- `stopDiscoveryMode` (470-485) is never called, so the driver's status stays LISTENING
  after `stopDiscovery()`.
- `poolSize` (Executor.cpp 54) is never enforced.
- A Start that fails publishes nothing, so the Listen button that `toggleStart` disabled
  (QtWindow.cpp 433) stays disabled, and so does Stop.
- The device is published Absent again and again while it is looked for; the window
  ignores the repetitions.
- The finisher of a subscription keeps the address of an element of the observers' vector
  (Subject.h 144); no subject of the programs has a second observer.
- `fetchMore` announces its rows behind the last one (StreamModel.cpp 417) and inserts them
  by time. When a frame is fetched that is not later than a row that is there (a field event in
  the millisecond of an exchange, a clock set back), the proxy applies filter results to the
  wrong rows until it is invalidated. `FilteredViewIsRight` has the premise that no frame
  came in that way.
- A reader that keeps sending keeps the task in the loop of `process()`
  (TargetListenerTask.cpp 213), and queued commands, a Stop too, wait as long.
- `MPSSE::setGpio` of GPIOL0-3 while Stopped sends `mode.pstart`, in which chip select is low
  (MPSSE.cpp 693). The programs set GPIOH2 and GPIOH3 only; `BusInStep` has the premise.
- After a failed read on the cable the bytes of it stay, and later reads return them, until the next
  `open()`. The model of the PN7160 driver does not follow that shift: a failed transfer
  there loses its message or delivers it, and no byte goes to another read.
- `ftdi_deinit` sets `usb_ctx` to NULL (ftdi.c 251), so a second `open` works with libusb's default
  context, if another part of the program has made one.
- An event added behind the writer's last look at an empty queue, by another thread or even by
  the one that calls `shutdown()`, is never written (Logger.cpp 146-165): "flush
  pending messages" (app-qt main.cpp 228) does not reach it. A thread that logs without a pause keeps the
  writer from its flags. A flush asked for between `stream.flush()` and `flush = false` is
  forgotten. Once the stream is bad, events are dropped and not freed.
- `setLoggerLevel` returns at the first logger that does not match (Logger.cpp 384), though its comment
  says "check if any of already created logger matches"; loggers behind it keep their level.
- On the PN532, each call begun while the chip still sends the answer to the one before can take that
  answer's acknowledgement for its own, and the exchange may stay one answer behind for ever; a purge that always comes in
  the middle of an answer can go on failing for ever. Both need the coincidence again and again, which
  is why `ReaderIsServed` bounds the faults.
- The calls of the PN532 with time-out 0 wait for ever when an answer is lost. The code of a response
  (the command's plus one) is checked nowhere, a failed `tgSetData` leaves the status of the
  `tgGetData` before it, and a TgInitAsTarget answer of two bytes makes a length of -1 (PN532.cpp 195-203).
- `HSU` works on Windows only; elsewhere every call returns -1.

## 7. Not modelled, and why

- *Usb* (`hw/dev/Usb.cpp`): no code opens one of its devices. `MPSSE` uses `Usb::list()`, a scan
  without state, and does its transfers through libftdi. Hard in it
  are a callback that removes a transfer before it was put in the list (318), which has no lock, and
  `close()` waiting for transfers nobody cancels (200); a model would be of calls nobody makes.
- *ACR122U, PCSC*: blocking exchanges with the smart card service of the operating system; the only
  state is a handle, the only user is not built.
- *I2C in MPSSE*: no program selects it. It also leaves one byte per read in the cable (the
  acknowledgement bit at 393 is asked for and never received).
- *Worker::wait and notify*: the one caller gives a time of a second and looks again whether it was
  woken or not.
- *Buffer, ByteBuffer, CRC, CMAC*: sequential value arithmetic without a state that outlives a call;
  `rotate`, `shift`, CRC and CMAC are called by no program. Unit tests reach all of it.
- *Levels of loggers*: set before any other thread runs.
- *Containers, file, library and archive access, text formatting, widgets and styles*: one step each,
  pure I/O, or painting.
- *Vendored code* (QCustomPlot, nlohmann json, libftdi apart from its write, read, reset and flush,
  microtar, microaes, libusb's header): third-party, and by far most of the lines of the repository,
  so that the lines the map names stay a small share of all of them.
