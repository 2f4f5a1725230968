------------------------------- MODULE Logger -------------------------------
(***************************************************************************)
(* The logger's writer thread (rt-lang Logger.cpp, struct Appender) and    *)
(* the BlockingQueue its events wait in.  Any thread may add an event; the *)
(* writer takes them in order and, whenever the queue gave it nothing for  *)
(* 100 ms, looks at the flush and shutdown flags.  Neither flag is under   *)
(* the queue's lock.  An event is the number of its add().                 *)
(***************************************************************************)
EXTENDS Integers, Sequences

CONSTANTS
  MaxEvents,  \* bound: events that are logged
  MaxFlushes  \* bound: calls of Logger::flush

ASSUME LoggerAssumption == MaxEvents \in Nat /\ MaxFlushes \in Nat

VARIABLES
  queue,     \* BlockingQueue::queue
  pc,        \* where the writer is
  hand,      \* the event it took, or none: a sequence of at most one
  good,      \* stream.good()
  flush,     \* Appender::flush
  shutdown,  \* Appender::shutdown
  stopper,   \* the thread that calls Logger::shutdown: "up", "joining", "done"
  out,       \* events written to the stream
  added,     \* history: events added
  looked,    \* history: events added when the writer last saw the queue empty
  flushes    \* history: calls of Logger::flush

vars == <<queue, pc, hand, good, flush, shutdown, stopper, out, added, looked, flushes>>

\* Faulty variants: an event is copied and not taken; get() does not end its
\* wait; the flags are tested after every event; join comes before the flag.
KeepFront == hand' = <<Head(queue)>> /\ queue' = queue /\ pc' = "write"

NoTimeOut == FALSE /\ UNCHANGED vars

OneEventARound ==
  /\ pc = "write"
  /\ out' = IF good THEN out \o hand ELSE out
  /\ hand' = <<>> /\ pc' = "flags"
  /\ UNCHANGED <<queue, good, flush, shutdown, stopper, added, looked, flushes>>

JoinFirst ==
  /\ stopper = "up"
  /\ stopper' = "joining"
  /\ UNCHANGED <<queue, pc, hand, good, flush, shutdown, out, added, looked, flushes>>

-----------------------------------------------------------------------------
(* The other threads                                                       *)

\* Logger::trace ... error: an enabled event.  add() notifies the writer.
Push ==
  /\ added < MaxEvents
  /\ queue' = Append(queue, added + 1)
  /\ added' = added + 1
  /\ UNCHANGED <<pc, hand, good, flush, shutdown, stopper, out, looked, flushes>>

Flush ==
  /\ flushes < MaxFlushes
  /\ flush' = TRUE /\ flushes' = flushes + 1
  /\ UNCHANGED <<queue, pc, hand, good, shutdown, stopper, out, added, looked>>

\* Appender::stop: raise the flag, join.  A second stop finds nothing to join.
Shutdown ==
  /\ stopper = "up"
  /\ shutdown' = TRUE /\ stopper' = "joining"
  /\ UNCHANGED <<queue, pc, hand, good, flush, out, added, looked, flushes>>

Joined ==
  /\ stopper = "joining" /\ pc = "exited"
  /\ stopper' = "done"
  /\ UNCHANGED <<queue, pc, hand, good, flush, shutdown, out, added, looked, flushes>>

-----------------------------------------------------------------------------
(* The writer: exec() and BlockingQueue::get(100)                          *)

TakeFront == hand' = <<Head(queue)>> /\ queue' = Tail(queue) /\ pc' = "write"

\* get, first look.
Look ==
  /\ pc = "get"
  /\ IF queue # <<>> THEN TakeFront /\ UNCHANGED looked
     ELSE pc' = "waiting" /\ looked' = added /\ UNCHANGED <<hand, queue>>
  /\ UNCHANGED <<good, flush, shutdown, stopper, out, added, flushes>>

\* get, woken by add(): it looks again.
WakeUp ==
  /\ pc = "waiting" /\ queue # <<>>
  /\ TakeFront
  /\ UNCHANGED <<good, flush, shutdown, stopper, out, added, looked, flushes>>

\* get, 100 ms over: it returns without another look, though an event may have
\* been added while it waited for the lock.
TimeOut ==
  /\ pc = "waiting"
  /\ pc' = "flags"
  /\ UNCHANGED <<queue, hand, good, flush, shutdown, stopper, out, added, looked, flushes>>

\* The event is written, or dropped once the stream is bad.
WriteEvent ==
  /\ pc = "write"
  /\ out' = IF good THEN out \o hand ELSE out
  /\ hand' = <<>> /\ pc' = "get"
  /\ UNCHANGED <<queue, good, flush, shutdown, stopper, added, looked, flushes>>

\* The write fails, and with it every later one: nobody clears the stream.
WriteFails ==
  /\ pc = "write" /\ good
  /\ good' = FALSE /\ hand' = <<>> /\ pc' = "get"
  /\ UNCHANGED <<queue, flush, shutdown, stopper, out, added, looked, flushes>>

TestFlags ==
  /\ pc = "flags"
  /\ pc' = IF flush \/ shutdown THEN "flushed" ELSE "test"
  /\ UNCHANGED <<queue, hand, good, flush, shutdown, stopper, out, added, looked, flushes>>

\* The stream has been flushed; a request raised meanwhile is forgotten too.
ClearFlush ==
  /\ pc = "flushed"
  /\ flush' = FALSE /\ pc' = "test"
  /\ UNCHANGED <<queue, hand, good, shutdown, stopper, out, added, looked, flushes>>

TestShutdown ==
  /\ pc = "test"
  /\ pc' = IF shutdown THEN "exited" ELSE "get"
  /\ UNCHANGED <<queue, hand, good, flush, shutdown, stopper, out, added, looked, flushes>>

-----------------------------------------------------------------------------

Init ==
  /\ queue = <<>> /\ pc = "get" /\ hand = <<>> /\ good = TRUE
  /\ flush = FALSE /\ shutdown = FALSE /\ stopper = "up" /\ out = <<>>
  /\ added = 0 /\ looked = 0 /\ flushes = 0

WriterStep == Look \/ WakeUp \/ TimeOut \/ WriteEvent \/ TestFlags \/ ClearFlush \/ TestShutdown

Next == Push \/ Flush \/ Shutdown \/ Joined \/ WriterStep \/ WriteFails

Spec == Init /\ [][Next]_vars

\* The writer runs while it can, and so does the thread that joins it.
FairSpec == Spec /\ WF_vars(WriterStep) /\ WF_vars(Joined)

-----------------------------------------------------------------------------
(* Properties                                                              *)

\* Types: the writer holds an event exactly while it writes one, and the flag is
\* up as soon as a thread waits for the writer to end.
LoggerTypeOK ==
  /\ queue \in Seq(Nat) /\ hand \in Seq(Nat) /\ out \in Seq(Nat)
  /\ pc \in {"get", "waiting", "write", "flags", "flushed", "test", "exited"}
  /\ Len(hand) = IF pc = "write" THEN 1 ELSE 0
  /\ good \in BOOLEAN /\ flush \in BOOLEAN /\ shutdown \in BOOLEAN
  /\ stopper \in {"up", "joining", "done"} /\ (shutdown <=> stopper # "up")
  /\ added \in Nat /\ looked \in 0..added /\ flushes \in Nat

UpTo(n) == [i \in 1..n |-> i]

\* While the stream is good no event is lost, doubled or out of order between
\* add() and the stream, and none that was in the queue by the writer's last
\* look at an empty one is left behind when it exits.  "Flush pending messages"
\* (main.cpp 228) goes no further: an event added behind that look, by any thread
\* and even ahead of shutdown(), may stay in the queue (Logger.cpp 146-165).
PendingAreWritten ==
  good => /\ out \o hand \o queue = UpTo(added)
          /\ pc = "exited" => Len(out) = looked

\* shutdown() returns, once the other threads have stopped logging
\* (Logger.cpp 193-204; the bound on events stops them here).
StopReturns == (stopper = "joining") ~> (stopper = "done")
=============================================================================
