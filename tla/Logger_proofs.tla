--------------------------- MODULE Logger_proofs ---------------------------
(***************************************************************************)
(* Proofs about Logger, for any number of events and flush requests.       *)
(***************************************************************************)
EXTENDS Logger, SequenceTheorems, TLAPS

\* The type invariant in two parts: the provers take them separately.
Flags ==
  /\ good \in BOOLEAN /\ flush \in BOOLEAN /\ shutdown \in BOOLEAN
  /\ stopper \in {"up", "joining", "done"} /\ (shutdown <=> stopper # "up")

Buffers ==
  /\ queue \in Seq(Nat) /\ hand \in Seq(Nat) /\ out \in Seq(Nat)
  /\ pc \in {"get", "waiting", "write", "flags", "flushed", "test", "exited"}
  /\ Len(hand) = IF pc = "write" THEN 1 ELSE 0
  /\ added \in Nat /\ looked \in 0..added /\ flushes \in Nat

LEMMA TypeParts == (LoggerTypeOK <=> Flags /\ Buffers) /\ (LoggerTypeOK' <=> Flags' /\ Buffers')
BY DEF LoggerTypeOK, Flags, Buffers

LEMMA TypeInit == Init => LoggerTypeOK
<1>1. Init => Flags
  BY Zenon DEF Init, Flags
<1>2. Init => Buffers
  BY SMT DEF Init, Buffers
<1> QED BY <1>1, <1>2, TypeParts

LEMMA FlagsNext == Flags /\ [Next]_vars => Flags'
<1> SUFFICES ASSUME Flags, [Next]_vars PROVE Flags'
  OBVIOUS
<1>1. CASE Push
  BY <1>1, Zenon DEF Push, Flags
<1>2. CASE Flush
  BY <1>2, Zenon DEF Flush, Flags
<1>3. CASE Shutdown
  <2>1. shutdown' = TRUE /\ stopper' = "joining" /\ good' = good /\ flush' = flush
    BY <1>3 DEF Shutdown
  <2> QED BY <2>1 DEF Flags
<1>4. CASE Joined
  <2>1. stopper = "joining" /\ stopper' = "done" /\ good' = good /\ flush' = flush /\ shutdown' = shutdown
    BY <1>4 DEF Joined
  <2> QED BY <2>1 DEF Flags
<1>5. CASE Look
  BY <1>5, Zenon DEF Look, Flags
<1>6. CASE WakeUp
  BY <1>6, Zenon DEF WakeUp, Flags
<1>7. CASE TimeOut
  BY <1>7, Zenon DEF TimeOut, Flags
<1>8. CASE WriteEvent
  BY <1>8, Zenon DEF WriteEvent, Flags
<1>9. CASE WriteFails
  BY <1>9, Zenon DEF WriteFails, Flags
<1>10. CASE TestFlags
  BY <1>10, Zenon DEF TestFlags, Flags
<1>11. CASE ClearFlush
  BY <1>11, Zenon DEF ClearFlush, Flags
<1>12. CASE TestShutdown
  BY <1>12, Zenon DEF TestShutdown, Flags
<1>13. CASE UNCHANGED vars
  BY <1>13 DEF vars, Flags
<1> QED BY <1>1, <1>2, <1>3, <1>4, <1>5, <1>6, <1>7, <1>8, <1>9, <1>10, <1>11, <1>12, <1>13
        DEF Next, WriterStep

LEMMA TakeFrontType ==
  ASSUME Buffers, queue # <<>>, TakeFront
  PROVE  /\ queue' \in Seq(Nat) /\ hand' \in Seq(Nat) /\ Len(hand') = 1 /\ pc' = "write"
         /\ hand' \o queue' = queue
BY DEF TakeFront, Buffers

LEMMA BuffersNext == Buffers /\ [Next]_vars => Buffers'
<1> SUFFICES ASSUME Buffers, [Next]_vars PROVE Buffers'
  OBVIOUS
<1>1. CASE Push
  BY <1>1 DEF Push, Buffers
<1>2. CASE Flush
  BY <1>2 DEF Flush, Buffers
<1>3. CASE Shutdown \/ Joined
  BY <1>3 DEF Shutdown, Joined, Buffers
<1>5. CASE Look
  <2>1. CASE queue # <<>> /\ TakeFront /\ UNCHANGED <<looked, out, added, flushes>>
    BY <2>1, TakeFrontType DEF Buffers
  <2>2. CASE pc' = "waiting" /\ looked' = added /\ UNCHANGED <<hand, queue, out, added, flushes>>
    <3>1. pc = "get" BY <1>5 DEF Look
    <3> QED BY <2>2, <3>1 DEF Buffers
  <2> QED BY <1>5, <2>1, <2>2 DEF Look
<1>6. CASE WakeUp
  <2>1. queue # <<>> /\ TakeFront /\ UNCHANGED <<looked, out, added, flushes>>
    BY <1>6 DEF WakeUp
  <2> QED BY <2>1, TakeFrontType DEF Buffers
<1>7. CASE TimeOut
  BY <1>7 DEF TimeOut, Buffers
<1>8. CASE WriteEvent
  BY <1>8 DEF WriteEvent, Buffers
<1>9. CASE WriteFails
  BY <1>9 DEF WriteFails, Buffers
<1>10. CASE TestFlags
  BY <1>10 DEF TestFlags, Buffers
<1>11. CASE ClearFlush
  BY <1>11 DEF ClearFlush, Buffers
<1>12. CASE TestShutdown
  BY <1>12 DEF TestShutdown, Buffers
<1>13. CASE UNCHANGED vars
  BY <1>13 DEF vars, Buffers
<1> QED BY <1>1, <1>2, <1>3, <1>5, <1>6, <1>7, <1>8, <1>9, <1>10, <1>11, <1>12, <1>13
        DEF Next, WriterStep

\* Queue, writer and stopping thread are well typed, whatever interleaves.
THEOREM LoggerTyped == Spec => []LoggerTypeOK
<1>1. LoggerTypeOK /\ [Next]_vars => LoggerTypeOK'
  BY TypeParts, FlagsNext, BuffersNext
<1> QED BY <1>1, TypeInit, PTL DEF Spec

-----------------------------------------------------------------------------
(* What was written is what was added.  Behind a look at an empty queue    *)
(* the writer has nothing in hand until it takes an event again, so what   *)
(* it wrote is what had been added by then.                                *)

Line == (out \o hand) \o queue

LogInv ==
  good => /\ Line = UpTo(added)
          /\ pc \in {"waiting", "flags", "flushed", "test", "exited"} => Len(out) = looked

LEMMA LogImplies == LogInv => PendingAreWritten
BY DEF LogInv, PendingAreWritten, Line

LEMMA LogInit == Init => LogInv
<1>1. UpTo(0) = <<>>
  BY DEF UpTo
<1> QED BY <1>1 DEF Init, LogInv, Line

LEMMA Assoc ==
  \A a, b, c \in Seq(Nat) : (a \o b) \o c = a \o (b \o c)
BY ConcatAssociative

\* Taking the front of the queue keeps the line.
LEMMA TakeKeepsLine ==
  ASSUME Buffers, queue # <<>>, TakeFront, out' = out, hand = <<>>
  PROVE  Line' = Line
<1>1. /\ queue' \in Seq(Nat) /\ hand' \in Seq(Nat) /\ hand' \o queue' = queue
      /\ out \in Seq(Nat) /\ queue \in Seq(Nat)
  BY TakeFrontType DEF Buffers
<1>2. (out \o hand') \o queue' = out \o (hand' \o queue')
  BY <1>1, Assoc, Zenon
<1>3. out \o hand = out
  BY <1>1
<1> QED BY <1>1, <1>2, <1>3 DEF Line

LEMMA LogNext == Buffers /\ LogInv /\ [Next]_vars => LogInv'
<1> SUFFICES ASSUME Buffers, LogInv, [Next]_vars PROVE LogInv'
  OBVIOUS
<1>0. /\ queue \in Seq(Nat) /\ hand \in Seq(Nat) /\ out \in Seq(Nat) /\ added \in Nat
      /\ out \o hand \in Seq(Nat)
      /\ pc # "write" => hand = <<>>
  <2>1. hand \in Seq(Nat) /\ (pc # "write" => Len(hand) = 0) /\ out \in Seq(Nat)
    BY DEF Buffers
  <2> QED BY <2>1, EmptySeq DEF Buffers
<1>1. CASE Push
  <2>1. /\ queue' = Append(queue, added + 1) /\ added' = added + 1
        /\ UNCHANGED <<good, pc, hand, out, looked>>
    BY <1>1 DEF Push
  <2>2. Line' = Append(Line, added + 1)
    BY <1>0, <2>1 DEF Line
  <2>3. Append(UpTo(added), added + 1) = UpTo(added + 1)
    BY <1>0 DEF UpTo
  <2> QED BY <2>1, <2>2, <2>3 DEF LogInv
<1>2. CASE Flush \/ Shutdown \/ Joined \/ TimeOut \/ TestFlags \/ ClearFlush \/ UNCHANGED vars
  <2>1. UNCHANGED <<good, queue, hand, out, added, looked>>
    BY <1>2 DEF Flush, Shutdown, Joined, TimeOut, TestFlags, ClearFlush, vars
  <2>2. pc' \in {"waiting", "flags", "flushed", "test", "exited"}
          => pc \in {"waiting", "flags", "flushed", "test", "exited"}
    BY <1>2 DEF Flush, Shutdown, Joined, TimeOut, TestFlags, ClearFlush, vars
  <2> QED BY <2>1, <2>2 DEF LogInv, Line
<1>3. CASE TestShutdown
  <2>1. UNCHANGED <<good, queue, hand, out, added, looked>> /\ pc = "test"
    BY <1>3 DEF TestShutdown
  <2> QED BY <2>1 DEF LogInv, Line
<1>4. CASE Look
  <2>1. CASE queue # <<>>
    <3>1. TakeFront /\ pc = "get" /\ UNCHANGED <<good, out, added, looked>>
      BY <1>4, <2>1 DEF Look
    <3>2. Line' = Line /\ pc' = "write"
      BY <1>0, <2>1, <3>1, TakeKeepsLine DEF TakeFront
    <3> QED BY <3>1, <3>2 DEF LogInv
  <2>2. CASE queue = <<>>
    <3>1. /\ looked' = added /\ pc = "get" /\ UNCHANGED <<good, queue, hand, out, added>>
      BY <1>4, <2>2 DEF Look
    <3>2. Line = out
      BY <1>0, <2>2, <3>1 DEF Line
    <3>3. good => Len(out) = added
      BY <1>0, <3>2 DEF LogInv, UpTo
    <3>4. Line' = Line
      BY <3>1 DEF Line
    <3> QED BY <3>1, <3>3, <3>4 DEF LogInv
  <2> QED BY <2>1, <2>2
<1>5. CASE WakeUp
  <2>1. queue # <<>> /\ TakeFront /\ pc = "waiting" /\ UNCHANGED <<good, out, added, looked>>
    BY <1>5 DEF WakeUp
  <2>2. Line' = Line /\ pc' = "write"
    BY <1>0, <2>1, TakeKeepsLine DEF TakeFront
  <2> QED BY <2>1, <2>2 DEF LogInv
<1>6. CASE WriteEvent
  <2> SUFFICES ASSUME good' PROVE LogInv'
    BY DEF LogInv
  <2>1. good /\ out' = out \o hand /\ hand' = <<>> /\ pc' = "get" /\ UNCHANGED <<queue, added>>
    BY <1>6 DEF WriteEvent
  <2>2. (out \o hand) \o <<>> = out \o hand
    BY <1>0
  <2>3. Line' = Line
    BY <2>1, <2>2 DEF Line
  <2> QED BY <2>1, <2>3 DEF LogInv
<1>7. CASE WriteFails
  BY <1>7, Zenon DEF WriteFails, LogInv
<1> QED BY <1>1, <1>2, <1>3, <1>4, <1>5, <1>6, <1>7 DEF Next, WriterStep

\* With a good stream the log is what was added, in order and once, and an exiting
\* writer leaves behind only what came after its last look at an empty queue.
THEOREM PendingAreWrittenHolds == Spec => []PendingAreWritten
<1>1. LoggerTypeOK /\ LogInv /\ [Next]_vars => LogInv'
  BY TypeParts, LogNext
<1> QED BY <1>1, LogInit, LogImplies, LoggerTyped, PTL DEF Spec
=============================================================================
