-------------------------- MODULE Executor_proofs --------------------------
(***************************************************************************)
(* Proofs about Executor for any number of threads and jobs: its inductive *)
(* invariant, the safety properties that follow from it, and the step      *)
(* simulation of the abstract TaskPool.                                    *)
(***************************************************************************)
EXTENDS Executor, TLAPS

\* Taking the head off waitingJobs moves one job from the queue to one thread.
LEMMA PollHitOwner ==
  ASSUME ExecutorInv, NEW t \in Threads, PollHit(t) PROVE SingleOwner' /\ NoneLost'
<1> USE DEF ExecutorInv, TypeOK, SingleOwner, HeldAsExpected, Waiting, Held, Holding,
        PollHit, Goto, workerVars, callVars
<1> DEFINE h == Head(waitingJobs)
<1>1. /\ h = waitingJobs[1] /\ h \in Jobs /\ Len(waitingJobs) \in Nat \ {0}
      /\ Len(Tail(waitingJobs)) = Len(waitingJobs) - 1
      /\ \A i \in 1..Len(Tail(waitingJobs)) : Tail(waitingJobs)[i] = waitingJobs[i + 1]
  OBVIOUS
<1>2. Waiting(h) /\ work[h] = "new" /\ ~Held(h) /\ sub[h] \in {"added", "done"}
  BY <1>1
<1>3. \A j \in Jobs : Waiting(j)' => Waiting(j) /\ j # h
  BY <1>1
<1>4. \A j \in Jobs : Held(j)' => Held(j) \/ j = h
  BY <1>1
<1> HIDE DEF h
<1>5. \A i, k \in 1..Len(waitingJobs') : waitingJobs'[i] = waitingJobs'[k] => i = k
  BY <1>1
<1>6. \A u, v \in Threads : job'[u] = job'[v] /\ job'[u] # NoJob => u = v
  BY <1>2 DEF h
<1>7. \A j \in Jobs : Waiting(j)' => work'[j] = "new" /\ ~Held(j)'
  BY <1>3, <1>4
<1>8. \A j \in Jobs : work'[j] = "running" => Held(j)'
  <2>1. job[t] = NoJob /\ \A u \in Threads \ {t} : job'[u] = job[u]
    OBVIOUS
  <2>2. QED BY <2>1, NoJobAssumption
<1>9. \A j \in Jobs : sub'[j] \notin {"added", "done"} =>
        work'[j] = "new" /\ ~Held(j)' /\ ~Waiting(j)'
  BY <1>2, <1>3, <1>4
<1>10. \A u \in Threads : HeldAsExpected(u)'
  BY <1>1, <1>2, NoJobAssumption DEF h
<1>11. ASSUME NEW j \in Jobs, sub'[j] \in {"added", "done"}, work'[j] = "new"
       PROVE  Waiting(j)' \/ Held(j)'
  <2>1. Waiting(j) \/ Held(j)
    BY <1>11 DEF NoneLost, AllExited
  <2>2. CASE j = h
    BY <2>2 DEF h
  <2>3. CASE Waiting(j) /\ j # h
    <3>1. PICK i \in 1..Len(waitingJobs) : waitingJobs[i] = j
      BY <2>3
    <3>2. i - 1 \in 1..Len(Tail(waitingJobs)) /\ Tail(waitingJobs)[i - 1] = j
      BY <1>1, <2>3, <3>1
    <3>3. QED BY <3>2
  <2>4. CASE Held(j)
    BY <2>4, NoJobAssumption
  <2>5. QED BY <2>1, <2>2, <2>3, <2>4
<1>12. QED BY <1>5, <1>6, <1>7, <1>8, <1>9, <1>10, <1>11 DEF NoneLost

\* A thread lets go of a job that has finished.
LEMMA ReleaseOwner ==
  ASSUME ExecutorInv, NEW t \in Threads, AfterRun(t) \/ RemoveRunning(t)
  PROVE SingleOwner' /\ NoneLost'
<1> USE DEF ExecutorInv, TypeOK, SingleOwner, HeldAsExpected, Waiting, Held, Holding,
        AfterRun, RemoveRunning, Goto, queueVars, workerVars, callVars
<1>1. /\ work' = work /\ waitingJobs' = waitingJobs /\ sub' = sub
      /\ \A u \in Threads : job'[u] = job[u] \/ job'[u] = NoJob
      /\ \A u \in Threads : u # t => job'[u] = job[u] /\ pc'[u] = pc[u]
  OBVIOUS
<1>2. \A j \in Jobs : Held(j)' => Held(j)
  BY <1>1, NoJobAssumption
<1>3. \A j \in Jobs : work[j] = "running" => Held(j)'
  BY <1>1
<1>4. \A u \in Threads : HeldAsExpected(u)'
  OBVIOUS
<1>5. NoneLost'
  <2>1. \A j \in Jobs : work[j] = "new" /\ Held(j) => Held(j)'
    BY <1>1
  <2>2. QED BY <1>1, <2>1 DEF NoneLost, AllExited
<1>6. QED BY <1>1, <1>2, <1>3, <1>4, <1>5

\* What a submit() call does keeps the invariant.
LEMMA SubmitStepInv ==
  ASSUME ExecutorInv, NEW j \in Jobs, SubmitStep(j)
  PROVE ExecutorInv'
<1> USE DEF ExecutorInv, Goto, WakeAll, Holding, queueVars, threadVars, workerVars, callVars
<1>1. CASE Submit(j)
  <2> USE <1>1 DEF Submit
  <2>1. TypeOK'
    BY DEF TypeOK, ThreadPcs, SubPcs, TermPcs, SingleOwner, HeldAsExpected
  <2>2. SingleOwner' /\ NoneLost'
    BY DEF TypeOK, SingleOwner, HeldAsExpected, NoneLost, AllExited, Waiting, Held
  <2>3. ListedWhileRun' /\ JoinedIsQuiet'
    BY DEF TypeOK, SingleOwner, HeldAsExpected, ListedWhileRun, JoinedIsQuiet, AllExited
  <2>4. QED BY <2>1, <2>2, <2>3
<1>2. CASE SubmitAdd(j)
  <2> USE <1>2 DEF SubmitAdd
  <2>1. TypeOK'
    BY DEF TypeOK, ThreadPcs, SubPcs, TermPcs, SingleOwner, HeldAsExpected
  <2>2. SingleOwner' /\ NoneLost'
    BY DEF TypeOK, SingleOwner, HeldAsExpected, NoneLost, AllExited, Waiting, Held
  <2>3. ListedWhileRun' /\ JoinedIsQuiet'
    BY DEF TypeOK, SingleOwner, HeldAsExpected, ListedWhileRun, JoinedIsQuiet, AllExited
  <2>4. QED BY <2>1, <2>2, <2>3
<1>3. CASE SubmitNotify(j)
  <2> USE <1>3 DEF SubmitNotify
  <2>1. TypeOK'
    BY DEF TypeOK, ThreadPcs, SubPcs, TermPcs, SingleOwner, HeldAsExpected
  <2>2. SingleOwner' /\ NoneLost'
    BY DEF TypeOK, SingleOwner, HeldAsExpected, NoneLost, AllExited, Waiting, Held
  <2>3. ListedWhileRun' /\ JoinedIsQuiet'
    BY DEF TypeOK, SingleOwner, HeldAsExpected, ListedWhileRun, JoinedIsQuiet, AllExited
  <2>4. QED BY <2>1, <2>2, <2>3
<1>4. QED BY <1>1, <1>2, <1>3 DEF SubmitStep

\* What a thread of the pool does keeps the invariant.
LEMMA ThreadStepInv ==
  ASSUME ExecutorInv, NEW t \in Threads, ThreadStep(t) \/ LoopBreaks(t) \/ LoopThrows(t) \/ SpuriousWake(t)
  PROVE ExecutorInv'
<1> USE DEF ExecutorInv, Goto, WakeAll, Holding, queueVars, threadVars, workerVars, callVars
<1>1. CASE CheckShutdown(t)
  <2> USE <1>1 DEF CheckShutdown
  <2>1. TypeOK'
    BY DEF TypeOK, ThreadPcs, SubPcs, TermPcs, SingleOwner, HeldAsExpected
  <2>2. SingleOwner' /\ NoneLost'
    BY DEF TypeOK, SingleOwner, HeldAsExpected, NoneLost, AllExited, Waiting, Held
  <2>3. ListedWhileRun' /\ JoinedIsQuiet'
    BY DEF TypeOK, SingleOwner, HeldAsExpected, ListedWhileRun, JoinedIsQuiet, AllExited
  <2>4. QED BY <2>1, <2>2, <2>3
<1>2. CASE PollHit(t)
  <2> USE <1>2 DEF PollHit
  <2>1. TypeOK'
    BY DEF TypeOK, ThreadPcs, SubPcs, TermPcs, SingleOwner, HeldAsExpected
  <2>2. SingleOwner' /\ NoneLost'
    BY PollHitOwner
  <2>3. ListedWhileRun' /\ JoinedIsQuiet'
    BY DEF TypeOK, SingleOwner, HeldAsExpected, ListedWhileRun, JoinedIsQuiet, AllExited
  <2>4. QED BY <2>1, <2>2, <2>3
<1>3. CASE PollMiss(t)
  <2> USE <1>3 DEF PollMiss
  <2>1. TypeOK'
    BY DEF TypeOK, ThreadPcs, SubPcs, TermPcs, SingleOwner, HeldAsExpected
  <2>2. SingleOwner' /\ NoneLost'
    BY DEF TypeOK, SingleOwner, HeldAsExpected, NoneLost, AllExited, Waiting, Held
  <2>3. ListedWhileRun' /\ JoinedIsQuiet'
    BY DEF TypeOK, SingleOwner, HeldAsExpected, ListedWhileRun, JoinedIsQuiet, AllExited
  <2>4. QED BY <2>1, <2>2, <2>3
<1>4. CASE AddRunning(t)
  <2> USE <1>4 DEF AddRunning
  <2>1. TypeOK'
    BY DEF TypeOK, ThreadPcs, SubPcs, TermPcs, SingleOwner, HeldAsExpected
  <2>2. SingleOwner' /\ NoneLost'
    BY DEF TypeOK, SingleOwner, HeldAsExpected, NoneLost, AllExited, Waiting, Held
  <2>3. ListedWhileRun' /\ JoinedIsQuiet'
    BY DEF TypeOK, SingleOwner, HeldAsExpected, ListedWhileRun, JoinedIsQuiet, AllExited
  <2>4. QED BY <2>1, <2>2, <2>3
<1>5. CASE RunTask(t)
  <2> USE <1>5 DEF RunTask
  <2>1. TypeOK'
    BY DEF TypeOK, ThreadPcs, SubPcs, TermPcs, SingleOwner, HeldAsExpected
  <2>2. SingleOwner' /\ NoneLost'
    BY DEF TypeOK, SingleOwner, HeldAsExpected, NoneLost, AllExited, Waiting, Held
  <2>3. ListedWhileRun' /\ JoinedIsQuiet'
    BY DEF TypeOK, SingleOwner, HeldAsExpected, ListedWhileRun, JoinedIsQuiet, AllExited
  <2>4. QED BY <2>1, <2>2, <2>3
<1>6. CASE LoopTerminated(t)
  <2> USE <1>6 DEF LoopTerminated, RunReturns
  <2>1. TypeOK'
    BY DEF TypeOK, ThreadPcs, SubPcs, TermPcs, SingleOwner, HeldAsExpected
  <2>2. SingleOwner' /\ NoneLost'
    BY DEF TypeOK, SingleOwner, HeldAsExpected, NoneLost, AllExited, Waiting, Held
  <2>3. ListedWhileRun' /\ JoinedIsQuiet'
    BY DEF TypeOK, SingleOwner, HeldAsExpected, ListedWhileRun, JoinedIsQuiet, AllExited
  <2>4. QED BY <2>1, <2>2, <2>3
<1>7. CASE LoopBreaks(t)
  <2> USE <1>7 DEF LoopBreaks, RunReturns
  <2>1. TypeOK'
    BY DEF TypeOK, ThreadPcs, SubPcs, TermPcs, SingleOwner, HeldAsExpected
  <2>2. SingleOwner' /\ NoneLost'
    BY DEF TypeOK, SingleOwner, HeldAsExpected, NoneLost, AllExited, Waiting, Held
  <2>3. ListedWhileRun' /\ JoinedIsQuiet'
    BY DEF TypeOK, SingleOwner, HeldAsExpected, ListedWhileRun, JoinedIsQuiet, AllExited
  <2>4. QED BY <2>1, <2>2, <2>3
<1>8. CASE LoopThrows(t)
  <2> USE <1>8 DEF LoopThrows
  <2>1. TypeOK'
    BY DEF TypeOK, ThreadPcs, SubPcs, TermPcs, SingleOwner, HeldAsExpected
  <2>2. SingleOwner' /\ NoneLost'
    BY DEF TypeOK, SingleOwner, HeldAsExpected, NoneLost, AllExited, Waiting, Held
  <2>3. ListedWhileRun' /\ JoinedIsQuiet'
    BY DEF TypeOK, SingleOwner, HeldAsExpected, ListedWhileRun, JoinedIsQuiet, AllExited
  <2>4. QED BY <2>1, <2>2, <2>3
<1>9. CASE AfterRun(t)
  <2> USE <1>9 DEF AfterRun
  <2>1. TypeOK'
    BY DEF TypeOK, ThreadPcs, SubPcs, TermPcs, SingleOwner, HeldAsExpected
  <2>2. SingleOwner' /\ NoneLost'
    BY ReleaseOwner
  <2>3. ListedWhileRun' /\ JoinedIsQuiet'
    BY DEF TypeOK, SingleOwner, HeldAsExpected, ListedWhileRun, JoinedIsQuiet, AllExited
  <2>4. QED BY <2>1, <2>2, <2>3
<1>10. CASE RemoveRunning(t)
  <2> USE <1>10 DEF RemoveRunning
  <2>1. TypeOK'
    BY DEF TypeOK, ThreadPcs, SubPcs, TermPcs, SingleOwner, HeldAsExpected
  <2>2. SingleOwner' /\ NoneLost'
    BY ReleaseOwner
  <2>3. ListedWhileRun' /\ JoinedIsQuiet'
    BY DEF TypeOK, SingleOwner, HeldAsExpected, ListedWhileRun, JoinedIsQuiet, AllExited
  <2>4. QED BY <2>1, <2>2, <2>3
<1>11. CASE IdleCheck(t)
  <2> USE <1>11 DEF IdleCheck
  <2>1. TypeOK'
    BY DEF TypeOK, ThreadPcs, SubPcs, TermPcs, SingleOwner, HeldAsExpected
  <2>2. SingleOwner' /\ NoneLost'
    BY DEF TypeOK, SingleOwner, HeldAsExpected, NoneLost, AllExited, Waiting, Held
  <2>3. ListedWhileRun' /\ JoinedIsQuiet'
    BY DEF TypeOK, SingleOwner, HeldAsExpected, ListedWhileRun, JoinedIsQuiet, AllExited
  <2>4. QED BY <2>1, <2>2, <2>3
<1>12. CASE Sleep(t)
  <2> USE <1>12 DEF Sleep
  <2>1. TypeOK'
    BY DEF TypeOK, ThreadPcs, SubPcs, TermPcs, SingleOwner, HeldAsExpected
  <2>2. SingleOwner' /\ NoneLost'
    BY DEF TypeOK, SingleOwner, HeldAsExpected, NoneLost, AllExited, Waiting, Held
  <2>3. ListedWhileRun' /\ JoinedIsQuiet'
    BY DEF TypeOK, SingleOwner, HeldAsExpected, ListedWhileRun, JoinedIsQuiet, AllExited
  <2>4. QED BY <2>1, <2>2, <2>3
<1>13. CASE SpuriousWake(t)
  <2> USE <1>13 DEF SpuriousWake
  <2>1. TypeOK'
    BY DEF TypeOK, ThreadPcs, SubPcs, TermPcs, SingleOwner, HeldAsExpected
  <2>2. SingleOwner' /\ NoneLost'
    BY DEF TypeOK, SingleOwner, HeldAsExpected, NoneLost, AllExited, Waiting, Held
  <2>3. ListedWhileRun' /\ JoinedIsQuiet'
    BY DEF TypeOK, SingleOwner, HeldAsExpected, ListedWhileRun, JoinedIsQuiet, AllExited
  <2>4. QED BY <2>1, <2>2, <2>3
<1>14. QED BY <1>1, <1>2, <1>3, <1>4, <1>5, <1>6, <1>7, <1>8, <1>9, <1>10, <1>11, <1>12, <1>13 DEF ThreadStep

\* What terminate() does keeps the invariant.
LEMMA TerminateStepInv ==
  ASSUME ExecutorInv, TerminateBegin \/ TerminateStep
  PROVE ExecutorInv'
<1> USE DEF ExecutorInv, Goto, WakeAll, Holding, queueVars, threadVars, workerVars, callVars
<1>1. CASE \E j \in Jobs : DrainJob(j)
  <2> USE <1>1 DEF DrainJob
  <2>1. TypeOK'
    BY DEF TypeOK, ThreadPcs, SubPcs, TermPcs, SingleOwner, HeldAsExpected
  <2>2. SingleOwner' /\ NoneLost'
    BY DEF TypeOK, SingleOwner, HeldAsExpected, NoneLost, AllExited, Waiting, Held
  <2>3. ListedWhileRun' /\ JoinedIsQuiet'
    BY DEF TypeOK, SingleOwner, HeldAsExpected, ListedWhileRun, JoinedIsQuiet, AllExited
  <2>4. QED BY <2>1, <2>2, <2>3
<1>2. CASE TerminateBegin
  <2> USE <1>2 DEF TerminateBegin
  <2>1. TypeOK'
    BY DEF TypeOK, ThreadPcs, SubPcs, TermPcs, SingleOwner, HeldAsExpected
  <2>2. SingleOwner' /\ NoneLost'
    BY DEF TypeOK, SingleOwner, HeldAsExpected, NoneLost, AllExited, Waiting, Held
  <2>3. ListedWhileRun' /\ JoinedIsQuiet'
    BY DEF TypeOK, SingleOwner, HeldAsExpected, ListedWhileRun, JoinedIsQuiet, AllExited
  <2>4. QED BY <2>1, <2>2, <2>3
<1>3. CASE AwaitWorker
  <2> USE <1>3 DEF AwaitWorker
  <2>1. TypeOK'
    BY DEF TypeOK, ThreadPcs, SubPcs, TermPcs, SingleOwner, HeldAsExpected
  <2>2. SingleOwner' /\ NoneLost'
    BY DEF TypeOK, SingleOwner, HeldAsExpected, NoneLost, AllExited, Waiting, Held
  <2>3. ListedWhileRun' /\ JoinedIsQuiet'
    BY DEF TypeOK, SingleOwner, HeldAsExpected, ListedWhileRun, JoinedIsQuiet, AllExited
  <2>4. QED BY <2>1, <2>2, <2>3
<1>4. CASE DrainEnd
  <2> USE <1>4 DEF DrainEnd
  <2>1. TypeOK'
    BY DEF TypeOK, ThreadPcs, SubPcs, TermPcs, SingleOwner, HeldAsExpected
  <2>2. SingleOwner' /\ NoneLost'
    BY DEF TypeOK, SingleOwner, HeldAsExpected, NoneLost, AllExited, Waiting, Held
  <2>3. ListedWhileRun' /\ JoinedIsQuiet'
    BY DEF TypeOK, SingleOwner, HeldAsExpected, ListedWhileRun, JoinedIsQuiet, AllExited
  <2>4. QED BY <2>1, <2>2, <2>3
<1>5. CASE TerminateNotify
  <2> USE <1>5 DEF TerminateNotify
  <2>1. TypeOK'
    BY DEF TypeOK, ThreadPcs, SubPcs, TermPcs, SingleOwner, HeldAsExpected
  <2>2. SingleOwner' /\ NoneLost'
    BY DEF TypeOK, SingleOwner, HeldAsExpected, NoneLost, AllExited, Waiting, Held
  <2>3. ListedWhileRun' /\ JoinedIsQuiet'
    BY DEF TypeOK, SingleOwner, HeldAsExpected, ListedWhileRun, JoinedIsQuiet, AllExited
  <2>4. QED BY <2>1, <2>2, <2>3
<1>6. CASE JoinAll
  <2> USE <1>6 DEF JoinAll
  <2>1. TypeOK'
    BY DEF TypeOK, ThreadPcs, SubPcs, TermPcs, SingleOwner, HeldAsExpected
  <2>2. SingleOwner' /\ NoneLost'
    BY DEF TypeOK, SingleOwner, HeldAsExpected, NoneLost, AllExited, Waiting, Held
  <2>3. ListedWhileRun' /\ JoinedIsQuiet'
    BY DEF TypeOK, SingleOwner, HeldAsExpected, ListedWhileRun, JoinedIsQuiet, AllExited
  <2>4. QED BY <2>1, <2>2, <2>3
<1>7. CASE ClearWaiting
  <2> USE <1>7 DEF ClearWaiting
  <2>1. TypeOK'
    BY DEF TypeOK, ThreadPcs, SubPcs, TermPcs, SingleOwner, HeldAsExpected
  <2>2. SingleOwner'
    BY DEF TypeOK, SingleOwner, HeldAsExpected, Waiting, Held
  <2>3. ListedWhileRun' /\ JoinedIsQuiet'
    BY DEF TypeOK, SingleOwner, HeldAsExpected, ListedWhileRun, JoinedIsQuiet, AllExited
  <2>4. NoneLost'
    <3>1. AllExited'
      BY DEF JoinedIsQuiet, AllExited
    <3>2. QED BY <3>1 DEF NoneLost
  <2>5. QED BY <2>1, <2>2, <2>3, <2>4
<1>8. QED BY <1>1, <1>2, <1>3, <1>4, <1>5, <1>6, <1>7 DEF TerminateStep

\* The initial state satisfies the invariant.
LEMMA InitInv == Init => ExecutorInv
<1> SUFFICES ASSUME Init PROVE ExecutorInv
  OBVIOUS
<1> USE DEF Init
<1>1. waitingJobs \in Seq(Jobs) /\ work \in [Jobs -> {"new", "running", "done"}]
  OBVIOUS
<1>2. pc \in [Threads -> ThreadPcs] /\ job \in [Threads -> Jobs \cup {NoJob}]
  BY DEF ThreadPcs
<1>3. sub \in [Jobs -> SubPcs] /\ term \in TermPcs
  BY DEF SubPcs, TermPcs
<1>4. TypeOK
  BY <1>1, <1>2, <1>3 DEF TypeOK
<1>5. SingleOwner /\ NoneLost
  BY NoJobAssumption DEF SingleOwner, HeldAsExpected, NoneLost, Waiting, Held, Holding
<1>6. QED
  BY <1>4, <1>5 DEF ExecutorInv, ListedWhileRun, JoinedIsQuiet

\* The inductive invariant: types, single ownership of every job, none lost, the
\* listing of running jobs and the quiet after the join.
THEOREM ExecutorInvariant == Spec => []ExecutorInv
<1>1. ExecutorInv /\ [Next]_vars => ExecutorInv'
  <2> SUFFICES ASSUME ExecutorInv, [Next]_vars PROVE ExecutorInv'
    OBVIOUS
  <2>1. CASE Next
    BY <2>1, SubmitStepInv, ThreadStepInv, TerminateStepInv DEF Next
  <2>2. CASE UNCHANGED vars
    BY <2>2 DEF vars, queueVars, threadVars, workerVars, callVars, ExecutorInv, TypeOK,
       SingleOwner, HeldAsExpected, NoneLost, AllExited, Waiting, Held, ListedWhileRun, JoinedIsQuiet
  <2>3. QED BY <2>1, <2>2
<1>2. QED BY InitInv, <1>1, PTL DEF Spec

\* Every state of the executor is well typed.
THEOREM ExecutorTyped == Spec => []TypeOK
<1>1. ExecutorInv => TypeOK
  BY DEF ExecutorInv
<1>2. QED BY <1>1, ExecutorInvariant, PTL

\* No interleaving of submit(), exec() and terminate() gives a job two owners: it
\* waits in one place or is in one thread's hands, and runs at most once; nor does
\* any lose a queued job before run() while a thread is left in exec().
THEOREM OneOwnerHolds == Spec => []OneOwner
<1>1. ExecutorInv => OneOwner
  BY DEF ExecutorInv, OneOwner
<1>2. QED BY <1>1, ExecutorInvariant, PTL

\* The drain of terminate() tells every task that a thread has listed to stop.
THEOREM DrainReachesListedHolds == Spec => DrainReachesListed
<1> DEFINE Told == term = "drain" /\ term' = "notify" =>
                     \A t \in Threads : pc[t] \in {"run", "loop"} => job[t] \in terminated
<1>1. ExecutorInv /\ [Next]_vars => [Told]_vars
  <2> SUFFICES ASSUME ExecutorInv, [Next]_vars, term = "drain", term' = "notify",
                      NEW t \in Threads, pc[t] \in {"run", "loop"}
               PROVE  job[t] \in terminated
    OBVIOUS
  <2>1. runningJobs = {}
    <3>1. term' # term
      OBVIOUS
    <3>2. Next
      BY <3>1 DEF vars, callVars
    <3>3. TerminateStep
      BY <3>1, <3>2 DEF Next, SubmitStep, Submit, SubmitAdd, SubmitNotify, ThreadStep,
         CheckShutdown, PollHit, PollMiss, AddRunning, RunTask, LoopTerminated, LoopBreaks,
         LoopThrows, RunReturns, AfterRun, RemoveRunning, IdleCheck, Sleep, SpuriousWake,
         TerminateBegin, callVars
    <3>4. DrainEnd
      BY <3>3 DEF TerminateStep, DrainJob, AwaitWorker, TerminateNotify, JoinAll, ClearWaiting
    <3>5. QED BY <3>4 DEF DrainEnd
  <2>2. QED BY <2>1 DEF ExecutorInv, ListedWhileRun
<1>2. QED BY <1>1, ExecutorInvariant, PTL DEF Spec, DrainReachesListed

\* After the join of terminate() no thread is left that could run a task.
THEOREM JoinedIsQuietHolds == Spec => []JoinedIsQuiet
<1>1. ExecutorInv => JoinedIsQuiet
  BY DEF ExecutorInv
<1>2. QED BY <1>1, ExecutorInvariant, PTL

-----------------------------------------------------------------------------
(* The executor implements the task pool                                   *)

\* A step that moves no job between the queue, the threads and run(), and does
\* not let the last thread out, is a stutter of the pool.
LEMMA PoolStutter ==
  ASSUME work' = work, sub' = sub, AllExited' = AllExited,
         \A j \in Jobs : Waiting(j)' = Waiting(j) /\ Held(j)' = Held(j),
         \A t \in Threads : RunnerOf(t)' = RunnerOf(t)
  PROVE  UNCHANGED Pool!vars
BY DEF Pool!vars, PhaseOf

\* submit(): the job joins the pool when it enters waitingJobs.
LEMMA SubmitRefines ==
  ASSUME ExecutorInv, NEW j \in Jobs, SubmitStep(j)
  PROVE  [Pool!Next]_(Pool!vars)
<1> USE DEF ExecutorInv, queueVars, threadVars, workerVars
<1>1. CASE Submit(j)
  <2>1. /\ work' = work /\ AllExited' = AllExited
        /\ \A k \in Jobs : PhaseOf(k)' = PhaseOf(k)
        /\ \A t \in Threads : RunnerOf(t)' = RunnerOf(t)
    BY <1>1 DEF Submit, TypeOK, SubPcs, PhaseOf, Waiting, Held, RunnerOf, AllExited
  <2>2. QED BY <2>1 DEF Pool!vars
<1>2. CASE SubmitAdd(j)
  <2>1. Waiting(j)' /\ \A k \in Jobs \ {j} : Waiting(k)' = Waiting(k)
    <3>1. waitingJobs \in Seq(Jobs) /\ waitingJobs' = Append(waitingJobs, j)
      BY <1>2 DEF SubmitAdd, TypeOK
    <3>2. /\ Len(waitingJobs) \in Nat /\ Len(waitingJobs') = Len(waitingJobs) + 1
          /\ waitingJobs'[Len(waitingJobs) + 1] = j
          /\ \A i \in 1..Len(waitingJobs) : waitingJobs'[i] = waitingJobs[i]
      BY <3>1
    <3>3. QED BY <3>2 DEF Waiting
  <2>2. PhaseOf(j) = "new" /\ PhaseOf(j)' = "queued"
    BY <1>2, <2>1 DEF SubmitAdd, TypeOK, SingleOwner, PhaseOf
  <2>3. \A k \in Jobs \ {j} : PhaseOf(k)' = PhaseOf(k)
    BY <1>2, <2>1 DEF SubmitAdd, TypeOK, PhaseOf, Held
  <2>4. AllExited' = AllExited /\ \A t \in Threads : RunnerOf(t)' = RunnerOf(t)
    BY <1>2 DEF SubmitAdd, RunnerOf, AllExited
  <2>5. Pool!Queue(j)
    BY <2>2, <2>3, <2>4 DEF Pool!Queue
  <2>6. QED BY <2>5 DEF Pool!Next
<1>3. CASE SubmitNotify(j)
  <2>1. /\ work' = work /\ AllExited' = AllExited
        /\ \A k \in Jobs : PhaseOf(k)' = PhaseOf(k)
        /\ \A t \in Threads : RunnerOf(t)' = RunnerOf(t)
    BY <1>3 DEF SubmitNotify, WakeAll, TypeOK, SubPcs, PhaseOf, Waiting, Held, RunnerOf, AllExited
  <2>2. QED BY <2>1 DEF Pool!vars
<1>4. QED BY <1>1, <1>2, <1>3 DEF SubmitStep

\* exec(): run() starts and ends a job of the pool, and the last thread to
\* leave closes it; nothing else a thread does is visible.
LEMMA ThreadRefines ==
  ASSUME ExecutorInv, NEW t \in Threads,
         ThreadStep(t) \/ LoopBreaks(t) \/ LoopThrows(t) \/ SpuriousWake(t)
  PROVE  [Pool!Next]_(Pool!vars)
<1> USE DEF ExecutorInv, Goto, queueVars, workerVars, callVars
<1>1. CASE RunTask(t)
  <2>1. job[t] \in Jobs /\ work[job[t]] = "new" /\ Held(job[t]) /\ job' = job
    BY <1>1, NoJobAssumption DEF RunTask, TypeOK, SingleOwner, HeldAsExpected, Holding, Held
  <2>2. PhaseOf(job[t]) = "queued" /\ PhaseOf(job[t])' = "running"
    BY <1>1, <2>1 DEF RunTask, TypeOK, PhaseOf
  <2>3. \A k \in Jobs \ {job[t]} : PhaseOf(k)' = PhaseOf(k)
    BY <1>1, <2>1 DEF RunTask, TypeOK, PhaseOf, Held, Waiting
  <2>4. /\ ~AllExited /\ AllExited' = AllExited /\ RunnerOf(t) = NoJob /\ RunnerOf(t)' = job[t]
        /\ \A u \in Threads \ {t} : RunnerOf(u)' = RunnerOf(u)
    BY <1>1 DEF RunTask, TypeOK, RunnerOf, AllExited
  <2>5. Pool!Start(t, job[t])
    <3> DEFINE phase == [j \in Jobs |-> PhaseOf(j)]
               runner == [u \in Threads |-> RunnerOf(u)]
    <3>1. phase' = [phase EXCEPT ![job[t]] = "running"] /\ phase[job[t]] = "queued"
      BY <2>1, <2>2, <2>3
    <3>2. runner' = [runner EXCEPT ![t] = job[t]] /\ runner[t] = NoJob
      BY <2>4
    <3>3. QED BY <2>1, <2>4, <3>1, <3>2 DEF Pool!Start
  <2>6. QED BY <2>1, <2>5 DEF Pool!Next
<1>2. CASE LoopTerminated(t) \/ LoopBreaks(t) \/ LoopThrows(t)
  <2> USE <1>2 DEF LoopTerminated, LoopBreaks, RunReturns, LoopThrows
  <2>1. job[t] \in Jobs /\ work[job[t]] = "running" /\ pc[t] = "loop" /\ job' = job
    BY NoJobAssumption DEF TypeOK, SingleOwner, HeldAsExpected, Holding
  <2>2. PhaseOf(job[t])' = "finished"
    BY <2>1 DEF TypeOK, PhaseOf
  <2>3. \A k \in Jobs \ {job[t]} : PhaseOf(k)' = PhaseOf(k)
    BY <2>1 DEF TypeOK, PhaseOf, Held, Waiting
  <2>4. /\ ~AllExited /\ AllExited' = AllExited /\ RunnerOf(t) = job[t] /\ RunnerOf(t)' = NoJob
        /\ \A u \in Threads \ {t} : RunnerOf(u)' = RunnerOf(u)
    BY <2>1 DEF TypeOK, RunnerOf, AllExited
  <2>5. Pool!Finish(t)
    <3> DEFINE phase == [j \in Jobs |-> PhaseOf(j)]
               runner == [u \in Threads |-> RunnerOf(u)]
    <3>1. phase' = [phase EXCEPT ![job[t]] = "finished"]
      BY <2>1, <2>2, <2>3
    <3>2. runner' = [runner EXCEPT ![t] = NoJob] /\ runner[t] = job[t]
      BY <2>4
    <3>3. QED BY <2>1, <2>4, <3>1, <3>2, NoJobAssumption DEF Pool!Finish
  <2>6. QED BY <2>5 DEF Pool!Next
<1>3. CASE CheckShutdown(t)
  <2>1. /\ \A k \in Jobs : PhaseOf(k)' = PhaseOf(k)
        /\ \A u \in Threads : RunnerOf(u)' = RunnerOf(u)
        /\ ~AllExited
    BY <1>3 DEF CheckShutdown, TypeOK, PhaseOf, Held, Waiting, RunnerOf, AllExited
  <2>2. CASE AllExited'
    <3>1. \A u \in Threads : RunnerOf(u) = NoJob
      BY <2>1, <2>2 DEF AllExited, RunnerOf
    <3>2. Pool!Close
      BY <2>1, <2>2, <3>1 DEF Pool!Close
    <3>3. QED BY <3>2 DEF Pool!Next
  <2>3. CASE ~AllExited'
    BY <2>1, <2>3 DEF Pool!vars, AllExited
  <2>4. QED BY <2>2, <2>3
<1>4. CASE PollHit(t)
  <2> USE <1>4 DEF PollHit
  <2>1. /\ Head(waitingJobs) = waitingJobs[1] /\ Head(waitingJobs) \in Jobs
        /\ Len(waitingJobs) \in Nat \ {0} /\ Len(Tail(waitingJobs)) = Len(waitingJobs) - 1
        /\ \A i \in 1..Len(Tail(waitingJobs)) : Tail(waitingJobs)[i] = waitingJobs[i + 1]
    BY DEF TypeOK
  <2>2. job[t] = NoJob /\ job'[t] = Head(waitingJobs)
    BY DEF TypeOK, SingleOwner, HeldAsExpected, Holding
  <2>3. \A k \in Jobs : Waiting(k) \/ Held(k) => Waiting(k)' \/ Held(k)'
    <3> TAKE k \in Jobs
    <3>1. CASE k = Head(waitingJobs)
      BY <2>2, <3>1 DEF Held
    <3>2. ASSUME Waiting(k), k # Head(waitingJobs) PROVE Waiting(k)'
      <4>1. PICK i \in 1..Len(waitingJobs) : waitingJobs[i] = k
        BY <3>2 DEF Waiting
      <4>2. i - 1 \in 1..Len(Tail(waitingJobs)) /\ Tail(waitingJobs)[i - 1] = k
        BY <2>1, <3>2, <4>1
      <4>3. QED BY <4>2 DEF Waiting
    <3>3. ASSUME Held(k) PROVE Held(k)'
      BY <2>2, <3>3, NoJobAssumption DEF Held, TypeOK
    <3>4. QED BY <3>1, <3>2, <3>3
  <2>4. \A k \in Jobs : Waiting(k)' \/ Held(k)' => Waiting(k) \/ Held(k)
    BY <2>1 DEF Waiting, Held, TypeOK
  <2>5. \A k \in Jobs : PhaseOf(k)' = PhaseOf(k)
    BY <2>3, <2>4 DEF PhaseOf
  <2>6. AllExited' = AllExited /\ \A u \in Threads : RunnerOf(u)' = RunnerOf(u)
    BY DEF AllExited, RunnerOf, TypeOK
  <2>7. QED BY <2>5, <2>6 DEF Pool!vars
<1>5. CASE AfterRun(t) \/ RemoveRunning(t)
  <2> USE <1>5 DEF AfterRun, RemoveRunning
  <2>1. \A k \in Jobs : work[k] # "done" => Held(k)' = Held(k)
    BY NoJobAssumption DEF TypeOK, SingleOwner, HeldAsExpected, Holding, Held
  <2>2. \A k \in Jobs : PhaseOf(k)' = PhaseOf(k)
    BY <2>1 DEF PhaseOf, Waiting, TypeOK
  <2>3. AllExited' = AllExited /\ \A u \in Threads : RunnerOf(u)' = RunnerOf(u)
    BY DEF AllExited, RunnerOf, TypeOK
  <2>4. QED BY <2>2, <2>3 DEF Pool!vars
<1>6. CASE \/ PollMiss(t) \/ AddRunning(t) \/ IdleCheck(t) \/ Sleep(t) \/ SpuriousWake(t)
  <2> USE <1>6 DEF PollMiss, AddRunning, IdleCheck, Sleep, SpuriousWake
  <2>1. \A k \in Jobs : PhaseOf(k)' = PhaseOf(k)
    BY DEF PhaseOf, Held, Waiting
  <2>2. AllExited' = AllExited /\ \A u \in Threads : RunnerOf(u)' = RunnerOf(u)
    BY DEF AllExited, RunnerOf, TypeOK
  <2>3. QED BY <2>1, <2>2 DEF Pool!vars
<1>7. QED BY <1>1, <1>2, <1>3, <1>4, <1>5, <1>6 DEF ThreadStep

\* terminate(): only the final clear of waitingJobs is visible, as the drop of
\* what is still queued.
LEMMA TerminateRefines ==
  ASSUME ExecutorInv, TerminateBegin \/ TerminateStep
  PROVE  [Pool!Next]_(Pool!vars)
<1> USE DEF ExecutorInv, queueVars, threadVars, workerVars
<1>1. CASE ClearWaiting
  <2> USE <1>1 DEF ClearWaiting
  <2>1. AllExited /\ AllExited' /\ \A t \in Threads : RunnerOf(t)' = RunnerOf(t)
    BY DEF JoinedIsQuiet, AllExited, RunnerOf
  <2>2. \A j \in Jobs : ~Waiting(j)' /\ ~Held(j) /\ ~Held(j)'
    BY <2>1, NoJobAssumption DEF Waiting, Held, AllExited, SingleOwner, HeldAsExpected, Holding
  <2>3. \A j \in Jobs : PhaseOf(j)' = IF PhaseOf(j) = "queued" THEN "dropped" ELSE PhaseOf(j)
    BY <2>2 DEF PhaseOf, SingleOwner
  <2>4. Pool!DropQueued
    BY <2>1, <2>3 DEF Pool!DropQueued
  <2>5. QED BY <2>4 DEF Pool!Next
<1>2. CASE \/ TerminateBegin \/ (\E j \in Jobs : DrainJob(j)) \/ AwaitWorker
           \/ DrainEnd \/ JoinAll
  BY <1>2, PoolStutter DEF TerminateBegin, DrainJob, AwaitWorker, DrainEnd, JoinAll,
     AllExited, Waiting, Held, RunnerOf
<1>3. CASE TerminateNotify
  <2>1. AllExited' = AllExited /\ \A t \in Threads : RunnerOf(t)' = RunnerOf(t)
    BY <1>3 DEF TerminateNotify, WakeAll, AllExited, RunnerOf, TypeOK
  <2>2. QED BY <1>3, <2>1, PoolStutter DEF TerminateNotify, Waiting, Held
<1>4. QED BY <1>1, <1>2, <1>3 DEF TerminateStep

\* The executor implements the task pool: initial states map to initial states
\* and every step maps to a step of the pool or a stutter.
THEOREM ExecutorImplementsTaskPool == Spec => ImplementsTaskPool
<1>1. Init => Pool!Init
  <2> SUFFICES ASSUME Init PROVE Pool!Init
    OBVIOUS
  <2>1. \A j \in Jobs : PhaseOf(j) = "new"
    BY NoJobAssumption DEF Init, PhaseOf, Waiting, Held
  <2>2. ~AllExited /\ \A t \in Threads : RunnerOf(t) = NoJob
    BY ThreadsAssumption DEF Init, AllExited, RunnerOf
  <2>3. QED BY <2>1, <2>2 DEF Pool!Init
<1>2. ExecutorInv /\ [Next]_vars => [Pool!Next]_(Pool!vars)
  <2> SUFFICES ASSUME ExecutorInv, [Next]_vars PROVE [Pool!Next]_(Pool!vars)
    OBVIOUS
  <2>1. CASE Next
    BY <2>1, SubmitRefines, ThreadRefines, TerminateRefines DEF Next
  <2>2. CASE UNCHANGED vars
    BY <2>2, PoolStutter DEF vars, queueVars, threadVars, workerVars, callVars,
       AllExited, Waiting, Held, RunnerOf
  <2>3. QED BY <2>1, <2>2
<1>3. QED BY <1>1, <1>2, ExecutorInvariant, PTL DEF Spec, Pool!Spec, ImplementsTaskPool
=============================================================================
