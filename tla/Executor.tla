------------------------------ MODULE Executor ------------------------------
(***************************************************************************)
(* rt::Executor (rt-lang/src/main/cpp/Executor.cpp) running rt::Worker     *)
(* tasks (Worker.cpp): the pool's threads in exec(), the callers of        *)
(* submit(), and the thread that calls terminate() (from shutdown() or the *)
(* destructor).  Every step that touches shared state is an action, so all *)
(* the interleavings of the three are there.  syncMutex is only ever held  *)
(* on the way into condition_variable::wait, so it is the step "lock" ->   *)
(* "asleep" and has no variable; runningJobs is a set, since its order     *)
(* only decides which worker is asked to stop first.  Priorities change    *)
(* nothing but the OS thread's scheduling and are left out.                *)
(***************************************************************************)
EXTENDS Sequences, Naturals

CONSTANTS Threads,   \* the threads the constructor creates (coreSize of them)
          Jobs,      \* the tasks callers submit, each one once
          NoJob      \* "no task"

ASSUME ThreadsAssumption == Threads # {}
ASSUME NoJobAssumption == NoJob \notin Jobs

VARIABLES
  shutdown,      \* Impl::shutdown
  waitingJobs,   \* Impl::waitingJobs, oldest first
  runningJobs,   \* Impl::runningJobs
  pc,            \* pc[t]: where thread t is in exec()
  job,           \* job[t]: the local variable job of exec(), or NoJob
  work,          \* work[j]: "running" while Worker::run holds j's aliveMutex
  terminated,    \* the jobs whose Worker::terminated flag is not zero
  sub,           \* sub[j]: progress of the submit() call for j
  term,          \* progress of the terminate() call
  target         \* the job whose Worker::terminate that call is inside

threadVars == <<pc, job>>
queueVars  == <<waitingJobs, runningJobs>>
workerVars == <<work, terminated>>
callVars   == <<sub, term, target>>
vars == <<shutdown, queueVars, threadVars, workerVars, callVars>>

ThreadPcs == {"check", "poll", "popped", "run", "loop", "after", "remove",
              "idle", "lock", "asleep", "exit"}
SubPcs    == {"none", "checked", "added", "done", "rejected"}
TermPcs   == {"none", "drain", "await", "notify", "join", "clear", "done"}

\* The program points at which a thread has a job in its hands.
Holding == {"popped", "run", "loop", "after", "remove"}

Init ==
  /\ shutdown = FALSE
  /\ waitingJobs = <<>> /\ runningJobs = {}
  /\ pc = [t \in Threads |-> "check"] /\ job = [t \in Threads |-> NoJob]
  /\ work = [j \in Jobs |-> "new"] /\ terminated = {}
  /\ sub = [j \in Jobs |-> "none"] /\ term = "none" /\ target = NoJob

Goto(t, label) == pc' = [pc EXCEPT ![t] = label]

\* condition_variable::notify_all on threadSync: only threads already inside
\* wait() hear it.
WakeAll == pc' = [t \in Threads |-> IF pc[t] = "asleep" THEN "check" ELSE pc[t]]

-----------------------------------------------------------------------------
(* Faulty variants of the actions below, used only to show that the        *)
(* properties can fail: a get() that does not take the job off the queue,  *)
(* an empty one that is not noticed, a thread that lets go of the job it   *)
(* took once the flag is up, a job that is never listed, one that is run   *)
(* again, notifications that are not sent, a terminate() that does not     *)
(* raise the worker's flag and a join that stops at the first thread.      *)

PollHitKeepsJob(t) ==
  /\ pc[t] = "poll" /\ waitingJobs # <<>>
  /\ job' = [job EXCEPT ![t] = Head(waitingJobs)]
  /\ Goto(t, "popped")
  /\ UNCHANGED <<shutdown, queueVars, workerVars, callVars>>

PollMissUnchecked(t) ==
  /\ pc[t] = "poll" /\ waitingJobs = <<>>
  /\ Goto(t, "popped")
  /\ UNCHANGED <<shutdown, queueVars, job, workerVars, callVars>>

AddRunningLetsGo(t) ==
  /\ pc[t] = "popped"
  /\ runningJobs' = IF shutdown THEN runningJobs ELSE runningJobs \cup {job[t]}
  /\ job' = [job EXCEPT ![t] = IF shutdown THEN NoJob ELSE @]
  /\ Goto(t, IF shutdown THEN "check" ELSE "run")
  /\ UNCHANGED <<shutdown, waitingJobs, workerVars, callVars>>

AddRunningSkipped(t) ==
  /\ pc[t] = "popped"
  /\ Goto(t, "run")
  /\ UNCHANGED <<shutdown, queueVars, job, workerVars, callVars>>

RemoveKeepsJob(t) ==
  /\ pc[t] = "remove"
  /\ runningJobs' = runningJobs \ {job[t]}
  /\ Goto(t, "run")
  /\ UNCHANGED <<shutdown, waitingJobs, job, workerVars, callVars>>

SubmitNotifyLost(j) ==
  /\ sub[j] = "added"
  /\ sub' = [sub EXCEPT ![j] = "done"]
  /\ UNCHANGED <<shutdown, queueVars, threadVars, workerVars, term, target>>

TerminateNotifyLost ==
  /\ term = "notify"
  /\ term' = "join"
  /\ UNCHANGED <<shutdown, queueVars, threadVars, workerVars, sub, target>>

DrainJobNoFlag(j) ==
  /\ term = "drain" /\ j \in runningJobs
  /\ runningJobs' = runningJobs \ {j}
  /\ term' = "await" /\ target' = j
  /\ UNCHANGED <<shutdown, waitingJobs, threadVars, workerVars, sub>>

JoinOne ==
  /\ term = "join" /\ \E t \in Threads : pc[t] = "exit"
  /\ term' = "clear"
  /\ UNCHANGED <<shutdown, queueVars, threadVars, workerVars, sub, target>>

-----------------------------------------------------------------------------
(* submit(), one call per job, from any thread                             *)

\* if (!shutdown) ... else the task is rejected
Submit(j) ==
  /\ sub[j] = "none"
  /\ sub' = [sub EXCEPT ![j] = IF shutdown THEN "rejected" ELSE "checked"]
  /\ UNCHANGED <<shutdown, queueVars, threadVars, workerVars, term, target>>

SubmitAdd(j) ==
  /\ sub[j] = "checked"
  /\ sub' = [sub EXCEPT ![j] = "added"]
  /\ waitingJobs' = Append(waitingJobs, j)
  /\ UNCHANGED <<shutdown, runningJobs, threadVars, workerVars, term, target>>

SubmitNotify(j) ==
  /\ sub[j] = "added"
  /\ sub' = [sub EXCEPT ![j] = "done"]
  /\ WakeAll
  /\ UNCHANGED <<shutdown, queueVars, job, workerVars, term, target>>

-----------------------------------------------------------------------------
(* exec(), the main function of every thread of the pool                   *)

\* while (!shutdown)
CheckShutdown(t) ==
  /\ pc[t] = "check"
  /\ Goto(t, IF shutdown THEN "exit" ELSE "poll")
  /\ UNCHANGED <<shutdown, queueVars, job, workerVars, callVars>>

\* waitingJobs.get() with no timeout
PollHit(t) ==
  /\ pc[t] = "poll" /\ waitingJobs # <<>>
  /\ job' = [job EXCEPT ![t] = Head(waitingJobs)]
  /\ waitingJobs' = Tail(waitingJobs)
  /\ Goto(t, "popped")
  /\ UNCHANGED <<shutdown, runningJobs, workerVars, callVars>>

PollMiss(t) ==
  /\ pc[t] = "poll" /\ waitingJobs = <<>>
  /\ Goto(t, "idle")
  /\ UNCHANGED <<shutdown, queueVars, job, workerVars, callVars>>

AddRunning(t) ==
  /\ pc[t] = "popped"
  /\ runningJobs' = runningJobs \cup {job[t]}
  /\ Goto(t, "run")
  /\ UNCHANGED <<shutdown, waitingJobs, job, workerVars, callVars>>

\* task->run(): Worker::run takes aliveMutex and calls start()
RunTask(t) ==
  /\ pc[t] = "run"
  /\ work' = [work EXCEPT ![job[t]] = "running"]
  /\ Goto(t, "loop")
  /\ UNCHANGED <<shutdown, queueVars, job, terminated, callVars>>

\* Worker::run returns: stop() was called, terminated is 1, aliveMutex is free
RunReturns(t) ==
  /\ pc[t] = "loop"
  /\ work' = [work EXCEPT ![job[t]] = "done"]
  /\ terminated' = terminated \cup {job[t]}
  /\ Goto(t, "after")
  /\ UNCHANGED <<shutdown, queueVars, job, callVars>>

\* while (!terminated) sees the flag
LoopTerminated(t) == job[t] \in terminated /\ RunReturns(t)

\* loop() returns false by itself
LoopBreaks(t) == job[t] \notin terminated /\ RunReturns(t)

\* start(), loop() or stop() throws: exec() catches it, terminated keeps its value
LoopThrows(t) ==
  /\ pc[t] = "loop"
  /\ work' = [work EXCEPT ![job[t]] = "done"]
  /\ Goto(t, "after")
  /\ UNCHANGED <<shutdown, queueVars, job, terminated, callVars>>

\* if (!shutdown) runningJobs.remove(job); otherwise the job's scope just ends
AfterRun(t) ==
  /\ pc[t] = "after"
  /\ Goto(t, IF shutdown THEN "check" ELSE "remove")
  /\ job' = [job EXCEPT ![t] = IF shutdown THEN NoJob ELSE @]
  /\ UNCHANGED <<shutdown, queueVars, workerVars, callVars>>

RemoveRunning(t) ==
  /\ pc[t] = "remove"
  /\ runningJobs' = runningJobs \ {job[t]}
  /\ job' = [job EXCEPT ![t] = NoJob]
  /\ Goto(t, "check")
  /\ UNCHANGED <<shutdown, waitingJobs, workerVars, callVars>>

\* else if (!shutdown): the last look at the flag before sleeping
IdleCheck(t) ==
  /\ pc[t] = "idle"
  /\ Goto(t, IF shutdown THEN "check" ELSE "lock")
  /\ UNCHANGED <<shutdown, queueVars, job, workerVars, callVars>>

\* lock(syncMutex); threadSync.wait(lock), with no predicate
Sleep(t) ==
  /\ pc[t] = "lock"
  /\ Goto(t, "asleep")
  /\ UNCHANGED <<shutdown, queueVars, job, workerVars, callVars>>

\* the C++ standard lets wait() return without a notification
SpuriousWake(t) ==
  /\ pc[t] = "asleep"
  /\ Goto(t, "check")
  /\ UNCHANGED <<shutdown, queueVars, job, workerVars, callVars>>

-----------------------------------------------------------------------------
(* terminate(), called by shutdown() and again by the destructor           *)

TerminateBegin ==
  /\ term \in {"none", "done"}
  /\ shutdown' = TRUE
  /\ term' = "drain"
  /\ UNCHANGED <<queueVars, threadVars, workerVars, sub, target>>

\* runningJobs.get() and Worker::terminate up to its lock of aliveMutex; a
\* worker whose flag is already set is not waited for
DrainJob(j) ==
  /\ term = "drain" /\ j \in runningJobs
  /\ runningJobs' = runningJobs \ {j}
  /\ terminated' = terminated \cup {j}
  /\ IF j \in terminated
       THEN UNCHANGED <<term, target>>
       ELSE term' = "await" /\ target' = j
  /\ UNCHANGED <<shutdown, waitingJobs, threadVars, work, sub>>

\* lock_guard lock(aliveMutex): free unless the worker is inside run()
AwaitWorker ==
  /\ term = "await" /\ work[target] # "running"
  /\ term' = "drain" /\ target' = NoJob
  /\ UNCHANGED <<shutdown, queueVars, threadVars, workerVars, sub>>

DrainEnd ==
  /\ term = "drain" /\ runningJobs = {}
  /\ term' = "notify"
  /\ UNCHANGED <<shutdown, queueVars, threadVars, workerVars, sub, target>>

TerminateNotify ==
  /\ term = "notify"
  /\ term' = "join"
  /\ WakeAll
  /\ UNCHANGED <<shutdown, queueVars, job, workerVars, sub, target>>

\* the loop of thread.join() calls: it ends once every thread has left exec()
JoinAll ==
  /\ term = "join" /\ \A t \in Threads : pc[t] = "exit"
  /\ term' = "clear"
  /\ UNCHANGED <<shutdown, queueVars, threadVars, workerVars, sub, target>>

ClearWaiting ==
  /\ term = "clear"
  /\ waitingJobs' = <<>>
  /\ term' = "done"
  /\ UNCHANGED <<shutdown, runningJobs, threadVars, workerVars, sub, target>>

-----------------------------------------------------------------------------
SubmitStep(j) == Submit(j) \/ SubmitAdd(j) \/ SubmitNotify(j)

\* exec() left to itself: what a scheduled thread goes on doing
ThreadStep(t) ==
  \/ CheckShutdown(t) \/ PollHit(t) \/ PollMiss(t) \/ AddRunning(t)
  \/ RunTask(t) \/ LoopTerminated(t) \/ AfterRun(t) \/ RemoveRunning(t)
  \/ IdleCheck(t) \/ Sleep(t)

TerminateStep ==
  \/ \E j \in Jobs : DrainJob(j)
  \/ AwaitWorker \/ DrainEnd \/ TerminateNotify \/ JoinAll \/ ClearWaiting

Next ==
  \/ \E j \in Jobs : SubmitStep(j)
  \/ \E t \in Threads : ThreadStep(t) \/ LoopBreaks(t) \/ LoopThrows(t) \/ SpuriousWake(t)
  \/ TerminateBegin
  \/ TerminateStep

Spec == Init /\ [][Next]_vars

(* A scheduled thread keeps running; a call that has begun goes on.  That   *)
(* a task ends by itself, that wait() wakes for no reason and that anybody  *)
(* submits or shuts down is not assumed.                                    *)
Fairness ==
  /\ \A t \in Threads : WF_vars(ThreadStep(t))
  /\ \A j \in Jobs : WF_vars(SubmitAdd(j) \/ SubmitNotify(j))
  /\ WF_vars(TerminateStep)

FairSpec == Spec /\ Fairness

-----------------------------------------------------------------------------
(* Safety                                                                  *)

TypeOK ==
  /\ shutdown \in BOOLEAN
  /\ waitingJobs \in Seq(Jobs) /\ runningJobs \subseteq Jobs
  /\ pc \in [Threads -> ThreadPcs] /\ job \in [Threads -> Jobs \cup {NoJob}]
  /\ work \in [Jobs -> {"new", "running", "done"}] /\ terminated \subseteq Jobs
  /\ sub \in [Jobs -> SubPcs] /\ term \in TermPcs /\ target \in Jobs \cup {NoJob}

Waiting(j) == \E i \in 1..Len(waitingJobs) : waitingJobs[i] = j
Held(j)    == \E t \in Threads : job[t] = j

\* What each program point says of the job a thread holds.
HeldAsExpected(t) ==
  /\ pc[t] \in Holding <=> job[t] # NoJob
  /\ pc[t] \in {"popped", "run"} => work[job[t]] = "new"
  /\ pc[t] = "loop" => work[job[t]] = "running"
  /\ pc[t] \in {"after", "remove"} => work[job[t]] = "done"

AllExited == \A t \in Threads : pc[t] = "exit"

SingleOwner ==
  /\ \A i, k \in 1..Len(waitingJobs) : waitingJobs[i] = waitingJobs[k] => i = k
  /\ \A t, u \in Threads : job[t] = job[u] /\ job[t] # NoJob => t = u
  /\ \A j \in Jobs : Waiting(j) => work[j] = "new" /\ ~Held(j)
  /\ \A j \in Jobs : work[j] = "running" => Held(j)
  /\ \A j \in Jobs : sub[j] \notin {"added", "done"} =>
        work[j] = "new" /\ ~Held(j) /\ ~Waiting(j)
  /\ \A t \in Threads : HeldAsExpected(t)

NoneLost ==
  \A j \in Jobs : sub[j] \in {"added", "done"} /\ work[j] = "new" =>
    Waiting(j) \/ Held(j) \/ AllExited

\* A job that submit() has queued has one owner, a place in the queue or a
\* thread, so no interleaving of pool threads runs it twice (SingleOwner); and it
\* keeps one until run() is called, or until no thread is left that could call
\* it: none is lost on the way from waitingJobs to run() (NoneLost).
OneOwner == SingleOwner /\ NoneLost

\* Once terminate() has joined the threads, no thread of the pool is left in
\* exec(), so no task runs after it, also in a second terminate() call.
JoinedIsQuiet == term \in {"clear", "done"} => AllExited

\* Behind the next property: a thread between runningJobs.add and the end of
\* run() has its job listed or told to stop.
ListedWhileRun ==
  \A t \in Threads : pc[t] \in {"run", "loop"} => job[t] \in runningJobs \cup terminated

\* When terminate() leaves its drain, every task that a thread has listed, before
\* it or while it ran, has been told to stop.  What it misses is a job in the
\* hands of a thread between waitingJobs.get() and runningJobs.add (94, 99): that
\* one is listed afterwards, in a list this call does not read again, and run.
DrainReachesListed ==
  [][term = "drain" /\ term' = "notify" =>
       \A t \in Threads : pc[t] \in {"run", "loop"} => job[t] \in terminated]_vars

ExecutorInv == TypeOK /\ SingleOwner /\ NoneLost /\ ListedWhileRun /\ JoinedIsQuiet

-----------------------------------------------------------------------------
(* The executor implements the task pool                                   *)

PhaseOf(j) ==
  IF work[j] = "running" THEN "running"
  ELSE IF work[j] = "done" THEN "finished"
  ELSE IF Waiting(j) \/ Held(j) THEN "queued"
  ELSE IF sub[j] \in {"added", "done"} THEN "dropped"
  ELSE "new"

RunnerOf(t) == IF pc[t] = "loop" THEN job[t] ELSE NoJob

Pool == INSTANCE TaskPool WITH
  phase  <- [j \in Jobs |-> PhaseOf(j)],
  runner <- [t \in Threads |-> RunnerOf(t)],
  closed <- AllExited

\* Every behaviour of the executor is one of the task pool: a job is queued
\* once, started at most once and only while the pool is open, and dropped only
\* after every thread has left (submit, exec and terminate together).
ImplementsTaskPool == Pool!Spec

-----------------------------------------------------------------------------
(* Liveness                                                                *)

Busy(t) == pc[t] \in Holding

\* A job added while no thread is between its empty poll and its wait is
\* started, or the pool shuts down or has no free thread: submit() wakes
\* sleepers, and a thread that comes back polls before it sleeps.
ServedUnlessRacing ==
  \A j \in Jobs :
    (sub[j] = "added" /\ Waiting(j) /\ \A t \in Threads : pc[t] \notin {"idle", "lock"})
      ~> (~Waiting(j) \/ shutdown \/ \A t \in Threads : Busy(t))

\* terminate() gets out of Worker::terminate: a worker whose flag was raised
\* leaves run() and frees aliveMutex, whatever else the pool is doing.
WorkerStops == term = "await" ~> term = "drain"

\* terminate() ends when it notifies a pool in which nobody is about to sleep
\* or to poll and every task in hand has been told to stop.
ShutdownFromQuietPool ==
  (/\ term = "notify"
   /\ \A t \in Threads : pc[t] \notin {"lock", "poll"}
   /\ \A t \in Threads : pc[t] \in {"popped", "run", "loop"} => job[t] \in terminated)
    ~> term = "done"

\* "all threads terminated, executor service shutdown completed!": terminate()
\* returns, at least for a pool that was given nothing to do.  It does not when a
\* thread enters wait() after notify_all.
ShutdownReturns == (term = "drain" /\ \A j \in Jobs : sub[j] = "none") ~> term = "done"
=============================================================================
