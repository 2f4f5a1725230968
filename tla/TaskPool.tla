------------------------------ MODULE TaskPool ------------------------------
(***************************************************************************)
(* What rt::Executor promises its callers, with no queue, no lock and no   *)
(* condition variable: a task is queued once, started at most once on a    *)
(* free thread, and finishes; a closed pool starts nothing, and what is    *)
(* still queued in it may be dropped.                                      *)
(***************************************************************************)
CONSTANTS Threads, Jobs, NoJob

VARIABLES phase,   \* phase[j]: where job j is in its life
          runner,  \* runner[t]: the job thread t is running, or NoJob
          closed   \* every thread of the pool has terminated

vars == <<phase, runner, closed>>

Phases == {"new", "queued", "running", "finished", "dropped"}

Init ==
  /\ phase = [j \in Jobs |-> "new"]
  /\ runner = [t \in Threads |-> NoJob]
  /\ closed = FALSE

\* A submitted task joins the pool; a submit that raced with the shutdown may
\* still put one into a closed pool.
Queue(j) ==
  /\ phase[j] = "new"
  /\ phase' = [phase EXCEPT ![j] = "queued"]
  /\ UNCHANGED <<runner, closed>>

Start(t, j) ==
  /\ ~closed
  /\ phase[j] = "queued" /\ runner[t] = NoJob
  /\ phase' = [phase EXCEPT ![j] = "running"]
  /\ runner' = [runner EXCEPT ![t] = j]
  /\ UNCHANGED closed

Finish(t) ==
  /\ runner[t] # NoJob
  /\ phase' = [phase EXCEPT ![runner[t]] = "finished"]
  /\ runner' = [runner EXCEPT ![t] = NoJob]
  /\ UNCHANGED closed

Close ==
  /\ \A t \in Threads : runner[t] = NoJob
  /\ closed' = TRUE
  /\ UNCHANGED <<phase, runner>>

DropQueued ==
  /\ closed
  /\ phase' = [j \in Jobs |-> IF phase[j] = "queued" THEN "dropped" ELSE phase[j]]
  /\ UNCHANGED <<runner, closed>>

Next ==
  \/ \E j \in Jobs : Queue(j)
  \/ \E t \in Threads, j \in Jobs : Start(t, j)
  \/ \E t \in Threads : Finish(t)
  \/ Close
  \/ DropQueued

Spec == Init /\ [][Next]_vars
=============================================================================
