-------------------------------- MODULE Lane --------------------------------
(***************************************************************************)
(* A bounded lane over the daemon's threads (src/daemon/src/lanes.rs).     *)
(*                                                                         *)
(* A lane is a mutex around a FIFO of jobs and a count of runners.  spawn  *)
(* queues a job and, below the limit, counts one more runner before it     *)
(* starts it outside the lock; a runner drains the queue and leaves, and   *)
(* takes itself off the count in the same critical section that found the  *)
(* queue empty.  The background lane starts a runner on the Rayon pool,    *)
(* which cannot fail; the registry lane starts a thread, and when that     *)
(* fails the caller of spawn drains the queue itself.                      *)
(*                                                                         *)
(* A critical section of the mutex is one step.  What a job computes is    *)
(* left out; that it ends, normally or by a panic, is assumed where        *)
(* progress is claimed.                                                    *)
(***************************************************************************)
EXTENDS Naturals, Sequences, FiniteSets, SequencesExt

CONSTANTS
    Jobs,           \* the jobs that may be spawned, each once
    Callers,        \* threads that call spawn
    Runners,        \* threads or pool tasks that can be started
    Width,          \* the width asked of Lane::new
    StartMayFail,   \* TRUE for the registry lane
    None            \* no job

ASSUME LaneAssumption ==
    /\ Width \in Nat
    /\ StartMayFail \in BOOLEAN
    /\ Callers \cap Runners = {}
    /\ None \notin Jobs
    /\ IsFiniteSet(Callers)
    /\ IsFiniteSet(Runners)

VARIABLES
    queue,      \* LaneState.queue
    running,    \* LaneState.running
    state,      \* what each thread does in the lane
    job,        \* the job a thread holds
    spawned,    \* jobs handed to spawn so far
    done        \* jobs that have returned or panicked

vars == <<queue, running, state, job, spawned, done>>

Agents == Callers \cup Runners

\* Lane::new never makes a lane of width zero: half of a one-thread pool.
Limit == IF Width < 1 THEN 1 ELSE Width

Init ==
    /\ queue = <<>>
    /\ running = 0
    /\ state = [a \in Agents |-> "off"]
    /\ job = [a \in Agents |-> None]
    /\ spawned = {}
    /\ done = {}

-----------------------------------------------------------------------------
\* The critical section of spawn: queue the job, reserve a runner if there is
\* room.  Without room the call returns and the job waits.
Spawn(c, j) ==
    /\ state[c] = "off"
    /\ j \notin spawned
    /\ queue' = Append(queue, j)
    /\ spawned' = spawned \cup {j}
    /\ IF running < Limit
       THEN /\ running' = running + 1
            /\ state' = [state EXCEPT ![c] = "start"]
       ELSE UNCHANGED <<running, state>>
    /\ UNCHANGED <<job, done>>

\* start_runner succeeds: a new runner drains, the caller returns.
StartRunner(c, r) ==
    /\ state[c] = "start"
    /\ state[r] = "off"
    /\ state' = [state EXCEPT ![c] = "off", ![r] = "drain"]
    /\ UNCHANGED <<queue, running, job, spawned, done>>

\* The registry lane is out of threads: the caller drains in place.
StartFails(c) ==
    /\ StartMayFail
    /\ state[c] = "start"
    /\ state' = [state EXCEPT ![c] = "drain"]
    /\ UNCHANGED <<queue, running, job, spawned, done>>

\* drain pops the oldest job.
Take(a) ==
    /\ state[a] = "drain"
    /\ queue # <<>>
    /\ queue' = Tail(queue)
    /\ job' = [job EXCEPT ![a] = Head(queue)]
    /\ state' = [state EXCEPT ![a] = "run"]
    /\ UNCHANGED <<running, spawned, done>>

\* drain finds the queue empty and gives up its place under the same lock.
Exit(a) ==
    /\ state[a] = "drain"
    /\ queue = <<>>
    /\ running' = running - 1
    /\ state' = [state EXCEPT ![a] = "off"]
    /\ UNCHANGED <<queue, job, spawned, done>>

\* The job is over; its thread goes on in the given state.
JobEnds(a, next) ==
    /\ state[a] = "run"
    /\ done' = done \cup {job[a]}
    /\ job' = [job EXCEPT ![a] = None]
    /\ state' = [state EXCEPT ![a] = next]
    /\ UNCHANGED <<queue, running, spawned>>

\* The job returns and the loop goes round.
Finish(a) == JobEnds(a, "drain")

\* Mutant. A panicking job is queued again, in front.
PanicRetries(a) ==
    /\ state[a] = "run"
    /\ queue' = <<job[a]>> \o queue
    /\ job' = [job EXCEPT ![a] = None]
    /\ state' = [state EXCEPT ![a] = "drain"]
    /\ UNCHANGED <<running, spawned, done>>

\* The job panics; catch_unwind keeps the runner in its loop.
Panic(a) == JobEnds(a, "drain")

\* What a thread inside the lane does next.
Step(a) ==
    \/ \E r \in Runners : a \in Callers /\ StartRunner(a, r)
    \/ a \in Callers /\ StartFails(a)
    \/ Take(a)
    \/ Exit(a)
    \/ Finish(a)
    \/ Panic(a)

Next ==
    \/ \E c \in Callers, j \in Jobs : Spawn(c, j)
    \/ \E a \in Agents : Step(a)

\* Threads in the lane keep running: they are runnable, or in a job that ends.
Fairness == \A a \in Agents : WF_vars(Step(a))

Spec == Init /\ [][Next]_vars
FairSpec == Spec /\ Fairness

-----------------------------------------------------------------------------
TypeOK ==
    /\ queue \in Seq(spawned)
    /\ running \in Nat
    /\ state \in [Agents -> {"off", "start", "drain", "run"}]
    /\ job \in [Agents -> Jobs \cup {None}]
    /\ spawned \subseteq Jobs
    /\ done \subseteq spawned

\* A thread holds a place in the lane from the moment spawn counts it.
Busy == {a \in Agents : state[a] # "off"}

\* The lane never runs more jobs at once than its width (lanes.rs:1-5).  It is
\* the count kept under the mutex that bounds the threads outside it, so every
\* place counted must be held by exactly one thread.
Bounded ==
    /\ Cardinality({a \in Agents : state[a] = "run"}) <= Limit
    /\ running = Cardinality(Busy)

\* No job is stranded: while the queue holds one, some thread is on its way to
\* it (lanes.rs:46-56 against lanes.rs:64-71).
NotStranded == queue # <<>> => Busy # {}

\* Every job handed to the lane is run to its end, whatever panics before it.
EveryJobRuns == \A j \in Jobs : (j \in spawned) ~> (j \in done)
=============================================================================
