------------------------------ MODULE AssetGate ------------------------------
(***************************************************************************)
(* The execution boundary of the asset stage (pipeline/asset_boundary.rs): *)
(* a few permits, handed out under a mutex and a condition variable, for   *)
(* work that runs on a pool of its own, with one deadline over the wait    *)
(* for the permit and the work.  A caller that gives up leaves its work    *)
(* running, and the work keeps the permit until it returns.                *)
(***************************************************************************)
EXTENDS Integers, FiniteSets

CONSTANTS
    Callers,   \* the threads that may ask for asset work
    Permits    \* ASSET_PROCESSING_PERMITS, which is also the pool's size

ASSUME PermitsAssumption == Permits \in Nat \ {0}
ASSUME CallersAssumption == IsFiniteSet(Callers)

VARIABLES
    available,   \* Admission::available
    call,        \* each caller: "idle" "acquire" "asleep" "admitted" "waiting" "answered"
    expired,     \* the callers whose deadline has passed
    work,        \* each caller's job: "none" "queued" "running" "returned" "gone"
    reply,       \* what a job sent, or NoReply
    answer       \* what execute returned to the caller, or NoReply

gateVars == <<available, call, expired, work, reply, answer>>

NoReply == "none"

GateInit ==
    /\ available = Permits
    /\ call = [c \in Callers |-> "idle"]
    /\ expired = {}
    /\ work = [c \in Callers |-> "none"]
    /\ reply = [c \in Callers |-> NoReply]
    /\ answer = [c \in Callers |-> NoReply]

\* notify_one: a caller asleep on the condition variable goes back to the top
\* of acquire's loop, whichever it is, its deadline past or not.
Notified(calls) ==
    LET asleep == {c \in Callers : calls[c] = "asleep"}
    IN  IF asleep = {} THEN {calls}
        ELSE {[calls EXCEPT ![c] = "acquire"] : c \in asleep}

Answer(c, outcome) == answer' = [answer EXCEPT ![c] = outcome]

\* execute: the deadline starts, and the executor is built if it is not there.
\* A pool that cannot be built is not remembered.
Execute(c, poolBuilds) ==
    /\ call[c] = "idle"
    /\ \/ /\ poolBuilds
          /\ call' = [call EXCEPT ![c] = "acquire"]
          /\ UNCHANGED answer
       \/ /\ ~poolBuilds
          /\ call' = [call EXCEPT ![c] = "answered"]
          /\ Answer(c, "AdmissionFailed")
    /\ UNCHANGED <<available, expired, work, reply>>

\* The wake is not passed on.
LeavesSilently(c) ==
    /\ call[c] = "acquire"
    /\ c \in expired
    /\ call' = [call EXCEPT ![c] = "answered"]
    /\ Answer(c, "AdmissionTimedOut")
    /\ UNCHANGED <<available, expired, work, reply>>

\* acquire finds its deadline past.  A wake it cannot use is passed on.
GiveUpAcquire(c) ==
    /\ call[c] = "acquire"
    /\ c \in expired
    /\ LET left == [call EXCEPT ![c] = "answered"]
       IN  call' \in (IF available > 0 THEN Notified(left) ELSE {left})
    /\ Answer(c, "AdmissionTimedOut")
    /\ UNCHANGED <<available, expired, work, reply>>

\* One round of acquire's loop in time: a permit, or sleep.
Acquire(c) ==
    /\ call[c] = "acquire"
    /\ c \notin expired
    /\ \/ /\ available > 0
          /\ available' = available - 1
          /\ call' = [call EXCEPT ![c] = "admitted"]
       \/ /\ available = 0
          /\ call' = [call EXCEPT ![c] = "asleep"]
          /\ UNCHANGED available
    /\ UNCHANGED <<expired, work, reply, answer>>

\* wait_timeout returns because the time is up.
WakeExpired(c) ==
    /\ call[c] = "asleep"
    /\ c \in expired
    /\ call' = [call EXCEPT ![c] = "acquire"]
    /\ UNCHANGED <<available, expired, work, reply, answer>>

\* submit, once it has the permit: too late, and the permit is dropped, or the
\* job is spawned with it.
Submit(c) ==
    /\ call[c] = "admitted"
    /\ \/ /\ c \in expired
          /\ available' = available + 1
          /\ call' \in Notified([call EXCEPT ![c] = "answered"])
          /\ Answer(c, "AdmissionTimedOut")
          /\ UNCHANGED work
       \/ /\ c \notin expired
          /\ call' = [call EXCEPT ![c] = "waiting"]
          /\ work' = [work EXCEPT ![c] = "queued"]
          /\ UNCHANGED <<available, answer>>
    /\ UNCHANGED <<expired, reply>>

\* A pool thread takes the job: too late, and it answers so, or it runs it.
WorkerStart(c) ==
    /\ work[c] = "queued"
    /\ \/ /\ c \in expired
          /\ work' = [work EXCEPT ![c] = "returned"]
          /\ reply' = [reply EXCEPT ![c] = "ExecutionTimedOut"]
       \/ /\ c \notin expired
          /\ work' = [work EXCEPT ![c] = "running"]
          /\ UNCHANGED reply
    /\ UNCHANGED <<available, call, expired, answer>>

\* The job returns or panics, and its outcome is sent.
WorkerReturn(c, outcome) ==
    /\ work[c] = "running"
    /\ work' = [work EXCEPT ![c] = "returned"]
    /\ reply' = [reply EXCEPT ![c] = outcome]
    /\ UNCHANGED <<available, call, expired, answer>>

\* The closure ends and drops the permit (Permit::drop, Admission::release).
Release(c) ==
    /\ work[c] = "returned"
    /\ work' = [work EXCEPT ![c] = "gone"]
    /\ available' = available + 1
    /\ call' \in Notified(call)
    /\ UNCHANGED <<expired, reply, answer>>

\* The caller waits for the job however long it takes.
ReceiveWaits(c) ==
    /\ call[c] = "waiting"
    /\ reply[c] # NoReply
    /\ Answer(c, reply[c])
    /\ call' = [call EXCEPT ![c] = "answered"]
    /\ UNCHANGED <<available, expired, work, reply>>

\* recv_timeout: the outcome that was sent, or the deadline.
Receive(c) ==
    /\ call[c] = "waiting"
    /\ \/ reply[c] # NoReply /\ Answer(c, reply[c])
       \/ reply[c] = NoReply /\ c \in expired /\ Answer(c, "ExecutionTimedOut")
    /\ call' = [call EXCEPT ![c] = "answered"]
    /\ UNCHANGED <<available, expired, work, reply>>

\* A caller's deadline passes.
Expire(c) ==
    /\ call[c] \notin {"idle", "answered"}
    /\ c \notin expired
    /\ expired' = expired \cup {c}
    /\ UNCHANGED <<available, call, work, reply, answer>>

CallerStep(c) ==
    GiveUpAcquire(c) \/ Acquire(c) \/ WakeExpired(c) \/ Submit(c) \/ Receive(c) \/ Expire(c)

\* The gate on its own: callers come at any time, jobs end as they like.
GateNext ==
    \E c \in Callers :
        \/ \E poolBuilds \in BOOLEAN : Execute(c, poolBuilds)
        \/ CallerStep(c) \/ WorkerStart(c) \/ Release(c)
        \/ \E outcome \in {"ok", "Panicked"} : WorkerReturn(c, outcome)

GateSpec == GateInit /\ [][GateNext]_gateVars

(***************************************************************************)
(* Properties.                                                             *)
(***************************************************************************)

GateTypeOK ==
    /\ available \in Nat
    /\ call \in [Callers -> {"idle", "acquire", "asleep", "admitted", "waiting", "answered"}]
    /\ work \in [Callers -> {"none", "queued", "running", "returned", "gone"}]

\* A permit is held by exactly the callers between acquiring and spawning and
\* by the jobs that have not ended, given up on or not.
Holding == {c \in Callers : call[c] = "admitted" \/ work[c] \in {"queued", "running", "returned"}}

\* No permit lies idle while a caller sleeps that could still use it: whenever
\* one is free and such a caller sleeps, somebody has been woken who will take
\* it or pass the wake on; and abandoned work never lets more jobs run than
\* there are permits (asset_boundary.rs, acquire and release).
NoIdlePermit ==
    /\ available + Cardinality(Holding) = Permits
    /\ available > 0 /\ (\E c \in Callers : call[c] = "asleep" /\ c \notin expired)
         => \E c \in Callers : call[c] = "acquire"

\* Every caller gets its answer, even from a job that never returns: the
\* deadline covers the wait for a permit and the wait for the result.
CallersAnswered == \A c \in Callers : [](call[c] # "idle" => <>(call[c] = "answered"))
=============================================================================
