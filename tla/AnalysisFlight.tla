--------------------------- MODULE AnalysisFlight ---------------------------
(***************************************************************************)
(* The single-flight registry of daemon/src/analysis_flight.rs: callers    *)
(* that ask for the same (cache key, cache generation) share one compute.  *)
(* A step is one critical section of the `flights` mutex, one critical     *)
(* section of a flight's own `state` mutex, or one condvar operation.      *)
(***************************************************************************)
EXTENDS Naturals, FiniteSets

CONSTANTS
    Thread,     \* rayon workers and request threads calling run_or_join
    Key,        \* (cache key, generation) pairs
    FlightId    \* addresses an Arc<AnalysisFlight> can have

CONSTANTS NoFlight, NoResult

ASSUME NoFlightAssumption == NoFlight \notin FlightId
ASSUME NoResultAssumption == NoResult \notin Key

VARIABLES
    pc,         \* where each thread is in run_or_join
    want,       \* the key each thread's call is for
    held,       \* the Arc<AnalysisFlight> each thread holds
    flights,    \* the registry map: Key -> FlightId, or NoFlight
    closed,     \* AnalysisFlightState.closed
    result,     \* AnalysisFlightState.result: the key its compute measured
    asleep,     \* threads parked in Condvar::wait
    returned    \* what each thread's call returned

flightVars == <<pc, want, held, flights, closed, result, asleep, returned>>

\* "idle"    not in a call              "claim"   about to take the flights mutex
\* "compute" leading, running compute   "notify"  published, about to notify_all
\* "drop"    published, Drop removes    "unwind"  panicked, Drop removes
\* "close"   panicked and removed       "alert"   closed, about to notify_all
\* "wait"    following                  "done"    the call returned
\* "failed"  the call unwound with its own compute's panic
Place == {"idle", "claim", "compute", "notify", "drop", "unwind", "close",
          "alert", "wait", "done", "failed"}

\* A leader's guard is alive: its flight is registered, or it is being dropped.
Leading == {"compute", "notify", "drop", "unwind", "close", "alert"}

\* Places from which the leader has not yet run remove_current_flight.
Registered == {"compute", "notify", "drop", "unwind"}

FlightTypeOK ==
    /\ pc \in [Thread -> Place]
    /\ want \in [Thread -> Key]
    /\ held \in [Thread -> FlightId \cup {NoFlight}]
    /\ flights \in [Key -> FlightId \cup {NoFlight}]
    /\ closed \in [FlightId -> BOOLEAN]
    /\ result \in [FlightId -> Key \cup {NoResult}]
    /\ asleep \in SUBSET Thread
    /\ returned \in [Thread -> Key \cup {NoResult}]

FlightInit ==
    /\ pc = [t \in Thread |-> "idle"]
    /\ want \in [Thread -> Key]
    /\ held = [t \in Thread |-> NoFlight]
    /\ flights = [k \in Key |-> NoFlight]
    /\ closed = [f \in FlightId |-> FALSE]
    /\ result = [f \in FlightId |-> NoResult]
    /\ asleep = {}
    /\ returned = [t \in Thread |-> NoResult]

Goto(t, from, to) ==
    /\ pc[t] = from
    /\ pc' = [pc EXCEPT ![t] = to]

\* An Arc's memory is reused only once nothing refers to it any more.
Unreferenced(f) ==
    /\ \A t \in Thread : held[t] # f
    /\ \A k \in Key : flights[k] # f

----------------------------------------------------------------------------
\* run_or_join(key, generation, compute) is called.
Call(t, k) ==
    /\ Goto(t, "idle", "claim")
    /\ want' = [want EXCEPT ![t] = k]
    /\ UNCHANGED <<held, flights, closed, result, asleep, returned>>

\* Mutant of ClaimLeader: the vacancy of the entry is not checked.
ClaimLeaderUnchecked(t, f) ==
    /\ Goto(t, "claim", "compute")
    /\ Unreferenced(f)
    /\ flights' = [flights EXCEPT ![want[t]] = f]
    /\ held' = [held EXCEPT ![t] = f]
    /\ closed' = [closed EXCEPT ![f] = FALSE]
    /\ result' = [result EXCEPT ![f] = NoResult]
    /\ UNCHANGED <<want, asleep, returned>>

\* claim_flight, Entry::Vacant: insert a default flight and lead it.
ClaimLeader(t, f) ==
    /\ Goto(t, "claim", "compute")
    /\ flights[want[t]] = NoFlight
    /\ Unreferenced(f)
    /\ flights' = [flights EXCEPT ![want[t]] = f]
    /\ held' = [held EXCEPT ![t] = f]
    /\ closed' = [closed EXCEPT ![f] = FALSE]
    /\ result' = [result EXCEPT ![f] = NoResult]
    /\ UNCHANGED <<want, asleep, returned>>

\* claim_flight, Entry::Occupied: clone the Arc and follow.
ClaimFollower(t) ==
    /\ Goto(t, "claim", "wait")
    /\ flights[want[t]] # NoFlight
    /\ held' = [held EXCEPT ![t] = flights[want[t]]]
    /\ UNCHANGED <<want, flights, closed, result, asleep, returned>>

\* Mutant of Publish: no notify_all follows the publish.
PublishSilently(t) ==
    /\ Goto(t, "compute", "drop")
    /\ result' = [result EXCEPT ![held[t]] = want[t]]
    /\ closed' = [closed EXCEPT ![held[t]] = TRUE]
    /\ UNCHANGED <<want, held, flights, asleep, returned>>

\* compute() returned: AnalysisFlight::publish stores the result and closes the
\* flight in one critical section of its state mutex.
Publish(t) ==
    /\ Goto(t, "compute", "notify")
    /\ result' = [result EXCEPT ![held[t]] = want[t]]
    /\ closed' = [closed EXCEPT ![held[t]] = TRUE]
    /\ UNCHANGED <<want, held, flights, asleep, returned>>

\* compute() panicked: the unwind drops the unpublished leader guard.
LeaderPanics(t) ==
    /\ Goto(t, "compute", "unwind")
    /\ UNCHANGED <<want, held, flights, closed, result, asleep, returned>>

Woken(f) == {t \in asleep : held[t] = f}

\* notify_all after a publish, outside the state mutex.
NotifyPublished(t) ==
    /\ Goto(t, "notify", "drop")
    /\ asleep' = asleep \ Woken(held[t])
    /\ UNCHANGED <<want, held, flights, closed, result, returned>>

\* remove_current_flight: only while the map still holds this very flight.
RemoveCurrentFlight(t) ==
    flights' = [flights EXCEPT ![want[t]] = IF @ = held[t] THEN NoFlight ELSE @]

\* Drop of a published leader; run_or_join then returns the leader's own result.
DropPublished(t) ==
    /\ Goto(t, "drop", "done")
    /\ RemoveCurrentFlight(t)
    /\ held' = [held EXCEPT ![t] = NoFlight]
    /\ returned' = [returned EXCEPT ![t] = want[t]]
    /\ UNCHANGED <<want, closed, result, asleep>>

\* Drop of an unpublished leader, first half: unregister before closing, so a
\* follower that wakes up cannot find the dead flight again.
DropRemove(t) ==
    /\ Goto(t, "unwind", "close")
    /\ RemoveCurrentFlight(t)
    /\ UNCHANGED <<want, held, closed, result, asleep, returned>>

\* Mutant of DropClose: a dead flight is unregistered but never closed.
DropWithoutClose(t) ==
    /\ Goto(t, "close", "alert")
    /\ UNCHANGED <<want, held, flights, closed, result, asleep, returned>>

\* Drop of an unpublished leader, second half: close_without_result.
DropClose(t) ==
    /\ Goto(t, "close", "alert")
    /\ closed' = [closed EXCEPT ![held[t]] = TRUE]
    /\ UNCHANGED <<want, held, flights, result, asleep, returned>>

\* notify_all after close_without_result; the panic then leaves run_or_join.
NotifyClosed(t) ==
    /\ Goto(t, "alert", "failed")
    /\ asleep' = asleep \ Woken(held[t])
    /\ held' = [held EXCEPT ![t] = NoFlight]
    /\ UNCHANGED <<want, flights, closed, result, returned>>

\* wait_for_result finds the flight open and parks on its condvar.
Park(t) ==
    /\ pc[t] = "wait"
    /\ t \notin asleep
    /\ ~closed[held[t]]
    /\ asleep' = asleep \cup {t}
    /\ UNCHANGED <<pc, want, held, flights, closed, result, returned>>

\* A condvar may wake a waiter for no reason; the while loop parks it again.
SpuriousWake(t) ==
    /\ t \in asleep
    /\ asleep' = asleep \ {t}
    /\ UNCHANGED <<pc, want, held, flights, closed, result, returned>>

\* wait_for_result finds the flight closed with a result: the call returns it.
JoinResult(t) ==
    /\ Goto(t, "wait", "done")
    /\ t \notin asleep
    /\ closed[held[t]]
    /\ result[held[t]] # NoResult
    /\ returned' = [returned EXCEPT ![t] = result[held[t]]]
    /\ held' = [held EXCEPT ![t] = NoFlight]
    /\ UNCHANGED <<want, flights, closed, result, asleep>>

\* wait_for_result returned None: the leader died, loop and claim again.
Retry(t) ==
    /\ Goto(t, "wait", "claim")
    /\ t \notin asleep
    /\ closed[held[t]]
    /\ result[held[t]] = NoResult
    /\ held' = [held EXCEPT ![t] = NoFlight]
    /\ UNCHANGED <<want, flights, closed, result, asleep, returned>>

\* The caller goes on to its next import.
Leave(t) ==
    /\ pc[t] \in {"done", "failed"}
    /\ pc' = [pc EXCEPT ![t] = "idle"]
    /\ returned' = [returned EXCEPT ![t] = NoResult]
    /\ UNCHANGED <<want, held, flights, closed, result, asleep>>

----------------------------------------------------------------------------
Step(t) ==
    \/ \E f \in FlightId : ClaimLeader(t, f)
    \/ ClaimFollower(t)
    \/ Publish(t) \/ NotifyPublished(t) \/ DropPublished(t)
    \/ DropRemove(t) \/ DropClose(t) \/ NotifyClosed(t)
    \/ Park(t) \/ JoinResult(t) \/ Retry(t)

FlightNext ==
    \E t \in Thread :
        \/ \E k \in Key : Call(t, k)
        \/ Step(t)
        \/ LeaderPanics(t)
        \/ SpuriousWake(t)
        \/ Leave(t)

FlightSpec == FlightInit /\ [][FlightNext]_flightVars

\* Every thread that can take a step inside run_or_join eventually does: the
\* operating system schedules it, and an engine build ends (the boundary stops
\* one that runs too long). Nothing is assumed about new calls or panics.
FlightFairness == \A t \in Thread : WF_flightVars(Step(t))

FlightFairSpec == FlightSpec /\ FlightFairness

----------------------------------------------------------------------------
\* At most one build runs for a key at a time (run_or_join: "Runs one compute
\* for a cache key within a cache generation").
OneComputePerKey ==
    \A t, u \in Thread :
        /\ pc[t] = "compute" /\ pc[u] = "compute" /\ want[t] = want[u]
        => t = u

\* A flight that died without a result is no longer registered when its
\* followers wake, so a retrying follower never rejoins it and spins.
DeadFlightUnreachable ==
    \A k \in Key :
        flights[k] # NoFlight =>
            ~(closed[flights[k]] /\ result[flights[k]] = NoResult)

\* A caller is only ever given a result computed for the key it asked for,
\* whoever led and however many leaders died before.
AnswersOwnKey ==
    \A t \in Thread : pc[t] = "done" => returned[t] = want[t]

\* The registry holds a flight exactly while some leader's guard will still
\* remove it: no entry is leaked for a later caller to wait on for ever.
NoLeakedFlight ==
    \A k \in Key :
        flights[k] # NoFlight =>
            \E t \in Thread : /\ pc[t] \in Registered
                              /\ want[t] = k
                              /\ held[t] = flights[k]

\* No wakeup is lost: a follower still parked on a closed flight has a leader
\* whose notify_all has not run yet (publish and close_without_result unlock
\* the state before they notify).
NoLostWakeup ==
    \A t \in asleep :
        closed[held[t]] =>
            \E u \in Thread : /\ pc[u] \in {"notify", "alert"}
                              /\ held[u] = held[t]

\* Unless builds keep panicking for ever, every call of run_or_join ends, with
\* a result or with the panic of its own compute.
CallsEnd ==
    \/ []<><<\E t \in Thread : LeaderPanics(t)>>_flightVars
    \/ \A t \in Thread : pc[t] = "claim" ~> pc[t] \in {"done", "failed"}

=============================================================================
