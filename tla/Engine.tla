------------------------------- MODULE Engine -------------------------------
(***************************************************************************)
(* How builds reach the bundler: the two-permit boundary                   *)
(* (engine/boundary.rs), the bounded drain that feeds it                   *)
(* (engine/scheduling.rs), the prefetcher's sweeps (prefetch.rs), and the  *)
(* memory sweep that waits for all of it to settle (reclaim.rs), on the    *)
(* one CPU pool of the daemon and its background lane (Lane).              *)
(*                                                                         *)
(* A batch is one call of a drain.  A `call' classifies its imports on the *)
(* pool and drains the misses; a `stream' drains a document's misses; a    *)
(* `manifest' or `recent' sweep and a `report' are jobs of the background  *)
(* lane, and a report is cut into `piece's that pool workers share.  A     *)
(* worker of the pool that runs a drain is blocked until it ends; the      *)
(* threads of the drain compress what they built with rayon::join, which   *)
(* runs on the pool.                                                       *)
(***************************************************************************)
EXTENDS Lane, Integers

CONSTANTS
    Plans,      \* what may arrive: sequences of batches
    Permits,    \* ENGINE_PERMITS
    Workers,    \* MISS_DRAIN_WORKERS
    MemoLimit,  \* DEFAULT_EXPORT_MEMO_LIMIT
    Exposes,    \* entry file -> version of it -> whether it has a default export
    MaxBatches  \* the longest plan

ASSUME EngineAssumption ==
    /\ {Permits, Workers, MemoLimit} \subseteq Nat \ {0}
    /\ Permits >= 2
    \* A batch that is a job of the lane is spawned by a thread of its own.
    /\ 1..MaxBatches \subseteq Jobs \cap Callers

VARIABLES
    plan,        \* the batches that may arrive
    phase,       \* batch -> how far it is
    work,        \* batch -> the slots of its drain: [of, build, cached]
    settled,     \* batch -> input -> its result
    cursor,      \* batch -> the next slot
    hand,        \* batch -> drain thread -> [pc, slot]
    answer,      \* batch -> what its caller got
    bgq, q,      \* builds queued for BACKGROUND_PERMITS and for PERMITS
    inside,      \* builds that hold an engine permit
    generation,  \* CancellationToken.generation
    mine,        \* sweep -> the generation it was dispatched with
    seen,        \* sweep -> [dep, token]: the dependency it looks at
    version,     \* entry file -> its version on disk
    memo,        \* DEFAULT_EXPORT_MEMO
    at,          \* pool worker -> the batch that blocks it
    moved,       \* ACTIVITY differs from what the settle loop saw last
    unswept,     \* ACTIVITY differs from what it was at the last sweep
    dirty        \* work has finished since the last sweep

evars == <<plan, phase, work, settled, cursor, hand, answer, bgq, q, inside,
           generation, mine, seen, version, memo, at, moved, unswept,
           dirty>>
drain_ == <<work, settled, cursor, hand, answer>>
permit_ == <<bgq, q, inside>>
prewarm_ == <<generation, mine, seen, version, memo>>
reclaim_ == <<moved, unswept, dirty>>
all == <<vars, evars>>

B == 1..MaxBatches
Live == 1..Len(plan)
Kind(b) == IF b \in Live THEN plan[b].kind ELSE "none"
Sweeps == {b \in Live : Kind(b) \in {"manifest", "recent"}}
LaneJobs == {b \in Live : Kind(b) \in {"manifest", "recent", "report"}}
OnThread(b) == Kind(b) \in {"call", "stream"}
Pieces(r) == {b \in Live : Kind(b) = "piece" /\ plan[b].report = r}
Items(b) == IF b \in Live THEN plan[b].items ELSE <<>>
Threads == 1..Workers

Idle == [pc |-> "off", slot |-> 0]

EInit ==
    /\ Init
    /\ plan \in Plans
    /\ phase = [b \in B |-> "idle"]
    /\ work = [b \in B |-> <<>>]
    /\ settled = [b \in B |-> [i \in DOMAIN Items(b) |-> None]]
    /\ cursor = [b \in B |-> 1]
    /\ hand = [b \in B |-> [k \in Threads |-> Idle]]
    /\ answer = [b \in B |-> None]
    /\ bgq = <<>> /\ q = <<>> /\ inside = {}
    /\ generation = 0
    /\ mine = [b \in B |-> 0]
    /\ seen = [b \in B |-> [dep |-> 1, token |-> 0]]
    /\ version = [e \in DOMAIN Exposes |-> 1]
    /\ memo = <<>>
    /\ at = [w \in Runners |-> None]
    /\ moved = FALSE /\ unswept = FALSE /\ dirty = FALSE

(***************************************************************************)
(* reclaim.rs                                                              *)
(***************************************************************************)
\* WORKING: the Work that builds, lane jobs and blocking handlers hold.
Working ==
    \/ inside # {}
    \/ \E w \in Runners : state[w] = "run"
    \/ \E b \in Live : OnThread(b) /\ phase[b] \notin {"idle", "done"}

note_activity == moved' = TRUE /\ unswept' = TRUE

\* Dropping a Work counts as activity.
DropsQuietly == dirty' = TRUE /\ UNCHANGED <<moved, unswept>>
DropWork == note_activity /\ dirty' = TRUE

(***************************************************************************)
(* The pool.                                                               *)
(***************************************************************************)
\* A worker of the pool that can take a job: it runs nothing, or it waits in a
\* report for the pieces others took, and rayon has it help meanwhile.
Free(w) ==
    /\ at[w] = None
    /\ \/ state[w] = "off"
       \/ state[w] = "run" /\ Kind(job[w]) = "report"
PoolHasWorker == \E w \in Runners : Free(w)
\* Workers that run nothing are alike: the first of them takes a job.
Asleep == {w \in Runners : at[w] = None /\ state[w] = "off"}
Woken(w) == w \in Asleep => \A v \in Asleep : w <= v

(***************************************************************************)
(* engine/scheduling.rs: the drain.                                        *)
(***************************************************************************)
Result(i, out) == [of |-> i, out |-> out]

\* A drain of `slots' starts, with a fixed number of threads.
StartDrain(b, slots) ==
    /\ work' = [work EXCEPT ![b] = slots]
    /\ hand' = [hand EXCEPT ![b] = [k \in Threads |->
                  IF k <= Len(slots) THEN [Idle EXCEPT !.pc = "take"] ELSE Idle]]
    /\ phase' = [phase EXCEPT ![b] = "drain"]

Misses(b) == SelectSeq([i \in DOMAIN Items(b) |-> [of |-> i, item |-> Items(b)[i]]],
                       LAMBDA s : ~s.item.hit)
Slot(i, item) == [of |-> i, build |-> item.build, cached |-> item.hit]
Slots(b) == [j \in DOMAIN Misses(b) |-> Slot(Misses(b)[j].of, Misses(b)[j].item)]

\* drain_classified: hits settle on the pool, misses queue for the engine.  A
\* piece of a report is on the pool already.
Classify(b) ==
    /\ phase[b] = "classify"
    /\ Kind(b) = "piece" \/ PoolHasWorker
    /\ settled' = [settled EXCEPT ![b] = [i \in DOMAIN Items(b) |->
                      IF Items(b)[i].hit THEN Result(i, "hit") ELSE None]]
    /\ StartDrain(b, Slots(b))
    /\ UNCHANGED <<vars, plan, cursor, answer, permit_, prewarm_, at, reclaim_>>

\* What the drain does with the result of a slot: it is put where the import
\* is, whatever slot it was drained from.
SettlesBySlot(b, j, out) ==
    [settled EXCEPT ![b] = IF j \in DOMAIN @ THEN [@ EXCEPT ![j] = Result(work[b][j].of, out)]
                                             ELSE @]
Settled(b, j, out) ==
    [settled EXCEPT ![b] = IF work[b][j].of \in DOMAIN @
                           THEN [@ EXCEPT ![work[b][j].of] = Result(work[b][j].of, out)]
                           ELSE @]

SetHand(b, k, pc, j) == hand' = [hand EXCEPT ![b][k] = [pc |-> pc, slot |-> j]]

\* A slot is done: its result is pushed and the thread goes round.
PushAndTake(b, k, out) ==
    /\ settled' = Settled(b, hand[b][k].slot, out)
    /\ SetHand(b, k, "take", 0)

is_current(b) == mine[b] = generation

\* A sweep builds nothing that is cached, and nothing once it is superseded.
MayBuild(b, slot) == b \in Sweeps => is_current(b) /\ ~slot.cached

\* A drain thread takes the next slot, or leaves.
Claim(b, k) ==
    /\ hand[b][k].pc = "take"
    /\ cursor' = [cursor EXCEPT ![b] = @ + 1]
    /\ \/ cursor[b] > Len(work[b]) /\ SetHand(b, k, "gone", 0)
       \/ /\ cursor[b] <= Len(work[b])
          /\ IF MayBuild(b, work[b][cursor[b]])
             THEN SetHand(b, k, "build", cursor[b]) ELSE UNCHANGED hand
    /\ UNCHANGED <<vars, plan, phase, work, settled, answer, permit_, prewarm_, at, reclaim_>>

\* Every thread of the drain has left: the results go back in input order.
Joined(b) == phase[b] = "drain" /\ \A k \in Threads : hand[b][k].pc \in {"off", "gone"}
Return(b) ==
    /\ Joined(b)
    /\ answer' = [answer EXCEPT ![b] = settled[b]]
    /\ phase' = [phase EXCEPT ![b] = "done"]
    /\ at' = [w \in Runners |-> IF at[w] = b THEN None ELSE at[w]]
    /\ IF OnThread(b) THEN DropWork ELSE UNCHANGED reclaim_
    /\ UNCHANGED <<vars, plan, work, settled, cursor, hand, permit_, prewarm_>>

(***************************************************************************)
(* engine/boundary.rs: admission.  A build is known by the drain thread    *)
(* that waits for it.                                                      *)
(***************************************************************************)
\* run_as_background, and the drain that carries the mark to its threads.
Unmarked(b) == FALSE
is_background(b) == b \in Sweeps

Build(t) == work[t[1]][hand[t[1]][t[2]].slot].build
Holding == {q[i] : i \in DOMAIN q} \cup inside
BackgroundHolders == {t \in Holding : is_background(t[1])}

\* run_on_engine: the build is spawned, its caller waits.
Submit(b, k) ==
    /\ hand[b][k].pc = "build"
    /\ SetHand(b, k, "wait", hand[b][k].slot)
    /\ IF is_background(b)
       THEN bgq' = Append(bgq, <<b, k>>) /\ UNCHANGED q
       ELSE q' = Append(q, <<b, k>>) /\ UNCHANGED bgq
    /\ UNCHANGED <<vars, plan, phase, work, settled, cursor, answer, inside,
                   generation, mine, seen, version, memo, at, reclaim_>>

\* A background permit is free for the first in its queue, who then queues for
\* an engine permit.
AdmitBackground ==
    /\ bgq # <<>>
    /\ Cardinality(BackgroundHolders) < Permits - 1
    /\ q' = Append(q, Head(bgq))
    /\ bgq' = Tail(bgq)
    /\ UNCHANGED <<vars, plan, phase, drain_, inside, prewarm_, at, reclaim_>>

AdmitEngine ==
    /\ q # <<>>
    /\ Cardinality(inside) < Permits
    /\ inside' = inside \cup {Head(q)}
    /\ q' = Tail(q)
    /\ UNCHANGED <<vars, plan, phase, drain_, bgq, prewarm_, at, reclaim_>>

\* However a build ends, its permits go and its caller is answered: the result
\* or failure of the bundler, a panic caught, or the timeout of one that parks.
Ends(build) == CASE build = "hang" -> "timeout" [] OTHER -> build
EndBuild(t) ==
    /\ t \in inside
    /\ inside' = inside \ {t}
    /\ LET b == t[1]  k == t[2]  out == Ends(Build(t)) IN
       IF out = "value"
       THEN SetHand(b, k, "squeeze", hand[b][k].slot) /\ UNCHANGED settled
       ELSE PushAndTake(b, k, out)
    /\ DropWork
    /\ UNCHANGED <<vars, plan, phase, work, cursor, answer, bgq, q, prewarm_, at>>

\* compress_all: rayon::join from a thread that is not of the pool.
Compress(b, k) ==
    /\ hand[b][k].pc = "squeeze"
    /\ PoolHasWorker
    /\ PushAndTake(b, k, "value")
    /\ UNCHANGED <<vars, plan, phase, work, cursor, answer, permit_, prewarm_, at, reclaim_>>

(***************************************************************************)
(* What arrives (ipc/server.rs): every request of the user's stops prewarm.*)
(***************************************************************************)
cancel == generation' = generation + 1

\* Pieces are no arrival: they come with their report.  Earlier batches of the
\* plan need not have arrived.
Arrive(b) ==
    /\ b \in Live /\ OnThread(b)
    /\ phase[b] = "idle"
    /\ cancel /\ note_activity
    /\ IF Kind(b) = "call"
       THEN phase' = [phase EXCEPT ![b] = "classify"] /\ UNCHANGED <<work, hand>>
       ELSE StartDrain(b, Slots(b))
    /\ UNCHANGED <<vars, plan, settled, cursor, answer, permit_, mine, seen,
                   version, memo, at, dirty>>

\* prewarm_package_json, prewarm_recent_cache_entries, spawn_workspace_report.
Dispatch(b) ==
    /\ b \in LaneJobs
    /\ phase[b] = "idle"
    /\ cancel /\ note_activity
    /\ mine' = [mine EXCEPT ![b] = generation']
    /\ phase' = [phase EXCEPT ![b] = "queued"]
    /\ Spawn(b, b)
    /\ UNCHANGED <<plan, drain_, permit_, seen, version, memo, at, dirty>>

EditEntry(e) ==
    /\ version[e] < Len(Exposes[e])
    /\ \E b \in Live : Kind(b) = "manifest" /\ e \in {d.entry : d \in Range(plan[b].deps)}
    /\ version' = [version EXCEPT ![e] = @ + 1]
    /\ UNCHANGED <<vars, plan, phase, drain_, permit_, generation, mine, seen,
                   memo, at, reclaim_>>

(***************************************************************************)
(* prefetch.rs: a sweep on its worker of the pool.                         *)
(***************************************************************************)
\* The lane hands a job to a worker of the pool.
BeginJob(w) ==
    /\ at[w] = None
    /\ Take(w)
    /\ LET b == job'[w] IN
       /\ phase' = [phase EXCEPT ![b] = IF Kind(b) = "report" THEN "run" ELSE "start"]
       /\ at' = [at EXCEPT ![w] = IF Kind(b) = "report" THEN None ELSE b]
    /\ UNCHANGED <<plan, drain_, permit_, prewarm_, reclaim_>>

SweepDone(b) == phase' = [phase EXCEPT ![b] = "over"]

\* run_prewarm_job and run_recent_prewarm_job, up to their list of jobs.
BeginSweepJob(b) ==
    /\ phase[b] = "start"
    /\ IF ~is_current(b) THEN SweepDone(b) /\ UNCHANGED work
       ELSE /\ phase' = [phase EXCEPT ![b] = IF Kind(b) = "manifest" THEN "enum" ELSE "listed"]
            /\ work' = [work EXCEPT ![b] = [i \in DOMAIN Items(b) |-> Slot(i, Items(b)[i])]]
    /\ UNCHANGED <<vars, plan, settled, cursor, hand, answer, permit_, prewarm_, at, reclaim_>>

Dep(b) == plan[b].deps[seen[b].dep]
NextDep(b) == seen' = [seen EXCEPT ![b] = [dep |-> @.dep + 1, token |-> 0]]

\* The requests made for a dependency: its default export when it has one, and
\* its namespace.
AddJobs(b, hasDefault) ==
    work' = [work EXCEPT ![b] = @ \o
        [j \in 1..(IF hasDefault THEN 2 ELSE 1) |-> Slot(0, Dep(b))]]

Memo(m) ==
    LET others == SelectSeq(memo, LAMBDA o : o.entry # m.entry)
        known == Len(others) < Len(memo)
    IN  Append(IF Len(memo) >= MemoLimit /\ ~known THEN <<>> ELSE others, m)

\* package_json_prewarm_jobs, one dependency: superseded, it gives up with no
\* jobs; not installed, the dependency is skipped; else the entry's stat token
\* is taken, and a memo under that token answers.
Enumerate(b) ==
    /\ phase[b] = "enum"
    /\ seen[b].dep <= Len(plan[b].deps)
    /\ \/ /\ ~is_current(b)
          /\ SweepDone(b)
          /\ UNCHANGED <<work, seen>>
       \/ /\ is_current(b) /\ ~Dep(b).installed
          /\ NextDep(b)
          /\ UNCHANGED <<phase, work>>
       \/ /\ is_current(b) /\ Dep(b).installed
          /\ LET e == Dep(b).entry
                 known == {m \in Range(memo) : m.entry = e /\ m.token = version[e]}
             IN  \/ \E m \in known : AddJobs(b, m.has) /\ NextDep(b) /\ UNCHANGED phase
                \/ /\ known = {}
                   /\ seen' = [seen EXCEPT ![b].token = version[e]]
                   /\ phase' = [phase EXCEPT ![b] = "read"]
                   /\ UNCHANGED work
    /\ UNCHANGED <<vars, plan, settled, cursor, hand, answer, permit_, generation, mine,
                   version, memo, at, reclaim_>>

\* What the read of the entry finds goes into the memo under the token taken
\* before it.
Probe(b) ==
    [entry |-> Dep(b).entry, token |-> seen[b].token,
     has |-> Exposes[Dep(b).entry][version[Dep(b).entry]]]
ReadEntry(b) ==
    /\ phase[b] = "read"
    /\ ~Dep(b).crash
    /\ memo' = Memo(Probe(b))
    /\ AddJobs(b, Probe(b).has)
    /\ NextDep(b)
    /\ phase' = [phase EXCEPT ![b] = "enum"]
    /\ UNCHANGED <<vars, plan, settled, cursor, hand, answer, permit_, generation, mine,
                   version, at, reclaim_>>

\* The list is complete.
Listed(b) ==
    /\ \/ phase[b] = "listed"
       \/ phase[b] = "enum" /\ seen[b].dep > Len(plan[b].deps)
    /\ IF work[b] = <<>> \/ ~is_current(b) THEN SweepDone(b) /\ UNCHANGED <<work, hand>>
       ELSE StartDrain(b, work[b])
    /\ UNCHANGED <<vars, plan, settled, cursor, answer, permit_, prewarm_, at, reclaim_>>

\* The job is over: the lane goes on.  Parsing an entry can also panic, which
\* the lane catches.
JobOver(b) ==
    \/ phase[b] = "over"
    \/ b \in Sweeps /\ phase[b] = "done"
    \/ Kind(b) = "report" /\ phase[b] = "run" /\ \A p \in Pieces(b) : phase[p] = "done"
EndJob(w) ==
    /\ state[w] = "run"
    /\ LET b == job[w] IN
       /\ \/ JobOver(b) /\ Finish(w)
          \/ phase[b] = "read" /\ Dep(b).crash /\ Panic(w)
       /\ phase' = [phase EXCEPT ![b] = "done"]
       /\ at' = [at EXCEPT ![w] = None]
    /\ DropWork
    /\ UNCHANGED <<plan, drain_, permit_, prewarm_>>

\* A piece of a running report is taken by a worker with nothing else to do.
TakePiece(w, p) ==
    /\ p \in Live /\ Kind(p) = "piece"
    /\ phase[p] = "idle" /\ phase[plan[p].report] = "run"
    /\ Free(w) /\ Woken(w)
    /\ at' = [at EXCEPT ![w] = p]
    /\ phase' = [phase EXCEPT ![p] = "classify"]
    /\ UNCHANGED <<vars, plan, drain_, permit_, prewarm_, reclaim_>>

StartLaneRunner(c, w) ==
    /\ at[w] = None /\ Woken(w)
    /\ StartRunner(c, w)
    /\ UNCHANGED evars
LeaveLane(w) == Exit(w) /\ UNCHANGED evars

\* A period of sweep_when_settled in which something happened.
Settle ==
    /\ moved
    /\ moved' = FALSE
    /\ UNCHANGED <<vars, plan, phase, drain_, permit_, prewarm_, at, unswept, dirty>>

\* A quiet one, with nobody at work: the pools are swept.
Sweep ==
    /\ ~moved /\ ~Working /\ unswept
    /\ unswept' = FALSE
    /\ dirty' = FALSE
    /\ UNCHANGED <<vars, plan, phase, drain_, permit_, prewarm_, at, moved>>

-----------------------------------------------------------------------------
BatchStep(b) ==
    \/ Classify(b) \/ Return(b) \/ BeginSweepJob(b)
    \/ Kind(b) = "manifest" /\ (Enumerate(b) \/ ReadEntry(b))
    \/ b \in Sweeps /\ Listed(b)
ThreadStep(b, k) == Claim(b, k) \/ Submit(b, k) \/ Compress(b, k)
PoolStep(w) ==
    \/ \E c \in Callers : StartLaneRunner(c, w)
    \/ BeginJob(w) \/ EndJob(w) \/ LeaveLane(w)
    \/ \E p \in B : TakePiece(w, p)

\* What the daemon does of itself, with nothing more arriving.
Progress ==
    \/ \E b \in B : BatchStep(b)
    \/ \E b \in B, k \in Threads : ThreadStep(b, k) \/ EndBuild(<<b, k>>)
    \/ \E w \in Runners : PoolStep(w)
    \/ AdmitBackground \/ AdmitEngine
    \/ Settle \/ Sweep

ENext ==
    \/ Progress
    \/ \E b \in B : Arrive(b) \/ Dispatch(b)
    \/ \E e \in DOMAIN Exposes : EditEntry(e)

\* Threads that can run do: it is enough that some step is taken while any can
\* be, for no step of the daemon's own can be taken for ever.
EFairness == WF_all(Progress)

ESpec == EInit /\ [][ENext]_all /\ EFairness

-----------------------------------------------------------------------------
\* The batches whose caller gets results back, as ParallelMap sees them.
Mapped(b) == Kind(b) \in {"call", "piece"} /\ phase[b] # "idle"
Outcomes(i, item) ==
    {Result(i, IF item.hit THEN "hit" ELSE IF item.build = "hang" THEN "timeout" ELSE item.build)}
Map == INSTANCE ParallelMap WITH
    Calls <- B,
    Outputs <- Outcomes,
    Batches <- UNION {{p[b].items : b \in DOMAIN p} : p \in Plans},
    batch <- [b \in B |-> IF Mapped(b) THEN Items(b) ELSE None],
    output <- [b \in B |-> IF Mapped(b) THEN settled[b] ELSE <<>>],
    answer <- [b \in B |-> IF Mapped(b) THEN answer[b] ELSE None]

\* The drain implements ParallelMap (scheduling.rs:1-7): whatever the threads,
\* the permits and the pool do, every import is worked on once, the caller gets
\* the outputs in the order of its imports, and it does get them, also when a
\* build panics or parks.
DrainIsMap == Map!PSpec

\* A user's build never queues behind prewarm builds that hold every permit
\* (boundary.rs:153-160): with those ahead of it counted too, one is left.
Prewarm(t) == t[1] \in Sweeps
PermitLeft ==
    \A i \in DOMAIN q : ~Prewarm(q[i]) =>
        Cardinality({t \in inside \cup {q[j] : j \in 1..i} : Prewarm(t)}) < Permits

\* What work leaves behind is swept once the daemon is quiet (reclaim.rs:86-100).
SweepFollowsWork == dirty ~> ~dirty

\* Background work leaves the pool room for the user's (lanes.rs:3-5).
InteractiveFindsWorkers ==
    \A b \in B : (phase[b] = "classify") ~> (phase[b] # "classify")
=============================================================================
