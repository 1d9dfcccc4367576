---------------------------- MODULE EngineProofs ----------------------------
(***************************************************************************)
(* The background lane and the engine's two-permit boundary, for any plan  *)
(* of batches, any number of threads and any number of permits.            *)
(*                                                                         *)
(* First the lane by itself: its bound and its promise not to strand a     *)
(* job.  Bounded is not inductive: a spawn is admitted by `running', so    *)
(* the bound on threads needs the count to be exact and itself bounded,    *)
(* and a spawn that is not admitted strands nothing only because a full    *)
(* lane has a runner.  LaneInv adds those facts.  Then the daemon around   *)
(* it: every step of Engine is a step of the lane or leaves it alone, so   *)
(* what the lane promises holds of the daemon.  Then the boundary: prewarm *)
(* builds never hold or stand in line for more permits than all but one,   *)
(* and no more builds run than there are permits.                          *)
(***************************************************************************)
EXTENDS Engine, FiniteSetTheorems, SequenceTheorems, TLAPS

\* A running thread holds a job that was spawned.
HeldJobs == \A a \in Agents : state[a] = "run" => job[a] \in spawned

LaneInv ==
    /\ TypeOK
    /\ HeldJobs
    /\ running = Cardinality(Busy)
    /\ running <= Limit
    /\ NotStranded

\* Lane::new's clamp: a lane always has room for one runner.
LEMMA LimitPositive == Limit \in Nat /\ Limit >= 1
  BY LaneAssumption DEF Limit

\* There are finitely many threads, so counting them means something.
LEMMA BusyFinite == IsFiniteSet(Busy) /\ Cardinality(Busy) \in Nat
<1>1. IsFiniteSet(Agents)
  BY LaneAssumption, FS_Union DEF Agents
<1>2. Busy \subseteq Agents
  BY DEF Busy
<1>3. IsFiniteSet(Busy)
  BY <1>1, <1>2, FS_Subset
<1> QED
  BY <1>3, FS_CardinalityType

\* The empty lane satisfies the invariant.
LEMMA LaneStarts == Init => LaneInv
<1> SUFFICES ASSUME Init PROVE LaneInv
  OBVIOUS
<1> USE DEF Init
<1>1. TypeOK /\ HeldJobs
  BY DEF TypeOK, HeldJobs
<1>2. Busy = {}
  BY DEF Busy
<1>3. running = Cardinality(Busy)
  BY <1>2, FS_EmptySet
<1>4. running <= Limit
  BY LimitPositive
<1> QED
  BY <1>1, <1>3, <1>4 DEF LaneInv, NotStranded

\* spawn, with and without room.
LEMMA SpawnKeeps ==
    ASSUME LaneInv, NEW c \in Callers, NEW j \in Jobs, Spawn(c, j)
    PROVE  LaneInv'
<1> USE DEF LaneInv
<1> c \in Agents
  BY DEF Agents
<1>1. TypeOK'
  <2>1. queue' \in Seq(spawned')
    BY DEF Spawn, TypeOK
  <2>2. running' \in Nat
    BY DEF Spawn, TypeOK
  <2>3. state' \in [Agents -> {"off", "start", "drain", "run"}]
    BY DEF Spawn, TypeOK
  <2> QED
    BY <2>1, <2>2, <2>3 DEF Spawn, TypeOK
<1>2. HeldJobs'
  <2> SUFFICES ASSUME NEW a \in Agents, state'[a] = "run" PROVE job'[a] \in spawned'
    BY DEF HeldJobs
  <2>1. state[a] = "run"
    BY DEF Spawn, TypeOK
  <2> QED
    BY <2>1 DEF HeldJobs, Spawn
<1>3. CASE running < Limit
  <2>1. Busy' = Busy \cup {c} /\ c \notin Busy
    BY <1>3 DEF Spawn, TypeOK, Busy
  <2>2. Cardinality(Busy') = Cardinality(Busy) + 1
    BY <2>1, BusyFinite, FS_AddElement
  <2>3. running' = running + 1
    BY <1>3 DEF Spawn
  <2>4. running' = Cardinality(Busy') /\ running' <= Limit
    BY <2>2, <2>3, <1>3, LimitPositive DEF TypeOK
  <2>5. NotStranded'
    BY <2>1 DEF NotStranded
  <2> QED
    BY <1>1, <1>2, <2>4, <2>5 DEF Limit
<1>4. CASE ~(running < Limit)
  <2>1. running' = running /\ Busy' = Busy
    BY <1>4 DEF Spawn, Busy
  <2>2. Busy # {}
    <3>1. running >= 1
      BY <1>4, LimitPositive DEF TypeOK
    <3>2. Cardinality(Busy) # 0
      BY <3>1
    <3>3. Cardinality({}) = 0
      BY FS_EmptySet
    <3> QED
      BY <3>2, <3>3
  <2> QED
    BY <1>1, <1>2, <2>1, <2>2 DEF NotStranded, Limit
<1> QED
  BY <1>3, <1>4

\* A runner starts, or the caller takes its place: one thread for one place.
LEMMA StartKeeps ==
    ASSUME LaneInv, NEW c \in Callers, NEW r \in Runners, StartRunner(c, r)
    PROVE  LaneInv'
<1> USE DEF LaneInv
<1> c \in Agents /\ r \in Agents /\ c # r
  BY LaneAssumption DEF Agents
<1>1. TypeOK'
  BY DEF StartRunner, TypeOK
<1>2. HeldJobs'
  BY DEF StartRunner, TypeOK, HeldJobs
<1>3. c \in Busy /\ r \notin Busy /\ Busy' = (Busy \ {c}) \cup {r}
  BY DEF StartRunner, TypeOK, Busy
<1>4. IsFiniteSet(Busy \ {c}) /\ Cardinality(Busy \ {c}) = Cardinality(Busy) - 1
  BY <1>3, BusyFinite, FS_RemoveElement
<1>5. Cardinality(Busy') = Cardinality(Busy \ {c}) + 1
  BY <1>3, <1>4, FS_AddElement
<1>6. running' = Cardinality(Busy')
  BY <1>4, <1>5, BusyFinite DEF StartRunner
<1> QED
  BY <1>1, <1>2, <1>3, <1>6 DEF StartRunner, NotStranded, Limit

LEMMA StartFailsKeeps ==
    ASSUME LaneInv, NEW c \in Callers, StartFails(c)
    PROVE  LaneInv'
<1> USE DEF LaneInv
<1> c \in Agents
  BY DEF Agents
<1>1. TypeOK' /\ HeldJobs'
  BY DEF StartFails, TypeOK, HeldJobs
<1>2. Busy' = Busy
  BY DEF StartFails, TypeOK, Busy
<1> QED
  BY <1>1, <1>2 DEF StartFails, NotStranded, Limit

LEMMA TakeKeeps ==
    ASSUME LaneInv, NEW a \in Agents, Take(a)
    PROVE  LaneInv'
<1> USE DEF LaneInv
<1>1. Head(queue) \in spawned /\ Tail(queue) \in Seq(spawned)
  BY DEF Take, TypeOK
<1>2. TypeOK'
  BY <1>1 DEF Take, TypeOK
<1>3. HeldJobs'
  BY <1>1 DEF Take, TypeOK, HeldJobs
<1>4. Busy' = Busy /\ Busy # {}
  BY DEF Take, TypeOK, Busy
<1> QED
  BY <1>2, <1>3, <1>4 DEF Take, NotStranded, Limit

\* The one step that gives a place back finds the queue empty as it does so.
LEMMA ExitKeeps ==
    ASSUME LaneInv, NEW a \in Agents, Exit(a)
    PROVE  LaneInv'
<1> USE DEF LaneInv
<1>1. a \in Busy /\ Busy' = Busy \ {a}
  BY DEF Exit, TypeOK, Busy
<1>2. Cardinality(Busy') = Cardinality(Busy) - 1
  BY <1>1, BusyFinite, FS_RemoveElement
<1>3. IsFiniteSet(Busy') /\ Cardinality(Busy') \in Nat
  <2>1. IsFiniteSet(Busy')
    BY <1>1, BusyFinite, FS_RemoveElement
  <2> QED
    BY <2>1, FS_CardinalityType
<1>4. running' = Cardinality(Busy') /\ running' \in Nat /\ running' <= Limit
  BY <1>2, <1>3, LimitPositive DEF Exit, TypeOK
<1>5. TypeOK'
  BY <1>4 DEF Exit, TypeOK
<1>6. HeldJobs' /\ NotStranded'
  BY DEF Exit, TypeOK, HeldJobs, NotStranded
<1> QED
  BY <1>4, <1>5, <1>6 DEF Limit

LEMMA JobEndsKeeps ==
    ASSUME LaneInv, NEW a \in Agents, JobEnds(a, "drain")
    PROVE  LaneInv'
<1> USE DEF LaneInv
<1>1. job[a] \in spawned
  BY DEF JobEnds, HeldJobs
<1>2. TypeOK' /\ HeldJobs'
  BY <1>1 DEF JobEnds, TypeOK, HeldJobs
<1>3. Busy' = Busy
  BY DEF JobEnds, TypeOK, Busy
<1> QED
  BY <1>2, <1>3 DEF JobEnds, NotStranded, Limit

LEMMA LaneStep == LaneInv /\ [Next]_vars => LaneInv'
<1> SUFFICES ASSUME LaneInv, [Next]_vars PROVE LaneInv'
  OBVIOUS
<1>1. CASE UNCHANGED vars
  BY <1>1 DEF vars, LaneInv, TypeOK, HeldJobs, Busy, NotStranded, Limit
<1>2. ASSUME NEW c \in Callers, NEW j \in Jobs, Spawn(c, j) PROVE LaneInv'
  BY <1>2, SpawnKeeps
<1>3. ASSUME NEW a \in Agents, Step(a) PROVE LaneInv'
  <2>1. ASSUME NEW r \in Runners, a \in Callers, StartRunner(a, r) PROVE LaneInv'
    BY <2>1, StartKeeps
  <2>2. ASSUME a \in Callers, StartFails(a) PROVE LaneInv'
    BY <2>2, StartFailsKeeps
  <2>3. CASE Take(a)
    BY <2>3, TakeKeeps
  <2>4. CASE Exit(a)
    BY <2>4, ExitKeeps
  <2>5. CASE Finish(a)
    BY <2>5, JobEndsKeeps DEF Finish
  <2>6. CASE Panic(a)
    BY <2>6, JobEndsKeeps DEF Panic
  <2> QED
    BY <1>3, <2>1, <2>2, <2>3, <2>4, <2>5, <2>6 DEF Step
<1> QED
  BY <1>1, <1>2, <1>3 DEF Next

\* Jobs run inside counted places, so their number is bounded by the count.
LEMMA LaneInvBounds == LaneInv => Bounded
<1> SUFFICES ASSUME LaneInv PROVE Bounded
  OBVIOUS
<1> DEFINE Active == {a \in Agents : state[a] = "run"}
<1>1. Active \subseteq Busy
  BY DEF Busy
<1>2. Cardinality(Active) <= Cardinality(Busy) /\ Cardinality(Active) \in Nat
  <2>1. IsFiniteSet(Active) /\ Cardinality(Active) <= Cardinality(Busy)
    BY <1>1, BusyFinite, FS_Subset
  <2> QED
    BY <2>1, FS_CardinalityType
<1>3. Cardinality(Active) <= Limit
  BY <1>2, BusyFinite, LimitPositive DEF LaneInv
<1> QED
  BY <1>3 DEF Bounded, LaneInv

\* The invariant holds throughout.
LEMMA LaneInvariant == Spec => []LaneInv
  BY LaneStarts, LaneStep, PTL DEF Spec

\* A lane of any width never runs more jobs at once than its width, and its
\* count of runners is exact (lanes.rs:43-75).
THEOREM LaneBounded == Spec => []Bounded
  BY LaneInvariant, LaneInvBounds, PTL

\* While a job waits in a lane of any width, some thread is on its way to it.
THEOREM NoStrandedJob == Spec => []NotStranded
<1>1. LaneInv => NotStranded
  BY DEF LaneInv
<1> QED
  BY <1>1, LaneInvariant, PTL

-----------------------------------------------------------------------------
(* The lane inside the daemon. *)

\* A step of the daemon is one step of its background lane, or none.
LEMMA EngineStepIsLaneStep == [ENext]_all => [Next]_vars
<1> SUFFICES ASSUME [ENext]_all PROVE [Next]_vars
  OBVIOUS
<1> DEFINE Still == UNCHANGED vars
<1>stutter. CASE UNCHANGED all
  BY <1>stutter DEF all
<1>batch. ASSUME NEW b \in B, BatchStep(b) PROVE Still
  BY <1>batch DEF BatchStep, Classify, Return, BeginSweepJob, Enumerate, ReadEntry, Listed
<1>thread. ASSUME NEW b \in B, NEW k \in Threads, ThreadStep(b, k) \/ EndBuild(<<b, k>>) PROVE Still
  BY <1>thread DEF ThreadStep, Claim, Submit, Compress, EndBuild
<1>pool. ASSUME NEW w \in Runners, PoolStep(w) PROVE [Next]_vars
  <2> w \in Agents
    BY DEF Agents
  <2>1. ASSUME NEW c \in Callers, StartLaneRunner(c, w) PROVE Next
    BY <2>1 DEF StartLaneRunner, Next, Step, Agents
  <2>2. CASE BeginJob(w)
    BY <2>2 DEF BeginJob, Next, Step
  <2>3. CASE EndJob(w)
    BY <2>3 DEF EndJob, Next, Step
  <2>4. CASE LeaveLane(w)
    BY <2>4 DEF LeaveLane, Next, Step
  <2>5. ASSUME NEW p \in B, TakePiece(w, p) PROVE Still
    BY <2>5 DEF TakePiece
  <2> QED
    BY <1>pool, <2>1, <2>2, <2>3, <2>4, <2>5 DEF PoolStep
<1>boundary. ASSUME AdmitBackground \/ AdmitEngine \/ Settle \/ Sweep PROVE Still
  BY <1>boundary DEF AdmitBackground, AdmitEngine, Settle, Sweep
<1>arrive. ASSUME NEW b \in B, Arrive(b) \/ Dispatch(b) PROVE [Next]_vars
  <2>1. CASE Arrive(b)
    BY <2>1 DEF Arrive
  <2>2. CASE Dispatch(b)
    BY <2>2, EngineAssumption DEF Dispatch, Next, B
  <2> QED
    BY <1>arrive, <2>1, <2>2
<1>edit. ASSUME NEW e \in DOMAIN Exposes, EditEntry(e) PROVE Still
  BY <1>edit DEF EditEntry
<1> QED
  BY <1>stutter, <1>batch, <1>thread, <1>pool, <1>boundary, <1>arrive, <1>edit DEF ENext, Progress

\* The daemon drives its background lane as a Lane is driven: sweeps and reports
\* are spawned, taken, finished or caught, and nothing else touches it
\* (prefetch.rs and service.rs through lanes.rs).
THEOREM EngineDrivesLane == ESpec => Spec
<1>1. EInit => Init
  BY DEF EInit
<1> QED
  BY <1>1, EngineStepIsLaneStep, PTL DEF ESpec, Spec

\* So the daemon never runs more background jobs at once than the lane is wide,
\* whatever else its pool does (lanes.rs:3-5).
THEOREM BackgroundBounded == ESpec => [](Bounded /\ NotStranded)
  BY EngineDrivesLane, LaneBounded, NoStrandedJob, PTL

-----------------------------------------------------------------------------
(* The two-permit boundary. *)
Tokens == B \X Threads

BoundaryTypes == bgq \in Seq(Tokens) /\ q \in Seq(Tokens)

\* Prewarm builds past the background semaphore leave one permit out.
PrewarmBounded ==
    IsFiniteSet(BackgroundHolders) /\ Cardinality(BackgroundHolders) <= Permits - 1

\* The engine's own semaphore.
EngineBounded == IsFiniteSet(inside) /\ Cardinality(inside) <= Permits

BoundaryInv == BoundaryTypes /\ PrewarmBounded /\ EngineBounded

\* Steps that leave the plan and the boundary alone.
Elsewhere == UNCHANGED <<plan, bgq, q, inside>>

\* They keep the invariant.
LEMMA ElsewhereKeeps == BoundaryInv /\ Elsewhere => BoundaryInv'
  <1> SUFFICES ASSUME BoundaryInv, Elsewhere PROVE BoundaryInv'
    OBVIOUS
  <1>1. plan' = plan /\ bgq' = bgq /\ q' = q /\ inside' = inside
    BY DEF Elsewhere
  <1>2. BackgroundHolders' = BackgroundHolders
    BY <1>1 DEF BackgroundHolders, Holding, is_background, Sweeps, Live, Kind
  <1> QED BY <1>1, <1>2 DEF BoundaryInv, BoundaryTypes, PrewarmBounded, EngineBounded

\* While the plan stands, what is background stays so.
LEMMA MarksStay ==
    ASSUME plan' = plan
    PROVE  Sweeps' = Sweeps
  BY DEF Sweeps, Live, Kind

\* Fewer holders, no more of them background.
LEMMA FewerHolders ==
    ASSUME PrewarmBounded, plan' = plan, Holding' \subseteq Holding
    PROVE  PrewarmBounded'
  <1>1. BackgroundHolders' \subseteq BackgroundHolders
    BY MarksStay DEF BackgroundHolders, is_background
  <1>2. IsFiniteSet(BackgroundHolders') /\ Cardinality(BackgroundHolders') <= Cardinality(BackgroundHolders)
    BY <1>1, FS_Subset DEF PrewarmBounded
  <1>3. Cardinality(BackgroundHolders) \in Nat /\ Cardinality(BackgroundHolders') \in Nat
    BY <1>2, FS_CardinalityType DEF PrewarmBounded
  <1> QED BY <1>2, <1>3, EngineAssumption DEF PrewarmBounded

\* What is in a queue after one has joined it.
LEMMA QueueGrows ==
    ASSUME NEW s \in Seq(Tokens), NEW t \in Tokens
    PROVE  /\ Append(s, t) \in Seq(Tokens)
           /\ {Append(s, t)[i] : i \in DOMAIN Append(s, t)} = {s[i] : i \in DOMAIN s} \cup {t}
  <1>1. Append(s, t) \in Seq(Tokens) /\ Len(Append(s, t)) = Len(s) + 1
    OBVIOUS
  <1>2. \A i \in 1..Len(s) : Append(s, t)[i] = s[i]
    OBVIOUS
  <1>3. Append(s, t)[Len(s) + 1] = t
    OBVIOUS
  <1>4. DOMAIN Append(s, t) = 1..(Len(s) + 1) /\ DOMAIN s = 1..Len(s) /\ Len(s) \in Nat
    BY <1>1
  <1> QED BY <1>1, <1>2, <1>3, <1>4

\* What is in a queue after its head has left.
LEMMA QueueShrinks ==
    ASSUME NEW s \in Seq(Tokens), s # <<>>
    PROVE  /\ Head(s) \in Tokens /\ Tail(s) \in Seq(Tokens)
           /\ Head(s) \in {s[i] : i \in DOMAIN s}
           /\ {Tail(s)[i] : i \in DOMAIN Tail(s)} \subseteq {s[i] : i \in DOMAIN s}
  <1>1. Len(s) \in Nat \ {0} /\ DOMAIN s = 1..Len(s)
    BY EmptySeq
  <1>2. Head(s) = s[1] /\ 1 \in DOMAIN s
    BY <1>1
  <1>3. Tail(s) \in Seq(Tokens) /\ Len(Tail(s)) = Len(s) - 1
    OBVIOUS
  <1>4. \A i \in 1..(Len(s) - 1) : Tail(s)[i] = s[i + 1] /\ i + 1 \in DOMAIN s
    BY <1>1
  <1>5. DOMAIN Tail(s) = 1..(Len(s) - 1)
    BY <1>1, <1>3
  <1>6. s[1] \in Tokens
    BY <1>2
  <1> QED BY <1>2, <1>3, <1>4, <1>5, <1>6

\* A build that queues: a background one is not yet past its semaphore, another
\* is not background.
LEMMA SubmitKeeps ==
    ASSUME BoundaryInv, NEW b \in B, NEW k \in Threads, Submit(b, k)
    PROVE  BoundaryInv'
  <1>0. plan' = plan /\ inside' = inside /\ <<b, k>> \in Tokens
    BY DEF Submit, Tokens
  <1>1. CASE is_background(b)
    <2>1. bgq' = Append(bgq, <<b, k>>) /\ q' = q
      BY <1>1 DEF Submit
    <2>2. Holding' = Holding
      BY <1>0, <2>1 DEF Holding
    <2>3. BoundaryTypes'
      BY <1>0, <2>1, QueueGrows DEF BoundaryInv, BoundaryTypes
    <2> QED BY <1>0, <2>2, <2>3, FewerHolders DEF BoundaryInv, EngineBounded
  <1>2. CASE ~is_background(b)
    <2>1. q' = Append(q, <<b, k>>) /\ bgq' = bgq
      BY <1>2 DEF Submit
    <2>2. q \in Seq(Tokens)
      BY DEF BoundaryInv, BoundaryTypes
    <2>3. /\ q' \in Seq(Tokens)
          /\ {q'[i] : i \in DOMAIN q'} = {q[i] : i \in DOMAIN q} \cup {<<b, k>>}
      BY <1>0, <2>1, <2>2, QueueGrows
    <2>4. Holding' = Holding \cup {<<b, k>>}
      BY <1>0, <2>3 DEF Holding
    <2>5. BackgroundHolders' = BackgroundHolders
      BY <1>0, <1>2, <2>4, MarksStay DEF BackgroundHolders, is_background
    <2> QED BY <1>0, <2>1, <2>3, <2>5
            DEF BoundaryInv, BoundaryTypes, PrewarmBounded, EngineBounded
  <1> QED BY <1>1, <1>2

\* The background semaphore lets one more in only below its limit.
LEMMA AdmitBackgroundKeeps == BoundaryInv /\ AdmitBackground => BoundaryInv'
  <1> SUFFICES ASSUME BoundaryInv, AdmitBackground PROVE BoundaryInv'
    OBVIOUS
  <1>1. /\ plan' = plan /\ inside' = inside /\ bgq # <<>>
        /\ q' = Append(q, Head(bgq)) /\ bgq' = Tail(bgq)
        /\ Cardinality(BackgroundHolders) < Permits - 1
    BY DEF AdmitBackground
  <1>2. bgq \in Seq(Tokens) /\ q \in Seq(Tokens)
    BY DEF BoundaryInv, BoundaryTypes
  <1>3. Head(bgq) \in Tokens /\ bgq' \in Seq(Tokens)
    BY <1>1, <1>2, QueueShrinks
  <1>4. /\ q' \in Seq(Tokens)
        /\ {q'[i] : i \in DOMAIN q'} = {q[i] : i \in DOMAIN q} \cup {Head(bgq)}
    <2> DEFINE first == Head(bgq)
    <2>1. q' = Append(q, first) /\ first \in Tokens
      BY <1>1, <1>3
    <2> HIDE DEF first
    <2>2. /\ q' \in Seq(Tokens)
          /\ {q'[i] : i \in DOMAIN q'} = {q[i] : i \in DOMAIN q} \cup {first}
      BY <1>2, <2>1, QueueGrows, SMTT(40)
    <2> QED BY <2>2 DEF first
  <1>5. Holding' = Holding \cup {Head(bgq)}
    BY <1>1, <1>4 DEF Holding
  <1>6. BackgroundHolders' \subseteq BackgroundHolders \cup {Head(bgq)}
    BY <1>1, <1>5, MarksStay DEF BackgroundHolders, is_background
  <1> DEFINE more == BackgroundHolders \cup {Head(bgq)}
  <1>7. IsFiniteSet(BackgroundHolders) /\ Cardinality(BackgroundHolders) \in Nat
    BY FS_CardinalityType DEF BoundaryInv, PrewarmBounded
  <1>8. IsFiniteSet(more) /\ Cardinality(more) <= Cardinality(BackgroundHolders) + 1
    BY <1>7, FS_AddElement
  <1>9. IsFiniteSet(BackgroundHolders') /\ Cardinality(BackgroundHolders') <= Cardinality(more)
    BY <1>6, <1>8, FS_Subset
  <1>10. Cardinality(more) \in Nat /\ Cardinality(BackgroundHolders') \in Nat
    BY <1>8, <1>9, FS_CardinalityType
  <1>11. PrewarmBounded'
    <2> HIDE DEF more
    <2> QED BY <1>1, <1>7, <1>8, <1>9, <1>10, EngineAssumption DEF PrewarmBounded
  <1> QED BY <1>1, <1>3, <1>4, <1>11 DEF BoundaryInv, BoundaryTypes, EngineBounded

\* Who is admitted to the engine moves from the queue, and was counted there.
LEMMA AdmitEngineKeeps == BoundaryInv /\ AdmitEngine => BoundaryInv'
  <1> SUFFICES ASSUME BoundaryInv, AdmitEngine PROVE BoundaryInv'
    OBVIOUS
  <1>1. /\ plan' = plan /\ bgq' = bgq /\ q # <<>> /\ Cardinality(inside) < Permits
        /\ inside' = inside \cup {Head(q)} /\ q' = Tail(q)
    BY DEF AdmitEngine
  <1>2. q \in Seq(Tokens)
    BY DEF BoundaryInv, BoundaryTypes
  <1>3. /\ q' \in Seq(Tokens) /\ Head(q) \in {q[i] : i \in DOMAIN q}
        /\ {q'[i] : i \in DOMAIN q'} \subseteq {q[i] : i \in DOMAIN q}
    BY <1>1, <1>2, QueueShrinks
  <1>4. Holding' \subseteq Holding
    BY <1>1, <1>3 DEF Holding
  <1>5. IsFiniteSet(inside) /\ Cardinality(inside) \in Nat
    BY FS_CardinalityType DEF BoundaryInv, EngineBounded
  <1>6. EngineBounded'
    <2> DEFINE first == Head(q)
    <2>1. inside' = inside \cup {first} /\ Cardinality(inside) < Permits
      BY <1>1
    <2> HIDE DEF first
    <2>2. IsFiniteSet(inside') /\ Cardinality(inside') <= Cardinality(inside) + 1
      BY <1>5, <2>1, FS_AddElement
    <2>3. Cardinality(inside') \in Nat
      BY <2>2, FS_CardinalityType
    <2> QED BY <1>5, <2>1, <2>2, <2>3, EngineAssumption DEF EngineBounded
  <1> QED BY <1>1, <1>3, <1>4, <1>6, FewerHolders DEF BoundaryInv, BoundaryTypes

\* A build that ends, however it does, gives its permits back.
LEMMA EndBuildKeeps ==
    ASSUME BoundaryInv, NEW t, EndBuild(t)
    PROVE  BoundaryInv'
  <1>1. plan' = plan /\ bgq' = bgq /\ q' = q /\ inside' = inside \ {t}
    BY DEF EndBuild
  <1>2. Holding' \subseteq Holding
    BY <1>1 DEF Holding
  <1>3. inside' \subseteq inside
    BY <1>1
  <1>4. IsFiniteSet(inside') /\ Cardinality(inside') <= Cardinality(inside)
    BY <1>3, FS_Subset DEF BoundaryInv, EngineBounded
  <1>5. Cardinality(inside) \in Nat /\ Cardinality(inside') \in Nat
    BY <1>4, FS_CardinalityType DEF BoundaryInv, EngineBounded
  <1>6. EngineBounded'
    BY <1>4, <1>5, EngineAssumption DEF BoundaryInv, EngineBounded
  <1> QED BY <1>1, <1>2, <1>6, FewerHolders DEF BoundaryInv, BoundaryTypes

\* Every step of the daemon, and everything that arrives, keeps the invariant.
LEMMA BoundaryStep == BoundaryInv /\ [ENext]_all => BoundaryInv'
  <1> SUFFICES ASSUME BoundaryInv, [ENext]_all PROVE BoundaryInv'
    OBVIOUS
  <1>stutter. CASE UNCHANGED all
    BY <1>stutter, ElsewhereKeeps DEF all, evars, Elsewhere
  <1>batch. ASSUME NEW b \in B, BatchStep(b) PROVE BoundaryInv'
    <2>1. CASE Classify(b)
      BY <2>1, ElsewhereKeeps DEF Classify, permit_, Elsewhere
    <2>2. CASE Return(b)
      BY <2>2, ElsewhereKeeps DEF Return, permit_, Elsewhere
    <2>3. CASE BeginSweepJob(b)
      BY <2>3, ElsewhereKeeps DEF BeginSweepJob, permit_, Elsewhere
    <2>4. CASE Enumerate(b)
      BY <2>4, ElsewhereKeeps DEF Enumerate, permit_, Elsewhere
    <2>5. CASE ReadEntry(b)
      BY <2>5, ElsewhereKeeps DEF ReadEntry, permit_, Elsewhere
    <2>6. CASE Listed(b)
      BY <2>6, ElsewhereKeeps DEF Listed, permit_, Elsewhere
    <2> QED BY <1>batch, <2>1, <2>2, <2>3, <2>4, <2>5, <2>6 DEF BatchStep
  <1>thread. ASSUME NEW b \in B, NEW k \in Threads, ThreadStep(b, k) PROVE BoundaryInv'
    <2>1. CASE Claim(b, k)
      BY <2>1, ElsewhereKeeps DEF Claim, permit_, Elsewhere
    <2>2. CASE Submit(b, k)
      BY <2>2, SubmitKeeps
    <2>3. CASE Compress(b, k)
      BY <2>3, ElsewhereKeeps DEF Compress, permit_, Elsewhere
    <2> QED BY <1>thread, <2>1, <2>2, <2>3 DEF ThreadStep
  <1>pool. ASSUME NEW w \in Runners, PoolStep(w) PROVE BoundaryInv'
    <2>1. ASSUME NEW c \in Callers, StartLaneRunner(c, w) PROVE BoundaryInv'
      BY <2>1, ElsewhereKeeps DEF StartLaneRunner, evars, Elsewhere
    <2>2. CASE BeginJob(w)
      BY <2>2, ElsewhereKeeps DEF BeginJob, permit_, Elsewhere
    <2>3. CASE EndJob(w)
      BY <2>3, ElsewhereKeeps DEF EndJob, permit_, Elsewhere
    <2>4. CASE LeaveLane(w)
      BY <2>4, ElsewhereKeeps DEF LeaveLane, evars, Elsewhere
    <2>5. ASSUME NEW p \in B, TakePiece(w, p) PROVE BoundaryInv'
      BY <2>5, ElsewhereKeeps DEF TakePiece, permit_, Elsewhere
    <2> QED BY <1>pool, <2>1, <2>2, <2>3, <2>4, <2>5 DEF PoolStep
  <1>reclaim. CASE Settle \/ Sweep
    BY <1>reclaim, ElsewhereKeeps DEF Settle, Sweep, permit_, Elsewhere
  <1>arrive. ASSUME NEW b \in B, Arrive(b) \/ Dispatch(b) PROVE BoundaryInv'
    <2>1. CASE Arrive(b)
      BY <2>1, ElsewhereKeeps DEF Arrive, permit_, Elsewhere
    <2>2. CASE Dispatch(b)
      BY <2>2, ElsewhereKeeps DEF Dispatch, permit_, Elsewhere
    <2> QED BY <1>arrive, <2>1, <2>2
  <1>edit. ASSUME NEW e \in DOMAIN Exposes, EditEntry(e) PROVE BoundaryInv'
    BY <1>edit, ElsewhereKeeps DEF EditEntry, permit_, Elsewhere
  <1>progress. ASSUME Progress PROVE BoundaryInv'
    BY <1>progress, <1>batch, <1>thread, <1>pool, <1>reclaim, EndBuildKeeps,
       AdmitBackgroundKeeps, AdmitEngineKeeps DEF Progress
  <1> QED BY <1>stutter, <1>progress, <1>arrive, <1>edit DEF ENext

\* Nobody is at the boundary at first.
LEMMA BoundaryStarts == EInit => BoundaryInv
  <1> SUFFICES ASSUME EInit PROVE BoundaryInv
    OBVIOUS
  <1>1. bgq = <<>> /\ q = <<>> /\ inside = {}
    BY DEF EInit
  <1>2. Holding = {} /\ BackgroundHolders = {}
    BY <1>1 DEF Holding, BackgroundHolders
  <1> QED BY <1>1, <1>2, FS_EmptySet, EngineAssumption
          DEF BoundaryInv, BoundaryTypes, PrewarmBounded, EngineBounded

\* However many sweeps and drain threads there are, a user's build that waits for
\* the engine never has prewarm builds on or ahead of it for every permit
\* (engine/boundary.rs, with_permit: the background permit is taken first).
THEOREM PermitLeftForUser == ESpec => []PermitLeft
  <1>1. BoundaryInv => PermitLeft
    <2> SUFFICES ASSUME BoundaryInv, NEW i \in DOMAIN q
                 PROVE  Cardinality({t \in inside \cup {q[j] : j \in 1..i} : Prewarm(t)}) < Permits
      BY DEF PermitLeft
    <2> DEFINE ahead == {t \in inside \cup {q[j] : j \in 1..i} : Prewarm(t)}
    <2>1. \A j \in 1..i : j \in DOMAIN q
      BY DEF BoundaryInv, BoundaryTypes
    <2>2. ahead \subseteq BackgroundHolders
      BY <2>1 DEF BackgroundHolders, Holding, is_background, Prewarm
    <2>3. IsFiniteSet(ahead) /\ Cardinality(ahead) <= Cardinality(BackgroundHolders)
      BY <2>2, FS_Subset DEF BoundaryInv, PrewarmBounded
    <2>4. Cardinality(ahead) \in Nat /\ Cardinality(BackgroundHolders) \in Nat
      BY <2>3, FS_CardinalityType DEF BoundaryInv, PrewarmBounded
    <2> HIDE DEF ahead
    <2>5. Cardinality(ahead) < Permits
      BY <2>3, <2>4, EngineAssumption DEF BoundaryInv, PrewarmBounded
    <2> QED BY <2>5 DEF ahead
  <1> QED BY <1>1, BoundaryStarts, BoundaryStep, PTL DEF ESpec

\* The bundler never runs more builds at once than it has permits, though builds
\* panic and hang (engine/boundary.rs, PERMITS).
THEOREM BuildsBounded == ESpec => []EngineBounded
  <1>1. BoundaryInv => EngineBounded
    BY DEF BoundaryInv
  <1> QED BY <1>1, BoundaryStarts, BoundaryStep, PTL DEF ESpec
=============================================================================
