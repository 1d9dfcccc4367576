----------------------------- MODULE Connection -----------------------------
(***************************************************************************)
(* One client connection of the daemon (src/daemon/src/ipc/server.rs):     *)
(* the select loop that reads frames, hands each request to a task and     *)
(* writes what the tasks queue; the invalidation barrier; the per-document *)
(* cancellation of streamed builds; the idle recycle; and the teardown     *)
(* that cancels, joins under a deadline, flushes and drains.               *)
(*                                                                         *)
(* The pipe is reliable and FIFO, so the client is modelled by letting the *)
(* loop read any message it has not read yet.  A message carries its kind  *)
(* and the documents it names:                                             *)
(*   hello, badhello    the handshake, or one of an unsupported version    *)
(*   analyze            AnalyzeDocument: a reply, then pushes              *)
(*   stream             AnalyzePackageJson, streaming: partials, a reply   *)
(*   request            the other requests that count as activity          *)
(*                      (specifiers, exports, completion, report)          *)
(*   query, remove      CacheStatus and CacheList; CacheRemove             *)
(*   invalidate         CacheInvalidate, CacheInvalidateAll,               *)
(*                      NodeModulesChanged with a non-empty batch          *)
(*   visible, prewarm   VisibleDocuments, PrewarmPackageJson               *)
(*   garbled, shutdown  an undecodable frame; Shutdown                     *)
(* Size reads and registry refreshes have modules of their own.  What a    *)
(* handler computes is left out, its cache writes are the set `unflushed'. *)
(***************************************************************************)
EXTENDS Naturals, Sequences, FiniteSets

CONSTANTS
    Sessions,   \* sets of messages; a client sends those of one of them
    Parked,     \* messages whose handler may not return while the connection lasts
    MaxPush,    \* bound on the pushes (or partials) of one task
    None        \* no message

\* Records [id, kind, docs]; each is sent at most once.
Messages == UNION Sessions

Kinds == {"hello", "badhello", "analyze", "stream", "request", "query",
          "remove", "invalidate", "visible", "prewarm", "garbled", "shutdown"}

ASSUME ConnectionAssumption ==
    /\ \A m \in Messages : m.kind \in Kinds /\ IsFiniteSet(m.docs)
    /\ \A m \in Messages : m.kind = "analyze" => Cardinality(m.docs) = 1
    \* The client sends its handshake once (nativeTransport.ts:298).
    /\ \A s \in Sessions : \A m, n \in s :
           {m.kind, n.kind} \subseteq {"hello", "badhello"} => m = n
    /\ MaxPush \in Nat
    /\ None \notin Messages

VARIABLES
    session,    \* what this connection's client sends
    pc,         \* where handle_connection is
    why,        \* what ended the connection
    hello,      \* hello_received
    task,       \* per message: "none", "run", "pending", "emit" or "done"
    pushes,     \* per message: frames it streamed so far
    active,     \* active_tasks: the handles the connection keeps
    abandoned,  \* tasks the final join gave up on
    stream,     \* document_stream: the analysis registered per document
    superseded, \* analyses whose flag is set
    inv,        \* the invalidation the loop waits for
    outbound,   \* the outbound channel
    wire,       \* frames written to the socket
    unflushed,  \* tasks whose cache writes no flush has reached
    prewarm,    \* some prewarm job's generation is current
    idle,       \* up for more than 4 h and no batch in the last 15 min
    maint       \* the maintenance pass: "none", "scheduled", "running", "over"

conn == <<pc, why, hello>>
tasks == <<task, pushes, unflushed>>
books == <<active, abandoned, stream, superseded, inv>>
frames == <<outbound, wire>>
others == <<prewarm, idle, maint>>
vars == <<session, conn, tasks, books, frames, others>>

Docs == UNION {m.docs : m \in Messages}
Of(kinds) == {m \in Messages : m.kind \in kinds}

Requests == Of({"analyze", "stream", "request", "query", "remove"})
Invalidations == Of({"invalidate"})

\* record_batch, and prefetcher.cancel, in the arms of the match.
CountsAsActivity == {"analyze", "stream", "request"}
CancelsPrewarm == CountsAsActivity \cup {"remove", "invalidate"}

Frame(m, kind) == [msg |-> m, kind |-> kind]

Init ==
    /\ session \in Sessions
    /\ pc = "loop" /\ why = "open" /\ hello = FALSE
    /\ task = [m \in Messages |-> "none"]
    /\ pushes = [m \in Messages |-> 0]
    /\ active = {} /\ abandoned = {} /\ superseded = {} /\ unflushed = {}
    /\ stream = [d \in Docs |-> None]
    /\ inv = None
    /\ outbound = <<>> /\ wire = <<>>
    /\ prewarm = FALSE /\ idle = FALSE /\ maint = "none"

Finished(t) == task[t] = "done"

\* reap_finished_tasks.
Reap(set) == {t \in set : ~Finished(t)}

-----------------------------------------------------------------------------
(* Reading a frame. *)

\* Mutant. The frame arm without its guard on the pending invalidation.
ReadableAlways(m) == m \in session /\ pc = "loop" /\ task[m] = "none"

\* framed.next() is polled only while no invalidation is pending.
Readable(m) ==
    m \in session /\ pc = "loop" /\ inv = None /\ task[m] = "none"

\* What every arm does to the prefetcher and the idle timer.
Bookkeeping(m) ==
    /\ prewarm' = (prewarm /\ m.kind \notin CancelsPrewarm)
    /\ idle' = (idle /\ m.kind \notin CountsAsActivity)
    /\ UNCHANGED maint

\* track_active_task.
Track(m) == active' = Reap(active) \cup {m}

\* DocumentTaskLifecycle::start_document.
StartDocument(m) ==
    /\ stream' = [d \in Docs |-> IF d \in m.docs THEN m ELSE stream[d]]
    /\ superseded' = superseded \cup ({stream[d] : d \in m.docs} \ {None})

\* A request after the handshake: its handler runs as a tracked task.
Dispatch(m) ==
    /\ m \in Requests
    /\ Readable(m)
    /\ hello
    /\ task' = [task EXCEPT ![m] = "run"]
    /\ Track(m)
    /\ IF m.kind = "analyze" THEN StartDocument(m)
       ELSE UNCHANGED <<stream, superseded>>
    /\ Bookkeeping(m)
    /\ UNCHANGED <<conn, pushes, unflushed, abandoned, inv, frames>>

\* Before the handshake it is answered with a protocol error at once.
Refuse(m) ==
    /\ m \in Requests
    /\ Readable(m)
    /\ ~hello
    /\ task' = [task EXCEPT ![m] = "done"]
    /\ outbound' = Append(outbound, Frame(m, "reply"))
    /\ UNCHANGED <<conn, pushes, unflushed, books, wire, others>>

\* spawn_invalidation; without a handshake the message is ignored.
Invalidate(m) ==
    /\ m \in Invalidations
    /\ Readable(m)
    /\ IF hello
       THEN /\ task' = [task EXCEPT ![m] = "run"]
            /\ inv' = m
            /\ Track(m)
            /\ Bookkeeping(m)
       ELSE /\ task' = [task EXCEPT ![m] = "done"]
            /\ UNCHANGED <<inv, active, others>>
    /\ UNCHANGED <<conn, pushes, unflushed, abandoned, stream, superseded, frames>>

\* retain_visible on the streamed builds.
Visible(m) ==
    /\ m.kind = "visible"
    /\ Readable(m)
    /\ task' = [task EXCEPT ![m] = "done"]
    /\ IF hello
       THEN LET hidden == Docs \ m.docs
            IN  /\ superseded' = superseded \cup ({stream[d] : d \in hidden} \ {None})
                /\ stream' = [d \in Docs |-> IF d \in hidden THEN None ELSE stream[d]]
       ELSE UNCHANGED <<superseded, stream>>
    /\ UNCHANGED <<conn, pushes, unflushed, active, abandoned, inv, frames, others>>

\* A prewarm takes over the prefetcher's generation; a garbled frame is skipped.
PrewarmOrSkip(m) ==
    /\ m.kind \in {"prewarm", "garbled"}
    /\ Readable(m)
    /\ task' = [task EXCEPT ![m] = "done"]
    /\ prewarm' = (prewarm \/ (m.kind = "prewarm" /\ hello))
    /\ UNCHANGED <<conn, pushes, unflushed, books, frames, idle, maint>>

\* The handshake: a fresh service, its maintenance pass, its recent prewarm,
\* and then the recycle check.
Hello(m) ==
    /\ m.kind = "hello"
    /\ Readable(m)
    /\ task' = [task EXCEPT ![m] = "done"]
    /\ hello' = TRUE
    /\ maint' = "scheduled"
    /\ prewarm' = TRUE
    /\ pc' = "check"
    /\ UNCHANGED <<why, pushes, unflushed, books, frames, idle>>

\* An unsupported version ends the connection on the spot.
RefuseHello(m) ==
    /\ m.kind = "badhello"
    /\ Readable(m)
    /\ task' = [task EXCEPT ![m] = "done"]
    /\ pc' = "closed"
    /\ why' = "refused"
    /\ UNCHANGED <<hello, pushes, unflushed, books, frames, others>>

-----------------------------------------------------------------------------
(* The tasks. *)

\* A streaming handler hands on a partial result.
Partial(m) ==
    /\ m.kind = "stream"
    /\ task[m] = "run"
    /\ pushes[m] < MaxPush
    /\ pushes' = [pushes EXCEPT ![m] = @ + 1]
    /\ outbound' = Append(outbound, Frame(m, "partial"))
    /\ UNCHANGED <<conn, task, unflushed, books, wire, others>>

\* The handler returns and its response is queued (or, unencodable, the
\* fallback is).  An analysis goes on to the imports it left pending.
Answer(m) ==
    /\ m \in Requests
    /\ task[m] = "run"
    /\ outbound' = Append(outbound, Frame(m, "reply"))
    /\ \/ task' = [task EXCEPT ![m] = "done"]
       \/ m.kind = "analyze" /\ task' = [task EXCEPT ![m] = "pending"]
    /\ unflushed' = unflushed \cup {m}
    /\ UNCHANGED <<conn, pushes, books, wire, others>>

\* response_from_join: a handler that panicked is answered with an error.
Panic(m) ==
    /\ m \in Requests
    /\ task[m] = "run"
    /\ outbound' = Append(outbound, Frame(m, "reply"))
    /\ task' = [task EXCEPT ![m] = "done"]
    /\ UNCHANGED <<conn, pushes, unflushed, books, wire, others>>

\* One turn of complete_pending_imports: the flag is read before the build,
\* the build caches its result, and the flag is read again before the push.
Build(m) ==
    /\ task[m] = "pending"
    /\ IF m \in superseded
       THEN task' = [task EXCEPT ![m] = "done"] /\ UNCHANGED unflushed
       ELSE /\ task' = [task EXCEPT ![m] = "built"]
            /\ unflushed' = unflushed \cup {m}
    /\ UNCHANGED <<conn, pushes, books, frames, others>>

Recheck(m) ==
    /\ task[m] = "built"
    /\ task' = [task EXCEPT ![m] = IF m \in superseded THEN "done" ELSE "emit"]
    /\ UNCHANGED <<conn, pushes, unflushed, books, frames, others>>

\* The push; the next import, the closing correction, or nothing is left.
Push(m) ==
    /\ task[m] = "emit"
    /\ outbound' = Append(outbound, Frame(m, "push"))
    /\ pushes' = [pushes EXCEPT ![m] = @ + 1]
    /\ \/ task' = [task EXCEPT ![m] = "done"]
       \/ pushes[m] + 1 < MaxPush /\ task' = [task EXCEPT ![m] = "pending"]
    /\ UNCHANGED <<conn, unflushed, books, wire, others>>

\* The invalidation has run, or panicked; its receiver settles.
Invalidated(m) ==
    /\ m \in Invalidations
    /\ task[m] = "run"
    /\ task' = [task EXCEPT ![m] = "done"]
    /\ UNCHANGED <<conn, pushes, unflushed, books, frames, others>>

TaskStep(m) ==
    \/ Partial(m) \/ Answer(m) \/ Panic(m)
    \/ Build(m) \/ Recheck(m) \/ Push(m)

-----------------------------------------------------------------------------
(* The other arms of the loop. *)

BarrierLifts ==
    /\ pc = "loop"
    /\ inv # None /\ Finished(inv)
    /\ inv' = None
    /\ UNCHANGED <<conn, tasks, active, abandoned, stream, superseded, frames, others>>

Write ==
    /\ pc = "loop"
    /\ outbound # <<>>
    /\ wire' = Append(wire, Head(outbound))
    /\ outbound' = Tail(outbound)
    /\ UNCHANGED <<conn, tasks, books, others>>

\* The 60 s timer, which any other arm restarts, so it fires with nothing to
\* write; with no recycle due it changes nothing.
Timer ==
    /\ pc = "loop"
    /\ idle
    /\ outbound = <<>>
    /\ inv # None => ~Finished(inv)
    /\ pc' = "check"
    /\ UNCHANGED <<why, hello, tasks, books, frames, others>>

\* Four hours up and a quarter of an hour without a batch.
GoIdle ==
    /\ pc = "loop"
    /\ ~idle
    /\ idle' = TRUE
    /\ UNCHANGED <<conn, tasks, books, frames, prewarm, maint>>

\* A minute after the handshake.
MaintenanceStarts ==
    /\ pc \notin {"check", "closed"}
    /\ maint = "scheduled"
    /\ maint' = "running"
    /\ UNCHANGED <<conn, tasks, books, frames, prewarm, idle>>

MaintenanceEnds ==
    /\ pc # "closed"
    /\ maint = "running"
    /\ maint' = "over"
    /\ UNCHANGED <<conn, tasks, books, frames, prewarm, idle>>

\* AbortOnDrop stops a pass that has not begun; a running one is on the
\* blocking pool, out of its reach.
AbortMaintenance == maint' = IF maint = "scheduled" THEN "over" ELSE maint

(* recycle_if_needed. *)
NotDue ==
    /\ pc = "check"
    /\ ~idle
    /\ pc' = "loop"
    /\ UNCHANGED <<why, hello, tasks, books, frames, others>>

Defer ==
    /\ pc = "check"
    /\ idle
    /\ Reap(active) # {}
    /\ active' = Reap(active)
    /\ prewarm' = FALSE
    /\ pc' = "wait"
    /\ UNCHANGED <<why, hello, tasks, abandoned, stream, superseded, inv, frames, idle, maint>>

\* The bounded join of a deferred recycle, then back to the loop.
Resume ==
    /\ pc = "wait"
    /\ active' = Reap(active)
    /\ pc' = "loop"
    /\ UNCHANGED <<why, hello, tasks, abandoned, stream, superseded, inv, frames, others>>

Recycle ==
    /\ pc = "check"
    /\ idle
    /\ Reap(active) = {}
    /\ active' = {}
    /\ prewarm' = FALSE
    /\ AbortMaintenance
    /\ pc' = "flush"
    /\ why' = "recycle"
    /\ UNCHANGED <<hello, tasks, abandoned, stream, superseded, inv, frames, idle>>

-----------------------------------------------------------------------------
(* close_connection. *)

\* Cancel everything that can be cancelled.
BeginClose(reason) ==
    /\ AbortMaintenance
    /\ prewarm' = FALSE
    /\ superseded' = superseded \cup ({stream[d] : d \in Docs} \ {None})
    /\ pc' = "settle"
    /\ why' = reason
    /\ UNCHANGED <<hello, pushes, unflushed, active, abandoned, stream, inv, frames, idle>>

Shutdown(m) ==
    /\ m.kind = "shutdown"
    /\ Readable(m)
    /\ task' = [task EXCEPT ![m] = "done"]
    /\ BeginClose("shutdown")

Eof ==
    /\ pc = "loop"
    /\ inv = None
    /\ UNCHANGED task
    /\ BeginClose("eof")

SendFails ==
    /\ pc = "loop"
    /\ outbound # <<>>
    /\ UNCHANGED task
    /\ BeginClose("lost")

\* Mutant. The pending invalidation is left to the bounded join.
SettleAtOnce ==
    /\ pc = "settle"
    /\ pc' = "join"
    /\ UNCHANGED <<why, hello, tasks, books, frames, others>>

\* invalidation_settled, without a bound.
Settle ==
    /\ pc = "settle"
    /\ inv # None => Finished(inv)
    /\ pc' = "join"
    /\ UNCHANGED <<why, hello, tasks, books, frames, others>>

\* Mutant. The flush does not wait for the tasks, finished soon or not.
JoinSkipped ==
    /\ pc = "join"
    /\ active' = {}
    /\ pc' = "flush"
    /\ UNCHANGED <<why, hello, tasks, abandoned, stream, superseded, inv, frames, others>>

\* wait_for_active_tasks: all handles finish, or the deadline passes.
Joined ==
    /\ pc = "join"
    /\ Reap(active) = {}
    /\ active' = {}
    /\ pc' = "flush"
    /\ UNCHANGED <<why, hello, tasks, abandoned, stream, superseded, inv, frames, others>>

\* Mutant. A join without a deadline.
NoDeadline == FALSE /\ UNCHANGED vars

Deadline ==
    /\ pc = "join"
    /\ Reap(active) # {}
    /\ active' = Reap(active)
    /\ abandoned' = Reap(active)
    /\ pc' = "flush"
    /\ UNCHANGED <<why, hello, tasks, stream, superseded, inv, frames, others>>

\* Mutant. The connection returns right after the flush.
FlushAndReturn ==
    /\ pc = "flush"
    /\ unflushed' = {}
    /\ pc' = "closed"
    /\ UNCHANGED <<why, hello, task, pushes, books, frames, others>>

\* flush_cache; only a client that is still there gets the rest of its frames.
Flush ==
    /\ pc = "flush"
    /\ unflushed' = {}
    /\ pc' = IF why \in {"shutdown", "recycle"} THEN "drain" ELSE "closed"
    /\ UNCHANGED <<why, hello, task, pushes, books, frames, others>>

\* drain_outbound: until the channel is empty or the socket fails.
DrainFrame ==
    /\ pc = "drain"
    /\ outbound # <<>>
    /\ wire' = Append(wire, Head(outbound))
    /\ outbound' = Tail(outbound)
    /\ UNCHANGED <<conn, tasks, books, others>>

Drained ==
    /\ pc = "drain"
    /\ outbound = <<>>
    /\ pc' = "closed"
    /\ UNCHANGED <<why, hello, tasks, books, frames, others>>

DrainFails ==
    /\ pc = "drain"
    /\ outbound # <<>>
    /\ pc' = "closed"
    /\ why' = "lost"
    /\ UNCHANGED <<hello, tasks, books, frames, others>>

-----------------------------------------------------------------------------
Read(m) ==
    \/ Dispatch(m) \/ Refuse(m) \/ Invalidate(m) \/ Visible(m) \/ PrewarmOrSkip(m)
    \/ Hello(m) \/ RefuseHello(m) \/ Shutdown(m)

\* What the connection's own task does without anybody's help.
LoopStep == BarrierLifts \/ Write
CloseStep ==
    \/ NotDue \/ Defer \/ Resume \/ Recycle
    \/ Settle \/ Joined \/ Deadline \/ Flush \/ DrainFrame \/ Drained

Environment == Timer \/ GoIdle \/ MaintenanceStarts \/ MaintenanceEnds
               \/ Eof \/ SendFails \/ DrainFails

\* When main returns, the process and every task with it are gone.
Next ==
    /\ \/ \E m \in Messages : Read(m)
       \/ pc # "closed" /\ \E m \in Messages : TaskStep(m) \/ Invalidated(m)
       \/ LoopStep \/ CloseStep
       \/ Environment
    /\ UNCHANGED session

Spec == Init /\ [][Next]_vars

\* The connection's task is scheduled, its select! is fair between ready arms,
\* and invalidations, which are plain database writes, end.
ConnFairness ==
    /\ WF_vars(CloseStep /\ UNCHANGED session)
    /\ SF_vars(BarrierLifts /\ UNCHANGED session)
    /\ SF_vars(Write /\ UNCHANGED session)
    /\ WF_vars(pc # "closed" /\ (\E m \in Messages : Invalidated(m)) /\ UNCHANGED session)

\* Handlers return or panic: every engine build has a time limit, which is much
\* longer than a teardown may take, hence the parked ones.  A task has finitely
\* many steps, so it is enough that some task that is not parked always moves.
TaskFairness ==
    WF_vars(/\ pc # "closed"
            /\ \E m \in Messages \ Parked : TaskStep(m)
            /\ UNCHANGED session)

FairSpec == Spec /\ ConnFairness /\ TaskFairness

-----------------------------------------------------------------------------
\* "No frame is read until it settles, so every request that follows an
\* invalidation still sees its effect" (server.rs:518-519).
InvalidationsSettleFirst ==
    [][\A m \in Requests :
          task[m] = "none" /\ task'[m] = "run"
              => \A i \in Invalidations : task[i] # "run"]_vars

\* No connection ends with an invalidation cut off part-way
\* (server.rs:1270-1273), whichever way it ends.
InvalidationsNeverCut ==
    pc \in {"flush", "drain", "closed"} =>
        \A i \in Invalidations : task[i] # "run"

\* A client that ends the connection on its own terms, or is recycled, has
\* been sent the response of every request that was not abandoned at the
\* deadline (server.rs:1136-1149).
OrderlyCloseAnswers ==
    pc = "closed" /\ why \in {"shutdown", "recycle"} =>
        \A m \in Requests :
            task[m] # "none" /\ m \notin abandoned =>
                \E i \in DOMAIN wire : wire[i] = Frame(m, "reply")

\* Every finished task's cache writes are flushed before the connection ends;
\* only a task abandoned at the deadline may lose some (server.rs:1247-1284).
FinishedWorkFlushed == pc = "closed" => unflushed \subseteq abandoned

\* A connection that begins to close ends, even if no handler ever returns
\* (server.rs:48-55: the join is bounded).
CloseEnds == (pc \in {"settle", "join", "flush"}) ~> (pc = "closed")

=============================================================================
