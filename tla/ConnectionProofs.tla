-------------------------- MODULE ConnectionProofs --------------------------
(***************************************************************************)
(* The connection's barrier, its teardown and its flush, for any session a *)
(* client may send and any handlers.                                       *)
(*                                                                         *)
(* None of the properties is inductive.  ConnInv adds what they rest on:   *)
(* the only invalidation that can be running is the one the loop waits     *)
(* for; every task still at work has its handle in active_tasks, and after *)
(* the join it is one that was given up on; a request that has been        *)
(* handled has its reply in the channel or on the socket; and nothing was  *)
(* handled before the handshake, which is why a refused one may return     *)
(* without any of the teardown.                                            *)
(***************************************************************************)
EXTENDS Connection, SequenceTheorems, TLAPS

Stages == {"none", "run", "pending", "built", "emit", "done"}
Frames == [msg : Messages, kind : {"reply", "partial", "push"}]

ConnTypeOK ==
    /\ session \in Sessions
    /\ pc \in {"loop", "check", "wait", "settle", "join", "flush", "drain", "closed"}
    /\ hello \in BOOLEAN
    /\ task \in [Messages -> Stages]
    /\ pushes \in [Messages -> Nat]
    /\ active \subseteq Messages /\ abandoned \subseteq Messages
    /\ unflushed \subseteq Messages
    /\ inv \in Invalidations \cup {None}
    /\ outbound \in Seq(Frames) /\ wire \in Seq(Frames)

\* Tasks that have begun and are not over.
AtWork == {m \in Messages : task[m] \notin {"none", "done"}}

\* After the join, or a recycle that found nobody at work.
Parting == pc \in {"flush", "drain", "closed"}

\* The barrier: nobody but the awaited invalidation runs, and none after Settle.
Barrier ==
    \A i \in Invalidations : task[i] = "run" =>
        i = inv /\ pc \in {"loop", "check", "wait", "settle"}

\* Whoever is at work is tracked, and later was given up on.
Tracked == AtWork \subseteq (IF Parting THEN abandoned ELSE active)

\* What the flush does not cover is work of tasks that were given up on.
FlushedButAbandoned == pc \in {"drain", "closed"} => unflushed \subseteq abandoned

\* Before the handshake nothing is worked on; it is read once.
Handshake ==
    /\ ~hello => AtWork = {} /\ unflushed = {}
    /\ hello => \E h \in session : h.kind = "hello" /\ task[h] = "done"

In(f, s) == \E i \in DOMAIN s : s[i] = f

\* A handled request's reply is in the channel or on the socket.
Replied ==
    \A m \in Requests : task[m] \notin {"none", "run"} =>
        In(Frame(m, "reply"), outbound) \/ In(Frame(m, "reply"), wire)

\* An orderly end leaves nothing in the channel.
Emptied == pc = "closed" /\ why \in {"shutdown", "recycle"} => outbound = <<>>

ConnInv ==
    /\ ConnTypeOK /\ Barrier /\ Tracked /\ FlushedButAbandoned
    /\ Handshake /\ Replied /\ Emptied

-----------------------------------------------------------------------------
(* Frames move from the channel to the socket, and none is lost on the way. *)

\* A frame that joins a queue is in it, and so is what was there before.
LEMMA Joins ==
    ASSUME NEW s \in Seq(Frames), NEW f \in Frames
    PROVE  /\ Append(s, f) \in Seq(Frames)
           /\ In(f, Append(s, f))
           /\ \A g : In(g, s) => In(g, Append(s, f))
  <1>1. Append(s, f) \in Seq(Frames) /\ Len(Append(s, f)) = Len(s) + 1
    OBVIOUS
  <1>2. \A i \in 1..Len(s) : Append(s, f)[i] = s[i]
    OBVIOUS
  <1>3. Append(s, f)[Len(s) + 1] = f
    OBVIOUS
  <1>4. DOMAIN Append(s, f) = 1..(Len(s) + 1) /\ DOMAIN s = 1..Len(s) /\ Len(s) \in Nat
    BY <1>1
  <1> QED BY <1>1, <1>2, <1>3, <1>4 DEF In

\* A frame of a queue is its head or in the rest.
LEMMA Leaves ==
    ASSUME NEW s \in Seq(Frames), s # <<>>
    PROVE  /\ Head(s) \in Frames /\ Tail(s) \in Seq(Frames)
           /\ \A g : In(g, s) => g = Head(s) \/ In(g, Tail(s))
  <1>1. Len(s) \in Nat \ {0} /\ DOMAIN s = 1..Len(s)
    BY EmptySeq
  <1>2. Head(s) = s[1] /\ Head(s) \in Frames
    BY <1>1
  <1>3. Tail(s) \in Seq(Frames) /\ DOMAIN Tail(s) = 1..(Len(s) - 1)
    BY <1>1
  <1>4. \A i \in 1..(Len(s) - 1) : Tail(s)[i] = s[i + 1]
    BY <1>1
  <1>5. ASSUME NEW g, NEW i \in DOMAIN s, s[i] = g, g # Head(s)
        PROVE  In(g, Tail(s))
    <2>1. i - 1 \in 1..(Len(s) - 1) /\ (i - 1) + 1 = i
      BY <1>1, <1>2, <1>5
    <2>2. Tail(s)[i - 1] = g
      BY <1>4, <1>5, <2>1
    <2> QED BY <1>3, <2>1, <2>2 DEF In
  <1> QED BY <1>2, <1>3, <1>5 DEF In

\* Moving the head from the channel to the socket loses no reply.
LEMMA MoveKeepsReplies ==
    ASSUME outbound \in Seq(Frames), wire \in Seq(Frames), outbound # <<>>,
           wire' = Append(wire, Head(outbound)), outbound' = Tail(outbound)
    PROVE  /\ outbound' \in Seq(Frames) /\ wire' \in Seq(Frames)
           /\ \A f : In(f, outbound) \/ In(f, wire) => In(f, outbound') \/ In(f, wire')
  <1> DEFINE first == Head(outbound)
  <1>1. first \in Frames /\ outbound' \in Seq(Frames)
        /\ \A g : In(g, outbound) => g = first \/ In(g, outbound')
    BY Leaves
  <1>2. wire' = Append(wire, first)
    OBVIOUS
  <1> HIDE DEF first
  <1>3. wire' \in Seq(Frames) /\ In(first, wire') /\ \A g : In(g, wire) => In(g, wire')
    BY <1>1, <1>2, Joins
  <1> QED BY <1>1, <1>3

-----------------------------------------------------------------------------
(* One step at a time. *)

\* A step that moves one task on.
LEMMA Moves ==
    ASSUME task \in [Messages -> Stages], NEW m \in Messages, NEW v \in Stages,
           task' = [task EXCEPT ![m] = v]
    PROVE  /\ task' \in [Messages -> Stages]
           /\ task'[m] = v
           /\ \A n \in Messages : n # m => task'[n] = task[n]
           /\ v = "done" => AtWork' = AtWork \ {m}
           /\ v \notin {"none", "done"} => AtWork' = AtWork \cup {m}
  BY DEF AtWork, Stages

\* What is at work is not dropped from the handles that are kept.
LEMMA ReapKeeps == Tracked /\ ~Parting => AtWork \subseteq Reap(active)
  BY DEF Tracked, AtWork, Reap, Finished

\* Steps that leave the connection's own books alone.
Untouched == UNCHANGED <<session, pc, why, hello, task, pushes, active, abandoned,
                         unflushed, inv, outbound, wire>>

LEMMA UntouchedKeeps == ConnInv /\ Untouched => ConnInv'
  BY DEF ConnInv, Untouched, ConnTypeOK, Barrier, Tracked, AtWork, Parting,
         FlushedButAbandoned, Handshake, Replied, In, Emptied

\* Steps that only move the loop: the timer, the recycle check and its deferral,
\* and the beginning of the teardown.
LEMMA LoopMoves ==
    ASSUME ConnInv,
           UNCHANGED <<session, hello, task, pushes, abandoned, unflushed, inv, outbound, wire>>,
           pc \in {"loop", "check", "wait"},
           pc' \in {"loop", "check", "wait", "settle"},
           active' = active \/ active' = Reap(active)
    PROVE  ConnInv'
  <1>1. ConnTypeOK'
    BY DEF ConnInv, ConnTypeOK, Reap
  <1>2. Barrier'
    BY DEF ConnInv, Barrier
  <1>3. Tracked'
    <2>1. ~Parting /\ ~Parting' /\ AtWork' = AtWork
      BY DEF Parting, AtWork
    <2> QED BY <2>1, ReapKeeps DEF ConnInv, Tracked
  <1>4. FlushedButAbandoned' /\ Handshake' /\ Replied' /\ Emptied'
    BY DEF ConnInv, FlushedButAbandoned, Handshake, AtWork, Replied, In, Emptied
  <1> QED BY <1>1, <1>2, <1>3, <1>4 DEF ConnInv

\* A frame read and dealt with on the spot: a visible set, a prewarm, a garbled
\* frame, and what a client sends before its handshake.
LEMMA ReadAndDone ==
    ASSUME ConnInv, NEW m \in Messages, Readable(m),
           task' = [task EXCEPT ![m] = "done"],
           UNCHANGED <<session, pc, why, hello, pushes, active, abandoned, unflushed, inv>>,
           outbound' \in Seq(Frames), wire' = wire,
           \A f : In(f, outbound) => In(f, outbound'),
           m \in Requests => In(Frame(m, "reply"), outbound')
    PROVE  ConnInv'
  <1>0. /\ task' \in [Messages -> Stages] /\ task'[m] = "done"
        /\ \A n \in Messages : n # m => task'[n] = task[n]
        /\ AtWork' = AtWork \ {m}
    BY Moves DEF ConnInv, ConnTypeOK, Stages
  <1>1. ConnTypeOK'
    BY <1>0 DEF ConnInv, ConnTypeOK
  <1>2. Barrier'
    BY <1>0 DEF ConnInv, Barrier, Invalidations, Of
  <1>3. Tracked' /\ FlushedButAbandoned'
    BY <1>0 DEF ConnInv, Tracked, Parting, FlushedButAbandoned
  <1>4. Handshake'
    BY <1>0 DEF ConnInv, Handshake
  <1>5. Replied'
    BY <1>0 DEF ConnInv, Replied, Requests, Of
  <1>6. Emptied'
    BY DEF Readable, Emptied
  <1> QED BY <1>1, <1>2, <1>3, <1>4, <1>5, <1>6 DEF ConnInv

\* Frames a task puts into the channel.
LEMMA QueuesReply ==
    ASSUME ConnInv, NEW m \in Messages, NEW k \in {"reply", "partial", "push"},
           outbound' = Append(outbound, Frame(m, k))
    PROVE  /\ outbound' \in Seq(Frames)
           /\ In(Frame(m, k), outbound')
           /\ \A f : In(f, outbound) => In(f, outbound')
  <1>1. Frame(m, k) \in Frames
    BY DEF Frame, Frames
  <1>2. outbound \in Seq(Frames)
    BY DEF ConnInv, ConnTypeOK
  <1> QED BY <1>1, <1>2, Joins

\* A request after the handshake becomes a tracked task.
LEMMA DispatchKeeps ==
    ASSUME ConnInv, NEW m \in Messages, Dispatch(m), session' = session
    PROVE  ConnInv'
  <1> USE DEF ConnInv
  <1>0. /\ m \in Requests /\ hello /\ pc = "loop" /\ inv = None /\ task[m] = "none"
        /\ task' = [task EXCEPT ![m] = "run"] /\ active' = Reap(active) \cup {m}
        /\ UNCHANGED <<pc, why, hello, pushes, unflushed, abandoned, inv, outbound, wire>>
    BY DEF Dispatch, Readable, Track, conn, frames
  <1>1. /\ task' \in [Messages -> Stages] /\ task'[m] = "run"
        /\ \A n \in Messages : n # m => task'[n] = task[n]
        /\ AtWork' = AtWork \cup {m}
    BY <1>0, Moves DEF ConnTypeOK, Stages
  <1>2. ConnTypeOK'
    BY <1>0, <1>1 DEF ConnTypeOK, Reap
  <1>3. Barrier'
    BY <1>0, <1>1 DEF Barrier, Requests, Invalidations, Of
  <1>4. Tracked'
    BY <1>0, <1>1, ReapKeeps DEF Tracked, Parting
  <1>5. FlushedButAbandoned' /\ Emptied'
    BY <1>0 DEF FlushedButAbandoned, Emptied
  <1>6. Handshake'
    <2>1. PICK h \in session : h.kind = "hello" /\ task[h] = "done"
      BY <1>0 DEF Handshake
    <2>2. h \in Messages /\ h # m
      BY <1>0, <2>1 DEF ConnTypeOK, Messages
    <2> QED BY <1>0, <1>1, <2>1, <2>2 DEF Handshake
  <1>7. Replied'
    BY <1>0, <1>1 DEF Replied, Requests, Of
  <1> QED BY <1>2, <1>3, <1>4, <1>5, <1>6, <1>7

\* Before the handshake it is answered at once.
LEMMA RefuseKeeps ==
    ASSUME ConnInv, NEW m \in Messages, Refuse(m), session' = session
    PROVE  ConnInv'
  <1>1. /\ Readable(m) /\ task' = [task EXCEPT ![m] = "done"]
        /\ outbound' = Append(outbound, Frame(m, "reply")) /\ wire' = wire
        /\ UNCHANGED <<session, pc, why, hello, pushes, active, abandoned, unflushed, inv>>
    BY DEF Refuse, conn, books
  <1>2. /\ outbound' \in Seq(Frames) /\ In(Frame(m, "reply"), outbound')
        /\ \A f : In(f, outbound) => In(f, outbound')
    BY <1>1, QueuesReply
  <1> QED BY <1>1, <1>2, ReadAndDone

\* An invalidation raises the barrier; no other one is running then.
LEMMA InvalidateKeeps ==
    ASSUME ConnInv, NEW m \in Messages, Invalidate(m), session' = session
    PROVE  ConnInv'
  <1> USE DEF ConnInv
  <1>0. /\ m \in Invalidations /\ Readable(m) /\ m \notin Requests
        /\ UNCHANGED <<session, pc, why, hello, pushes, unflushed, abandoned, outbound, wire>>
    BY DEF Invalidate, conn, frames, Requests, Invalidations, Of
  <1>a. CASE hello
    <2>0. /\ pc = "loop" /\ inv = None /\ task[m] = "none"
          /\ task' = [task EXCEPT ![m] = "run"] /\ active' = Reap(active) \cup {m} /\ inv' = m
      BY <1>a, <1>0 DEF Invalidate, Readable, Track
    <2>1. /\ task' \in [Messages -> Stages] /\ task'[m] = "run"
          /\ \A n \in Messages : n # m => task'[n] = task[n]
          /\ AtWork' = AtWork \cup {m}
      BY <2>0, Moves DEF ConnTypeOK, Stages
    <2>2. ConnTypeOK'
      BY <1>0, <2>0, <2>1 DEF ConnTypeOK, Reap
    <2>3. Barrier'
      <3>1. \A i \in Invalidations : task[i] # "run"
        BY <2>0, ConnectionAssumption DEF Barrier, Invalidations, Of
      <3> QED BY <1>0, <2>0, <2>1, <3>1 DEF Barrier, Invalidations, Of
    <2>4. Tracked'
      BY <1>0, <2>0, <2>1, ReapKeeps DEF Tracked, Parting
    <2>5. FlushedButAbandoned' /\ Emptied'
      BY <1>0, <2>0 DEF FlushedButAbandoned, Emptied
    <2>6. Handshake'
      <3>1. PICK h \in session : h.kind = "hello" /\ task[h] = "done"
        BY <1>a DEF Handshake
      <3>2. h \in Messages /\ h # m
        BY <2>0, <3>1 DEF ConnTypeOK, Messages
      <3> QED BY <1>a, <1>0, <2>1, <3>1, <3>2 DEF Handshake
    <2>7. Replied'
      BY <1>0, <2>1 DEF Replied, Requests, Of
    <2> QED BY <2>2, <2>3, <2>4, <2>5, <2>6, <2>7
  <1>b. CASE ~hello
    <2>1. task' = [task EXCEPT ![m] = "done"] /\ inv' = inv /\ active' = active
      BY <1>b DEF Invalidate
    <2> QED BY <1>0, <2>1, ReadAndDone DEF ConnTypeOK
  <1> QED BY <1>a, <1>b

\* The visible set, a prewarm or a garbled frame.
LEMMA VisibleKeeps ==
    ASSUME ConnInv, NEW m \in Messages, Visible(m) \/ PrewarmOrSkip(m), session' = session
    PROVE  ConnInv'
  <1>1. /\ Readable(m) /\ task' = [task EXCEPT ![m] = "done"] /\ m \notin Requests
        /\ UNCHANGED <<session, pc, why, hello, pushes, active, abandoned, unflushed, inv, outbound, wire>>
    BY DEF Visible, PrewarmOrSkip, conn, books, frames, Requests, Of
  <1> QED BY <1>1, ReadAndDone DEF ConnInv, ConnTypeOK

\* The handshake.
LEMMA HelloKeeps ==
    ASSUME ConnInv, NEW m \in Messages, Hello(m), session' = session
    PROVE  ConnInv'
  <1> USE DEF ConnInv
  <1>0. /\ m.kind = "hello" /\ pc = "loop" /\ task[m] = "none" /\ m \in session
        /\ task' = [task EXCEPT ![m] = "done"] /\ hello' = TRUE /\ pc' = "check"
        /\ UNCHANGED <<session, why, pushes, active, abandoned, unflushed, inv, outbound, wire>>
    BY DEF Hello, Readable, books, frames
  <1>1. /\ task' \in [Messages -> Stages] /\ task'[m] = "done"
        /\ \A n \in Messages : n # m => task'[n] = task[n]
        /\ AtWork' = AtWork \ {m}
    BY <1>0, Moves DEF ConnTypeOK, Stages
  <1>2. ConnTypeOK'
    BY <1>0, <1>1 DEF ConnTypeOK
  <1>3. Barrier'
    BY <1>0, <1>1 DEF Barrier, Invalidations, Of
  <1>4. Tracked' /\ FlushedButAbandoned' /\ Emptied'
    BY <1>0, <1>1 DEF Tracked, Parting, FlushedButAbandoned, Emptied
  <1>5. Handshake'
    BY <1>0, <1>1 DEF Handshake
  <1>6. Replied'
    BY <1>0, <1>1 DEF Replied, Requests, Of
  <1> QED BY <1>2, <1>3, <1>4, <1>5, <1>6

\* A refused handshake returns at once: it is the first of its session, so there
\* is nothing to settle, to join or to flush.
LEMMA RefuseHelloKeeps ==
    ASSUME ConnInv, NEW m \in Messages, RefuseHello(m), session' = session
    PROVE  ConnInv'
  <1> USE DEF ConnInv
  <1>0. /\ m.kind = "badhello" /\ pc = "loop" /\ inv = None /\ task[m] = "none" /\ m \in session
        /\ task' = [task EXCEPT ![m] = "done"] /\ pc' = "closed" /\ why' = "refused"
        /\ UNCHANGED <<session, hello, pushes, active, abandoned, unflushed, inv, outbound, wire>>
    BY DEF RefuseHello, Readable, books, frames
  <1>1. /\ task' \in [Messages -> Stages] /\ task'[m] = "done"
        /\ \A n \in Messages : n # m => task'[n] = task[n]
        /\ AtWork' = AtWork \ {m}
    BY <1>0, Moves DEF ConnTypeOK, Stages
  <1>2. ~hello
    <2> SUFFICES ASSUME hello PROVE FALSE
      BY DEF ConnTypeOK
    <2>1. PICK h \in session : h.kind = "hello" /\ task[h] = "done"
      BY DEF Handshake
    <2>2. h = m
      BY <1>0, <2>1, ConnectionAssumption DEF ConnTypeOK
    <2> QED BY <1>0, <2>1, <2>2
  <1>3. AtWork' = {} /\ unflushed' = {}
    BY <1>0, <1>1, <1>2 DEF Handshake
  <1>4. ConnTypeOK'
    BY <1>0, <1>1 DEF ConnTypeOK
  <1>5. Barrier'
    BY <1>3 DEF Barrier, AtWork, Invalidations, Of
  <1>6. Tracked' /\ FlushedButAbandoned' /\ Emptied'
    BY <1>0, <1>3 DEF Tracked, FlushedButAbandoned, Emptied
  <1>7. Handshake'
    BY <1>0, <1>2, <1>3 DEF Handshake
  <1>8. Replied'
    BY <1>0, <1>1 DEF Replied, Requests, Of
  <1> QED BY <1>4, <1>5, <1>6, <1>7, <1>8

\* A shutdown, the end of the stream or a dead socket begins the teardown.
LEMMA BeginCloseKeeps ==
    ASSUME ConnInv, session' = session,
           Eof \/ SendFails \/ \E m \in Messages : Shutdown(m)
    PROVE  ConnInv'
  <1> USE DEF ConnInv
  <1>1. CASE Eof \/ SendFails
    BY <1>1, LoopMoves DEF Eof, SendFails, BeginClose, frames
  <1>2. ASSUME NEW m \in Messages, Shutdown(m) PROVE ConnInv'
    <2>0. /\ pc = "loop" /\ pc' = "settle" /\ m.kind = "shutdown" /\ task' = [task EXCEPT ![m] = "done"]
          /\ UNCHANGED <<session, hello, pushes, active, abandoned, unflushed, inv, outbound, wire>>
      BY <1>2 DEF Shutdown, Readable, BeginClose, frames
    <2>1. /\ task' \in [Messages -> Stages] /\ task'[m] = "done"
          /\ \A n \in Messages : n # m => task'[n] = task[n]
          /\ AtWork' = AtWork \ {m}
      BY <2>0, Moves DEF ConnTypeOK, Stages
    <2>2. ConnTypeOK'
      BY <2>0, <2>1 DEF ConnTypeOK
    <2>3. Barrier'
      BY <2>0, <2>1 DEF Barrier, Invalidations, Of
    <2>4. Tracked' /\ FlushedButAbandoned' /\ Emptied'
      BY <2>0, <2>1 DEF Tracked, Parting, FlushedButAbandoned, Emptied
    <2>5. Handshake'
      BY <2>0, <2>1 DEF Handshake
    <2>6. Replied'
      BY <2>0, <2>1 DEF Replied, Requests, Of
    <2> QED BY <2>2, <2>3, <2>4, <2>5, <2>6
  <1> QED BY <1>1, <1>2

\* A task that was at work moves on to `v', and may queue frames and cache
\* writes of its own on the way.
LEMMA WorkKeeps ==
    ASSUME ConnInv, NEW m \in Messages, NEW v \in Stages \ {"none", "run"},
           task[m] \notin {"none", "done"}, task' = [task EXCEPT ![m] = v], pc # "closed",
           UNCHANGED <<session, pc, why, hello, active, abandoned, inv, wire>>,
           pushes' \in [Messages -> Nat],
           unflushed' \subseteq unflushed \cup {m},
           outbound' \in Seq(Frames),
           \A f : In(f, outbound) => In(f, outbound'),
           m \in Requests => task[m] # "run" \/ In(Frame(m, "reply"), outbound')
    PROVE  ConnInv'
  <1> USE DEF ConnInv
  <1>1. /\ task' \in [Messages -> Stages] /\ task'[m] = v
        /\ \A n \in Messages : n # m => task'[n] = task[n]
        /\ AtWork' \subseteq AtWork
    <2>1. m \in AtWork
      BY DEF AtWork
    <2> QED BY <2>1, Moves, ZenonT(60) DEF ConnTypeOK
  <1>2. m \in AtWork /\ hello
    BY DEF AtWork, Handshake, ConnTypeOK
  <1>3. ConnTypeOK'
    BY <1>1 DEF ConnTypeOK
  <1>4. Barrier'
    BY <1>1 DEF Barrier, Invalidations, Of
  <1>5. Tracked'
    BY <1>1 DEF Tracked, Parting
  <1>6. FlushedButAbandoned'
    BY <1>2 DEF FlushedButAbandoned, Tracked, Parting
  <1>7. Emptied'
    BY DEF Emptied
  <1>8. Handshake'
    <2>1. PICK h \in session : h.kind = "hello" /\ task[h] = "done"
      BY <1>2 DEF Handshake
    <2>2. h \in Messages /\ h # m
      BY <2>1 DEF ConnTypeOK, Messages
    <2> QED BY <1>1, <1>2, <2>1, <2>2 DEF Handshake
  <1>9. Replied'
    <2> SUFFICES ASSUME NEW n \in Requests, task'[n] \notin {"none", "run"}
                 PROVE  In(Frame(n, "reply"), outbound') \/ In(Frame(n, "reply"), wire')
      BY DEF Replied
    <2>1. CASE n = m /\ task[m] = "run"
      BY <2>1
    <2>2. CASE n = m /\ task[m] # "run"
      BY <2>2 DEF Replied
    <2>3. CASE n # m
      BY <1>1, <2>3 DEF Replied, Requests, Of
    <2> QED BY <2>1, <2>2, <2>3
  <1> QED BY <1>3, <1>4, <1>5, <1>6, <1>7, <1>8, <1>9

\* A partial result of a streaming handler.
LEMMA PartialKeeps ==
    ASSUME ConnInv, NEW m \in Messages, Partial(m), session' = session, pc # "closed"
    PROVE  ConnInv'
  <1> USE DEF ConnInv
  <1>1. /\ outbound' = Append(outbound, Frame(m, "partial"))
        /\ UNCHANGED <<session, pc, why, hello, task, unflushed, active, abandoned, inv, wire>>
    BY DEF Partial, conn, books
  <1>2. outbound' \in Seq(Frames) /\ \A f : In(f, outbound) => In(f, outbound')
    BY <1>1, QueuesReply
  <1>3. pushes' \in [Messages -> Nat]
    BY DEF Partial, ConnTypeOK
  <1>4. ConnTypeOK'
    BY <1>1, <1>2, <1>3 DEF ConnTypeOK
  <1>5. Barrier' /\ Tracked' /\ FlushedButAbandoned' /\ Handshake'
    BY <1>1 DEF Barrier, Tracked, AtWork, Parting, FlushedButAbandoned, Handshake
  <1>6. Emptied' /\ Replied'
    BY <1>1, <1>2 DEF Emptied, Replied
  <1> QED BY <1>4, <1>5, <1>6

\* Every step of a handler, of a panicking one and of the pending imports.
LEMMA TaskStepKeeps ==
    ASSUME ConnInv, NEW m \in Messages, TaskStep(m), session' = session, pc # "closed"
    PROVE  ConnInv'
  <1> USE DEF ConnInv
  <1>0. task \in [Messages -> Stages] /\ outbound \in Seq(Frames) /\ pushes \in [Messages -> Nat]
    BY DEF ConnTypeOK
  <1>1. CASE Partial(m)
    BY <1>1, PartialKeeps
  <1>2. CASE Answer(m) \/ Panic(m)
    <2>1. /\ m \in Requests /\ task[m] = "run"
          /\ outbound' = Append(outbound, Frame(m, "reply"))
          /\ unflushed' \subseteq unflushed \cup {m}
          /\ UNCHANGED <<session, pc, why, hello, pushes, active, abandoned, inv, wire>>
      BY <1>2 DEF Answer, Panic, conn, books
    <2>2. PICK v \in {"done", "pending"} : task' = [task EXCEPT ![m] = v]
      BY <1>2 DEF Answer, Panic
    <2>3. v \in Stages \ {"none", "run"}
      BY DEF Stages
    <2>4. /\ outbound' \in Seq(Frames) /\ In(Frame(m, "reply"), outbound')
          /\ \A f : In(f, outbound) => In(f, outbound')
      BY <2>1, QueuesReply
    <2> QED BY <1>0, <2>1, <2>2, <2>3, <2>4, WorkKeeps
  <1>3. CASE Build(m) \/ Recheck(m)
    <2>1. /\ task[m] \in {"pending", "built"}
          /\ unflushed' \subseteq unflushed \cup {m}
          /\ UNCHANGED <<session, pc, why, hello, pushes, active, abandoned, inv, wire, outbound>>
      BY <1>3 DEF Build, Recheck, conn, books, frames
    <2>2. PICK v \in {"done", "built", "emit"} : task' = [task EXCEPT ![m] = v]
      BY <1>3 DEF Build, Recheck
    <2>3. v \in Stages \ {"none", "run"}
      BY DEF Stages
    <2> QED BY <1>0, <2>1, <2>2, <2>3, WorkKeeps
  <1>4. CASE Push(m)
    <2>1. /\ task[m] = "emit"
          /\ outbound' = Append(outbound, Frame(m, "push"))
          /\ pushes' = [pushes EXCEPT ![m] = @ + 1]
          /\ UNCHANGED <<session, pc, why, hello, unflushed, active, abandoned, inv, wire>>
      BY <1>4 DEF Push, conn, books
    <2>2. PICK v \in {"done", "pending"} : task' = [task EXCEPT ![m] = v]
      BY <1>4 DEF Push
    <2>3. v \in Stages \ {"none", "run"} /\ pushes' \in [Messages -> Nat]
      BY <1>0, <2>1 DEF Stages
    <2>4. outbound' \in Seq(Frames) /\ \A f : In(f, outbound) => In(f, outbound')
      BY <2>1, QueuesReply
    <2> QED BY <1>0, <2>1, <2>2, <2>3, <2>4, WorkKeeps
  <1> QED BY <1>1, <1>2, <1>3, <1>4 DEF TaskStep

\* An invalidation has run.
LEMMA InvalidatedKeeps ==
    ASSUME ConnInv, NEW m \in Messages, Invalidated(m), session' = session, pc # "closed"
    PROVE  ConnInv'
  <1>1. /\ m \notin Requests /\ task[m] = "run" /\ task' = [task EXCEPT ![m] = "done"]
        /\ UNCHANGED <<session, pc, why, hello, pushes, unflushed, active, abandoned, inv, wire, outbound>>
    BY DEF Invalidated, conn, books, frames, Requests, Invalidations, Of
  <1>2. "done" \in Stages \ {"none", "run"}
    BY DEF Stages
  <1> QED BY <1>1, <1>2, WorkKeeps DEF ConnInv, ConnTypeOK

\* The invalidation has settled and the loop reads again.
LEMMA BarrierLiftsKeeps ==
    ASSUME ConnInv, BarrierLifts, session' = session
    PROVE  ConnInv'
  <1> USE DEF ConnInv
  <1>0. /\ inv # None /\ task[inv] = "done" /\ inv' = None
        /\ UNCHANGED <<session, pc, why, hello, task, pushes, unflushed, active, abandoned, wire, outbound>>
    BY DEF BarrierLifts, Finished, conn, tasks, frames
  <1>1. ConnTypeOK'
    BY <1>0 DEF ConnTypeOK
  <1>2. Barrier'
    BY <1>0 DEF Barrier
  <1>3. Tracked' /\ FlushedButAbandoned' /\ Handshake' /\ Replied' /\ Emptied'
    BY <1>0 DEF Tracked, AtWork, Parting, FlushedButAbandoned, Handshake, Replied, In, Emptied
  <1> QED BY <1>1, <1>2, <1>3

\* A frame is written, by the loop or by the drain of an orderly end.
LEMMA WriteKeeps ==
    ASSUME ConnInv, Write \/ DrainFrame, session' = session
    PROVE  ConnInv'
  <1> USE DEF ConnInv
  <1>0. /\ pc \in {"loop", "drain"} /\ outbound # <<>>
        /\ wire' = Append(wire, Head(outbound)) /\ outbound' = Tail(outbound)
        /\ UNCHANGED <<session, pc, why, hello, task, pushes, unflushed, active, abandoned, inv>>
    BY DEF Write, DrainFrame, conn, tasks, books
  <1>1. /\ outbound' \in Seq(Frames) /\ wire' \in Seq(Frames)
        /\ \A f : In(f, outbound) \/ In(f, wire) => In(f, outbound') \/ In(f, wire')
    BY <1>0, MoveKeepsReplies DEF ConnTypeOK
  <1>2. ConnTypeOK'
    BY <1>0, <1>1 DEF ConnTypeOK
  <1>3. Barrier' /\ Tracked' /\ FlushedButAbandoned' /\ Handshake'
    BY <1>0 DEF Barrier, Tracked, AtWork, Parting, FlushedButAbandoned, Handshake
  <1>4. Replied'
    BY <1>0, <1>1 DEF Replied
  <1>5. Emptied'
    BY <1>0 DEF Emptied
  <1> QED BY <1>2, <1>3, <1>4, <1>5

\* Steps of the teardown that touch neither tasks nor frames.
LEMMA TeardownKeeps ==
    ASSUME ConnInv, session' = session,
           Settle \/ Joined \/ Deadline \/ Recycle \/ Flush \/ Drained \/ DrainFails
    PROVE  ConnInv'
  <1> USE DEF ConnInv
  <1>0. UNCHANGED <<session, hello, task, pushes, inv, wire, outbound>>
    BY DEF Settle, Joined, Deadline, Recycle, Flush, Drained, DrainFails, tasks, books, frames
  <1>1. AtWork' = AtWork
    BY <1>0 DEF AtWork
  <1>2. Replied'
    BY <1>0 DEF Replied
  <1>settle. CASE Settle
    <2>0. /\ pc = "settle" /\ pc' = "join" /\ (inv # None => task[inv] = "done")
          /\ UNCHANGED <<active, abandoned, unflushed, why>>
      BY <1>settle DEF Settle, Finished, books, tasks
    <2>1. ConnTypeOK' /\ Tracked' /\ FlushedButAbandoned' /\ Handshake' /\ Emptied'
      BY <1>0, <1>1, <2>0 DEF ConnTypeOK, Tracked, Parting, FlushedButAbandoned, Handshake, Emptied
    <2>2. Barrier'
      BY <1>0, <2>0, ConnectionAssumption DEF Barrier, Invalidations, Of
    <2> QED BY <1>2, <2>1, <2>2
  <1>join. CASE Joined \/ Deadline \/ Recycle
    <2>0. /\ pc \in {"join", "check"} /\ pc' = "flush" /\ unflushed' = unflushed
          /\ active' \subseteq active
          /\ (Reap(active) \subseteq abandoned' /\ abandoned' \subseteq abandoned \cup active)
      <3>1. Reap(active) \subseteq active
        BY DEF Reap
      <3>2. CASE Deadline
        BY <3>1, <3>2 DEF Deadline, tasks
      <3>3. CASE Joined \/ Recycle
        BY <3>3 DEF Joined, Recycle, tasks
      <3> QED BY <1>join, <3>2, <3>3
    <2>1. AtWork \subseteq Reap(active)
      BY <2>0, ReapKeeps DEF Parting
    <2>2. ConnTypeOK' /\ FlushedButAbandoned' /\ Handshake' /\ Emptied'
      BY <1>0, <1>1, <2>0 DEF ConnTypeOK, FlushedButAbandoned, Handshake, Emptied, Reap
    <2>3. Tracked'
      BY <1>1, <2>0, <2>1 DEF Tracked, Parting
    <2>4. Barrier'
      <3> SUFFICES \A i \in Invalidations : task[i] # "run"
        BY <1>0 DEF Barrier
      <3>1. CASE pc = "join"
        BY <3>1 DEF Barrier
      <3>2. CASE Recycle
        BY <3>2, <2>1 DEF Recycle, AtWork, Invalidations, Of
      <3> QED BY <1>join, <3>1, <3>2 DEF Joined, Deadline
    <2> QED BY <1>2, <2>2, <2>3, <2>4
  <1>end. CASE Flush \/ Drained \/ DrainFails
    <2>0. /\ pc \in {"flush", "drain"} /\ pc' \in {"drain", "closed"}
          /\ UNCHANGED <<active, abandoned>>
          /\ unflushed' = {} \/ (pc = "drain" /\ unflushed' = unflushed)
      BY <1>end DEF Flush, Drained, DrainFails, books, tasks
    <2>1. ConnTypeOK'
      BY <1>0, <2>0 DEF ConnTypeOK
    <2>2. Barrier'
      BY <1>0, <2>0 DEF Barrier
    <2>3. Tracked' /\ FlushedButAbandoned' /\ Handshake'
      BY <1>0, <1>1, <2>0 DEF Tracked, Parting, FlushedButAbandoned, Handshake
    <2>4. Emptied'
      BY <1>0, <1>end DEF Flush, Drained, DrainFails, Emptied
    <2> QED BY <1>2, <2>1, <2>2, <2>3, <2>4
  <1> QED BY <1>settle, <1>join, <1>end

\* Every step keeps the invariant.
LEMMA ConnStep == ConnInv /\ [Next]_vars => ConnInv'
  <1> SUFFICES ASSUME ConnInv, [Next]_vars PROVE ConnInv'
    OBVIOUS
  <1>stutter. CASE UNCHANGED vars
    BY <1>stutter, UntouchedKeeps DEF vars, conn, tasks, books, frames, Untouched
  <1>next. CASE Next
    <2>0. session' = session
      BY <1>next DEF Next
    <2>read. ASSUME NEW m \in Messages, Read(m) PROVE ConnInv'
      BY <2>0, <2>read, DispatchKeeps, RefuseKeeps, InvalidateKeeps, VisibleKeeps,
         HelloKeeps, RefuseHelloKeeps, BeginCloseKeeps DEF Read
    <2>task. ASSUME pc # "closed", NEW m \in Messages, TaskStep(m) \/ Invalidated(m) PROVE ConnInv'
      BY <2>0, <2>task, TaskStepKeeps, InvalidatedKeeps
    <2>loop. CASE LoopStep \/ DrainFrame
      BY <2>0, <2>loop, BarrierLiftsKeeps, WriteKeeps DEF LoopStep
    <2>check. CASE Timer \/ NotDue \/ Defer \/ Resume
      BY <2>0, <2>check, LoopMoves DEF Timer, NotDue, Defer, Resume, tasks, books, frames
    <2>teardown. CASE Settle \/ Joined \/ Deadline \/ Recycle \/ Flush \/ Drained \/ DrainFails
      BY <2>0, <2>teardown, TeardownKeeps
    <2>close. CASE Eof \/ SendFails
      BY <2>0, <2>close, BeginCloseKeeps
    <2>world. CASE GoIdle \/ MaintenanceStarts \/ MaintenanceEnds
      BY <2>0, <2>world, UntouchedKeeps
         DEF GoIdle, MaintenanceStarts, MaintenanceEnds, Untouched, conn, tasks, books, frames
    <2> QED BY <1>next, <2>read, <2>task, <2>loop, <2>check, <2>teardown, <2>close, <2>world
            DEF Next, CloseStep, Environment
  <1> QED BY <1>stutter, <1>next

\* A connection that has just been accepted.
LEMMA ConnStarts == Init => ConnInv
  <1> SUFFICES ASSUME Init PROVE ConnInv
    OBVIOUS
  <1> USE DEF Init
  <1>1. ConnTypeOK
    <2>1. task \in [Messages -> Stages] /\ pushes \in [Messages -> Nat]
      BY DEF Stages
    <2>2. outbound \in Seq(Frames) /\ wire \in Seq(Frames)
      OBVIOUS
    <2> QED BY <2>1, <2>2 DEF ConnTypeOK
  <1>2. AtWork = {}
    BY DEF AtWork
  <1>3. Barrier /\ Replied
    BY DEF Barrier, Replied, Invalidations, Requests, Of
  <1>4. Tracked /\ FlushedButAbandoned /\ Handshake /\ Emptied
    BY <1>2 DEF Tracked, FlushedButAbandoned, Handshake, Emptied
  <1> QED BY <1>1, <1>3, <1>4 DEF ConnInv

\* The invariant holds throughout.
LEMMA ConnInvariant == Spec => []ConnInv
  BY ConnStarts, ConnStep, PTL DEF Spec

-----------------------------------------------------------------------------
\* However a connection ends, no invalidation is cut off part-way: not by the
\* bounded join, not by a recycle, not by a refused handshake
\* (server.rs:1270-1273).
THEOREM InvalidationsComplete == Spec => []InvalidationsNeverCut
  <1>1. ConnInv => InvalidationsNeverCut
    BY DEF ConnInv, Barrier, InvalidationsNeverCut
  <1> QED BY <1>1, ConnInvariant, PTL

\* No request is taken up while an invalidation read before it is still running,
\* so it sees its effect (server.rs:518-519).
THEOREM BarrierHolds == Spec => InvalidationsSettleFirst
  <1> DEFINE Orderly ==
        \A m \in Requests :
            task[m] = "none" /\ task'[m] = "run" =>
                \A i \in Invalidations : task[i] # "run"
  <1>1. ConnInv /\ [Next]_vars => [Orderly]_vars
    <2> SUFFICES ASSUME ConnInv, Next,
                        NEW m \in Requests, task[m] = "none", task'[m] = "run",
                        NEW i \in Invalidations
                 PROVE  task[i] # "run"
      OBVIOUS
    <2>0. task \in [Messages -> Stages] /\ m \in Messages
      BY DEF ConnInv, ConnTypeOK, Requests, Of
    <2>1. \E n \in Messages : Read(n)
      <3>1. ASSUME NEW n \in Messages, TaskStep(n) \/ Invalidated(n) PROVE FALSE
        <4>1. task[n] # "none"
          BY <3>1 DEF TaskStep, Partial, Answer, Panic, Build, Recheck, Push, Invalidated
        <4>2. task' = task \/ \E v \in Stages : task' = [task EXCEPT ![n] = v]
          BY <3>1 DEF TaskStep, Partial, Answer, Panic, Build, Recheck, Push, Invalidated, Stages
        <4>3. task'[m] = task[m]
          BY <2>0, <4>1, <4>2
        <4> QED BY <4>3
      <3>2. ASSUME LoopStep \/ CloseStep \/ Environment PROVE FALSE
        <4>1. task' = task
          BY <3>2 DEF LoopStep, BarrierLifts, Write, CloseStep, NotDue, Defer, Resume, Recycle,
                      Settle, Joined, Deadline, Flush, DrainFrame, Drained, Environment, Timer,
                      GoIdle, MaintenanceStarts, MaintenanceEnds, Eof, SendFails, DrainFails, tasks
        <4> QED BY <4>1
      <3> QED BY <3>1, <3>2 DEF Next
    <2>2. PICK n \in Messages : Read(n)
      BY <2>1
    <2>3. inv = None
      BY <2>2 DEF Read, Dispatch, Refuse, Invalidate, Visible, PrewarmOrSkip, Hello, RefuseHello,
                  Shutdown, Readable
    <2> QED BY <2>3, ConnectionAssumption DEF ConnInv, Barrier, Invalidations, Of
  <1> QED BY <1>1, ConnInvariant, PTL DEF InvalidationsSettleFirst, Spec

\* Whatever a connection's tasks stored before they were over is on disk when the
\* connection ends; only a task given up on at the deadline may have stored more
\* (server.rs:1247-1284).
THEOREM WorkFlushed == Spec => []FinishedWorkFlushed
  <1>1. ConnInv => FinishedWorkFlushed
    BY DEF ConnInv, FlushedButAbandoned, FinishedWorkFlushed
  <1> QED BY <1>1, ConnInvariant, PTL

\* After an orderly end the client has the reply to every request that was read
\* and not given up on at the deadline (server.rs:1136-1149).
THEOREM OrderlyCloseIsComplete == Spec => []OrderlyCloseAnswers
  <1>1. ConnInv => OrderlyCloseAnswers
    <2> SUFFICES ASSUME ConnInv, pc = "closed", why \in {"shutdown", "recycle"},
                        NEW m \in Requests, task[m] # "none", m \notin abandoned
                 PROVE  In(Frame(m, "reply"), wire)
      BY DEF OrderlyCloseAnswers, In
    <2>1. m \in Messages /\ m \notin AtWork
      BY DEF ConnInv, Tracked, Parting, Requests, Of
    <2>2. task[m] = "done" /\ outbound = <<>>
      BY <2>1 DEF ConnInv, AtWork, Emptied
    <2>3. ~In(Frame(m, "reply"), outbound)
      BY <2>2 DEF In
    <2> QED BY <2>2, <2>3 DEF ConnInv, Replied
  <1> QED BY <1>1, ConnInvariant, PTL
=============================================================================
