--------------------------- MODULE RequestProofs ---------------------------
(***************************************************************************)
(* How requests share work, for any number of requests, keys and           *)
(* documents.                                                              *)
(*                                                                         *)
(* SizeReads: one combined build per document at a time, begun only for    *)
(* the newest read of a shown document, and the newest read is never       *)
(* turned away.                                                            *)
(*                                                                         *)
(* AnalysisFlight: the registry runs one compute per key, a dead flight is *)
(* unreachable before its followers are released, nobody gets another      *)
(* key's result, no entry is leaked and no wakeup is lost.                 *)
(*                                                                         *)
(* Freshness: what a stored measurement may be relied on for, for any      *)
(* files, imports, threads and workloads, whatever the disk does between   *)
(* two steps; what is served as fresh is, and no verdict takes a good      *)
(* measurement out of memory.                                              *)
(***************************************************************************)
EXTENDS SizeReads, AnalysisFlight, Freshness, TLAPS

(***************************************************************************)
(* Size reads.                                                             *)
(***************************************************************************)

Bounded == {"wait", "permit", "build"}
Holding == {"permit", "build"}

\* A read refers to a gate from its dispatch to its answer, if it is
\* interactive, and the map keeps that gate for its document meanwhile.
GateInv ==
    \A r \in Reads :
        /\ gateOf[r] # None <=> r \in Tagged /\ state[r] \in Bounded
        /\ gateOf[r] # None => gates[DocOf[r]] = gateOf[r]

\* A gate has one permit.
PermitInv ==
    \A r, s \in Reads :
        /\ gateOf[r] # None /\ gateOf[r] = gateOf[s]
        /\ state[r] \in Holding /\ state[s] \in Holding
        => r = s

\* size_builds holds the one interactive read of each document that is not
\* superseded.
NewestInv ==
    /\ \A r \in Tagged :
          state[r] # "unread" /\ r \notin superseded => sizeBuild[DocOf[r]] = r
    /\ \A d \in Docs : sizeBuild[d] # None =>
          /\ DocOf[sizeBuild[d]] = d
          /\ state[sizeBuild[d]] # "unread"
          /\ open => sizeBuild[d] \notin superseded
    /\ \A r \in superseded : state[r] # "unread"
    /\ \A r \in Reads : answer[r] = "superseded" => r \in superseded

IInv == TypeOK /\ GateInv /\ PermitInv /\ NewestInv

\* The states of a read, as TypeOK lists them.
States == {"unread", "wait", "permit", "build", "check", "recheck", "pushed", "done"}
Answers == {"none", "size", "superseded", "failed"}

LEMMA InitIInv == Init => IInv
<1> SUFFICES ASSUME Init PROVE IInv
  OBVIOUS
<1>1. TypeOK
  BY DEF Init, TypeOK
<1>2. GateInv /\ PermitInv
  BY DEF Init, GateInv, PermitInv, Bounded, Holding
<1>3. NewestInv
  BY SizeReadsAssumption DEF Init, NewestInv
<1> QED
  BY <1>1, <1>2, <1>3 DEF IInv

\* A read that is dispatched joins the gate that its document's reads hold, or
\* makes one when nobody holds any; the read it replaces is flagged.
LEMMA DispatchTagged ==
  ASSUME IInv, NEW r \in Tagged, Dispatch(r)
  PROVE  IInv'
<1> DEFINE d == DocOf[r]
           g == IF Pruned[d] = None THEN r ELSE Pruned[d]
<1>0. r \in Reads /\ d \in Docs
  BY SizeReadsAssumption
<1>1. /\ open /\ open' = open
      /\ state[r] = "unread"
      /\ swrCancelled' = swrCancelled \cup ({swr[d]} \ {None})
      /\ swr' = [swr EXCEPT ![d] = r]
      /\ gates' = [Pruned EXCEPT ![d] = g]
      /\ gateOf' = [gateOf EXCEPT ![r] = g]
      /\ superseded' = superseded \cup ({sizeBuild[d]} \ {None})
      /\ sizeBuild' = [sizeBuild EXCEPT ![d] = r]
      /\ state' = [state EXCEPT ![r] = "wait"]
      /\ UNCHANGED <<stale, fresh, answer>>
  BY DEF Dispatch
<1>2. Pruned \in [Docs -> Reads \cup {None}]
  BY DEF IInv, TypeOK, Pruned
<1>3. g \in Reads /\ g # None
  BY <1>0, <1>2, SizeReadsAssumption
<1>4. \A s \in Reads : gateOf[s] # None => Pruned[DocOf[s]] = gateOf[s]
  BY SizeReadsAssumption DEF IInv, GateInv, Pruned
<1> HIDE DEF g
<1>5. \A s \in Reads : /\ state'[s] = IF s = r THEN "wait" ELSE state[s]
                       /\ gateOf'[s] = IF s = r THEN g ELSE gateOf[s]
  BY <1>1 DEF IInv, TypeOK
<1>6. \A e \in Docs : /\ gates'[e] = IF e = d THEN g ELSE Pruned[e]
                      /\ sizeBuild'[e] = IF e = d THEN r ELSE sizeBuild[e]
  BY <1>1, <1>2 DEF IInv, TypeOK
<1>7. TypeOK'
  <2>1. state' \in [Reads -> States] /\ gateOf' \in [Reads -> Reads \cup {None}]
    BY <1>0, <1>1, <1>3 DEF IInv, TypeOK, States
  <2>2. gates' \in [Docs -> Reads \cup {None}]
    BY <1>0, <1>1, <1>2, <1>3
  <2>3. /\ sizeBuild' \in [Docs -> Reads \cup {None}]
        /\ swr' \in [Docs -> Reads \cup {None}]
    BY <1>0, <1>1 DEF IInv, TypeOK
  <2>4. superseded' \subseteq Reads /\ swrCancelled' \subseteq Reads
    BY <1>0, <1>1 DEF IInv, TypeOK
  <2>5. TypeOK
    BY DEF IInv
  <2> QED
    BY <1>1, <2>1, <2>2, <2>3, <2>4, <2>5, Zenon DEF TypeOK, States
<1>8. GateInv'
  <2> SUFFICES ASSUME NEW s \in Reads
               PROVE  /\ gateOf'[s] # None <=> s \in Tagged /\ state'[s] \in Bounded
                      /\ gateOf'[s] # None => gates'[DocOf[s]] = gateOf'[s]
    BY DEF GateInv
  <2>1. CASE s = r
    BY <1>0, <1>3, <1>5, <1>6, <2>1 DEF Bounded
  <2>2. CASE s # r
    <3>1. gateOf'[s] = gateOf[s] /\ state'[s] = state[s] /\ DocOf[s] \in Docs
      BY <1>5, <2>2, SizeReadsAssumption
    <3>2. gateOf[s] # None <=> s \in Tagged /\ state[s] \in Bounded
      BY DEF IInv, GateInv
    <3>3. ASSUME gateOf[s] # None PROVE gates'[DocOf[s]] = gateOf[s]
      <4>1. Pruned[DocOf[s]] = gateOf[s]
        BY <1>4, <3>3
      <4>2. CASE DocOf[s] = d
        BY <1>6, <3>1, <3>3, <4>1, <4>2 DEF g
      <4>3. CASE DocOf[s] # d
        BY <1>6, <3>1, <4>1, <4>3
      <4> QED
        BY <4>2, <4>3
    <3> QED
      BY <3>1, <3>2, <3>3
  <2> QED
    BY <2>1, <2>2
<1>9. PermitInv'
  BY <1>5 DEF IInv, PermitInv, Holding
<1>10. NewestInv'
  <2>1. r \notin superseded /\ \A e \in Docs : sizeBuild[e] # r
    BY <1>1, SizeReadsAssumption DEF IInv, NewestInv
  <2>2. r \notin superseded'
    BY <1>0, <1>1, <2>1
  <2>3. ASSUME NEW s \in Tagged, state'[s] # "unread", s \notin superseded'
        PROVE  sizeBuild'[DocOf[s]] = s
    <3>1. s \in Reads /\ DocOf[s] \in Docs
      BY SizeReadsAssumption
    <3>2. CASE s = r
      BY <1>0, <1>6, <3>2
    <3>3. CASE s # r
      <4>1. state[s] # "unread" /\ s \notin superseded
        BY <1>1, <1>5, <2>3, <3>1, <3>3
      <4>2. sizeBuild[DocOf[s]] = s
        BY <4>1 DEF IInv, NewestInv
      <4>3. DocOf[s] # d
        BY <1>1, <2>3, <3>1, <4>2, SizeReadsAssumption
      <4> QED
        BY <1>6, <3>1, <4>2, <4>3
    <3> QED
      BY <3>2, <3>3
  <2>4. ASSUME NEW e \in Docs, sizeBuild'[e] # None
        PROVE  /\ DocOf[sizeBuild'[e]] = e
               /\ state'[sizeBuild'[e]] # "unread"
               /\ sizeBuild'[e] \notin superseded'
    <3>1. CASE e = d
      BY <1>0, <1>5, <1>6, <2>2, <3>1
    <3>2. CASE e # d
      <4>1. sizeBuild'[e] = sizeBuild[e] /\ sizeBuild[e] \in Reads
        BY <1>6, <2>4, <3>2 DEF IInv, TypeOK
      <4>2. /\ DocOf[sizeBuild[e]] = e /\ state[sizeBuild[e]] # "unread"
            /\ sizeBuild[e] \notin superseded
        BY <1>1, <2>4, <4>1 DEF IInv, NewestInv
      <4>3. sizeBuild[e] # sizeBuild[d]
        BY <1>0, <2>4, <3>2, <4>1, <4>2 DEF IInv, NewestInv
      <4> QED
        BY <1>1, <1>5, <4>1, <4>2, <4>3
    <3> QED
      BY <3>1, <3>2
  <2>5. ASSUME NEW s \in superseded' PROVE state'[s] # "unread"
    <3>1. s \in Reads /\ (s \in superseded \/ (s = sizeBuild[d] /\ s # None))
      BY <1>1, <1>7, <2>5 DEF TypeOK
    <3>2. state[s] # "unread"
      BY <1>0, <3>1 DEF IInv, NewestInv
    <3> QED
      BY <1>5, <3>1, <3>2
  <2>6. \A s \in Reads : answer'[s] = "superseded" => s \in superseded'
    BY <1>1 DEF IInv, NewestInv
  <2> QED
    BY <2>3, <2>4, <2>5, <2>6 DEF NewestInv
<1> QED
  BY <1>7, <1>8, <1>9, <1>10 DEF IInv

\* An untagged read runs at once and touches no gate.
LEMMA DispatchUntagged ==
  ASSUME IInv, NEW r \in Reads, r \notin Tagged, Dispatch(r)
  PROVE  IInv'
<1> DEFINE d == DocOf[r]
<1>0. d \in Docs
  BY SizeReadsAssumption
<1>1. /\ state[r] = "unread"
      /\ swrCancelled' = swrCancelled \cup ({swr[d]} \ {None})
      /\ swr' = [swr EXCEPT ![d] = r]
      /\ state' = [state EXCEPT ![r] = "build"]
      /\ UNCHANGED <<open, gates, gateOf, superseded, sizeBuild, stale, fresh, answer>>
  BY DEF Dispatch
<1>2. \A s \in Reads : state'[s] = IF s = r THEN "build" ELSE state[s]
  BY <1>1 DEF IInv, TypeOK
<1>3. TypeOK'
  <2>1. state' \in [Reads -> States] /\ swr' \in [Docs -> Reads \cup {None}]
    BY <1>0, <1>1 DEF IInv, TypeOK, States
  <2>2. swrCancelled' \subseteq Reads
    BY <1>0, <1>1 DEF IInv, TypeOK
  <2>3. TypeOK
    BY DEF IInv
  <2> QED
    BY <1>1, <2>1, <2>2, <2>3, Zenon DEF TypeOK, States
<1>4. gateOf[r] = None
  BY DEF IInv, GateInv
<1>5. GateInv' /\ PermitInv'
  BY <1>1, <1>2, <1>4 DEF IInv, GateInv, PermitInv, Bounded, Holding
<1>6. NewestInv'
  <2>1. \A e \in Docs : sizeBuild[e] # None => sizeBuild[e] \in Reads
    BY DEF IInv, TypeOK
  <2>2. superseded \subseteq Reads /\ Tagged \subseteq Reads
    BY SizeReadsAssumption DEF IInv, TypeOK
  <2> QED
    BY <1>1, <1>2, <2>1, <2>2 DEF IInv, NewestInv
<1> QED
  BY <1>3, <1>5, <1>6 DEF IInv

\* What a task does to the shared state: it moves on, and it may drop its gate.
\* It takes a permit only when nobody has it.
LEMMA TaskMove ==
  ASSUME IInv, TypeOK', NEW r \in Reads, NEW n \in States \ {"unread"},
         state[r] # "unread",
         state' = [state EXCEPT ![r] = n],
         UNCHANGED <<open, gates, sizeBuild, superseded>>,
         \/ gateOf' = gateOf /\ (state[r] \in Bounded <=> n \in Bounded)
         \/ gateOf' = [gateOf EXCEPT ![r] = None] /\ n \notin Bounded,
         n \in Holding => state[r] \in Holding \/ Holders(gateOf[r]) = {},
         \A s \in Reads : answer'[s] = "superseded" => s \in superseded
  PROVE  IInv'
<1>1. \A s \in Reads : state'[s] = IF s = r THEN n ELSE state[s]
  BY DEF IInv, TypeOK
<1>2. \A s \in Reads : gateOf'[s] = gateOf[s] \/ (s = r /\ gateOf'[s] = None)
  <2>1. CASE gateOf' = gateOf
    BY <2>1
  <2>2. CASE gateOf' = [gateOf EXCEPT ![r] = None]
    BY <2>2 DEF IInv, TypeOK
  <2> QED
    BY <2>1, <2>2
<1>3. gateOf'[r] # None <=> r \in Tagged /\ n \in Bounded
  <2>1. CASE gateOf' = gateOf /\ (state[r] \in Bounded <=> n \in Bounded)
    BY <2>1 DEF IInv, GateInv
  <2>2. CASE gateOf' = [gateOf EXCEPT ![r] = None] /\ n \notin Bounded
    BY <2>2 DEF IInv, TypeOK
  <2> QED
    BY <2>1, <2>2
<1>4. GateInv'
  <2> SUFFICES ASSUME NEW s \in Reads
               PROVE  /\ gateOf'[s] # None <=> s \in Tagged /\ state'[s] \in Bounded
                      /\ gateOf'[s] # None => gates'[DocOf[s]] = gateOf'[s]
    BY DEF GateInv
  <2>1. gateOf'[s] # None => gates'[DocOf[s]] = gateOf'[s]
    BY <1>2 DEF IInv, GateInv
  <2>2. CASE s = r
    BY <1>1, <1>3, <2>1, <2>2
  <2>3. CASE s # r
    BY <1>1, <1>2, <2>1, <2>3 DEF IInv, GateInv
  <2> QED
    BY <2>2, <2>3
<1>5. PermitInv'
  <2> SUFFICES ASSUME NEW s \in Reads, NEW u \in Reads,
                      gateOf'[s] # None, gateOf'[s] = gateOf'[u],
                      state'[s] \in Holding, state'[u] \in Holding, s # u
               PROVE  FALSE
    BY DEF PermitInv
  <2>1. gateOf[s] = gateOf'[s] /\ gateOf[u] = gateOf'[u]
    BY <1>2
  <2>2. CASE s # r /\ u # r
    BY <1>1, <2>1, <2>2 DEF IInv, PermitInv
  <2>3. ASSUME NEW v \in Reads, v # r, gateOf[v] = gateOf[r], gateOf[r] # None,
               state[v] \in Holding, n \in Holding
        PROVE  FALSE
    <3>1. v \in Holders(gateOf[r])
      BY <2>3 DEF Holders, Holding
    <3>2. state[r] \in Holding
      BY <2>3, <3>1
    <3> QED
      BY <2>3, <3>2 DEF IInv, PermitInv
  <2>4. CASE s = r
    BY <1>1, <2>1, <2>3, <2>4
  <2>5. CASE u = r
    BY <1>1, <2>1, <2>3, <2>5
  <2> QED
    BY <2>2, <2>4, <2>5
<1>6. NewestInv'
  <2>1. \A e \in Docs : sizeBuild[e] # None => sizeBuild[e] \in Reads
    BY DEF IInv, TypeOK
  <2>2. superseded \subseteq Reads /\ Tagged \subseteq Reads
    BY SizeReadsAssumption DEF IInv, TypeOK
  <2>3. \A s \in Reads : state'[s] # "unread" <=> state[s] # "unread"
    BY <1>1
  <2> QED
    BY <2>1, <2>2, <2>3 DEF IInv, NewestInv
<1> QED
  BY <1>4, <1>5, <1>6 DEF IInv

LEMMA AcquireKeeps ==
  ASSUME IInv, NEW r \in Reads, Acquire(r)
  PROVE  IInv'
<1>1. /\ state[r] = "wait" /\ Holders(gateOf[r]) = {}
      /\ state' = [state EXCEPT ![r] = "permit"]
      /\ UNCHANGED <<open, gateOf, gates, sizeBuild, swr, superseded, swrCancelled,
                     stale, fresh, answer>>
  BY DEF Acquire, flags
<1>2. TypeOK'
  <2>1. state' \in [Reads -> States]
    BY <1>1 DEF IInv, TypeOK, States
  <2> QED
    BY <1>1, <2>1, Zenon DEF IInv, TypeOK, States
<1>3. \A s \in Reads : answer'[s] = "superseded" => s \in superseded
  BY <1>1 DEF IInv, NewestInv
<1>4. "permit" \in States \ {"unread"} /\ (state[r] \in Bounded <=> "permit" \in Bounded)
  BY <1>1 DEF States, Bounded
<1> QED
  BY <1>1, <1>2, <1>3, <1>4, TaskMove

\* A task that leaves with an answer drops its gate.
LEMMA AnswerKeeps ==
  ASSUME IInv, NEW r \in Reads, Superseded(r) \/ Answer(r) \/ Panic(r)
  PROVE  IInv'
<1>0. PICK n \in {"done", "check"}, a \in Answers :
         /\ state' = [state EXCEPT ![r] = n]
         /\ answer' = [answer EXCEPT ![r] = a]
         /\ a = "superseded" => r \in superseded
         /\ stale' \in [Reads -> Nat]
         /\ state[r] \in Holding
         /\ gateOf' = [gateOf EXCEPT ![r] = None]
         /\ UNCHANGED <<open, gates, sizeBuild, swr, superseded, swrCancelled, fresh>>
  <2>1. CASE Superseded(r)
    BY <2>1 DEF Superseded, flags, IInv, TypeOK, Answers, Holding
  <2>2. CASE Answer(r)
    <3>1. PICK k \in 0..MaxStale :
             /\ stale' = [stale EXCEPT ![r] = k]
             /\ state' = [state EXCEPT ![r] = IF k = 0 THEN "done" ELSE "check"]
      BY <2>2 DEF Answer
    <3>2. stale' \in [Reads -> Nat]
      BY <3>1, SizeReadsAssumption DEF IInv, TypeOK
    <3>3. /\ state[r] = "build"
          /\ answer' = [answer EXCEPT ![r] = "size"]
          /\ gateOf' = [gateOf EXCEPT ![r] = None]
          /\ UNCHANGED <<open, gates, sizeBuild, swr, superseded, swrCancelled, fresh>>
      BY <2>2 DEF Answer, flags
    <3>4. CASE k = 0
      BY <3>1, <3>2, <3>3, <3>4 DEF Answers, Holding
    <3>5. CASE k # 0
      BY <3>1, <3>2, <3>3, <3>5 DEF Answers, Holding
    <3> QED
      BY <3>4, <3>5
  <2>3. CASE Panic(r)
    BY <2>3 DEF Panic, flags, IInv, TypeOK, Answers, Holding
  <2> QED
    BY <2>1, <2>2, <2>3
<1>1. TypeOK'
  <2>1. state' \in [Reads -> States] /\ answer' \in [Reads -> Answers]
    BY <1>0 DEF IInv, TypeOK, States, Answers
  <2>2. gateOf' \in [Reads -> Reads \cup {None}]
    BY <1>0 DEF IInv, TypeOK
  <2> QED
    BY <1>0, <2>1, <2>2, Zenon DEF IInv, TypeOK, States, Answers
<1>2. \A s \in Reads : answer'[s] = "superseded" => s \in superseded
  BY <1>0 DEF IInv, TypeOK, NewestInv
<1>3. n \in States \ {"unread"} /\ n \notin Bounded /\ n \notin Holding /\ state[r] # "unread"
  BY <1>0 DEF States, Bounded, Holding
<1> QED
  BY <1>0, <1>1, <1>2, <1>3, TaskMove

LEMMA BuildKeeps ==
  ASSUME IInv, NEW r \in Reads, Build(r)
  PROVE  IInv'
<1>1. /\ state[r] = "permit"
      /\ state' = [state EXCEPT ![r] = "build"]
      /\ UNCHANGED <<open, gateOf, gates, sizeBuild, swr, superseded, swrCancelled,
                     stale, fresh, answer>>
  BY DEF Build, flags
<1>2. TypeOK'
  <2>1. state' \in [Reads -> States]
    BY <1>1 DEF IInv, TypeOK, States
  <2> QED
    BY <1>1, <2>1, Zenon DEF IInv, TypeOK, States
<1>3. \A s \in Reads : answer'[s] = "superseded" => s \in superseded
  BY <1>1 DEF IInv, NewestInv
<1>4. /\ "build" \in States \ {"unread"} /\ (state[r] \in Bounded <=> "build" \in Bounded)
      /\ state[r] \in Holding
  BY <1>1 DEF States, Bounded, Holding
<1> QED
  BY <1>1, <1>2, <1>3, <1>4, TaskMove

\* Revalidation happens after the answer and outside the gate.
LEMMA RevalidationKeeps ==
  ASSUME IInv, NEW r \in Reads,
         \/ EndRevalidation(r) \/ Recompute(r) \/ Collect(r) \/ Discard(r)
         \/ RevalidationPanics(r)
  PROVE  IInv'
<1> DEFINE After == {"check", "recheck", "pushed", "done"}
<1>0. PICK n \in After :
         /\ state' = [state EXCEPT ![r] = n]
         /\ state[r] \in After
         /\ stale' \in [Reads -> Nat] /\ fresh' \in [Reads -> Nat]
         /\ UNCHANGED <<open, gateOf, gates, sizeBuild, swr, superseded, swrCancelled, answer>>
  <2>0. stale \in [Reads -> Nat] /\ fresh \in [Reads -> Nat]
    BY DEF IInv, TypeOK
  <2>1. CASE EndRevalidation(r)
    <3>1. CASE fresh[r] = 0
      BY <2>0, <2>1, <3>1 DEF EndRevalidation, flags
    <3>2. CASE fresh[r] # 0
      BY <2>0, <2>1, <3>2 DEF EndRevalidation, flags
    <3> QED
      BY <3>1, <3>2
  <2>2. CASE Recompute(r)
    <3>1. stale' \in [Reads -> Nat]
      BY <2>0, <2>2 DEF Recompute
    <3> QED
      BY <2>0, <2>2, <3>1 DEF Recompute, flags
  <2>3. CASE Collect(r)
    <3>1. fresh' \in [Reads -> Nat]
      BY <2>0, <2>3 DEF Collect
    <3> QED
      BY <2>0, <2>3, <3>1 DEF Collect, flags
  <2>4. CASE Discard(r)
    <3>1. CASE fresh[r] = 0
      BY <2>0, <2>4, <3>1 DEF Discard, flags
    <3>2. CASE fresh[r] # 0
      BY <2>0, <2>4, <3>2 DEF Discard, flags
    <3> QED
      BY <3>1, <3>2
  <2>5. CASE RevalidationPanics(r)
    BY <2>0, <2>5 DEF RevalidationPanics, flags
  <2> QED
    BY <2>1, <2>2, <2>3, <2>4, <2>5
<1>1. TypeOK'
  <2>1. state' \in [Reads -> States]
    BY <1>0 DEF IInv, TypeOK, States
  <2> QED
    BY <1>0, <2>1, Zenon DEF IInv, TypeOK, States
<1>2. \A s \in Reads : answer'[s] = "superseded" => s \in superseded
  BY <1>0 DEF IInv, NewestInv
<1>3. /\ n \in States \ {"unread"} /\ n \notin Bounded /\ n \notin Holding
      /\ state[r] # "unread" /\ state[r] \notin Bounded
  BY <1>0 DEF States, Bounded, Holding
<1> QED
  BY <1>0, <1>1, <1>2, <1>3, TaskMove

\* Hiding documents forgets and flags their reads; closing flags them all.
LEMMA CancelKeeps ==
  ASSUME IInv, (\E docs \in SUBSET Docs \ {{}} : Hide(docs)) \/ Close
  PROVE  IInv'
<1>0. UNCHANGED <<state, gateOf, gates, stale, fresh, answer>>
  BY DEF Hide, Close
<1>1. GateInv' /\ PermitInv'
  BY <1>0 DEF IInv, GateInv, PermitInv
<1>2. ASSUME NEW docs \in SUBSET Docs, Hide(docs) PROVE TypeOK' /\ NewestInv'
  <2>1. /\ open' = open /\ open
        /\ superseded' = superseded \cup ({sizeBuild[d] : d \in docs} \ {None})
        /\ swrCancelled' = swrCancelled \cup ({swr[d] : d \in docs} \ {None})
        /\ sizeBuild' = [d \in Docs |-> IF d \in docs THEN None ELSE sizeBuild[d]]
        /\ swr' = [d \in Docs |-> IF d \in docs THEN None ELSE swr[d]]
    BY <1>2 DEF Hide
  <2>2. TypeOK'
    <3>1. /\ sizeBuild' \in [Docs -> Reads \cup {None}]
          /\ swr' \in [Docs -> Reads \cup {None}]
      BY <2>1 DEF IInv, TypeOK
    <3>2. superseded' \subseteq Reads /\ swrCancelled' \subseteq Reads
      BY <2>1 DEF IInv, TypeOK
    <3> QED
      BY <1>0, <2>1, <3>1, <3>2, Zenon DEF IInv, TypeOK
  <2>3. ASSUME NEW s \in Tagged, state[s] # "unread", s \notin superseded'
        PROVE  sizeBuild'[DocOf[s]] = s
    <3>1. sizeBuild[DocOf[s]] = s /\ DocOf[s] \in Docs /\ s # None
      BY <2>1, <2>3, SizeReadsAssumption DEF IInv, NewestInv
    <3>2. DocOf[s] \notin docs
      BY <2>1, <2>3, <3>1
    <3> QED
      BY <2>1, <3>1, <3>2
  <2>4. ASSUME NEW e \in Docs, sizeBuild'[e] # None
        PROVE  /\ DocOf[sizeBuild'[e]] = e
               /\ state[sizeBuild'[e]] # "unread"
               /\ sizeBuild'[e] \notin superseded'
    <3>1. e \notin docs /\ sizeBuild'[e] = sizeBuild[e]
      BY <2>1, <2>4
    <3>2. /\ DocOf[sizeBuild[e]] = e /\ state[sizeBuild[e]] # "unread"
          /\ sizeBuild[e] \notin superseded
      BY <2>1, <2>4, <3>1 DEF IInv, NewestInv
    <3>3. \A d \in docs : sizeBuild[d] # None => sizeBuild[d] # sizeBuild[e]
      BY <3>1, <3>2 DEF IInv, NewestInv
    <3> QED
      BY <2>1, <2>4, <3>1, <3>2, <3>3
  <2>5. \A s \in superseded' : state[s] # "unread"
    BY <2>1 DEF IInv, NewestInv
  <2>6. \A s \in Reads : answer[s] = "superseded" => s \in superseded'
    BY <2>1 DEF IInv, NewestInv
  <2> QED
    BY <1>0, <2>2, <2>3, <2>4, <2>5, <2>6 DEF NewestInv
<1>3. ASSUME Close PROVE TypeOK' /\ NewestInv'
  <2>1. /\ open' = FALSE
        /\ superseded' = superseded \cup ({sizeBuild[d] : d \in Docs} \ {None})
        /\ swrCancelled' = swrCancelled \cup ({swr[d] : d \in Docs} \ {None})
        /\ UNCHANGED <<sizeBuild, swr>>
    BY <1>3 DEF Close
  <2>2. superseded' \subseteq Reads /\ swrCancelled' \subseteq Reads /\ open' \in BOOLEAN
    <3>1. open' \in BOOLEAN
      BY <2>1
    <3>2. superseded' \subseteq Reads /\ swrCancelled' \subseteq Reads
      <4>1. \A d \in Docs : sizeBuild[d] \in Reads \cup {None} /\ swr[d] \in Reads \cup {None}
        BY DEF IInv, TypeOK
      <4>2. superseded \subseteq Reads /\ swrCancelled \subseteq Reads
        BY DEF IInv, TypeOK
      <4> QED
        BY <2>1, <4>1, <4>2
    <3> QED
      BY <3>1, <3>2
  <2>3. TypeOK'
    BY <1>0, <2>1, <2>2, Zenon DEF IInv, TypeOK
  <2>4. \A s \in superseded' : state[s] # "unread"
    BY <2>1 DEF IInv, NewestInv
  <2>5. NewestInv'
    BY <1>0, <2>1, <2>4 DEF IInv, NewestInv
  <2> QED
    BY <2>3, <2>5
<1> QED
  BY <1>1, <1>2, <1>3 DEF IInv

LEMMA NextIInv == IInv /\ [Next]_vars => IInv'
<1> SUFFICES ASSUME IInv, [Next]_vars PROVE IInv'
  OBVIOUS
<1>1. ASSUME NEW r \in Reads, Dispatch(r) PROVE IInv'
  BY <1>1, DispatchTagged, DispatchUntagged
<1>2. ASSUME NEW r \in Reads, Acquire(r) PROVE IInv'
  BY <1>2, AcquireKeeps
<1>3. ASSUME NEW r \in Reads, TaskStep(r) PROVE IInv'
  BY <1>3, AnswerKeeps, BuildKeeps, RevalidationKeeps DEF TaskStep
<1>4. CASE (\E docs \in SUBSET Docs \ {{}} : Hide(docs)) \/ Close
  BY <1>4, CancelKeeps
<1>5. CASE UNCHANGED vars
  <2>1. UNCHANGED <<open, state, gateOf, gates, sizeBuild, swr, superseded, swrCancelled,
                    stale, fresh, answer>>
    BY <1>5 DEF vars, flags
  <2>2. TypeOK'
    BY <2>1, Zenon DEF IInv, TypeOK
  <2>3. GateInv' /\ PermitInv' /\ NewestInv'
    BY <2>1 DEF IInv, GateInv, PermitInv, NewestInv
  <2> QED
    BY <2>2, <2>3 DEF IInv
<1> QED
  BY <1>1, <1>2, <1>3, <1>4, <1>5 DEF Next

\* The inductive invariant holds throughout.
LEMMA Invariant == Spec => []IInv
  BY InitIInv, NextIInv, PTL DEF Spec

\* For any documents and reads, a document never has two combined builds at
\* once, although its gate comes and goes (server.rs:195-227).
THEOREM OneBuildPerDocument == Spec => []OneCombinedBuild
<1>1. IInv => OneCombinedBuild
  <2> SUFFICES ASSUME IInv, NEW r \in Tagged, NEW s \in Tagged, r # s,
                      DocOf[r] = DocOf[s], state[r] = "build", state[s] = "build"
               PROVE  FALSE
    BY DEF OneCombinedBuild
  <2>1. r \in Reads /\ s \in Reads
    BY SizeReadsAssumption
  <2>2. gateOf[r] # None /\ gateOf[r] = gateOf[s]
    BY <2>1 DEF IInv, GateInv, Bounded
  <2> QED
    BY <2>1, <2>2 DEF IInv, PermitInv, Holding
<1> QED
  BY <1>1, Invariant, PTL

\* For any documents and reads, a combined build starts only for the newest
\* interactive read of a document that is still shown (server.rs:229-239).
THEOREM OnlyNewestBuilds == Spec => BuildsAreNewest
<1> DEFINE Starts == \A r \in Tagged :
             state[r] # "build" /\ state'[r] = "build" => sizeBuild[DocOf[r]] = r
<1>1. IInv /\ [Next]_vars => [Starts]_vars
  <2> SUFFICES ASSUME IInv, Next, NEW r \in Tagged,
                      state[r] # "build", state'[r] = "build"
               PROVE  sizeBuild[DocOf[r]] = r
    OBVIOUS
  <2>1. r \in Reads /\ state \in [Reads -> States]
    BY SizeReadsAssumption DEF IInv, TypeOK, States
  <2>2. Build(r)
    <3>1. ASSUME NEW s \in Reads, Dispatch(s) PROVE FALSE
      <4>1. CASE s \in Tagged
        <5>1. state' = [state EXCEPT ![s] = "wait"]
          BY <3>1, <4>1 DEF Dispatch
        <5> QED
          BY <2>1, <5>1
      <4>2. CASE s \notin Tagged
        <5>1. state' = [state EXCEPT ![s] = "build"]
          BY <3>1, <4>2 DEF Dispatch
        <5> QED
          BY <2>1, <4>2, <5>1
      <4> QED
        BY <4>1, <4>2
    <3>2. ASSUME NEW s \in Reads, Acquire(s) PROVE FALSE
      BY <2>1, <3>2 DEF Acquire
    <3>3. ASSUME NEW s \in Reads, TaskStep(s), ~Build(s) PROVE FALSE
      <4>1. PICK n \in {"done", "check", "recheck", "pushed"} :
               state' = [state EXCEPT ![s] = n]
        <5>1. CASE Superseded(s) \/ Panic(s) \/ RevalidationPanics(s)
          BY <5>1 DEF Superseded, Panic, RevalidationPanics
        <5>2. CASE Answer(s)
          BY <5>2 DEF Answer
        <5>3. CASE EndRevalidation(s) \/ Discard(s)
          BY <5>3 DEF EndRevalidation, Discard
        <5>4. CASE Recompute(s) \/ Collect(s)
          BY <5>4 DEF Recompute, Collect
        <5> QED
          BY <3>3, <5>1, <5>2, <5>3, <5>4 DEF TaskStep
      <4> QED
        BY <2>1, <4>1
    <3>4. ASSUME NEW s \in Reads, Build(s) PROVE s = r
      BY <2>1, <3>4 DEF Build
    <3>5. CASE (\E docs \in SUBSET Docs \ {{}} : Hide(docs)) \/ Close
      BY <3>5 DEF Hide, Close
    <3> QED
      BY <3>1, <3>2, <3>3, <3>4, <3>5 DEF Next
  <2>3. state[r] # "unread" /\ r \notin superseded
    BY <2>2 DEF Build
  <2> QED
    BY <2>3 DEF IInv, NewestInv
<1> QED
  BY <1>1, Invariant, PTL DEF Spec, BuildsAreNewest

\* For any documents and reads, the newest read of a shown document is never
\* answered "superseded" (server.rs:1387-1398).
THEOREM NewestNotTurnedAway == Spec => []NewestReadAnswered
<1>1. IInv => NewestReadAnswered
  <2> SUFFICES ASSUME IInv, NEW d \in Docs, sizeBuild[d] # None, open
               PROVE  answer[sizeBuild[d]] # "superseded"
    BY DEF NewestReadAnswered
  <2>1. sizeBuild[d] \in Reads /\ sizeBuild[d] \notin superseded
    BY DEF IInv, TypeOK, NewestInv
  <2> QED
    BY <2>1 DEF IInv, NewestInv
<1> QED
  BY <1>1, Invariant, PTL

(***************************************************************************)
(* Analysis flights.                                                       *)
(***************************************************************************)

\* A thread outside its guard and outside wait_for_result holds no flight.
HeldInv ==
    \A t \in Thread :
        held[t] # NoFlight <=> pc[t] \in Leading \cup {"wait"}

\* A guard that has not run remove_current_flight owns the entry of its key.
RegisteredInv ==
    \A t \in Thread :
        pc[t] \in Registered => flights[want[t]] = held[t]

\* A flight has one leader, in whichever state its guard is.
OneLeaderInv ==
    \A t, u \in Thread :
        /\ pc[t] \in Leading /\ pc[u] \in Leading /\ held[t] = held[u]
        => t = u

\* What the leader's place says about its flight's state.
FlightStateInv ==
    \A t \in Thread :
        /\ pc[t] \in {"compute", "unwind", "close"} =>
              ~closed[held[t]] /\ result[held[t]] = NoResult
        /\ pc[t] \in {"notify", "drop"} =>
              closed[held[t]] /\ result[held[t]] = want[t]
        /\ pc[t] = "alert" =>
              closed[held[t]] /\ result[held[t]] = NoResult

\* A follower's flight, its leader and its result are all of its own key.
FollowerInv ==
    \A t \in Thread :
        pc[t] = "wait" =>
            /\ result[held[t]] \in {want[t], NoResult}
            /\ \A u \in Thread :
                   pc[u] \in Leading /\ held[u] = held[t] => want[u] = want[t]

\* Only followers park.
ParkedInv == \A t \in asleep : pc[t] = "wait"

FlightInv ==
    /\ FlightTypeOK
    /\ HeldInv
    /\ RegisteredInv
    /\ OneLeaderInv
    /\ FlightStateInv
    /\ FollowerInv
    /\ ParkedInv
    /\ NoLeakedFlight
    /\ AnswersOwnKey
    /\ NoLostWakeup

\* The sets of places, unfolded wherever a step moves a thread.
USE DEF Place, Leading, Registered

\* The registry starts empty, with every thread outside run_or_join.
LEMMA InitFlightInv == FlightInit => FlightInv
  BY NoFlightAssumption, NoResultAssumption
  DEF FlightInit, FlightInv, FlightTypeOK, HeldInv, RegisteredInv, OneLeaderInv, FlightStateInv,
      FollowerInv, ParkedInv, NoLeakedFlight, AnswersOwnKey, NoLostWakeup

\* Every step of every thread preserves the inductive invariant.
LEMMA NextFlightInv == FlightInv /\ [FlightNext]_flightVars => FlightInv'
  <1> SUFFICES ASSUME FlightInv, [FlightNext]_flightVars PROVE FlightInv'
    OBVIOUS
  <1> USE NoFlightAssumption, NoResultAssumption
  <1> USE DEF FlightInv, FlightTypeOK, HeldInv, RegisteredInv, OneLeaderInv,
              FlightStateInv, FollowerInv, ParkedInv, NoLeakedFlight,
              AnswersOwnKey, NoLostWakeup
  <1>1. ASSUME NEW t \in Thread, NEW f \in FlightId, ClaimLeader(t, f) PROVE FlightInv'
    BY <1>1 DEF ClaimLeader, Goto, Unreferenced
  <1>2. ASSUME NEW t \in Thread, ClaimFollower(t) PROVE FlightInv'
    BY <1>2 DEF ClaimFollower, Goto
  <1>3. ASSUME NEW t \in Thread, Publish(t) PROVE FlightInv'
    <2> USE <1>3 DEF Publish, Goto
    <2>1. /\ FlightTypeOK' /\ HeldInv' /\ RegisteredInv' /\ OneLeaderInv'
          /\ ParkedInv' /\ NoLeakedFlight' /\ AnswersOwnKey'
      OBVIOUS
    <2>2. FlightStateInv'
      OBVIOUS
    <2>3. FollowerInv'
      OBVIOUS
    <2>4. NoLostWakeup'
      OBVIOUS
    <2> QED  BY <2>1, <2>2, <2>3, <2>4
  <1>4. ASSUME NEW t \in Thread, NotifyPublished(t) PROVE FlightInv'
    BY <1>4 DEF NotifyPublished, Goto, Woken
  <1>5. ASSUME NEW t \in Thread, DropPublished(t) PROVE FlightInv'
    BY <1>5 DEF DropPublished, Goto, RemoveCurrentFlight
  <1>6. ASSUME NEW t \in Thread, DropRemove(t) PROVE FlightInv'
    BY <1>6 DEF DropRemove, Goto, RemoveCurrentFlight
  <1>7. ASSUME NEW t \in Thread, DropClose(t) PROVE FlightInv'
    BY <1>7 DEF DropClose, Goto
  <1>8. ASSUME NEW t \in Thread, NotifyClosed(t) PROVE FlightInv'
    BY <1>8 DEF NotifyClosed, Goto, Woken
  <1>9. ASSUME NEW t \in Thread, Park(t) PROVE FlightInv'
    BY <1>9 DEF Park
  <1>10. ASSUME NEW t \in Thread, JoinResult(t) PROVE FlightInv'
    BY <1>10 DEF JoinResult, Goto
  <1>11. ASSUME NEW t \in Thread, Retry(t) PROVE FlightInv'
    BY <1>11 DEF Retry, Goto
  <1>12. ASSUME NEW t \in Thread, NEW k \in Key, Call(t, k) PROVE FlightInv'
    BY <1>12 DEF Call, Goto
  <1>13. ASSUME NEW t \in Thread, LeaderPanics(t) PROVE FlightInv'
    BY <1>13 DEF LeaderPanics, Goto
  <1>14. ASSUME NEW t \in Thread, SpuriousWake(t) PROVE FlightInv'
    BY <1>14 DEF SpuriousWake
  <1>15. ASSUME NEW t \in Thread, Leave(t) PROVE FlightInv'
    BY <1>15 DEF Leave
  <1>16. CASE UNCHANGED flightVars
    BY <1>16 DEF flightVars
  <1> QED
    BY <1>1, <1>2, <1>3, <1>4, <1>5, <1>6, <1>7, <1>8, <1>9, <1>10, <1>11, <1>12, <1>13, <1>14, <1>15, <1>16, SMTT(40)
    DEF FlightNext, Step

\* FlightInv holds throughout.
LEMMA FlightInvariance == FlightSpec => []FlightInv
  <1>1. FlightInit => FlightInv
    BY InitFlightInv
  <1>2. FlightInv /\ [FlightNext]_flightVars => FlightInv'
    BY NextFlightInv
  <1> QED  BY <1>1, <1>2, PTL DEF FlightSpec

\* Every variable keeps its type.
THEOREM TypeCorrect == FlightSpec => []FlightTypeOK
  <1>1. FlightInv => FlightTypeOK
    BY DEF FlightInv
  <1> QED  BY FlightInvariance, <1>1, PTL

\* At most one compute runs per (key, generation): two leaders in `compute` for
\* one key would both own its single registry entry, and a flight has one leader.
THEOREM SingleFlight == FlightSpec => []OneComputePerKey
  <1>1. FlightInv => OneComputePerKey
    BY DEF FlightInv, RegisteredInv, OneLeaderInv, OneComputePerKey
  <1> QED  BY FlightInvariance, <1>1, PTL

\* No registered flight is dead: the guard of a registered flight is still at a
\* place where the flight is open, or closed with a result.
THEOREM NoDeadFlight == FlightSpec => []DeadFlightUnreachable
  <1>1. FlightInv => DeadFlightUnreachable
    BY NoResultAssumption
    DEF FlightInv, FlightTypeOK, NoLeakedFlight, FlightStateInv, DeadFlightUnreachable
  <1> QED  BY FlightInvariance, <1>1, PTL

\* Every answer was computed for the caller's own key.
THEOREM OwnAnswers == FlightSpec => []AnswersOwnKey
  <1>1. FlightInv => AnswersOwnKey
    BY DEF FlightInv
  <1> QED  BY FlightInvariance, <1>1, PTL

\* The registry never holds an entry nobody will remove, and a follower parked
\* on a closed flight is always about to be notified.
THEOREM NothingStranded == FlightSpec => [](NoLeakedFlight /\ NoLostWakeup)
  <1>1. FlightInv => NoLeakedFlight /\ NoLostWakeup
    BY DEF FlightInv
  <1> QED  BY FlightInvariance, <1>1, PTL

(***************************************************************************)
(* Freshness.  The invariant is written over the disk, the generation and  *)
(* the announced editions as parameters, so that one lemma says what their *)
(* changes leave true of every thread and every stored measurement.        *)
(***************************************************************************)

Disk == [Files -> [ed : Nat, stamp : Nat, here : BOOLEAN, locked : BOOLEAN, gone : Int]]
FilePrint == [path : Files, stamp : Int, hash : Int]
Readings == [Files -> SUBSET Int]
Taken == [kind : {"entry"}, used : Readings, cmp : Readings, blind : SUBSET Files,
          prints : SUBSET FilePrint]
Half == [kind : {"half"}, path : Files, ours : BOOLEAN, stamp : Int, ed : Int]

DiskOK(fl) ==
    /\ fl \in Disk
    /\ \A f \in Files : NoBytes <= fl[f].gone /\ fl[f].gone <= fl[f].ed
                        /\ (~fl[f].here => fl[f].gone = fl[f].ed)

HeldSince(fl, v, f, n) == IF v = NoBytes THEN fl[f].gone >= n ELSE v >= n

\* The hash of a fingerprint was the edition of its file when the file was there.
Truthful(fl, fp) ==
    /\ fp \in FilePrint
    /\ NoHash <= fp.hash /\ fp.hash <= fl[fp.path].ed
    /\ fp.hash >= 0 /\ ~fl[fp.path].here => fp.hash < fl[fp.path].ed
    /\ UnverifiableStamp <= fp.stamp /\ (fp.stamp < 0 => fp.hash = NoHash)

\* An installed file that still has the stamp has the bytes.
StampTells(fl, fp) ==
    fp.path \in Installed =>
      /\ fp.stamp <= fl[fp.path].stamp
      /\ fl[fp.path].here /\ fl[fp.path].stamp = fp.stamp => fl[fp.path].ed <= fp.hash

PrintsOK(fl, prints, blind) ==
    \A fp \in prints :
      /\ Truthful(fl, fp)
      /\ fp.path \in Modules \ blind /\ fp.stamp >= 0 => fp.hash >= 0 /\ StampTells(fl, fp)

\* While the fingerprint holds, so does what was read.
Covers(fl, fp, v) ==
    IF fp.stamp = AbsentStamp THEN v = NoBytes
    ELSE fp.hash >= 0 /\ HeldSince(fl, v, fp.path, fp.hash)

EntryOK(fl, m) ==
    /\ m \in Taken
    /\ PrintsOK(fl, m.prints, m.blind)
    /\ \A f \in Modules \ m.blind : \A v \in Versions(m, f) :
         /\ \E fp \in m.prints : fp.path = f
         /\ \A fp \in m.prints : fp.path = f => Covers(fl, fp, v)

AllSince(fl, m, n) ==
    \A f \in Modules \ m.blind : \A v \in Versions(m, f) : HeldSince(fl, v, f, n[f])

UsedSince(fl, used, n) == \A f \in Files : \A v \in used[f] : HeldSince(fl, v, f, n[f])

StoredOK(fl, g, s) ==
    /\ s = Stored(s.entry, s.gen, s.live)
    /\ s.gen \in Nat /\ s.gen <= g
    /\ s.entry = Nothing => s = NoEntry
    /\ s.entry # Nothing => EntryOK(fl, s.entry)

\* Stamped with this generation: no older than the last completed invalidation.
MemOK(fl, g, an, s) ==
    /\ StoredOK(fl, g, s)
    /\ s.entry # Nothing /\ s.gen = g => AllSince(fl, s.entry, an)

MemoOK(fl, g, an, s) ==
    /\ StoredOK(fl, g, s)
    /\ s.entry # Nothing /\ s.gen = g => UsedSince(fl, s.entry.used, an)

RowOK(fl, m) == m # Nothing => EntryOK(fl, m)

TotalOK(fl, g, an, t) ==
    /\ t = [stored |-> t.stored, sig |-> t.sig]
    /\ StoredOK(fl, g, t.stored)
    /\ t.stored.entry # Nothing =>
         /\ t.sig.gen \in Nat /\ t.sig.gen <= t.stored.gen
         /\ t.sig.gen = g => UsedSince(fl, t.stored.entry.used, an)

(* A thread. *)

Building == {"resolve", "load", "resources", "manifests"}

Fields == {"pc", "reads", "slot", "intent", "entry", "tier", "gen", "live", "todo", "half",
           "prints", "used", "cmp", "blind", "io", "failed", "worst", "again", "since",
           "floor", "status", "sig", "outer"}

Shape(r) ==
    /\ r = [x \in Fields |-> r[x]]
    /\ r.reads \in Nat /\ r.gen \in Nat
    /\ r.prints \subseteq FilePrint /\ r.used \in Readings /\ r.cmp \in Readings /\ r.blind \subseteq Files
    /\ r.since \in [Files -> Nat] /\ r.floor \in [Files -> Nat]

\* The generation a thread took is not ahead; its read began after the
\* invalidations it counts on.
TimesOK(fl, g, an, r) ==
    /\ r.gen <= g
    /\ \A f \in Files : r.floor[f] <= an[f] /\ r.floor[f] <= r.since[f] /\ r.since[f] <= fl[f].ed
    /\ r.slot = "aggregate" /\ r.pc \in Building => r.sig.gen \in Nat /\ r.sig.gen <= r.gen
    /\ r.slot = "aggregate" /\ r.pc = "check" => r.sig.gen \in Nat /\ r.sig.gen <= g

PlaceOK(r) ==
    /\ r.pc \in {"lookup", "probe", "reprobe", "evictRow", "trailing"} => r.slot \in Imports
    /\ r.pc = "get" => r.slot \in Memos
    /\ r.pc = "signature" => r.slot = "aggregate"
    /\ r.pc = "check" =>
         \/ r.tier \in {"memory", "disk", "reprobe"} /\ r.slot \in Imports
         \/ r.tier = "memo" /\ r.slot \in Memos
         \/ r.tier = "total" /\ r.slot = "aggregate"

\* What a comparison made for the analysis o reads is as new as what o read.
Behind(fl, g, an, o, f, v) ==
    o # Nothing =>
      /\ o.gen = g => HeldSince(fl, v, f, an[f])
      /\ \A fp \in o.prints : fp.path = f => HeldSince(fl, v, f, fp.hash)

Verified(fl, g, an, r, f, v) ==
    /\ HeldSince(fl, v, f, r.since[f])
    /\ r.gen = g => HeldSince(fl, v, f, an[f])
    /\ Behind(fl, g, an, r.outer, f, v)

CheckOK(fl, g, an, r) ==
    r.pc = "check" =>
      /\ EntryOK(fl, r.entry)
      /\ r.todo \subseteq r.entry.prints
      /\ r.worst \in {"Stale", "Gone"} => \E fp \in r.entry.prints : fp.hash < fl[fp.path].ed
      /\ r.worst = "Fresh" /\ r.slot # "exports" =>
           \A f \in Modules \ r.entry.blind : \A v \in Versions(r.entry, f) :
             (\E fp \in r.entry.prints \ r.todo : fp.path = f) => Verified(fl, g, an, r, f, v)
      /\ r.slot \in {"exports", "aggregate"} => UsedSince(fl, r.entry.used, r.floor)

\* The fingerprint a build keeps of what it read.
Records(fp, v) ==
    \/ fp.stamp = UnverifiableStamp
    \/ fp.stamp = AbsentStamp /\ v = NoBytes
    \/ fp.stamp >= 0 /\ fp.hash = v /\ v >= 0

ReadsOK(fl, g, an, r) ==
    /\ PrintsOK(fl, r.prints, r.blind)
    /\ \A f \in Files : \A v \in r.used[f] :
         /\ r.gen = g => HeldSince(fl, v, f, an[f])
         /\ Behind(fl, g, an, r.outer, f, v)
    /\ \A f \in Modules \ r.blind : \A v \in r.used[f] :
         \E fp \in r.prints : fp.path = f /\ Records(fp, v)
    /\ \A f \in Modules \ r.blind : \A v \in r.cmp[f] :
         /\ r.gen = g => HeldSince(fl, v, f, an[f])
         /\ \A fp \in r.prints : fp.path = f => HeldSince(fl, v, f, fp.hash)

\* Every module that is not left to load has a fingerprint or is blind.
Looked(r, f) == f \in r.blind \/ \E fp \in r.prints : fp.path = f

HalfOK(fl, r) ==
    r.half # Nothing =>
      /\ r.half \in Half /\ r.half.path \in r.todo
      /\ r.pc # "manifests" => r.half.stamp >= 0 /\ r.half.stamp <= fl[r.half.path].stamp
      /\ r.pc = "manifests" =>
           /\ NoHash <= r.half.ed /\ r.half.ed <= fl[r.half.path].ed
           /\ r.half.ed >= 0 /\ ~fl[r.half.path].here => r.half.ed < fl[r.half.path].ed

PhaseOK(r) ==
    /\ r.pc = "resolve" => r.half = Nothing /\ r.prints = {}
    /\ r.pc \in {"load", "resources"} => r.todo \subseteq Modules
    /\ r.pc = "manifests" => r.todo \subseteq Files /\ r.todo \intersect Modules \subseteq r.blind
    /\ r.pc # "manifests" => r.cmp = [f \in Files |-> {}]
    /\ r.pc = "load" => \A f \in Modules \ r.todo : Looked(r, f)
    /\ r.pc \in {"resources", "manifests"} => \A f \in Modules : Looked(r, f)

BuildOK(fl, g, an, r) ==
    r.pc \in Building =>
      /\ ReadsOK(fl, g, an, r)
      /\ HalfOK(fl, r)
      /\ PhaseOK(r)
      /\ r.outer # Nothing => r.outer.gen <= r.gen

DoneOK(fl, r) ==
    r.pc = "done" /\ r.status = "fresh" =>
      /\ r.entry \in Taken
      /\ r.slot \in Imports =>
           \A f \in Modules \ r.entry.blind : \A v \in Versions(r.entry, f) :
             HeldSince(fl, v, f, IF r.intent = "fresh" \/ r.slot \in FirstParty
                                 THEN r.since[f] ELSE r.floor[f])
      /\ r.slot \in {"exports", "aggregate"} => UsedSince(fl, r.entry.used, r.floor)

\* An analysis that waits for its comparison has loaded everything.
Suspended(fl, g, an, o) ==
    /\ Shape(o) /\ TimesOK(fl, g, an, o) /\ BuildOK(fl, g, an, o)
    /\ o.pc \in {"load", "resources"} /\ o.slot \in Imports
    /\ o.todo = {} /\ o.half = Nothing /\ o.outer = Nothing

ThreadOK(fl, g, an, r) ==
    /\ Shape(r) /\ TimesOK(fl, g, an, r) /\ PlaceOK(r)
    /\ CheckOK(fl, g, an, r) /\ BuildOK(fl, g, an, r) /\ DoneOK(fl, r)
    /\ r.outer # Nothing =>
         /\ Suspended(fl, g, an, r.outer)
         /\ r.slot = "comparison"

HistOK ==
    /\ gen \in Nat /\ gen >= 1
    /\ announced \in [Files -> Nat]
    /\ \A f \in Files : announced[f] <= file[f].ed
    /\ noticed # Nothing =>
         /\ noticed.eds \in [Files -> Nat]
         /\ \A f \in Files : announced[f] <= noticed.eds[f] /\ noticed.eds[f] <= file[f].ed

StoresOK ==
    /\ mem = [k \in Imports |-> mem[k]] /\ \A k \in Imports : MemOK(file, gen, announced, mem[k])
    /\ rows = [k \in Imports |-> rows[k]] /\ \A k \in Imports : RowOK(file, rows[k])
    /\ memo = [s \in Memos |-> memo[s]] /\ \A s \in Memos : MemoOK(file, gen, announced, memo[s])
    /\ TotalOK(file, gen, announced, total)

FreshInv ==
    /\ plan \in Plans
    /\ DiskOK(file) /\ HistOK /\ StoresOK
    /\ proc = [p \in Procs |-> proc[p]]
    /\ \A p \in Procs : ThreadOK(file, gen, announced, proc[p])

(* What the passing of time leaves true. *)

Grown(fl, new) ==
    \A f \in Files :
      /\ fl[f].ed <= new[f].ed /\ fl[f].gone <= new[f].gone /\ fl[f].stamp <= new[f].stamp
      /\ f \in Installed /\ new[f].here /\ new[f].stamp = fl[f].stamp
           => fl[f].here /\ new[f].ed = fl[f].ed
      /\ ~new[f].here => ~fl[f].here \/ fl[f].ed < new[f].ed

LEMMA HeldGrows ==
    ASSUME NEW fl, NEW new, DiskOK(fl), DiskOK(new), Grown(fl, new),
           NEW v \in Int, NEW f \in Files, NEW n \in Int, HeldSince(fl, v, f, n)
    PROVE  HeldSince(new, v, f, n)
BY DEF DiskOK, Disk, Grown, HeldSince, NoBytes

LEMMA HeldLess ==
    ASSUME NEW fl, DiskOK(fl), NEW v \in Int, NEW f \in Files,
           NEW n \in Int, NEW m \in Int, m <= n, HeldSince(fl, v, f, n)
    PROVE  HeldSince(fl, v, f, m)
BY DEF DiskOK, Disk, HeldSince, NoBytes

LEMMA PrintGrows ==
    ASSUME NEW fl, NEW new, DiskOK(fl), DiskOK(new), Grown(fl, new),
           NEW fp, Truthful(fl, fp)
    PROVE  /\ Truthful(new, fp)
           /\ StampTells(fl, fp) => StampTells(new, fp)
BY DEF DiskOK, Disk, Grown, Truthful, StampTells, FilePrint, NoHash

LEMMA PrintsGrow ==
    ASSUME NEW fl, NEW new, DiskOK(fl), DiskOK(new), Grown(fl, new),
           NEW prints, NEW blind, PrintsOK(fl, prints, blind)
    PROVE  PrintsOK(new, prints, blind)
BY PrintGrows DEF PrintsOK

LEMMA CoversGrows ==
    ASSUME NEW fl, NEW new, DiskOK(fl), DiskOK(new), Grown(fl, new),
           NEW fp, fp \in FilePrint, NEW v \in Int, Covers(fl, fp, v)
    PROVE  Covers(new, fp, v)
BY HeldGrows DEF Covers, FilePrint

LEMMA VersionsType ==
    ASSUME NEW m \in Taken, NEW f \in Modules
    PROVE  /\ f \in Files
           /\ \A v \in Versions(m, f) : v \in Int
           /\ m.used[f] \subseteq Versions(m, f)
BY DEF Taken, Readings, Versions, Files

LEMMA EntryGrows ==
    ASSUME NEW fl, NEW new, DiskOK(fl), DiskOK(new), Grown(fl, new),
           NEW m, EntryOK(fl, m)
    PROVE  EntryOK(new, m)
<1>1. m \in Taken /\ PrintsOK(new, m.prints, m.blind)
  BY PrintsGrow DEF EntryOK
<1>2. ASSUME NEW f \in Modules \ m.blind, NEW v \in Versions(m, f)
      PROVE  /\ \E fp \in m.prints : fp.path = f
             /\ \A fp \in m.prints : fp.path = f => Covers(new, fp, v)
  BY <1>1, CoversGrows, VersionsType DEF EntryOK, Taken
<1> QED
  BY <1>1, <1>2 DEF EntryOK

LEMMA SinceGrows ==
    ASSUME NEW fl, NEW new, DiskOK(fl), DiskOK(new), Grown(fl, new),
           NEW n \in [Files -> Nat]
    PROVE  /\ \A m \in Taken : AllSince(fl, m, n) => AllSince(new, m, n)
           /\ \A used \in Readings : UsedSince(fl, used, n) => UsedSince(new, used, n)
<1>1. ASSUME NEW m \in Taken, AllSince(fl, m, n) PROVE AllSince(new, m, n)
  BY <1>1, HeldGrows, VersionsType DEF AllSince
<1>2. ASSUME NEW used \in Readings, UsedSince(fl, used, n) PROVE UsedSince(new, used, n)
  BY <1>2, HeldGrows DEF UsedSince, Readings
<1> QED BY <1>1, <1>2

\* The disk moved on, and an invalidation may have been completed.
Later(fl, g, an, new, h, bn) ==
    /\ DiskOK(fl) /\ DiskOK(new) /\ Grown(fl, new)
    /\ g \in Nat /\ h \in Nat /\ an \in [Files -> Nat] /\ bn \in [Files -> Nat]
    /\ \A f \in Files : an[f] <= bn[f]
    /\ (h = g /\ bn = an) \/ h = g + 1

LEMMA StoredGrows ==
    ASSUME NEW fl, NEW g, NEW an, NEW new, NEW h, NEW bn, Later(fl, g, an, new, h, bn),
           NEW s, StoredOK(fl, g, s)
    PROVE  /\ StoredOK(new, h, s)
           /\ s.gen = h => s.gen = g /\ bn = an
           /\ s.entry # Nothing => s.entry \in Taken /\ s.entry.used \in Readings
<1>1. s.gen <= h /\ (s.gen = h => s.gen = g /\ bn = an)
  BY DEF StoredOK, Later
<1>2. s.entry # Nothing => EntryOK(new, s.entry)
  BY EntryGrows DEF StoredOK, Later
<1>3. s.entry # Nothing => s.entry \in Taken /\ s.entry.used \in Readings
  BY DEF StoredOK, EntryOK, Taken
<1> QED
  BY <1>1, <1>2, <1>3 DEF StoredOK

LEMMA StoresGrow ==
    ASSUME NEW fl, NEW g, NEW an, NEW new, NEW h, NEW bn, Later(fl, g, an, new, h, bn)
    PROVE  /\ \A s : MemOK(fl, g, an, s) => MemOK(new, h, bn, s)
           /\ \A s : MemoOK(fl, g, an, s) => MemoOK(new, h, bn, s)
           /\ \A m : RowOK(fl, m) => RowOK(new, m)
           /\ \A t : TotalOK(fl, g, an, t) => TotalOK(new, h, bn, t)
<1>1. ASSUME NEW s, MemOK(fl, g, an, s) PROVE MemOK(new, h, bn, s)
  <2>1. /\ StoredOK(new, h, s)
        /\ s.gen = h => s.gen = g /\ bn = an
        /\ s.entry # Nothing => s.entry \in Taken /\ s.entry.used \in Readings
    BY <1>1, StoredGrows DEF MemOK
  <2> QED
    BY <1>1, <2>1, SinceGrows DEF MemOK, Later
<1>2. ASSUME NEW s, MemoOK(fl, g, an, s) PROVE MemoOK(new, h, bn, s)
  <2>1. /\ StoredOK(new, h, s)
        /\ s.gen = h => s.gen = g /\ bn = an
        /\ s.entry # Nothing => s.entry \in Taken /\ s.entry.used \in Readings
    BY <1>2, StoredGrows DEF MemoOK
  <2> QED
    BY <1>2, <2>1, SinceGrows DEF MemoOK, Later
<1>3. ASSUME NEW m, RowOK(fl, m) PROVE RowOK(new, m)
  BY <1>3, EntryGrows DEF RowOK, Later
<1>4. ASSUME NEW t, TotalOK(fl, g, an, t) PROVE TotalOK(new, h, bn, t)
  <2>1. StoredOK(new, h, t.stored)
    BY <1>4, StoredGrows DEF TotalOK
  <2>2. ASSUME t.stored.entry # Nothing, t.sig.gen = h
        PROVE  UsedSince(new, t.stored.entry.used, bn)
    <3>1. t.sig.gen = g /\ bn = an
      BY <1>4, <2>2 DEF TotalOK, StoredOK, Later
    <3>2. t.stored.entry.used \in Readings
      BY <1>4, <2>2, StoredGrows DEF TotalOK
    <3> QED
      BY <1>4, <2>2, <3>1, <3>2, SinceGrows DEF TotalOK, Later
  <2> QED
    BY <1>4, <2>1, <2>2 DEF TotalOK
<1> QED
  BY <1>1, <1>2, <1>3, <1>4

LEMMA BehindGrows ==
    ASSUME NEW fl, NEW g, NEW an, NEW new, NEW h, NEW bn, Later(fl, g, an, new, h, bn),
           NEW o, o # Nothing => Shape(o) /\ o.gen <= g,
           NEW f \in Files, NEW v \in Int, Behind(fl, g, an, o, f, v)
    PROVE  Behind(new, h, bn, o, f, v)
<1> SUFFICES ASSUME o # Nothing
             PROVE  /\ o.gen = h => HeldSince(new, v, f, bn[f])
                    /\ \A fp \in o.prints : fp.path = f => HeldSince(new, v, f, fp.hash)
  BY DEF Behind
<1>1. o.gen = h => o.gen = g /\ bn = an
  BY DEF Later, Shape
<1>2. \A fp \in o.prints : fp.hash \in Int
  BY DEF Shape, FilePrint
<1> QED
  BY <1>1, <1>2, HeldGrows DEF Behind, Later

LEMMA ReadsGrow ==
    ASSUME NEW fl, NEW g, NEW an, NEW new, NEW h, NEW bn, Later(fl, g, an, new, h, bn),
           NEW r, Shape(r), r.gen <= g, ReadsOK(fl, g, an, r),
           r.outer # Nothing => Shape(r.outer) /\ r.outer.gen <= g
    PROVE  ReadsOK(new, h, bn, r)
<1>1. PrintsOK(new, r.prints, r.blind)
  BY PrintsGrow DEF ReadsOK, Later
<1>2. r.gen = h => r.gen = g /\ bn = an
  BY DEF Later, Shape
<1>3. /\ \A f \in Files : \A v \in r.used[f] \union r.cmp[f] : v \in Int
      /\ Modules \subseteq Files
      /\ \A fp \in r.prints : fp.hash \in Int
  BY DEF Shape, Readings, Files, FilePrint
<1>4. ASSUME NEW f \in Files, NEW v \in r.used[f]
      PROVE  /\ r.gen = h => HeldSince(new, v, f, bn[f])
             /\ Behind(new, h, bn, r.outer, f, v)
  <2>1. r.gen = h => HeldSince(new, v, f, bn[f])
    BY <1>2, <1>3, HeldGrows DEF ReadsOK, Later
  <2>2. Behind(new, h, bn, r.outer, f, v)
    BY <1>3, BehindGrows DEF ReadsOK
  <2> QED BY <2>1, <2>2
<1>5. ASSUME NEW f \in Modules \ r.blind, NEW v \in r.cmp[f]
      PROVE  /\ r.gen = h => HeldSince(new, v, f, bn[f])
             /\ \A fp \in r.prints : fp.path = f => HeldSince(new, v, f, fp.hash)
  BY <1>2, <1>3, HeldGrows DEF ReadsOK, Later
<1> QED
  BY <1>1, <1>4, <1>5 DEF ReadsOK

LEMMA BuildGrows ==
    ASSUME NEW fl, NEW g, NEW an, NEW new, NEW h, NEW bn, Later(fl, g, an, new, h, bn),
           NEW r, Shape(r), r.gen <= g, BuildOK(fl, g, an, r),
           r.outer # Nothing => Shape(r.outer) /\ r.outer.gen <= g
    PROVE  BuildOK(new, h, bn, r)
<1> SUFFICES ASSUME r.pc \in Building PROVE BuildOK(new, h, bn, r)
  BY DEF BuildOK
<1>1. ReadsOK(new, h, bn, r)
  BY ReadsGrow DEF BuildOK
<1>2. HalfOK(new, r)
  BY DEF BuildOK, HalfOK, Half, Later, DiskOK, Disk, Grown
<1> QED
  BY <1>1, <1>2 DEF BuildOK

LEMMA TimesGrow ==
    ASSUME NEW fl, NEW g, NEW an, NEW new, NEW h, NEW bn, Later(fl, g, an, new, h, bn),
           NEW r, Shape(r), TimesOK(fl, g, an, r)
    PROVE  TimesOK(new, h, bn, r)
<1>1. g <= h /\ r.gen <= h
  BY DEF TimesOK, Later, Shape
<1>2. \A f \in Files : r.floor[f] <= bn[f] /\ r.since[f] <= new[f].ed
  <2>1. r.floor \in [Files -> Nat] /\ r.since \in [Files -> Nat]
    BY DEF Shape
  <2> QED
    BY <2>1 DEF TimesOK, Later, DiskOK, Disk, Grown
<1>3. r.slot = "aggregate" /\ r.pc = "check" => r.sig.gen \in Nat /\ r.sig.gen <= h
  BY <1>1 DEF TimesOK, Later
<1> QED
  BY <1>1, <1>2, <1>3 DEF TimesOK

LEMMA CheckGrows ==
    ASSUME NEW fl, NEW g, NEW an, NEW new, NEW h, NEW bn, Later(fl, g, an, new, h, bn),
           NEW r, Shape(r), r.gen <= g, CheckOK(fl, g, an, r),
           r.outer # Nothing => Shape(r.outer) /\ r.outer.gen <= g
    PROVE  CheckOK(new, h, bn, r)
<1> SUFFICES ASSUME r.pc = "check" PROVE CheckOK(new, h, bn, r)
  BY DEF CheckOK
<1>1. EntryOK(new, r.entry) /\ r.entry \in Taken /\ r.entry.used \in Readings
  BY EntryGrows DEF CheckOK, Later, EntryOK, Taken
<1>2. \A fp \in r.entry.prints : fp.hash < fl[fp.path].ed => fp.hash < new[fp.path].ed
  BY <1>1 DEF Later, DiskOK, Disk, Grown, Taken, FilePrint
<1>3. r.gen = h => r.gen = g /\ bn = an
  BY DEF Later, Shape
<1>4. ASSUME NEW f \in Modules \ r.entry.blind, NEW v \in Versions(r.entry, f),
             Verified(fl, g, an, r, f, v)
      PROVE  Verified(new, h, bn, r, f, v)
  <2>1. f \in Files /\ v \in Int
    BY <1>1, VersionsType
  <2>2. HeldSince(new, v, f, r.since[f])
    BY <1>4, <2>1, HeldGrows DEF Verified, Later, Shape
  <2>3. r.gen = h => HeldSince(new, v, f, bn[f])
    BY <1>3, <1>4, <2>1, HeldGrows DEF Verified, Later
  <2>4. Behind(new, h, bn, r.outer, f, v)
    BY <1>4, <2>1, BehindGrows DEF Verified
  <2> QED
    BY <2>2, <2>3, <2>4 DEF Verified
<1>5. UsedSince(fl, r.entry.used, r.floor) => UsedSince(new, r.entry.used, r.floor)
  BY <1>1, SinceGrows DEF Later, Shape
<1> QED
  BY <1>1, <1>2, <1>4, <1>5 DEF CheckOK

LEMMA ThreadGrows ==
    ASSUME NEW fl, NEW g, NEW an, NEW new, NEW h, NEW bn, Later(fl, g, an, new, h, bn),
           NEW r, ThreadOK(fl, g, an, r)
    PROVE  ThreadOK(new, h, bn, r)
<1>0. Shape(r) /\ r.gen <= g /\ (r.outer # Nothing => Shape(r.outer) /\ r.outer.gen <= g)
  BY DEF ThreadOK, TimesOK, Suspended
<1>1. TimesOK(new, h, bn, r) /\ CheckOK(new, h, bn, r) /\ BuildOK(new, h, bn, r)
  BY <1>0, TimesGrow, CheckGrows, BuildGrows DEF ThreadOK
<1>2. r.outer # Nothing => Suspended(new, h, bn, r.outer)
  BY <1>0, TimesGrow, BuildGrows DEF ThreadOK, Suspended
<1>3. DoneOK(new, r)
  <2> SUFFICES ASSUME r.pc = "done", r.status = "fresh", r.entry \in Taken PROVE DoneOK(new, r)
    BY DEF DoneOK, ThreadOK
  <2>1. ASSUME NEW f \in Modules \ r.entry.blind, NEW v \in Versions(r.entry, f), NEW n \in Int,
               HeldSince(fl, v, f, n)
        PROVE  HeldSince(new, v, f, n)
    BY <2>1, VersionsType, HeldGrows DEF Later
  <2>2. \A f \in Modules : r.since[f] \in Int /\ r.floor[f] \in Int
    BY <1>0 DEF Shape, Files
  <2>3. UsedSince(fl, r.entry.used, r.floor) => UsedSince(new, r.entry.used, r.floor)
    BY <1>0, SinceGrows DEF Later, Shape, Taken
  <2> QED
    BY <2>1, <2>2, <2>3 DEF DoneOK, ThreadOK
<1> QED
  BY <1>1, <1>2, <1>3 DEF ThreadOK

(* One step of a thread. *)

\* What every step of a thread keeps.
Basic(r) ==
    /\ Shape(r)
    /\ \A f \in Files : r.floor[f] <= announced[f] /\ r.floor[f] <= r.since[f]
                        /\ r.since[f] <= file[f].ed
    /\ r.outer # Nothing =>
         /\ Suspended(file, gen, announced, r.outer)
         /\ r.slot = "comparison"

Here(r) == ThreadOK(file, gen, announced, r)

LEMMA ThreadBasic ==
    ASSUME NEW r, Here(r)
    PROVE  Basic(r) /\ r.gen <= gen
BY DEF Here, ThreadOK, Basic, TimesOK

\* A place where nothing is under way.
LEMMA SimplePlace ==
    ASSUME NEW r, Basic(r), r.gen <= gen, r.pc \notin Building \union {"check"}, PlaceOK(r),
           r.pc = "done" => r.status # "fresh"
    PROVE  Here(r)
BY DEF Here, ThreadOK, Basic, TimesOK, CheckOK, BuildOK, DoneOK

LEMMA CheckBegins ==
    ASSUME FreshInv, NEW r, Basic(r), r.gen <= gen, r.pc = "check", PlaceOK(r),
           EntryOK(file, r.entry), r.worst = "Fresh", r.todo \subseteq r.entry.prints,
           r.slot # "exports" => r.todo = r.entry.prints,
           r.slot \in {"exports", "aggregate"} => UsedSince(file, r.entry.used, r.floor),
           r.slot = "aggregate" => r.sig.gen \in Nat /\ r.sig.gen <= gen
    PROVE  Here(r)
<1>1. CheckOK(file, gen, announced, r)
  BY DEF CheckOK
<1> QED
  BY <1>1 DEF Here, ThreadOK, Basic, TimesOK, BuildOK, DoneOK, Building

LEMMA AnalysisFields ==
    ASSUME NEW r, Shape(r), gen \in Nat
    PROVE  LET a == Analysis(r) IN
           /\ Shape(a)
           /\ a.pc = "resolve" /\ a.gen = gen /\ a.half = Nothing /\ a.prints = {}
           /\ a.used = [f \in Files |-> {}] /\ a.cmp = [f \in Files |-> {}]
           /\ a.slot = r.slot /\ a.since = r.since /\ a.floor = r.floor /\ a.sig = r.sig
           /\ a.outer = r.outer
BY DEF Shape, Fields, Analysis, Readings

LEMMA AnalysisBegins ==
    ASSUME FreshInv, NEW r, Basic(r),
           r.slot = "aggregate" => r.sig.gen \in Nat /\ r.sig.gen <= gen
    PROVE  Here(Analysis(r))
<1> DEFINE a == Analysis(r)
<1>0. gen \in Nat /\ gen <= gen
  BY DEF FreshInv, HistOK
<1>1. /\ Shape(a)
      /\ a.pc = "resolve" /\ a.gen = gen /\ a.half = Nothing /\ a.prints = {}
      /\ a.used = [f \in Files |-> {}] /\ a.cmp = [f \in Files |-> {}]
      /\ a.slot = r.slot /\ a.since = r.since /\ a.floor = r.floor /\ a.sig = r.sig
      /\ a.outer = r.outer
  BY <1>0, AnalysisFields DEF Basic
<1> HIDE DEF a
<1>2. Modules \subseteq Files
  BY DEF Files
<1>3. BuildOK(file, gen, announced, a)
  <2>1. ReadsOK(file, gen, announced, a)
    BY <1>1, <1>2 DEF ReadsOK, PrintsOK
  <2>2. HalfOK(file, a) /\ PhaseOK(a)
    BY <1>1 DEF HalfOK, PhaseOK
  <2>3. a.outer # Nothing => a.outer.gen <= a.gen
    BY <1>1 DEF Basic, Suspended, TimesOK
  <2> QED
    BY <2>1, <2>2, <2>3 DEF BuildOK
<1>4. TimesOK(file, gen, announced, a)
  BY <1>0, <1>1 DEF TimesOK, Basic
<1>5. PlaceOK(a) /\ CheckOK(file, gen, announced, a) /\ DoneOK(file, a)
  BY <1>1 DEF PlaceOK, CheckOK, DoneOK
<1> QED
  BY <1>1, <1>3, <1>4, <1>5 DEF Here, ThreadOK, Basic, a

\* Where a thread is put when its step changes nothing else.
LEMMA ThreadSteps ==
    ASSUME FreshInv, NEW p \in Procs, NEW r, Here(r), Set(p, r),
           UNCHANGED <<disk, gen, hist>>, StoresOK'
    PROVE  FreshInv'
<1>1. file' = file /\ plan' = plan /\ gen' = gen /\ announced' = announced /\ noticed' = noticed
  BY DEF disk, hist
<1>2. HistOK' /\ DiskOK(file')
  BY <1>1 DEF FreshInv, HistOK
<1>3. proc' = [q \in Procs |-> proc'[q]] /\ proc'[p] = r /\ \A q \in Procs \ {p} : proc'[q] = proc[q]
  BY DEF Set, FreshInv
<1>4. \A q \in Procs : ThreadOK(file', gen', announced', proc'[q])
  BY <1>1, <1>3 DEF FreshInv, Here
<1> QED
  BY <1>1, <1>2, <1>3, <1>4 DEF FreshInv

LEMMA StoresStay ==
    ASSUME FreshInv, UNCHANGED <<disk, gen, hist>>
    PROVE  /\ UNCHANGED mem => (mem = [k \in Imports |-> mem[k]]
                                /\ \A k \in Imports : MemOK(file, gen, announced, mem[k]))'
           /\ UNCHANGED rows => (rows = [k \in Imports |-> rows[k]]
                                 /\ \A k \in Imports : RowOK(file, rows[k]))'
           /\ UNCHANGED memo => (memo = [s \in Memos |-> memo[s]]
                                 /\ \A s \in Memos : MemoOK(file, gen, announced, memo[s]))'
           /\ UNCHANGED total => TotalOK(file, gen, announced, total)'
           /\ UNCHANGED stores => StoresOK'
<1>1. file' = file /\ gen' = gen /\ announced' = announced
  BY DEF disk, hist
<1> QED
  BY <1>1 DEF FreshInv, StoresOK, stores

\* The facts a step starts from.
LEMMA Facts ==
    ASSUME FreshInv, NEW p \in Procs
    PROVE  /\ gen \in Nat /\ gen >= 1 /\ DiskOK(file) /\ announced \in [Files -> Nat]
           /\ \A f \in Files : announced[f] <= file[f].ed
           /\ Here(proc[p]) /\ Basic(proc[p]) /\ proc[p].gen <= gen /\ proc[p].gen \in Nat
           /\ Shape(proc[p]) /\ PlaceOK(proc[p])
<1>1. Here(proc[p])
  BY DEF FreshInv, Here
<1> QED
  BY <1>1, ThreadBasic DEF FreshInv, HistOK, Here, ThreadOK, Shape

LEMMA BeginFields ==
    ASSUME FreshInv, NEW p \in Procs
    PROVE  LET b == Begin(p) IN
           /\ Shape(b) /\ b.pc = "idle" /\ b.gen = 0 /\ b.outer = Nothing
           /\ b.reads = proc[p].reads /\ b.since = Editions /\ b.floor = announced
           /\ Editions \in [Files -> Nat]
<1>1. proc[p].reads \in Nat /\ announced \in [Files -> Nat] /\ Editions \in [Files -> Nat]
  BY Facts DEF Shape, Editions, DiskOK, Disk
<1> QED
  BY <1>1 DEF Begin, Quiet, Shape, Fields, Readings

LEMMA BeginBasic ==
    ASSUME FreshInv, NEW p \in Procs
    PROVE  Basic(Begin(p))
<1> DEFINE b == Begin(p)
<1>1. /\ Shape(b) /\ b.outer = Nothing /\ b.since = Editions /\ b.floor = announced
  BY BeginFields
<1> HIDE DEF b
<1>2. \A f \in Files : announced[f] <= announced[f] /\ announced[f] <= file[f].ed
                       /\ Editions[f] = file[f].ed /\ file[f].ed <= file[f].ed
  BY Facts DEF Editions, DiskOK, Disk
<1>3. Basic(b)
  BY <1>1, <1>2 DEF Basic
<1> QED
  BY <1>3 DEF b

LEMMA AskKeeps ==
    ASSUME FreshInv, NEW p \in Procs, Ask(p)
    PROVE  FreshInv'
<1> DEFINE ask == plan.asks[p][proc[p].reads + 1]
           place == IF ask[1] \in Imports THEN "lookup" ELSE IF ask[1] \in Memos THEN "get" ELSE "signature"
           b == Begin(p)
           r == [b EXCEPT !.reads = @ + 1, !.slot = ask[1], !.intent = ask[2], !.pc = place]
<1>1. ask[1] \in Slots
  <2>1. plan.asks[p] \in Seq(Slots \X Intents)
    BY SlotsAssumption DEF FreshInv
  <2>2. proc[p].reads \in Nat
    BY Facts DEF Shape
  <2>3. proc[p].reads < Len(plan.asks[p])
    BY DEF Ask
  <2>4. proc[p].reads + 1 \in 1..Len(plan.asks[p])
    BY <2>1, <2>2, <2>3
  <2> QED
    BY <2>1, <2>4
<1>2. Shape(b) /\ b.gen = 0 /\ b.outer = Nothing /\ Basic(b)
  BY BeginFields, BeginBasic
<1>p. /\ place \in {"lookup", "get", "signature"}
      /\ place = "lookup" => ask[1] \in Imports
      /\ place = "get" => ask[1] \in Memos
      /\ place = "signature" => ask[1] = "aggregate"
  BY <1>1 DEF Slots
<1> HIDE DEF ask, b, place
<1>3. /\ Shape(r) /\ r.pc = place /\ r.slot = ask[1] /\ r.gen = b.gen /\ r.outer = b.outer
      /\ r.since = b.since /\ r.floor = b.floor
  <2> DEFINE n == b.reads + 1
             s == ask[1]
             i == ask[2]
             q == [b EXCEPT !.reads = n, !.slot = s, !.intent = i, !.pc = place]
  <2>1. n \in Nat
    BY <1>2 DEF Shape
  <2>2. q = r
    OBVIOUS
  <2> HIDE DEF n, s, i
  <2>3. /\ Shape(q) /\ q.pc = place /\ q.slot = s /\ q.gen = b.gen /\ q.outer = b.outer
        /\ q.since = b.since /\ q.floor = b.floor
    BY <1>2, <2>1 DEF Shape, Fields
  <2> QED
    BY <2>2, <2>3 DEF s
<1>4. Basic(r) /\ r.gen <= gen
  BY <1>2, <1>3, Facts DEF Basic
<1>5. PlaceOK(r)
  BY <1>p, <1>3 DEF PlaceOK
<1> HIDE DEF r
<1>6. Here(r)
  BY <1>p, <1>3, <1>4, <1>5, SimplePlace DEF Building
<1>7. Set(p, r) /\ UNCHANGED <<disk, gen, hist, stores>>
  BY DEF Ask, ask, b, place, r
<1> QED
  BY <1>6, <1>7, ThreadSteps, StoresStay

LEMMA ServesOther ==
    ASSUME FreshInv, NEW p \in Procs, NEW st, st # "fresh", NEW m
    PROVE  Here([proc[p] EXCEPT !.pc = "done", !.status = st, !.entry = m])
<1> DEFINE r == proc[p]
           q == [r EXCEPT !.pc = "done", !.status = st, !.entry = m]
<1>1. Basic(r) /\ r.gen <= gen /\ Shape(r)
  BY Facts
<1>2. /\ Shape(q) /\ q.pc = "done" /\ q.status = st
      /\ q.slot = r.slot /\ q.gen = r.gen /\ q.outer = r.outer
      /\ q.since = r.since /\ q.floor = r.floor
  <2> HIDE DEF r
  <2> QED BY <1>1 DEF Shape, Fields
<1> HIDE DEF q
<1>3. Basic(q) /\ PlaceOK(q)
  BY <1>1, <1>2 DEF Basic, PlaceOK
<1>4. Here(q)
  BY <1>1, <1>2, <1>3, SimplePlace DEF Building
<1> QED
  BY <1>4 DEF q

LEMMA ServesFresh ==
    ASSUME FreshInv, NEW p \in Procs, NEW m \in Taken,
           proc[p].slot \in Imports =>
             \A f \in Modules \ m.blind : \A v \in Versions(m, f) :
               HeldSince(file, v, f, IF proc[p].intent = "fresh" \/ proc[p].slot \in FirstParty
                                     THEN proc[p].since[f] ELSE proc[p].floor[f]),
           proc[p].slot \in {"exports", "aggregate"} => UsedSince(file, m.used, proc[p].floor)
    PROVE  Here([proc[p] EXCEPT !.pc = "done", !.status = "fresh", !.entry = m])
<1> DEFINE r == proc[p]
           q == [r EXCEPT !.pc = "done", !.status = "fresh", !.entry = m]
<1>1. Basic(r) /\ r.gen <= gen /\ Shape(r)
  BY Facts
<1>2. /\ Shape(q) /\ q.pc = "done" /\ q.status = "fresh" /\ q.entry = m
      /\ q.slot = r.slot /\ q.intent = r.intent /\ q.gen = r.gen /\ q.outer = r.outer
      /\ q.since = r.since /\ q.floor = r.floor
  <2> HIDE DEF r
  <2> QED BY <1>1 DEF Shape, Fields
<1> HIDE DEF q
<1>3. Basic(q) /\ PlaceOK(q)
  BY <1>1, <1>2 DEF Basic, PlaceOK
<1>4. DoneOK(file, q)
  BY <1>2 DEF DoneOK
<1>5. TimesOK(file, gen, announced, q) /\ CheckOK(file, gen, announced, q)
      /\ BuildOK(file, gen, announced, q)
  BY <1>1, <1>2, <1>3 DEF TimesOK, Basic, CheckOK, BuildOK, Building
<1>6. Here(q)
  BY <1>3, <1>4, <1>5 DEF Here, ThreadOK, Basic
<1> QED
  BY <1>6 DEF q

LEMMA StoredEntry ==
    ASSUME NEW s, StoredOK(file, gen, s), s # NoEntry
    PROVE  /\ s.entry # Nothing /\ EntryOK(file, s.entry) /\ s.entry \in Taken
           /\ s.entry.used \in Readings /\ s.gen \in Nat /\ s.gen <= gen
BY DEF StoredOK, EntryOK, Taken

LEMMA AllSinceFloor ==
    ASSUME FreshInv, NEW m \in Taken, NEW r, Basic(r)
    PROVE  /\ AllSince(file, m, announced) => AllSince(file, m, r.floor)
           /\ UsedSince(file, m.used, announced) => UsedSince(file, m.used, r.floor)
<1>0. /\ DiskOK(file) /\ Modules \subseteq Files
      /\ \A f \in Files : announced[f] \in Int /\ r.floor[f] \in Int /\ r.floor[f] <= announced[f]
  BY DEF FreshInv, HistOK, Basic, Shape, Files
<1>1. ASSUME AllSince(file, m, announced) PROVE AllSince(file, m, r.floor)
  BY <1>0, <1>1, HeldLess, VersionsType DEF AllSince
<1>2. ASSUME UsedSince(file, m.used, announced) PROVE UsedSince(file, m.used, r.floor)
  <2>1. \A f \in Files : \A v \in m.used[f] : v \in Int
    BY DEF Taken, Readings
  <2> QED
    BY <1>0, <1>2, <2>1, HeldLess DEF UsedSince
<1> QED BY <1>1, <1>2

LEMMA LookupMemoryKeeps ==
    ASSUME FreshInv, NEW p \in Procs, LookupMemory(p)
    PROVE  FreshInv'
<1> DEFINE r == proc[p]
           k == r.slot
           m == mem[k].entry
<1>0. /\ Basic(r) /\ r.gen <= gen /\ Shape(r) /\ gen \in Nat /\ k \in Imports
      /\ r.pc = "lookup"
  BY Facts DEF LookupMemory, At, PlaceOK
<1>1. /\ EntryOK(file, m) /\ m \in Taken
      /\ mem[k].gen = gen => AllSince(file, m, announced)
  BY <1>0, StoredEntry DEF FreshInv, StoresOK, MemOK, LookupMemory
<1>2. StoresOK' /\ UNCHANGED <<disk, gen, hist>>
  BY StoresStay DEF LookupMemory
<1>3. CASE r.intent # "fresh" /\ k \notin FirstParty /\ is_current(k)
  <2>1. AllSince(file, m, r.floor)
    BY <1>0, <1>1, <1>3, AllSinceFloor DEF is_current
  <2>2. k \notin {"exports", "aggregate"}
    BY <1>0, SlotsAssumption DEF Memos
  <2> DEFINE q == [r EXCEPT !.pc = "done", !.status = "fresh", !.entry = m]
  <2>3. Here(q)
    BY <1>0, <1>1, <1>3, <2>1, <2>2, ServesFresh DEF AllSince
  <2>4. Set(p, q)
    BY <1>3 DEF LookupMemory, Serve
  <2> QED
    BY <1>2, <2>3, <2>4, ThreadSteps
<1>4. CASE ~(r.intent # "fresh" /\ k \notin FirstParty /\ is_current(k))
  <2> DEFINE q == [r EXCEPT !.pc = "check", !.tier = "memory", !.entry = m,
                            !.todo = m.prints, !.worst = "Fresh", !.gen = gen]
  <2>1. /\ Shape(q) /\ q.pc = "check" /\ q.tier = "memory" /\ q.entry = m /\ q.todo = m.prints
        /\ q.worst = "Fresh" /\ q.gen = gen
        /\ q.slot = r.slot /\ q.outer = r.outer /\ q.sig = r.sig
        /\ q.since = r.since /\ q.floor = r.floor
    <3> HIDE DEF r, m
    <3> QED BY <1>0 DEF Shape, Fields
  <2>2. Set(p, q)
    BY <1>4 DEF LookupMemory
  <2>3. k \notin {"exports", "aggregate"}
    BY <1>0, SlotsAssumption DEF Memos
  <2> HIDE DEF q
  <2>4. Basic(q) /\ PlaceOK(q) /\ q.gen <= gen
    BY <1>0, <2>1 DEF Basic, PlaceOK
  <2>5. Here(q)
    BY <1>1, <2>1, <2>3, <2>4, CheckBegins
  <2> QED
    BY <1>2, <2>2, <2>5, ThreadSteps
<1> QED
  BY <1>3, <1>4

LEMMA AnalysisHere ==
    ASSUME FreshInv, NEW p \in Procs, proc[p].slot \in Imports \union Memos
    PROVE  Here(Analysis(proc[p]))
<1>1. proc[p].slot # "aggregate"
  BY SlotsAssumption DEF Memos
<1> QED
  BY <1>1, Facts, AnalysisBegins

LEMMA MovesOn ==
    ASSUME FreshInv, NEW p \in Procs, proc[p].slot \in Imports,
           NEW c \in {"reprobe", "evictRow", "trailing"}
    PROVE  Here([proc[p] EXCEPT !.pc = c])
<1> DEFINE r == proc[p]
           q == [r EXCEPT !.pc = c]
<1>1. Basic(r) /\ r.gen <= gen /\ Shape(r) /\ r.slot \in Imports
  BY Facts
<1>2. /\ Shape(q) /\ q.pc = c /\ q.slot = r.slot /\ q.gen = r.gen /\ q.outer = r.outer
      /\ q.since = r.since /\ q.floor = r.floor
  <2> HIDE DEF r
  <2> QED BY <1>1 DEF Shape, Fields
<1> HIDE DEF q
<1>3. Basic(q) /\ PlaceOK(q)
  BY <1>1, <1>2 DEF Basic, PlaceOK
<1>4. Here(q)
  BY <1>1, <1>2, <1>3, SimplePlace DEF Building
<1> QED
  BY <1>4 DEF q

LEMMA LookupMissKeeps ==
    ASSUME FreshInv, NEW p \in Procs, LookupMiss(p)
    PROVE  FreshInv'
<1> DEFINE r == proc[p]
           q == [r EXCEPT !.pc = "probe", !.gen = gen]
<1>1. Basic(r) /\ Shape(r) /\ r.slot \in Imports /\ gen \in Nat
  BY Facts DEF LookupMiss, At, PlaceOK
<1>2. /\ Shape(q) /\ q.pc = "probe" /\ q.slot = r.slot /\ q.gen = gen /\ q.outer = r.outer
      /\ q.since = r.since /\ q.floor = r.floor
  <2> HIDE DEF r
  <2> QED BY <1>1 DEF Shape, Fields
<1>3. Set(p, q) /\ StoresOK' /\ UNCHANGED <<disk, gen, hist>>
  BY StoresStay DEF LookupMiss
<1> HIDE DEF q
<1>4. Basic(q) /\ PlaceOK(q) /\ q.gen <= gen
  BY <1>1, <1>2 DEF Basic, PlaceOK
<1>5. Here(q)
  BY <1>2, <1>4, SimplePlace DEF Building
<1> QED
  BY <1>3, <1>5, ThreadSteps

\* A check of a stored measurement m under the generation the thread has.
LEMMA ChecksStored ==
    ASSUME FreshInv, NEW p \in Procs, NEW m, EntryOK(file, m), NEW tier \in {"disk", "reprobe"},
           proc[p].slot \in Imports
    PROVE  Here([proc[p] EXCEPT !.pc = "check", !.tier = tier, !.entry = m, !.todo = m.prints,
                                !.worst = "Fresh"])
<1> DEFINE r == proc[p]
           q == [r EXCEPT !.pc = "check", !.tier = tier, !.entry = m, !.todo = m.prints,
                          !.worst = "Fresh"]
<1>1. Basic(r) /\ r.gen <= gen /\ Shape(r) /\ r.slot \in Imports
  BY Facts
<1>2. /\ Shape(q) /\ q.pc = "check" /\ q.tier = tier /\ q.entry = m /\ q.todo = m.prints
      /\ q.worst = "Fresh" /\ q.gen = r.gen
      /\ q.slot = r.slot /\ q.outer = r.outer /\ q.since = r.since /\ q.floor = r.floor
  <2> HIDE DEF r
  <2> QED BY <1>1 DEF Shape, Fields
<1>3. r.slot \notin {"exports", "aggregate"}
  BY <1>1, SlotsAssumption DEF Memos
<1> HIDE DEF q
<1>4. Basic(q) /\ PlaceOK(q)
  BY <1>1, <1>2 DEF Basic, PlaceOK
<1>5. Here(q)
  BY <1>1, <1>2, <1>3, <1>4, CheckBegins
<1> QED
  BY <1>5 DEF q

LEMMA ProbeRowKeeps ==
    ASSUME FreshInv, NEW p \in Procs, ProbeRow(p)
    PROVE  FreshInv'
<1> DEFINE r == proc[p]
           m == rows[r.slot]
<1>1. r.slot \in Imports
  BY Facts DEF ProbeRow, At, PlaceOK
<1>2. StoresOK' /\ UNCHANGED <<disk, gen, hist>>
  BY StoresStay DEF ProbeRow
<1>3. CASE m = Nothing
  BY <1>1, <1>2, <1>3, AnalysisHere, ThreadSteps DEF ProbeRow
<1>4. CASE m # Nothing
  <2> DEFINE q == [r EXCEPT !.pc = "check", !.tier = "disk", !.entry = m, !.todo = m.prints,
                            !.worst = "Fresh"]
  <2>1. EntryOK(file, m)
    BY <1>1, <1>4 DEF FreshInv, StoresOK, RowOK
  <2>2. Here(q)
    BY <1>1, <2>1, ChecksStored
  <2>3. Set(p, q)
    BY <1>4 DEF ProbeRow
  <2> QED
    BY <1>2, <2>2, <2>3, ThreadSteps
<1> QED
  BY <1>3, <1>4

(* Checks. *)

\* A fingerprint that is found fresh vouches for what it covers, now.
LEMMA FreshNow ==
    ASSUME DiskOK(file), NEW fp, NEW blind, PrintsOK(file, {fp}, blind),
           fp.path \in Modules \ blind, NEW v \in Int, Covers(file, fp, v),
           check_one(fp) = "Fresh"
    PROVE  HeldSince(file, v, fp.path, file[fp.path].ed)
<1> DEFINE f == fp.path
           d == file[f]
<1>1. /\ fp \in FilePrint /\ f \in Files /\ d.ed \in Nat /\ d.gone \in Int
      /\ ~d.here => d.gone = d.ed
      /\ fp.stamp < 0 => fp.hash = NoHash
      /\ fp.stamp >= 0 => StampTells(file, fp)
  BY DEF PrintsOK, Truthful, DiskOK, Disk, FilePrint
<1>2. CASE fp.stamp = AbsentStamp
  <2>1. v = NoBytes /\ fp.hash = NoHash
    BY <1>1, <1>2 DEF Covers, AbsentStamp
  <2>2. ~d.here
    BY <1>1, <1>2, <2>1 DEF check_one, check_fingerprint_strict, check_fingerprint
  <2> QED
    BY <1>1, <2>1, <2>2 DEF HeldSince
<1>3. CASE fp.stamp # AbsentStamp
  <2>1. fp.hash >= 0 /\ HeldSince(file, v, f, fp.hash) /\ fp.stamp >= 0 /\ fp.hash \in Int
    BY <1>1, <1>3 DEF Covers, NoHash, FilePrint
  <2>2. fp.hash # NoHash
    BY <2>1 DEF NoHash
  <2>3. d.ed <= fp.hash
    <3>1. CASE d.ed = fp.hash
      BY <1>1, <3>1
    <3>2. CASE d.ed # fp.hash
      <4>1. fp.path \in Installed /\ d.here /\ d.stamp = fp.stamp
        BY <1>1, <1>3, <2>2, <3>2 DEF check_one, check_fingerprint_strict, check_fingerprint,
             verify_content_hash, classify_stat_error, Readable
      <4> QED
        BY <1>1, <2>1, <4>1 DEF StampTells
    <3> QED BY <3>1, <3>2
  <2> QED
    BY <1>1, <2>1, <2>3, HeldLess
<1> QED
  BY <1>2, <1>3

\* A file that was found changed stays changed.
LEMMA ChangedNow ==
    ASSUME DiskOK(file), NEW fp, Truthful(file, fp), check_one(fp) \in {"Stale", "Gone"}
    PROVE  fp.hash < file[fp.path].ed
<1>1. /\ fp \in FilePrint /\ fp.path \in Files /\ fp.hash \in Int /\ file[fp.path].ed \in Nat
      /\ NoHash <= fp.hash /\ fp.hash <= file[fp.path].ed
      /\ fp.hash >= 0 /\ ~file[fp.path].here => fp.hash < file[fp.path].ed
  BY DEF Truthful, DiskOK, Disk, FilePrint
<1>2. CASE fp.hash = NoHash
  BY <1>1, <1>2 DEF NoHash
<1>3. CASE fp.hash # NoHash
  <2>1. fp.hash >= 0
    BY <1>1, <1>3 DEF NoHash
  <2>2. ~file[fp.path].here \/ file[fp.path].ed # fp.hash
    BY <1>3 DEF check_one, check_fingerprint_strict, check_fingerprint,
         verify_content_hash, classify_stat_error, Readable
  <2> QED
    BY <1>1, <2>1, <2>2
<1> QED BY <1>2, <1>3

LEMMA Verdicts ==
    ASSUME NEW fp
    PROVE  check_one(fp) \in {"Fresh", "Stale", "Gone", "Unknown"}
BY DEF check_one, check_fingerprint_strict, check_fingerprint, verify_content_hash,
     classify_stat_error

\* What is so now is as new as anything the thread has to answer for.
LEMMA NowVerified ==
    ASSUME FreshInv, NEW r, Basic(r), NEW f \in Files, NEW v \in Int,
           HeldSince(file, v, f, file[f].ed)
    PROVE  /\ Verified(file, gen, announced, r, f, v)
           /\ HeldSince(file, v, f, announced[f])
           /\ Behind(file, gen, announced, r.outer, f, v)
<1>1. /\ DiskOK(file) /\ file[f].ed \in Int
      /\ announced[f] \in Int /\ announced[f] <= file[f].ed
      /\ r.since[f] \in Int /\ r.since[f] <= file[f].ed
  BY DEF FreshInv, HistOK, Basic, Shape, DiskOK, Disk
<1>2. HeldSince(file, v, f, announced[f]) /\ HeldSince(file, v, f, r.since[f])
  BY <1>1, HeldLess
<1>3. Behind(file, gen, announced, r.outer, f, v)
  <2> SUFFICES ASSUME r.outer # Nothing,
                      NEW fp \in r.outer.prints, fp.path = f
               PROVE  HeldSince(file, v, f, fp.hash)
    BY <1>2 DEF Behind
  <2>1. Truthful(file, fp)
    BY DEF Basic, Suspended, BuildOK, Building, ReadsOK, PrintsOK
  <2>2. fp.hash \in Int /\ fp.hash <= file[f].ed
    BY <2>1 DEF Truthful, FilePrint
  <2> QED
    BY <1>1, <2>2, HeldLess
<1> QED
  BY <1>2, <1>3 DEF Verified

LEMMA CheckFileKeeps ==
    ASSUME FreshInv, NEW p \in Procs, CheckFile(p)
    PROVE  FreshInv'
<1> DEFINE r == proc[p]
           m == r.entry
<1>0. PICK fp \in r.todo :
        LET w == Worse(r.worst, check_one(fp)) IN
        Set(p, [r EXCEPT !.worst = w, !.todo = IF w = "Unknown" THEN {} ELSE r.todo \ {fp}])
  BY DEF CheckFile
<1> DEFINE w == Worse(r.worst, check_one(fp))
           td == IF w = "Unknown" THEN {} ELSE r.todo \ {fp}
           q == [r EXCEPT !.worst = w, !.todo = td]
<1>1. /\ Basic(r) /\ r.gen <= gen /\ Shape(r) /\ PlaceOK(r) /\ r.pc = "check"
      /\ CheckOK(file, gen, announced, r) /\ TimesOK(file, gen, announced, r)
      /\ DiskOK(file)
  BY Facts DEF CheckFile, At, Here, ThreadOK
<1>2. /\ EntryOK(file, m) /\ m \in Taken /\ r.todo \subseteq m.prints /\ fp \in m.prints
      /\ PrintsOK(file, m.prints, m.blind)
  BY <1>1 DEF CheckOK, EntryOK
<1>3. Set(p, q) /\ StoresOK' /\ UNCHANGED <<disk, gen, hist>>
  BY <1>0, StoresStay DEF CheckFile
<1>4. td \subseteq m.prints
  BY <1>2
<1>5. w \in {"Stale", "Gone"} => \E x \in m.prints : x.hash < file[x.path].ed
  <2>1. CASE r.worst \in {"Stale", "Gone"}
    BY <1>1, <2>1 DEF CheckOK
  <2>2. CASE check_one(fp) \in {"Stale", "Gone"}
    BY <1>1, <1>2, <2>2, ChangedNow DEF PrintsOK
  <2>3. CASE r.worst \notin {"Stale", "Gone"} /\ check_one(fp) \notin {"Stale", "Gone"}
    BY <2>3, Verdicts DEF Worse
  <2> QED BY <2>1, <2>2, <2>3
<1>6. ASSUME w = "Fresh", r.slot # "exports",
             NEW f \in Modules \ m.blind, NEW v \in Versions(m, f),
             NEW x \in m.prints \ td, x.path = f
      PROVE  Verified(file, gen, announced, r, f, v)
  <2>1. r.worst = "Fresh" /\ check_one(fp) = "Fresh" /\ td = r.todo \ {fp}
    BY <1>6, Verdicts DEF Worse
  <2>2. f \in Files /\ v \in Int
    BY <1>2, VersionsType
  <2>3. CASE x \notin r.todo
    BY <1>1, <1>6, <2>1, <2>3 DEF CheckOK
  <2>4. CASE x \in r.todo
    <3>1. x = fp
      BY <1>6, <2>1, <2>4
    <3>2. Covers(file, fp, v) /\ PrintsOK(file, {fp}, m.blind) /\ fp.path \in Modules \ m.blind
      BY <1>2, <1>6, <3>1 DEF EntryOK, PrintsOK
    <3>3. HeldSince(file, v, f, file[f].ed)
      BY <1>1, <1>6, <2>1, <2>2, <3>1, <3>2, FreshNow
    <3> QED
      BY <1>1, <2>2, <3>3, NowVerified
  <2> QED BY <2>3, <2>4
<1> HIDE DEF w, td
<1>7. /\ Shape(q) /\ q.pc = r.pc /\ q.worst = w /\ q.todo = td /\ q.entry = r.entry /\ q.tier = r.tier
      /\ q.slot = r.slot /\ q.gen = r.gen /\ q.outer = r.outer /\ q.sig = r.sig
      /\ q.since = r.since /\ q.floor = r.floor
  <2> HIDE DEF r
  <2> QED BY <1>1 DEF Shape, Fields
<1> HIDE DEF q
<1>8. CheckOK(file, gen, announced, q)
  <2>1. \A f, v : Verified(file, gen, announced, r, f, v) => Verified(file, gen, announced, q, f, v)
    BY <1>7 DEF Verified
  <2>2. q.slot \in {"exports", "aggregate"} => UsedSince(file, q.entry.used, q.floor)
    BY <1>1, <1>7 DEF CheckOK
  <2> QED
    BY <1>2, <1>4, <1>5, <1>6, <1>7, <2>1, <2>2 DEF CheckOK
<1>9. Here(q)
  <2>1. TimesOK(file, gen, announced, q) /\ PlaceOK(q) /\ BuildOK(file, gen, announced, q)
        /\ DoneOK(file, q)
    BY <1>1, <1>7 DEF TimesOK, PlaceOK, BuildOK, Building, DoneOK
  <2> QED
    BY <1>1, <1>7, <1>8, <2>1 DEF Here, ThreadOK, Basic
<1> QED
  BY <1>3, <1>9, ThreadSteps

\* A check that ended well vouches for everything the measurement was made of.
LEMMA CheckPassed ==
    ASSUME FreshInv, NEW p \in Procs, At(p, "check"), proc[p].todo = {},
           proc[p].worst = "Fresh", proc[p].slot # "exports"
    PROVE  LET r == proc[p] IN
           /\ \A f \in Modules \ r.entry.blind : \A v \in Versions(r.entry, f) :
                /\ f \in Files /\ v \in Int
                /\ Verified(file, gen, announced, r, f, v)
           /\ r.gen = gen => AllSince(file, r.entry, announced)
           /\ AllSince(file, r.entry, r.since) /\ AllSince(file, r.entry, r.floor)
<1> DEFINE r == proc[p]
<1>1. /\ CheckOK(file, gen, announced, r) /\ Basic(r) /\ DiskOK(file) /\ r.pc = "check"
  BY Facts DEF Here, ThreadOK, At
<1>2. r.entry \in Taken /\ EntryOK(file, r.entry)
  BY <1>1 DEF CheckOK, EntryOK
<1>3. ASSUME NEW f \in Modules \ r.entry.blind, NEW v \in Versions(r.entry, f)
      PROVE  /\ f \in Files /\ v \in Int
             /\ Verified(file, gen, announced, r, f, v)
             /\ HeldSince(file, v, f, r.since[f]) /\ HeldSince(file, v, f, r.floor[f])
             /\ r.gen = gen => HeldSince(file, v, f, announced[f])
  <2>1. f \in Files /\ v \in Int
    BY <1>2, VersionsType
  <2>2. Verified(file, gen, announced, r, f, v)
    BY <1>1, <1>2 DEF CheckOK, EntryOK
  <2>3. r.since[f] \in Int /\ r.floor[f] \in Int /\ r.floor[f] <= r.since[f]
    BY <1>1, <2>1 DEF Basic, Shape
  <2> QED
    BY <1>1, <2>1, <2>2, <2>3, HeldLess DEF Verified
<1> QED
  BY <1>3 DEF AllSince

LEMMA PutMem ==
    ASSUME FreshInv, UNCHANGED <<disk, gen, hist>>, UNCHANGED <<rows, memo, total>>,
           NEW k \in Imports, NEW s, MemOK(file, gen, announced, s), mem' = [mem EXCEPT ![k] = s]
    PROVE  StoresOK'
<1>1. file' = file /\ gen' = gen /\ announced' = announced
  BY DEF disk, hist
<1>2. mem' = [j \in Imports |-> mem'[j]] /\ mem'[k] = s /\ \A j \in Imports \ {k} : mem'[j] = mem[j]
  BY DEF FreshInv, StoresOK
<1>3. \A j \in Imports : MemOK(file', gen', announced', mem'[j])
  BY <1>1, <1>2 DEF FreshInv, StoresOK
<1> QED
  BY <1>1, <1>2, <1>3 DEF FreshInv, StoresOK

LEMMA PutRow ==
    ASSUME FreshInv, UNCHANGED <<disk, gen, hist>>, UNCHANGED <<mem, memo, total>>,
           NEW k \in Imports, NEW m, RowOK(file, m), rows' = [rows EXCEPT ![k] = m]
    PROVE  StoresOK'
<1>1. file' = file /\ gen' = gen /\ announced' = announced
  BY DEF disk, hist
<1>2. rows' = [j \in Imports |-> rows'[j]] /\ rows'[k] = m /\ \A j \in Imports \ {k} : rows'[j] = rows[j]
  BY DEF FreshInv, StoresOK
<1> QED
  BY <1>1, <1>2 DEF FreshInv, StoresOK

LEMMA NoEntryOK ==
    ASSUME FreshInv
    PROVE  /\ MemOK(file, gen, announced, NoEntry) /\ MemoOK(file, gen, announced, NoEntry)
           /\ NoEntry.entry = Nothing /\ RowOK(file, Nothing)
<1>1. NoEntry = [entry |-> Nothing, gen |-> 0, live |-> FALSE]
  BY DEF NoEntry, Stored
<1>2. NoEntry.entry = Nothing /\ NoEntry.gen = 0 /\ NoEntry.live = FALSE
  BY <1>1
<1>3. StoredOK(file, gen, NoEntry)
  BY <1>1, <1>2 DEF StoredOK, FreshInv, HistOK, Stored
<1> QED
  BY <1>2, <1>3 DEF MemOK, MemoOK, RowOK

LEMMA StoredFields ==
    ASSUME NEW m, NEW g, NEW live
    PROVE  LET s == Stored(m, g, live) IN
           s.entry = m /\ s.gen = g /\ s.live = live /\ s = Stored(s.entry, s.gen, s.live)
BY DEF Stored

LEMMA StampedOK ==
    ASSUME FreshInv, NEW m, EntryOK(file, m), NEW g \in Nat, g <= gen, NEW live,
           g = gen => AllSince(file, m, announced)
    PROVE  MemOK(file, gen, announced, Stored(m, g, live))
<1> DEFINE s == Stored(m, g, live)
<1>1. s.entry = m /\ s.gen = g /\ s = Stored(s.entry, s.gen, s.live)
  BY StoredFields
<1>2. m # Nothing
  BY DEF EntryOK, Taken, Nothing
<1> HIDE DEF s
<1>3. MemOK(file, gen, announced, s)
  BY <1>1, <1>2 DEF MemOK, StoredOK
<1> QED
  BY <1>3 DEF s

LEMMA ServeFreshKeeps ==
    ASSUME FreshInv, NEW p \in Procs, ServeFresh(p)
    PROVE  FreshInv'
<1> DEFINE r == proc[p]
           k == r.slot
           m == r.entry
           q == [r EXCEPT !.pc = "done", !.status = "fresh", !.entry = m]
<1>1. /\ At(p, "check") /\ r.pc = "check" /\ r.todo = {} /\ r.worst = "Fresh" /\ r.tier = "memory"
      /\ CheckOK(file, gen, announced, r) /\ r.gen \in Nat /\ r.gen <= gen
  BY Facts DEF ServeFresh, Checked, At, Here, ThreadOK
<1>2. k \in Imports
  BY <1>1, Facts DEF PlaceOK
<1>3. k \notin {"exports", "aggregate"}
  BY <1>2, SlotsAssumption DEF Memos
<1>4. /\ EntryOK(file, m) /\ m \in Taken
      /\ r.gen = gen => AllSince(file, m, announced)
      /\ AllSince(file, m, r.since) /\ AllSince(file, m, r.floor)
  BY <1>1, <1>3, CheckPassed DEF CheckOK, EntryOK
<1>5. Here(q)
  BY <1>3, <1>4, ServesFresh DEF AllSince
<1>6. Set(p, q) /\ UNCHANGED <<disk, gen, hist>> /\ UNCHANGED <<rows, memo, total>>
  BY DEF ServeFresh, Serve
<1>7. StoresOK'
  <2>1. CASE k \notin FirstParty /\ SameEntry(p)
    <3> DEFINE s == Stored(m, r.gen, TRUE)
    <3>1. StoredOK(file, gen, mem[k]) /\ mem[k].entry = m
      BY <1>2, <2>1 DEF FreshInv, StoresOK, MemOK, SameEntry
    <3>2. mem' = [mem EXCEPT ![k] = s]
      <4>1. mem' = [mem EXCEPT ![k].gen = r.gen, ![k].live = TRUE]
        BY <2>1 DEF ServeFresh, Restamp, RestampWith
      <4>2. mem[k] = [entry |-> m, gen |-> mem[k].gen, live |-> mem[k].live]
        BY <3>1 DEF StoredOK, Stored
      <4>3. mem = [j \in Imports |-> mem[j]]
        BY DEF FreshInv, StoresOK
      <4>5. [[mem[k] EXCEPT !.gen = r.gen] EXCEPT !.live = TRUE] = s
        <5> DEFINE o == mem[k]
                   g == o.gen
                   b == o.live
                   h == r.gen
                   n == [[o EXCEPT !.gen = h] EXCEPT !.live = TRUE]
        <5>1. o = [entry |-> m, gen |-> g, live |-> b] /\ n = [[o EXCEPT !.gen = h] EXCEPT !.live = TRUE]
          BY <4>2
        <5> HIDE DEF n, h, g, b, o, m
        <5>2. n = [entry |-> m, gen |-> h, live |-> TRUE]
          BY <5>1
        <5> QED
          BY <5>2 DEF n, h, o, m, Stored
      <4> QED
        BY <1>2, <4>1, <4>3, <4>5
    <3>3. MemOK(file, gen, announced, s)
      BY <1>1, <1>4, StampedOK
    <3> QED
      BY <1>2, <1>6, <3>2, <3>3, PutMem
  <2>2. CASE ~(k \notin FirstParty /\ SameEntry(p))
    <3>1. UNCHANGED stores
      BY <1>6, <2>2 DEF ServeFresh, Restamp, RestampWith, stores
    <3> QED
      BY <1>6, <3>1, StoresStay
  <2> QED BY <2>1, <2>2
<1> QED
  BY <1>5, <1>6, <1>7, ThreadSteps

LEMMA ServeUnknownKeeps ==
    ASSUME FreshInv, NEW p \in Procs, ServeUnknown(p)
    PROVE  FreshInv'
<1> DEFINE r == proc[p]
<1>1. r.slot \in Imports
  BY Facts DEF ServeUnknown, Checked, At, PlaceOK
<1>2. StoresOK' /\ UNCHANGED <<disk, gen, hist>>
  BY StoresStay DEF ServeUnknown
<1>3. CASE r.intent = "fresh"
  BY <1>1, <1>2, <1>3, AnalysisHere, ThreadSteps DEF ServeUnknown
<1>4. CASE r.intent # "fresh"
  <2> DEFINE q == [r EXCEPT !.pc = "done", !.status = "unknown", !.entry = r.entry]
  <2>1. Set(p, q)
    BY <1>4 DEF ServeUnknown, Serve
  <2>2. Here(q)
    BY ServesOther
  <2> QED
    BY <1>2, <2>1, <2>2, ThreadSteps
<1> QED BY <1>3, <1>4

LEMMA ServeStaleKeeps ==
    ASSUME FreshInv, NEW p \in Procs, ServeStale(p)
    PROVE  FreshInv'
<1> DEFINE q == [proc[p] EXCEPT !.pc = "reprobe"]
<1>1. proc[p].slot \in Imports
  BY Facts DEF ServeStale, Checked, At, PlaceOK
<1>2. StoresOK' /\ UNCHANGED <<disk, gen, hist>> /\ Set(p, q)
  BY StoresStay DEF ServeStale
<1>3. Here(q)
  BY <1>1, MovesOn
<1> QED
  BY <1>2, <1>3, ThreadSteps

LEMMA EvictKeeps ==
    ASSUME FreshInv, NEW p \in Procs, Evict(p)
    PROVE  FreshInv'
<1> DEFINE k == proc[p].slot
           q == [proc[p] EXCEPT !.pc = "evictRow"]
<1>1. k \in Imports
  BY Facts DEF Evict, Checked, At, PlaceOK
<1>2. UNCHANGED <<disk, gen, hist>> /\ UNCHANGED <<rows, memo, total>>
  BY DEF Evict
<1>3. CASE remove_from_memory_if_current(p)
  <2>1. Set(p, q) /\ mem' = [mem EXCEPT ![k] = NoEntry]
    BY <1>3 DEF Evict
  <2>2. Here(q)
    BY <1>1, MovesOn
  <2>3. StoresOK'
    BY <1>1, <1>2, <2>1, NoEntryOK, PutMem
  <2> QED
    BY <1>2, <2>1, <2>2, <2>3, ThreadSteps
<1>4. CASE ~remove_from_memory_if_current(p)
  <2>1. Set(p, Analysis(proc[p])) /\ UNCHANGED stores
    BY <1>2, <1>4 DEF Evict, stores
  <2> QED
    BY <1>1, <1>2, <2>1, AnalysisHere, StoresStay, ThreadSteps
<1> QED BY <1>3, <1>4

LEMMA RowsGo ==
    ASSUME FreshInv, NEW p \in Procs, EvictRow(p) \/ DropRow(p)
    PROVE  FreshInv'
<1> DEFINE k == proc[p].slot
<1>1. k \in Imports
  BY Facts DEF EvictRow, DropRow, Checked, At, PlaceOK
<1>2. /\ UNCHANGED <<disk, gen, hist>> /\ UNCHANGED <<mem, memo, total>>
      /\ rows' = [rows EXCEPT ![k] = Nothing] /\ Set(p, Analysis(proc[p]))
  BY DEF EvictRow, DropRow
<1>3. StoresOK'
  BY <1>1, <1>2, NoEntryOK, PutRow
<1> QED
  BY <1>1, <1>2, <1>3, AnalysisHere, ThreadSteps

LEMMA HydrateKeeps ==
    ASSUME FreshInv, NEW p \in Procs, Hydrate(p)
    PROVE  FreshInv'
<1> DEFINE r == proc[p]
           k == r.slot
           m == r.entry
<1>1. /\ At(p, "check") /\ r.pc = "check" /\ r.todo = {} /\ r.worst \in {"Fresh", "Unknown"}
      /\ r.tier = "disk" /\ CheckOK(file, gen, announced, r) /\ r.gen \in Nat /\ r.gen <= gen
      /\ gen \in Nat /\ gen >= 1
  BY Facts DEF Hydrate, Checked, At, Here, ThreadOK
<1>2. k \in Imports
  BY <1>1, Facts DEF PlaceOK
<1>3. k \notin {"exports", "aggregate"}
  BY <1>2, SlotsAssumption DEF Memos
<1>4. EntryOK(file, m) /\ m \in Taken
  BY <1>1 DEF CheckOK, EntryOK
<1>5. UNCHANGED <<disk, gen, hist>> /\ UNCHANGED <<rows, memo, total>>
  BY DEF Hydrate
<1>6. CASE r.worst = "Unknown" /\ r.intent = "fresh"
  <2>1. Set(p, Analysis(proc[p])) /\ UNCHANGED stores
    BY <1>5, <1>6 DEF Hydrate, stores
  <2> QED
    BY <1>2, <1>5, <2>1, AnalysisHere, StoresStay, ThreadSteps
<1>7. CASE r.worst = "Unknown" /\ r.intent # "fresh"
  <2> DEFINE q == [r EXCEPT !.pc = "done", !.status = "unknown", !.entry = m]
  <2>1. Set(p, q) /\ mem' = [mem EXCEPT ![k] = Stored(m, 0, FALSE)]
    BY <1>7 DEF Hydrate, Serve
  <2>2. Here(q)
    BY ServesOther
  <2>3. MemOK(file, gen, announced, Stored(m, 0, FALSE))
    <3>1. 0 \in Nat /\ 0 <= gen /\ 0 # gen
      BY <1>1
    <3> QED
      BY <1>4, <3>1, StampedOK
  <2> QED
    BY <1>2, <1>5, <2>1, <2>2, <2>3, PutMem, ThreadSteps
<1>8. CASE r.worst = "Fresh"
  <2> DEFINE q == [r EXCEPT !.pc = "done", !.status = "fresh", !.entry = m]
  <2>1. Set(p, q) /\ mem' = [mem EXCEPT ![k] = Stored(m, r.gen, TRUE)]
    BY <1>8 DEF Hydrate, Serve
  <2>2. /\ r.gen = gen => AllSince(file, m, announced)
        /\ AllSince(file, m, r.since) /\ AllSince(file, m, r.floor)
    BY <1>1, <1>3, <1>8, CheckPassed
  <2>3. Here(q)
    BY <1>3, <1>4, <2>2, ServesFresh DEF AllSince
  <2>4. MemOK(file, gen, announced, Stored(m, r.gen, TRUE))
    BY <1>1, <1>4, <2>2, StampedOK
  <2> QED
    BY <1>2, <1>5, <2>1, <2>3, <2>4, PutMem, ThreadSteps
<1> QED
  BY <1>1, <1>6, <1>7, <1>8

LEMMA ReprobeKeeps ==
    ASSUME FreshInv, NEW p \in Procs, Reprobe(p)
    PROVE  FreshInv'
<1> DEFINE r == proc[p]
           m == mem[r.slot].entry
<1>1. r.slot \in Imports
  BY Facts DEF Reprobe, At, PlaceOK
<1>2. StoresOK' /\ UNCHANGED <<disk, gen, hist>>
  BY StoresStay DEF Reprobe
<1>3. CASE mem[r.slot] = NoEntry
  BY <1>1, <1>2, <1>3, AnalysisHere, ThreadSteps DEF Reprobe
<1>4. CASE mem[r.slot] # NoEntry
  <2> DEFINE q == [r EXCEPT !.pc = "check", !.tier = "reprobe", !.entry = m, !.todo = m.prints,
                            !.worst = "Fresh"]
             z == [r EXCEPT !.pc = "check", !.tier = "reprobe", !.worst = "Fresh",
                            !.entry = m, !.todo = m.prints]
  <2>1. EntryOK(file, m)
    BY <1>1, <1>4, StoredEntry DEF FreshInv, StoresOK, MemOK
  <2>2. Here(q)
    BY <1>1, <2>1, ChecksStored
  <2>3. Set(p, z)
    BY <1>4 DEF Reprobe
  <2>4. z = q
    <3> HIDE DEF r, m
    <3> QED OBVIOUS
  <2> QED
    BY <1>2, <2>2, <2>3, <2>4, ThreadSteps
<1> QED
  BY <1>3, <1>4

LEMMA ReprobedKeeps ==
    ASSUME FreshInv, NEW p \in Procs, Reprobed(p)
    PROVE  FreshInv'
<1> DEFINE r == proc[p]
<1>1. r.slot \in Imports /\ r.worst \in {"Fresh", "Stale", "Gone", "Unknown"}
  BY Facts DEF Reprobed, Checked, At, PlaceOK
<1>2. StoresOK' /\ UNCHANGED <<disk, gen, hist>>
  BY StoresStay DEF Reprobed
<1>3. CASE r.worst = "Unknown"
  <2> DEFINE q == [r EXCEPT !.pc = "done", !.status = "stale"]
  <2>1. Set(p, q)
    BY <1>3 DEF Reprobed
  <2>2. Here(q)
    <3>1. Basic(r) /\ r.gen <= gen /\ Shape(r)
      BY Facts
    <3>2. /\ Shape(q) /\ q.pc = "done" /\ q.status = "stale" /\ q.slot = r.slot /\ q.gen = r.gen
          /\ q.outer = r.outer /\ q.since = r.since /\ q.floor = r.floor
      <4> HIDE DEF r
      <4> QED BY <3>1 DEF Shape, Fields
    <3> HIDE DEF q
    <3>3. Basic(q) /\ PlaceOK(q)
      BY <3>1, <3>2 DEF Basic, PlaceOK
    <3> QED
      BY <3>1, <3>2, <3>3, SimplePlace DEF Building
  <2> QED
    BY <1>2, <2>1, <2>2, ThreadSteps
<1>4. CASE r.worst = "Fresh"
  <2> DEFINE q == [r EXCEPT !.pc = "lookup", !.intent = "fresh"]
  <2>1. Set(p, q)
    BY <1>4 DEF Reprobed
  <2>2. Here(q)
    <3>1. Basic(r) /\ r.gen <= gen /\ Shape(r)
      BY Facts
    <3>2. /\ Shape(q) /\ q.pc = "lookup" /\ q.slot = r.slot /\ q.gen = r.gen
          /\ q.outer = r.outer /\ q.since = r.since /\ q.floor = r.floor
      <4> HIDE DEF r
      <4> QED BY <3>1 DEF Shape, Fields
    <3> HIDE DEF q
    <3>3. Basic(q) /\ PlaceOK(q)
      BY <1>1, <3>1, <3>2 DEF Basic, PlaceOK
    <3> QED
      BY <3>1, <3>2, <3>3, SimplePlace DEF Building
  <2> QED
    BY <1>2, <2>1, <2>2, ThreadSteps
<1>5. CASE r.worst \in {"Stale", "Gone"}
  <2>1. Set(p, Analysis(r))
    BY <1>5 DEF Reprobed
  <2> QED
    BY <1>1, <1>2, <2>1, AnalysisHere, ThreadSteps
<1> QED
  BY <1>1, <1>3, <1>4, <1>5

(* Memos and the aggregate. *)

LEMMA Relived ==
    ASSUME NEW s, s = Stored(s.entry, s.gen, s.live), NEW x
    PROVE  [s EXCEPT !.live = x] = Stored(s.entry, s.gen, x)
<1> DEFINE e == s.entry
           g == s.gen
           b == s.live
           n == [s EXCEPT !.live = x]
<1>1. s = [entry |-> e, gen |-> g, live |-> b] /\ n = [s EXCEPT !.live = x]
  BY DEF Stored
<1> HIDE DEF n, e, g, b
<1>2. n = [entry |-> e, gen |-> g, live |-> x]
  BY <1>1
<1> QED
  BY <1>2 DEF n, e, g, Stored

LEMMA MemoStampedOK ==
    ASSUME FreshInv, NEW m, EntryOK(file, m), NEW g \in Nat, g <= gen, NEW live,
           g = gen => UsedSince(file, m.used, announced)
    PROVE  MemoOK(file, gen, announced, Stored(m, g, live))
<1> DEFINE s == Stored(m, g, live)
<1>1. s.entry = m /\ s.gen = g /\ s = Stored(s.entry, s.gen, s.live)
  BY StoredFields
<1>2. m # Nothing
  BY DEF EntryOK, Taken, Nothing
<1> HIDE DEF s
<1>3. MemoOK(file, gen, announced, s)
  BY <1>1, <1>2 DEF MemoOK, StoredOK
<1> QED
  BY <1>3 DEF s

LEMMA PutMemo ==
    ASSUME FreshInv, UNCHANGED <<disk, gen, hist>>, UNCHANGED <<mem, rows, total>>,
           NEW k \in Memos, NEW s, MemoOK(file, gen, announced, s), memo' = [memo EXCEPT ![k] = s]
    PROVE  StoresOK'
<1>1. file' = file /\ gen' = gen /\ announced' = announced
  BY DEF disk, hist
<1>2. memo' = [j \in Memos |-> memo'[j]] /\ memo'[k] = s /\ \A j \in Memos \ {k} : memo'[j] = memo[j]
  BY DEF FreshInv, StoresOK
<1>3. \A j \in Memos : MemoOK(file', gen', announced', memo'[j])
  BY <1>1, <1>2 DEF FreshInv, StoresOK
<1> QED
  BY <1>1, <1>2, <1>3 DEF FreshInv, StoresOK

LEMMA MemoGetKeeps ==
    ASSUME FreshInv, NEW p \in Procs, MemoGet(p)
    PROVE  FreshInv'
<1> DEFINE r == proc[p]
           s == r.slot
           m == memo[s].entry
           skip == trusts_installed_window(s)
<1>1. s \in Memos
  BY Facts DEF MemoGet, At, PlaceOK
<1>2. UNCHANGED <<disk, gen, hist>> /\ UNCHANGED <<mem, rows, total>>
  BY DEF MemoGet
<1>3. CASE memo[s] = NoEntry \/ MemoOutdated(s)
  <2>1. memo' = [memo EXCEPT ![s] = NoEntry] /\ Set(p, Analysis(r))
    BY <1>3 DEF MemoGet
  <2>2. StoresOK'
    BY <1>1, <1>2, <2>1, NoEntryOK, PutMemo
  <2> QED
    BY <1>1, <1>2, <2>1, <2>2, AnalysisHere, ThreadSteps
<1>4. CASE ~(memo[s] = NoEntry \/ MemoOutdated(s))
  <2> DEFINE td == {fp \in m.prints : skip => fp.path \notin Installed}
             lv == ~skip
             q == [r EXCEPT !.pc = "check", !.tier = "memo", !.worst = "Fresh",
                            !.entry = m, !.live = lv, !.todo = td]
  <2>1. Set(p, q) /\ UNCHANGED stores
    BY <1>2, <1>4 DEF MemoGet, stores
  <2>2. MemoOK(file, gen, announced, memo[s]) /\ memo[s] # NoEntry /\ memo[s].gen = gen
    BY <1>1, <1>4 DEF FreshInv, StoresOK, MemoOutdated
  <2>3. EntryOK(file, m) /\ m \in Taken /\ UsedSince(file, m.used, announced)
    BY <2>2, StoredEntry DEF MemoOK
  <2>4. /\ Basic(r) /\ Shape(r) /\ r.gen <= gen
    BY Facts
  <2>5. UsedSince(file, m.used, r.floor)
    BY <2>3, <2>4, AllSinceFloor
  <2>6. td \subseteq m.prints /\ (s # "exports" => td = m.prints)
    BY DEF trusts_installed_window
  <2>7. s # "aggregate"
    BY <1>1 DEF Memos
  <2> HIDE DEF td, lv
  <2>8. /\ Shape(q) /\ q.pc = "check" /\ q.tier = "memo" /\ q.entry = m /\ q.todo = td
        /\ q.worst = "Fresh" /\ q.gen = r.gen
        /\ q.slot = r.slot /\ q.outer = r.outer /\ q.since = r.since /\ q.floor = r.floor
    <3> HIDE DEF r, m
    <3> QED BY <2>4 DEF Shape, Fields
  <2> HIDE DEF q
  <2>9. Basic(q) /\ PlaceOK(q)
    BY <1>1, <2>4, <2>8 DEF Basic, PlaceOK
  <2>10. Here(q)
    BY <2>3, <2>4, <2>5, <2>6, <2>7, <2>8, <2>9, CheckBegins
  <2> QED
    BY <1>2, <2>1, <2>10, StoresStay, ThreadSteps
<1> QED
  BY <1>3, <1>4

\* The analysis goes on with what the comparison read.
LEMMA Resumes ==
    ASSUME FreshInv, NEW o, Suspended(file, gen, announced, o),
           NEW q, Shape(q), q.pc = "manifests", q.todo = Manifests, q.half = o.half,
           q.prints = o.prints, q.used = o.used, q.blind = o.blind, q.gen = o.gen,
           q.slot = o.slot, q.since = o.since, q.floor = o.floor, q.outer = o.outer,
           \A f \in Modules \ o.blind : \A v \in q.cmp[f] : Behind(file, gen, announced, o, f, v)
    PROVE  Here(q)
<1>1. /\ Shape(o) /\ TimesOK(file, gen, announced, o)
      /\ ReadsOK(file, gen, announced, o) /\ PhaseOK(o)
      /\ o.pc \in {"load", "resources"} /\ o.slot \in Imports
      /\ o.todo = {} /\ o.half = Nothing /\ o.outer = Nothing
  BY DEF Suspended, BuildOK, Building
<1>2. o # Nothing
  BY <1>1 DEF Shape, Fields, Nothing
<1>3. TimesOK(file, gen, announced, q)
  BY <1>1, SlotsAssumption DEF TimesOK
<1>4. ReadsOK(file, gen, announced, q)
  BY <1>1, <1>2 DEF ReadsOK, Behind
<1>5. PhaseOK(q)
  <2>1. \A f \in Modules : Looked(o, f)
    BY <1>1 DEF PhaseOK
  <2>2. \A f \in Modules : Looked(q, f)
    BY <2>1 DEF Looked
  <2> QED
    BY <2>2, FilesAssumption DEF PhaseOK, Files
<1>6. BuildOK(file, gen, announced, q)
  BY <1>1, <1>4, <1>5 DEF BuildOK, HalfOK
<1>7. PlaceOK(q) /\ CheckOK(file, gen, announced, q) /\ DoneOK(file, q)
  BY DEF PlaceOK, CheckOK, DoneOK
<1> QED
  BY <1>1, <1>3, <1>6, <1>7 DEF Here, ThreadOK

LEMMA MemoCheckedKeeps ==
    ASSUME FreshInv, NEW p \in Procs, MemoChecked(p)
    PROVE  FreshInv'
<1> DEFINE r == proc[p]
           s == r.slot
           m == r.entry
<1>1. /\ At(p, "check") /\ r.pc = "check" /\ r.todo = {} /\ r.tier = "memo"
      /\ CheckOK(file, gen, announced, r) /\ Basic(r) /\ Shape(r)
  BY Facts DEF MemoChecked, Checked, At, Here, ThreadOK
<1>2. s \in Memos
  BY <1>1, Facts DEF PlaceOK
<1>3. EntryOK(file, m) /\ m \in Taken /\ m # Nothing
  BY <1>1 DEF CheckOK, EntryOK, Taken, Nothing
<1>4. UNCHANGED <<disk, gen, hist>> /\ UNCHANGED <<mem, rows, total>>
  BY DEF MemoChecked
<1>5. MemoOK(file, gen, announced, memo[s]) /\ StoredOK(file, gen, memo[s])
  BY <1>2 DEF FreshInv, StoresOK, MemoOK
<1>6. CASE r.worst = "Fresh"
  <2>1. StoresOK'
    <3>1. CASE memo[s].entry = m /\ Anchor(p)
      <4>1. memo' = [memo EXCEPT ![s].live = TRUE]
        BY <1>6, <3>1 DEF MemoChecked
      <4>2. [memo[s] EXCEPT !.live = TRUE] = Stored(m, memo[s].gen, TRUE)
        <5> DEFINE n == memo[s]
        <5>1. n = Stored(n.entry, n.gen, n.live) /\ n.entry = m
          BY <1>5, <3>1 DEF StoredOK
        <5> HIDE DEF n, m
        <5>2. [n EXCEPT !.live = TRUE] = Stored(n.entry, n.gen, TRUE)
          BY <5>1, Relived
        <5> QED
          BY <5>1, <5>2 DEF n
      <4>3. memo' = [memo EXCEPT ![s] = Stored(m, memo[s].gen, TRUE)]
        BY <4>1, <4>2
      <4>4. MemoOK(file, gen, announced, Stored(m, memo[s].gen, TRUE))
        BY <1>3, <1>5, <3>1, MemoStampedOK DEF MemoOK, StoredOK
      <4> QED
        BY <1>2, <1>4, <4>3, <4>4, PutMemo
    <3>2. CASE ~(memo[s].entry = m /\ Anchor(p))
      <4>1. UNCHANGED stores
        BY <1>4, <1>6, <3>2 DEF MemoChecked, stores
      <4> QED
        BY <1>4, <4>1, StoresStay
    <3> QED BY <3>1, <3>2
  <2>2. CASE r.outer = Nothing
    <3> DEFINE q == [r EXCEPT !.pc = "done", !.status = "fresh", !.entry = m]
    <3>1. Set(p, q)
      BY <1>6, <2>2 DEF MemoChecked, MemoAnswer, Serve
    <3>2. s \notin Imports /\ (s \in {"exports", "aggregate"} => UsedSince(file, m.used, r.floor))
      BY <1>1, <1>2, SlotsAssumption DEF CheckOK
    <3>3. Here(q)
      BY <1>3, <3>2, ServesFresh
    <3> QED
      BY <1>4, <2>1, <3>1, <3>3, ThreadSteps
  <2>3. CASE r.outer # Nothing
    <3> DEFINE o == r.outer
               c == Compared(m)
               q == [o EXCEPT !.pc = "manifests", !.todo = Manifests, !.cmp = c]
    <3>1. Set(p, q)
      BY <1>6, <2>3 DEF MemoChecked, MemoAnswer
    <3>2. Suspended(file, gen, announced, o) /\ s # "exports" /\ Shape(o)
      BY <1>1, <2>3 DEF Basic, Suspended
    <3>3. c \in Readings
      BY <1>3 DEF Compared, Taken, Readings
    <3>4. \A f \in Modules : \A v \in c[f] : Behind(file, gen, announced, o, f, v)
      <4> SUFFICES ASSUME NEW f \in Modules, NEW v \in c[f]
                   PROVE  Behind(file, gen, announced, o, f, v)
        OBVIOUS
      <4>1. f \in Files
        BY DEF Files
      <4>2. f \notin m.blind /\ v \in m.used[f]
        BY <4>1 DEF Compared
      <4>3. v \in Versions(m, f)
        BY <1>3, <4>2, VersionsType
      <4> QED
        BY <1>1, <1>6, <3>2, <4>2, <4>3, CheckPassed DEF Verified
    <3> HIDE DEF c
    <3>5. /\ Shape(q) /\ q.pc = "manifests" /\ q.todo = Manifests /\ q.half = o.half
          /\ q.prints = o.prints /\ q.used = o.used /\ q.blind = o.blind /\ q.gen = o.gen
          /\ q.slot = o.slot /\ q.since = o.since /\ q.floor = o.floor /\ q.outer = o.outer
          /\ q.cmp = c
      <4> HIDE DEF o
      <4> QED BY <3>2, <3>3 DEF Shape, Fields
    <3> HIDE DEF q, o
    <3>6. Here(q)
      BY <3>2, <3>4, <3>5, Resumes
    <3> QED
      BY <1>4, <2>1, <3>1, <3>6, ThreadSteps
  <2> QED BY <2>2, <2>3
<1>7. CASE r.worst # "Fresh"
  <2>1. StoresOK'
    <3>1. CASE memo[s].entry = m /\ r.worst # "Unknown"
      <4>1. memo' = [memo EXCEPT ![s] = NoEntry]
        BY <1>7, <3>1 DEF MemoChecked
      <4> QED
        BY <1>2, <1>4, <4>1, NoEntryOK, PutMemo
    <3>2. CASE ~(memo[s].entry = m /\ r.worst # "Unknown")
      <4>1. UNCHANGED stores
        BY <1>4, <1>7, <3>2 DEF MemoChecked, stores
      <4> QED
        BY <1>4, <4>1, StoresStay
    <3> QED BY <3>1, <3>2
  <2>2. Set(p, Analysis(r))
    BY <1>7 DEF MemoChecked
  <2> QED
    BY <1>2, <1>4, <2>1, <2>2, AnalysisHere, ThreadSteps
<1> QED
  BY <1>6, <1>7

LEMMA TakeSignatureKeeps ==
    ASSUME FreshInv, NEW p \in Procs, TakeSignature(p)
    PROVE  FreshInv'
<1> DEFINE r == proc[p]
           sig == file_size_signature
           m == total.stored.entry
<1>1. r.slot = "aggregate" /\ Basic(r) /\ Shape(r) /\ r.gen <= gen /\ gen \in Nat
  BY Facts DEF TakeSignature, At, PlaceOK
<1>2. StoresOK' /\ UNCHANGED <<disk, gen, hist>>
  BY StoresStay DEF TakeSignature
<1>3. sig.gen = gen
  BY DEF file_size_signature
<1>4. CASE total.stored # NoEntry /\ total.sig = sig /\ total.stored.live
  <2> DEFINE q == [r EXCEPT !.pc = "check", !.tier = "total", !.worst = "Fresh", !.sig = sig,
                            !.entry = m, !.todo = m.prints]
  <2>1. Set(p, q)
    BY <1>4 DEF TakeSignature
  <2>2. TotalOK(file, gen, announced, total)
    BY DEF FreshInv, StoresOK
  <2>3. EntryOK(file, m) /\ m \in Taken /\ UsedSince(file, m.used, announced)
    BY <1>3, <1>4, <2>2, StoredEntry DEF TotalOK
  <2>4. UsedSince(file, m.used, r.floor)
    BY <1>1, <2>3, AllSinceFloor
  <2> HIDE DEF sig
  <2>5. /\ Shape(q) /\ q.pc = "check" /\ q.tier = "total" /\ q.entry = m /\ q.todo = m.prints
        /\ q.worst = "Fresh" /\ q.gen = r.gen /\ q.sig = sig
        /\ q.slot = r.slot /\ q.outer = r.outer /\ q.since = r.since /\ q.floor = r.floor
    <3> HIDE DEF r, m
    <3> QED BY <1>1 DEF Shape, Fields
  <2> HIDE DEF q
  <2>6. Basic(q) /\ PlaceOK(q)
    BY <1>1, <2>5 DEF Basic, PlaceOK
  <2>7. Here(q)
    BY <1>1, <1>3, <2>3, <2>4, <2>5, <2>6, CheckBegins
  <2> QED
    BY <1>2, <2>1, <2>7, ThreadSteps
<1>5. CASE ~(total.stored # NoEntry /\ total.sig = sig /\ total.stored.live)
  <2> DEFINE q == [r EXCEPT !.sig = sig]
  <2>1. Set(p, Analysis(q))
    BY <1>5 DEF TakeSignature
  <2> HIDE DEF sig
  <2>2. /\ Shape(q) /\ q.sig = sig /\ q.slot = r.slot /\ q.outer = r.outer
        /\ q.since = r.since /\ q.floor = r.floor
    <3> HIDE DEF r
    <3> QED BY <1>1 DEF Shape, Fields
  <2> HIDE DEF q
  <2>3. Basic(q)
    BY <1>1, <2>2 DEF Basic
  <2>4. Here(Analysis(q))
    BY <1>1, <1>3, <2>2, <2>3, AnalysisBegins
  <2> QED
    BY <1>2, <2>1, <2>4, ThreadSteps
<1> QED
  BY <1>4, <1>5

LEMMA TotalCheckedKeeps ==
    ASSUME FreshInv, NEW p \in Procs, TotalChecked(p)
    PROVE  FreshInv'
<1> DEFINE r == proc[p]
           m == r.entry
<1>1. /\ r.pc = "check" /\ r.tier = "total" /\ r.slot = "aggregate"
      /\ CheckOK(file, gen, announced, r) /\ TimesOK(file, gen, announced, r) /\ Basic(r)
  BY Facts DEF TotalChecked, Checked, At, Here, ThreadOK, PlaceOK
<1>2. StoresOK' /\ UNCHANGED <<disk, gen, hist>>
  BY StoresStay DEF TotalChecked
<1>3. CASE r.worst = "Fresh"
  <2> DEFINE q == [r EXCEPT !.pc = "done", !.status = "fresh", !.entry = m]
  <2>1. Set(p, q)
    BY <1>3 DEF TotalChecked, Serve
  <2>2. m \in Taken /\ UsedSince(file, m.used, r.floor) /\ r.slot \notin Imports
    BY <1>1, SlotsAssumption DEF CheckOK, EntryOK
  <2>3. Here(q)
    BY <2>2, ServesFresh
  <2> QED
    BY <1>2, <2>1, <2>3, ThreadSteps
<1>4. CASE r.worst # "Fresh"
  <2>1. Set(p, Analysis(r))
    BY <1>4 DEF TotalChecked
  <2>2. Here(Analysis(r))
    BY <1>1, AnalysisBegins DEF TimesOK
  <2> QED
    BY <1>2, <2>1, <2>2, ThreadSteps
<1> QED
  BY <1>3, <1>4

(* An analysis. *)

\* A step of a build leaves who builds, for whom and since when as they are.
SameRead(r, q) ==
    /\ q.gen = r.gen /\ q.slot = r.slot /\ q.since = r.since /\ q.floor = r.floor
    /\ q.sig = r.sig /\ q.outer = r.outer

LEMMA BuildGoesOn ==
    ASSUME NEW r, Here(r), r.pc \in Building, NEW q, Shape(q), q.pc \in Building, SameRead(r, q),
           ReadsOK(file, gen, announced, q), HalfOK(file, q), PhaseOK(q)
    PROVE  Here(q)
<1>1. TimesOK(file, gen, announced, q)
  BY DEF Here, ThreadOK, TimesOK, SameRead, Building
<1>2. BuildOK(file, gen, announced, q)
  BY DEF Here, ThreadOK, BuildOK, SameRead
<1>3. PlaceOK(q) /\ CheckOK(file, gen, announced, q) /\ DoneOK(file, q)
  BY DEF PlaceOK, CheckOK, DoneOK, Building
<1> QED
  BY <1>1, <1>2, <1>3 DEF Here, ThreadOK, SameRead

\* A build saw f: what it read of it, the fingerprint it kept, and whether it
\* went without one.
Seen(r, q, f, values, prints, blind) ==
    /\ q.pc = r.pc /\ SameRead(r, q)
    /\ q.todo = r.todo \ {f} /\ q.half = Nothing /\ q.cmp = r.cmp
    /\ q.used = [r.used EXCEPT ![f] = r.used[f] \union values]
    /\ q.prints = r.prints \union prints
    /\ q.blind = r.blind \union blind

LEMMA SeesFile ==
    ASSUME FreshInv, NEW r, Here(r), r.pc \in {"load", "resources"},
           NEW f \in Modules, NEW values \in SUBSET Int, NEW prints, NEW blind \in SUBSET {f},
           NEW q, Shape(q), Seen(r, q, f, values, prints, blind),
           \A v \in values : HeldSince(file, v, f, file[f].ed),
           \A fp \in prints : fp.path = f,
           PrintsOK(file, prints, q.blind),
           blind = {} => \A v \in values : \E fp \in prints : Records(fp, v),
           blind = {} => prints # {}
    PROVE  Here(q)
<1>1. /\ Shape(r) /\ Basic(r) /\ ReadsOK(file, gen, announced, r) /\ PhaseOK(r)
      /\ r.used \in Readings /\ f \in Files /\ Modules \subseteq Files
  BY ThreadBasic DEF Here, ThreadOK, BuildOK, Building, Shape, Files
<1>2. q.used[f] = r.used[f] \union values /\ \A x \in Files \ {f} : q.used[x] = r.used[x]
  BY <1>1 DEF Seen, Readings
<1>3. PrintsOK(file, q.prints, q.blind)
  BY <1>1 DEF Seen, ReadsOK, PrintsOK
<1>4. ASSUME NEW x \in Files, NEW v \in q.used[x]
      PROVE  /\ q.gen = gen => HeldSince(file, v, x, announced[x])
             /\ Behind(file, gen, announced, q.outer, x, v)
  <2>0. q.gen = r.gen /\ q.outer = r.outer
    BY DEF Seen, SameRead
  <2>1. CASE v \in r.used[x]
    BY <1>1, <2>0, <2>1 DEF ReadsOK
  <2>2. CASE v \notin r.used[x]
    <3>1. x = f /\ v \in values
      BY <1>2, <1>4, <2>2
    <3> QED
      BY <1>1, <2>0, <3>1, NowVerified
  <2> QED BY <2>1, <2>2
<1>5. ASSUME NEW x \in Modules \ q.blind, NEW v \in q.used[x]
      PROVE  \E fp \in q.prints : fp.path = x /\ Records(fp, v)
  <2>1. CASE v \in r.used[x]
    BY <1>1, <2>1 DEF ReadsOK, Seen
  <2>2. CASE v \notin r.used[x]
    <3>1. x = f /\ v \in values
      BY <1>1, <1>2, <1>5, <2>2
    <3> QED
      BY <1>5, <3>1 DEF Seen
  <2> QED BY <2>1, <2>2
<1>6. q.cmp = [x \in Files |-> {}] /\ q.pc \in {"load", "resources"}
  BY <1>1 DEF PhaseOK, Seen
<1>7. ReadsOK(file, gen, announced, q)
  BY <1>1, <1>3, <1>4, <1>5, <1>6 DEF ReadsOK
<1>8. PhaseOK(q)
  <2>1. Looked(q, f) /\ \A x \in Modules : Looked(r, x) => Looked(q, x)
    BY DEF Looked, Seen
  <2>2. q.todo \subseteq r.todo /\ \A x \in Modules \ q.todo : x = f \/ x \in Modules \ r.todo
    BY DEF Seen
  <2> QED
    BY <1>1, <1>6, <2>1, <2>2 DEF PhaseOK, Seen
<1>9. HalfOK(file, q)
  BY DEF HalfOK, Seen
<1> QED
  BY <1>6, <1>7, <1>8, <1>9, BuildGoesOn DEF Building, Seen

\* Everything is loaded: the manifests come next, or the assets, or the comparison.
LEMMA ManifestsNext ==
    ASSUME FreshInv, NEW r, Here(r), r.pc \in {"load", "resources"}, r.todo = {}, r.half = Nothing
    PROVE  Here([r EXCEPT !.pc = "manifests",
                          !.todo = Manifests \union (IF r.failed /\ r.prints = {} THEN {Entry} ELSE {})])
<1> DEFINE td == Manifests \union (IF r.failed /\ r.prints = {} THEN {Entry} ELSE {})
           q == [r EXCEPT !.pc = "manifests", !.todo = td]
<1>1. Shape(r) /\ ReadsOK(file, gen, announced, r) /\ PhaseOK(r)
  BY DEF Here, ThreadOK, BuildOK, Building
<1>2. \A f \in Modules : Looked(r, f)
  BY <1>1 DEF PhaseOK
<1>3. td \subseteq Files /\ td \intersect Modules \subseteq r.blind
  <2>1. r.prints = {} => Entry \in r.blind
    BY <1>2, FilesAssumption DEF Looked
  <2> QED
    BY <2>1, FilesAssumption DEF Files
<1> HIDE DEF td
<1>4. /\ Shape(q) /\ q.pc = "manifests" /\ q.todo = td /\ q.half = r.half /\ q.cmp = r.cmp
      /\ q.prints = r.prints /\ q.used = r.used /\ q.blind = r.blind /\ SameRead(r, q)
  BY <1>1 DEF Shape, Fields, SameRead
<1> HIDE DEF q
<1>5. ReadsOK(file, gen, announced, q)
  BY <1>1, <1>4 DEF ReadsOK, SameRead
<1>6. PhaseOK(q) /\ HalfOK(file, q)
  BY <1>2, <1>3, <1>4 DEF PhaseOK, Looked, HalfOK
<1>7. Here(q)
  BY <1>4, <1>5, <1>6, BuildGoesOn DEF Building
<1> QED
  BY <1>7 DEF q, td

LEMMA AssetsNext ==
    ASSUME FreshInv, NEW r, Here(r), r.pc = "load", r.todo = {}, r.half = Nothing
    PROVE  Here([r EXCEPT !.pc = "resources", !.todo = Assets])
<1> DEFINE q == [r EXCEPT !.pc = "resources", !.todo = Assets]
<1>1. Shape(r) /\ ReadsOK(file, gen, announced, r) /\ PhaseOK(r)
  BY DEF Here, ThreadOK, BuildOK, Building
<1>2. \A f \in Modules : Looked(r, f)
  BY <1>1 DEF PhaseOK
<1>3. /\ Shape(q) /\ q.pc = "resources" /\ q.todo = Assets /\ q.half = r.half /\ q.cmp = r.cmp
      /\ q.prints = r.prints /\ q.used = r.used /\ q.blind = r.blind /\ SameRead(r, q)
  BY <1>1 DEF Shape, Fields, SameRead
<1> HIDE DEF q
<1>4. ReadsOK(file, gen, announced, q)
  BY <1>1, <1>3 DEF ReadsOK, SameRead
<1>5. PhaseOK(q) /\ HalfOK(file, q)
  BY <1>1, <1>2, <1>3, FilesAssumption DEF PhaseOK, Looked, HalfOK
<1>6. Here(q)
  BY <1>3, <1>4, <1>5, BuildGoesOn DEF Building
<1> QED
  BY <1>6 DEF q

LEMMA ComparisonNext ==
    ASSUME FreshInv, NEW p \in Procs, NEW r, Here(r), r.pc \in {"load", "resources"}, r.todo = {},
           r.half = Nothing, r.slot \in Named
    PROVE  Here([Begin(p) EXCEPT !.pc = "get", !.slot = "comparison", !.outer = r,
                                 !.floor = r.floor, !.since = r.since])
<1> DEFINE b == Begin(p)
           n == r.floor
           s == r.since
           q == [b EXCEPT !.pc = "get", !.slot = "comparison", !.outer = r, !.floor = n, !.since = s]
<1>1. r.slot \in Imports /\ "comparison" \notin Imports /\ "comparison" \in Memos
  BY FilesAssumption, SlotsAssumption DEF Memos
<1>2. /\ Shape(r) /\ TimesOK(file, gen, announced, r) /\ BuildOK(file, gen, announced, r)
      /\ Basic(r) /\ r.outer = Nothing
  BY <1>1, ThreadBasic DEF Here, ThreadOK
<1>3. Suspended(file, gen, announced, r)
  BY <1>1, <1>2 DEF Suspended
<1>4. Shape(b) /\ b.gen = 0 /\ gen \in Nat
  BY BeginFields, Facts
<1>5. n \in [Files -> Nat] /\ s \in [Files -> Nat]
  BY <1>2 DEF Shape
<1> HIDE DEF b, n, s
<1>6. /\ Shape(q) /\ q.pc = "get" /\ q.slot = "comparison" /\ q.outer = r /\ q.floor = n
      /\ q.since = s /\ q.gen = b.gen
  BY <1>4, <1>5 DEF Shape, Fields
<1> HIDE DEF q
<1>7. Basic(q)
  BY <1>2, <1>3, <1>6 DEF Basic, n, s
<1>8. PlaceOK(q) /\ q.gen <= gen
  BY <1>1, <1>4, <1>6 DEF PlaceOK
<1>9. Here(q)
  BY <1>6, <1>7, <1>8, SimplePlace DEF Building
<1> QED
  BY <1>9 DEF q, b, n, s

LEMMA Advances ==
    ASSUME FreshInv, NEW p \in Procs, NEW r, Here(r), r.pc \in {"load", "resources"}
    PROVE  Here(Advance(p, r))
<1>1. CASE r.todo # {} \/ r.half # Nothing
  BY <1>1 DEF Advance
<1>2. CASE r.todo = {} /\ r.half = Nothing
  <2> DEFINE q == [r EXCEPT !.pc = "manifests",
                            !.todo = Manifests \union (IF r.failed /\ r.prints = {} THEN {Entry} ELSE {})]
             a == [r EXCEPT !.pc = "resources", !.todo = Assets]
             c == [Begin(p) EXCEPT !.pc = "get", !.slot = "comparison", !.outer = r,
                                   !.floor = r.floor, !.since = r.since]
  <2>1. Here(q) /\ (r.pc = "load" => Here(a)) /\ (r.slot \in Named => Here(c))
    BY <1>2, ManifestsNext, AssetsNext, ComparisonNext
  <2>2. \/ Advance(p, r) = q
        \/ Advance(p, r) = a /\ r.pc = "load"
        \/ Advance(p, r) = c /\ r.slot \in Named
    BY <1>2 DEF Advance
  <2> HIDE DEF q, a, c
  <2> QED
    BY <2>1, <2>2
<1> QED
  BY <1>1, <1>2

LEMMA ReadManifestsKeeps ==
    ASSUME FreshInv, NEW p \in Procs, ReadManifests(p)
    PROVE  FreshInv'
<1> DEFINE r == proc[p]
           u == [f \in Files |-> IF f \in Modules THEN {} ELSE {file[f].ed}]
           q == [r EXCEPT !.pc = "load", !.todo = Modules, !.used = u]
<1>1. /\ Here(r) /\ Shape(r) /\ Basic(r) /\ r.pc = "resolve" /\ PhaseOK(r) /\ DiskOK(file)
      /\ ReadsOK(file, gen, announced, r)
  BY Facts DEF ReadManifests, At, Here, ThreadOK, BuildOK, Building
<1>2. /\ u \in Readings /\ \A f \in Modules : u[f] = {}
      /\ \A f \in Files : \A v \in u[f] : v \in Int /\ HeldSince(file, v, f, file[f].ed)
  <2>1. Modules \subseteq Files /\ \A f \in Files : file[f].ed \in Nat
    BY <1>1 DEF DiskOK, Disk, Files
  <2>2. \A f \in Files : u[f] = {} \/ (u[f] = {file[f].ed} /\ u[f] \subseteq Int)
    BY <2>1
  <2>3. \A f \in Files : HeldSince(file, file[f].ed, f, file[f].ed)
    BY <2>1 DEF HeldSince, NoBytes
  <2>4. u \in Readings
    BY <2>2 DEF Readings
  <2> QED
    BY <2>1, <2>2, <2>3, <2>4
<1>3. Set(p, q) /\ StoresOK' /\ UNCHANGED <<disk, gen, hist>>
  BY StoresStay DEF ReadManifests
<1> HIDE DEF u
<1>4. /\ Shape(q) /\ q.pc = "load" /\ q.todo = Modules /\ q.half = r.half /\ q.cmp = r.cmp
      /\ q.prints = r.prints /\ q.used = u /\ q.blind = r.blind /\ SameRead(r, q)
  <2> HIDE DEF r
  <2> QED BY <1>1, <1>2 DEF Shape, Fields, SameRead
<1> HIDE DEF q
<1>5. ReadsOK(file, gen, announced, q)
  <2>1. ASSUME NEW f \in Files, NEW v \in q.used[f]
        PROVE  /\ q.gen = gen => HeldSince(file, v, f, announced[f])
               /\ Behind(file, gen, announced, q.outer, f, v)
    BY <1>1, <1>2, <1>4, NowVerified DEF SameRead
  <2>2. PrintsOK(file, q.prints, q.blind) /\ q.cmp = [f \in Files |-> {}] /\ Modules \subseteq Files
    BY <1>1, <1>4 DEF PhaseOK, ReadsOK, Files
  <2> QED
    BY <1>2, <1>4, <2>1, <2>2 DEF ReadsOK
<1>6. PhaseOK(q) /\ HalfOK(file, q)
  BY <1>1, <1>4 DEF PhaseOK, HalfOK
<1>7. Here(q)
  BY <1>1, <1>4, <1>5, <1>6, BuildGoesOn DEF Building
<1> QED
  BY <1>3, <1>7, ThreadSteps

LEMMA SawFields ==
    ASSUME FreshInv, NEW p \in Procs, NEW f \in Modules, NEW v \in Int
    PROVE  LET r == proc[p]
               q == ReadEdition(p, f, v) IN
           /\ Shape(q) /\ Seen(r, q, f, {v}, {}, {})
<1> DEFINE r == proc[p]
           td == r.todo \ {f}
           u == [r.used EXCEPT ![f] = r.used[f] \union {v}]
           q == [r EXCEPT !.todo = td, !.half = Nothing, !.used = u]
<1>1. Shape(r) /\ f \in Files
  BY Facts DEF Files
<1>2. u \in Readings
  BY <1>1 DEF Shape, Readings
<1>3. ReadEdition(p, f, v) = q
  BY <1>1 DEF ReadEdition, Saw, Shape, Fields
<1> HIDE DEF td, u
<1>4. /\ Shape(q) /\ q.pc = r.pc /\ q.todo = td /\ q.half = Nothing /\ q.cmp = r.cmp
      /\ q.prints = r.prints /\ q.used = u /\ q.blind = r.blind /\ SameRead(r, q)
  <2> HIDE DEF r
  <2> QED BY <1>1, <1>2 DEF Shape, Fields, SameRead
<1> QED
  BY <1>3, <1>4 DEF Seen, u, td

LEMMA SawKeeps ==
    ASSUME FreshInv, NEW p \in Procs, NEW f \in Modules
    PROVE  LET r == proc[p]
               q == Saw(p, f, r) IN
           /\ Shape(q) /\ Seen(r, q, f, {}, {}, {})
<1> DEFINE r == proc[p]
           td == r.todo \ {f}
           q == [r EXCEPT !.todo = td, !.half = Nothing]
<1>1. Shape(r) /\ r.used = [r.used EXCEPT ![f] = r.used[f] \union {}]
  BY Facts DEF Files, Shape, Readings
<1> HIDE DEF td
<1>2. /\ Shape(q) /\ q.pc = r.pc /\ q.todo = td /\ q.half = Nothing /\ q.cmp = r.cmp
      /\ q.prints = r.prints /\ q.used = r.used /\ q.blind = r.blind /\ SameRead(r, q)
  <2> HIDE DEF r
  <2> QED BY <1>1 DEF Shape, Fields, SameRead
<1> QED
  BY <1>1, <1>2 DEF Seen, td, Saw

\* A fingerprint is kept beside the others; the build may have failed.
LEMMA KeepsPrint ==
    ASSUME NEW r, NEW q, Shape(q), NEW f, NEW vs, Seen(r, q, f, vs, {}, {}), NEW fp \in FilePrint,
           NEW x, NEW y
    PROVE  LET z == [q EXCEPT !.failed = x, !.io = y, !.prints = q.prints \union {fp}] IN
           Shape(z) /\ Seen(r, z, f, vs, {fp}, {})
<1> DEFINE ps == q.prints \union {fp}
           z == [q EXCEPT !.failed = x, !.io = y, !.prints = ps]
<1>1. ps \subseteq FilePrint
  BY DEF Shape
<1> HIDE DEF ps
<1>2. /\ Shape(z) /\ z.pc = q.pc /\ z.todo = q.todo /\ z.half = q.half /\ z.cmp = q.cmp
      /\ z.prints = ps /\ z.used = q.used /\ z.blind = q.blind /\ SameRead(q, z)
  BY <1>1 DEF Shape, Fields, SameRead
<1> HIDE DEF z
<1>3. Seen(r, z, f, vs, {fp}, {})
  BY <1>2 DEF Seen, SameRead, ps
<1> QED
  BY <1>2, <1>3 DEF z, ps

LEMMA GoesBlind ==
    ASSUME NEW r, NEW q, Shape(q), NEW f \in Files, NEW vs, Seen(r, q, f, vs, {}, {}), NEW x
    PROVE  LET z == [q EXCEPT !.blind = q.blind \union {f}, !.failed = x] IN
           Shape(z) /\ Seen(r, z, f, vs, {}, {f})
<1> DEFINE bs == q.blind \union {f}
           z == [q EXCEPT !.blind = bs, !.failed = x]
<1>1. bs \subseteq Files
  BY DEF Shape
<1> HIDE DEF bs
<1>2. /\ Shape(z) /\ z.pc = q.pc /\ z.todo = q.todo /\ z.half = q.half /\ z.cmp = q.cmp
      /\ z.prints = q.prints /\ z.used = q.used /\ z.blind = bs /\ SameRead(q, z)
  BY <1>1 DEF Shape, Fields, SameRead
<1> HIDE DEF z
<1>3. Seen(r, z, f, vs, {}, {f})
  BY <1>2 DEF Seen, SameRead, bs
<1> QED
  BY <1>2, <1>3 DEF z, bs

LEMMA SentinelsOK ==
    ASSUME FreshInv, NEW f \in Modules, NEW blind
    PROVE  /\ absent_file_fingerprint(f) \in FilePrint /\ unverifiable_file_fingerprint(f) \in FilePrint
           /\ PrintsOK(file, {absent_file_fingerprint(f)}, blind)
           /\ PrintsOK(file, {unverifiable_file_fingerprint(f)}, blind)
           /\ absent_file_fingerprint(f).path = f /\ unverifiable_file_fingerprint(f).path = f
           /\ Records(absent_file_fingerprint(f), NoBytes)
           /\ \A v : Records(unverifiable_file_fingerprint(f), v)
<1>1. f \in Files /\ file[f].ed \in Nat
  BY DEF Files, FreshInv, DiskOK, Disk
<1>2. ASSUME NEW s \in {AbsentStamp, UnverifiableStamp}
      PROVE  /\ Fingerprint(f, s, NoHash) \in FilePrint
             /\ PrintsOK(file, {Fingerprint(f, s, NoHash)}, blind)
  <2> DEFINE fp == Fingerprint(f, s, NoHash)
  <2>1. /\ fp \in FilePrint /\ fp.path = f /\ fp.stamp = s /\ fp.hash = NoHash /\ s \in Int /\ s < 0
    BY <1>1 DEF Fingerprint, FilePrint, NoHash, AbsentStamp, UnverifiableStamp
  <2> HIDE DEF fp
  <2>2. Truthful(file, fp) /\ ~(fp.stamp >= 0)
    BY <1>1, <2>1 DEF Truthful, NoHash, AbsentStamp, UnverifiableStamp
  <2>3. PrintsOK(file, {fp}, blind)
    BY <2>2 DEF PrintsOK
  <2> QED
    BY <2>1, <2>3 DEF fp
<1> QED
  BY <1>2 DEF absent_file_fingerprint, unverifiable_file_fingerprint, Fingerprint, Records

LEMMA AbsentSeen ==
    ASSUME FreshInv, NEW p \in Procs, proc[p].pc \in {"load", "resources"}, NEW f \in Modules,
           ~file[f].here, NEW fails
    PROVE  Here(SawAbsent(p, f, fails)) /\ SawAbsent(p, f, fails).pc = proc[p].pc
<1> DEFINE r == proc[p]
           q == ReadEdition(p, f, NoBytes)
           x == q.failed \/ fails
           y == q.failed \/ f \notin Installed
           i == q.io
           fp == absent_file_fingerprint(f)
<1>1. /\ Here(r) /\ f \in Files /\ Shape(q) /\ Seen(r, q, f, {NoBytes}, {}, {}) /\ NoBytes \in Int
  <2>1. NoBytes \in Int /\ f \in Files /\ Here(r)
    BY Facts DEF NoBytes, Files
  <2>2. Shape(q) /\ Seen(r, q, f, {NoBytes}, {}, {})
    BY <2>1, SawFields
  <2> QED BY <2>1, <2>2
<1>2. \A v \in {NoBytes} : HeldSince(file, v, f, file[f].ed)
  BY <1>1 DEF HeldSince, FreshInv, DiskOK, Disk
<1>3. /\ fp \in FilePrint /\ fp.path = f /\ Records(fp, NoBytes)
      /\ \A blind : PrintsOK(file, {fp}, blind)
  BY SentinelsOK
<1>4. CASE f \in Assets
  <2> DEFINE z == [q EXCEPT !.failed = x, !.io = i, !.prints = q.prints \union {fp}]
             w == [q EXCEPT !.failed = x, !.prints = q.prints \union {fp}]
  <2>1. SawAbsent(p, f, fails) = w
    BY <1>4 DEF SawAbsent, sort_and_dedup_fingerprints
  <2>2. z = w
    <3>1. i = q.io /\ Shape(q)
      BY <1>1
    <3> HIDE DEF q, x, i, fp
    <3> QED BY <3>1 DEF Shape, Fields
  <2>3. Shape(z) /\ Seen(r, z, f, {NoBytes}, {fp}, {})
    <3> HIDE DEF q, x, i, fp, r
    <3> QED BY <1>1, <1>3, KeepsPrint
  <2>4. Here(z) /\ z.pc = r.pc
    <3> HIDE DEF z, fp, r
    <3>1. z.pc = r.pc
      BY <2>3 DEF Seen
    <3>2. r.pc \in {"load", "resources"}
      BY DEF r
    <3> QED BY <1>1, <1>2, <1>3, <2>3, <3>1, <3>2, SeesFile
  <2> QED BY <2>1, <2>2, <2>4
<1>5. CASE f \notin Assets
  <2> DEFINE z == [q EXCEPT !.blind = q.blind \union {f}, !.failed = y]
  <2>1. SawAbsent(p, f, fails) = z
    BY <1>5 DEF SawAbsent
  <2>2. Shape(z) /\ Seen(r, z, f, {NoBytes}, {}, {f})
    <3> HIDE DEF q, y, r
    <3> QED BY <1>1, GoesBlind
  <2>3. Here(z) /\ z.pc = r.pc
    <3> HIDE DEF z, r
    <3>1. z.pc = r.pc /\ PrintsOK(file, {}, z.blind)
      BY <2>2 DEF Seen, PrintsOK
    <3>2. r.pc \in {"load", "resources"}
      BY DEF r
    <3> QED BY <1>1, <1>2, <2>2, <3>1, <3>2, SeesFile
  <2> QED BY <2>1, <2>3
<1> QED BY <1>4, <1>5

LEMMA UnreadableSeen ==
    ASSUME FreshInv, NEW p \in Procs, proc[p].pc \in {"load", "resources"}, NEW f \in Modules
    PROVE  Here(SawUnreadable(p, f)) /\ SawUnreadable(p, f).pc = proc[p].pc
<1> DEFINE r == proc[p]
           q == Saw(p, f, r)
           x == q.failed
           fp == unverifiable_file_fingerprint(f)
           z == [q EXCEPT !.failed = x, !.io = TRUE, !.prints = q.prints \union {fp}]
           w == [q EXCEPT !.io = TRUE, !.prints = q.prints \union {fp}]
<1>1. /\ Here(r) /\ Shape(q) /\ Seen(r, q, f, {}, {}, {}) /\ r.pc \in {"load", "resources"}
  BY Facts, SawKeeps
<1>3. /\ fp \in FilePrint /\ fp.path = f /\ \A blind : PrintsOK(file, {fp}, blind)
  BY SentinelsOK
<1>4. SawUnreadable(p, f) = w
  BY DEF SawUnreadable, sort_and_dedup_fingerprints
<1>5. z = w
  <2>1. x = q.failed /\ Shape(q)
    BY <1>1
  <2> HIDE DEF q, x, fp
  <2> QED BY <2>1 DEF Shape, Fields
<1>6. Shape(z) /\ Seen(r, z, f, {}, {fp}, {})
  <2> HIDE DEF q, x, fp, r
  <2> QED BY <1>1, <1>3, KeepsPrint
<1>7. Here(z) /\ z.pc = r.pc
  <2> HIDE DEF z, fp, r
  <2>1. z.pc = r.pc
    BY <1>6 DEF Seen
  <2> QED BY <1>1, <1>3, <1>6, <2>1, SeesFile
<1> QED
  BY <1>4, <1>5, <1>7

\* Bytes that were read, with the fingerprint kept of them.
LEMMA BytesSeen ==
    ASSUME FreshInv, NEW p \in Procs, proc[p].pc \in {"load", "resources"}, NEW f \in Modules,
           NEW fp \in FilePrint, fp.path = f, \A blind : PrintsOK(file, {fp}, blind),
           Records(fp, file[f].ed)
    PROVE  LET q == [ReadEdition(p, f, file[f].ed) EXCEPT
                       !.prints = sort_and_dedup_fingerprints(@, {fp})] IN
           Here(q) /\ q.pc = proc[p].pc
<1> DEFINE r == proc[p]
           ed == file[f].ed
           q == ReadEdition(p, f, ed)
           x == q.failed
           i == q.io
           z == [q EXCEPT !.failed = x, !.io = i, !.prints = q.prints \union {fp}]
           w == [q EXCEPT !.prints = q.prints \union {fp}]
<1>0. f \in Files /\ ed \in Nat
  BY DEF Files, FreshInv, DiskOK, Disk
<1>1. /\ Here(r) /\ Shape(q) /\ Seen(r, q, f, {ed}, {}, {}) /\ r.pc \in {"load", "resources"}
  <2>1. ed \in Int /\ Here(r)
    BY <1>0, Facts
  <2>2. Shape(q) /\ Seen(r, q, f, {ed}, {}, {})
    <3> HIDE DEF ed
    <3> QED BY <2>1, SawFields
  <2> QED BY <2>1, <2>2
<1>2. \A v \in {ed} : HeldSince(file, v, f, file[f].ed)
  BY <1>0 DEF HeldSince, NoBytes
<1>5. z = w
  <2>1. x = q.failed /\ i = q.io /\ Shape(q)
    BY <1>1
  <2> HIDE DEF q, x, i
  <2> QED BY <2>1 DEF Shape, Fields
<1>6. Shape(z) /\ Seen(r, z, f, {ed}, {fp}, {})
  <2> HIDE DEF q, x, i, r, ed
  <2> QED BY <1>1, KeepsPrint
<1>7. Here(z) /\ z.pc = r.pc
  <2>0. Records(fp, ed) /\ {ed} \subseteq Int
    BY <1>0
  <2> HIDE DEF z, r, ed
  <2>1. z.pc = r.pc
    BY <1>6 DEF Seen
  <2> QED BY <1>1, <1>2, <1>6, <2>0, <2>1, SeesFile
<1> QED
  BY <1>5, <1>7 DEF sort_and_dedup_fingerprints

\* A module that cannot be loaded.
LEMMA UnloadableSeen ==
    ASSUME FreshInv, NEW p \in Procs, proc[p].pc \in {"load", "resources"}, NEW f \in Modules
    PROVE  LET q == [Saw(p, f, proc[p]) EXCEPT !.blind = @ \union {f}, !.failed = TRUE] IN
           Here(q) /\ q.pc = proc[p].pc
<1> DEFINE r == proc[p]
           q == Saw(p, f, r)
           z == [q EXCEPT !.blind = q.blind \union {f}, !.failed = TRUE]
<1>1. /\ Here(r) /\ Shape(q) /\ Seen(r, q, f, {}, {}, {}) /\ r.pc \in {"load", "resources"}
      /\ f \in Files
  BY Facts, SawKeeps DEF Files
<1>2. Shape(z) /\ Seen(r, z, f, {}, {}, {f})
  <2> HIDE DEF q, r
  <2> QED BY <1>1, GoesBlind
<1>3. Here(z) /\ z.pc = r.pc
  <2> HIDE DEF z, r
  <2>1. z.pc = r.pc /\ PrintsOK(file, {}, z.blind)
    BY <1>2 DEF Seen, PrintsOK
  <2> QED BY <1>1, <1>2, <2>1, SeesFile
<1> QED
  BY <1>3

\* Half of a fingerprint is taken.
LEMMA TakesHalf ==
    ASSUME FreshInv, NEW p \in Procs, proc[p].pc \in Building, NEW h \in Half,
           h.path \in proc[p].todo, proc[p].pc # "resolve",
           proc[p].pc # "manifests" => h.stamp >= 0 /\ h.stamp <= file[h.path].stamp,
           proc[p].pc = "manifests" =>
             /\ NoHash <= h.ed /\ h.ed <= file[h.path].ed
             /\ h.ed >= 0 /\ ~file[h.path].here => h.ed < file[h.path].ed
    PROVE  Here([proc[p] EXCEPT !.half = h])
<1> DEFINE r == proc[p]
           q == [r EXCEPT !.half = h]
<1>1. Here(r) /\ Shape(r) /\ ReadsOK(file, gen, announced, r) /\ PhaseOK(r)
  BY Facts DEF Here, ThreadOK, BuildOK
<1>2. /\ Shape(q) /\ q.pc = r.pc /\ q.todo = r.todo /\ q.half = h /\ q.cmp = r.cmp
      /\ q.prints = r.prints /\ q.used = r.used /\ q.blind = r.blind /\ SameRead(r, q)
  <2> HIDE DEF r
  <2> QED BY <1>1 DEF Shape, Fields, SameRead
<1> HIDE DEF q
<1>3. ReadsOK(file, gen, announced, q)
  BY <1>1, <1>2 DEF ReadsOK, SameRead
<1>4. PhaseOK(q) /\ HalfOK(file, q)
  BY <1>1, <1>2 DEF PhaseOK, Looked, HalfOK
<1>5. Here(q)
  BY <1>1, <1>2, <1>3, <1>4, BuildGoesOn
<1> QED
  BY <1>5 DEF q

LEMMA StatModuleKeeps ==
    ASSUME FreshInv, NEW p \in Procs, StatModule(p)
    PROVE  FreshInv'
<1> DEFINE r == proc[p]
<1>1. r.pc \in {"load", "resources"} /\ StoresOK' /\ UNCHANGED <<disk, gen, hist>>
  BY StoresStay DEF StatModule, Loading
<1> DEFINE half(f) == [kind |-> "half", path |-> f, ours |-> ~file[f].locked,
                       stamp |-> file[f].stamp, ed |-> file[f].ed]
<1>2. PICK f \in r.todo \intersect Modules, fails \in MayFail(p) :
        Set(p, CASE ~file[f].here -> Advance(p, SawAbsent(p, f, fails))
                 [] file[f].here /\ file[f].locked /\ f \in Assets -> Advance(p, SawUnreadable(p, f))
                 [] OTHER -> [r EXCEPT !.half = half(f)])
  BY DEF StatModule
<1>4. CASE ~file[f].here
  <2>1. Set(p, Advance(p, SawAbsent(p, f, fails)))
    BY <1>2, <1>4
  <2> QED
    BY <1>1, <1>4, <2>1, AbsentSeen, Advances, ThreadSteps
<1>5. CASE file[f].here /\ file[f].locked /\ f \in Assets
  <2>1. Set(p, Advance(p, SawUnreadable(p, f)))
    BY <1>2, <1>5
  <2> QED
    BY <1>1, <2>1, UnreadableSeen, Advances, ThreadSteps
<1>6. CASE file[f].here /\ ~(file[f].locked /\ f \in Assets)
  <2>1. Set(p, [r EXCEPT !.half = half(f)])
    BY <1>2, <1>6
  <2> DEFINE h == half(f)
  <2>2. /\ h \in Half /\ h.path = f /\ h.stamp = file[f].stamp /\ h.stamp >= 0
        /\ h.stamp <= file[f].stamp
    BY DEF Half, FreshInv, DiskOK, Disk, Files
  <2> HIDE DEF h
  <2>3. Here([r EXCEPT !.half = h])
    BY <1>1, <2>2, TakesHalf DEF Building
  <2> QED
    BY <1>1, <2>1, <2>3, ThreadSteps DEF h
<1> QED
  BY <1>4, <1>5, <1>6

LEMMA ReadModuleKeeps ==
    ASSUME FreshInv, NEW p \in Procs, ReadModule(p)
    PROVE  FreshInv'
<1> DEFINE r == proc[p]
           h == r.half
           f == h.path
           fp == read_time_fingerprint(p)
           up == unverifiable_file_fingerprint(f)
           ours == h.ours
           q1 == [ReadEdition(p, f, file[f].ed) EXCEPT !.prints = sort_and_dedup_fingerprints(@, {fp})]
           q3 == [r EXCEPT !.half.ours = FALSE]
           q4 == [ReadEdition(p, f, file[f].ed) EXCEPT !.prints = sort_and_dedup_fingerprints(@, {up})]
           q5 == [Saw(p, f, r) EXCEPT !.blind = @ \union {f}, !.failed = TRUE]
<1>1. /\ r.pc \in {"load", "resources"} /\ StoresOK' /\ UNCHANGED <<disk, gen, hist>>
      /\ h # Nothing
  BY StoresStay DEF ReadModule, Loading
<1>2. /\ Here(r) /\ Shape(r) /\ h \in Half /\ f \in r.todo /\ f \in Modules /\ f \in Files
      /\ h.stamp >= 0 /\ h.stamp <= file[f].stamp /\ h.stamp \in Int
      /\ file[f].ed \in Nat /\ file[f].stamp \in Nat
  <2>1. Here(r) /\ Shape(r) /\ HalfOK(file, r) /\ PhaseOK(r)
    BY <1>1, Facts DEF Here, ThreadOK, BuildOK, Building
  <2> QED
    BY <1>1, <2>1 DEF HalfOK, PhaseOK, Half, Files, FreshInv, DiskOK, Disk
<1>3. /\ fp \in FilePrint /\ fp.path = f /\ Records(fp, file[f].ed)
      /\ file[f].here => \A blind : PrintsOK(file, {fp}, blind)
  <2>1. fp.path = f /\ fp.stamp = h.stamp /\ fp.hash = file[f].ed /\ fp \in FilePrint
    BY <1>2 DEF read_time_fingerprint, Fingerprint, FilePrint
  <2> HIDE DEF fp
  <2>2. file[f].here => Truthful(file, fp) /\ StampTells(file, fp) /\ fp.hash >= 0
    BY <1>2, <2>1 DEF Truthful, StampTells, NoHash, UnverifiableStamp
  <2> QED
    BY <1>2, <2>1, <2>2 DEF Records, PrintsOK
<1>4. /\ up \in FilePrint /\ up.path = f /\ Records(up, file[f].ed)
      /\ \A blind : PrintsOK(file, {up}, blind)
  BY <1>2, SentinelsOK
<1>5. /\ file[f].here => Here(q1) /\ q1.pc = r.pc
      /\ Here(q4) /\ q4.pc = r.pc /\ Here(q5) /\ q5.pc = r.pc
  <2>1. ASSUME file[f].here PROVE Here(q1) /\ q1.pc = r.pc
    <3> HIDE DEF fp, f
    <3> QED BY <1>1, <1>2, <1>3, <2>1, BytesSeen
  <2>2. Here(q4) /\ q4.pc = r.pc
    <3> HIDE DEF up, f
    <3> QED BY <1>1, <1>2, <1>4, BytesSeen
  <2>3. Here(q5) /\ q5.pc = r.pc
    <3> HIDE DEF f
    <3> QED BY <1>1, <1>2, UnloadableSeen
  <2> QED BY <2>1, <2>2, <2>3
<1>6. Here(q3) /\ q3.pc = r.pc
  <2> DEFINE o == [h EXCEPT !.ours = FALSE]
  <2>1. o \in Half /\ o.path = f /\ o.stamp = h.stamp
    BY <1>2 DEF Half
  <2>2. q3 = [r EXCEPT !.half = o] /\ q3.pc = r.pc
    <3> HIDE DEF r
    <3> QED BY <1>2 DEF Shape, Fields
  <2> HIDE DEF o
  <2>3. Here([r EXCEPT !.half = o])
    BY <1>1, <1>2, <2>1, TakesHalf DEF Building
  <2> QED BY <2>2, <2>3
<1>7. PICK fails \in MayFail(p) :
        Set(p, Advance(p, CASE ours /\ Readable(f) -> q1
              [] ours /\ ~Readable(f) /\ f \in Assets ->
                   IF file[f].here THEN SawUnreadable(p, f) ELSE SawAbsent(p, f, fails)
              [] ours /\ ~Readable(f) /\ f \notin Assets -> q3
              [] ~ours /\ Readable(f) -> q4
              [] OTHER -> q5))
  BY <1>3 DEF ReadModule, Read, read_time_fingerprint, Fingerprint
<1> DEFINE q2 == IF file[f].here THEN SawUnreadable(p, f) ELSE SawAbsent(p, f, fails)
<1>8. Here(q2) /\ q2.pc = r.pc
  BY <1>1, <1>2, AbsentSeen, UnreadableSeen
<1>9. \E z : Set(p, Advance(p, z)) /\ Here(z) /\ z.pc = r.pc
  <2> HIDE DEF q1, q2, q3, q4, q5, r, f, ours
  <2>0. Set(p, Advance(p, CASE ours /\ Readable(f) -> q1
                            [] ours /\ ~Readable(f) /\ f \in Assets -> q2
                            [] ours /\ ~Readable(f) /\ f \notin Assets -> q3
                            [] ~ours /\ Readable(f) -> q4
                            [] OTHER -> q5))
    BY <1>7 DEF q2
  <2>1. CASE ours /\ Readable(f)
    BY <1>5, <1>6, <1>8, <2>0, <2>1 DEF Readable
  <2>2. CASE ours /\ ~Readable(f)
    BY <1>5, <1>6, <1>8, <2>0, <2>2
  <2>3. CASE ~ours
    BY <1>5, <1>6, <1>8, <2>0, <2>3
  <2> QED BY <2>1, <2>2, <2>3
<1> QED
  BY <1>1, <1>9, Advances, ThreadSteps

LEMMA HashManifestKeeps ==
    ASSUME FreshInv, NEW p \in Procs, HashManifest(p)
    PROVE  FreshInv'
<1> DEFINE r == proc[p]
<1>1. /\ r.pc = "manifests" /\ StoresOK' /\ UNCHANGED <<disk, gen, hist>> /\ PhaseOK(r)
  BY Facts, StoresStay DEF HashManifest, At, Here, ThreadOK, BuildOK, Building
<1>2. PICK f \in r.todo :
        Set(p, [r EXCEPT !.half = [kind |-> "half", path |-> f, ours |-> TRUE, stamp |-> 0,
                                   ed |-> IF Readable(f) THEN file[f].ed ELSE NoHash]])
  BY DEF HashManifest
<1> DEFINE ed == IF Readable(f) THEN file[f].ed ELSE NoHash
           h == [kind |-> "half", path |-> f, ours |-> TRUE, stamp |-> 0, ed |-> ed]
<1>3. f \in Files /\ file[f].ed \in Nat
  BY <1>1 DEF PhaseOK, FreshInv, DiskOK, Disk
<1>4. /\ ed \in Int /\ NoHash <= ed /\ ed <= file[f].ed
      /\ ed >= 0 /\ ~file[f].here => ed < file[f].ed
  BY <1>3 DEF NoHash, Readable
<1>s. Set(p, [r EXCEPT !.half = h])
  BY <1>2
<1> HIDE DEF ed
<1>5. h \in Half /\ h.path = f /\ h.ed = ed
  BY <1>3, <1>4 DEF Half
<1> HIDE DEF h
<1>6. Here([r EXCEPT !.half = h])
  BY <1>1, <1>4, <1>5, TakesHalf DEF Building
<1> QED
  BY <1>1, <1>6, <1>s, ThreadSteps

LEMMA StatManifestKeeps ==
    ASSUME FreshInv, NEW p \in Procs, StatManifest(p)
    PROVE  FreshInv'
<1> DEFINE r == proc[p]
           h == r.half
           f == h.path
           fp == Fingerprint(f, file[f].stamp, h.ed)
           new == IF Readable(f) THEN {fp} ELSE {}
           ps == r.prints \union new
           td == r.todo \ {f}
           q == [r EXCEPT !.todo = td, !.half = Nothing, !.prints = ps]
<1>1. /\ Here(r) /\ Shape(r) /\ r.pc = "manifests" /\ h # Nothing
      /\ ReadsOK(file, gen, announced, r) /\ HalfOK(file, r) /\ PhaseOK(r)
  BY Facts DEF StatManifest, At, Here, ThreadOK, BuildOK, Building
<1>2. /\ h \in Half /\ f \in r.todo /\ f \in Files /\ (f \in Modules => f \in r.blind)
      /\ h.ed \in Int /\ NoHash <= h.ed /\ h.ed <= file[f].ed
      /\ h.ed >= 0 /\ ~file[f].here => h.ed < file[f].ed
      /\ file[f].stamp \in Nat
  BY <1>1 DEF HalfOK, PhaseOK, Half, FreshInv, DiskOK, Disk
<1>3. /\ fp \in FilePrint /\ fp.path = f /\ Truthful(file, fp)
  <2>1. fp.path = f /\ fp.stamp = file[f].stamp /\ fp.hash = h.ed /\ fp \in FilePrint
    BY <1>2 DEF Fingerprint, FilePrint
  <2> HIDE DEF fp
  <2> QED
    BY <1>2, <2>1 DEF Truthful, UnverifiableStamp
<1>4. new \subseteq FilePrint /\ \A x \in new : Truthful(file, x) /\ x.path = f
  BY <1>3
<1>5. ps \subseteq FilePrint
  BY <1>1, <1>4 DEF Shape
<1>6. Set(p, q) /\ StoresOK' /\ UNCHANGED <<disk, gen, hist>>
  <2>1. StoresOK' /\ UNCHANGED <<disk, gen, hist>>
    BY StoresStay DEF StatManifest
  <2> DEFINE z == [Saw(p, f, r) EXCEPT !.prints = IF Readable(f)
                     THEN sort_and_dedup_fingerprints(Saw(p, f, r).prints, {fp}) ELSE Saw(p, f, r).prints]
  <2>2. Set(p, z)
    BY DEF StatManifest
  <2>3. z = q
    <3>1. Saw(p, f, r) = [r EXCEPT !.todo = td, !.half = Nothing]
      BY DEF Saw
    <3>2. ps = IF Readable(f) THEN r.prints \union {fp} ELSE r.prints
      OBVIOUS
    <3> DEFINE y == [r EXCEPT !.todo = td, !.half = Nothing]
    <3>3. y.prints = r.prints
      <4> HIDE DEF r, td
      <4> QED BY <1>1 DEF Shape, Fields
    <3>4. z = [y EXCEPT !.prints = ps]
      BY <3>1, <3>2, <3>3 DEF sort_and_dedup_fingerprints
    <3> HIDE DEF ps, td, r, z
    <3> QED
      BY <3>4
  <2> QED BY <2>1, <2>2, <2>3
<1> HIDE DEF td, ps
<1>7. /\ Shape(q) /\ q.pc = r.pc /\ q.todo = td /\ q.half = Nothing /\ q.cmp = r.cmp
      /\ q.prints = ps /\ q.used = r.used /\ q.blind = r.blind /\ SameRead(r, q)
  <2> HIDE DEF r
  <2> QED BY <1>1, <1>5 DEF Shape, Fields, SameRead
<1> HIDE DEF q, new
<1>8. ReadsOK(file, gen, announced, q)
  <2>1. PrintsOK(file, q.prints, q.blind)
    BY <1>1, <1>2, <1>4, <1>7 DEF ReadsOK, PrintsOK, ps
  <2>2. \A x \in q.prints : x \in r.prints \/ x.path = f
    BY <1>4, <1>7 DEF ps
  <2>3. r.prints \subseteq q.prints
    BY <1>7 DEF ps
  <2> QED
    BY <1>1, <1>2, <1>7, <2>1, <2>2, <2>3 DEF ReadsOK, SameRead
<1>9. PhaseOK(q) /\ HalfOK(file, q)
  BY <1>1, <1>7 DEF PhaseOK, Looked, HalfOK, td, ps
<1>10. Here(q)
  BY <1>1, <1>7, <1>8, <1>9, BuildGoesOn DEF Building
<1> QED
  BY <1>6, <1>10, ThreadSteps

(* What an analysis stores. *)

\* A build whose fingerprints may be reused has one of everything it read.
LEMMA Covered ==
    ASSUME NEW ps, NEW blind, PrintsOK(file, ps, blind), fingerprints_are_reusable(ps),
           NEW f \in Modules \ blind, NEW v \in Int,
           NEW fp \in ps, fp.path = f,
           \/ \E x \in ps : x.path = f /\ Records(x, v)
           \/ absent_file_fingerprint(f) \notin ps /\ HeldSince(file, v, f, fp.hash)
    PROVE  Covers(file, fp, v)
<1>1. \A x \in ps : /\ Truthful(file, x) /\ x \in FilePrint /\ x.hash \in Int /\ x.stamp \in Int
                    /\ UnverifiableStamp <= x.stamp /\ (x.stamp < 0 => x.hash = NoHash)
                    /\ x.stamp # UnverifiableStamp
                    /\ x.path = f /\ x.stamp >= 0 => x.hash >= 0
  BY DEF PrintsOK, Truthful, FilePrint, fingerprints_are_reusable, UnverifiableStamp
<1>2. fp.stamp = AbsentStamp \/ (fp.stamp >= 0 /\ fp.stamp # AbsentStamp /\ fp.hash >= 0)
  <2> DEFINE s == fp.stamp
             h == fp.hash
  <2>1. s \in Int /\ -2 <= s /\ s # -2 /\ (s >= 0 => h >= 0)
    BY <1>1 DEF UnverifiableStamp
  <2> HIDE DEF s, h
  <2>2. s >= 0 \/ s = -1
    BY <2>1
  <2>3. s >= 0 => s # -1 /\ h >= 0
    BY <2>1
  <2>4. s = -1 \/ (s >= 0 /\ s # -1 /\ h >= 0)
    BY <2>2, <2>3
  <2> QED
    BY <2>4 DEF AbsentStamp, s, h
<1>3. CASE \E x \in ps : x.path = f /\ Records(x, v)
  <2>1. PICK x \in ps : x.path = f /\ Records(x, v)
    BY <1>3
  <2>2. /\ fp.stamp = x.stamp
        /\ fp.hash = x.hash \/ NoHash \in {fp.hash, x.hash}
    BY <2>1 DEF fingerprints_are_reusable, fingerprints_have_conflicting_snapshots
  <2>3. CASE fp.stamp = AbsentStamp
    BY <1>1, <2>1, <2>2, <2>3 DEF Records, Covers, AbsentStamp, UnverifiableStamp
  <2>4. CASE fp.stamp >= 0 /\ fp.stamp # AbsentStamp /\ fp.hash >= 0
    <3>1. x.hash = v /\ v >= 0
      BY <1>1, <2>1, <2>2, <2>4 DEF Records, UnverifiableStamp
    <3>2. fp.hash = v
      BY <1>1, <2>1, <2>2, <2>4, <3>1 DEF NoHash
    <3> QED
      BY <2>4, <3>1, <3>2 DEF Covers, HeldSince, NoBytes
  <2> QED BY <1>2, <2>3, <2>4
<1>4. CASE absent_file_fingerprint(f) \notin ps /\ HeldSince(file, v, f, fp.hash)
  <2>1. fp.stamp # AbsentStamp
    <3> SUFFICES ASSUME fp.stamp = AbsentStamp PROVE FALSE
      OBVIOUS
    <3>1. fp.hash = NoHash
      BY <1>1 DEF AbsentStamp
    <3>2. fp = [path |-> fp.path, stamp |-> fp.stamp, hash |-> fp.hash]
      BY <1>1 DEF FilePrint
    <3>3. fp = absent_file_fingerprint(f)
      BY <3>1, <3>2 DEF absent_file_fingerprint, Fingerprint
    <3> QED
      BY <1>4, <3>3
  <2> QED
    BY <1>2, <1>4, <2>1 DEF Covers
<1> QED
  BY <1>3, <1>4

\* What a finished analysis would store.
LEMMA MeasuredOK ==
    ASSUME FreshInv, NEW p \in Procs, At(p, "manifests")
    PROVE  /\ Measurement(p) \in Taken /\ Measurement(p).used = proc[p].used
           /\ fingerprints_are_reusable(proc[p].prints) => EntryOK(file, Measurement(p))
           /\ proc[p].gen = gen => /\ AllSince(file, Measurement(p), announced)
                                   /\ UsedSince(file, proc[p].used, announced)
<1> DEFINE r == proc[p]
           m == Measurement(p)
<1>1. /\ Shape(r) /\ ReadsOK(file, gen, announced, r) /\ PhaseOK(r) /\ r.pc = "manifests"
  BY Facts DEF At, Here, ThreadOK, BuildOK, Building
<1>2. /\ m.used = r.used /\ m.cmp = r.cmp /\ m.blind = r.blind /\ m.prints = r.prints
      /\ m \in Taken
  BY <1>1 DEF Measurement, Taken, Shape
<1> HIDE DEF m
<1>3. \A f \in Modules : \A v \in Versions(m, f) :
        /\ f \in Files /\ v \in Int
        /\ v \in r.used[f] \/ (v \in r.cmp[f] /\ absent_file_fingerprint(f) \notin r.prints)
  BY <1>2, VersionsType DEF Versions
<1>4. ASSUME fingerprints_are_reusable(r.prints) PROVE EntryOK(file, m)
  <2>1. PrintsOK(file, m.prints, m.blind)
    BY <1>1, <1>2 DEF ReadsOK
  <2>2. ASSUME NEW f \in Modules \ m.blind, NEW v \in Versions(m, f)
        PROVE  /\ \E fp \in m.prints : fp.path = f
               /\ \A fp \in m.prints : fp.path = f => Covers(file, fp, v)
    <3>1. \E fp \in m.prints : fp.path = f
      BY <1>1, <1>2 DEF PhaseOK, Looked
    <3>2. ASSUME NEW fp \in m.prints, fp.path = f PROVE Covers(file, fp, v)
      <4>1. CASE v \in r.used[f]
        <5>1. \E x \in m.prints : x.path = f /\ Records(x, v)
          BY <1>1, <1>2, <4>1 DEF ReadsOK
        <5> QED
          BY <1>2, <1>3, <1>4, <2>1, <3>2, <5>1, Covered
      <4>2. CASE v \in r.cmp[f] /\ absent_file_fingerprint(f) \notin r.prints
        <5>1. HeldSince(file, v, f, fp.hash)
          BY <1>1, <1>2, <3>2, <4>2 DEF ReadsOK
        <5> QED
          BY <1>2, <1>3, <1>4, <2>1, <3>2, <4>2, <5>1, Covered
      <4> QED BY <1>3, <4>1, <4>2
    <3> QED BY <3>1, <3>2
  <2> QED
    BY <1>2, <2>1, <2>2 DEF EntryOK
<1>5. ASSUME r.gen = gen
      PROVE  AllSince(file, m, announced) /\ UsedSince(file, r.used, announced)
  BY <1>1, <1>2, <1>3, <1>5 DEF AllSince, UsedSince, ReadsOK
<1> QED
  BY <1>2, <1>4, <1>5 DEF m

LEMMA InsertImportKeeps ==
    ASSUME FreshInv, NEW p \in Procs, InsertImport(p)
    PROVE  FreshInv'
<1> DEFINE r == proc[p]
           k == r.slot
           m == Measurement(p)
           s == StoredUnderCaptured(p)
<1>1. /\ At(p, "manifests") /\ k \in Imports /\ r.gen \in Nat /\ r.gen <= gen
      /\ UNCHANGED <<disk, gen, hist>> /\ UNCHANGED <<memo, total>>
  BY Facts DEF InsertImport, Finished
<1>2. ASSUME MayStore(p), mem' = [mem EXCEPT ![k] = s], rows' = [rows EXCEPT ![k] = m]
      PROVE  StoresOK'
  <2>1. EntryOK(file, m) /\ RowOK(file, m)
    BY <1>1, <1>2, MeasuredOK DEF MayStore, RowOK
  <2>2. MemOK(file, gen, announced, s)
    BY <1>1, <2>1, MeasuredOK, StampedOK DEF StoredUnderCaptured
  <2>3. file' = file /\ gen' = gen /\ announced' = announced
    BY <1>1 DEF disk, hist
  <2> HIDE DEF m, s, k
  <2>4. /\ mem' = [j \in Imports |-> mem'[j]] /\ mem'[k] = s
        /\ \A j \in Imports \ {k} : mem'[j] = mem[j]
    BY <1>1, <1>2 DEF FreshInv, StoresOK
  <2>5. /\ rows' = [j \in Imports |-> rows'[j]] /\ rows'[k] = m
        /\ \A j \in Imports \ {k} : rows'[j] = rows[j]
    BY <1>1, <1>2 DEF FreshInv, StoresOK
  <2>6. \A j \in Imports : MemOK(file', gen', announced', mem'[j]) /\ RowOK(file', rows'[j])
    BY <2>1, <2>2, <2>3, <2>4, <2>5 DEF FreshInv, StoresOK
  <2>7. StoresOK'
    BY <1>1, <2>3, <2>4, <2>5, <2>6 DEF FreshInv, StoresOK
  <2> QED BY <2>7
<1>3. StoresOK'
  <2>1. CASE UNCHANGED <<mem, rows>>
    <3>1. UNCHANGED stores
      BY <1>1, <2>1 DEF stores
    <3> QED BY <1>1, <3>1, StoresStay
  <2> QED BY <1>2, <2>1 DEF InsertImport
<1>4. CASE r.tier = "reprobe"
  <2>1. Set(p, [r EXCEPT !.pc = "trailing"])
    BY <1>4 DEF InsertImport
  <2> QED
    BY <1>1, <1>3, <2>1, MovesOn, ThreadSteps
<1>5. CASE r.tier # "reprobe"
  <2> DEFINE q == [r EXCEPT !.pc = "done", !.status = "built", !.entry = m]
  <2>1. Set(p, q)
    BY <1>5 DEF InsertImport, Serve
  <2>2. Here(q)
    BY ServesOther
  <2> QED
    BY <1>1, <1>3, <2>1, <2>2, ThreadSteps
<1> QED
  BY <1>4, <1>5

LEMMA TrailingKeeps ==
    ASSUME FreshInv, NEW p \in Procs, Trailing(p)
    PROVE  FreshInv'
<1> DEFINE r == proc[p]
           m == Measurement(p)
           a == [r EXCEPT !.again = TRUE]
           q == [r EXCEPT !.pc = "done", !.status = "built", !.entry = m]
<1>1. /\ r.slot \in Imports /\ Basic(r) /\ Shape(r)
      /\ StoresOK' /\ UNCHANGED <<disk, gen, hist>>
  BY Facts, StoresStay DEF Trailing, At, PlaceOK
<1>2. Set(p, Analysis(a)) \/ Set(p, q)
  BY DEF Trailing, Serve
<1>3. Here(q)
  BY ServesOther
<1>4. /\ Shape(a) /\ a.slot = r.slot /\ a.outer = r.outer /\ a.since = r.since /\ a.floor = r.floor
  <2> HIDE DEF r
  <2> QED BY <1>1 DEF Shape, Fields
<1> HIDE DEF a, q
<1>5. Basic(a) /\ a.slot # "aggregate"
  BY <1>1, <1>4, SlotsAssumption DEF Basic
<1> QED
  BY <1>1, <1>2, <1>3, <1>5, AnalysisBegins, ThreadSteps

LEMMA TotalInsertKeeps ==
    ASSUME FreshInv, NEW p \in Procs, TotalInsert(p)
    PROVE  FreshInv'
<1> DEFINE r == proc[p]
           m == Measurement(p)
           s == Stored(m, r.gen, TRUE)
           q == [r EXCEPT !.pc = "done", !.status = "built", !.entry = m]
<1>1. /\ At(p, "manifests") /\ r.pc = "manifests" /\ r.slot = "aggregate" /\ r.gen \in Nat
      /\ r.gen <= gen /\ UNCHANGED <<disk, gen, hist>> /\ UNCHANGED <<mem, rows, memo>>
      /\ TimesOK(file, gen, announced, r) /\ gen \in Nat
  BY Facts DEF TotalInsert, Finished, At, Here, ThreadOK
<1>2. Set(p, q) /\ Here(q)
  BY ServesOther DEF TotalInsert, Serve
<1>3. ASSUME MayStore(p), total' = [stored |-> s, sig |-> r.sig] PROVE StoresOK'
  <2>1. EntryOK(file, m) /\ m # Nothing /\ m.used = r.used
        /\ (r.gen = gen => UsedSince(file, m.used, announced))
    BY <1>1, <1>3, MeasuredOK DEF MayStore, Taken, Nothing
  <2>2. r.sig.gen \in Nat /\ r.sig.gen <= r.gen
    BY <1>1 DEF TimesOK, Building
  <2>3. s.entry = m /\ s.gen = r.gen /\ s = Stored(s.entry, s.gen, s.live)
    <3> DEFINE g == r.gen
    <3> HIDE DEF m, g
    <3> QED BY DEF Stored, g
  <2> HIDE DEF m, s, r
  <2>4. StoredOK(file, gen, s)
    BY <1>1, <2>1, <2>3 DEF StoredOK
  <2>5. total'.stored = s /\ total'.sig = r.sig /\ total' = [stored |-> total'.stored, sig |-> total'.sig]
    BY <1>3
  <2>6. r.sig.gen = gen => r.gen = gen
    BY <1>1, <2>2
  <2>7. TotalOK(file, gen, announced, total')
    BY <2>1, <2>2, <2>3, <2>4, <2>5, <2>6 DEF TotalOK
  <2>8. file' = file /\ gen' = gen /\ announced' = announced
    BY <1>1 DEF disk, hist
  <2> QED
    BY <1>1, <2>7, <2>8 DEF FreshInv, StoresOK
<1>4. StoresOK'
  <2>1. CASE MayStore(p) /\ ~r.failed
    BY <1>3, <2>1 DEF TotalInsert, StoredUnderCaptured
  <2>2. CASE ~(MayStore(p) /\ ~r.failed)
    <3>1. UNCHANGED stores
      BY <1>1, <2>2 DEF TotalInsert, stores
    <3> QED BY <1>1, <3>1, StoresStay
  <2> QED BY <2>1, <2>2
<1> QED
  BY <1>1, <1>2, <1>4, ThreadSteps

LEMMA MemoInsertKeeps ==
    ASSUME FreshInv, NEW p \in Procs, MemoInsert(p)
    PROVE  FreshInv'
<1> DEFINE r == proc[p]
           s == r.slot
           m == Measurement(p)
           n == Stored(m, r.gen, TRUE)
<1>1. /\ At(p, "manifests") /\ r.pc = "manifests" /\ s \in Memos /\ r.gen \in Nat
      /\ r.gen <= gen /\ UNCHANGED <<disk, gen, hist>> /\ UNCHANGED <<mem, rows, total>>
      /\ Basic(r) /\ Shape(r) /\ ReadsOK(file, gen, announced, r)
  BY Facts DEF MemoInsert, Finished, At, Here, ThreadOK, BuildOK, Building
<1>2. StoresOK'
  <2>1. CASE ~r.failed /\ r.prints # {} /\ fingerprints_are_reusable(r.prints)
    <3>1. memo' = [memo EXCEPT ![s] = [n EXCEPT !.live = FALSE]]
      BY <2>1 DEF MemoInsert, StoredUnderCaptured
    <3>2. [n EXCEPT !.live = FALSE] = Stored(m, r.gen, FALSE)
      <4>1. n = Stored(n.entry, n.gen, n.live) /\ n.entry = m /\ n.gen = r.gen
        <5> DEFINE g == r.gen
        <5> HIDE DEF m, g
        <5> QED BY DEF Stored, g
      <4> HIDE DEF n, m
      <4>2. [n EXCEPT !.live = FALSE] = Stored(n.entry, n.gen, FALSE)
        BY <4>1, Relived
      <4> QED
        BY <4>1, <4>2
    <3>3. MemoOK(file, gen, announced, Stored(m, r.gen, FALSE))
      BY <1>1, <2>1, MeasuredOK, MemoStampedOK
    <3> QED
      BY <1>1, <3>1, <3>2, <3>3, PutMemo
  <2>2. CASE ~(~r.failed /\ r.prints # {} /\ fingerprints_are_reusable(r.prints))
    <3>1. UNCHANGED stores
      BY <1>1, <2>2 DEF MemoInsert, stores
    <3> QED BY <1>1, <3>1, StoresStay
  <2> QED BY <2>1, <2>2
<1>3. CASE r.outer = Nothing
  <2> DEFINE q == [r EXCEPT !.pc = "done", !.status = "built", !.entry = m]
  <2>1. Set(p, q)
    BY <1>3 DEF MemoInsert, Serve
  <2>2. Here(q)
    BY ServesOther
  <2> QED
    BY <1>1, <1>2, <2>1, <2>2, ThreadSteps
<1>4. CASE r.outer # Nothing
  <2> DEFINE o == r.outer
             c == IF r.failed THEN o.cmp ELSE Compared(r)
  <2>1. PICK parked \in BOOLEAN :
          Set(p, [o EXCEPT !.pc = "manifests", !.todo = Manifests, !.cmp = c, !.io = o.io \/ parked])
    BY <1>4 DEF MemoInsert
  <2> DEFINE i == o.io \/ parked
             q == [o EXCEPT !.pc = "manifests", !.todo = Manifests, !.cmp = c, !.io = i]
  <2>2. Suspended(file, gen, announced, o) /\ Shape(o) /\ o.cmp = [f \in Files |-> {}]
    BY <1>1, <1>4 DEF Basic, Suspended, BuildOK, Building, PhaseOK
  <2>3. c \in Readings
    BY <1>1, <2>2 DEF Compared, Shape, Readings
  <2>4. \A f \in Modules : \A v \in c[f] : Behind(file, gen, announced, o, f, v)
    <3> SUFFICES ASSUME NEW f \in Modules, NEW v \in c[f]
                 PROVE  Behind(file, gen, announced, o, f, v)
      OBVIOUS
    <3>1. f \in Files
      BY DEF Files
    <3>2. v \in r.used[f]
      BY <2>2, <3>1 DEF Compared
    <3> QED
      BY <1>1, <3>1, <3>2 DEF ReadsOK
  <2>s. Set(p, q)
    BY <2>1
  <2> HIDE DEF c, i
  <2>5. /\ Shape(q) /\ q.pc = "manifests" /\ q.todo = Manifests /\ q.half = o.half
        /\ q.prints = o.prints /\ q.used = o.used /\ q.blind = o.blind /\ q.gen = o.gen
        /\ q.slot = o.slot /\ q.since = o.since /\ q.floor = o.floor /\ q.outer = o.outer
        /\ q.cmp = c
    <3> HIDE DEF o
    <3> QED BY <2>2, <2>3 DEF Shape, Fields
  <2> HIDE DEF q, o
  <2>6. Here(q)
    BY <2>2, <2>4, <2>5, Resumes
  <2> QED
    BY <1>1, <1>2, <2>6, <2>s, ThreadSteps
<1> QED
  BY <1>3, <1>4

(* The disk, the clock, the invalidations and the restarts. *)

LEMMA GrownSelf ==
    ASSUME DiskOK(file) PROVE Grown(file, file)
BY DEF DiskOK, Disk, Grown

\* Time passes and no store or thread is written.
LEMMA TimePasses ==
    ASSUME FreshInv, Later(file, gen, announced, file', gen', announced'),
           UNCHANGED <<plan, stores, proc>>, HistOK'
    PROVE  FreshInv'
<1>1. mem' = mem /\ rows' = rows /\ memo' = memo /\ total' = total /\ proc' = proc /\ plan' = plan
  BY DEF stores
<1>2. StoresOK'
  <2>1. \A k \in Imports : MemOK(file', gen', announced', mem[k]) /\ RowOK(file', rows[k])
    BY StoresGrow DEF FreshInv, StoresOK
  <2>2. \A s \in Memos : MemoOK(file', gen', announced', memo[s])
    BY StoresGrow DEF FreshInv, StoresOK
  <2>3. TotalOK(file', gen', announced', total)
    BY StoresGrow DEF FreshInv, StoresOK
  <2> QED
    BY <1>1, <2>1, <2>2, <2>3 DEF FreshInv, StoresOK
<1>3. \A p \in Procs : ThreadOK(file', gen', announced', proc[p])
  BY ThreadGrows DEF FreshInv
<1>4. DiskOK(file')
  BY DEF Later
<1> QED
  BY <1>1, <1>2, <1>3, <1>4 DEF FreshInv

LEMMA FileChanges ==
    ASSUME FreshInv, NEW f \in Files,
           NEW d \in [ed : Nat, stamp : Nat, here : BOOLEAN, locked : BOOLEAN, gone : Int],
           file' = [file EXCEPT ![f] = d],
           UNCHANGED <<plan, gen, hist, stores, proc>>,
           file[f].gone <= d.gone /\ d.gone <= d.ed /\ (~d.here => d.gone = d.ed),
           file[f].ed <= d.ed /\ file[f].stamp <= d.stamp,
           f \in Installed /\ d.here /\ d.stamp = file[f].stamp => file[f].here /\ d.ed = file[f].ed,
           ~d.here => ~file[f].here \/ file[f].ed < d.ed
    PROVE  FreshInv'
<1>1. DiskOK(file) /\ file \in Disk
  BY DEF FreshInv, DiskOK
<1>2. file' \in Disk /\ file'[f] = d /\ \A x \in Files \ {f} : file'[x] = file[x]
  BY <1>1 DEF Disk
<1>3. DiskOK(file')
  BY <1>1, <1>2 DEF DiskOK, Disk, NoBytes
<1>4. Grown(file, file')
  BY <1>1, <1>2, GrownSelf DEF Grown
<1>5. Later(file, gen, announced, file', gen', announced')
  BY <1>1, <1>3, <1>4 DEF Later, FreshInv, HistOK, hist
<1>6. HistOK'
  <2>1. \A x \in Files : file[x].ed \in Nat /\ file'[x].ed \in Nat /\ file[x].ed <= file'[x].ed
    BY <1>1, <1>2, <1>4 DEF Disk, Grown
  <2>2. gen' = gen /\ announced' = announced /\ noticed' = noticed
    BY DEF hist
  <2> QED
    BY <2>1, <2>2 DEF FreshInv, HistOK
<1> QED
  BY <1>5, <1>6, TimePasses

LEMMA ChangesKeep ==
    ASSUME FreshInv, NEW f \in Files,
           \/ Edit(f) \/ Touch(f)
           \/ Create(f) \/ Delete(f) \/ Lock(f) \/ Unlock(f)
    PROVE  FreshInv'
<1> DEFINE o == file[f]
<1>1. /\ o \in [ed : Nat, stamp : Nat, here : BOOLEAN, locked : BOOLEAN, gone : Int]
      /\ o.gone <= o.ed /\ (~o.here => o.gone = o.ed)
      /\ file = [x \in Files |-> file[x]]
  BY DEF FreshInv, DiskOK, Disk
<1>2. CASE Edit(f)
  <2>1. PICK stamp : /\ stamp = o.stamp + 1 \/ (stamp = o.stamp /\ f \notin Installed)
                     /\ Change("edit", f, [o EXCEPT !.ed = o.ed + 1, !.stamp = stamp])
    BY <1>2 DEF Edit
  <2> DEFINE d == [o EXCEPT !.ed = o.ed + 1, !.stamp = stamp]
  <2>2. o.here /\ file' = [file EXCEPT ![f] = d] /\ UNCHANGED <<plan, gen, hist, stores, proc>>
    BY <1>2, <2>1 DEF Edit, Change, Readable
  <2> HIDE DEF o
  <2>3. /\ d \in [ed : Nat, stamp : Nat, here : BOOLEAN, locked : BOOLEAN, gone : Int]
        /\ d.ed = o.ed + 1 /\ d.stamp = stamp /\ d.here = o.here /\ d.gone = o.gone
    <3> DEFINE e == o.ed + 1
    <3>1. e \in Nat /\ stamp \in Nat
      BY <1>1, <2>1
    <3>2. d = [o EXCEPT !.ed = e, !.stamp = stamp]
      OBVIOUS
    <3> HIDE DEF e, d
    <3>3. d \in [ed : Nat, stamp : Nat, here : BOOLEAN, locked : BOOLEAN, gone : Int]
      BY <1>1, <3>1, <3>2
    <3>4. d.ed = e /\ d.stamp = stamp /\ d.here = o.here /\ d.gone = o.gone
      BY <1>1, <3>2
    <3> QED BY <3>3, <3>4 DEF e
  <2> HIDE DEF d
  <2> QED
    BY <1>1, <2>1, <2>2, <2>3, FileChanges DEF o
<1>3. CASE Touch(f)
  <2> DEFINE d == [o EXCEPT !.stamp = o.stamp + 1]
  <2>2. o.here /\ file' = [file EXCEPT ![f] = d] /\ UNCHANGED <<plan, gen, hist, stores, proc>>
    BY <1>3 DEF Touch, Change, Readable
  <2> HIDE DEF o
  <2>3. /\ d \in [ed : Nat, stamp : Nat, here : BOOLEAN, locked : BOOLEAN, gone : Int]
        /\ d.ed = o.ed /\ d.stamp = o.stamp + 1 /\ d.here = o.here /\ d.gone = o.gone
    BY <1>1
  <2> HIDE DEF d
  <2> QED
    BY <1>1, <2>2, <2>3, FileChanges DEF o
<1>4. CASE Create(f)
  <2> DEFINE d == [o EXCEPT !.here = TRUE, !.ed = o.ed + 1, !.stamp = o.stamp + 1]
  <2>2. file' = [file EXCEPT ![f] = d] /\ UNCHANGED <<plan, gen, hist, stores, proc>>
    BY <1>4 DEF Create, Change
  <2> HIDE DEF o
  <2>3. /\ d \in [ed : Nat, stamp : Nat, here : BOOLEAN, locked : BOOLEAN, gone : Int]
        /\ d.ed = o.ed + 1 /\ d.stamp = o.stamp + 1 /\ d.here /\ d.gone = o.gone
    <3> DEFINE e == o.ed + 1
               s == o.stamp + 1
    <3>1. e \in Nat /\ s \in Nat
      BY <1>1
    <3>2. d = [o EXCEPT !.here = TRUE, !.ed = e, !.stamp = s]
      OBVIOUS
    <3> HIDE DEF e, s, d
    <3>3. d \in [ed : Nat, stamp : Nat, here : BOOLEAN, locked : BOOLEAN, gone : Int]
      BY <1>1, <3>1, <3>2
    <3>4. d.ed = e /\ d.stamp = s /\ d.here = TRUE /\ d.gone = o.gone
      BY <1>1, <3>2
    <3> QED BY <3>3, <3>4 DEF e, s
  <2> HIDE DEF d
  <2> QED
    BY <1>1, <2>2, <2>3, FileChanges DEF o
<1>5. CASE Delete(f)
  <2> DEFINE d == [o EXCEPT !.here = FALSE, !.ed = o.ed + 1, !.gone = o.ed + 1]
  <2>2. o.here /\ file' = [file EXCEPT ![f] = d] /\ UNCHANGED <<plan, gen, hist, stores, proc>>
    BY <1>5 DEF Delete, Change, Readable
  <2> HIDE DEF o
  <2>3. /\ d \in [ed : Nat, stamp : Nat, here : BOOLEAN, locked : BOOLEAN, gone : Int]
        /\ d.ed = o.ed + 1 /\ d.stamp = o.stamp /\ ~d.here /\ d.gone = o.ed + 1
    <3> DEFINE e == o.ed + 1
    <3>1. e \in Nat /\ e \in Int
      BY <1>1
    <3>2. d = [o EXCEPT !.here = FALSE, !.ed = e, !.gone = e]
      OBVIOUS
    <3> HIDE DEF e, d
    <3>3. d \in [ed : Nat, stamp : Nat, here : BOOLEAN, locked : BOOLEAN, gone : Int]
      BY <1>1, <3>1, <3>2
    <3>4. d.ed = e /\ d.stamp = o.stamp /\ d.here = FALSE /\ d.gone = e
      BY <1>1, <3>2
    <3> QED BY <3>3, <3>4 DEF e
  <2> HIDE DEF d
  <2> QED
    BY <1>1, <2>2, <2>3, FileChanges DEF o
<1>6. CASE Lock(f) \/ Unlock(f)
  <2>1. PICK b \in BOOLEAN : /\ file' = [file EXCEPT ![f] = [o EXCEPT !.locked = b]]
                             /\ UNCHANGED <<plan, gen, hist, stores, proc>>
    <3>1. CASE Lock(f)
      BY <3>1 DEF Lock, Change
    <3>2. CASE Unlock(f)
      BY <3>2 DEF Unlock
    <3> QED BY <1>6, <3>1, <3>2
  <2> DEFINE d == [o EXCEPT !.locked = b]
  <2> HIDE DEF o
  <2>3. /\ d \in [ed : Nat, stamp : Nat, here : BOOLEAN, locked : BOOLEAN, gone : Int]
        /\ d.ed = o.ed /\ d.stamp = o.stamp /\ d.here = o.here /\ d.gone = o.gone
    BY <1>1
  <2>4. file' = [file EXCEPT ![f] = d]
    BY <2>1 DEF o
  <2> HIDE DEF d
  <2> QED
    BY <1>1, <2>1, <2>3, <2>4, FileChanges DEF o
<1> QED
  BY <1>2, <1>3, <1>4, <1>5, <1>6

LEMMA UnlivedOK ==
    ASSUME FreshInv, NEW s, StoredOK(file, gen, s)
    PROVE  LET x == [s EXCEPT !.live = FALSE] IN
           /\ StoredOK(file, gen, x) /\ x.entry = s.entry /\ x.gen = s.gen
<1> DEFINE e == s.entry
           g == s.gen
           x == [s EXCEPT !.live = FALSE]
<1>1. /\ s = Stored(e, g, s.live) /\ g \in Nat /\ g <= gen
      /\ e = Nothing => s = NoEntry
      /\ e # Nothing => EntryOK(file, e)
  BY DEF StoredOK
<1>2. x = Stored(e, g, FALSE)
  BY <1>1, Relived
<1>3. e = Nothing => g = 0
  <2>1. ASSUME s = NoEntry PROVE s.gen = 0
    BY <2>1 DEF NoEntry, Stored
  <2> QED BY <1>1, <2>1
<1> HIDE DEF e, g, x
<1>4. x.entry = e /\ x.gen = g /\ x = Stored(x.entry, x.gen, x.live)
  BY <1>2 DEF Stored
<1>5. e = Nothing => x = NoEntry
  BY <1>2, <1>3 DEF NoEntry
<1>6. StoredOK(file, gen, x)
  BY <1>1, <1>4, <1>5 DEF StoredOK
<1> QED
  BY <1>4, <1>6 DEF e, g, x

LEMMA ElapseKeeps ==
    ASSUME FreshInv, Elapse
    PROVE  FreshInv'
<1>1. /\ file' = file /\ plan' = plan /\ gen' = gen /\ announced' = announced /\ noticed' = noticed
      /\ rows' = rows
  BY DEF Elapse, disk
<1>2. \A k \in Imports : MemOK(file, gen, announced, [mem[k] EXCEPT !.live = FALSE])
  <2> SUFFICES ASSUME NEW k \in Imports PROVE MemOK(file, gen, announced, [mem[k] EXCEPT !.live = FALSE])
    OBVIOUS
  <2>1. MemOK(file, gen, announced, mem[k])
    BY DEF FreshInv, StoresOK
  <2> DEFINE s == mem[k]
             x == [s EXCEPT !.live = FALSE]
  <2>2. StoredOK(file, gen, x) /\ x.entry = s.entry /\ x.gen = s.gen
    BY <2>1, UnlivedOK DEF MemOK
  <2> HIDE DEF x
  <2>3. MemOK(file, gen, announced, x)
    BY <2>1, <2>2 DEF MemOK
  <2> QED BY <2>3 DEF x
<1>3. \A k \in Memos : MemoOK(file, gen, announced, [memo[k] EXCEPT !.live = FALSE])
  <2> SUFFICES ASSUME NEW k \in Memos PROVE MemoOK(file, gen, announced, [memo[k] EXCEPT !.live = FALSE])
    OBVIOUS
  <2>1. MemoOK(file, gen, announced, memo[k])
    BY DEF FreshInv, StoresOK
  <2> DEFINE s == memo[k]
             x == [s EXCEPT !.live = FALSE]
  <2>2. StoredOK(file, gen, x) /\ x.entry = s.entry /\ x.gen = s.gen
    BY <2>1, UnlivedOK DEF MemoOK
  <2> HIDE DEF x
  <2>3. MemoOK(file, gen, announced, x)
    BY <2>1, <2>2 DEF MemoOK
  <2> QED BY <2>3 DEF x
<1>4. TotalOK(file, gen, announced, total')
  <2> DEFINE s == total.stored
             x == [s EXCEPT !.live = FALSE]
             g == total.sig
  <2>1. TotalOK(file, gen, announced, total) /\ total = [stored |-> s, sig |-> g]
    BY DEF FreshInv, StoresOK, TotalOK
  <2>2. StoredOK(file, gen, x) /\ x.entry = s.entry /\ x.gen = s.gen
    BY <2>1, UnlivedOK DEF TotalOK
  <2>3. total' = [total EXCEPT !.stored = x]
    BY DEF Elapse
  <2> HIDE DEF x, s, g
  <2>4. total'.stored = x /\ total'.sig = g /\ total' = [stored |-> total'.stored, sig |-> total'.sig]
    BY <2>1, <2>3
  <2> QED
    BY <2>1, <2>2, <2>4 DEF TotalOK, s, g
<1>5. StoresOK'
  <2>1. mem' = [k \in Imports |-> [mem[k] EXCEPT !.live = FALSE]]
        /\ memo' = [s \in Memos |-> [memo[s] EXCEPT !.live = FALSE]]
    BY DEF Elapse
  <2>2. mem' = [k \in Imports |-> mem'[k]] /\ \A k \in Imports : MemOK(file, gen, announced, mem'[k])
    BY <1>2, <2>1
  <2>3. memo' = [s \in Memos |-> memo'[s]] /\ \A s \in Memos : MemoOK(file, gen, announced, memo'[s])
    BY <1>3, <2>1
  <2>4. rows = [k \in Imports |-> rows[k]] /\ \A k \in Imports : RowOK(file, rows[k])
    BY DEF FreshInv, StoresOK
  <2> QED
    BY <1>1, <1>4, <2>2, <2>3, <2>4 DEF StoresOK
<1>6. ASSUME NEW p \in Procs PROVE Here(proc'[p])
  <2> DEFINE r == proc[p]
             q == [r EXCEPT !.live = FALSE]
  <2>1. Here(r) /\ Shape(r)
    BY Facts
  <2>2. proc'[p] = q
    BY DEF Elapse
  <2>3. Shape(q) /\ \A x \in Fields \ {"live"} : q[x] = r[x]
    <3> HIDE DEF r
    <3> QED BY <2>1 DEF Shape, Fields
  <2>4. /\ q.pc = r.pc /\ q.todo = r.todo /\ q.half = r.half /\ q.cmp = r.cmp /\ q.entry = r.entry
        /\ q.tier = r.tier /\ q.worst = r.worst /\ q.status = r.status /\ q.intent = r.intent
        /\ q.prints = r.prints /\ q.used = r.used /\ q.blind = r.blind /\ SameRead(r, q)
    <3> HIDE DEF q, r
    <3> QED BY <2>3 DEF Fields, SameRead
  <2> HIDE DEF q, r
  <2>5. TimesOK(file, gen, announced, q) /\ PlaceOK(q) /\ DoneOK(file, q)
    BY <2>1, <2>4 DEF Here, ThreadOK, TimesOK, PlaceOK, DoneOK, SameRead
  <2>6. CheckOK(file, gen, announced, q)
    BY <2>1, <2>4 DEF Here, ThreadOK, CheckOK, SameRead, Verified
  <2>7. BuildOK(file, gen, announced, q)
    BY <2>1, <2>4 DEF Here, ThreadOK, BuildOK, SameRead, ReadsOK, HalfOK, PhaseOK, Looked
  <2>8. Here(q)
    BY <2>1, <2>3, <2>4, <2>5, <2>6, <2>7 DEF Here, ThreadOK, SameRead
  <2> QED BY <2>2, <2>8
<1>7. proc' = [p \in Procs |-> proc'[p]]
  BY DEF Elapse
<1>8. HistOK' /\ DiskOK(file')
  BY <1>1 DEF FreshInv, HistOK
<1> QED
  BY <1>1, <1>5, <1>6, <1>7, <1>8 DEF FreshInv, Here

LEMMA InvalidateEntriesKeeps ==
    ASSUME FreshInv, NEW ks, InvalidateEntries(ks)
    PROVE  FreshInv'
<1>1. /\ file' = file /\ plan' = plan /\ gen' = gen /\ announced' = announced /\ proc' = proc
      /\ memo' = memo /\ total' = total /\ noticed'.eds = Editions
      /\ mem' = [k \in Imports |-> IF k \in ks THEN NoEntry ELSE mem[k]]
      /\ rows' = [k \in Imports |-> IF k \in ks THEN Nothing ELSE rows[k]]
  BY DEF InvalidateEntries, disk
<1>2. StoresOK'
  <2>1. mem' = [k \in Imports |-> mem'[k]] /\ \A k \in Imports : MemOK(file, gen, announced, mem'[k])
    BY <1>1, NoEntryOK DEF FreshInv, StoresOK
  <2>2. rows' = [k \in Imports |-> rows'[k]] /\ \A k \in Imports : RowOK(file, rows'[k])
    BY <1>1, NoEntryOK DEF FreshInv, StoresOK
  <2> QED
    BY <1>1, <2>1, <2>2 DEF FreshInv, StoresOK
<1>3. HistOK'
  <2>1. /\ Editions \in [Files -> Nat]
        /\ \A f \in Files : Editions[f] = file[f].ed /\ file[f].ed <= file[f].ed
    BY DEF Editions, FreshInv, DiskOK, Disk
  <2> QED
    BY <1>1, <2>1 DEF FreshInv, HistOK
<1> QED
  BY <1>1, <1>2, <1>3 DEF FreshInv

LEMMA BumpKeeps ==
    ASSUME FreshInv, bump_cache_generation
    PROVE  FreshInv'
<1>1. /\ file' = file /\ plan' = plan /\ gen' = gen + 1 /\ announced' = noticed.eds
      /\ noticed' = Nothing /\ noticed # Nothing /\ UNCHANGED <<plan, stores, proc>>
  BY DEF bump_cache_generation, disk
<1>2. /\ gen \in Nat /\ gen >= 1 /\ announced \in [Files -> Nat] /\ noticed.eds \in [Files -> Nat]
      /\ \A f \in Files : announced[f] <= noticed.eds[f] /\ noticed.eds[f] <= file[f].ed
  BY <1>1 DEF FreshInv, HistOK
<1>3. HistOK'
  BY <1>1, <1>2 DEF HistOK
<1>4. Later(file, gen, announced, file', gen', announced')
  BY <1>1, <1>2, GrownSelf DEF Later, FreshInv
<1> QED
  BY <1>1, <1>3, <1>4, TimePasses

\* An aggregate that is not there.
LEMMA NoTotalOK ==
    ASSUME NEW fl, NEW g \in Nat, NEW an
    PROVE  /\ StoredOK(fl, g, NoEntry) /\ NoEntry.entry = Nothing
           /\ MemOK(fl, g, an, NoEntry) /\ MemoOK(fl, g, an, NoEntry)
           /\ TotalOK(fl, g, an, [stored |-> NoEntry, sig |-> Nothing])
<1>1. NoEntry = [entry |-> Nothing, gen |-> 0, live |-> FALSE]
  BY DEF NoEntry, Stored
<1>2. NoEntry.entry = Nothing /\ NoEntry.gen = 0 /\ NoEntry.live = FALSE
  BY <1>1
<1>3. StoredOK(fl, g, NoEntry)
  BY <1>1, <1>2 DEF StoredOK, Stored
<1> DEFINE e == NoEntry
           n == Nothing
           t == [stored |-> e, sig |-> n]
<1>4. TotalOK(fl, g, an, t)
  <2>1. e.entry = n /\ StoredOK(fl, g, e)
    BY <1>2, <1>3
  <2> HIDE DEF e
  <2>2. t.stored = e /\ t = [stored |-> t.stored, sig |-> t.sig]
    <3> HIDE DEF n
    <3> QED OBVIOUS
  <2> HIDE DEF t
  <2> QED
    BY <2>1, <2>2 DEF TotalOK
<1> QED
  BY <1>2, <1>3, <1>4 DEF MemOK, MemoOK

LEMMA WorkspaceConfigKeeps ==
    ASSUME FreshInv, InvalidateWorkspaceConfig
    PROVE  FreshInv'
<1>1. /\ file' = file /\ plan' = plan /\ gen' = gen /\ announced' = announced /\ proc' = proc
      /\ memo' = memo /\ mem' = mem /\ rows' = rows /\ noticed' = noticed
      /\ total' = [stored |-> NoEntry, sig |-> Nothing]
  BY DEF InvalidateWorkspaceConfig, disk, hist
<1>2. TotalOK(file, gen, announced, total') /\ gen \in Nat
  BY <1>1, NoTotalOK DEF FreshInv, HistOK
<1>3. StoresOK' /\ HistOK'
  BY <1>1, <1>2 DEF FreshInv, StoresOK, HistOK
<1> QED
  BY <1>1, <1>3 DEF FreshInv

\* A thread at rest, whatever the generation.
LEMMA AtRest ==
    ASSUME DiskOK(file), NEW g \in Nat, NEW an \in [Files -> Nat],
           \A f \in Files : an[f] <= file[f].ed,
           NEW r, Shape(r), r.pc = "idle", r.gen = 0, r.outer = Nothing, r.floor = an,
           r.since = [f \in Files |-> file[f].ed]
    PROVE  ThreadOK(file, g, an, r)
<1>1. \A f \in Files : file[f].ed \in Nat /\ an[f] \in Nat
  BY DEF DiskOK, Disk
<1>2. TimesOK(file, g, an, r)
  BY <1>1 DEF TimesOK, Building
<1>3. PlaceOK(r) /\ CheckOK(file, g, an, r) /\ BuildOK(file, g, an, r) /\ DoneOK(file, r)
  BY DEF PlaceOK, CheckOK, BuildOK, DoneOK, Building
<1> QED
  BY <1>2, <1>3 DEF ThreadOK

LEMMA RestartKeeps ==
    ASSUME FreshInv, Restart
    PROVE  FreshInv'
<1>1. /\ file' = file /\ plan' = plan /\ gen' = 1 /\ announced' = announced /\ noticed' = Nothing
      /\ mem' = [k \in Imports |-> NoEntry] /\ memo' = [s \in Memos |-> NoEntry]
      /\ total' = [stored |-> NoEntry, sig |-> Nothing] /\ rows' = rows
      /\ proc' = [p \in Procs |-> Begin(p)]
  BY DEF Restart
<1>2. StoresOK'
  <2>1. \A k \in Imports : MemOK(file, 1, announced, mem'[k])
    BY <1>1, NoTotalOK
  <2>2. \A s \in Memos : MemoOK(file, 1, announced, memo'[s])
    BY <1>1, NoTotalOK
  <2>3. TotalOK(file, 1, announced, total')
    BY <1>1, NoTotalOK
  <2>4. mem' = [k \in Imports |-> mem'[k]] /\ memo' = [s \in Memos |-> memo'[s]]
    BY <1>1
  <2>5. rows = [k \in Imports |-> rows[k]] /\ \A k \in Imports : RowOK(file, rows[k])
    BY DEF FreshInv, StoresOK
  <2> QED
    BY <1>1, <2>1, <2>2, <2>3, <2>4, <2>5 DEF StoresOK
<1>3. ASSUME NEW p \in Procs PROVE ThreadOK(file, 1, announced, proc'[p])
  <2> DEFINE b == Begin(p)
  <2>1. /\ Shape(b) /\ b.pc = "idle" /\ b.gen = 0 /\ b.outer = Nothing
        /\ b.since = Editions /\ b.floor = announced /\ proc'[p] = b
    BY <1>1, BeginFields
  <2>2. /\ DiskOK(file) /\ announced \in [Files -> Nat]
        /\ \A f \in Files : announced[f] <= file[f].ed
    BY Facts
  <2> HIDE DEF b
  <2> QED
    BY <2>1, <2>2, AtRest DEF Editions
<1>4. HistOK' /\ DiskOK(file')
  BY <1>1 DEF FreshInv, HistOK
<1>5. proc' = [p \in Procs |-> proc'[p]]
  BY <1>1
<1> QED
  BY <1>1, <1>2, <1>3, <1>4, <1>5 DEF FreshInv

LEMMA FreshStarts ==
    ASSUME FreshInit PROVE FreshInv
<1> DEFINE none == [f \in Files |-> 0]
<1>1. /\ plan \in Plans /\ gen = 1 /\ noticed = Nothing /\ announced = none
      /\ mem = [k \in Imports |-> NoEntry] /\ rows = [k \in Imports |-> Nothing]
      /\ memo = [s \in Memos |-> NoEntry] /\ total = [stored |-> NoEntry, sig |-> Nothing]
      /\ proc = [p \in Procs |-> Quiet(0, none, none)]
      /\ file = [f \in Files |-> [ed |-> 0, stamp |-> 0, here |-> f \notin Missing, locked |-> FALSE,
                                  gone |-> IF f \in Missing THEN 0 ELSE NoBytes]]
  BY DEF FreshInit
<1>2. \A f \in Files : file[f].ed = 0
  BY <1>1
<1>3. DiskOK(file)
  <2> SUFFICES ASSUME NEW f \in Files
               PROVE  /\ file[f] \in [ed : Nat, stamp : Nat, here : BOOLEAN, locked : BOOLEAN, gone : Int]
                      /\ NoBytes <= file[f].gone /\ file[f].gone <= file[f].ed
                      /\ ~file[f].here => file[f].gone = file[f].ed
    BY <1>1 DEF DiskOK, Disk
  <2>1. CASE f \in Missing
    <3>1. file[f] = [ed |-> 0, stamp |-> 0, here |-> FALSE, locked |-> FALSE, gone |-> 0]
      BY <1>1, <2>1
    <3> QED BY <3>1 DEF NoBytes
  <2>2. CASE f \notin Missing
    <3>1. file[f] = [ed |-> 0, stamp |-> 0, here |-> TRUE, locked |-> FALSE, gone |-> NoBytes]
      BY <1>1, <2>2
    <3> QED BY <3>1 DEF NoBytes
  <2> QED BY <2>1, <2>2
<1>4. none \in [Files -> Nat] /\ \A f \in Files : none[f] <= file[f].ed
  BY <1>2
<1>5. HistOK
  BY <1>1, <1>4 DEF HistOK
<1>6. StoresOK
  <2>1. /\ \A k \in Imports : MemOK(file, 1, announced, mem[k])
        /\ \A s \in Memos : MemoOK(file, 1, announced, memo[s])
        /\ TotalOK(file, 1, announced, total)
    BY <1>1, NoTotalOK
  <2>2. mem = [k \in Imports |-> mem[k]] /\ memo = [s \in Memos |-> memo[s]]
        /\ rows = [k \in Imports |-> rows[k]] /\ \A k \in Imports : RowOK(file, rows[k])
    BY <1>1 DEF RowOK
  <2> QED BY <1>1, <2>1, <2>2 DEF StoresOK
<1>7. ASSUME NEW p \in Procs PROVE ThreadOK(file, 1, none, proc[p])
  <2> DEFINE b == Quiet(0, none, none)
  <2>1. proc[p] = b
    BY <1>1
  <2>2. none = [f \in Files |-> file[f].ed]
    BY <1>2
  <2>3. /\ Shape(b) /\ b.pc = "idle" /\ b.gen = 0 /\ b.outer = Nothing
        /\ b.since = none /\ b.floor = none
    <3> HIDE DEF none
    <3> QED BY <1>4 DEF Quiet, Shape, Fields, Readings
  <2> HIDE DEF b, none
  <2> QED
    BY <1>3, <1>4, <2>1, <2>2, <2>3, AtRest
<1>8. proc = [p \in Procs |-> proc[p]]
  BY <1>1
<1> QED
  BY <1>1, <1>3, <1>5, <1>6, <1>7, <1>8 DEF FreshInv

LEMMA FreshKeeps ==
    ASSUME FreshInv, [FreshNext]_freshVars PROVE FreshInv'
<1>1. ASSUME NEW p \in Procs, Read1(p) PROVE FreshInv'
  BY <1>1, AskKeeps, LookupMemoryKeeps, LookupMissKeeps, ProbeRowKeeps, CheckFileKeeps,
     ServeFreshKeeps, ServeUnknownKeeps, ServeStaleKeeps, EvictKeeps, RowsGo, HydrateKeeps,
     ReprobeKeeps, ReprobedKeeps, MemoGetKeeps, MemoCheckedKeeps, TakeSignatureKeeps,
     TotalCheckedKeeps DEF Read1
<1>2. ASSUME NEW p \in Procs, Analyse(p) PROVE FreshInv'
  BY <1>2, ReadManifestsKeeps, StatModuleKeeps, ReadModuleKeeps, HashManifestKeeps,
     StatManifestKeeps, InsertImportKeeps, TrailingKeeps, MemoInsertKeeps, TotalInsertKeeps
     DEF Analyse
<1>3. ASSUME Environment PROVE FreshInv'
  BY <1>3, ChangesKeep, ElapseKeeps, InvalidateEntriesKeeps, BumpKeeps, WorkspaceConfigKeeps,
     RestartKeeps DEF Environment, Files
<1>4. ASSUME UNCHANGED freshVars PROVE FreshInv'
  <2>1. /\ plan' = plan /\ file' = file /\ gen' = gen /\ announced' = announced
        /\ noticed' = noticed /\ mem' = mem /\ rows' = rows /\ memo' = memo /\ total' = total
        /\ proc' = proc
    BY <1>4 DEF freshVars, disk, hist, stores
  <2> QED
    BY <2>1 DEF FreshInv, HistOK, StoresOK
<1> QED
  BY <1>1, <1>2, <1>3, <1>4 DEF FreshNext

\* The inductive invariant of the freshness protocol: what every stored
\* measurement and every thread's half-done work may be relied on for, whatever
\* the disk does between two steps.
THEOREM FreshInvariant == FreshSpec => []FreshInv
<1>1. FreshInit => FreshInv
  BY FreshStarts
<1>2. FreshInv /\ [FreshNext]_freshVars => FreshInv'
  BY FreshKeeps
<1> QED
  BY <1>1, <1>2, PTL DEF FreshSpec

\* An import served as fresh was measured from what each module really was, for
\* every set of files, imports, threads and workloads.
THEOREM FreshIsCurrent == FreshSpec => []FreshMeansCurrent
<1>1. FreshInv => FreshMeansCurrent
  BY DEF FreshInv, ThreadOK, DoneOK, FreshMeansCurrent, Served, At, NotBefore, HeldSince
<1> QED
  BY <1>1, FreshInvariant, PTL

\* A memo or an aggregate that is served was built after the last invalidation
\* completed before the read.
THEOREM InstallsAreHonoured == FreshSpec => []MemosHonourInstalls
<1>1. FreshInv => MemosHonourInstalls
  BY DEF FreshInv, ThreadOK, DoneOK, UsedSince, MemosHonourInstalls, Served, At, NotBefore, HeldSince
<1> QED
  BY <1>1, FreshInvariant, PTL

\* An entry that a check found stale or gone is not good.
LEMMA FoundBad ==
    ASSUME FreshInv, NEW p \in Procs, At(p, "check"), proc[p].worst \in {"Stale", "Gone"}
    PROVE  ~Good(proc[p].entry)
<1>1. \E fp \in proc[p].entry.prints : fp.hash < file[fp.path].ed /\ fp \in FilePrint
                                       /\ file[fp.path].ed \in Nat
  BY Facts DEF At, Here, ThreadOK, CheckOK, EntryOK, PrintsOK, Truthful, DiskOK, Disk, FilePrint
<1> QED
  BY <1>1 DEF Good, FilePrint

LEMMA VerdictSpares ==
    ASSUME FreshInv, NEW p \in Procs, Read1(p), ~Hydrate(p), NEW k \in Imports, Good(mem[k].entry)
    PROVE  Good(mem[k].entry)'
<1>1. file' = file
  BY DEF Read1, Ask, LookupMemory, LookupMiss, ProbeRow, CheckFile, ServeFresh, ServeUnknown,
     ServeStale, Evict, EvictRow, DropRow, Hydrate, Reprobe, Reprobed, MemoGet, MemoChecked,
     TakeSignature, TotalChecked, disk
<1>2. mem'[k].entry = mem[k].entry
  <2> DEFINE s == proc[p].slot
  <2>1. mem = [j \in Imports |-> mem[j]]
    BY DEF FreshInv, StoresOK
  <2>2. CASE ServeFresh(p)
    <3>1. CASE mem' = [mem EXCEPT ![s].gen = proc[p].gen, ![s].live = TRUE]
      <4>1. CASE s = k
        <5> DEFINE n == mem[k]
                   e == n.entry
                   g == n.gen
                   b == n.live
                   h == proc[p].gen
                   z == [[n EXCEPT !.gen = h] EXCEPT !.live = TRUE]
        <5>1. n = [entry |-> e, gen |-> g, live |-> b]
          BY DEF FreshInv, StoresOK, MemOK, StoredOK, Stored
        <5>2. mem'[k] = z
          BY <2>1, <3>1, <4>1
        <5> HIDE DEF n, e, g, b, h
        <5>3. z.entry = e
          BY <5>1
        <5> QED BY <5>2, <5>3 DEF e, n
      <4>2. CASE s # k
        BY <2>1, <3>1, <4>2
      <4> QED BY <4>1, <4>2
    <3>2. CASE mem' = mem
      BY <3>2
    <3> QED
      BY <2>2, <3>1, <3>2 DEF ServeFresh, Restamp, RestampWith
  <2>3. CASE Evict(p)
    <3>1. At(p, "check") /\ proc[p].worst \in {"Stale", "Gone"}
      BY <2>3 DEF Evict, Checked
    <3>2. ~Good(proc[p].entry)
      BY <3>1, FoundBad
    <3>3. CASE SameEntry(p)
      <4>1. s # k
        BY <3>2, <3>3 DEF SameEntry
      <4>2. mem' = [mem EXCEPT ![s] = NoEntry]
        BY <2>3, <3>3 DEF Evict, remove_from_memory_if_current
      <4> QED BY <2>1, <4>1, <4>2
    <3>4. CASE ~SameEntry(p)
      BY <2>3, <3>4 DEF Evict, remove_from_memory_if_current
    <3> QED BY <3>3, <3>4
  <2>4. CASE ~ServeFresh(p) /\ ~Evict(p)
    <3>1. mem' = mem
      BY <2>4 DEF Read1, Ask, LookupMemory, LookupMiss, ProbeRow, CheckFile, ServeUnknown,
         ServeStale, EvictRow, DropRow, Reprobe, Reprobed, MemoGet, MemoChecked,
         TakeSignature, TotalChecked, stores
    <3> QED BY <3>1
  <2> QED BY <2>2, <2>3, <2>4
<1> QED
  BY <1>1, <1>2 DEF Good

\* No verdict of a check takes out of memory a measurement that is still good.
THEOREM VerdictsAreFair == FreshSpec => VerdictsSpareGood
<1> DEFINE A == \A k \in Imports :
                  Good(mem[k].entry) /\ (\E p \in Procs : Read1(p) /\ ~Hydrate(p)) => Good(mem[k].entry)'
<1>1. FreshInv /\ [FreshNext]_freshVars => [A]_freshVars
  BY VerdictSpares
<1>2. [][A]_freshVars => VerdictsSpareGood
  BY DEF VerdictsSpareGood
<1> QED
  BY <1>1, <1>2, FreshInvariant, PTL DEF FreshSpec

=============================================================================
