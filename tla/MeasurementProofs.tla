-------------------------- MODULE MeasurementProofs --------------------------
(***************************************************************************)
(* One import measured, and its document summed, for every world: what the *)
(* manifest declares, the graph, the files and what goes wrong with each.  *)
(*                                                                         *)
(* The gate's invariant counts: the permits that are free and the ones     *)
(* held make up all of them, and while anybody sleeps there are at least   *)
(* as many callers on their way to the gate as permits are free.  The      *)
(* build's and the asset stage's say of their ledgers that every file is   *)
(* charged once.  MeasureInv joins them: an asset job runs only behind the *)
(* gate and after a build that worked, but may outlive the request, so     *)
(* what it goes on to meet must not matter to an answer already given.     *)
(***************************************************************************)
EXTENDS Measurement, SumProofs, FiniteSetTheorems, SequenceTheorems, TLAPS

(***************************************************************************)
(* The asset gate.                                                         *)
(***************************************************************************)

Acquiring == {c \in Callers : call[c] = "acquire"}

\* A caller whose job exists is past the gate.
PastGate == \A c \in Callers : work[c] # "none" => call[c] \in {"waiting", "answered"}

Conserved == available + Cardinality(Holding) = Permits

Owed == (\E c \in Callers : call[c] = "asleep") => available <= Cardinality(Acquiring)

GateInv == GateTypeOK /\ PastGate /\ Conserved /\ Owed

CallStates == {"idle", "acquire", "asleep", "admitted", "waiting", "answered"}

\* A set of callers is finite, and so is its cardinality.
LEMMA CallersFinite ==
    ASSUME NEW S \in SUBSET Callers
    PROVE  IsFiniteSet(S) /\ Cardinality(S) \in Nat
  BY CallersAssumption, FS_Subset, FS_CardinalityType

\* notify_one wakes one sleeper if there is any, and changes nothing else.
LEMMA NotifiedWakesOne ==
    ASSUME NEW calls \in [Callers -> CallStates], NEW new \in Notified(calls)
    PROVE  \/ new = calls /\ \A a \in Callers : calls[a] # "asleep"
           \/ \E d \in Callers : calls[d] = "asleep" /\ new = [calls EXCEPT ![d] = "acquire"]
  <1>1. CASE {a \in Callers : calls[a] = "asleep"} = {}
    BY <1>1 DEF Notified
  <1>2. CASE {a \in Callers : calls[a] = "asleep"} # {}
    BY <1>2 DEF Notified
  <1> QED BY <1>1, <1>2

\* A wake-up keeps the debt paid: after one permit more at most was freed, and
\* with no more than one caller gone from the gate, the woken one makes up.
LEMMA WakePaysDebt ==
    ASSUME GateInv, GateTypeOK',
           NEW calls \in [Callers -> CallStates],
           call' \in Notified(calls),
           \A a \in Callers : calls[a] = "asleep" => call[a] = "asleep",
           available' <= 1 + available - Cardinality(Acquiring)
                           + Cardinality({a \in Callers : calls[a] = "acquire"})
    PROVE  Owed'
  <1> DEFINE Bound == {a \in Callers : calls[a] = "acquire"}
  <1>1. CASE call' = calls /\ \A a \in Callers : calls[a] # "asleep"
    BY <1>1 DEF Owed
  <1>2. ASSUME NEW d \in Callers, calls[d] = "asleep", call' = [calls EXCEPT ![d] = "acquire"]
        PROVE  Owed'
    <2>1. available <= Cardinality(Acquiring)
      BY <1>2 DEF GateInv, Owed
    <2>2. Acquiring' = Bound \cup {d} /\ d \notin Bound
      BY <1>2 DEF Acquiring
    <2>3. Cardinality(Acquiring') = Cardinality(Bound) + 1
      BY <2>2, CallersFinite, FS_AddElement, Bound \in SUBSET Callers
    <2>4. Cardinality(Acquiring) \in Nat /\ Cardinality(Bound) \in Nat
      BY CallersFinite, Acquiring \in SUBSET Callers, Bound \in SUBSET Callers DEF Acquiring
    <2> QED BY <2>1, <2>3, <2>4 DEF Owed, GateInv, GateTypeOK
  <1> QED BY <1>1, <1>2, NotifiedWakesOne

\* The invariant holds before anybody has come.
LEMMA GateStarts == GateInit => GateInv
  <1> SUFFICES ASSUME GateInit PROVE GateInv
    OBVIOUS
  <1>1. Holding = {}
    BY DEF GateInit, Holding
  <1>2. GateTypeOK /\ PastGate /\ Owed
    BY PermitsAssumption DEF GateInit, GateTypeOK, PastGate, Owed
  <1> QED BY <1>1, <1>2, FS_EmptySet, PermitsAssumption DEF GateInv, Conserved, GateInit

\* Every step keeps the invariant.
LEMMA GateStep == GateInv /\ [GateNext]_gateVars => GateInv'
  <1> SUFFICES ASSUME GateInv, [GateNext]_gateVars PROVE GateInv'
    OBVIOUS
  <1> USE DEF GateInv
  <1>types. /\ available \in Nat /\ call \in [Callers -> CallStates]
            /\ work \in [Callers -> {"none", "queued", "running", "returned", "gone"}]
    BY DEF GateTypeOK, CallStates
  <1>fin. /\ IsFiniteSet(Holding) /\ Cardinality(Holding) \in Nat
          /\ IsFiniteSet(Acquiring) /\ Cardinality(Acquiring) \in Nat
    BY CallersFinite, Holding \in SUBSET Callers, Acquiring \in SUBSET Callers
       DEF Holding, Acquiring
  <1>stutter. CASE UNCHANGED gateVars
    <2>1. Holding' = Holding /\ Acquiring' = Acquiring
      BY <1>stutter DEF gateVars, Holding, Acquiring
    <2> QED BY <1>stutter, <2>1 DEF gateVars, GateTypeOK, PastGate, Conserved, Owed
  <1>execute. ASSUME NEW c \in Callers, NEW b \in BOOLEAN, Execute(c, b) PROVE GateInv'
    <2>1. /\ work' = work /\ available' = available /\ call[c] = "idle"
          /\ \E s \in {"acquire", "answered"} : call' = [call EXCEPT ![c] = s]
      BY <1>execute DEF Execute
    <2>2. PICK s \in {"acquire", "answered"} : call' = [call EXCEPT ![c] = s]
      BY <2>1
    <2>3. GateTypeOK' /\ PastGate'
      BY <2>1, <2>2 DEF GateTypeOK, PastGate
    <2>4. Holding' = Holding
      BY <1>types, <2>1, <2>2 DEF Holding
    <2>5. Acquiring \subseteq Acquiring'
      BY <1>types, <2>1, <2>2 DEF Acquiring
    <2>6. Cardinality(Acquiring) <= Cardinality(Acquiring') /\ Cardinality(Acquiring') \in Nat
      BY <2>5, CallersFinite, FS_Subset, Acquiring' \in SUBSET Callers DEF Acquiring
    <2>7. \A a \in Callers : call'[a] = "asleep" => call[a] = "asleep"
      BY <1>types, <2>2
    <2> QED BY <1>types, <1>fin, <2>1, <2>3, <2>4, <2>6, <2>7 DEF Conserved, Owed
  <1>giveup. ASSUME NEW c \in Callers, GiveUpAcquire(c) PROVE GateInv'
    <2> DEFINE left == [call EXCEPT ![c] = "answered"]
    <2>1. /\ work' = work /\ available' = available /\ call[c] = "acquire"
          /\ available > 0 => call' \in Notified(left)
          /\ available = 0 => call' = left
      BY <1>giveup, <1>types DEF GiveUpAcquire
    <2>2. left \in [Callers -> CallStates]
      BY <1>types DEF CallStates
    <2>3. \/ call' = left
          \/ \E d \in Callers : left[d] = "asleep" /\ call' = [left EXCEPT ![d] = "acquire"]
      <3>1. CASE available > 0
        <4>1. call' \in Notified(left)
          BY <2>1, <3>1
        <4> HIDE DEF left
        <4> QED BY <2>2, <4>1, NotifiedWakesOne
      <3>2. CASE available = 0
        BY <2>1, <3>2
      <3> QED BY <1>types, <3>1, <3>2
    <2>4. GateTypeOK' /\ PastGate'
      BY <1>types, <2>1, <2>3 DEF GateTypeOK, PastGate, CallStates
    <2>5. Holding' = Holding
      BY <1>types, <2>1, <2>3 DEF Holding
    <2>6. {a \in Callers : left[a] = "acquire"} = Acquiring \ {c} /\ c \in Acquiring
      BY <1>types, <2>1 DEF Acquiring
    <2>7. Cardinality({a \in Callers : left[a] = "acquire"}) = Cardinality(Acquiring) - 1
      BY <1>fin, <2>6, FS_RemoveElement
    <2>8. \A a \in Callers : left[a] = "asleep" => call[a] = "asleep"
      BY <1>types
    <2>9. Owed'
      <3>1. CASE available > 0
        <4>1. available' <= 1 + available - Cardinality(Acquiring)
                + Cardinality({a \in Callers : left[a] = "acquire"})
          BY <1>types, <1>fin, <2>1, <2>7
        <4>2. call' \in Notified(left)
          BY <2>1, <3>1
        <4> HIDE DEF left
        <4> QED BY <2>2, <2>4, <2>8, <4>1, <4>2, WakePaysDebt
      <3>2. CASE available = 0
        <4>1. Cardinality(Acquiring') \in Nat
          BY CallersFinite, Acquiring' \in SUBSET Callers DEF Acquiring
        <4> QED BY <2>1, <3>2, <4>1 DEF Owed
      <3> QED BY <1>types, <3>1, <3>2
    <2> QED BY <2>1, <2>4, <2>5, <2>9 DEF Conserved
  <1>acquire. ASSUME NEW c \in Callers, Acquire(c) PROVE GateInv'
    <2>0. work' = work /\ call[c] = "acquire"
      BY <1>acquire DEF Acquire
    <2>00. work[c] = "none"
      BY <2>0 DEF PastGate
    <2>1. CASE available > 0 /\ available' = available - 1 /\ call' = [call EXCEPT ![c] = "admitted"]
      <3>1. GateTypeOK' /\ PastGate'
        BY <1>types, <2>0, <2>00, <2>1 DEF GateTypeOK, PastGate, CallStates
      <3>2. Holding' = Holding \cup {c} /\ c \notin Holding
        BY <1>types, <2>0, <2>00, <2>1 DEF Holding
      <3>3. Cardinality(Holding') = Cardinality(Holding) + 1
        BY <1>fin, <3>2, FS_AddElement
      <3>4. Acquiring' = Acquiring \ {c} /\ c \in Acquiring
        BY <1>types, <2>0, <2>1 DEF Acquiring
      <3>5. Cardinality(Acquiring') = Cardinality(Acquiring) - 1
        BY <1>fin, <3>4, FS_RemoveElement
      <3>6. \A a \in Callers : call'[a] = "asleep" => call[a] = "asleep"
        BY <1>types, <2>1
      <3>7. Conserved'
        BY <1>types, <1>fin, <2>1, <3>3, PermitsAssumption DEF Conserved
      <3>8. Owed'
        BY <1>types, <1>fin, <2>1, <3>5, <3>6 DEF Owed
      <3> QED BY <3>1, <3>7, <3>8
    <2>2. CASE available = 0 /\ available' = available /\ call' = [call EXCEPT ![c] = "asleep"]
      <3>1. GateTypeOK' /\ PastGate'
        BY <1>types, <2>0, <2>00, <2>2 DEF GateTypeOK, PastGate, CallStates
      <3>2. Holding' = Holding
        BY <1>types, <2>0, <2>2 DEF Holding
      <3>3. Cardinality(Acquiring') \in Nat
        BY CallersFinite, Acquiring' \in SUBSET Callers DEF Acquiring
      <3> QED BY <2>2, <3>1, <3>2, <3>3 DEF Conserved, Owed
    <2> QED BY <1>acquire, <2>1, <2>2 DEF Acquire
  <1>wake. ASSUME NEW c \in Callers, WakeExpired(c) PROVE GateInv'
    <2>1. work' = work /\ available' = available /\ call[c] = "asleep"
          /\ call' = [call EXCEPT ![c] = "acquire"]
      BY <1>wake DEF WakeExpired
    <2>2. GateTypeOK' /\ PastGate'
      BY <1>types, <2>1 DEF GateTypeOK, PastGate, CallStates
    <2>3. Holding' = Holding
      BY <1>types, <2>1 DEF Holding
    <2>4. Acquiring' = Acquiring \cup {c} /\ c \notin Acquiring
      BY <1>types, <2>1 DEF Acquiring
    <2>5. Cardinality(Acquiring') = Cardinality(Acquiring) + 1
      BY <1>fin, <2>4, FS_AddElement
    <2> QED BY <1>types, <1>fin, <2>1, <2>2, <2>3, <2>5 DEF Conserved, Owed
  <1>submit. ASSUME NEW c \in Callers, Submit(c) PROVE GateInv'
    <2>0. call[c] = "admitted" /\ work[c] = "none" /\ c \in Holding
      BY <1>submit DEF Submit, PastGate, Holding
    <2> DEFINE left == [call EXCEPT ![c] = "answered"]
    <2>1. CASE available' = available + 1 /\ call' \in Notified(left) /\ work' = work
      <3>1. left \in [Callers -> CallStates]
        BY <1>types DEF CallStates
      <3>2. \/ call' = left
            \/ \E d \in Callers : left[d] = "asleep" /\ call' = [left EXCEPT ![d] = "acquire"]
        BY <2>1, <3>1, NotifiedWakesOne
      <3>3. GateTypeOK' /\ PastGate'
        BY <1>types, <2>0, <2>1, <3>2 DEF GateTypeOK, PastGate, CallStates
      <3>4. Holding' = Holding \ {c}
        BY <1>types, <2>0, <2>1, <3>2 DEF Holding
      <3>5. Conserved'
        <4>1. Cardinality(Holding') = Cardinality(Holding) - 1
          BY <1>fin, <2>0, <3>4, FS_RemoveElement
        <4>2. available' = available + 1
          BY <2>1
        <4> QED BY <1>types, <1>fin, <4>1, <4>2 DEF Conserved
      <3>6. {a \in Callers : left[a] = "acquire"} = Acquiring
        BY <1>types, <2>0 DEF Acquiring
      <3>7. \A a \in Callers : left[a] = "asleep" => call[a] = "asleep"
        BY <1>types
      <3>8. available' <= 1 + available - Cardinality(Acquiring)
              + Cardinality({a \in Callers : left[a] = "acquire"})
        <4>1. available' = available + 1
          BY <2>1
        <4> HIDE DEF left
        <4> QED BY <1>types, <1>fin, <3>6, <4>1
      <3>9. call' \in Notified(left)
        BY <2>1
      <3>10. Owed'
        <4> HIDE DEF left
        <4> QED BY <3>1, <3>3, <3>7, <3>8, <3>9, WakePaysDebt
      <3> QED BY <3>3, <3>5, <3>10
    <2>2. CASE /\ call' = [call EXCEPT ![c] = "waiting"] /\ work' = [work EXCEPT ![c] = "queued"]
               /\ available' = available
      <3>1. GateTypeOK' /\ PastGate'
        BY <1>types, <2>0, <2>2 DEF GateTypeOK, PastGate, CallStates
      <3>2. Holding' = Holding
        BY <1>types, <2>0, <2>2 DEF Holding
      <3>3. Acquiring' = Acquiring
        BY <1>types, <2>0, <2>2 DEF Acquiring
      <3>4. \A a \in Callers : call'[a] = "asleep" => call[a] = "asleep"
        BY <1>types, <2>2
      <3> QED BY <2>2, <3>1, <3>2, <3>3, <3>4 DEF Conserved, Owed
    <2> QED BY <1>submit, <2>1, <2>2 DEF Submit
  <1>receive. ASSUME NEW c \in Callers, Receive(c) PROVE GateInv'
    <2>1. work' = work /\ available' = available /\ call[c] = "waiting"
          /\ call' = [call EXCEPT ![c] = "answered"]
      BY <1>receive DEF Receive
    <2>2. GateTypeOK' /\ PastGate'
      BY <1>types, <2>1 DEF GateTypeOK, PastGate, CallStates
    <2>3. Holding' = Holding /\ Acquiring' = Acquiring
      BY <1>types, <2>1 DEF Holding, Acquiring
    <2>4. \A a \in Callers : call'[a] = "asleep" => call[a] = "asleep"
      BY <1>types, <2>1
    <2> QED BY <2>1, <2>2, <2>3, <2>4 DEF Conserved, Owed
  <1>expire. ASSUME NEW c \in Callers, Expire(c) PROVE GateInv'
    <2>1. work' = work /\ available' = available /\ call' = call
      BY <1>expire DEF Expire
    <2>2. Holding' = Holding /\ Acquiring' = Acquiring
      BY <2>1 DEF Holding, Acquiring
    <2> QED BY <2>1, <2>2 DEF GateTypeOK, PastGate, Conserved, Owed
  <1>worker. ASSUME NEW c \in Callers,
                    \/ WorkerStart(c)
                    \/ \E outcome \in {"ok", "Panicked"} : WorkerReturn(c, outcome)
             PROVE  GateInv'
    <2>1. /\ call' = call /\ available' = available /\ work[c] \in {"queued", "running"}
          /\ \E s \in {"running", "returned"} : work' = [work EXCEPT ![c] = s]
      BY <1>worker DEF WorkerStart, WorkerReturn
    <2>2. PICK s \in {"running", "returned"} : work' = [work EXCEPT ![c] = s]
      BY <2>1
    <2>3. GateTypeOK' /\ PastGate'
      BY <1>types, <2>1, <2>2 DEF GateTypeOK, PastGate
    <2>4. Holding' = Holding /\ Acquiring' = Acquiring
      BY <1>types, <2>1, <2>2 DEF Holding, Acquiring
    <2> QED BY <2>1, <2>3, <2>4 DEF Conserved, Owed
  <1>release. ASSUME NEW c \in Callers, Release(c) PROVE GateInv'
    <2>1. /\ available' = available + 1 /\ call' \in Notified(call)
          /\ work[c] = "returned" /\ work' = [work EXCEPT ![c] = "gone"]
      BY <1>release DEF Release
    <2>2. \/ call' = call
          \/ \E d \in Callers : call[d] = "asleep" /\ call' = [call EXCEPT ![d] = "acquire"]
      BY <1>types, <2>1, NotifiedWakesOne
    <2>3. GateTypeOK' /\ PastGate'
      BY <1>types, <2>1, <2>2 DEF GateTypeOK, PastGate, CallStates
    <2>4. Holding' = Holding \ {c} /\ c \in Holding
      BY <1>types, <2>1, <2>2 DEF Holding, PastGate
    <2>5. Conserved'
      <3>1. Cardinality(Holding') = Cardinality(Holding) - 1
        BY <1>fin, <2>4, FS_RemoveElement
      <3>2. available' = available + 1
        BY <2>1
      <3> QED BY <1>types, <1>fin, <3>1, <3>2 DEF Conserved
    <2>6. available' <= 1 + available - Cardinality(Acquiring)
            + Cardinality({a \in Callers : call[a] = "acquire"})
      BY <1>types, <1>fin, <2>1 DEF Acquiring
    <2>7. Owed'
      BY <1>types, <2>1, <2>3, <2>6, WakePaysDebt
    <2> QED BY <2>3, <2>5, <2>7
  <1> QED
    BY <1>stutter, <1>execute, <1>giveup, <1>acquire, <1>wake, <1>submit, <1>receive,
       <1>expire, <1>worker, <1>release DEF GateNext, CallerStep

\* The gate's counter never runs below zero, and every caller and job is where
\* asset_boundary.rs can put it.
THEOREM GateTypes == GateSpec => []GateTypeOK
  <1>1. GateInv => GateTypeOK
    BY DEF GateInv
  <1> QED BY <1>1, GateStarts, GateStep, PTL DEF GateSpec

\* A caller that sleeps beside a free permit has another on its way to it.
LEMMA GateIdles == GateInv => NoIdlePermit
  <1> SUFFICES ASSUME GateInv, available > 0,
                      NEW c \in Callers, call[c] = "asleep"
               PROVE  \E a \in Callers : call[a] = "acquire"
    BY DEF GateInv, NoIdlePermit, Conserved
  <1>1. Cardinality(Acquiring) > 0 /\ IsFiniteSet(Acquiring)
    BY CallersFinite, Acquiring \in SUBSET Callers DEF GateInv, Owed, GateTypeOK, Acquiring
  <1>2. Acquiring # {}
    BY <1>1, FS_EmptySet
  <1> QED BY <1>2 DEF Acquiring

\* Every permit of the asset gate is free or accounted for, jobs that were given
\* up on included, and none lies free while a caller sleeps that could use it
\* unless another is on its way to it (acquire, release and Permit::drop).
THEOREM GateNoIdlePermit == GateSpec => []NoIdlePermit
  BY GateIdles, GateStarts, GateStep, PTL DEF GateSpec

(***************************************************************************)
(* Resolution: the entry.                                                  *)
(***************************************************************************)

\* The indices of the entry fields are 1, 2 and perhaps 3.
LEMMA FieldIndices ==
    ASSUME NEW p
    PROVE  Declared(p) \subseteq {1, 2, 3}
BY DEF Declared, profile_entry_fields

\* The first of some of them is one of them.
LEMMA FirstIn ==
    ASSUME NEW S, S \subseteq {1, 2, 3}, S # {}
    PROVE  FirstOf(S) \in S
<1>1. \E i \in S : \A j \in S : i <= j
  <2>1. CASE 1 \in S
    BY <2>1
  <2>2. CASE 1 \notin S /\ 2 \in S
    BY <2>2
  <2>3. CASE 1 \notin S /\ 2 \notin S
    <3>1. PICK i : i \in S
      OBVIOUS
    <3>2. \A j \in S : j = 3
      BY <2>3
    <3>. QED BY <3>1, <3>2
  <2>. QED BY <2>1, <2>2, <2>3
<1>. QED BY <1>1 DEF FirstOf

\* What the bundler's resolver answers with is a file of the package, and a
\* declared one where the manifest must have declared it.
LEMMA OxcFindsFiles ==
    ASSUME NEW p, OxcEntry(p) # None
    PROVE  /\ OxcEntry(p) \in p.files
           /\ ~p.sub /\ p.exports = "none" /\ DeclaredTargets(p) # {}
                /\ validate_declared_entry_resolution(p) => OxcEntry(p) \in DeclaredTargets(p)
<1> DEFINE found == {i \in Declared(p) : Target(p, i) \in p.files}
<1>1. found # {} => FirstOf(found) \in found
  BY FirstIn, FieldIndices
<1>2. found = {} => DeclaredTargets(p) \cap p.files = {}
  BY DEF DeclaredTargets
<1>3. OxcEntry(p) =
        IF p.exports # "none"
        THEN IF (p.cond \in condition_names(p.runtime) /\ p.target \in p.files)
                  /\ (p.sub <=> p.exports = "subpaths") THEN p.target ELSE None
        ELSE IF p.sub THEN IF "sub.js" \in p.files THEN "sub.js" ELSE None
        ELSE IF found # {} THEN Target(p, FirstOf(found))
        ELSE IF "index.js" \in p.files THEN "index.js" ELSE None
  BY DEF OxcEntry
<1>4. \A i \in found : Target(p, i) \in p.files /\ Target(p, i) \in DeclaredTargets(p)
  BY DEF DeclaredTargets
<1> HIDE DEF found
<1>5. OxcEntry(p) \in p.files
  BY <1>1, <1>3, <1>4
<1>6. ASSUME ~p.sub, p.exports = "none", DeclaredTargets(p) # {},
             validate_declared_entry_resolution(p)
      PROVE  OxcEntry(p) \in DeclaredTargets(p)
  <2>1. found # {}
    BY <1>2, <1>6 DEF validate_declared_entry_resolution
  <2>. QED BY <2>1, <1>1, <1>3, <1>4, <1>6
<1>. QED BY <1>5, <1>6

\* The resolver's word about the format changes nothing: where it says that a
\* file is CommonJS, the file's extension and the manifest say so too.
LEMMA FormatFromManifest ==
    ASSUME NEW p, NEW entry, NEW cjs \in OxcFormats(p, entry)
    PROVE  resolved_entry_is_commonjs(p, entry, cjs) = resolved_entry_is_commonjs(p, entry, FALSE)
<1> DEFINE ext == Extension(p, entry)
<1>1. \/ ext = "cjs"
      \/ cjs = FALSE
      \/ ext = "js" /\ cjs \in BOOLEAN
  BY DEF OxcFormats
<1>2. CASE ext = "cjs"
  BY <1>2 DEF resolved_entry_is_commonjs, None
<1>3. CASE cjs = FALSE
  BY <1>3
<1>4. CASE ext = "js" /\ cjs \in BOOLEAN
  BY <1>4 DEF resolved_entry_is_commonjs, None
<1>. QED BY <1>1, <1>2, <1>3, <1>4

\* What a candidate file resolves to.
LEMMA CandidateAgrees ==
    ASSUME NEW p, NEW target, Candidate(p, target).ok
    PROVE  /\ target \in p.files
           /\ Candidate(p, target) = resolved_from_cache_identity(p, target)
           /\ Candidate(p, target).entry = target
<1>1. target \in p.files
  BY DEF Candidate, Unresolved
<1>. QED BY <1>1 DEF Candidate, Resolved, resolved_from_cache_identity

\* The entries of EntryAgrees, for one package and one answer.
Agrees(p, a) ==
    a.ok => /\ a.entry \in p.files
            /\ ~p.sub /\ p.exports = "none" /\ DeclaredTargets(p) # {}
                 => a.entry \in DeclaredTargets(p)
            /\ resolved_from_cache_identity(p, a.entry) = a

\* What the fallback after the bundler's resolver answers agrees too.
LEMMA FallbackAgrees ==
    ASSUME NEW p
    PROVE  Agrees(p, resolve_legacy_fallback(p))
<1> DEFINE a == resolve_legacy_fallback(p)
<1>0. SUFFICES ASSUME a.ok PROVE Agrees(p, a)
  BY DEF Agrees
<1>1. \/ p.exports # "none" /\ a = Candidate(p, p.main)
      \/ p.sub /\ a = Candidate(p, "sub.js")
      \/ Declared(p) # {} /\ a = Candidate(p, Target(p, FirstOf(Declared(p))))
      \/ Declared(p) = {} /\ a = Candidate(p, "index.js")
  BY <1>0 DEF resolve_legacy_fallback, Unresolved
<1>2. Declared(p) # {} => Target(p, FirstOf(Declared(p))) \in DeclaredTargets(p)
  BY FirstIn, FieldIndices DEF DeclaredTargets
<1>3. Declared(p) = {} => DeclaredTargets(p) = {}
  BY DEF DeclaredTargets
<1> HIDE DEF a
<1>4. CASE p.exports # "none" /\ a = Candidate(p, p.main)
  BY <1>0, <1>4, CandidateAgrees DEF Agrees
<1>5. CASE p.sub /\ a = Candidate(p, "sub.js")
  BY <1>0, <1>5, CandidateAgrees DEF Agrees
<1>6. CASE Declared(p) # {} /\ a = Candidate(p, Target(p, FirstOf(Declared(p))))
  BY <1>0, <1>2, <1>6, CandidateAgrees DEF Agrees
<1>7. CASE Declared(p) = {} /\ a = Candidate(p, "index.js")
  BY <1>0, <1>3, <1>7, CandidateAgrees DEF Agrees
<1>. QED BY <1>1, <1>4, <1>5, <1>6, <1>7

\* Every answer of resolve_package_entry agrees.
LEMMA AnswersAgree ==
    ASSUME NEW p, NEW a \in resolve_package_entry(p)
    PROVE  Agrees(p, a)
<1>0. SUFFICES ASSUME a.ok PROVE Agrees(p, a)
  BY DEF Agrees
<1> DEFINE of(said) ==
        IF ~said.ok THEN resolve_legacy_fallback(p)
        ELSE IF ~p.sub /\ ~validate_declared_entry_resolution(p)
        THEN Unresolved("package entry not found")
        ELSE Resolved(said.entry,
                      resolved_entry_is_commonjs(p, said.entry, said.is_cjs))
<1>1. PICK said \in resolve_with_oxc(p) : a = of(said)
  <2>1. \A message : Unresolved(message).ok = FALSE
    BY DEF Unresolved
  <2>2. a \in {of(said) : said \in resolve_with_oxc(p)}
    <3> HIDE DEF of
    <3>. QED BY <1>0, <2>1 DEF resolve_package_entry, of
  <2>. QED BY <2>2
<1>2. CASE ~said.ok
  BY <1>1, <1>2, FallbackAgrees
<1>3. CASE said.ok
  <2>1. PICK cjs \in OxcFormats(p, OxcEntry(p)) :
          OxcEntry(p) # None /\ said = Resolved(OxcEntry(p), cjs)
    BY <1>3 DEF resolve_with_oxc, Unresolved
  <2>2. said.entry = OxcEntry(p) /\ said.is_cjs = cjs
    BY <2>1 DEF Resolved
  <2>3. p.sub \/ validate_declared_entry_resolution(p)
    BY <1>0, <1>1, <1>3 DEF Unresolved
  <2>4. a = Resolved(OxcEntry(p), resolved_entry_is_commonjs(p, OxcEntry(p), cjs))
    BY <1>1, <1>3, <2>2, <2>3
  <2>5. a = resolved_from_cache_identity(p, OxcEntry(p))
    BY <2>4, FormatFromManifest DEF resolved_from_cache_identity
  <2>6. a.entry = OxcEntry(p)
    BY <2>4 DEF Resolved
  <2>. QED BY <2>1, <2>3, <2>5, <2>6, OxcFindsFiles DEF Agrees
<1>. QED BY <1>2, <1>3

\* The measured entry is a declared one, and remembered as the same format.
THEOREM EntriesAgree == Spec => []EntryAgrees
<1>1. EntryAgrees
  BY AnswersAgree DEF EntryAgrees, Agrees
<1>. QED BY <1>1, PTL

(***************************************************************************)
(* GraphBuild: the build's ledger.                                         *)
(***************************************************************************)

TaskStates == {"idle", "reserved", "read", "done", "failed", "outnumbered"}
Kinds == {"unloadable", "plugin", "parse", "unresolved"}
LedgerFields == {"total", "breach", "assets", "unmeasured", "failed", "loaded", "externals"}

BuildTypes ==
    /\ IsGraph(graph)
    /\ st \in [DOMAIN graph -> TaskStates]
    /\ \A m \in DOMAIN graph : st[m] \in {"reserved", "read"} =>
         graph[m].class # "probe" /\ graph[m].io \notin {"absent", "unreadable"}
    /\ DOMAIN ledger = LedgerFields
    /\ ledger.total \in Int
    /\ diags \in Seq(Kinds)

\* A file is claimed by an asset whose read is over.
Claimant(m, class) ==
    m \in DOMAIN graph /\ graph[m].class = class /\ st[m] \notin {"idle", "reserved"}
Claims ==
    /\ \A f \in DOMAIN ledger.assets : Claimant(ledger.assets[f], "counted")
    /\ \A f \in DOMAIN ledger.unmeasured : Claimant(ledger.unmeasured[f], "unmeasured")

\* A breach has its diagnostic, and an input that could not be read is known to
\* the ledger, or the graph is over a limit anyhow.
Known(l, f) == f \in DOMAIN l.failed /\ l.failed[f] # "absent"
Unread(m) ==
    /\ graph[m].class # "js"
    /\ graph[m].io \in {"unreadable", "lost"}
    /\ st[m] = "failed" \/ (graph[m].class = "probe" /\ st[m] = "done")
LostModule(m) == graph[m].class = "js" /\ Unreadable(m) /\ st[m] = "failed"
Unloadable(ds) == \E i \in DOMAIN ds : ds[i] = "unloadable"
Told ==
    /\ ledger.breach # 0 => diags # << >>
    /\ \A m \in DOMAIN graph : Unread(m) => ledger.breach # 0 \/ Known(ledger, graph[m].file)
    /\ \A m \in DOMAIN graph : LostModule(m) => ledger.breach # 0 \/ Unloadable(diags)

\* The build's answer, once there is one, is about tasks that have all ended.
Outcome ==
    \/ built = Building
    \/ /\ built.state = "failed"
       /\ \A m \in DOMAIN graph : st[m] \notin {"reserved", "read"}
       /\ UnreadableAsset => built.stage \in {"module_graph_limit", "asset_io"}
       /\ UnreadableModule => built.stage \in {"module_graph_limit", "asset_io", "resolve"}
    \/ /\ built.state = "ok"
       /\ \A m \in DOMAIN graph : st[m] \notin {"reserved", "read"}
       /\ built.graph_source_bytes \in Int
       /\ UnreadableAsset => "asset_io" \in built.stages
       /\ ~UnreadableModule
       /\ built.stages \cap {"types_only", "native_binary_only"} = {}

BuildInv == BuildTypes /\ Claims /\ LedgerExact /\ Told /\ Outcome

\* Sums over sets of modules: they are integers, and a module joins or leaves.
LEMMA GraphSums ==
    ASSUME IsGraph(graph), NEW T \in SUBSET DOMAIN graph
    PROVE  /\ SumOver(Stats(graph), T) \in Int /\ SumOver(Actuals(graph), T) \in Int
           /\ \A m \in DOMAIN graph :
                m \notin T =>
                  /\ SumOver(Stats(graph), T \cup {m}) = graph[m].stat + SumOver(Stats(graph), T)
                  /\ SumOver(Actuals(graph), T \cup {m}) = graph[m].actual + SumOver(Actuals(graph), T)
           /\ \A m \in T :
                SumOver(Stats(graph), T) = graph[m].stat + SumOver(Stats(graph), T \ {m})
<1>1. IsFiniteSet(T)
  BY FS_Subset DEF IsGraph
<1>2. \A x \in DOMAIN graph : /\ Stats(graph)[x] = graph[x].stat /\ graph[x].stat \in Int
                              /\ Actuals(graph)[x] = graph[x].actual /\ graph[x].actual \in Int
  BY DEF Stats, Actuals, IsGraph
<1>3. SumOver(Stats(graph), T) \in Int /\ SumOver(Actuals(graph), T) \in Int
  BY <1>1, <1>2, SumInt
<1>4. ASSUME NEW m \in DOMAIN graph, m \notin T
      PROVE  /\ SumOver(Stats(graph), T \cup {m}) = graph[m].stat + SumOver(Stats(graph), T)
             /\ SumOver(Actuals(graph), T \cup {m}) = graph[m].actual + SumOver(Actuals(graph), T)
  <2>1. \A x \in T \cup {m} : Stats(graph)[x] \in Int /\ Actuals(graph)[x] \in Int
    BY <1>2
  <2>. QED BY <1>1, <1>2, <1>4, <2>1, SumAdd
<1>5. ASSUME NEW m \in T
      PROVE  SumOver(Stats(graph), T) = graph[m].stat + SumOver(Stats(graph), T \ {m})
  BY <1>1, <1>2, SumRemove
<1>. QED BY <1>3, <1>4, <1>5

\* What recording a failed input, or a breach, leaves alone.
LEMMA FailedGrows ==
    ASSUME NEW l, DOMAIN l = LedgerFields, NEW file, NEW why
    PROVE  LET new == record_failed_asset_input(l, file, why)
           IN  /\ DOMAIN new = LedgerFields
               /\ new.total = l.total /\ new.breach = l.breach
               /\ new.assets = l.assets /\ new.unmeasured = l.unmeasured
               /\ \A f : Known(l, f) => Known(new, f)
               /\ why # "absent" => Known(new, file)
<1> DEFINE v == IF Has(l.failed, file) /\ why = "absent" THEN l.failed[file] ELSE why
           new == record_failed_asset_input(l, file, why)
<1>1. new = [l EXCEPT !.failed = With(l.failed, file, v)]
  BY DEF record_failed_asset_input
<1>2. /\ DOMAIN new = LedgerFields /\ new.failed = With(l.failed, file, v)
      /\ new.total = l.total /\ new.breach = l.breach
      /\ new.assets = l.assets /\ new.unmeasured = l.unmeasured
  BY <1>1 DEF LedgerFields
<1>3. /\ DOMAIN new.failed = DOMAIN l.failed \cup {file}
      /\ \A f \in DOMAIN new.failed : new.failed[f] = IF f = file THEN v ELSE l.failed[f]
  BY <1>2 DEF With
<1> HIDE DEF new
<1>4. \A f : Known(l, f) => Known(new, f)
  BY <1>3 DEF Known, Has
<1>5. why # "absent" => Known(new, file)
  BY <1>3 DEF Known
<1>. QED BY <1>2, <1>4, <1>5 DEF new

\* record_breach touches nothing but the breach.
LEMMA BreachRecorded ==
    ASSUME NEW l, DOMAIN l = LedgerFields, NEW message \in {FileBreach, TotalBreach, CountBreach}
    PROVE  LET new == record_breach(l, message)
           IN  /\ DOMAIN new = LedgerFields
               /\ new.total = l.total /\ new.breach # 0
               /\ new.assets = l.assets /\ new.unmeasured = l.unmeasured
               /\ new.failed = l.failed
BY DEF record_breach, LedgerFields, FileBreach, TotalBreach, CountBreach

\* A task that ends with a diagnostic.
LEMMA TaskEndsKeeps ==
    ASSUME BuildInv, NEW m \in DOMAIN graph, NEW l, NEW kind \in Kinds,
           NEW end \in {"failed", "outnumbered"},
           TaskEnds(m, l, kind, end), st[m] # "idle" \/ built = Building,
           st[m] \in {"idle", "reserved", "read"},
           DOMAIN l = LedgerFields, l.total \in Int,
           l.assets = ledger.assets, l.unmeasured = ledger.unmeasured,
           \A f : Known(ledger, f) => Known(l, f),
           l.breach # 0 \/ l.breach = ledger.breach,
           Unread(m)' => l.breach # 0 \/ Known(l, graph[m].file),
           LostModule(m)' => l.breach # 0 \/ kind = "unloadable",
           LedgerExact'
    PROVE  BuildInv'
<1>1. /\ ledger' = l /\ diags' = Append(diags, kind) /\ graph' = graph /\ built' = built
      /\ st' = [st EXCEPT ![m] = end]
  BY DEF TaskEnds, Task
<1>2. built = Building
  <2>1. st[m] \in {"reserved", "read"} => built = Building
    BY DEF BuildInv, Outcome
  <2>. QED BY <2>1
<1>3. /\ st \in [DOMAIN graph -> TaskStates] /\ diags \in Seq(Kinds)
  BY DEF BuildInv, BuildTypes
<1>4. st' \in [DOMAIN graph -> TaskStates] /\ st'[m] = end
      /\ \A n \in DOMAIN graph : n # m => st'[n] = st[n]
  BY <1>1, <1>3 DEF TaskStates
<1>5. /\ diags' \in Seq(Kinds) /\ diags' # << >>
      /\ Unloadable(diags) \/ kind = "unloadable" => Unloadable(diags')
  <2>1. /\ diags' = Append(diags, kind) /\ Len(diags) \in Nat /\ DOMAIN diags = 1 .. Len(diags)
        /\ DOMAIN diags' = 1 .. Len(diags) + 1 /\ diags'[Len(diags) + 1] = kind
        /\ \A i \in 1 .. Len(diags) : diags'[i] = diags[i]
    BY <1>1, <1>3
  <2>. QED BY <1>1, <1>3, <2>1 DEF Unloadable
<1>6. BuildTypes'
  BY <1>1, <1>4, <1>5 DEF BuildInv, BuildTypes
<1>7. Claims'
  <2>1. \A n, class : Claimant(n, class) => Claimant(n, class)'
    BY <1>1, <1>4 DEF Claimant
  <2>. QED BY <1>1, <2>1 DEF BuildInv, Claims
<1>8. Told'
  <2>1. ASSUME NEW n \in DOMAIN graph, Unread(n)', n # m
        PROVE  ledger'.breach # 0 \/ Known(ledger', graph[n].file)
    <3>1. Unread(n)
      BY <1>1, <1>4, <2>1 DEF Unread
    <3>. QED BY <1>1, <3>1 DEF BuildInv, Told
  <2>2. Unread(m)' => ledger'.breach # 0 \/ Known(ledger', graph[m].file)
    BY <1>1
  <2>3. ASSUME NEW n \in DOMAIN graph, LostModule(n)', n # m
        PROVE  ledger'.breach # 0 \/ Unloadable(diags')
    <3>1. LostModule(n)
      BY <1>1, <1>4, <2>3 DEF LostModule, Unreadable
    <3>. QED BY <1>1, <1>5, <3>1 DEF BuildInv, Told
  <2>4. LostModule(m)' => ledger'.breach # 0 \/ Unloadable(diags')
    BY <1>1, <1>5
  <2>. QED BY <1>1, <1>5, <2>1, <2>2, <2>3, <2>4 DEF Told
<1>9. Outcome'
  BY <1>1, <1>2 DEF Outcome
<1>. QED BY <1>6, <1>7, <1>8, <1>9 DEF BuildInv

\* A task that goes on to its next step.
LEMMA TaskGoesKeeps ==
    ASSUME BuildInv, NEW m \in DOMAIN graph, NEW next \in {"reserved", "read", "done"},
           Task(m, next), UNCHANGED <<graph, opts, diags, built>>,
           st[m] # "idle" \/ built = Building, st[m] \in {"idle", "reserved", "read"},
           DOMAIN ledger' = LedgerFields, ledger'.total \in Int, ledger'.breach = ledger.breach,
           \A f : Known(ledger, f) => Known(ledger', f),
           Unread(m)' => Known(ledger', graph[m].file),
           next = "done" \/ graph[m].class # "probe",
           next = "done" \/ graph[m].io \notin {"absent", "unreadable"},
           Claims', LedgerExact'
    PROVE  BuildInv'
<1>1. graph' = graph /\ built' = built /\ diags' = diags /\ st' = [st EXCEPT ![m] = next]
  BY DEF Task
<1>2. built = Building
  <2>1. st[m] \in {"reserved", "read"} => built = Building
    BY DEF BuildInv, Outcome
  <2>. QED BY <2>1
<1>3. /\ st \in [DOMAIN graph -> TaskStates] /\ diags \in Seq(Kinds)
  BY DEF BuildInv, BuildTypes
<1>4. st' \in [DOMAIN graph -> TaskStates] /\ st'[m] = next
      /\ \A n \in DOMAIN graph : n # m => st'[n] = st[n]
  BY <1>1, <1>3 DEF TaskStates
<1>6. BuildTypes'
  BY <1>1, <1>4 DEF BuildInv, BuildTypes
<1>8. Told'
  <2>1. ASSUME NEW n \in DOMAIN graph, Unread(n)', n # m
        PROVE  ledger'.breach # 0 \/ Known(ledger', graph[n].file)
    <3>1. Unread(n)
      BY <1>1, <1>4, <2>1 DEF Unread
    <3>. QED BY <1>1, <3>1 DEF BuildInv, Told
  <2>2. ASSUME NEW n \in DOMAIN graph, LostModule(n)'
        PROVE  ledger'.breach # 0 \/ Unloadable(diags')
    <3>1. n # m /\ LostModule(n)
      BY <1>1, <1>4, <2>2 DEF LostModule, Unreadable
    <3>. QED BY <1>1, <3>1 DEF BuildInv, Told
  <2>. QED BY <1>1, <2>1, <2>2 DEF Told, BuildInv
<1>9. Outcome'
  BY <1>1, <1>2 DEF Outcome
<1>. QED BY <1>6, <1>8, <1>9 DEF BuildInv

\* Which modules the ledger's total is about, before and after a task's step.
LEMMA CountedSets ==
    ASSUME BuildInv
    PROVE  /\ Reserved \subseteq DOMAIN graph /\ Claimed \cup Parsed \subseteq DOMAIN graph
           /\ \A m \in Claimed : st[m] \notin {"idle", "reserved"} /\ graph[m].class # "js"
           /\ \A m \in Parsed : st[m] \in {"done", "outnumbered"} /\ graph[m].class = "js"
           /\ \A m \in Reserved : st[m] = "reserved" /\ IsAsset(m)
  BY DEF BuildInv, Claims, Claimant, Claimed, Parsed, Reserved

\* Which modules are reserved and which are parsed after a task's step.
LEMMA SetsAfter ==
    ASSUME BuildInv, NEW m \in DOMAIN graph, NEW next \in TaskStates,
           graph' = graph, st' = [st EXCEPT ![m] = next], st[m] \in {"idle", "reserved", "read"}
    PROVE  /\ next = "reserved" /\ IsAsset(m) => Reserved' = Reserved \cup {m}
           /\ next # "reserved" \/ ~IsAsset(m) => Reserved' = Reserved \ {m}
           /\ next \in {"done", "outnumbered"} /\ graph[m].class = "js" => Parsed' = Parsed \cup {m}
           /\ next \notin {"done", "outnumbered"} \/ graph[m].class # "js" => Parsed' = Parsed
<1>1. st \in [DOMAIN graph -> TaskStates]
  BY DEF BuildInv, BuildTypes
<1>. QED BY <1>1 DEF Reserved, Parsed, IsAsset

\* A step that moves none of the bytes keeps the ledger exact.
LEMMA SameBytesExact ==
    ASSUME BuildInv, NEW m \in DOMAIN graph, NEW next \in TaskStates,
           graph' = graph, st' = [st EXCEPT ![m] = next], st[m] \in {"idle", "reserved", "read"},
           ~(st[m] = "reserved" /\ IsAsset(m)),
           next # "reserved" \/ ~IsAsset(m),
           next \notin {"done", "outnumbered"} \/ graph[m].class # "js",
           ledger'.total = ledger.total,
           ledger'.assets = ledger.assets, ledger'.unmeasured = ledger.unmeasured
    PROVE  LedgerExact'
<1>1. Reserved' = Reserved
  <2>1. Reserved' = Reserved \ {m}
    BY SetsAfter
  <2>2. m \notin Reserved
    BY DEF Reserved
  <2>. QED BY <2>1, <2>2
<1>3. Parsed' = Parsed
  BY SetsAfter
<1>2. Claimed' = Claimed
  BY DEF Claimed
<1>. QED BY <1>1, <1>2, <1>3 DEF LedgerExact, BuildInv

\* load, up to the read.
LEMMA LoadStatKeeps ==
    ASSUME BuildInv, NEW m \in DOMAIN graph, LoadStat(m)
    PROVE  BuildInv'
<1> DEFINE r == graph[m]
<1>1. /\ st[m] = "idle" /\ built = Building /\ r.class # "probe"
      /\ r.class \in {"js", "counted", "unmeasured", "probe"}
      /\ r.io \in {"ok", "absent", "unreadable", "lost"}
      /\ r.stat \in Nat /\ DOMAIN ledger = LedgerFields /\ ledger.total \in Int
  BY DEF LoadStat, Loadable, BuildInv, BuildTypes, IsGraph
<1>2. ASSUME NEW l, DOMAIN l = LedgerFields, l.total = ledger.total,
             l.assets = ledger.assets, l.unmeasured = ledger.unmeasured,
             \A f : Known(ledger, f) => Known(l, f),
             l.breach # 0 \/ l.breach = ledger.breach,
             r.class # "js" /\ r.io \in {"unreadable", "lost"}
               => l.breach # 0 \/ Known(l, r.file),
             NEW kind \in {"unloadable", "plugin"}, TaskFails(m, l, kind),
             l.breach # 0 \/ kind = "unloadable"
      PROVE  BuildInv'
  <2>1. TaskEnds(m, l, kind, "failed") /\ kind \in Kinds
    BY <1>2 DEF TaskFails, Kinds
  <2>2. /\ ledger' = l /\ graph' = graph /\ st' = [st EXCEPT ![m] = "failed"]
    BY <2>1 DEF TaskEnds, Task
  <2>3. LedgerExact'
    BY <1>1, <1>2, <2>2, SameBytesExact DEF TaskStates
  <2>4. Unread(m)' => l.breach # 0 \/ Known(l, graph[m].file)
    BY <1>2, <2>2 DEF Unread
  <2>. QED BY <1>1, <1>2, <2>1, <2>3, <2>4, TaskEndsKeeps
<1>3. CASE r.io \in {"absent", "unreadable"}
           /\ TaskFails(m, IF IsAsset(m) THEN record_failed_asset_input(ledger, r.file, r.io)
                           ELSE ledger, "unloadable")
  <2>1. CASE IsAsset(m)
    BY <1>1, <1>2, <1>3, <2>1, FailedGrows
  <2>2. CASE ~IsAsset(m)
    <3>1. r.class = "js"
      BY <1>1, <2>2 DEF IsAsset
    <3>. QED BY <1>1, <1>2, <1>3, <2>2, <3>1
  <2>. QED BY <2>1, <2>2
<1>4. CASE TaskFails(m, record_breach(ledger, FileBreach), "plugin")
  BY <1>1, <1>2, <1>4, BreachRecorded DEF Known
<1>5. CASE TaskFails(m, record_breach(ledger, TotalBreach), "plugin")
  BY <1>1, <1>2, <1>5, BreachRecorded DEF Known
<1>6. CASE /\ r.io \notin {"absent", "unreadable"}
           /\ ~IsAsset(m) \/ try_reserve_source_bytes(ledger.total, r.stat)
           /\ ledger' = [ledger EXCEPT !.total = @ + (IF IsAsset(m) THEN r.stat ELSE 0)]
           /\ Task(m, "reserved")
           /\ UNCHANGED <<graph, opts, diags, built>>
  <2>1. /\ DOMAIN ledger' = LedgerFields
        /\ ledger'.total = ledger.total + (IF IsAsset(m) THEN r.stat ELSE 0)
        /\ ledger'.breach = ledger.breach /\ ledger'.failed = ledger.failed
        /\ ledger'.assets = ledger.assets /\ ledger'.unmeasured = ledger.unmeasured
    BY <1>1, <1>6 DEF LedgerFields
  <2>2. graph' = graph /\ st' = [st EXCEPT ![m] = "reserved"] /\ st \in [DOMAIN graph -> TaskStates]
    BY <1>6 DEF Task, BuildInv, BuildTypes
  <2>3. Claims'
    <3>1. \A n, class : Claimant(n, class) => Claimant(n, class)'
      BY <1>1, <2>2 DEF Claimant
    <3>. QED BY <2>1, <3>1 DEF BuildInv, Claims
  <2>4. LedgerExact'
    <3>1. CASE IsAsset(m)
      <4>1. Reserved' = Reserved \cup {m} /\ Parsed' = Parsed /\ m \notin Reserved
        BY <1>1, <2>2, <3>1, SetsAfter, CountedSets DEF TaskStates
      <4>2. Claimed' = Claimed
        BY <2>1 DEF Claimed
      <4>3. SumOver(Stats(graph), Reserved \cup {m}) = r.stat + SumOver(Stats(graph), Reserved)
            /\ SumOver(Stats(graph), Reserved) \in Int
            /\ SumOver(Actuals(graph), Claimed \cup Parsed) \in Int
        BY <4>1, GraphSums, CountedSets DEF BuildInv, BuildTypes
      <4>4. ledger'.total <= MaxGraphBytes
        BY <1>6, <2>1, <3>1 DEF try_reserve_source_bytes
      <4>. QED BY <1>1, <2>1, <2>2, <3>1, <4>1, <4>2, <4>3, <4>4 DEF LedgerExact, BuildInv
    <3>2. CASE ~IsAsset(m)
      <4>1. ledger'.total = ledger.total
        BY <1>1, <2>1, <3>2
      <4>. QED BY <1>1, <2>1, <2>2, <3>2, <4>1, SameBytesExact DEF TaskStates
    <3>. QED BY <3>1, <3>2
  <2>5. ~Unread(m)'
    BY <1>1, <2>2 DEF Unread
  <2>6. ledger'.total \in Int /\ \A f : Known(ledger, f) => Known(ledger', f)
    BY <1>1, <2>1 DEF Known
  <2>. QED BY <1>1, <1>6, <2>1, <2>3, <2>4, <2>5, <2>6, TaskGoesKeeps
<1>. QED BY <1>3, <1>4, <1>5, <1>6 DEF LoadStat

\* A claim: the first of a file keeps the bytes that were read, a later one
\* gives them back.
LEMMA ClaimCounts ==
    ASSUME NEW l, DOMAIN l = LedgerFields, l.total \in Int, NEW m \in DOMAIN graph, IsAsset(m),
           graph[m].actual \in Nat
    PROVE  LET new == Claim(l, m)
               kept == IF graph[m].class = "counted" THEN l.assets ELSE l.unmeasured
           IN  /\ DOMAIN new = LedgerFields /\ new.breach = l.breach /\ new.failed = l.failed
               /\ graph[m].file \in DOMAIN kept =>
                    /\ new.total = l.total - graph[m].actual
                    /\ new.assets = l.assets /\ new.unmeasured = l.unmeasured
               /\ graph[m].file \notin DOMAIN kept =>
                    /\ new.total = l.total
                    /\ graph[m].class = "counted" =>
                         new.assets = With(l.assets, graph[m].file, m) /\ new.unmeasured = l.unmeasured
                    /\ graph[m].class = "unmeasured" =>
                         new.assets = l.assets /\ new.unmeasured = With(l.unmeasured, graph[m].file, m)
<1>1. CASE graph[m].class = "counted"
  BY <1>1 DEF Claim, Has, LedgerFields
<1>2. CASE graph[m].class # "counted"
  <2>1. graph[m].class = "unmeasured"
    BY <1>2 DEF IsAsset
  <2>. QED BY <1>2, <2>1 DEF Claim, Has, LedgerFields
<1>. QED BY <1>1, <1>2

\* load of an asset, from the read on.
LEMMA LoadAssetKeeps ==
    ASSUME BuildInv, NEW m \in DOMAIN graph, LoadAsset(m)
    PROVE  BuildInv'
<1> DEFINE r == graph[m]
           released == [ledger EXCEPT !.total = @ - r.stat]
<1>1. /\ st[m] = "reserved" /\ IsAsset(m)
      /\ r.class \in {"counted", "unmeasured"} /\ r.stat \in Nat /\ r.actual \in Nat
      /\ DOMAIN ledger = LedgerFields /\ ledger.total \in Int /\ ledger.total <= MaxGraphBytes
      /\ st \in [DOMAIN graph -> TaskStates] /\ MaxGraphBytes \in Nat
      /\ r.io \notin {"absent", "unreadable"}
  BY GraphLimits DEF LoadAsset, IsAsset, BuildInv, BuildTypes, IsGraph, LedgerExact
<1>2. /\ DOMAIN released = LedgerFields /\ released.total = ledger.total - r.stat
      /\ released.breach = ledger.breach /\ released.failed = ledger.failed
      /\ released.assets = ledger.assets /\ released.unmeasured = ledger.unmeasured
  BY <1>1 DEF LedgerFields
<1> HIDE DEF released
<1>3. /\ SumOver(Stats(graph), Reserved) = r.stat + SumOver(Stats(graph), Reserved \ {m})
      /\ SumOver(Stats(graph), Reserved) \in Int
      /\ SumOver(Stats(graph), Reserved \ {m}) \in Int
      /\ SumOver(Actuals(graph), Claimed \cup Parsed) \in Int
  <2>1. m \in Reserved
    BY <1>1 DEF Reserved
  <2>2. Reserved \in SUBSET DOMAIN graph /\ Claimed \cup Parsed \in SUBSET DOMAIN graph
        /\ Reserved \ {m} \in SUBSET DOMAIN graph
    BY CountedSets
  <2>3. IsGraph(graph)
    BY DEF BuildInv, BuildTypes
  <2>. QED BY <2>1, <2>2, <2>3, GraphSums
<1>4. ledger.total = SumOver(Stats(graph), Reserved) + SumOver(Actuals(graph), Claimed \cup Parsed)
  BY DEF BuildInv, LedgerExact
<1>5. ASSUME NEW next \in {"failed", "read"}, graph' = graph, st' = [st EXCEPT ![m] = next],
             ledger'.total = ledger.total - r.stat,
             ledger'.assets = ledger.assets, ledger'.unmeasured = ledger.unmeasured
      PROVE  LedgerExact'
  <2>1. Reserved' = Reserved \ {m} /\ Parsed' = Parsed
    BY <1>1, <1>5, SetsAfter DEF TaskStates
  <2>2. Claimed' = Claimed
    BY <1>5 DEF Claimed
  <2>. QED BY <1>1, <1>3, <1>4, <1>5, <2>1, <2>2 DEF LedgerExact
<1>6. ASSUME NEW l, DOMAIN l = LedgerFields, l.total = ledger.total - r.stat,
             l.assets = ledger.assets, l.unmeasured = ledger.unmeasured,
             \A f : Known(ledger, f) => Known(l, f),
             l.breach # 0 \/ (l.breach = ledger.breach /\ Known(l, r.file)),
             NEW kind \in {"unloadable", "plugin"}, TaskFails(m, l, kind)
      PROVE  BuildInv'
  <2>1. TaskEnds(m, l, kind, "failed") /\ kind \in Kinds
    BY <1>6 DEF TaskFails, Kinds
  <2>2. /\ ledger' = l /\ graph' = graph /\ st' = [st EXCEPT ![m] = "failed"]
    BY <2>1 DEF TaskEnds, Task
  <2>3. LedgerExact'
    BY <1>5, <1>6, <2>2
  <2>4. Unread(m)' => l.breach # 0 \/ Known(l, graph[m].file)
    BY <1>6
  <2>5. ~LostModule(m)'
    BY <1>1, <2>2 DEF LostModule
  <2>. QED BY <1>1, <1>6, <2>1, <2>3, <2>4, <2>5, TaskEndsKeeps
<1>7. CASE TaskFails(m, record_failed_asset_input(released, r.file, "unreadable"), "unloadable")
  <2> DEFINE l == record_failed_asset_input(released, r.file, "unreadable")
  <2>1. /\ DOMAIN l = LedgerFields
        /\ l.total = released.total /\ l.breach = released.breach
        /\ l.assets = released.assets /\ l.unmeasured = released.unmeasured
        /\ \A f : Known(released, f) => Known(l, f)
        /\ Known(l, r.file)
    BY <1>2, FailedGrows
  <2>2. \A f : Known(ledger, f) => Known(released, f)
    BY <1>2 DEF Known
  <2> HIDE DEF l
  <2>3. TaskFails(m, l, "unloadable")
    BY <1>7 DEF l
  <2>. QED BY <1>2, <1>6, <2>1, <2>2, <2>3
<1>8. ASSUME NEW message \in {FileBreach, TotalBreach, CountBreach},
             TaskFails(m, record_breach(released, message), "plugin")
      PROVE  BuildInv'
  <2> DEFINE l == record_breach(released, message)
  <2>1. /\ DOMAIN l = LedgerFields
        /\ l.total = released.total /\ l.breach # 0
        /\ l.assets = released.assets /\ l.unmeasured = released.unmeasured
        /\ l.failed = released.failed
    BY <1>2, BreachRecorded
  <2> HIDE DEF l
  <2>2. \A f : Known(ledger, f) => Known(l, f)
    BY <1>2, <2>1 DEF Known
  <2>3. TaskFails(m, l, "plugin")
    BY <1>8 DEF l
  <2>. QED BY <1>2, <1>6, <2>1, <2>2, <2>3
<1>9. CASE /\ reconcile_source_bytes(ledger.total, r.stat, r.actual)
           /\ ledger' = Claim([released EXCEPT !.total = @ + r.actual], m)
           /\ Task(m, "read")
           /\ UNCHANGED <<graph, opts, diags, built>>
  <2> DEFINE l == [released EXCEPT !.total = @ + r.actual]
             kept == IF r.class = "counted" THEN l.assets ELSE l.unmeasured
  <2>1. /\ DOMAIN l = LedgerFields /\ l.total = (ledger.total - r.stat) + r.actual
        /\ l.total \in Int
        /\ l.breach = ledger.breach /\ l.failed = ledger.failed
        /\ l.assets = ledger.assets /\ l.unmeasured = ledger.unmeasured
    BY <1>1, <1>2 DEF LedgerFields
  <2>2. ledger' = Claim(l, m) /\ graph' = graph /\ st' = [st EXCEPT ![m] = "read"]
    BY <1>9 DEF Task
  <2> HIDE DEF l
  <2>3. /\ DOMAIN ledger' = LedgerFields /\ ledger'.breach = l.breach /\ ledger'.failed = l.failed
        /\ r.file \in DOMAIN kept =>
             /\ ledger'.total = l.total - r.actual
             /\ ledger'.assets = l.assets /\ ledger'.unmeasured = l.unmeasured
        /\ r.file \notin DOMAIN kept =>
             /\ ledger'.total = l.total
             /\ r.class = "counted" =>
                  ledger'.assets = With(l.assets, r.file, m) /\ ledger'.unmeasured = l.unmeasured
             /\ r.class = "unmeasured" =>
                  ledger'.assets = l.assets /\ ledger'.unmeasured = With(l.unmeasured, r.file, m)
    BY <1>1, <2>1, <2>2, ClaimCounts
  <2> HIDE DEF kept
  <2>4. \A n, class : Claimant(n, class) => Claimant(n, class)'
    BY <1>1, <2>2 DEF Claimant
  <2>5. \A class : class = r.class => Claimant(m, class)'
    BY <1>1, <2>2 DEF Claimant, TaskStates
  <2>6. Claims' /\ LedgerExact'
    <3>1. CASE r.file \in DOMAIN kept
      <4>1. Claims'
        BY <2>1, <2>3, <2>4, <3>1 DEF Claims, BuildInv
      <4>2. ledger'.total = ledger.total - r.stat
        BY <1>1, <2>1, <2>3, <3>1
      <4>3. LedgerExact'
        BY <1>5, <2>1, <2>2, <2>3, <3>1, <4>2
      <4>. QED BY <4>1, <4>3
    <3>2. CASE r.file \notin DOMAIN kept
      <4>1. Claims' /\ Claimed' = Claimed \cup {m}
        <5>1. CASE r.class = "counted"
          <6>1. r.file \notin DOMAIN ledger.assets
            BY <2>1, <3>2, <5>1 DEF kept
          <6>2. ledger'.assets = With(ledger.assets, r.file, m) /\ ledger'.unmeasured = ledger.unmeasured
            BY <2>1, <2>3, <3>2, <5>1
          <6>5. /\ DOMAIN ledger'.assets = DOMAIN ledger.assets \cup {r.file}
                /\ ledger'.assets[r.file] = m
                /\ \A f \in DOMAIN ledger.assets : ledger'.assets[f] = ledger.assets[f]
            BY <6>1, <6>2 DEF With
          <6>3. Claimed' = Claimed \cup {m}
            BY <6>2, <6>5 DEF Claimed
          <6>4. Claims'
            <7>1. \A f \in DOMAIN ledger.assets : \A n : n = ledger.assets[f] => Claimant(n, "counted")'
              BY <2>4 DEF Claims, BuildInv
            <7>2. \A f \in DOMAIN ledger'.assets : \A n : n = ledger'.assets[f] => Claimant(n, "counted")'
              BY <2>5, <5>1, <6>5, <7>1
            <7>3. \A f \in DOMAIN ledger'.unmeasured : \A n : n = ledger'.unmeasured[f] => Claimant(n, "unmeasured")'
              BY <2>4, <6>2 DEF Claims, BuildInv
            <7>. QED BY <7>2, <7>3 DEF Claims, Claimant
          <6>. QED BY <6>3, <6>4
        <5>2. CASE r.class = "unmeasured"
          <6>1. r.file \notin DOMAIN ledger.unmeasured
            BY <2>1, <3>2, <5>2 DEF kept
          <6>2. ledger'.unmeasured = With(ledger.unmeasured, r.file, m) /\ ledger'.assets = ledger.assets
            BY <2>1, <2>3, <3>2, <5>2
          <6>5. /\ DOMAIN ledger'.unmeasured = DOMAIN ledger.unmeasured \cup {r.file}
                /\ ledger'.unmeasured[r.file] = m
                /\ \A f \in DOMAIN ledger.unmeasured : ledger'.unmeasured[f] = ledger.unmeasured[f]
            BY <6>1, <6>2 DEF With
          <6>3. Claimed' = Claimed \cup {m}
            BY <6>2, <6>5 DEF Claimed
          <6>4. Claims'
            <7>1. \A f \in DOMAIN ledger.unmeasured : \A n : n = ledger.unmeasured[f] => Claimant(n, "unmeasured")'
              BY <2>4 DEF Claims, BuildInv
            <7>2. \A f \in DOMAIN ledger'.unmeasured : \A n : n = ledger'.unmeasured[f] => Claimant(n, "unmeasured")'
              BY <2>5, <5>2, <6>5, <7>1
            <7>3. \A f \in DOMAIN ledger'.assets : \A n : n = ledger'.assets[f] => Claimant(n, "counted")'
              BY <2>4, <6>2 DEF Claims, BuildInv
            <7>. QED BY <7>2, <7>3 DEF Claims, Claimant
          <6>. QED BY <6>3, <6>4
        <5>. QED BY <1>1, <5>1, <5>2
      <4>2. Reserved' = Reserved \ {m} /\ Parsed' = Parsed
        BY <1>1, <2>2, SetsAfter DEF TaskStates
      <4>3. SumOver(Actuals(graph), (Claimed \cup Parsed) \cup {m})
              = r.actual + SumOver(Actuals(graph), Claimed \cup Parsed)
        <5>1. m \notin Claimed \cup Parsed
          BY <1>1, CountedSets
        <5>2. Claimed \cup Parsed \in SUBSET DOMAIN graph /\ IsGraph(graph)
          BY CountedSets DEF BuildInv, BuildTypes
        <5>. QED BY <5>1, <5>2, GraphSums
      <4>4. Claimed' \cup Parsed' = (Claimed \cup Parsed) \cup {m}
        BY <4>1, <4>2
      <4>5. ledger'.total = (ledger.total - r.stat) + r.actual
        BY <2>1, <2>3, <3>2
      <4>6. ledger'.total <= MaxGraphBytes
        BY <1>1, <1>9, <4>5 DEF reconcile_source_bytes, try_reserve_source_bytes
      <4>7. ledger'.total = SumOver(Stats(graph), Reserved \ {m})
                              + SumOver(Actuals(graph), (Claimed \cup Parsed) \cup {m})
        BY <1>1, <1>3, <1>4, <4>3, <4>5
      <4>. QED BY <2>2, <4>1, <4>2, <4>4, <4>6, <4>7 DEF LedgerExact
    <3>. QED BY <3>1, <3>2
  <2>7. ~Unread(m)'
    BY <1>1, <2>2 DEF Unread, TaskStates
  <2>8. ledger'.total \in Int /\ \A f : Known(ledger, f) => Known(ledger', f)
    BY <1>1, <2>1, <2>3 DEF Known
  <2>. QED BY <1>1, <1>9, <2>1, <2>3, <2>6, <2>7, <2>8, TaskGoesKeeps
<1>. QED BY <1>7, <1>8, <1>9 DEF LoadAsset, released

\* load of a JavaScript module.
LEMMA LoadSourceKeeps ==
    ASSUME BuildInv, NEW m \in DOMAIN graph, LoadSource(m)
    PROVE  BuildInv'
<1> DEFINE r == graph[m]
<1>1. /\ st[m] = "reserved" /\ ~IsAsset(m) /\ r.class = "js"
      /\ DOMAIN ledger = LedgerFields /\ ledger.total \in Int
      /\ st \in [DOMAIN graph -> TaskStates] /\ r.io \notin {"absent", "unreadable"}
  BY DEF LoadSource, IsAsset, BuildInv, BuildTypes, IsGraph
<1>2. ASSUME NEW kind \in {"unloadable", "parse", "unresolved"}, TaskFails(m, ledger, kind),
             kind = "unloadable" \/ r.io # "lost"
      PROVE  BuildInv'
  <2>1. TaskEnds(m, ledger, kind, "failed") /\ kind \in Kinds
    BY <1>2 DEF TaskFails, Kinds
  <2>2. ledger' = ledger /\ graph' = graph /\ st' = [st EXCEPT ![m] = "failed"]
    BY <2>1 DEF TaskEnds, Task
  <2>3. LedgerExact'
    BY <1>1, <2>2, SameBytesExact DEF TaskStates
  <2>4. ~Unread(m)' /\ (LostModule(m)' => kind = "unloadable")
    BY <1>1, <1>2, <2>2 DEF Unread, LostModule, Unreadable
  <2>. QED BY <1>1, <2>1, <2>3, <2>4, TaskEndsKeeps
<1>3. CASE /\ ledger' = [ledger EXCEPT !.externals = @ \/ r.fault = "boundary"]
           /\ Task(m, "read")
           /\ UNCHANGED <<graph, opts, diags, built>>
  <2>1. /\ DOMAIN ledger' = LedgerFields /\ ledger'.total = ledger.total
        /\ ledger'.breach = ledger.breach /\ ledger'.failed = ledger.failed
        /\ ledger'.assets = ledger.assets /\ ledger'.unmeasured = ledger.unmeasured
    BY <1>1, <1>3 DEF LedgerFields
  <2>2. graph' = graph /\ st' = [st EXCEPT ![m] = "read"]
    BY <1>3 DEF Task
  <2>3. Claims'
    <3>1. \A n, class : Claimant(n, class) => Claimant(n, class)'
      BY <1>1, <2>2 DEF Claimant
    <3>. QED BY <2>1, <3>1 DEF BuildInv, Claims
  <2>4. LedgerExact'
    BY <1>1, <2>1, <2>2, SameBytesExact DEF TaskStates
  <2>5. ~Unread(m)' /\ \A f : Known(ledger, f) => Known(ledger', f)
    BY <1>1, <2>1, <2>2 DEF Unread, Known
  <2>. QED BY <1>1, <1>3, <2>1, <2>3, <2>4, <2>5, TaskGoesKeeps
<1>. QED BY <1>2, <1>3 DEF LoadSource

\* resolve_id of an asset the resolver cannot find.
LEMMA ResolveProbeKeeps ==
    ASSUME BuildInv, NEW m \in DOMAIN graph, ResolveProbe(m)
    PROVE  BuildInv'
<1> DEFINE r == graph[m]
<1>1. /\ st[m] = "idle" /\ built = Building /\ r.class = "probe" /\ ~IsAsset(m)
      /\ DOMAIN ledger = LedgerFields /\ ledger.total \in Int
      /\ st \in [DOMAIN graph -> TaskStates]
  BY DEF ResolveProbe, Loadable, IsAsset, BuildInv, BuildTypes, IsGraph
<1>2. graph' = graph /\ st' = [st EXCEPT ![m] = "done"]
      /\ Task(m, "done") /\ UNCHANGED <<graph, opts, diags, built>>
  BY DEF ResolveProbe, Task
<1>3. /\ DOMAIN ledger' = LedgerFields
      /\ ledger'.total = ledger.total /\ ledger'.breach = ledger.breach
      /\ ledger'.assets = ledger.assets /\ ledger'.unmeasured = ledger.unmeasured
      /\ \A f : Known(ledger, f) => Known(ledger', f)
      /\ r.io # "absent" => Known(ledger', r.file)
  BY <1>1, FailedGrows DEF ResolveProbe
<1>4. Claims'
  <2>1. \A n, class : Claimant(n, class) => Claimant(n, class)'
    BY <1>1, <1>2 DEF Claimant
  <2>. QED BY <1>3, <2>1 DEF BuildInv, Claims
<1>5. LedgerExact'
  BY <1>1, <1>2, <1>3, SameBytesExact DEF TaskStates
<1>6. Unread(m)' => Known(ledger', graph[m].file)
  BY <1>2, <1>3 DEF Unread
<1>. QED BY <1>1, <1>2, <1>3, <1>4, <1>5, <1>6, TaskGoesKeeps

\* module_parsed.
LEMMA ModuleParsedKeeps ==
    ASSUME BuildInv, NEW m \in DOMAIN graph, ModuleParsed(m)
    PROVE  BuildInv'
<1> DEFINE r == graph[m]
           source == IF IsAsset(m) THEN 0 ELSE r.actual
           charged == [ledger EXCEPT !.total = @ + source, !.loaded = @ \cup {r.file}]
<1>1. /\ st[m] = "read" /\ r.class \in {"js", "counted", "unmeasured"}
      /\ (IsAsset(m) <=> r.class # "js")
      /\ DOMAIN ledger = LedgerFields /\ ledger.total \in Int /\ r.actual \in Nat
      /\ st \in [DOMAIN graph -> TaskStates]
  BY DEF ModuleParsed, IsAsset, BuildInv, BuildTypes, IsGraph
<1>2. source \in Nat
  BY <1>1
<1>3. /\ DOMAIN charged = LedgerFields /\ charged.total = ledger.total + source
      /\ charged.breach = ledger.breach /\ charged.failed = ledger.failed
      /\ charged.assets = ledger.assets /\ charged.unmeasured = ledger.unmeasured
  BY <1>1 DEF LedgerFields
<1>4. ASSUME NEW message \in {FileBreach, TotalBreach},
             TaskFails(m, record_breach(ledger, message), "plugin")
      PROVE  BuildInv'
  <2> DEFINE l == record_breach(ledger, message)
  <2>1. /\ DOMAIN l = LedgerFields
        /\ l.total = ledger.total /\ l.breach # 0
        /\ l.assets = ledger.assets /\ l.unmeasured = ledger.unmeasured
        /\ l.failed = ledger.failed
    BY <1>1, BreachRecorded
  <2>2. TaskEnds(m, l, "plugin", "failed") /\ "plugin" \in Kinds
    BY <1>4 DEF TaskFails, Kinds
  <2> HIDE DEF l
  <2>3. /\ ledger' = l /\ graph' = graph /\ st' = [st EXCEPT ![m] = "failed"]
    BY <2>2 DEF TaskEnds, Task
  <2>4. LedgerExact'
    BY <1>1, <2>1, <2>3, SameBytesExact DEF TaskStates
  <2>5. \A f : Known(ledger, f) => Known(l, f)
    BY <2>1 DEF Known
  <2>. QED BY <1>1, <2>1, <2>2, <2>4, <2>5, TaskEndsKeeps
<1> HIDE DEF charged
<1>5. ASSUME NEW next \in {"done", "outnumbered"}, graph' = graph, st' = [st EXCEPT ![m] = next],
             try_reserve_source_bytes(ledger.total, source),
             ledger'.total = ledger.total + source,
             ledger'.assets = ledger.assets, ledger'.unmeasured = ledger.unmeasured
      PROVE  LedgerExact'
  <2>1. Claimed' = Claimed
    BY <1>5 DEF Claimed
  <2>2. CASE IsAsset(m)
    <3>1. ledger'.total = ledger.total
      BY <1>1, <1>5, <2>2
    <3>. QED BY <1>1, <1>5, <2>2, <3>1, SameBytesExact DEF TaskStates
  <2>3. CASE ~IsAsset(m)
    <3>1. Parsed' = Parsed \cup {m} /\ Reserved' = Reserved \ {m} /\ m \notin Reserved
      BY <1>1, <1>5, <2>3, SetsAfter DEF TaskStates, Reserved
    <3>2. Reserved' = Reserved /\ Claimed' \cup Parsed' = (Claimed \cup Parsed) \cup {m}
      BY <2>1, <3>1
    <3>3. m \notin Claimed \cup Parsed
      BY <1>1, <2>3, CountedSets
    <3>4. /\ Claimed \cup Parsed \in SUBSET DOMAIN graph /\ IsGraph(graph)
          /\ Reserved \in SUBSET DOMAIN graph
      BY CountedSets DEF BuildInv, BuildTypes
    <3>5. /\ SumOver(Actuals(graph), (Claimed \cup Parsed) \cup {m})
                = r.actual + SumOver(Actuals(graph), Claimed \cup Parsed)
          /\ SumOver(Actuals(graph), Claimed \cup Parsed) \in Int
          /\ SumOver(Stats(graph), Reserved) \in Int
      BY <3>3, <3>4, GraphSums
    <3>6. ledger'.total <= MaxGraphBytes
      BY <1>5 DEF try_reserve_source_bytes
    <3>7. ledger'.total = SumOver(Stats(graph), Reserved)
                            + SumOver(Actuals(graph), (Claimed \cup Parsed) \cup {m})
      BY <1>1, <1>5, <2>3, <3>5 DEF BuildInv, LedgerExact
    <3>. QED BY <1>5, <3>2, <3>6, <3>7 DEF LedgerExact
  <2>. QED BY <2>2, <2>3
<1>6. CASE /\ try_reserve_source_bytes(ledger.total, source)
           /\ TaskEnds(m, record_breach(charged, CountBreach), "plugin", "outnumbered")
  <2> DEFINE l == record_breach(charged, CountBreach)
  <2>1. /\ DOMAIN l = LedgerFields
        /\ l.total = charged.total /\ l.breach # 0
        /\ l.assets = charged.assets /\ l.unmeasured = charged.unmeasured
        /\ l.failed = charged.failed
    BY <1>3, BreachRecorded
  <2>2. TaskEnds(m, l, "plugin", "outnumbered") /\ "plugin" \in Kinds
    BY <1>6 DEF Kinds
  <2> HIDE DEF l
  <2>3. /\ ledger' = l /\ graph' = graph /\ st' = [st EXCEPT ![m] = "outnumbered"]
    BY <2>2 DEF TaskEnds, Task
  <2>4. LedgerExact'
    BY <1>3, <1>5, <1>6, <2>1, <2>3
  <2>5. \A f : Known(ledger, f) => Known(l, f)
    BY <1>3, <2>1 DEF Known
  <2>6. l.total \in Int
    BY <1>1, <1>2, <1>3, <2>1
  <2>. QED BY <1>1, <1>3, <2>1, <2>2, <2>4, <2>5, <2>6, TaskEndsKeeps
<1>7. CASE /\ try_reserve_source_bytes(ledger.total, source)
           /\ ledger' = charged
           /\ Task(m, "done")
           /\ UNCHANGED <<graph, opts, diags, built>>
  <2>1. graph' = graph /\ st' = [st EXCEPT ![m] = "done"]
    BY <1>7 DEF Task
  <2>2. LedgerExact'
    BY <1>3, <1>5, <1>7, <2>1
  <2>3. Claims'
    <3>1. \A n, class : Claimant(n, class) => Claimant(n, class)'
      BY <1>1, <2>1 DEF Claimant
    <3>. QED BY <1>3, <1>7, <3>1 DEF BuildInv, Claims
  <2>4. ~Unread(m)' /\ \A f : Known(ledger, f) => Known(ledger', f)
    BY <1>1, <1>3, <1>7, <2>1 DEF Unread, Known, TaskStates
  <2>5. ledger'.total \in Int
    BY <1>1, <1>2, <1>3, <1>7
  <2>. QED BY <1>1, <1>3, <1>7, <2>2, <2>3, <2>4, <2>5, TaskGoesKeeps
<1>. QED BY <1>4, <1>6, <1>7 DEF ModuleParsed, charged

\* Every attempt gets a fresh state.
LEMMA AttemptKeeps ==
    ASSUME BuildInv, built = Building, NEW o, Attempt(o)
    PROVE  BuildInv'
<1>1. /\ graph' = graph /\ built' = Building /\ diags' = << >> /\ ledger' = FreshState
      /\ st' = [m \in DOMAIN graph |-> "idle"]
  BY DEF Attempt
<1>2. /\ DOMAIN ledger' = LedgerFields /\ ledger'.total = 0 /\ ledger'.breach = 0
      /\ DOMAIN ledger'.assets = {} /\ DOMAIN ledger'.unmeasured = {}
  BY <1>1 DEF FreshState, LedgerFields
<1>3. BuildTypes'
  BY <1>1, <1>2 DEF BuildTypes, BuildInv, TaskStates
<1>4. Claims' /\ Told' /\ Outcome'
  BY <1>1, <1>2 DEF Claims, Told, Unread, LostModule, Outcome
<1>5. Reserved' = {} /\ Claimed' = {} /\ Parsed' = {}
  BY <1>1, <1>2 DEF Reserved, Claimed, Parsed
<1>6. LedgerExact'
  BY <1>2, <1>5, SumEmpty, GraphLimits DEF LedgerExact
<1>. QED BY <1>3, <1>4, <1>6 DEF BuildInv

\* A build that has not begun owes nothing.
LEMMA BuildStarts ==
    ASSUME NEW g, IsGraph(g), BuildInit(g)
    PROVE  BuildInv
<1>1. /\ graph = g /\ built = Building /\ diags = << >> /\ ledger = FreshState
      /\ st = [m \in DOMAIN graph |-> "idle"]
  BY DEF BuildInit
<1>2. /\ DOMAIN ledger = LedgerFields /\ ledger.total = 0 /\ ledger.breach = 0
      /\ DOMAIN ledger.assets = {} /\ DOMAIN ledger.unmeasured = {}
  BY <1>1 DEF FreshState, LedgerFields
<1>3. BuildTypes
  BY <1>1, <1>2 DEF BuildTypes, TaskStates
<1>4. Claims /\ Told /\ Outcome
  BY <1>1, <1>2 DEF Claims, Told, Unread, LostModule, Outcome
<1>5. Reserved = {} /\ Claimed = {} /\ Parsed = {}
  BY <1>1, <1>2 DEF Reserved, Claimed, Parsed
<1>6. LedgerExact
  BY <1>2, <1>5, SumEmpty, GraphLimits DEF LedgerExact
<1>. QED BY <1>3, <1>4, <1>6 DEF BuildInv

\* An unreadable input is in the ledger, unless the graph is over a limit.
LEMMA UnreadableIsKnown ==
    ASSUME BuildInv, UnreadableAsset, ledger.breach = 0
    PROVE  unreadable_asset_paths(ledger) # {}
<1>1. PICK m \in DOMAIN graph : Unread(m)
  BY DEF UnreadableAsset, Unread, Unreadable
<1>2. Known(ledger, graph[m].file)
  BY <1>1 DEF BuildInv, Told
<1>. QED BY <1>2 DEF Known, unreadable_asset_paths

\* A stage's place in the declaration order.
LEMMA Ranks == rank("resolve") = 6 /\ rank("parse") = 7 /\ rank("link") = 10
<1>1. DOMAIN StageOrder = 1 .. 12
  BY DEF StageOrder
<1>2. ASSUME NEW n \in 1 .. 12, NEW stage, StageOrder[n] = stage,
             \A i \in 1 .. 12 : StageOrder[i] = stage => i = n
      PROVE  rank(stage) = n
  BY <1>1, <1>2 DEF rank
<1>3. \A i \in 1 .. 12 : /\ (StageOrder[i] = "resolve" <=> i = 6)
                         /\ (StageOrder[i] = "parse" <=> i = 7)
                         /\ (StageOrder[i] = "link" <=> i = 10)
  BY DEF StageOrder
<1>. QED BY <1>2, <1>3

\* A module that could not be loaded comes before every other diagnostic of the scan.
LEMMA UnloadableIsEarliest ==
    ASSUME NEW ds \in Seq(Kinds), Unloadable(ds)
    PROVE  EarliestStage(ds) = "resolve"
<1> DEFINE stages == {stage_for(ds[i]) : i \in DOMAIN ds}
<1>1. \A kind \in Kinds : stage_for(kind) \in {"resolve", "parse", "link"}
  BY DEF Kinds, stage_for
<1>2. \A i \in DOMAIN ds : ds[i] \in Kinds
  OBVIOUS
<1>3. stages \subseteq {"resolve", "parse", "link"}
  BY <1>1, <1>2
<1>4. "resolve" \in stages
  BY DEF Unloadable, stage_for
<1> HIDE DEF stages
<1>5. \A s \in stages : (\A t \in stages : rank(s) <= rank(t)) <=> s = "resolve"
  BY <1>3, <1>4, Ranks
<1>6. (CHOOSE s \in stages : \A t \in stages : rank(s) <= rank(t)) = "resolve"
  BY <1>4, <1>5
<1>. QED BY <1>4, <1>6 DEF EarliestStage, stages

\* A module that could not be read is named by the failure.
LEMMA LostIsResolve ==
    ASSUME BuildInv, UnreadableModule
    PROVE  /\ diags # << >>
           /\ classify_failure(ledger, FinalDiags) \in {"module_graph_limit", "asset_io", "resolve"}
<1>1. PICK m \in DOMAIN graph : LostModule(m)
  BY DEF UnreadableModule, LostModule
<1>2. ledger.breach # 0 \/ Unloadable(diags)
  BY <1>1 DEF BuildInv, Told
<1>3. diags \in Seq(Kinds)
  BY DEF BuildInv, BuildTypes
<1>4. diags # << >>
  BY <1>2 DEF BuildInv, Told, Unloadable
<1>5. Unloadable(diags) => EarliestStage(FinalDiags) = "resolve"
  BY <1>3, <1>4, UnloadableIsEarliest DEF FinalDiags
<1>. QED BY <1>2, <1>4, <1>5 DEF classify_failure

\* The build answers.
LEMMA AnswerKeeps ==
    ASSUME BuildInv, BuildFails \/ SingleChunkFails \/ Translate
    PROVE  BuildInv'
<1>1. UNCHANGED <<graph, opts, st, ledger, diags>> /\ ScanEnded
  BY DEF BuildFails, SingleChunkFails, Translate
<1>2. BuildTypes' /\ Claims' /\ LedgerExact' /\ Told' /\ (UnreadableAsset' <=> UnreadableAsset)
      /\ (UnreadableModule' <=> UnreadableModule)
  BY <1>1 DEF BuildInv, BuildTypes, Claims, Claimant, LedgerExact, Reserved, Claimed, Parsed, IsAsset,
              Told, Unread, UnreadableAsset, UnreadableModule, LostModule, Unreadable
<1>3. \A m \in DOMAIN graph' : st'[m] \notin {"reserved", "read"}
  BY <1>1 DEF ScanEnded
<1>4. CASE BuildFails
  <2>1. built' = [state |-> "failed", stage |-> classify_failure(ledger, FinalDiags)]
    BY <1>4 DEF BuildFails
  <2>2. UnreadableAsset => classify_failure(ledger, FinalDiags) \in {"module_graph_limit", "asset_io"}
    BY UnreadableIsKnown DEF classify_failure
  <2>3. UnreadableModule =>
          classify_failure(ledger, FinalDiags) \in {"module_graph_limit", "asset_io", "resolve"}
    BY LostIsResolve
  <2>. QED BY <1>2, <1>3, <2>1, <2>2, <2>3 DEF BuildInv, Outcome
<1>6. CASE SingleChunkFails
  <2>1. built'.state = "failed" /\ (unreadable_asset_paths(ledger) # {} => built'.stage = "asset_io")
    BY <1>6 DEF SingleChunkFails
  <2>2. diags = << >>
    BY <1>6 DEF SingleChunkFails, FinalDiags
  <2>3. ledger.breach = 0 /\ ~UnreadableModule
    BY <2>2, LostIsResolve DEF BuildInv, Told
  <2>4. UnreadableAsset => built'.stage = "asset_io"
    BY <2>1, <2>3, UnreadableIsKnown
  <2>. QED BY <1>2, <1>3, <2>1, <2>3, <2>4 DEF BuildInv, Outcome
<1>5. CASE Translate
  <2>1. built'.state = "ok" /\ built'.stages = TranslatedStages(ledger)
        /\ built'.graph_source_bytes = ledger.total
    BY <1>5 DEF Translate
  <2>2. diags = << >>
    BY <1>5 DEF Translate, FinalDiags
  <2>3. ledger.breach = 0 /\ ~UnreadableModule
    BY <2>2, LostIsResolve DEF BuildInv, Told
  <2>4. UnreadableAsset => "asset_io" \in built'.stages
    BY <2>1, <2>3, UnreadableIsKnown DEF TranslatedStages
  <2>5. built'.stages \cap {"types_only", "native_binary_only"} = {}
    BY <2>1 DEF TranslatedStages
  <2>6. built'.graph_source_bytes \in Int
    BY <2>1 DEF BuildInv, BuildTypes
  <2>. QED BY <1>2, <1>3, <2>1, <2>3, <2>4, <2>5, <2>6 DEF BuildInv, Outcome
<1>. QED BY <1>4, <1>5, <1>6

\* Every step of the build keeps its invariant.
LEMMA BuildStepKeeps ==
    ASSUME BuildInv, BuildStep
    PROVE  BuildInv'
<1>1. RetryLazyBarrel \/ RetryUnbound => BuildInv'
  BY AttemptKeeps DEF RetryLazyBarrel, RetryUnbound, ScanEnded
<1>. QED BY <1>1, LoadStatKeeps, LoadAssetKeeps, LoadSourceKeeps, ResolveProbeKeeps, ModuleParsedKeeps,
            AnswerKeeps DEF BuildStep

(***************************************************************************)
(* AssetStage: the read ledger.                                            *)
(***************************************************************************)

BudgetFields ==
    {"unique", "graph", "input", "reads", "work", "snapshots", "obs", "limit", "timedOut"}

\* The ledger of reads: each file of its own is charged what it is seen to
\* weigh, and the accounts are within their limits until a breach.
BudgetOK(b) ==
    /\ DOMAIN b = BudgetFields
    /\ b.graph \subseteq DOMAIN b.unique /\ b.snapshots \subseteq DOMAIN b.unique
    /\ Own(b) \subseteq DOMAIN disk
    /\ \A f \in Own(b) : b.unique[f] = Largest(b)[f]
    /\ b.input = built.graph_source_bytes + SumOver(Largest(b), Own(b))
    /\ b.reads \in Int /\ b.work \in Int /\ b.limit \in BOOLEAN
    /\ ~b.limit => b.input <= MaxGraphBytes /\ b.work <= MaxCssBytes /\ b.reads <= MaxCssReads

\* What is recorded stays recorded.
Grows(b, c) ==
    /\ DOMAIN b.unique \subseteq DOMAIN c.unique
    /\ b.obs \subseteq c.obs
    /\ b.limit => c.limit
    /\ b.timedOut => c.timedOut

\* The facts every lemma on the ledger starts from.
LedgerWorld == IsDisk(disk) /\ built.graph_source_bytes \in Int

\* What a file is charged: its stat, or its snapshot when that is larger.
LEMMA LargestInt ==
    ASSUME LedgerWorld, NEW b
    PROVE  /\ DOMAIN Largest(b) = DOMAIN disk
           /\ \A f \in DOMAIN disk :
                /\ Largest(b)[f] \in Nat /\ disk[f].stat \in Nat /\ disk[f].actual \in Nat
                /\ (f \notin b.snapshots => Largest(b)[f] = disk[f].stat)
                /\ (f \in b.snapshots /\ disk[f].actual > disk[f].stat => Largest(b)[f] = disk[f].actual)
                /\ (f \in b.snapshots /\ disk[f].actual <= disk[f].stat => Largest(b)[f] = disk[f].stat)
BY DEF LedgerWorld, IsDisk, Largest

\* A ledger whose files are untouched.
LEMMA SameFiles ==
    ASSUME NEW b, BudgetOK(b), NEW c, DOMAIN c = BudgetFields,
           c.unique = b.unique, c.graph = b.graph, c.input = b.input, c.snapshots = b.snapshots,
           c.reads \in Int, c.work \in Int, c.limit \in BOOLEAN,
           ~c.limit => ~b.limit /\ c.work <= MaxCssBytes /\ c.reads <= MaxCssReads
    PROVE  BudgetOK(c)
<1>1. Own(c) = Own(b) /\ Largest(c) = Largest(b)
  BY DEF Own, Largest
<1>. QED BY <1>1 DEF BudgetOK

\* A breach is recorded and the ledger stays as it is.
LEMMA LimitKeeps ==
    ASSUME NEW b, BudgetOK(b)
    PROVE  BudgetOK(Limit(b)) /\ Grows(b, Limit(b)) /\ Limit(b).limit
<1>1. /\ DOMAIN Limit(b) = BudgetFields /\ Limit(b).limit = TRUE
      /\ Limit(b).unique = b.unique /\ Limit(b).graph = b.graph /\ Limit(b).input = b.input
      /\ Limit(b).snapshots = b.snapshots /\ Limit(b).reads = b.reads /\ Limit(b).work = b.work
      /\ Limit(b).obs = b.obs /\ Limit(b).timedOut = b.timedOut
  BY DEF BudgetOK, BudgetFields, Limit
<1>2. b.reads \in Int /\ b.work \in Int
  BY DEF BudgetOK
<1>3. BudgetOK(Limit(b))
  BY <1>1, <1>2, SameFiles
<1>. QED BY <1>1, <1>3 DEF Grows

\* So with a deadline that has passed.
LEMMA CheckedKeeps ==
    ASSUME NEW b, BudgetOK(b), NEW late
    PROVE  BudgetOK(Checked(b, late)) /\ Grows(b, Checked(b, late))
<1> DEFINE c == Checked(b, late)
<1>1. /\ DOMAIN c = BudgetFields /\ c.limit = b.limit
      /\ c.unique = b.unique /\ c.graph = b.graph /\ c.input = b.input
      /\ c.snapshots = b.snapshots /\ c.reads = b.reads /\ c.work = b.work
      /\ c.obs = b.obs /\ (b.timedOut => c.timedOut)
  BY DEF BudgetOK, BudgetFields, Checked
<1>2. b.reads \in Int /\ b.work \in Int /\ b.limit \in BOOLEAN
      /\ (~b.limit => b.work <= MaxCssBytes /\ b.reads <= MaxCssReads)
  BY DEF BudgetOK
<1> HIDE DEF c
<1>3. BudgetOK(c)
  BY <1>1, <1>2, SameFiles
<1>. QED BY <1>1, <1>3 DEF Grows, c

\* record_failed_path only adds an observation.
LEMMA FailedPathKeeps ==
    ASSUME NEW b, BudgetOK(b), NEW f, NEW io
    PROVE  LET c == record_failed_path(b, f, io)
           IN  BudgetOK(c) /\ Grows(b, c) /\ (\E x \in c.obs : x[2] = io)
<1> DEFINE c == record_failed_path(b, f, io)
<1>1. /\ DOMAIN c = BudgetFields /\ c.limit = b.limit
      /\ c.unique = b.unique /\ c.graph = b.graph /\ c.input = b.input
      /\ c.snapshots = b.snapshots /\ c.reads = b.reads /\ c.work = b.work
      /\ c.obs = b.obs \cup {<<f, io>>} /\ c.timedOut = b.timedOut
  BY DEF BudgetOK, BudgetFields, record_failed_path
<1>2. b.reads \in Int /\ b.work \in Int /\ b.limit \in BOOLEAN
      /\ (~b.limit => b.work <= MaxCssBytes /\ b.reads <= MaxCssReads)
  BY DEF BudgetOK
<1> HIDE DEF c
<1>3. BudgetOK(c)
  BY <1>1, <1>2, SameFiles
<1>4. \E x \in c.obs : x[2] = io
  <2>1. <<f, io>> \in c.obs /\ <<f, io>>[2] = io
    BY <1>1
  <2>. QED BY <2>1
<1>. QED BY <1>1, <1>3, <1>4 DEF Grows, c

\* charge_css_work stays within its two limits or records a breach.
LEMMA CssWorkKeeps ==
    ASSUME NEW b, BudgetOK(b), NEW bytes \in Int
    PROVE  LET c == charge_css_work(b, bytes) IN BudgetOK(c) /\ Grows(b, c)
<1>1. CASE b.reads + 1 > MaxCssReads \/ b.work + bytes > MaxCssBytes
  BY <1>1, LimitKeeps DEF charge_css_work
<1>2. CASE ~(b.reads + 1 > MaxCssReads \/ b.work + bytes > MaxCssBytes)
  <2> DEFINE c == [b EXCEPT !.reads = @ + 1, !.work = @ + bytes]
  <2>1. b.reads \in Int /\ b.work \in Int /\ b.limit \in BOOLEAN
    BY DEF BudgetOK
  <2>2. /\ DOMAIN c = BudgetFields /\ c.limit = b.limit
        /\ c.unique = b.unique /\ c.graph = b.graph /\ c.input = b.input
        /\ c.snapshots = b.snapshots /\ c.reads = b.reads + 1 /\ c.work = b.work + bytes
        /\ c.obs = b.obs /\ c.timedOut = b.timedOut
    BY DEF BudgetOK, BudgetFields
  <2> HIDE DEF c
  <2>3. c.reads \in Int /\ c.work \in Int /\ c.work <= MaxCssBytes /\ c.reads <= MaxCssReads
    BY <1>2, <2>1, <2>2, StageLimits
  <2>4. BudgetOK(c)
    BY <2>1, <2>2, <2>3, SameFiles
  <2>5. charge_css_work(b, bytes) = c
    BY <1>2 DEF charge_css_work, c
  <2>. QED BY <2>2, <2>4, <2>5 DEF Grows
<1>. QED BY <1>1, <1>2

\* reserve_unique charges a file of its own once.
LEMMA ReserveKeeps ==
    ASSUME LedgerWorld, NEW b, BudgetOK(b), NEW f \in DOMAIN disk
    PROVE  LET c == reserve_unique(b, f, disk[f].stat)
           IN  /\ BudgetOK(c) /\ Grows(b, c)
               /\ ~c.limit => f \in DOMAIN c.unique
               /\ c.snapshots = b.snapshots
<1> DEFINE bytes == disk[f].stat
<1>1. CASE bytes > MaxModuleBytes
  <2>1. reserve_unique(b, f, disk[f].stat) = Limit(b) /\ Limit(b).snapshots = b.snapshots
    BY <1>1 DEF reserve_unique, Limit, BudgetOK, BudgetFields
  <2>. QED BY <2>1, LimitKeeps
<1>2. CASE ~(bytes > MaxModuleBytes) /\ f \in DOMAIN b.unique
  <2>1. reserve_unique(b, f, disk[f].stat) = b
    BY <1>2 DEF reserve_unique, Has
  <2>. QED BY <1>2, <2>1 DEF Grows
<1>3. CASE /\ ~(bytes > MaxModuleBytes) /\ f \notin DOMAIN b.unique
           /\ (Cardinality(DOMAIN b.unique) + 1 > MaxModules \/ b.input + bytes > MaxGraphBytes)
  <2>1. reserve_unique(b, f, disk[f].stat) = Limit(b) /\ Limit(b).snapshots = b.snapshots
    BY <1>3 DEF reserve_unique, Has, Limit, BudgetOK, BudgetFields
  <2>. QED BY <2>1, LimitKeeps
<1>4. CASE /\ ~(bytes > MaxModuleBytes) /\ f \notin DOMAIN b.unique
           /\ ~(Cardinality(DOMAIN b.unique) + 1 > MaxModules \/ b.input + bytes > MaxGraphBytes)
  <2> DEFINE c == [b EXCEPT !.unique = With(@, f, bytes), !.input = @ + bytes]
  <2>1. reserve_unique(b, f, disk[f].stat) = c
    BY <1>4 DEF reserve_unique, Has
  <2>2. /\ DOMAIN c = BudgetFields /\ c.limit = b.limit
        /\ c.unique = With(b.unique, f, bytes) /\ c.graph = b.graph /\ c.input = b.input + bytes
        /\ c.snapshots = b.snapshots /\ c.reads = b.reads /\ c.work = b.work
        /\ c.obs = b.obs /\ c.timedOut = b.timedOut
    BY DEF BudgetOK, BudgetFields
  <2>3. /\ DOMAIN c.unique = DOMAIN b.unique \cup {f} /\ c.unique[f] = bytes
        /\ \A g \in DOMAIN b.unique : c.unique[g] = b.unique[g]
    BY <1>4, <2>2 DEF With
  <2> HIDE DEF c
  <2>4. Own(c) = Own(b) \cup {f} /\ f \notin Own(b) /\ Largest(c) = Largest(b)
    BY <1>4, <2>2, <2>3 DEF Own, Largest, BudgetOK
  <2>5. IsFiniteSet(Own(b)) /\ \A g \in Own(b) \cup {f} : Largest(b)[g] \in Int
    <3>1. Own(b) \subseteq DOMAIN disk /\ IsFiniteSet(DOMAIN disk)
      BY DEF BudgetOK, LedgerWorld, IsDisk
    <3>2. IsFiniteSet(Own(b))
      BY <3>1, FS_Subset
    <3>. QED BY <3>1, <3>2, LargestInt
  <2>6. /\ SumOver(Largest(b), Own(b) \cup {f}) = Largest(b)[f] + SumOver(Largest(b), Own(b))
        /\ SumOver(Largest(b), Own(b)) \in Int
    BY <2>4, <2>5, SumAdd, SumInt
  <2>7. Largest(b)[f] = bytes
    <3>1. f \notin b.snapshots
      BY <1>4 DEF BudgetOK
    <3>. QED BY <3>1, LargestInt
  <2>8. bytes \in Int /\ b.input \in Int
    BY <2>6, LargestInt DEF BudgetOK, LedgerWorld
  <2>9. c.input = built.graph_source_bytes + SumOver(Largest(c), Own(c))
    BY <2>2, <2>4, <2>6, <2>7, <2>8 DEF BudgetOK, LedgerWorld
  <2>10. \A g \in Own(c) : c.unique[g] = Largest(c)[g]
    BY <2>3, <2>4, <2>7 DEF BudgetOK, Own
  <2>11. ~c.limit => c.input <= MaxGraphBytes /\ c.work <= MaxCssBytes /\ c.reads <= MaxCssReads
    BY <1>4, <2>2, <2>8, GraphLimits DEF BudgetOK
  <2>12. BudgetOK(c)
    BY <2>2, <2>3, <2>4, <2>9, <2>10, <2>11 DEF BudgetOK
  <2>. QED BY <2>1, <2>2, <2>3, <2>12 DEF Grows
<1>. QED BY <1>1, <1>2, <1>3, <1>4

\* begin_css_read charges the work, then the file.
LEMMA BeginCssKeeps ==
    ASSUME LedgerWorld, NEW b, BudgetOK(b), NEW f \in DOMAIN disk
    PROVE  LET c == begin_css_read(b, f)
           IN  BudgetOK(c) /\ Grows(b, c) /\ (~c.limit => f \in DOMAIN c.unique)
<1> DEFINE a == charge_css_work(b, disk[f].stat)
<1>1. BudgetOK(a) /\ Grows(b, a)
  BY LargestInt, CssWorkKeeps
<1>2. begin_css_read(b, f) = IF a.limit THEN a ELSE reserve_unique(a, f, disk[f].stat)
  BY DEF begin_css_read
<1> HIDE DEF a
<1>3. CASE a.limit
  BY <1>1, <1>2, <1>3
<1>4. CASE ~a.limit
  <2> DEFINE c == reserve_unique(a, f, disk[f].stat)
  <2>1. BudgetOK(c) /\ Grows(a, c) /\ (~c.limit => f \in DOMAIN c.unique)
    BY <1>1, ReserveKeeps
  <2>2. begin_css_read(b, f) = c
    BY <1>2, <1>4
  <2> HIDE DEF c
  <2>3. Grows(b, c)
    BY <1>1, <2>1 DEF Grows
  <2>. QED BY <2>1, <2>2, <2>3
<1>. QED BY <1>3, <1>4

\* finish_read corrects the charge to what was read, and never charges twice.
LEMMA FinishKeeps ==
    ASSUME LedgerWorld, NEW b, BudgetOK(b), NEW f \in DOMAIN disk, f \in DOMAIN b.unique,
           NEW reserved \in Int
    PROVE  LET c == finish_read(b, f, reserved) IN BudgetOK(c) /\ Grows(b, c)
<1> DEFINE actual == disk[f].actual
           spent == b.work - reserved + (IF disk[f].kind = "css" THEN actual ELSE 0)
           charge == IF f \in b.graph THEN 0 ELSE b.unique[f]
           more == IF f \in b.graph \/ actual <= charge THEN 0 ELSE actual - charge
           worked == [b EXCEPT !.work = spent]
           done == [worked EXCEPT !.input = @ + more, !.unique[f] = charge + more,
                                  !.snapshots = @ \cup {f}]
<1>1. finish_read(b, f, reserved) =
        IF spent > MaxCssBytes THEN Limit(b)
        ELSE IF actual > MaxModuleBytes \/ b.input + more > MaxGraphBytes THEN Limit(worked)
        ELSE done
  BY DEF finish_read
<1>2. /\ IsFiniteSet(Own(b)) /\ \A g \in Own(b) : Largest(b)[g] \in Int
      /\ SumOver(Largest(b), Own(b)) \in Int /\ b.input \in Int
      /\ actual \in Nat /\ b.work \in Int /\ b.reads \in Int /\ b.limit \in BOOLEAN
  <2>1. Own(b) \subseteq DOMAIN disk /\ IsFiniteSet(DOMAIN disk)
    BY DEF BudgetOK, LedgerWorld, IsDisk
  <2>2. IsFiniteSet(Own(b)) /\ \A g \in Own(b) : Largest(b)[g] \in Int
    BY <2>1, FS_Subset, LargestInt
  <2>3. SumOver(Largest(b), Own(b)) \in Int
    BY <2>2, SumInt
  <2>. QED BY <2>2, <2>3, LargestInt DEF BudgetOK, LedgerWorld
<1>3. spent \in Int
  BY <1>2
<1>4. f \in b.graph \/ (f \in Own(b) /\ b.unique[f] = Largest(b)[f])
  BY DEF Own, BudgetOK
<1>5. /\ charge \in Int /\ more \in Nat
      /\ f \in b.graph => more = 0
      /\ f \notin b.graph => charge = Largest(b)[f]
                             /\ charge + more = IF actual > charge THEN actual ELSE charge
  BY <1>2, <1>4
<1>6. /\ DOMAIN worked = BudgetFields /\ worked.limit = b.limit
      /\ worked.unique = b.unique /\ worked.graph = b.graph /\ worked.input = b.input
      /\ worked.snapshots = b.snapshots /\ worked.reads = b.reads /\ worked.work = spent
      /\ worked.obs = b.obs /\ worked.timedOut = b.timedOut
  BY DEF BudgetOK, BudgetFields
<1>7. /\ DOMAIN done = BudgetFields /\ done.limit = b.limit
      /\ done.graph = b.graph /\ done.input = b.input + more
      /\ done.snapshots = b.snapshots \cup {f} /\ done.reads = b.reads /\ done.work = spent
      /\ done.obs = b.obs /\ done.timedOut = b.timedOut
      /\ done.unique = [b.unique EXCEPT ![f] = charge + more]
  BY <1>6 DEF BudgetFields
<1> HIDE DEF done, more, charge, worked, spent
<1>8. CASE spent > MaxCssBytes
  BY <1>1, <1>8, LimitKeeps
<1>9. CASE ~(spent > MaxCssBytes) /\ (actual > MaxModuleBytes \/ b.input + more > MaxGraphBytes)
  <2>1. ~worked.limit => ~b.limit /\ worked.work <= MaxCssBytes /\ worked.reads <= MaxCssReads
    BY <1>3, <1>6, <1>9, StageLimits DEF BudgetOK
  <2>2. BudgetOK(worked)
    BY <1>2, <1>3, <1>6, <2>1, SameFiles
  <2>3. BudgetOK(Limit(worked)) /\ Grows(worked, Limit(worked))
    BY <2>2, LimitKeeps
  <2>4. Grows(b, Limit(worked))
    BY <1>6, <2>3 DEF Grows
  <2>. QED BY <1>1, <1>9, <2>3, <2>4
<1>10. CASE ~(spent > MaxCssBytes) /\ ~(actual > MaxModuleBytes \/ b.input + more > MaxGraphBytes)
  <2>1. /\ DOMAIN done.unique = DOMAIN b.unique
        /\ done.unique[f] = charge + more
        /\ \A g \in DOMAIN b.unique : g # f => done.unique[g] = b.unique[g]
    BY <1>7
  <2>2. Own(done) = Own(b)
    BY <1>7, <2>1 DEF Own
  <2>3. \A g \in DOMAIN disk : g # f => Largest(done)[g] = Largest(b)[g]
    BY <1>7 DEF Largest
  <2>4. f \notin b.graph => Largest(done)[f] = charge + more
    <3>1. SUFFICES ASSUME f \notin b.graph PROVE Largest(done)[f] = charge + more
      OBVIOUS
    <3>2. Largest(done)[f] = IF actual > disk[f].stat THEN actual ELSE disk[f].stat
      BY <1>7 DEF Largest
    <3>3. charge = disk[f].stat \/ (charge = actual /\ actual > disk[f].stat)
      BY <1>5, <3>1, LargestInt DEF Largest
    <3>. QED BY <1>2, <1>5, <3>1, <3>2, <3>3, LargestInt
  <2>5. SumOver(Largest(done), Own(b)) = SumOver(Largest(b), Own(b)) + more
    <3>1. Own(b) \subseteq DOMAIN disk
      BY DEF BudgetOK
    <3>2. CASE f \in b.graph
      <4>1. f \notin Own(b)
        BY <3>2 DEF Own
      <4>2. \A g \in Own(b) : Largest(done)[g] = Largest(b)[g]
        BY <2>3, <3>1, <4>1
      <4>3. SumOver(Largest(done), Own(b)) = SumOver(Largest(b), Own(b))
        BY <1>2, <4>2, SumSame
      <4>. QED BY <1>2, <1>5, <3>2, <4>3
    <3>3. CASE f \notin b.graph
      <4>1. f \in Own(b)
        BY <3>3 DEF Own
      <4>2. \A g \in Own(b) : Largest(b)[g] \in Int /\ Largest(done)[g] \in Int
        BY <3>1, LargestInt
      <4>3. \A g \in Own(b) \ {f} : Largest(b)[g] = Largest(done)[g]
        BY <2>3, <3>1
      <4>4. SumOver(Largest(done), Own(b)) = (SumOver(Largest(b), Own(b)) - Largest(b)[f]) + Largest(done)[f]
        BY <1>2, <4>1, <4>2, <4>3, SumUpdate
      <4>5. Largest(b)[f] = charge /\ Largest(done)[f] = charge + more
        BY <1>5, <2>4, <3>3
      <4>. QED BY <1>2, <1>5, <4>4, <4>5
    <3>. QED BY <3>2, <3>3
  <2>6. done.input = built.graph_source_bytes + SumOver(Largest(done), Own(done))
    BY <1>2, <1>5, <1>7, <2>2, <2>5 DEF BudgetOK, LedgerWorld
  <2>7. \A g \in Own(done) : done.unique[g] = Largest(done)[g]
    BY <1>5, <2>1, <2>2, <2>3, <2>4 DEF BudgetOK, Own
  <2>8. ~done.limit => done.input <= MaxGraphBytes /\ done.work <= MaxCssBytes /\ done.reads <= MaxCssReads
    BY <1>2, <1>3, <1>5, <1>7, <1>10, GraphLimits, StageLimits DEF BudgetOK
  <2>9. BudgetOK(done)
    BY <1>2, <1>3, <1>7, <2>1, <2>2, <2>6, <2>7, <2>8 DEF BudgetOK
  <2>10. Grows(b, done)
    BY <1>7, <2>1 DEF Grows
  <2>. QED BY <1>1, <1>10, <2>9, <2>10
<1>. QED BY <1>8, <1>9, <1>10

(***************************************************************************)
(* The attempts.                                                           *)
(***************************************************************************)

TreeFields ==
    {"step", "attempt", "entries", "todo", "open", "read", "files", "bytes", "cut", "err", "refs",
     "got", "missing", "omitted", "external"}
OutFields ==
    {"bundles", "fonts", "binaries", "uncounted", "degraded", "omitted", "external", "compression"}

\* The stage under way: a file that is being read is in the ledger, and what
\* was read, or is to be collected, is on the disk.
StageOK(t, b, o) ==
    /\ DOMAIN t = TreeFields /\ DOMAIN o = OutFields
    /\ t.step # "idle"
    /\ BudgetOK(b)
    /\ t.open \subseteq DOMAIN b.unique
    /\ t.step = "reading" => t.read \subseteq DOMAIN disk
    /\ t.step = "refs" => t.refs \subseteq DOMAIN disk

\* A step of the stage forgets nothing.
StageGoes(t, b, o) ==
    /\ StageOK(t, b, o)
    /\ Grows(budget, b)
    /\ out.compression => o.compression

\* What an attempt starts with.
LEMMA NewAttemptShape ==
    ASSUME NEW a
    PROVE  /\ DOMAIN NewAttempt(a) = TreeFields /\ NewAttempt(a).step = "reading"
           /\ NewAttempt(a).open = {} /\ NewAttempt(a).read = {}
BY DEF NewAttempt, AttemptAt, TreeFields

\* A ledger that stays as it is.
LEMMA GrowsSelf ==
    ASSUME NEW b PROVE Grows(b, b)
BY DEF Grows

\* A new attempt starts with nothing read.
LEMMA NewAttemptGoes ==
    ASSUME NEW b, BudgetOK(b), Grows(budget, b), NEW o, DOMAIN o = OutFields,
           out.compression => o.compression, NEW a
    PROVE  /\ StageGoes(NewAttempt(a), b, o)
           /\ \A todo : StageGoes([NewAttempt(a) EXCEPT !.step = "binaries", !.todo = todo], b, o)
           /\ \A cut : StageGoes([NewAttempt(a) EXCEPT !.cut = cut], b, o)
<1> DEFINE n == NewAttempt(a)
<1>1. /\ DOMAIN n = TreeFields /\ n.step = "reading" /\ n.open = {} /\ n.read = {}
  BY NewAttemptShape
<1> HIDE DEF n
<1>2. StageGoes(n, b, o)
  BY <1>1 DEF StageGoes, StageOK
<1>3. ASSUME NEW todo PROVE StageGoes([n EXCEPT !.step = "binaries", !.todo = todo], b, o)
  BY <1>1 DEF StageGoes, StageOK, TreeFields
<1>4. ASSUME NEW cut PROVE StageGoes([n EXCEPT !.cut = cut], b, o)
  BY <1>1 DEF StageGoes, StageOK, TreeFields
<1>. QED BY <1>2, <1>3, <1>4 DEF n

\* The sheets are settled.
LEMMA SettledGoes ==
    ASSUME NEW b, BudgetOK(b), Grows(budget, b), NEW o, DOMAIN o = OutFields,
           out.compression => o.compression, SheetsSettled(o)
    PROVE  StageGoes(tree', b, out') /\ (o.compression => out'.compression)
<1>1. out' = o /\ tree' = [NewAttempt(0) EXCEPT !.step = "binaries", !.todo = Binaries(o)]
  BY DEF SheetsSettled
<1>. QED BY <1>1, NewAttemptGoes

\* Counting nothing keeps the compressor's failure.
LEMMA NoneCountedShape ==
    ASSUME NEW o, DOMAIN o = OutFields
    PROVE  DOMAIN NoneCounted(o) = OutFields /\ NoneCounted(o).compression = o.compression
BY DEF NoneCounted, OutFields

\* The next attempt, or the end of them.
LEMMA AfterRetryGoes ==
    ASSUME NEW b, BudgetOK(b), Grows(budget, b), NEW o, DOMAIN o = OutFields,
           out.compression => o.compression, AfterRetry(o)
    PROVE  StageGoes(tree', b, out') /\ (o.compression => out'.compression)
<1>1. CASE tree.attempt < Len(Sheets)
  <2>1. out' = o /\ tree' = NewAttempt(tree.attempt + 1)
    BY <1>1 DEF AfterRetry
  <2>. QED BY <2>1, NewAttemptGoes
<1>2. CASE ~(tree.attempt < Len(Sheets)) /\ o.bundles = << >>
  <2>1. SheetsSettled(NoneCounted(o))
    BY <1>2 DEF AfterRetry
  <2>2. DOMAIN NoneCounted(o) = OutFields /\ NoneCounted(o).compression = o.compression
    BY NoneCountedShape
  <2>. QED BY <2>1, <2>2, SettledGoes
<1>3. CASE ~(tree.attempt < Len(Sheets)) /\ o.bundles # << >>
  <2>1. SheetsSettled(o)
    BY <1>3 DEF AfterRetry
  <2>. QED BY <2>1, SettledGoes
<1>. QED BY <1>1, <1>2, <1>3

\* An attempt that fails: the compressor's failure is kept, unless the ledger
\* failed first.
LEMMA AttemptFailsGoes ==
    ASSUME StageOK(tree, budget, out), NEW b, BudgetOK(b), Grows(budget, b), NEW err,
           AttemptFails(err, b)
    PROVE  /\ StageGoes(tree', budget', out')
           /\ err = "compression" => out'.compression \/ b.limit \/ b.timedOut
           /\ budget' = b /\ disk' = disk
<1> DEFINE o == [out EXCEPT !.compression = @ \/ err = "compression"]
           lone == [o EXCEPT !.uncounted = @ \cup {Sheets[tree.attempt]}]
           split == [o EXCEPT !.degraded = TRUE]
<1>1. budget' = b /\ disk' = disk
  BY DEF AttemptFails
<1>2. /\ DOMAIN o = OutFields /\ (out.compression => o.compression)
      /\ (err = "compression" => o.compression)
      /\ DOMAIN lone = OutFields /\ lone.compression = o.compression
      /\ DOMAIN split = OutFields /\ split.compression = o.compression
  BY DEF StageOK, OutFields
<1>3. IF failure(b) # NoError
      THEN tree' = [tree EXCEPT !.step = "done"] /\ out' = out
      ELSE IF tree.attempt > 0 THEN AfterRetry(lone)
      ELSE IF err = "compression" \/ Len(Sheets) = 1 THEN SheetsSettled(NoneCounted(o))
      ELSE out' = split /\ tree' = NewAttempt(1)
  BY DEF AttemptFails
<1> HIDE DEF o, lone, split
<1>4. CASE failure(b) # NoError
  <2>1. tree' = [tree EXCEPT !.step = "done"] /\ out' = out
    BY <1>3, <1>4
  <2>2. b.limit \/ b.timedOut
    BY <1>4 DEF failure, NoError
  <2>3. StageOK(tree', b, out')
    BY <2>1 DEF StageOK, TreeFields, Grows
  <2>. QED BY <1>1, <2>1, <2>2, <2>3 DEF StageGoes
<1>5. CASE failure(b) = NoError /\ tree.attempt > 0
  <2>1. AfterRetry(lone)
    BY <1>3, <1>5
  <2>2. StageGoes(tree', b, out') /\ (lone.compression => out'.compression)
    BY <1>2, <2>1, AfterRetryGoes
  <2>. QED BY <1>1, <1>2, <2>2
<1>6. CASE failure(b) = NoError /\ ~(tree.attempt > 0) /\ (err = "compression" \/ Len(Sheets) = 1)
  <2>1. SheetsSettled(NoneCounted(o))
    BY <1>3, <1>6
  <2>2. DOMAIN NoneCounted(o) = OutFields /\ NoneCounted(o).compression = o.compression
    BY <1>2, NoneCountedShape
  <2>3. StageGoes(tree', b, out') /\ (NoneCounted(o).compression => out'.compression)
    BY <1>2, <2>1, <2>2, SettledGoes
  <2>. QED BY <1>1, <1>2, <2>2, <2>3
<1>7. CASE failure(b) = NoError /\ ~(tree.attempt > 0) /\ ~(err = "compression" \/ Len(Sheets) = 1)
  <2>1. out' = split /\ tree' = NewAttempt(1)
    BY <1>3, <1>7
  <2>2. StageGoes(NewAttempt(1), b, split)
    BY <1>2, NewAttemptGoes
  <2>. QED BY <1>1, <1>2, <1>7, <2>1, <2>2
<1>. QED BY <1>4, <1>5, <1>6, <1>7

\* A read that fails, and one that is done.
LEMMA ReadFailsGoes ==
    ASSUME StageOK(tree, budget, out), NEW f, NEW b, BudgetOK(b), Grows(budget, b), ReadFails(f, b)
    PROVE  StageGoes(tree', budget', out') /\ budget' = b /\ disk' = disk
<1>1. /\ budget' = b /\ disk' = disk /\ out' = out
      /\ tree' = [tree EXCEPT !.todo = @ \ {f}, !.open = @ \ {f}, !.err = "transform"]
  BY DEF ReadFails
<1>2. /\ DOMAIN tree' = TreeFields /\ tree'.step = tree.step /\ tree'.open \subseteq tree.open
      /\ tree'.read = tree.read /\ tree'.refs = tree.refs
  BY <1>1 DEF StageOK, TreeFields
<1>3. StageOK(tree', b, out')
  BY <1>1, <1>2 DEF StageOK, Grows
<1>. QED BY <1>1, <1>3 DEF StageGoes

\* A read that has ended, well or not.
LEMMA ReadDoneGoes ==
    ASSUME StageOK(tree, budget, out), NEW f \in DOMAIN disk, NEW b, BudgetOK(b), Grows(budget, b),
           NEW t, DOMAIN t = TreeFields, t.step = tree.step, t.open = tree.open, t.read = tree.read,
           t.refs = tree.refs, ReadDone(f, b, t)
    PROVE  StageGoes(tree', budget', out') /\ budget' = b /\ disk' = disk
<1>1. budget' = b /\ disk' = disk /\ out' = out
  BY DEF ReadDone
<1>2. /\ DOMAIN tree' = TreeFields /\ tree'.step = tree.step /\ tree'.open \subseteq tree.open
      /\ tree'.read \subseteq tree.read \cup {f} /\ tree'.refs = tree.refs
  <2>1. CASE disk[f].parses
    <3>1. PICK todo : tree' = [t EXCEPT !.todo = todo, !.open = @ \ {f}, !.read = @ \cup {f}]
      BY <2>1 DEF ReadDone
    <3>. QED BY <3>1 DEF TreeFields
  <2>2. CASE ~disk[f].parses
    <3>1. tree' = [t EXCEPT !.todo = @ \ {f}, !.open = @ \ {f}, !.err = "transform"]
      BY <2>2 DEF ReadDone
    <3>. QED BY <3>1 DEF TreeFields
  <2>. QED BY <2>1, <2>2
<1>3. StageOK(tree', b, out')
  BY <1>1, <1>2 DEF StageOK, Grows
<1>. QED BY <1>1, <1>3 DEF StageGoes

\* A failed stat or read that is not an absence leaves its mark on the ledger.
SawUnreadable(b) == \E x \in b.obs : x[2] = "unreadable"

\* A reservation of an attempt's own bytes.
LEMMA ReserveShape ==
    ASSUME NEW bytes, DOMAIN tree = TreeFields
    PROVE  LET t == reserve(tree, bytes)
           IN  /\ DOMAIN t = TreeFields /\ t.step = tree.step /\ t.open = tree.open
               /\ t.read = tree.read /\ t.refs = tree.refs
BY DEF reserve, TreeFields

\* The steps of the job, one lemma each: a read begins,
LEMMA BeginReadGoes ==
    ASSUME LedgerWorld, StageOK(tree, budget, out), NEW f \in DOMAIN disk, NEW late, NEW io,
           BeginRead(f, late, io)
    PROVE  /\ StageGoes(tree', budget', out') /\ disk' = disk
           /\ io = "unreadable" => SawUnreadable(budget')
<1>1. BudgetOK(budget) /\ DOMAIN tree = TreeFields /\ disk[f].actual \in Int /\ disk[f].stat \in Int
  BY LargestInt DEF StageOK
<1>2. CASE io = "ok" /\ ReadFails(f, Checked(budget, late))
  BY <1>1, <1>2, CheckedKeeps, ReadFailsGoes
<1>3. CASE /\ io = "ok"
           /\ LET b == charge_css_work(budget, disk[f].actual)
              IN  IF b.limit \/ ~Fits(tree, disk[f].actual) THEN ReadFails(f, b)
                  ELSE ReadDone(f, b, reserve(tree, disk[f].actual))
  <2> DEFINE b == charge_css_work(budget, disk[f].actual)
             t == reserve(tree, disk[f].actual)
  <2>1. BudgetOK(b) /\ Grows(budget, b)
    BY <1>1, CssWorkKeeps
  <2>2. /\ DOMAIN t = TreeFields /\ t.step = tree.step /\ t.open = tree.open
        /\ t.read = tree.read /\ t.refs = tree.refs
    BY <1>1, ReserveShape
  <2>3. ReadFails(f, b) \/ ReadDone(f, b, t)
    BY <1>3
  <2> HIDE DEF b, t
  <2>. QED BY <1>3, <2>1, <2>2, <2>3, ReadFailsGoes, ReadDoneGoes
<1>4. CASE io # "ok" /\ ReadFails(f, record_failed_path(budget, f, io))
  <2> DEFINE b == record_failed_path(budget, f, io)
  <2>1. BudgetOK(b) /\ Grows(budget, b) /\ \E x \in b.obs : x[2] = io
    BY <1>1, FailedPathKeeps
  <2>2. ReadFails(f, b)
    BY <1>4
  <2> HIDE DEF b
  <2>3. StageGoes(tree', budget', out') /\ budget' = b /\ disk' = disk
    BY <2>1, <2>2, ReadFailsGoes
  <2>. QED BY <2>1, <2>3 DEF SawUnreadable
<1>5. CASE /\ io = "ok"
           /\ LET b == begin_css_read(budget, f)
              IN  IF b.limit \/ ~Fits(tree, disk[f].stat) THEN ReadFails(f, b)
                  ELSE /\ budget' = b
                       /\ tree' = [reserve(tree, disk[f].stat) EXCEPT
                                     !.todo = @ \ {f}, !.open = @ \cup {f}]
                       /\ UNCHANGED <<disk, out>>
  <2> DEFINE b == begin_css_read(budget, f)
             t == reserve(tree, disk[f].stat)
  <2>1. BudgetOK(b) /\ Grows(budget, b) /\ (~b.limit => f \in DOMAIN b.unique)
    BY <1>1, BeginCssKeeps
  <2>2. /\ DOMAIN t = TreeFields /\ t.step = tree.step /\ t.open = tree.open
        /\ t.read = tree.read /\ t.refs = tree.refs
    BY <1>1, ReserveShape
  <2>3. \/ ReadFails(f, b)
        \/ /\ ~b.limit /\ budget' = b /\ disk' = disk /\ out' = out
           /\ tree' = [t EXCEPT !.todo = @ \ {f}, !.open = @ \cup {f}]
    BY <1>5
  <2> HIDE DEF b, t
  <2>4. CASE ReadFails(f, b)
    BY <1>5, <2>1, <2>4, ReadFailsGoes
  <2>5. CASE /\ ~b.limit /\ budget' = b /\ disk' = disk /\ out' = out
             /\ tree' = [t EXCEPT !.todo = @ \ {f}, !.open = @ \cup {f}]
    <3>1. /\ DOMAIN tree' = TreeFields /\ tree'.step = tree.step /\ tree'.open = tree.open \cup {f}
          /\ tree'.read = tree.read /\ tree'.refs = tree.refs
      BY <2>2, <2>5 DEF TreeFields
    <3>2. StageOK(tree', b, out')
      BY <2>1, <2>5, <3>1 DEF StageOK, Grows
    <3>. QED BY <1>5, <2>1, <2>5, <3>2 DEF StageGoes
  <2>. QED BY <2>3, <2>4, <2>5
<1>. QED BY <1>2, <1>3, <1>4, <1>5 DEF BeginRead

\* a read ends,
LEMMA FinishReadGoes ==
    ASSUME LedgerWorld, StageOK(tree, budget, out), NEW f \in DOMAIN disk, NEW late,
           FinishRead(f, late)
    PROVE  /\ StageGoes(tree', budget', out') /\ disk' = disk
           /\ disk[f].io = "lost" => SawUnreadable(budget')
<1> DEFINE t == [tree EXCEPT !.bytes = @ - disk[f].stat + disk[f].actual]
           b == finish_read(budget, f, disk[f].stat)
           failed == record_failed_path(budget, f, "unreadable")
<1>1. /\ BudgetOK(budget) /\ DOMAIN tree = TreeFields /\ disk[f].stat \in Int
      /\ f \in DOMAIN budget.unique
  BY LargestInt DEF StageOK, FinishRead
<1>2. BudgetOK(b) /\ Grows(budget, b)
  BY <1>1, FinishKeeps
<1>3. /\ DOMAIN t = TreeFields /\ t.step = tree.step /\ t.open = tree.open
      /\ t.read = tree.read /\ t.refs = tree.refs
  BY <1>1 DEF TreeFields
<1>4. BudgetOK(failed) /\ Grows(budget, failed) /\ SawUnreadable(failed)
  BY <1>1, FailedPathKeeps DEF SawUnreadable
<1>5. \/ ReadFails(f, failed)
      \/ disk[f].io # "lost" /\ ReadFails(f, budget)
      \/ disk[f].io # "lost" /\ ReadFails(f, Checked(budget, late))
      \/ disk[f].io # "lost" /\ ReadFails(f, b)
      \/ disk[f].io # "lost" /\ ReadDone(f, b, t)
  BY DEF FinishRead
<1> HIDE DEF t, b, failed
<1>6. CASE ReadFails(f, failed)
  <2>1. StageGoes(tree', budget', out') /\ budget' = failed /\ disk' = disk
    BY <1>4, <1>6, ReadFailsGoes
  <2>. QED BY <1>4, <2>1
<1>7. CASE disk[f].io # "lost" /\ ReadFails(f, budget)
  BY <1>1, <1>7, GrowsSelf, ReadFailsGoes
<1>8. CASE disk[f].io # "lost" /\ ReadFails(f, Checked(budget, late))
  BY <1>1, <1>8, CheckedKeeps, ReadFailsGoes
<1>9. CASE disk[f].io # "lost" /\ ReadFails(f, b)
  BY <1>2, <1>9, ReadFailsGoes
<1>10. CASE disk[f].io # "lost" /\ ReadDone(f, b, t)
  BY <1>2, <1>3, <1>10, ReadDoneGoes
<1>. QED BY <1>5, <1>6, <1>7, <1>8, <1>9, <1>10

\* Only a sheet that was read is in a bundle.
LEMMA InlinedRead ==
    ASSUME NEW cut
    PROVE  Inlined(cut) \subseteq tree.read
BY DEF Inlined

\* all reads have ended,
LEMMA EndReadsGoes ==
    ASSUME LedgerWorld, StageOK(tree, budget, out), NEW late, EndReads(late)
    PROVE  StageGoes(tree', budget', out') /\ disk' = disk
<1>1. BudgetOK(budget) /\ DOMAIN tree = TreeFields /\ tree.step = "reading"
  BY DEF StageOK, EndReads
<1>2. CASE AttemptFails("transform", budget)
  BY <1>1, <1>2, GrowsSelf, AttemptFailsGoes
<1>3. CASE AttemptFails("transform", Checked(budget, late))
  BY <1>1, <1>3, CheckedKeeps, AttemptFailsGoes
<1>4. ASSUME NEW cut, tree' = [NewAttempt(tree.attempt) EXCEPT !.cut = cut],
             UNCHANGED <<disk, budget, out>>
      PROVE  StageGoes(tree', budget', out') /\ disk' = disk
  <2>1. DOMAIN out = OutFields
    BY DEF StageOK
  <2>2. StageGoes(tree', budget, out)
    BY <1>1, <1>4, <2>1, GrowsSelf, NewAttemptGoes
  <2>. QED BY <1>4, <2>2
<1>5. ASSUME NEW refs, refs = UNION {disk[f].refs : f \in Inlined(tree.cut)},
             tree' = [tree EXCEPT !.step = "refs", !.refs = refs],
             UNCHANGED <<disk, budget, out>>
      PROVE  StageGoes(tree', budget', out') /\ disk' = disk
  <2>1. Inlined(tree.cut) \subseteq DOMAIN disk
    BY <1>1, InlinedRead DEF StageOK
  <2>2. refs \subseteq DOMAIN disk
    BY <1>5, <2>1 DEF LedgerWorld, IsDisk
  <2>3. /\ DOMAIN tree' = TreeFields /\ tree'.step = "refs" /\ tree'.refs = refs
        /\ tree'.open = tree.open
    BY <1>1, <1>5 DEF TreeFields
  <2>4. StageOK(tree', budget, out)
    BY <2>2, <2>3 DEF StageOK
  <2>. QED BY <1>5, <2>4, GrowsSelf DEF StageGoes
<1>6. \/ AttemptFails("transform", budget)
      \/ AttemptFails("transform", Checked(budget, late))
      \/ \E cut : /\ tree' = [NewAttempt(tree.attempt) EXCEPT !.cut = cut]
                  /\ UNCHANGED <<disk, budget, out>>
      \/ \E refs : /\ refs = UNION {disk[f].refs : f \in Inlined(tree.cut)}
                   /\ tree' = [tree EXCEPT !.step = "refs", !.refs = refs]
                   /\ UNCHANGED <<disk, budget, out>>
  BY DEF EndReads
<1>. QED BY <1>2, <1>3, <1>4, <1>5, <1>6

\* a file that a stylesheet names is collected,
LEMMA CollectGoes ==
    ASSUME LedgerWorld, StageOK(tree, budget, out), NEW late, NEW io, CollectReference(late, io)
    PROVE  /\ StageGoes(tree', budget', out') /\ disk' = disk
           /\ io = "unreadable" => SawUnreadable(budget')
<1>1. PICK f \in tree.refs : CollectOne(f, late, io)
  BY DEF CollectReference
<1> DEFINE t == [tree EXCEPT !.refs = @ \ {f}]
           reserved == reserve_unique(budget, f, disk[f].stat)
           lost == record_failed_path(reserved, f, "unreadable")
           failed == record_failed_path(budget, f, io)
           b == IF f \in budget.snapshots \/ reserved.limit THEN reserved
                ELSE finish_read(reserved, f, 0)
<1>2. /\ BudgetOK(budget) /\ DOMAIN tree = TreeFields /\ tree.step = "refs"
      /\ f \in DOMAIN disk /\ DOMAIN out = OutFields
  BY <1>1 DEF StageOK, CollectReference
<1>3. /\ DOMAIN t = TreeFields /\ t.step = "refs" /\ t.refs \subseteq tree.refs /\ t.open = tree.open
  BY <1>2 DEF TreeFields
<1>4. BudgetOK(reserved) /\ Grows(budget, reserved) /\ (~reserved.limit => f \in DOMAIN reserved.unique)
  BY <1>2, ReserveKeeps
<1>5. BudgetOK(lost) /\ Grows(budget, lost)
  <2> HIDE DEF reserved
  <2>1. BudgetOK(lost) /\ Grows(reserved, lost)
    BY <1>4, FailedPathKeeps
  <2> HIDE DEF lost
  <2>. QED BY <1>4, <2>1 DEF Grows
<1>6. BudgetOK(failed) /\ Grows(budget, failed) /\ (io = "unreadable" => SawUnreadable(failed))
  BY <1>2, FailedPathKeeps DEF SawUnreadable
<1>7. BudgetOK(b) /\ Grows(budget, b)
  <2> HIDE DEF reserved
  <2>1. CASE f \in budget.snapshots \/ reserved.limit
    BY <1>4, <2>1
  <2>2. CASE ~(f \in budget.snapshots \/ reserved.limit)
    <3> DEFINE c == finish_read(reserved, f, 0)
    <3>1. BudgetOK(c) /\ Grows(reserved, c)
      BY <1>2, <1>4, <2>2, FinishKeeps
    <3>2. b = c
      BY <2>2
    <3> HIDE DEF c, b
    <3>. QED BY <1>4, <3>1, <3>2 DEF Grows
  <2>. QED BY <2>1, <2>2
<1>8. \/ io = "ok" /\ AttemptFails("transform", Checked(budget, late))
      \/ /\ io = "ok" /\ UNCHANGED <<disk, budget, out>>
         /\ \E x, y : tree' = [t EXCEPT !.external = x, !.omitted = y]
      \/ /\ UNCHANGED <<disk, out>>
         /\ \/ budget' = failed
            \/ io = "ok" /\ budget' \in {budget, lost, b}
         /\ \E x : tree' = [t EXCEPT !.missing = x] \/ tree' = [t EXCEPT !.got = x]
  BY <1>1 DEF CollectOne
<1> HIDE DEF t, reserved, lost, failed, b
<1>9. CASE io = "ok" /\ AttemptFails("transform", Checked(budget, late))
  BY <1>2, <1>9, CheckedKeeps, AttemptFailsGoes
<1>10. ASSUME NEW c, BudgetOK(c), Grows(budget, c),
              DOMAIN tree' = TreeFields, tree'.step = "refs", tree'.refs \subseteq tree.refs,
              tree'.open = tree.open, out' = out
       PROVE  StageGoes(tree', c, out')
  <2>1. StageOK(tree', c, out')
    BY <1>2, <1>10 DEF StageOK, Grows
  <2>. QED BY <1>10, <2>1 DEF StageGoes
<1>11. CASE /\ io = "ok" /\ UNCHANGED <<disk, budget, out>>
            /\ \E x, y : tree' = [t EXCEPT !.external = x, !.omitted = y]
  <2>1. /\ DOMAIN tree' = TreeFields /\ tree'.step = "refs" /\ tree'.refs \subseteq tree.refs
        /\ tree'.open = tree.open
    BY <1>3, <1>11 DEF TreeFields
  <2>2. StageGoes(tree', budget, out')
    BY <1>2, <1>10, <1>11, <2>1, GrowsSelf
  <2>. QED BY <1>11, <2>2
<1>12. CASE /\ UNCHANGED <<disk, out>>
            /\ \/ budget' = failed
               \/ io = "ok" /\ budget' \in {budget, lost, b}
            /\ \E x : tree' = [t EXCEPT !.missing = x] \/ tree' = [t EXCEPT !.got = x]
  <2>1. /\ DOMAIN tree' = TreeFields /\ tree'.step = "refs" /\ tree'.refs \subseteq tree.refs
        /\ tree'.open = tree.open
    BY <1>3, <1>12 DEF TreeFields
  <2>3. PICK c \in {failed, budget, lost, b} : budget' = c
    BY <1>12
  <2>4. BudgetOK(c) /\ Grows(budget, c)
    BY <1>2, <1>5, <1>6, <1>7, GrowsSelf
  <2>5. StageGoes(tree', c, out')
    BY <1>10, <1>12, <2>1, <2>4
  <2>6. io = "unreadable" => SawUnreadable(budget')
    BY <1>6, <1>12
  <2>. QED BY <1>12, <2>3, <2>5, <2>6
<1>. QED BY <1>8, <1>9, <1>11, <1>12

\* a bundle of styles is compressed,
LEMMA CompressBundleGoes ==
    ASSUME StageOK(tree, budget, out), NEW late, NEW ok \in BOOLEAN, CompressBundle(late, ok)
    PROVE  /\ StageGoes(tree', budget', out') /\ disk' = disk
           /\ ~ok => out'.compression \/ budget'.limit \/ budget'.timedOut
<1>1. BudgetOK(budget) /\ DOMAIN out = OutFields
  BY DEF StageOK
<1>2. CASE ok /\ AttemptFails("transform", Checked(budget, late))
  BY <1>1, <1>2, CheckedKeeps, AttemptFailsGoes
<1>3. CASE AttemptFails("compression", budget)
  BY <1>1, <1>3, GrowsSelf, AttemptFailsGoes
<1>4. CASE ok /\ AttemptCounts
  <2> DEFINE o == [out EXCEPT !.bundles = Append(@, Inlined(tree.cut)),
                              !.fonts = @ \cup tree.got,
                              !.uncounted = @ \cup tree.missing,
                              !.omitted = @ \/ tree.omitted,
                              !.external = @ \/ tree.external]
  <2>1. DOMAIN o = OutFields /\ o.compression = out.compression
    BY <1>1 DEF OutFields
  <2>2. (AfterRetry(o) \/ SheetsSettled(o)) /\ disk' = disk /\ budget' = budget
    BY <1>4 DEF AttemptCounts
  <2> HIDE DEF o
  <2>3. StageGoes(tree', budget, out')
    BY <1>1, <2>1, <2>2, GrowsSelf, AfterRetryGoes, SettledGoes
  <2>. QED BY <1>4, <2>2, <2>3
<1>. QED BY <1>2, <1>3, <1>4 DEF CompressBundle

\* a binary is compressed,
LEMMA CompressBinaryGoes ==
    ASSUME StageOK(tree, budget, out), NEW late, NEW ok \in BOOLEAN, CompressBinary(late, ok)
    PROVE  /\ StageGoes(tree', budget', out') /\ disk' = disk
           /\ ~ok => out'.compression
<1> DEFINE f == CHOOSE g \in tree.todo : \A h \in tree.todo : g <= h
<1>1. BudgetOK(budget) /\ DOMAIN out = OutFields /\ DOMAIN tree = TreeFields /\ tree.step = "binaries"
  BY DEF StageOK, CompressBinary
<1>2. \/ /\ out' = IF ok THEN [out EXCEPT !.binaries = @ \cup {f}]
                   ELSE [out EXCEPT !.uncounted = @ \cup {f}, !.compression = TRUE]
         /\ tree' = [tree EXCEPT !.todo = @ \ {f}, !.read = @ \cup {f}]
         /\ budget' = budget
      \/ /\ ok /\ budget' = Checked(budget, late)
         /\ tree' = [tree EXCEPT !.step = "done"] /\ out' = out
  BY DEF CompressBinary
<1>3. disk' = disk
  BY DEF CompressBinary
<1> HIDE DEF f
<1>4. CASE /\ out' = IF ok THEN [out EXCEPT !.binaries = @ \cup {f}]
                      ELSE [out EXCEPT !.uncounted = @ \cup {f}, !.compression = TRUE]
           /\ tree' = [tree EXCEPT !.todo = @ \ {f}, !.read = @ \cup {f}]
           /\ budget' = budget
  <2>1. DOMAIN tree' = TreeFields /\ tree'.step = "binaries" /\ tree'.open = tree.open
    BY <1>1, <1>4 DEF TreeFields
  <2>2. DOMAIN out' = OutFields /\ (out.compression => out'.compression) /\ (~ok => out'.compression)
    BY <1>1, <1>4 DEF OutFields
  <2>3. StageOK(tree', budget, out')
    BY <1>1, <2>1, <2>2 DEF StageOK
  <2>. QED BY <1>3, <1>4, <2>2, <2>3, GrowsSelf DEF StageGoes
<1>5. CASE /\ ok /\ budget' = Checked(budget, late)
           /\ tree' = [tree EXCEPT !.step = "done"] /\ out' = out
  <2> DEFINE c == Checked(budget, late)
  <2>1. BudgetOK(c) /\ Grows(budget, c)
    BY <1>1, CheckedKeeps
  <2>2. DOMAIN tree' = TreeFields /\ tree'.step = "done" /\ tree'.open = tree.open
    BY <1>1, <1>5 DEF TreeFields
  <2> HIDE DEF c
  <2>3. StageOK(tree', c, out')
    BY <1>1, <1>5, <2>1, <2>2 DEF StageOK, Grows
  <2>. QED BY <1>3, <1>5, <2>1, <2>3 DEF StageGoes, c
<1>. QED BY <1>2, <1>4, <1>5

\* all binaries are,
LEMMA EndBinariesGoes ==
    ASSUME StageOK(tree, budget, out), NEW late, EndBinaries(late)
    PROVE  StageGoes(tree', budget', out') /\ disk' = disk
<1>1. BudgetOK(budget) /\ DOMAIN tree = TreeFields
  BY DEF StageOK
<1>2. PICK c \in {budget, Checked(budget, late)} : budget' = c
  BY DEF EndBinaries
<1>3. BudgetOK(c) /\ Grows(budget, c)
  BY <1>1, GrowsSelf, CheckedKeeps
<1>4. DOMAIN tree' = TreeFields /\ tree'.step = "done" /\ tree'.open = tree.open
      /\ out' = out /\ disk' = disk
  BY <1>1 DEF EndBinaries, TreeFields
<1>5. StageOK(tree', c, out')
  BY <1>3, <1>4 DEF StageOK, Grows
<1>. QED BY <1>2, <1>3, <1>4, <1>5 DEF StageGoes

\* and the job begins.
LEMMA BeginStageGoes ==
    ASSUME LedgerWorld, DOMAIN tree = TreeFields, DOMAIN out = OutFields, tree.open = {}, BeginStage
    PROVE  StageOK(tree', budget', out') /\ disk' = disk /\ out' = out
<1> DEFINE c == NewContext
           files == ledger.loaded \cup Range(direct)
<1>1. /\ DOMAIN c = BudgetFields /\ c.unique = [f \in files |-> 0] /\ c.graph = files
      /\ c.input = built.graph_source_bytes /\ c.reads = 0 /\ c.work = 0
      /\ c.snapshots = Range(direct)
      /\ c.limit = (Cardinality(files) > MaxModules \/ built.graph_source_bytes > MaxGraphBytes)
  BY DEF NewContext, BudgetFields
<1>2. budget' = c /\ disk' = disk /\ out' = out
  BY DEF BeginStage
<1>3. \/ tree' = [tree EXCEPT !.step = "done"]
      \/ tree' = [NewAttempt(0) EXCEPT !.step = "binaries", !.todo = Binaries(NothingProcessed)]
      \/ tree' = NewAttempt(0)
  BY DEF BeginStage
<1> HIDE DEF c, files
<1>4. DOMAIN c.unique = files /\ Range(direct) \subseteq files
  BY <1>1 DEF files
<1>5. Own(c) = {}
  BY <1>1, <1>4 DEF Own
<1>6. SumOver(Largest(c), Own(c)) = 0
  BY <1>5, SumEmpty
<1>7. c.input \in Int /\ c.input = built.graph_source_bytes + SumOver(Largest(c), Own(c))
  BY <1>1, <1>6 DEF LedgerWorld
<1>8. BudgetOK(c)
  <2>1. c.limit \in BOOLEAN
    BY <1>1
  <2>2. ~c.limit => ~(built.graph_source_bytes > MaxGraphBytes)
    BY <1>1
  <2>3. ~c.limit => c.input <= MaxGraphBytes
    BY <1>1, <1>7, <2>2, GraphLimits
  <2>4. c.reads \in Int /\ c.work \in Int /\ c.work <= MaxCssBytes /\ c.reads <= MaxCssReads
    BY <1>1, StageLimits
  <2>5. c.graph \subseteq DOMAIN c.unique /\ c.snapshots \subseteq DOMAIN c.unique
    BY <1>1, <1>4
  <2>. QED BY <1>1, <1>5, <1>7, <2>1, <2>3, <2>4, <2>5 DEF BudgetOK
<1>9. DOMAIN tree' = TreeFields /\ tree'.open = {} /\ tree'.step # "idle" /\ tree'.step # "refs"
      /\ (tree'.step = "reading" => tree'.read = {})
  <2>1. CASE tree' = [tree EXCEPT !.step = "done"]
    BY <2>1 DEF TreeFields
  <2>2. CASE tree' = [NewAttempt(0) EXCEPT !.step = "binaries", !.todo = Binaries(NothingProcessed)]
    BY <2>2, NewAttemptShape DEF TreeFields
  <2>3. CASE tree' = NewAttempt(0)
    BY <2>3, NewAttemptShape
  <2>. QED BY <1>3, <2>1, <2>2, <2>3
<1>. QED BY <1>2, <1>8, <1>9 DEF StageOK

(***************************************************************************)
(* The gate's answers.                                                     *)
(***************************************************************************)

Answers == {"none", "ok", "Panicked", "AdmissionFailed", "AdmissionTimedOut", "ExecutionTimedOut"}

\* A caller has its answer once it has returned, and only a job that has ended
\* can have answered it with its own outcome.
Answering ==
    /\ reply \in [Callers -> Answers] /\ answer \in [Callers -> Answers]
    /\ \A c \in Callers :
         /\ call[c] = "answered" <=> answer[c] # "none"
         /\ work[c] \in {"none", "queued", "running"} => reply[c] = "none"
         /\ answer[c] = "ok" => work[c] \in {"returned", "gone"}

\* notify_one touches nobody but a sleeper.
LEMMA NotifiedOthers ==
    ASSUME NEW calls \in [Callers -> CallStates], NEW new \in Notified(calls)
    PROVE  /\ new \in [Callers -> CallStates]
           /\ \A a \in Callers : new[a] = calls[a] \/ (calls[a] = "asleep" /\ new[a] = "acquire")
BY NotifiedWakesOne DEF CallStates

\* What a step of the gate does to the callers: an answer is given once, when
\* the caller returns.
LEMMA GateMoves ==
    ASSUME GateInv, Answering, NEW c \in Callers,
           CallerStep(c) \/ WorkerStart(c) \/ Release(c)
             \/ \E outcome \in {"ok", "Panicked"} : WorkerReturn(c, outcome)
    PROVE  \A a \in Callers :
             /\ call[a] \in {"idle", "answered"} => call'[a] = call[a] /\ answer'[a] = answer[a]
             /\ call[a] # "idle" => call'[a] # "idle"
<1>1. call \in [Callers -> CallStates] /\ answer \in [Callers -> Answers]
  BY DEF GateInv, GateTypeOK, CallStates, Answering
<1> DEFINE left == [call EXCEPT ![c] = "answered"]
<1>2. left \in [Callers -> CallStates]
  BY <1>1 DEF CallStates
<1>3. CASE GiveUpAcquire(c)
  <2>1. call[c] = "acquire" /\ \A a \in Callers : a # c => answer'[a] = answer[a]
    BY <1>1, <1>3 DEF GiveUpAcquire, Answer
  <2>2. call' \in Notified(left) \/ call' = left
    BY <1>3 DEF GiveUpAcquire
  <2>3. \A a \in Callers : call'[a] = left[a] \/ (left[a] = "asleep" /\ call'[a] = "acquire")
    <3> HIDE DEF left
    <3>. QED BY <1>2, <2>2, NotifiedOthers
  <2>. QED BY <1>1, <2>1, <2>3
<1>4. CASE Acquire(c)
  BY <1>1, <1>4 DEF Acquire
<1>5. CASE WakeExpired(c)
  BY <1>1, <1>5 DEF WakeExpired
<1>6. CASE Submit(c)
  <2>1. CASE c \in expired
    <3>1. call[c] = "admitted" /\ \A a \in Callers : a # c => answer'[a] = answer[a]
      BY <1>1, <1>6, <2>1 DEF Submit, Answer
    <3>2. call' \in Notified(left)
      BY <1>6, <2>1 DEF Submit
    <3>3. \A a \in Callers : call'[a] = left[a] \/ (left[a] = "asleep" /\ call'[a] = "acquire")
      <4> HIDE DEF left
      <4>. QED BY <1>2, <3>2, NotifiedOthers
    <3>. QED BY <1>1, <3>1, <3>3
  <2>2. CASE c \notin expired
    BY <1>1, <1>6, <2>2 DEF Submit
  <2>. QED BY <2>1, <2>2
<1>7. CASE Receive(c)
  BY <1>1, <1>7 DEF Receive, Answer
<1>8. CASE Expire(c)
  BY <1>8 DEF Expire
<1>9. CASE WorkerStart(c) \/ \E outcome \in {"ok", "Panicked"} : WorkerReturn(c, outcome)
  BY <1>9 DEF WorkerStart, WorkerReturn
<1>10. CASE Release(c)
  BY <1>1, <1>10, NotifiedOthers DEF Release
<1>. QED BY <1>3, <1>4, <1>5, <1>6, <1>7, <1>8, <1>9, <1>10 DEF CallerStep

\* Nobody has an answer at first.
LEMMA AnsweringStarts == GateInit => Answering
BY DEF GateInit, Answering, Answers, NoReply

\* Every step of the gate keeps the answers in order.
LEMMA AnsweringStep ==
    ASSUME GateInv, Answering, [GateNext]_gateVars
    PROVE  Answering'
<1>1. /\ call \in [Callers -> CallStates] /\ work \in [Callers -> {"none", "queued", "running", "returned", "gone"}]
      /\ reply \in [Callers -> Answers] /\ answer \in [Callers -> Answers]
      /\ \A c \in Callers : work[c] # "none" => call[c] \in {"waiting", "answered"}
  BY DEF GateInv, GateTypeOK, CallStates, PastGate, Answering
<1>2. CASE UNCHANGED gateVars
  BY <1>2 DEF gateVars, Answering
<1>3. ASSUME NEW c \in Callers, NEW b \in BOOLEAN, Execute(c, b) PROVE Answering'
  <2>1. work' = work /\ reply' = reply /\ call[c] = "idle" /\ work[c] = "none"
    BY <1>1, <1>3 DEF Execute
  <2>2. CASE call' = [call EXCEPT ![c] = "acquire"] /\ answer' = answer
    BY <1>1, <2>1, <2>2 DEF Answering, CallStates
  <2>3. CASE call' = [call EXCEPT ![c] = "answered"] /\ answer' = [answer EXCEPT ![c] = "AdmissionFailed"]
    BY <1>1, <2>1, <2>3 DEF Answering, CallStates, Answers
  <2>. QED BY <1>3, <2>2, <2>3 DEF Execute, Answer
<1>4. ASSUME NEW c \in Callers, call'[c] = "answered",
             \A a \in Callers :
               a # c => call'[a] = call[a] \/ (call[a] = "asleep" /\ call'[a] = "acquire"),
             work' = work, reply' = reply, work[c] = "none",
             answer' = [answer EXCEPT ![c] = "AdmissionTimedOut"]
      PROVE  Answering'
  BY <1>1, <1>4 DEF Answering, Answers
<1>5. ASSUME NEW c \in Callers, NEW left, left = [call EXCEPT ![c] = "answered"],
             call' \in Notified(left) \/ call' = left
      PROVE  /\ call'[c] = "answered"
             /\ \A a \in Callers :
                  a # c => call'[a] = call[a] \/ (call[a] = "asleep" /\ call'[a] = "acquire")
  <2>1. /\ left \in [Callers -> CallStates] /\ left[c] = "answered"
        /\ \A a \in Callers : a # c => left[a] = call[a]
    BY <1>1, <1>5 DEF CallStates
  <2>2. \A a \in Callers : call'[a] = left[a] \/ (left[a] = "asleep" /\ call'[a] = "acquire")
    BY <1>5, <2>1, NotifiedOthers, ZenonT(60)
  <2>. QED BY <2>1, <2>2
<1>6. ASSUME NEW c \in Callers, GiveUpAcquire(c) PROVE Answering'
  <2>1. /\ work' = work /\ reply' = reply /\ work[c] = "none"
        /\ answer' = [answer EXCEPT ![c] = "AdmissionTimedOut"]
        /\ \E left : /\ left = [call EXCEPT ![c] = "answered"]
                     /\ call' \in Notified(left) \/ call' = left
    BY <1>1, <1>6 DEF GiveUpAcquire, Answer
  <2>. QED BY <1>4, <1>5, <2>1
<1>7. ASSUME NEW c \in Callers, Acquire(c) \/ WakeExpired(c) \/ Expire(c) PROVE Answering'
  <2>1. /\ work' = work /\ reply' = reply /\ answer' = answer
        /\ \A a \in Callers : call'[a] = "answered" <=> call[a] = "answered"
    BY <1>1, <1>7 DEF Acquire, WakeExpired, Expire
  <2>. QED BY <2>1 DEF Answering
<1>8. ASSUME NEW c \in Callers, Submit(c) PROVE Answering'
  <2>0. call[c] = "admitted" /\ work[c] = "none" /\ reply' = reply
    BY <1>1, <1>8 DEF Submit
  <2>1. CASE c \in expired
    <3>1. /\ work' = work /\ answer' = [answer EXCEPT ![c] = "AdmissionTimedOut"]
          /\ \E left : left = [call EXCEPT ![c] = "answered"] /\ call' \in Notified(left)
      BY <1>8, <2>1 DEF Submit, Answer
    <3>. QED BY <1>4, <1>5, <2>0, <3>1
  <2>2. CASE c \notin expired
    <3>1. /\ call' = [call EXCEPT ![c] = "waiting"] /\ work' = [work EXCEPT ![c] = "queued"]
          /\ answer' = answer
      BY <1>8, <2>2 DEF Submit
    <3>. QED BY <1>1, <2>0, <3>1 DEF Answering, CallStates
  <2>. QED BY <2>1, <2>2
<1>9. ASSUME NEW c \in Callers, Receive(c) PROVE Answering'
  <2>1. /\ call' = [call EXCEPT ![c] = "answered"] /\ work' = work /\ reply' = reply
        /\ call[c] = "waiting"
        /\ \/ reply[c] # "none" /\ answer' = [answer EXCEPT ![c] = reply[c]]
           \/ answer' = [answer EXCEPT ![c] = "ExecutionTimedOut"]
    BY <1>9 DEF Receive, Answer, NoReply
  <2>2. reply[c] # "none" => work[c] \in {"returned", "gone"}
    BY <1>1 DEF Answering
  <2>. QED BY <1>1, <2>1, <2>2 DEF Answering, CallStates, Answers
<1>10. ASSUME NEW c \in Callers,
              WorkerStart(c) \/ \E outcome \in {"ok", "Panicked"} : WorkerReturn(c, outcome)
       PROVE  Answering'
  <2>1. /\ call' = call /\ answer' = answer /\ work[c] \in {"queued", "running"}
        /\ \/ work' = [work EXCEPT ![c] = "running"] /\ reply' = reply
           \/ /\ work' = [work EXCEPT ![c] = "returned"]
              /\ \E x \in Answers : reply' = [reply EXCEPT ![c] = x]
    BY <1>10 DEF WorkerStart, WorkerReturn, Answers
  <2>. QED BY <1>1, <2>1 DEF Answering
<1>11. ASSUME NEW c \in Callers, Release(c) PROVE Answering'
  <2>1. /\ call' \in Notified(call) /\ answer' = answer /\ reply' = reply /\ work[c] = "returned"
        /\ work' = [work EXCEPT ![c] = "gone"]
    BY <1>11 DEF Release
  <2>2. \A a \in Callers : call'[a] = "answered" <=> call[a] = "answered"
    BY <1>1, <2>1, NotifiedOthers
  <2>. QED BY <1>1, <2>1, <2>2 DEF Answering
<1>. QED BY <1>2, <1>3, <1>6, <1>7, <1>8, <1>9, <1>10, <1>11 DEF GateNext, CallerStep

(***************************************************************************)
(* The request.                                                            *)
(***************************************************************************)

Phases == {"resolve", "build", "assets", "measured", "Component", "Server", "settle", "summed"}

World == scn \in Scenarios /\ graph = scn.graph /\ disk = scn.disk /\ phase \in Phases

\* The asset job belongs to a build that worked, and exists only behind the
\* gate; the answer is taken once.
JobOfBuild ==
    /\ phase = "resolve" => \A m \in DOMAIN graph : st[m] = "idle"
    /\ phase \in {"resolve", "build"} => call[Focus] = "idle" /\ moments = {}
    /\ phase = "assets" => moments \subseteq {"io", "compressor"}
    /\ Done => call[Focus] \in {"idle", "answered"}
    /\ call[Focus] # "idle" => built.state = "ok"
    /\ tree.step # "idle" => call[Focus] # "idle"

\* The stage's own invariant, and what it keeps of the moments.
Working ==
    /\ DOMAIN tree = TreeFields /\ DOMAIN out = OutFields
    /\ tree.step = "idle" => tree.open = {} /\ moments \cap {"io", "compressor"} = {}
    /\ tree.step # "idle" => StageOK(tree, budget, out)
    /\ "io" \in moments => SawUnreadable(budget)
    /\ "compressor" \in moments => out.compression \/ budget.limit \/ budget.timedOut

\* What was answered: a transient moment is no part of a durable result.
Spoiled ==
    \/ ~is_durable(result)
    \/ result.stages \cap {"module_graph_limit", "minify"} # {}
    \/ Passing \ TakenForFacts \subseteq (IF budget.limit THEN {"compressor"} ELSE {})
ResultSettled ==
    Done => /\ OwnResult(scn.pkg, result)
            /\ answer[Focus] \notin {"none", "ok"} => ~is_durable(result)
            /\ Spoiled

MeasureInv == World /\ BuildInv /\ GateInv /\ Answering /\ JobOfBuild /\ Working /\ ResultSettled

\* Nothing of the build moves.
LEMMA BuildInvStable ==
    ASSUME BuildInv, UNCHANGED buildVars
    PROVE  BuildInv' /\ (UnreadableAsset' <=> UnreadableAsset)
           /\ (UnreadableModule' <=> UnreadableModule)
<1>1. UNCHANGED <<graph, opts, st, ledger, diags, built>>
  BY DEF buildVars
<1>2. (UnreadableAsset' <=> UnreadableAsset) /\ (UnreadableModule' <=> UnreadableModule)
  BY <1>1 DEF UnreadableAsset, UnreadableModule, Unreadable
<1>. QED BY <1>1, <1>2 DEF BuildInv, BuildTypes, Claims, Claimant, LedgerExact, Reserved, Claimed, Parsed,
              IsAsset, Told, Unread, LostModule, Unreadable, Outcome

\* Nothing of the asset stage moves.
LEMMA WorkingStable ==
    ASSUME Working, UNCHANGED <<stageVars, moments>>, tree.step # "idle" => built' = built
    PROVE  Working'
<1>1. UNCHANGED <<disk, budget, tree, out, moments>>
  BY DEF stageVars
<1>2. StageOK(tree, budget, out) /\ built' = built => StageOK(tree, budget, out)'
  BY <1>1 DEF StageOK, BudgetOK, Own, Largest
<1>. QED BY <1>1, <1>2 DEF Working, SawUnreadable

\* A build's steps leave its graph alone.
LEMMA BuildStepGraph ==
    ASSUME BuildStep
    PROVE  graph' = graph
BY DEF BuildStep, LoadStat, LoadAsset, LoadSource, ResolveProbe, ModuleParsed, TaskFails, TaskEnds,
       RetryLazyBarrel, RetryUnbound, Attempt, BuildFails, SingleChunkFails,
       Translate

\* Every step of a request is a step of the gate or leaves it alone.
LEMMA StepOfGate ==
    ASSUME scn \in Scenarios, [Next]_vars
    PROVE  [GateNext]_gateVars
<1>1. CASE Gate
  <2>1. Focus \in Callers
    BY FocusAssumption DEF Focus
  <2>2. ASSUME NEW c \in Callers,
               CallerStep(c) \/ WorkerStart(c) \/ Release(c) \/ Execute(c, TRUE)
                 \/ WorkerReturn(c, "ok") \/ WorkerReturn(c, "Panicked")
        PROVE  GateNext
    BY <2>2 DEF GateNext
  <2>. QED BY <1>1, <2>1, <2>2 DEF Gate
<1>2. CASE AfterBuild
  <2>1. scn.pool \in BOOLEAN
    BY WorldsAssumption
  <2>2. Focus \in Callers
    BY FocusAssumption DEF Focus
  <2>3. Execute(Focus, scn.pool) => GateNext
    BY <2>1, <2>2 DEF GateNext
  <2>. QED BY <1>2, <2>3 DEF AfterBuild, Measured, Unmeasured
<1>3. CASE Resolve \/ Build \/ EngineFails \/ AfterAssets \/ AssetWork \/ SumDocument \/ UNCHANGED vars
  BY <1>3 DEF Resolve, Build, EngineFails, AfterAssets, AssetWork, SumDocument, SumImports, SumGroup, SumSettles, vars
<1>. QED BY <1>1, <1>2, <1>3 DEF Next

\* What a step of the gate leaves of the focus's own call.
LEMMA GateOfFocus ==
    ASSUME GateInv, Answering, Gate
    PROVE  /\ call[Focus] \in {"idle", "answered"} =>
                call'[Focus] = call[Focus] /\ answer'[Focus] = answer[Focus]
           /\ call[Focus] # "idle" => call'[Focus] # "idle"
<1>1. Focus \in Callers
  BY FocusAssumption DEF Focus
<1>2. CASE \E c \in Callers : \/ CallerStep(c) \/ WorkerStart(c) \/ Release(c)
                              \/ \E outcome \in {"ok", "Panicked"} : WorkerReturn(c, outcome)
  BY <1>1, <1>2, GateMoves
<1>3. CASE \E c \in Callers \ {Focus} : Execute(c, TRUE)
  <2>1. PICK c \in Callers \ {Focus} : Execute(c, TRUE)
    BY <1>3
  <2>2. call \in [Callers -> CallStates] /\ answer \in [Callers -> Answers]
    BY DEF GateInv, GateTypeOK, CallStates, Answering
  <2>. QED BY <1>1, <2>1, <2>2 DEF Execute, Answer
<1>. QED BY <1>1, <1>2, <1>3 DEF Gate

\* One asset step: the stage goes on, and a moment leaves its mark.
LEMMA AssetWorkGoes ==
    ASSUME LedgerWorld, scn \in Scenarios, Working, AssetWork
    PROVE  /\ disk' = disk /\ StageOK(tree', budget', out')
           /\ moments' \subseteq moments \cup {"io", "compressor"}
           /\ "io" \in moments' => SawUnreadable(budget')
           /\ "compressor" \in moments' => out'.compression \/ budget'.limit \/ budget'.timedOut
<1>0. scn.faults \in BOOLEAN
  BY WorldsAssumption
<1>1. CASE BeginStage /\ UNCHANGED moments
  <2>1. tree.step = "idle"
    BY <1>1 DEF BeginStage
  <2>2. DOMAIN tree = TreeFields /\ DOMAIN out = OutFields /\ tree.open = {}
        /\ moments \cap {"io", "compressor"} = {}
    BY <2>1 DEF Working
  <2>. QED BY <1>1, <2>2, BeginStageGoes
<1>2. ASSUME StageOK(tree, budget, out), StageGoes(tree', budget', out'), disk' = disk,
             NEW kinds \in SUBSET {"io", "compressor"}, Moment(kinds),
             "io" \in kinds => SawUnreadable(budget'),
             "compressor" \in kinds => out'.compression \/ budget'.limit \/ budget'.timedOut
      PROVE  /\ disk' = disk /\ StageOK(tree', budget', out')
             /\ moments' \subseteq moments \cup {"io", "compressor"}
             /\ "io" \in moments' => SawUnreadable(budget')
             /\ "compressor" \in moments' => out'.compression \/ budget'.limit \/ budget'.timedOut
  <2>1. moments' = moments \cup kinds
    BY <1>2 DEF Moment
  <2>2. SawUnreadable(budget) => SawUnreadable(budget')
    BY <1>2 DEF StageGoes, Grows, SawUnreadable
  <2>3. out.compression \/ budget.limit \/ budget.timedOut
          => out'.compression \/ budget'.limit \/ budget'.timedOut
    BY <1>2 DEF StageGoes, Grows
  <2>. QED BY <1>2, <2>1, <2>2, <2>3 DEF Working, StageGoes
<1>3. UNCHANGED moments => Moment({})
  BY DEF Moment
<1>4. tree.step # "idle" => StageOK(tree, budget, out)
  BY DEF Working
<1>5. CASE EndReads(Late) /\ UNCHANGED moments
  <2>1. StageOK(tree, budget, out)
    BY <1>4, <1>5 DEF EndReads
  <2>. QED BY <1>2, <1>3, <1>5, <2>1, EndReadsGoes
<1>6. CASE EndBinaries(Late) /\ UNCHANGED moments
  <2>1. StageOK(tree, budget, out)
    BY <1>4, <1>6 DEF EndBinaries
  <2>. QED BY <1>2, <1>3, <1>6, <2>1, EndBinariesGoes
<1>7. ASSUME NEW f \in DOMAIN disk, NEW io \in {"ok", "absent", "unreadable"},
             BeginRead(f, Late, io), StatMoments(io)
      PROVE  /\ disk' = disk /\ StageOK(tree', budget', out')
             /\ moments' \subseteq moments \cup {"io", "compressor"}
             /\ "io" \in moments' => SawUnreadable(budget')
             /\ "compressor" \in moments' => out'.compression \/ budget'.limit \/ budget'.timedOut
  <2>1. StageOK(tree, budget, out)
    BY <1>4, <1>7 DEF BeginRead
  <2>2. PICK kinds \in {{"io"}, {}} : Moment(kinds) /\ (kinds = {"io"} => io = "unreadable")
    BY <1>7 DEF StatMoments
  <2>. QED BY <1>2, <1>7, <2>1, <2>2, BeginReadGoes
<1>8. ASSUME NEW f \in DOMAIN disk, FinishRead(f, Late),
             Moment(IF disk[f].io = "lost" THEN {"io"} ELSE {})
      PROVE  /\ disk' = disk /\ StageOK(tree', budget', out')
             /\ moments' \subseteq moments \cup {"io", "compressor"}
             /\ "io" \in moments' => SawUnreadable(budget')
             /\ "compressor" \in moments' => out'.compression \/ budget'.limit \/ budget'.timedOut
  <2>1. StageOK(tree, budget, out)
    BY <1>4, <1>8 DEF FinishRead, Working
  <2>2. PICK kinds \in {{"io"}, {}} : Moment(kinds) /\ (kinds = {"io"} => disk[f].io = "lost")
    BY <1>8
  <2>. QED BY <1>2, <1>8, <2>1, <2>2, FinishReadGoes
<1>9. ASSUME NEW io \in {"ok", "absent", "unreadable"}, CollectReference(Late, io), StatMoments(io)
      PROVE  /\ disk' = disk /\ StageOK(tree', budget', out')
             /\ moments' \subseteq moments \cup {"io", "compressor"}
             /\ "io" \in moments' => SawUnreadable(budget')
             /\ "compressor" \in moments' => out'.compression \/ budget'.limit \/ budget'.timedOut
  <2>1. StageOK(tree, budget, out)
    BY <1>4, <1>9 DEF CollectReference
  <2>2. PICK kinds \in {{"io"}, {}} : Moment(kinds) /\ (kinds = {"io"} => io = "unreadable")
    BY <1>9 DEF StatMoments
  <2>. QED BY <1>2, <1>9, <2>1, <2>2, CollectGoes
<1>10. ASSUME NEW ok \in BOOLEAN, CompressBundle(Late, ok) \/ CompressBinary(Late, ok),
              CompressorMoments(ok)
      PROVE  /\ disk' = disk /\ StageOK(tree', budget', out')
             /\ moments' \subseteq moments \cup {"io", "compressor"}
             /\ "io" \in moments' => SawUnreadable(budget')
             /\ "compressor" \in moments' => out'.compression \/ budget'.limit \/ budget'.timedOut
  <2>1. StageOK(tree, budget, out)
    BY <1>4, <1>10 DEF CompressBundle, CompressBinary
  <2>2. PICK kinds \in {{"compressor"}, {}} : Moment(kinds) /\ (kinds = {"compressor"} => ~ok)
    BY <1>10 DEF CompressorMoments
  <2>3. /\ StageGoes(tree', budget', out') /\ disk' = disk
        /\ ~ok => out'.compression \/ budget'.limit \/ budget'.timedOut
    BY <1>10, <2>1, CompressBundleGoes, CompressBinaryGoes
  <2>. QED BY <1>2, <2>1, <2>2, <2>3
<1>. QED BY <1>0, <1>1, <1>5, <1>6, <1>7, <1>8, <1>9, <1>10 DEF AssetWork

\* Which results may say that a package has no code.
LEMMA OwnResults ==
    ASSUME NEW p
    PROVE  /\ \A a \in resolve_package_entry(p) :
                ~a.ok => OwnResult(p, unresolved_import_result(p, a.message))
           /\ \A stages : OwnResult(p, [size |-> NoSize, stages |-> stages])
           /\ \A size, stages : stages \cap {"types_only", "native_binary_only"} = {}
                => OwnResult(p, [size |-> size, stages |-> stages])
BY DEF OwnResult, is_types_only, is_native_binary_only

\* The facts an asset step starts from.
LEMMA JobWorld ==
    ASSUME MeasureInv, work[Focus] = "running" \/ call[Focus] # "idle"
    PROVE  LedgerWorld /\ built.state = "ok" /\ phase \notin {"resolve", "build"} /\ call[Focus] # "idle"
<1>1. Focus \in Callers
  BY FocusAssumption DEF Focus
<1>2. call[Focus] # "idle"
  BY <1>1 DEF MeasureInv, GateInv, PastGate
<1>3. built.state = "ok" /\ phase \notin {"resolve", "build"}
  BY <1>2 DEF MeasureInv, JobOfBuild
<1>4. built.graph_source_bytes \in Int
  <2>1. built # Building /\ built.state # "failed"
    BY <1>3 DEF Building
  <2>. QED BY <2>1 DEF MeasureInv, BuildInv, Outcome
<1>5. IsDisk(disk)
  BY WorldsAssumption DEF MeasureInv, World
<1>. QED BY <1>2, <1>3, <1>4, <1>5 DEF LedgerWorld

\* The gate's own invariants hold whatever the request does.
LEMMA GateInRequest ==
    ASSUME MeasureInv, [Next]_vars
    PROVE  GateInv' /\ Answering'
<1>1. [GateNext]_gateVars
  BY StepOfGate DEF MeasureInv, World
<1>. QED BY <1>1, GateStep, AnsweringStep DEF MeasureInv

\* Before the assets there is no call, no job and nothing has gone wrong.
LEMMA FocusIdle ==
    ASSUME MeasureInv, phase \in {"resolve", "build"}
    PROVE  /\ call[Focus] = "idle" /\ answer[Focus] = "none" /\ tree.step = "idle" /\ moments = {}
           /\ Focus \in Callers
<1>1. Focus \in Callers
  BY FocusAssumption DEF Focus
<1>. QED BY <1>1 DEF MeasureInv, JobOfBuild, Answering

\* Resolve keeps the invariant.
LEMMA ResolveKeeps ==
    ASSUME MeasureInv, Resolve
    PROVE  MeasureInv'
<1>1. /\ UNCHANGED buildVars /\ UNCHANGED stageVars /\ UNCHANGED gateVars /\ phase = "resolve"
      /\ scn' = scn /\ phase' \in {"measured", "build"}
      /\ phase' = "build" => moments' = moments
  BY DEF Resolve, Answered, Unmeasured, Moment
<1>2. /\ call[Focus] = "idle" /\ answer[Focus] = "none" /\ tree.step = "idle" /\ moments = {}
  BY <1>1, FocusIdle
<1>3. BuildInv' /\ (UnreadableAsset' <=> UnreadableAsset)
      /\ (UnreadableModule' <=> UnreadableModule)
  BY <1>1, BuildInvStable DEF MeasureInv
<1>4. GateInv' /\ Answering'
  BY GateInRequest DEF Next
<1>5. moments' \subseteq {"stat", "manifest"}
  BY <1>2 DEF Resolve, Moment, Unmeasured, Answered
<1>6. call' = call /\ answer' = answer /\ tree' = tree /\ budget' = budget /\ out' = out
      /\ disk' = disk /\ graph' = graph /\ st' = st /\ built' = built
  BY <1>1 DEF gateVars, stageVars, buildVars
<1>7. World'
  BY <1>1, <1>6 DEF MeasureInv, World, Phases
<1>8. JobOfBuild'
  BY <1>1, <1>2, <1>6 DEF JobOfBuild, Done
<1>9. Working'
  BY <1>2, <1>5, <1>6 DEF MeasureInv, Working
<1>10. ~UnreadableAsset /\ ~UnreadableModule
  BY <1>1 DEF MeasureInv, JobOfBuild, UnreadableAsset, UnreadableModule
<1>11. ASSUME phase' = "measured"
       PROVE  /\ OwnResult(scn.pkg, result')
              /\ \/ ~is_durable(result')
                 \/ moments' \subseteq IF "package_manifest" \in result'.stages THEN {"manifest"}
                                       ELSE {}
  <2> DEFINE lost == find_package_root(scn.pkg) /\ scn.pkg.manifest = "unreadable"
  <2>1. CASE \E a \in resolve_package_entry(scn.pkg) :
               /\ ~a.ok /\ result' = unresolved_import_result(scn.pkg, a.message)
               /\ moments' = moments \cup (IF lost THEN {"manifest"} ELSE {})
    <3>1. PICK a \in resolve_package_entry(scn.pkg) :
               /\ ~a.ok /\ result' = unresolved_import_result(scn.pkg, a.message)
               /\ moments' = moments \cup (IF lost THEN {"manifest"} ELSE {})
      BY <2>1
    <3>2. OwnResult(scn.pkg, result')
      BY <3>1, OwnResults
    <3>3. lost => "package_manifest" \in result'.stages
      <4> HAVE lost
      <4>1. a = Unresolved("bad manifest")
        BY DEF resolve_package_entry, ManifestError, find_package_root, None
      <4>2. a.message = "bad manifest"
        BY <4>1 DEF Unresolved
      <4>. QED BY <3>1, <4>2 DEF unresolved_import_result, UnresolvedStage
    <3>. QED BY <1>2, <3>1, <3>2, <3>3
  <2>2. CASE result' = [size |-> NoSize, stages |-> {"entry_metadata"}]
    BY <2>2, OwnResults DEF is_durable, DURABLE_RESULT_STAGES
  <2>3. CASE result' = [size |-> NoSize, stages |-> {"oversized_entry"}] /\ moments' = moments
    BY <1>2, <2>3, OwnResults
  <2>. QED BY <1>11, <2>1, <2>2, <2>3 DEF Resolve, Answered, Unmeasured, Moment
<1>12. ResultSettled'
  <2>1. Spoiled' \/ phase' # "measured"
    BY <1>3, <1>10, <1>11 DEF Spoiled, Passing, TakenForFacts
  <2>. QED BY <1>1, <1>2, <1>6, <1>11, <2>1 DEF ResultSettled, Done
<1>. QED BY <1>3, <1>4, <1>7, <1>8, <1>9, <1>12 DEF MeasureInv

\* A step of the build keeps the invariant.
LEMMA BuildKeeps ==
    ASSUME MeasureInv, Build
    PROVE  MeasureInv'
<1>1. /\ phase = "build" /\ BuildStep /\ UNCHANGED stageVars /\ UNCHANGED gateVars
      /\ UNCHANGED requestVars
  BY DEF Build
<1>2. /\ call[Focus] = "idle" /\ tree.step = "idle" /\ moments = {}
  BY <1>1, FocusIdle
<1>3. BuildInv' /\ graph' = graph
  BY <1>1, BuildStepKeeps, BuildStepGraph DEF MeasureInv
<1>4. GateInv' /\ Answering'
  BY GateInRequest DEF Next
<1>5. call' = call /\ tree' = tree /\ disk' = disk /\ scn' = scn /\ phase' = phase /\ moments' = moments
  BY <1>1 DEF gateVars, stageVars, requestVars
<1>6. World'
  BY <1>3, <1>5 DEF MeasureInv, World
<1>7. JobOfBuild' /\ ResultSettled'
  BY <1>1, <1>2, <1>5 DEF JobOfBuild, ResultSettled, Done
<1>8. Working'
  BY <1>1, <1>2, <1>5, WorkingStable DEF MeasureInv
<1>. QED BY <1>3, <1>4, <1>6, <1>7, <1>8 DEF MeasureInv

\* A result made of a build that worked.
LEMMA MeasuredOwn ==
    ASSUME MeasureInv, built.state = "ok", NEW bytes, NEW stages,
           stages \cap {"types_only", "native_binary_only"} = {}, Measured(bytes, stages)
    PROVE  /\ OwnResult(scn.pkg, result') /\ scn' = scn /\ phase' = "measured"
           /\ built.stages \cup stages \subseteq result'.stages
           /\ ~is_durable(result') \/ moments' = moments
           /\ moments' \subseteq moments \cup TRANSIENT_ANALYSIS_STAGES
<1> DEFINE all == built.stages \cup stages \cup (IF scn.compare = "ok" THEN {} ELSE {scn.compare})
                    \cup (IF scn.pkg.native THEN {"native_binary"} ELSE {})
<1>1. /\ result' = [size |-> built.code + bytes, stages |-> all] /\ scn' = scn /\ phase' = "measured"
      /\ moments' = moments \cup ({scn.compare} \cap TRANSIENT_ANALYSIS_STAGES)
  BY DEF Measured, Answered, Moment
<1>2. built.stages \cap {"types_only", "native_binary_only"} = {}
  <2>1. built # Building /\ built.state # "failed"
    BY DEF Building
  <2>. QED BY <2>1 DEF MeasureInv, BuildInv, Outcome
<1>3. scn.compare \notin {"types_only", "native_binary_only"}
  BY WorldsAssumption DEF MeasureInv, World
<1>4. all \cap {"types_only", "native_binary_only"} = {}
  BY <1>2, <1>3
<1>5. scn.compare \in TRANSIENT_ANALYSIS_STAGES => scn.compare \in all \ DURABLE_RESULT_STAGES
  BY DEF TRANSIENT_ANALYSIS_STAGES, DURABLE_RESULT_STAGES
<1>6. OwnResult(scn.pkg, result')
  <2> HIDE DEF all
  <2>. QED BY <1>1, <1>4, OwnResults
<1>7. ~is_durable(result') \/ moments' = moments
  <2> HIDE DEF all
  <2>. QED BY <1>1, <1>5 DEF is_durable
<1>. QED BY <1>1, <1>6, <1>7

\* So does the answer that is made of the build alone, and the call for the assets,
LEMMA AfterBuildKeeps ==
    ASSUME MeasureInv, AfterBuild
    PROVE  MeasureInv'
<1>1. /\ phase = "build" /\ UNCHANGED buildVars /\ UNCHANGED stageVars /\ built # Building
  BY DEF AfterBuild
<1>2. /\ call[Focus] = "idle" /\ answer[Focus] = "none" /\ tree.step = "idle" /\ moments = {}
      /\ Focus \in Callers
  BY <1>1, FocusIdle
<1>3. BuildInv' /\ (UnreadableAsset' <=> UnreadableAsset)
      /\ (UnreadableModule' <=> UnreadableModule)
  BY <1>1, BuildInvStable DEF MeasureInv
<1>4. GateInv' /\ Answering'
  BY GateInRequest DEF Next
<1>6. tree' = tree /\ budget' = budget /\ out' = out
      /\ disk' = disk /\ graph' = graph /\ st' = st /\ built' = built
  BY <1>1 DEF stageVars, buildVars
<1>7. ASSUME scn' = scn, phase' = "measured", UNCHANGED gateVars,
             moments' \subseteq {"compression"} \cup TRANSIENT_ANALYSIS_STAGES,
             OwnResult(scn.pkg, result'),
             \/ ~is_durable(result') \/ result'.stages \cap {"module_graph_limit", "minify"} # {}
             \/ moments' = {} /\ ~UnreadableAsset /\ (UnreadableModule => "resolve" \in result'.stages)
      PROVE  MeasureInv'
  <2>1. call' = call /\ answer' = answer
    BY <1>7 DEF gateVars
  <2>2. World'
    BY <1>6, <1>7 DEF MeasureInv, World, Phases
  <2>3. JobOfBuild'
    BY <1>2, <1>6, <1>7, <2>1 DEF JobOfBuild, Done
  <2>4. Working'
    BY <1>2, <1>6, <1>7 DEF MeasureInv, Working, TRANSIENT_ANALYSIS_STAGES
  <2>5. Spoiled'
    BY <1>3, <1>7 DEF Spoiled, Passing, TakenForFacts
  <2>6. ResultSettled'
    BY <1>2, <1>7, <2>1, <2>5 DEF ResultSettled
  <2>. QED BY <1>3, <1>4, <2>2, <2>3, <2>4, <2>6 DEF MeasureInv
<1>8. CASE /\ built.state = "failed" /\ Unmeasured(built.stage) /\ UNCHANGED <<gateVars, moments>>
  <2>1. result' = [size |-> NoSize, stages |-> {built.stage}] /\ scn' = scn /\ phase' = "measured"
    BY <1>8 DEF Unmeasured, Answered
  <2>2. /\ UnreadableAsset => built.stage \in {"module_graph_limit", "asset_io"}
        /\ UnreadableModule => built.stage \in {"module_graph_limit", "asset_io", "resolve"}
    BY <1>1, <1>8 DEF MeasureInv, BuildInv, Outcome
  <2>3. \/ ~is_durable(result') \/ result'.stages \cap {"module_graph_limit", "minify"} # {}
        \/ ~UnreadableAsset /\ (UnreadableModule => "resolve" \in result'.stages)
    BY <2>1, <2>2 DEF is_durable, DURABLE_RESULT_STAGES
  <2>4. OwnResult(scn.pkg, result')
    BY <2>1, OwnResults
  <2>. QED BY <1>2, <1>7, <1>8, <2>1, <2>3, <2>4
<1>9. CASE /\ built.state = "ok" /\ scn.tail # "ok" /\ Unmeasured(scn.tail)
           /\ Moment({scn.tail} \cap {"compression"}) /\ UNCHANGED gateVars
  <2>1. result' = [size |-> NoSize, stages |-> {scn.tail}] /\ scn' = scn /\ phase' = "measured"
        /\ moments' \subseteq {"compression"}
    BY <1>2, <1>9 DEF Unmeasured, Answered, Moment
  <2>2. scn.tail \in {"minify", "compression"}
    BY <1>9, WorldsAssumption DEF MeasureInv, World
  <2>3. ~is_durable(result') \/ result'.stages \cap {"module_graph_limit", "minify"} # {}
    BY <2>1, <2>2 DEF is_durable, DURABLE_RESULT_STAGES
  <2>4. OwnResult(scn.pkg, result')
    BY <2>1, OwnResults
  <2>. QED BY <1>7, <1>9, <2>1, <2>3, <2>4
<1>10. CASE built.state = "ok" /\ Measured(0, {}) /\ UNCHANGED gateVars
  <2>1. /\ OwnResult(scn.pkg, result') /\ scn' = scn /\ phase' = "measured"
        /\ built.stages \cup {} \subseteq result'.stages
        /\ ~is_durable(result') \/ moments' = moments
        /\ moments' \subseteq moments \cup TRANSIENT_ANALYSIS_STAGES
    BY <1>10, MeasuredOwn
  <2>2. (UnreadableAsset => "asset_io" \in built.stages) /\ ~UnreadableModule
    <3>1. built.state # "failed"
      BY <1>10
    <3>. QED BY <1>1, <3>1 DEF MeasureInv, BuildInv, Outcome
  <2>3. UnreadableAsset => ~is_durable(result')
    BY <2>1, <2>2 DEF is_durable, DURABLE_RESULT_STAGES
  <2>. QED BY <1>2, <1>7, <1>10, <2>1, <2>2, <2>3
<1>11. CASE /\ built.state = "ok" /\ phase' = "assets" /\ Execute(Focus, scn.pool)
            /\ UNCHANGED <<scn, result, total, moments>>
  <2>1. World'
    BY <1>6, <1>11 DEF MeasureInv, World, Phases
  <2>2. JobOfBuild' /\ ResultSettled'
    BY <1>2, <1>6, <1>11 DEF JobOfBuild, Done, ResultSettled
  <2>3. Working'
    BY <1>2, <1>6, <1>11 DEF MeasureInv, Working
  <2>. QED BY <1>3, <1>4, <2>1, <2>2, <2>3 DEF MeasureInv
<1>. QED BY <1>8, <1>9, <1>10, <1>11 DEF AfterBuild

\* the answer of a boundary that gave the build up,
LEMMA EngineFailsKeeps ==
    ASSUME MeasureInv, EngineFails
    PROVE  MeasureInv'
<1>1. /\ phase = "build" /\ UNCHANGED buildVars /\ UNCHANGED stageVars /\ UNCHANGED gateVars
      /\ Moment({"engine"}) /\ \E stage \in scn.engine : Unmeasured(stage)
  BY DEF EngineFails
<1>2. /\ call[Focus] = "idle" /\ answer[Focus] = "none" /\ tree.step = "idle" /\ moments = {}
  BY <1>1, FocusIdle
<1>3. BuildInv' /\ GateInv' /\ Answering'
  BY <1>1, BuildInvStable, GateInRequest DEF MeasureInv, Next
<1>4. call' = call /\ answer' = answer /\ tree' = tree /\ budget' = budget /\ out' = out
      /\ disk' = disk /\ graph' = graph /\ st' = st /\ built' = built
  BY <1>1 DEF gateVars, stageVars, buildVars
<1>5. PICK stage \in scn.engine :
        /\ result' = [size |-> NoSize, stages |-> {stage}] /\ phase' = "measured" /\ scn' = scn
        /\ moments' = {"engine"}
  BY <1>1, <1>2 DEF Unmeasured, Answered, Moment
<1>6. stage \in {"panic", "timeout", "engine_gone"}
  BY WorldsAssumption DEF MeasureInv, World
<1>7. ~is_durable(result')
  BY <1>5, <1>6 DEF is_durable, DURABLE_RESULT_STAGES
<1>8. OwnResult(scn.pkg, result')
  BY <1>5, OwnResults
<1>9. World' /\ JobOfBuild'
  BY <1>2, <1>4, <1>5 DEF MeasureInv, World, Phases, JobOfBuild, Done
<1>10. Working'
  BY <1>2, <1>4, <1>5 DEF MeasureInv, Working
<1>11. ResultSettled'
  BY <1>2, <1>4, <1>5, <1>7, <1>8 DEF ResultSettled, Spoiled
<1>. QED BY <1>3, <1>9, <1>10, <1>11 DEF MeasureInv

\* What process_assets returns says what went wrong on the way.
LEMMA AssetStagesTell ==
    ASSUME Working, process_assets.failed = NoError
    PROVE  /\ process_assets.stages \cap {"types_only", "native_binary_only"} = {}
           /\ "io" \in moments => "asset_io" \in process_assets.stages
           /\ "compressor" \in moments => budget.limit \/ "compression" \in process_assets.stages
<1> DEFINE o == IF failure(budget) = NoError THEN out ELSE disclose_budget_breach
<1>1. failure(budget) # "timeout"
  BY DEF process_assets, NoError
<1>2. process_assets.stages = asset_diagnostics(o, budget)
  BY <1>1 DEF process_assets
<1> HIDE DEF o
<1>3. process_assets.stages \cap {"types_only", "native_binary_only"} = {}
  BY <1>2 DEF asset_diagnostics
<1>4. "io" \in moments => "asset_io" \in process_assets.stages
  BY <1>2 DEF asset_diagnostics, Working, SawUnreadable
<1>5. ASSUME "compressor" \in moments, ~budget.limit
      PROVE  "compression" \in process_assets.stages
  <2>1. ~budget.timedOut
    BY <1>1, <1>5 DEF failure
  <2>2. out.compression
    BY <1>5, <2>1 DEF Working
  <2>3. o = out
    BY <1>5, <2>1 DEF failure, o
  <2>. QED BY <1>2, <2>2, <2>3 DEF asset_diagnostics
<1>. QED BY <1>3, <1>4, <1>5

\* the answer once the assets are back,
LEMMA AfterAssetsKeeps ==
    ASSUME MeasureInv, AfterAssets
    PROVE  MeasureInv'
<1>1. /\ phase = "assets" /\ call[Focus] = "answered"
      /\ UNCHANGED buildVars /\ UNCHANGED stageVars /\ UNCHANGED gateVars
  BY DEF AfterAssets
<1>2. BuildInv' /\ (UnreadableAsset' <=> UnreadableAsset)
      /\ (UnreadableModule' <=> UnreadableModule)
  BY <1>1, BuildInvStable DEF MeasureInv
<1>3. GateInv' /\ Answering'
  BY GateInRequest DEF Next
<1>4. tree' = tree /\ budget' = budget /\ out' = out /\ call' = call /\ answer' = answer
      /\ disk' = disk /\ graph' = graph /\ st' = st /\ built' = built
  BY <1>1 DEF stageVars, buildVars, gateVars
<1>5. /\ Focus \in Callers /\ answer[Focus] \in Answers \ {"none"} /\ built.state = "ok"
      /\ built # Building
  <2>1. Focus \in Callers
    BY FocusAssumption DEF Focus
  <2>. QED BY <1>1, <2>1 DEF MeasureInv, Answering, JobOfBuild, Building
<1>6. moments \subseteq {"io", "compressor"}
  BY <1>1 DEF MeasureInv, JobOfBuild
<1>7. ASSUME scn' = scn, phase' = "measured", OwnResult(scn.pkg, result'),
             NEW kinds, moments' = moments \cup kinds, kinds \cap {"io", "compressor"} = {},
             answer[Focus] # "ok" => ~is_durable(result'),
             \/ ~is_durable(result')
             \/ /\ moments' \subseteq (IF budget.limit THEN {"compressor"} ELSE {})
                /\ ~UnreadableAsset /\ ~UnreadableModule
      PROVE  MeasureInv'
  <2>1. World'
    BY <1>4, <1>7 DEF MeasureInv, World, Phases
  <2>2. JobOfBuild'
    BY <1>1, <1>4, <1>5, <1>7 DEF MeasureInv, JobOfBuild, Done
  <2>3. StageOK(tree, budget, out) => StageOK(tree, budget, out)'
    BY <1>4 DEF StageOK, BudgetOK, Own, Largest
  <2>4. Working'
    BY <1>4, <1>7, <2>3 DEF MeasureInv, Working, SawUnreadable
  <2>5. Spoiled'
    BY <1>2, <1>4, <1>7 DEF Spoiled, Passing, TakenForFacts
  <2>6. ResultSettled'
    BY <1>4, <1>7, <2>5 DEF ResultSettled
  <2>. QED BY <1>2, <1>3, <2>1, <2>2, <2>4, <2>6 DEF MeasureInv
<1>8. ASSUME NEW stage, stage \notin DURABLE_RESULT_STAGES, Unmeasured(stage), Moment({"gate"})
      PROVE  MeasureInv'
  <2>1. result' = [size |-> NoSize, stages |-> {stage}] /\ scn' = scn /\ phase' = "measured"
        /\ moments' = moments \cup {"gate"}
    BY <1>8 DEF Unmeasured, Answered, Moment
  <2>2. ~is_durable(result')
    BY <1>8, <2>1 DEF is_durable
  <2>3. OwnResult(scn.pkg, result')
    BY <2>1, OwnResults
  <2>. QED BY <1>7, <2>1, <2>2, <2>3
<1>9. CASE answer[Focus] # "ok" /\ Unmeasured(boundary_failure(answer[Focus])) /\ Moment({"gate"})
  <2>1. boundary_failure(answer[Focus]) \in {"timeout", "panic", "engine_gone"}
    <3>1. answer[Focus] \in {"Panicked", "AdmissionFailed", "AdmissionTimedOut", "ExecutionTimedOut"}
      BY <1>5, <1>9 DEF Answers
    <3>. QED BY <3>1 DEF boundary_failure
  <2>2. boundary_failure(answer[Focus]) \notin DURABLE_RESULT_STAGES
    BY <2>1 DEF DURABLE_RESULT_STAGES
  <2>. QED BY <1>8, <1>9, <2>2
<1>10. CASE process_assets.failed # NoError /\ Unmeasured(process_assets.failed) /\ Moment({"gate"})
  <2>1. process_assets.failed = "timeout"
    BY <1>10 DEF process_assets
  <2>. QED BY <1>8, <1>10, <2>1 DEF DURABLE_RESULT_STAGES
<1>11. CASE /\ answer[Focus] = "ok" /\ process_assets.failed = NoError
            /\ Measured(process_assets.size, process_assets.stages)
  <2> DEFINE stages == process_assets.stages
  <2>1. /\ stages \cap {"types_only", "native_binary_only"} = {}
        /\ "io" \in moments => "asset_io" \in stages
        /\ "compressor" \in moments => budget.limit \/ "compression" \in stages
    BY <1>11, AssetStagesTell DEF MeasureInv
  <2>2. Measured(process_assets.size, stages)
    BY <1>11
  <2> HIDE DEF stages
  <2>3. /\ OwnResult(scn.pkg, result') /\ scn' = scn /\ phase' = "measured"
        /\ built.stages \cup stages \subseteq result'.stages
        /\ ~is_durable(result') \/ moments' = moments
    BY <1>5, <2>1, <2>2, MeasuredOwn
  <2>4. moments' = moments \cup ({scn.compare} \cap TRANSIENT_ANALYSIS_STAGES)
    BY <2>2 DEF Measured, Moment
  <2>5. (UnreadableAsset => "asset_io" \in built.stages) /\ ~UnreadableModule
    <3>1. built.state # "failed"
      BY <1>5
    <3>. QED BY <1>5, <3>1 DEF MeasureInv, BuildInv, Outcome
  <2>6. "asset_io" \in result'.stages \/ "compression" \in result'.stages => ~is_durable(result')
    BY DEF is_durable, DURABLE_RESULT_STAGES
  <2>7. \/ ~is_durable(result')
        \/ /\ moments' \subseteq (IF budget.limit THEN {"compressor"} ELSE {})
           /\ ~UnreadableAsset /\ ~UnreadableModule
    BY <1>6, <2>1, <2>3, <2>5, <2>6
  <2>8. ({scn.compare} \cap TRANSIENT_ANALYSIS_STAGES) \cap {"io", "compressor"} = {}
    BY DEF TRANSIENT_ANALYSIS_STAGES
  <2>. QED BY <1>7, <1>11, <2>3, <2>4, <2>5, <2>7, <2>8
<1>. QED BY <1>9, <1>10, <1>11 DEF AfterAssets

\* a step of the asset job, which may run on after its caller was answered,
LEMMA AssetWorkKeeps ==
    ASSUME MeasureInv, AssetWork
    PROVE  MeasureInv'
<1>1. /\ work[Focus] = "running" /\ UNCHANGED buildVars /\ UNCHANGED gateVars
      /\ UNCHANGED <<scn, phase, result, total>>
  BY DEF AssetWork
<1>2. LedgerWorld /\ built.state = "ok" /\ phase \notin {"resolve", "build"} /\ call[Focus] # "idle"
  BY <1>1, JobWorld
<1>3. /\ disk' = disk /\ StageOK(tree', budget', out')
      /\ moments' \subseteq moments \cup {"io", "compressor"}
      /\ "io" \in moments' => SawUnreadable(budget')
      /\ "compressor" \in moments' => out'.compression \/ budget'.limit \/ budget'.timedOut
  BY <1>2, AssetWorkGoes DEF MeasureInv, World
<1>4. BuildInv'
  BY <1>1, BuildInvStable DEF MeasureInv
<1>5. GateInv' /\ Answering'
  BY GateInRequest DEF Next
<1>6. call' = call /\ answer' = answer /\ graph' = graph /\ st' = st /\ built' = built
  BY <1>1 DEF gateVars, buildVars
<1>7. World'
  BY <1>1, <1>3, <1>6 DEF MeasureInv, World
<1>8. JobOfBuild'
  BY <1>1, <1>2, <1>3, <1>6 DEF MeasureInv, JobOfBuild, Done
<1>9. StageOK(tree', budget', out') => StageOK(tree, budget, out)'
  BY <1>3, <1>6 DEF StageOK, BudgetOK, Own, Largest
<1>10. Working'
  <2>1. tree'.step # "idle" /\ DOMAIN tree' = TreeFields /\ DOMAIN out' = OutFields
    BY <1>3 DEF StageOK
  <2>. QED BY <1>3, <1>9, <2>1 DEF Working, SawUnreadable
<1>11. Done => ~is_durable(result)
  <2>1. Focus \in Callers
    BY FocusAssumption DEF Focus
  <2>2. answer[Focus] # "ok"
    BY <1>1, <2>1 DEF MeasureInv, Answering
  <2>3. Done => answer[Focus] # "none"
    BY <1>2, <2>1 DEF MeasureInv, JobOfBuild, Answering
  <2>. QED BY <2>2, <2>3 DEF MeasureInv, ResultSettled
<1>12. ResultSettled'
  BY <1>1, <1>6, <1>11 DEF MeasureInv, ResultSettled, Done, Spoiled
<1>. QED BY <1>4, <1>5, <1>7, <1>8, <1>10, <1>12 DEF MeasureInv

\* a step of the gate,
LEMMA GateKeeps ==
    ASSUME MeasureInv, Gate
    PROVE  MeasureInv'
<1>1. UNCHANGED buildVars /\ UNCHANGED stageVars /\ UNCHANGED requestVars
  BY DEF Gate
<1>2. BuildInv' /\ (UnreadableAsset' <=> UnreadableAsset)
      /\ (UnreadableModule' <=> UnreadableModule)
  BY <1>1, BuildInvStable DEF MeasureInv
<1>3. GateInv' /\ Answering'
  BY GateInRequest DEF Next
<1>4. /\ call[Focus] \in {"idle", "answered"} =>
            call'[Focus] = call[Focus] /\ answer'[Focus] = answer[Focus]
      /\ call[Focus] # "idle" => call'[Focus] # "idle"
  BY GateOfFocus DEF MeasureInv
<1>5. /\ tree' = tree /\ budget' = budget /\ out' = out /\ disk' = disk /\ graph' = graph /\ st' = st
      /\ built' = built /\ scn' = scn /\ phase' = phase /\ result' = result /\ moments' = moments
  BY <1>1 DEF stageVars, buildVars, requestVars
<1>6. World'
  BY <1>5 DEF MeasureInv, World
<1>7. JobOfBuild'
  BY <1>4, <1>5 DEF MeasureInv, JobOfBuild, Done
<1>8. Working'
  BY <1>1, <1>5, WorkingStable DEF MeasureInv
<1>9. ResultSettled'
  <2>1. Spoiled => Spoiled'
    BY <1>2, <1>5 DEF Spoiled, Passing, TakenForFacts
  <2>. QED BY <1>4, <1>5, <2>1 DEF MeasureInv, ResultSettled, JobOfBuild, Done
<1>. QED BY <1>2, <1>3, <1>6, <1>7, <1>8, <1>9 DEF MeasureInv

\* and a step of the document's total.
LEMMA SumKeeps ==
    ASSUME MeasureInv, SumDocument
    PROVE  MeasureInv'
<1>1. /\ UNCHANGED buildVars /\ UNCHANGED stageVars /\ UNCHANGED gateVars
      /\ UNCHANGED <<scn, result, moments>>
      /\ phase \in {"measured", "Component", "Server", "settle"}
      /\ phase' \in {"Component", "Server", "settle", "summed"}
  BY DEF SumDocument, SumImports, SumGroup, SumSettles
<1>2. BuildInv' /\ (UnreadableAsset' <=> UnreadableAsset)
      /\ (UnreadableModule' <=> UnreadableModule)
  BY <1>1, BuildInvStable DEF MeasureInv
<1>3. GateInv' /\ Answering'
  BY GateInRequest DEF Next
<1>5. /\ tree' = tree /\ budget' = budget /\ out' = out /\ disk' = disk /\ graph' = graph /\ st' = st
      /\ built' = built /\ call' = call /\ answer' = answer
  BY <1>1 DEF stageVars, buildVars, gateVars
<1>6. World'
  BY <1>1, <1>5 DEF MeasureInv, World, Phases
<1>7. JobOfBuild'
  BY <1>1, <1>5 DEF MeasureInv, JobOfBuild, Done
<1>8. Working'
  BY <1>1, <1>5, WorkingStable DEF MeasureInv
<1>9. ResultSettled'
  <2>1. Spoiled => Spoiled'
    BY <1>1, <1>2, <1>5 DEF Spoiled, Passing, TakenForFacts
  <2>. QED BY <1>1, <1>5, <2>1 DEF MeasureInv, ResultSettled, Done
<1>. QED BY <1>2, <1>3, <1>6, <1>7, <1>8, <1>9 DEF MeasureInv

\* The invariant holds at first.
LEMMA MeasureStarts == Init => MeasureInv
<1> SUFFICES ASSUME Init PROVE MeasureInv
  OBVIOUS
<1>1. PICK s \in Scenarios :
        /\ scn = s /\ phase = "resolve" /\ moments = {} /\ BuildInit(s.graph) /\ StageInit(s.disk)
        /\ GateInit
  BY DEF Init
<1>2. IsGraph(s.graph)
  BY WorldsAssumption
<1>3. BuildInv /\ GateInv /\ Answering
  BY <1>1, <1>2, BuildStarts, GateStarts, AnsweringStarts
<1>4. World
  BY <1>1 DEF World, Phases, BuildInit, StageInit
<1>5. /\ DOMAIN tree = TreeFields /\ DOMAIN out = OutFields /\ tree.step = "idle" /\ tree.open = {}
  BY <1>1 DEF StageInit, AttemptAt, TreeFields, OutFields, NothingProcessed
<1>6. Focus \in Callers
  BY FocusAssumption DEF Focus
<1>7. JobOfBuild
  BY <1>1, <1>5, <1>6 DEF JobOfBuild, Done, BuildInit, GateInit
<1>8. Working /\ ResultSettled
  BY <1>1, <1>5 DEF Working, ResultSettled, Done
<1>. QED BY <1>3, <1>4, <1>7, <1>8 DEF MeasureInv

\* Every step of the request keeps it.
LEMMA MeasureStep == MeasureInv /\ [Next]_vars => MeasureInv'
<1> SUFFICES ASSUME MeasureInv, [Next]_vars PROVE MeasureInv'
  OBVIOUS
<1>1. CASE UNCHANGED vars
  <2>1. /\ UNCHANGED buildVars /\ UNCHANGED stageVars /\ UNCHANGED gateVars
        /\ UNCHANGED <<scn, result, moments, phase>>
    BY <1>1 DEF vars
  <2>2. BuildInv' /\ (UnreadableAsset' <=> UnreadableAsset)
        /\ (UnreadableModule' <=> UnreadableModule)
    BY <2>1, BuildInvStable DEF MeasureInv
  <2>3. GateInv' /\ Answering'
    BY GateInRequest
  <2>4. /\ tree' = tree /\ budget' = budget /\ out' = out /\ disk' = disk /\ graph' = graph /\ st' = st
        /\ built' = built /\ call' = call /\ answer' = answer
    BY <2>1 DEF stageVars, buildVars, gateVars
  <2>5. World' /\ JobOfBuild'
    BY <2>1, <2>4 DEF MeasureInv, World, JobOfBuild, Done
  <2>6. Working'
    BY <2>1, <2>4, WorkingStable DEF MeasureInv
  <2>7. ResultSettled'
    <3>1. Spoiled => Spoiled'
      BY <2>1, <2>2, <2>4 DEF Spoiled, Passing, TakenForFacts
    <3>. QED BY <2>1, <2>4, <3>1 DEF MeasureInv, ResultSettled, Done
  <2>. QED BY <2>2, <2>3, <2>5, <2>6, <2>7 DEF MeasureInv
<1>. QED BY <1>1, ResolveKeeps, BuildKeeps, EngineFailsKeeps, AfterBuildKeeps, AfterAssetsKeeps, AssetWorkKeeps,
            GateKeeps, SumKeeps DEF Next

\* The build's, the gate's and the asset stage's invariants hold together with
\* what connects them: a job exists only behind the gate and after a build that
\* worked, what went wrong left its mark, and an answer keeps what it says.
THEOREM MeasureInvariant == Spec => []MeasureInv
BY MeasureStarts, MeasureStep, PTL DEF Spec

\* Whatever the graph and whichever order its files are read in, the build's total
\* is what the reserved, the claimed and the parsed files weigh, each once, through
\* races for one file, failures and retries (engine/plugin.rs).
THEOREM LedgerStaysExact == Spec => []LedgerExact
<1>1. MeasureInv => LedgerExact
  BY DEF MeasureInv, BuildInv
<1>. QED BY <1>1, MeasureInvariant, PTL

\* Whatever the stylesheets name, every file the asset stage reads is charged once,
\* at the larger of its stat and its content, and no account is over its limit
\* unless a breach says so (assets.rs).
THEOREM BudgetStaysExact == Spec => []BudgetExact
<1>1. MeasureInv => BudgetExact
  <2>1. ASSUME MeasureInv, tree.step # "idle" PROVE BudgetExact
    BY <2>1 DEF MeasureInv, Working, StageOK, BudgetOK, BudgetExact
  <2>2. tree.step = "idle" => BudgetExact
    BY DEF BudgetExact
  <2>. QED BY <2>1, <2>2
<1>. QED BY <1>1, MeasureInvariant, PTL

(***************************************************************************)
(* The document.                                                           *)
(***************************************************************************)

Runtimes == {"Component", "Server"}

TotalFields == {"size", "degraded", "reusable", "any_sized", "error", "incomplete", "stages"}

\* The runtimes whose group is in the total.
SummedGroup(r) ==
    IF r = "Component" THEN phase \in {"Server", "settle", "summed"}
    ELSE phase \in {"settle", "summed"}

ModulesOf(sized) == UNION {im.mods : im \in sized}
GroupWeight(r) == Weight(ModulesOf(Entries(r)))
WeightSoFar(r) == IF SummedGroup(r) THEN GroupWeight(r) ELSE 0

\* While a document is summed: a gap is disclosed, what a group's build said is
\* in the total, and a total that says nothing is the weight of its groups.
Summing ==
    phase \in {"Component", "Server", "settle", "summed"} =>
        /\ DOMAIN total = TotalFields
        /\ total.incomplete \in BOOLEAN /\ total.degraded \in BOOLEAN
        /\ (\E im \in DocumentImports : Arm(im) \in {"NotInstalled", "unresolved"})
             => total.incomplete
        /\ \A r \in Runtimes : SummedGroup(r) /\ Entries(r) # {} =>
             /\ scn.combined[r].stages \subseteq total.stages
             /\ scn.combined[r].failed # None => total.degraded
        /\ ~total.incomplete /\ ~total.degraded
             => total.size = WeightSoFar("Component") + WeightSoFar("Server")

\* The modules of a document's imports weigh a number of bytes.
LEMMA GroupWeighs ==
    ASSUME scn \in Scenarios, NEW r
    PROVE  GroupWeight(r) \in Int /\ (Entries(r) = {} => GroupWeight(r) = 0)
<1>1. IsFiniteSet(scn.others) /\ \A im \in scn.others : IsFiniteSet(im.mods) /\ im.mods \subseteq Nat
  BY WorldsAssumption DEF IsDocument
<1> DEFINE focus == [id |-> 0, pkg |-> scn.pkg, loading |-> FALSE, result |-> result, mods |-> {1},
          alias |-> resolves_to_first_party_source(scn.configs, scn.nearest, MaxAliasConfigs)]
<1>2. DocumentImports = scn.others \cup {focus} /\ focus.mods = {1}
  BY DEF DocumentImports
<1> HIDE DEF focus
<1>3. IsFiniteSet(DocumentImports)
  BY <1>1, <1>2, FS_AddElement
<1>4. IsFiniteSet(focus.mods) /\ focus.mods \subseteq Nat
  <2>1. PICK one : one = 1
    OBVIOUS
  <2>2. IsFiniteSet({one})
    BY FS_Singleton
  <2>. QED BY <1>2, <2>1, <2>2
<1>5. \A im \in DocumentImports : IsFiniteSet(im.mods) /\ im.mods \subseteq Nat
  BY <1>1, <1>2, <1>4
<1>6. IsFiniteSet(Entries(r)) /\ Entries(r) \subseteq DocumentImports
  BY <1>3, FS_Subset DEF Entries
<1> DEFINE groups == {im.mods : im \in Entries(r)}
           mods == UNION groups
<1>7. IsFiniteSet(groups)
  <2> DEFINE of == [im \in Entries(r) |-> im.mods]
  <2>1. of \in Surjection(Entries(r), groups)
    BY DEF Surjection
  <2> HIDE DEF of
  <2>. QED BY <1>6, <2>1, FS_Surjection
<1>8. \A g \in groups : IsFiniteSet(g) /\ g \subseteq Nat
  BY <1>5, <1>6
<1>9. IsFiniteSet(mods) /\ mods \subseteq Nat
  BY <1>7, <1>8, FS_UNION
<1>10. Entries(r) = {} => mods = {}
  OBVIOUS
<1>11. GroupWeight(r) = SumOver([m \in mods |-> m], mods)
  BY DEF GroupWeight, Weight, ModulesOf
<1> HIDE DEF mods
<1> DEFINE f == [m \in mods |-> m]
<1>12. \A m \in mods : f[m] \in Int
  BY <1>9
<1> HIDE DEF f
<1>13. SumOver(f, mods) \in Int
  BY <1>9, <1>12, SumInt
<1>14. SumOver(f, {}) = 0
  BY SumEmpty
<1>. QED BY <1>10, <1>11, <1>13, <1>14 DEF f

\* What one group leaves of the total.
LEMMA GroupAdds ==
    ASSUME NEW t, DOMAIN t = TotalFields, t.incomplete \in BOOLEAN, t.degraded \in BOOLEAN,
           NEW sized, NEW outcome, NEW u, u = GroupTotals(t, sized, outcome)
    PROVE  /\ DOMAIN u = TotalFields /\ u.incomplete \in BOOLEAN /\ u.degraded \in BOOLEAN
           /\ t.incomplete => u.incomplete
           /\ t.degraded => u.degraded
           /\ t.stages \cup outcome.stages \subseteq u.stages
           /\ outcome.failed # None => u.degraded
           /\ ~u.degraded /\ ~u.incomplete =>
                /\ u.size = t.size + Weight(ModulesOf(sized)) - outcome.short
                /\ outcome.stages \cap marks_a_floor = {}
<1>1. CASE outcome.failed = None
  <2> DEFINE w == Weight(ModulesOf(sized))
  <2>1. u = [t EXCEPT !.size = @ + w - outcome.short,
                      !.incomplete = @ \/ outcome.stages \cap marks_a_floor # {},
                      !.reusable = @ /\ outcome.reusable,
                      !.any_sized = TRUE,
                      !.stages = @ \cup outcome.stages]
    BY <1>1 DEF GroupTotals, AddBuilt, ModulesOf
  <2> HIDE DEF w
  <2>2. /\ DOMAIN u = TotalFields /\ u.size = t.size + w - outcome.short
        /\ u.stages = t.stages \cup outcome.stages /\ u.degraded = t.degraded
        /\ u.incomplete = (t.incomplete \/ outcome.stages \cap marks_a_floor # {})
    BY <2>1 DEF TotalFields
  <2>. QED BY <1>1, <2>2 DEF w
<1>2. CASE outcome.failed # None
  <2> DEFINE v == [t EXCEPT !.degraded = TRUE,
                            !.stages = @ \cup outcome.stages \cup {outcome.failed}]
             fallback == per_import_totals(sized)
  <2>1. /\ DOMAIN v = TotalFields /\ v.degraded = TRUE /\ v.incomplete = t.incomplete
        /\ t.stages \cup outcome.stages \subseteq v.stages
    BY DEF TotalFields
  <2>2. u = absorb_fallback(v, fallback)
    BY <1>2 DEF GroupTotals
  <2> HIDE DEF v, fallback
  <2>3. /\ DOMAIN u = TotalFields /\ u.degraded = TRUE /\ v.stages \subseteq u.stages
        /\ u.incomplete = (v.incomplete \/ fallback.missing_inputs)
    BY <2>1, <2>2 DEF absorb_fallback, TotalFields
  <2>. QED BY <2>1, <2>3
<1>. QED BY <1>1, <1>2

\* The document's imports stay as they are once the import is answered.
LEMMA ImportsStay ==
    ASSUME UNCHANGED <<scn, result>>
    PROVE  /\ DocumentImports' = DocumentImports
           /\ \A r : Entries(r)' = Entries(r) /\ GroupWeight(r)' = GroupWeight(r)
<1>1. DocumentImports' = DocumentImports
  BY DEF DocumentImports
<1>2. \A r : Entries(r)' = Entries(r)
  BY <1>1 DEF Entries
<1>. QED BY <1>1, <1>2 DEF GroupWeight

\* A step that is no part of the summing leaves it alone.
LEMMA SummingStays ==
    ASSUME Summing, UNCHANGED <<scn, result, total, phase>>
    PROVE  Summing'
<1>1. /\ DocumentImports' = DocumentImports
      /\ \A r : Entries(r)' = Entries(r) /\ GroupWeight(r)' = GroupWeight(r)
  BY ImportsStay
<1>2. \A r : SummedGroup(r)' = SummedGroup(r) /\ WeightSoFar(r)' = WeightSoFar(r)
  BY <1>1 DEF SummedGroup, WeightSoFar
<1>. QED BY <1>1, <1>2 DEF Summing

\* One group is summed.
LEMMA SumGroupKeeps ==
    ASSUME scn \in Scenarios, Summing, SumGroup
    PROVE  Summing'
<1>1. /\ phase \in Runtimes /\ UNCHANGED <<scn, result>>
      /\ phase' = IF phase = "Component" THEN "Server" ELSE "settle"
      /\ total' = IF Entries(phase) = {} THEN total
                  ELSE GroupTotals(total, Entries(phase), scn.combined[phase])
  BY DEF SumGroup, Runtimes
<1>2. /\ DocumentImports' = DocumentImports
      /\ \A r : Entries(r)' = Entries(r) /\ GroupWeight(r)' = GroupWeight(r)
  BY <1>1, ImportsStay
<1>3. PICK now : now = phase
  OBVIOUS
<1> DEFINE outcome == scn.combined[now]
<1>4. outcome.short \in Nat /\ (outcome.short # 0 => outcome.stages \cap marks_a_floor # {})
  BY <1>1, <1>3, WorldsAssumption DEF IsDocument, Runtimes
<1>5. \A r : GroupWeight(r) \in Int /\ (Entries(r) = {} => GroupWeight(r) = 0)
  BY GroupWeighs
<1>6. \A r \in Runtimes : SummedGroup(r)' <=> SummedGroup(r) \/ r = now
  BY <1>1, <1>3 DEF SummedGroup, Runtimes
<1>7. ~SummedGroup(now)
  BY <1>1, <1>3 DEF SummedGroup, Runtimes
<1>8. \A r \in Runtimes : WeightSoFar(r)' = IF r = now THEN GroupWeight(now) ELSE WeightSoFar(r)
  BY <1>2, <1>6, <1>7 DEF WeightSoFar
<1>9. WeightSoFar("Component") \in Int /\ WeightSoFar("Server") \in Int /\ WeightSoFar(now) = 0
  BY <1>5, <1>7 DEF WeightSoFar
<1>10. (WeightSoFar("Component") + WeightSoFar("Server"))'
          = WeightSoFar("Component") + WeightSoFar("Server") + GroupWeight(now)
  BY <1>1, <1>3, <1>5, <1>8, <1>9 DEF Runtimes
<1>11. /\ DOMAIN total = TotalFields
       /\ total.incomplete \in BOOLEAN /\ total.degraded \in BOOLEAN
       /\ (\E im \in DocumentImports : Arm(im) \in {"NotInstalled", "unresolved"})
            => total.incomplete
       /\ \A r \in Runtimes : SummedGroup(r) /\ Entries(r) # {} =>
            /\ scn.combined[r].stages \subseteq total.stages
            /\ scn.combined[r].failed # None => total.degraded
       /\ ~total.incomplete /\ ~total.degraded
            => total.size = WeightSoFar("Component") + WeightSoFar("Server")
  BY <1>1 DEF Summing, Runtimes
<1>12. CASE Entries(now) = {}
  <2>1. total' = total /\ GroupWeight(now) = 0
    BY <1>1, <1>3, <1>5, <1>12
  <2>2. ~total.incomplete /\ ~total.degraded
          => total.size = (WeightSoFar("Component") + WeightSoFar("Server"))'
    BY <1>5, <1>9, <1>10, <1>11, <2>1
  <2>. QED BY <1>1, <1>2, <1>6, <1>11, <1>12, <2>1, <2>2 DEF Summing
<1>13. CASE Entries(now) # {}
  <2>1. total' = GroupTotals(total, Entries(now), outcome)
    BY <1>1, <1>3, <1>13
  <2> HIDE DEF outcome
  <2>2. /\ DOMAIN total' = TotalFields /\ total'.incomplete \in BOOLEAN
        /\ total'.degraded \in BOOLEAN
        /\ total.incomplete => total'.incomplete
        /\ total.degraded => total'.degraded
        /\ total.stages \cup outcome.stages \subseteq total'.stages
        /\ outcome.failed # None => total'.degraded
        /\ ~total'.degraded /\ ~total'.incomplete =>
             /\ total'.size = total.size + Weight(ModulesOf(Entries(now)))
                                - outcome.short
             /\ outcome.stages \cap marks_a_floor = {}
    BY <1>11, <2>1, GroupAdds
  <2>3. ~total'.incomplete /\ ~total'.degraded
          => total'.size = (WeightSoFar("Component") + WeightSoFar("Server"))'
    <3> SUFFICES ASSUME ~total'.incomplete, ~total'.degraded
                 PROVE  total'.size = (WeightSoFar("Component") + WeightSoFar("Server"))'
      OBVIOUS
    <3>1. outcome.short = 0
      BY <1>4, <2>2
    <3>2. total.size = WeightSoFar("Component") + WeightSoFar("Server")
      BY <1>11, <2>2
    <3>3. total'.size = total.size + GroupWeight(now) - 0
      BY <2>2, <3>1 DEF GroupWeight
    <3>. QED BY <1>5, <1>9, <1>10, <3>2, <3>3
  <2>4. \A r \in Runtimes : SummedGroup(r)' /\ Entries(r) # {} =>
            /\ scn.combined[r].stages \subseteq total'.stages
            /\ scn.combined[r].failed # None => total'.degraded
    <3> TAKE r \in Runtimes
    <3> HAVE SummedGroup(r)' /\ Entries(r) # {}
    <3>1. CASE r = now
      BY <2>2, <3>1 DEF outcome
    <3>2. CASE r # now
      BY <1>6, <1>11, <2>2, <3>2
    <3>. QED BY <3>1, <3>2
  <2>. QED BY <1>1, <1>2, <1>11, <2>2, <2>3, <2>4 DEF Summing
<1>. QED BY <1>12, <1>13

\* The first loop discloses every gap.
LEMMA SumImportsStarts ==
    ASSUME SumImports
    PROVE  Summing'
<1>1. /\ UNCHANGED <<scn, result>> /\ phase' = "Component" /\ total' = FirstLoop(DocumentImports)
  BY DEF SumImports
<1>2. DocumentImports' = DocumentImports
  BY <1>1, ImportsStay
<1>3. /\ DOMAIN total' = TotalFields /\ total'.size = 0
      /\ total'.degraded = FALSE
      /\ total'.incomplete = (\E im \in DocumentImports : Arm(im) \in {"NotInstalled", "unresolved"})
  BY <1>1 DEF FirstLoop, TotalFields
<1>4. \A r \in Runtimes : ~SummedGroup(r)' /\ WeightSoFar(r)' = 0
  BY <1>1 DEF SummedGroup, WeightSoFar, Runtimes
<1>5. total'.incomplete \in BOOLEAN /\ total'.degraded \in BOOLEAN
  BY <1>3
<1>. QED BY <1>1, <1>2, <1>3, <1>4, <1>5 DEF Summing, Runtimes

\* The end of the sum changes no number.
LEMMA SumSettlesKeeps ==
    ASSUME Summing, SumSettles
    PROVE  Summing'
<1>1. /\ UNCHANGED <<scn, result>> /\ phase = "settle" /\ phase' = "summed"
      /\ total' = Settle(total, Entries("Component") \cup Entries("Server"))
  BY DEF SumSettles
<1>2. /\ DocumentImports' = DocumentImports
      /\ \A r : Entries(r)' = Entries(r) /\ GroupWeight(r)' = GroupWeight(r)
  BY <1>1, ImportsStay
<1>3. \A r : SummedGroup(r)' /\ SummedGroup(r) /\ WeightSoFar(r)' = WeightSoFar(r)
  BY <1>1, <1>2 DEF SummedGroup, WeightSoFar
<1>4. DOMAIN total = TotalFields
  BY <1>1 DEF Summing
<1>5. /\ DOMAIN total' = TotalFields /\ total'.size = total.size
      /\ total'.incomplete = total.incomplete /\ total'.degraded = total.degraded
      /\ total.stages \subseteq total'.stages
  BY <1>1, <1>4 DEF Settle, TotalFields
<1>. QED BY <1>1, <1>2, <1>3, <1>5 DEF Summing

\* Every step keeps what the total says.
LEMMA SummingStep ==
    ASSUME MeasureInv, Summing, [Next]_vars
    PROVE  Summing'
<1>1. scn \in Scenarios
  BY DEF MeasureInv, World
<1>2. CASE SumDocument
  BY <1>1, <1>2, SumImportsStarts, SumGroupKeeps, SumSettlesKeeps DEF SumDocument
<1>3. CASE Resolve \/ EngineFails \/ AfterBuild \/ AfterAssets
  <2>1. phase' \in {"measured", "build", "assets"}
    BY <1>3 DEF Resolve, EngineFails, AfterBuild, AfterAssets, Answered, Unmeasured, Measured
  <2>. QED BY <2>1 DEF Summing
<1>4. CASE Build \/ AssetWork \/ Gate \/ UNCHANGED vars
  <2>1. UNCHANGED <<scn, result, total, phase>>
    BY <1>4 DEF Build, AssetWork, Gate, vars, requestVars
  <2>. QED BY <2>1, SummingStays
<1>. QED BY <1>2, <1>3, <1>4 DEF Next

\* What a document's total says while it is summed.
THEOREM SummingInvariant == Spec => []Summing
<1>1. Init => Summing
  BY DEF Init, Summing
<1>2. MeasureInv /\ Summing /\ [Next]_vars => Summing'
  BY SummingStep
<1>. QED BY <1>1, <1>2, MeasureInvariant, PTL DEF Spec

\* Nothing that happened to one request, and says nothing of the package, is in a
\* result a store keeps, except a module of JavaScript or a manifest that could not
\* be read, which the code stores as "resolve" and "package_manifest" failures; and
\* no combined build of a document's total that is kept met a passing failure
\* (stage.rs; protocol.rs, is_durable; file_size.rs, may_enter_aggregate_cache).
THEOREM NothingTransientIsStored == Spec => []NothingTransientStored
<1>1. MeasureInv /\ Summing => NothingTransientStored
  <2> SUFFICES ASSUME MeasureInv, Summing PROVE NothingTransientStored
    OBVIOUS
  <2>1. Done => Spoiled
    BY DEF MeasureInv, ResultSettled
  <2>2. ASSUME phase = "summed", may_enter_aggregate_cache(total), NEW r \in Runtimes, Entries(r) # {}
        PROVE  ({scn.combined[r].failed} \cup scn.combined[r].stages)
                 \cap TRANSIENT_ANALYSIS_STAGES = {}
    <3>1. SummedGroup(r)
      BY <2>2 DEF SummedGroup
    <3>2. /\ scn.combined[r].stages \subseteq total.stages
          /\ scn.combined[r].failed # None => total.degraded
      BY <2>2, <3>1 DEF Summing
    <3>3. ~total.degraded
      BY <2>2 DEF may_enter_aggregate_cache, is_file_cost
    <3>4. total.stages \cap TRANSIENT_ANALYSIS_STAGES = {}
      BY <2>2 DEF may_enter_aggregate_cache, is_file_cost, DURABLE_RESULT_STAGES,
                  TRANSIENT_ANALYSIS_STAGES
    <3>5. None \notin TRANSIENT_ANALYSIS_STAGES
      BY DEF None, TRANSIENT_ANALYSIS_STAGES
    <3>. QED BY <3>2, <3>3, <3>4, <3>5
  <2>. QED BY <2>1, <2>2 DEF NothingTransientStored, Spoiled, Runtimes
<1>. QED BY <1>1, MeasureInvariant, SummingInvariant, PTL

\* A package that is answered with a verdict has a manifest, and earned it.
LEMMA VerdictEarned ==
    ASSUME NEW p, NEW r, OwnResult(p, r), is_types_only(r) \/ is_native_binary_only(r)
    PROVE  /\ p.safe /\ p.manifest \notin {"absent", "unreadable", "unparsable", "noversion"}
           /\ is_types_only(r) => declaration_only_package_result(p)
           /\ is_native_binary_only(r) => native_binary_only_package_result(p)
<1>1. PICK a \in resolve_package_entry(p) : ~a.ok /\ r = unresolved_import_result(p, a.message)
  BY DEF OwnResult
<1>2. /\ UnresolvedStage(a.message) \in {"entry_resolution", "no_root_entry"}
      /\ \/ declaration_only_package_result(p) /\ r = [size |-> 0, stages |-> {"types_only"}]
         \/ native_binary_only_package_result(p) /\ r = [size |-> 0, stages |-> {"native_binary_only"}]
  <2>1. r.size # NoSize
    BY DEF is_types_only, is_native_binary_only
  <2>. QED BY <1>1, <2>1 DEF unresolved_import_result
<1>3. a.message \notin {"unsafe package name", "package manifest not found", "bad manifest"}
  BY <1>2 DEF UnresolvedStage
<1>4. p.safe /\ ManifestError(p) = None
  <2>0. \A message : Unresolved(message).message = message
    BY DEF Unresolved
  <2>1. ~p.safe => a.message = "unsafe package name"
    <3>1. ~p.safe => a = Unresolved("unsafe package name")
      BY DEF resolve_package_entry
    <3>. QED BY <2>0, <3>1
  <2>2. p.safe /\ ManifestError(p) # None => a.message = ManifestError(p)
    <3>1. p.safe /\ ManifestError(p) # None => a = Unresolved(ManifestError(p))
      BY DEF resolve_package_entry
    <3>. QED BY <2>0, <3>1
  <2>3. ManifestError(p) \in {"package manifest not found", "bad manifest", None}
    BY DEF ManifestError
  <2>. QED BY <1>3, <2>1, <2>2, <2>3
<1>5. p.manifest \notin {"absent", "unreadable", "unparsable", "noversion"}
  BY <1>4 DEF ManifestError, find_package_root, None
<1>. QED BY <1>2, <1>4, <1>5 DEF is_types_only, is_native_binary_only

\* A package with a JavaScript file to find is not one that ships nothing.
LEMMA BinaryHasNoIndex ==
    ASSUME NEW im, ~im.pkg.sub, native_binary_only_package_result(im.pkg), ~Resolves(im),
           im.pkg.manifest \notin {"absent", "unreadable", "unparsable", "noversion"}
    PROVE  "index.js" \notin im.pkg.files
<1> SUFFICES ASSUME "index.js" \in im.pkg.files PROVE FALSE
  OBVIOUS
<1> DEFINE p == im.pkg
<1>1. /\ p.main = None /\ p.module = None /\ p.browser = None /\ p.exports = "none"
      /\ find_package_root(p) /\ p.safe
  BY DEF native_binary_only_package_result, manifest_declares_no_js_entry, find_package_root
<1>2. Declared(p) = {}
  <2>1. \A i \in {1, 2, 3} : i \in DOMAIN profile_entry_fields(p.runtime) =>
          profile_entry_fields(p.runtime)[i] \in {"main", "module", "browser"}
    BY DEF profile_entry_fields
  <2>2. \A i \in DOMAIN profile_entry_fields(p.runtime) : Target(p, i) = None
    BY <1>1, <2>1 DEF Target, profile_entry_fields
  <2>. QED BY <2>2 DEF Declared
<1>3. OxcEntry(p) = "index.js" /\ "index.js" # None
  BY <1>1, <1>2 DEF OxcEntry, None
<1>4. ManifestError(p) = None
  BY <1>1 DEF ManifestError
<1>5. validate_declared_entry_resolution(p)
  BY <1>2 DEF validate_declared_entry_resolution, DeclaredTargets
<1>6. \A a \in resolve_with_oxc(p) : a.ok
  BY <1>3 DEF resolve_with_oxc, Resolved
<1>7. \A a \in resolve_package_entry(p) : a.ok
  <2> HIDE DEF p
  <2>. QED BY <1>1, <1>4, <1>5, <1>6 DEF resolve_package_entry, Resolved
<1>. QED BY <1>7 DEF Resolves

\* A document's number that passes for its File Cost is the bytes of all of its
\* packages, each module of a runtime once, but for the excused imports: a subpath of
\* a binary-only package, and a stored verdict about a package that was replaced
\* since (file_size.rs, compute_file_size_with).
THEOREM TotalStaysHonest == Spec => []TotalIsHonest
<1>1. MeasureInv /\ Summing => TotalIsHonest
  <2> SUFFICES ASSUME MeasureInv, Summing, phase = "summed", is_file_cost(total)
               PROVE  /\ \A im \in DocumentImports \ Excused : ShipsNothing(im) \/ Resolves(im)
                      /\ total.size = GroupWeight("Component") + GroupWeight("Server")
    BY DEF TotalIsHonest, HonestTotal, GroupWeight, ModulesOf, Entries
  <2>1. ~total.incomplete /\ ~total.degraded
    BY DEF is_file_cost
  <2>2. total.size = GroupWeight("Component") + GroupWeight("Server")
    BY <2>1 DEF Summing, WeightSoFar, SummedGroup
  <2>3. ASSUME NEW im \in DocumentImports \ Excused PROVE ShipsNothing(im) \/ Resolves(im)
    <3>1. Arm(im) \notin {"NotInstalled", "unresolved"}
      BY <2>1 DEF Summing
    <3>2. ~im.loading => OwnResult(im.pkg, im.result)
      <4>1. OwnResult(scn.pkg, result)
        BY DEF MeasureInv, ResultSettled, Done
      <4>. QED BY <2>3, <4>1 DEF DocumentImports, Excused, StaleVerdict
    <3>3. CASE SizedPackage(im) # "Installed"
      BY <3>1, <3>3 DEF Arm, SizedPackage, ShipsNothing
    <3>4. CASE SizedPackage(im) = "Installed" /\ ~Resolves(im)
      <4>1. ~im.loading /\ (is_types_only(im.result) \/ is_native_binary_only(im.result))
        BY <3>1, <3>4 DEF Arm
      <4>2. /\ im.pkg.manifest \notin {"absent", "unreadable", "unparsable", "noversion"}
            /\ is_types_only(im.result) => declaration_only_package_result(im.pkg)
            /\ is_native_binary_only(im.result) => native_binary_only_package_result(im.pkg)
        BY <3>2, <4>1, VerdictEarned
      <4>3. CASE is_types_only(im.result)
        BY <3>4, <4>2, <4>3 DEF declaration_only_package_result, is_declaration_only, ShipsNothing
      <4>4. CASE is_native_binary_only(im.result)
        <5>1. ~im.pkg.sub
          BY <2>3, <4>2, <4>4 DEF Excused
        <5>2. "index.js" \notin im.pkg.files
          BY <3>4, <4>2, <4>4, <5>1, BinaryHasNoIndex
        <5>. QED BY <3>4, <4>2, <4>4, <5>1, <5>2 DEF native_binary_only_package_result, ShipsNothing
      <4>. QED BY <4>1, <4>3, <4>4
    <3>. QED BY <3>3, <3>4
  <2>. QED BY <2>2, <2>3
<1>. QED BY <1>1, MeasureInvariant, SummingInvariant, PTL

\* The asset gate loses no wake-up behind a real request either: a job that panics,
\* that outlives its caller or that is never admitted included.
THEOREM RequestsNoIdlePermit == Spec => []NoIdlePermit
<1>1. MeasureInv => NoIdlePermit
  BY GateIdles DEF MeasureInv
<1>. QED BY <1>1, MeasureInvariant, PTL
=============================================================================
