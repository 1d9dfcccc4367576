------------------------------ MODULE SizeReads ------------------------------
(***************************************************************************)
(* File-size reads on one connection (src/daemon/src/ipc/server.rs):       *)
(* every read spawns a task, an interactive one (tagged with an analysis   *)
(* generation) first waits for its document's gate, and a read that served *)
(* stale imports goes on to revalidate them in the background.             *)
(*                                                                         *)
(* The gate is an Arc<Semaphore> of one permit kept in a map that drops    *)
(* the gates nobody else holds, so a document may have had several gates   *)
(* in its life: a gate is named by the read that created it.  The two      *)
(* lifecycles (swr_refresh and size_builds) keep the newest read of each   *)
(* document and flag the one it replaces.                                  *)
(***************************************************************************)
EXTENDS Naturals, FiniteSets

CONSTANTS
    Reads,      \* size reads the client sends, each once
    Docs,       \* documents
    DocOf,      \* the document a read names
    Tagged,     \* the interactive reads
    MaxStale,   \* bound on the stale imports one read revalidates
    None        \* no read, no gate

ASSUME SizeReadsAssumption ==
    /\ DocOf \in [Reads -> Docs]
    /\ Tagged \subseteq Reads
    /\ MaxStale \in Nat
    /\ None \notin Reads

VARIABLES
    open,       \* the connection still serves
    state,      \* per read, see TypeOK
    gateOf,     \* per read: the gate it holds a reference to
    gates,      \* DocumentBuildGate.gates
    sizeBuild,  \* size_builds: the newest interactive read per document
    swr,        \* swr_refresh: the newest read per document
    superseded, \* reads whose size_builds flag is set
    swrCancelled,   \* reads whose swr_refresh flag is set
    stale,      \* per read: stale imports left to revalidate
    fresh,      \* per read: imports revalidated so far
    answer      \* per read: "none", "size", "superseded" or "failed"

flags == <<sizeBuild, swr, superseded, swrCancelled>>
vars == <<open, state, gateOf, gates, flags, stale, fresh, answer>>

Init ==
    /\ open = TRUE
    /\ state = [r \in Reads |-> "unread"]
    /\ gateOf = [r \in Reads |-> None]
    /\ gates = [d \in Docs |-> None]
    /\ sizeBuild = [d \in Docs |-> None]
    /\ swr = [d \in Docs |-> None]
    /\ superseded = {} /\ swrCancelled = {}
    /\ stale = [r \in Reads |-> 0]
    /\ fresh = [r \in Reads |-> 0]
    /\ answer = [r \in Reads |-> "none"]

-----------------------------------------------------------------------------
\* Mutant. A gate is inert as soon as nobody waits for it: the permit of the
\* build in progress is not counted.
PrunedWhileHeld ==
    [d \in Docs |-> IF \E r \in Reads : gateOf[r] = gates[d] /\ state[r] = "wait"
                    THEN gates[d] ELSE None]

\* gate_for drops every gate that only the map holds.
Pruned ==
    [d \in Docs |-> IF \E r \in Reads : gateOf[r] = gates[d] THEN gates[d] ELSE None]

\* The FileSizeDocument arm: register with both lifecycles, take the gate,
\* spawn the task.
Dispatch(r) ==
    LET d == DocOf[r]
    IN  /\ open
        /\ state[r] = "unread"
        /\ swrCancelled' = swrCancelled \cup ({swr[d]} \ {None})
        /\ swr' = [swr EXCEPT ![d] = r]
        /\ IF r \in Tagged
           THEN LET g == IF Pruned[d] = None THEN r ELSE Pruned[d]
                IN  /\ gates' = [Pruned EXCEPT ![d] = g]
                    /\ gateOf' = [gateOf EXCEPT ![r] = g]
                    /\ superseded' = superseded \cup ({sizeBuild[d]} \ {None})
                    /\ sizeBuild' = [sizeBuild EXCEPT ![d] = r]
                    /\ state' = [state EXCEPT ![r] = "wait"]
           ELSE /\ state' = [state EXCEPT ![r] = "build"]
                /\ UNCHANGED <<gates, gateOf, superseded, sizeBuild>>
        /\ UNCHANGED <<open, stale, fresh, answer>>

\* The reads that hold a permit of a gate.
Holders(g) == {r \in Reads : gateOf[r] = g /\ state[r] \in {"permit", "build"}}

\* acquire_owned: one permit per gate.
Acquire(r) ==
    /\ state[r] = "wait"
    /\ Holders(gateOf[r]) = {}
    /\ state' = [state EXCEPT ![r] = "permit"]
    /\ UNCHANGED <<open, gateOf, gates, flags, stale, fresh, answer>>

\* Replaced while it waited: an error, and the permit goes back.
Superseded(r) ==
    /\ state[r] = "permit"
    /\ r \in superseded
    /\ answer' = [answer EXCEPT ![r] = "superseded"]
    /\ state' = [state EXCEPT ![r] = "done"]
    /\ gateOf' = [gateOf EXCEPT ![r] = None]
    /\ UNCHANGED <<open, gates, flags, stale, fresh>>

\* Still the newest: the combined build starts.
Build(r) ==
    /\ state[r] = "permit"
    /\ r \notin superseded
    /\ state' = [state EXCEPT ![r] = "build"]
    /\ UNCHANGED <<open, gateOf, gates, flags, stale, fresh, answer>>

\* The response is queued, the permit dropped, and what it served stale is
\* revalidated.
Answer(r) ==
    /\ state[r] = "build"
    /\ answer' = [answer EXCEPT ![r] = "size"]
    /\ gateOf' = [gateOf EXCEPT ![r] = None]
    /\ \E n \in 0..MaxStale :
          /\ stale' = [stale EXCEPT ![r] = n]
          /\ state' = [state EXCEPT ![r] = IF n = 0 THEN "done" ELSE "check"]
    /\ UNCHANGED <<open, gates, flags, fresh>>

\* response_from_join: a panicking build is answered with an error.
Panic(r) ==
    /\ state[r] = "build"
    /\ answer' = [answer EXCEPT ![r] = "failed"]
    /\ gateOf' = [gateOf EXCEPT ![r] = None]
    /\ state' = [state EXCEPT ![r] = "done"]
    /\ UNCHANGED <<open, gates, flags, stale, fresh>>

-----------------------------------------------------------------------------
(* revalidate_document_sizes *)

\* should_continue before an import, or no import left: the collected results
\* are pushed, if there are any.
EndRevalidation(r) ==
    /\ state[r] = "check"
    /\ r \in swrCancelled \/ stale[r] = 0
    /\ state' = [state EXCEPT ![r] = IF fresh[r] = 0 THEN "done" ELSE "pushed"]
    /\ UNCHANGED <<open, gateOf, gates, flags, stale, fresh, answer>>

Recompute(r) ==
    /\ state[r] = "check"
    /\ r \notin swrCancelled
    /\ stale[r] > 0
    /\ stale' = [stale EXCEPT ![r] = @ - 1]
    /\ state' = [state EXCEPT ![r] = "recheck"]
    /\ UNCHANGED <<open, gateOf, gates, flags, fresh, answer>>

\* The result is kept, unless it is not worth caching (or the key is claimed
\* by another revalidation, or its files cannot be read).
Collect(r) ==
    /\ state[r] = "recheck"
    /\ r \notin swrCancelled
    /\ fresh' \in {fresh, [fresh EXCEPT ![r] = @ + 1]}
    /\ state' = [state EXCEPT ![r] = "check"]
    /\ UNCHANGED <<open, gateOf, gates, flags, stale, answer>>

\* should_continue after the recompute fails: this result is dropped.
Discard(r) ==
    /\ state[r] = "recheck"
    /\ r \in swrCancelled
    /\ state' = [state EXCEPT ![r] = IF fresh[r] = 0 THEN "done" ELSE "pushed"]
    /\ UNCHANGED <<open, gateOf, gates, flags, stale, fresh, answer>>

\* The background task panics: what it collected is lost with it.
RevalidationPanics(r) ==
    /\ state[r] = "recheck"
    /\ state' = [state EXCEPT ![r] = "done"]
    /\ UNCHANGED <<open, gateOf, gates, flags, stale, fresh, answer>>

-----------------------------------------------------------------------------
\* Mutant. A hidden document's read is cancelled and stays registered.
HideKeeps(docs) ==
    /\ open
    /\ superseded' = superseded \cup ({sizeBuild[d] : d \in docs} \ {None})
    /\ swrCancelled' = swrCancelled \cup ({swr[d] : d \in docs} \ {None})
    /\ UNCHANGED <<open, state, gateOf, gates, sizeBuild, swr, stale, fresh, answer>>

\* VisibleDocuments: retain_visible on both lifecycles.
Hide(docs) ==
    /\ open
    /\ superseded' = superseded \cup ({sizeBuild[d] : d \in docs} \ {None})
    /\ swrCancelled' = swrCancelled \cup ({swr[d] : d \in docs} \ {None})
    /\ sizeBuild' = [d \in Docs |-> IF d \in docs THEN None ELSE sizeBuild[d]]
    /\ swr' = [d \in Docs |-> IF d \in docs THEN None ELSE swr[d]]
    /\ UNCHANGED <<open, state, gateOf, gates, stale, fresh, answer>>

\* cancel_all, when the connection closes.
Close ==
    /\ open
    /\ open' = FALSE
    /\ superseded' = superseded \cup ({sizeBuild[d] : d \in Docs} \ {None})
    /\ swrCancelled' = swrCancelled \cup ({swr[d] : d \in Docs} \ {None})
    /\ UNCHANGED <<state, gateOf, gates, sizeBuild, swr, stale, fresh, answer>>

TaskStep(r) ==
    \/ Superseded(r) \/ Build(r) \/ Answer(r) \/ Panic(r)
    \/ EndRevalidation(r) \/ Recompute(r) \/ Collect(r) \/ Discard(r)
    \/ RevalidationPanics(r)

Next ==
    \/ \E r \in Reads : Dispatch(r) \/ Acquire(r) \/ TaskStep(r)
    \/ \E docs \in SUBSET Docs \ {{}} : Hide(docs)
    \/ Close

Spec == Init /\ [][Next]_vars

-----------------------------------------------------------------------------
TypeOK ==
    /\ open \in BOOLEAN
    /\ state \in [Reads -> {"unread", "wait", "permit", "build", "check",
                            "recheck", "pushed", "done"}]
    /\ gateOf \in [Reads -> Reads \cup {None}]
    /\ gates \in [Docs -> Reads \cup {None}]
    /\ sizeBuild \in [Docs -> Reads \cup {None}]
    /\ swr \in [Docs -> Reads \cup {None}]
    /\ superseded \subseteq Reads /\ swrCancelled \subseteq Reads
    /\ stale \in [Reads -> Nat] /\ fresh \in [Reads -> Nat]
    /\ answer \in [Reads -> {"none", "size", "superseded", "failed"}]

\* "At most one combined file-size build per document at a time"
\* (server.rs:195-201), although the map forgets gates and makes new ones.
OneCombinedBuild ==
    \A r, s \in Tagged :
        r # s /\ DocOf[r] = DocOf[s] => ~(state[r] = "build" /\ state[s] = "build")

\* A combined build starts only for the newest interactive read of a document
\* that is still shown: of the reads that queued up behind a build, one per
\* keystroke, all the others end without one (server.rs:229-239).
BuildsAreNewest ==
    [][\A r \in Tagged :
          state[r] # "build" /\ state'[r] = "build" => sizeBuild[DocOf[r]] = r]_vars

\* The newest interactive read of a shown document is never answered
\* "superseded": the client, which drops that answer because a newer read
\* will bring the number, would show none (server.rs:1390-1401).
NewestReadAnswered ==
    \A d \in Docs : sizeBuild[d] # None /\ open => answer[sizeBuild[d]] # "superseded"

=============================================================================
