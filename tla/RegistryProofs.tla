--------------------------- MODULE RegistryProofs ---------------------------
(***************************************************************************)
(* The npm registry's answers on their way to a client and to the file     *)
(* that daemons share.                                                     *)
(*                                                                         *)
(* RegistryRefresh, for any manifests, blocks and targets: a skipped fetch *)
(* is never reported as a failure, a fetch that was made is always         *)
(* delivered, and only a newer refresh of the same manifest, or the end of *)
(* the connection, cancels a refresh.                                      *)
(*                                                                         *)
(* RegistryCache, for any number of daemons, threads and packages: types,  *)
(* that no write is forgotten, that saves merge, and that clears stick.    *)
(* The last needs the dates of all copies of an entry: one that a clear    *)
(* removed is older than the clear, and who still holds it has not adopted *)
(* the clear yet.                                                          *)
(***************************************************************************)
EXTENDS RegistryRefresh, RegistryCache, TLAPS

(***************************************************************************)
(* Refreshes.                                                              *)
(***************************************************************************)

\* What the lifecycle registers was started for that manifest, and only
\* started blocks are cancelled.
RegisteredInv ==
    /\ \A s \in Sources :
          current[s] # NoBlock => SourceOf[current[s]] = s /\ blockState[current[s]] # "unread"
    /\ \A b \in cancelled : blockState[b] # "unread"
    /\ open => \A s \in Sources : current[s] \notin cancelled

\* A block has jobs once it is started, and they are over before it saves.
JobInv ==
    \A b \in Blocks, t \in Targets :
        /\ blockState[b] = "unread" <=> job[b][t] = "none"
        /\ blockState[b] \in {"save", "final", "over"} =>
              job[b][t] = "over" /\ chan[b] = {}

\* A job that is over has reported, or its block's flag was set; one that has
\* fetched has reported.
ReportInv ==
    \A b \in Blocks, t \in Targets :
        job[b][t] = "over" =>
            \/ t \in chan[b] \cup ordered[b]
            \/ b \in cancelled /\ <<b, t>> \notin fetched

\* A fetch is made by a job that was queued.
FetchedInv ==
    \A b \in Blocks, t \in Targets :
        <<b, t>> \in fetched => job[b][t] \in {"fetch", "over"}

RefreshInv ==
    /\ RefreshTypeOK
    /\ RegisteredInv
    /\ JobInv
    /\ ReportInv
    /\ FetchedInv
    /\ NoFabricatedFailure
    /\ FetchedIsDelivered
    /\ CancelledByOwnSource

LEMMA InitRefreshInv == RefreshInit => RefreshInv
  BY RegistryRefreshAssumption
  DEF RefreshInit, RefreshInv, RefreshTypeOK, RegisteredInv, JobInv, ReportInv, FetchedInv,
      NoFabricatedFailure, FetchedIsDelivered, CancelledByOwnSource

\* A block that starts replaces the one of its manifest, and no other.
LEMMA RefreshKeeps ==
  ASSUME RefreshInv, NEW b \in Blocks, Refresh(b)
  PROVE  RefreshInv'
<1>0. PICK cached \in SUBSET Targets :
         /\ job' = [job EXCEPT ![b] =
                       [t \in Targets |-> IF t \in cached THEN "over" ELSE "queued"]]
         /\ chan' = [chan EXCEPT ![b] = cached]
  BY DEF Refresh
<1>1. /\ open /\ open' = open
      /\ blockState[b] = "unread"
      /\ cancelled' = cancelled \cup ({current[SourceOf[b]]} \ {NoBlock})
      /\ current' = [current EXCEPT ![SourceOf[b]] = b]
      /\ blockState' = [blockState EXCEPT ![b] = "forward"]
      /\ UNCHANGED <<fetched, ordered, final>>
  BY DEF Refresh, StartNewBlock, client
<1>2. RefreshTypeOK'
  BY <1>0, <1>1, RegistryRefreshAssumption DEF RefreshInv, RefreshTypeOK
<1>a. \A c \in Blocks : /\ blockState'[c] = IF c = b THEN "forward" ELSE blockState[c]
                        /\ chan'[c] = IF c = b THEN cached ELSE chan[c]
  BY <1>0, <1>1 DEF RefreshInv, RefreshTypeOK
<1>b. \A c \in Blocks, t \in Targets :
         job'[c][t] = IF c # b THEN job[c][t]
                      ELSE IF t \in cached THEN "over" ELSE "queued"
  BY <1>0 DEF RefreshInv, RefreshTypeOK
<1>c. b \notin cancelled /\ \A s \in Sources : current[s] # b
  BY <1>1, RegistryRefreshAssumption DEF RefreshInv, RefreshTypeOK, RegisteredInv
<1>d. \A s \in Sources : current'[s] = IF s = SourceOf[b] THEN b ELSE current[s]
  BY <1>1 DEF RefreshInv, RefreshTypeOK
<1>3. RegisteredInv'
  <2>1. ASSUME NEW s \in Sources, current'[s] # NoBlock
        PROVE  SourceOf[current'[s]] = s /\ blockState'[current'[s]] # "unread"
    <3>1. CASE s = SourceOf[b]
      BY <1>a, <1>d, <3>1
    <3>2. CASE s # SourceOf[b]
      <4>1. current'[s] = current[s]
        BY <1>d, <3>2
      <4>2. current[s] \in Blocks
        BY <2>1, <4>1 DEF RefreshInv, RefreshTypeOK
      <4>3. SourceOf[current[s]] = s /\ blockState[current[s]] # "unread"
        BY <2>1, <4>1 DEF RefreshInv, RegisteredInv
      <4> QED
        BY <1>a, <4>1, <4>2, <4>3
    <3> QED
      BY <3>1, <3>2
  <2>2. ASSUME NEW c \in cancelled' PROVE blockState'[c] # "unread"
    <3>1. c \in Blocks /\ blockState[c] # "unread"
      BY <1>1, <2>2, RegistryRefreshAssumption DEF RefreshInv, RefreshTypeOK, RegisteredInv
    <3> QED
      BY <1>a, <3>1
  <2>3. ASSUME NEW s \in Sources PROVE current'[s] \notin cancelled'
    <3>1. current[s] \notin cancelled
      BY <1>1 DEF RefreshInv, RegisteredInv
    <3>2. b \notin cancelled'
      BY <1>1, <1>c, RegistryRefreshAssumption
    <3>3. CASE s = SourceOf[b]
      BY <1>d, <3>2, <3>3
    <3>4. CASE s # SourceOf[b]
      <4>1. current[SourceOf[b]] \in Blocks => SourceOf[current[SourceOf[b]]] = SourceOf[b]
        BY RegistryRefreshAssumption DEF RefreshInv, RegisteredInv
      <4>2. current[s] \in Blocks => SourceOf[current[s]] = s
        BY RegistryRefreshAssumption DEF RefreshInv, RegisteredInv
      <4> QED
        BY <1>1, <1>d, <3>1, <3>4, <4>1, <4>2, RegistryRefreshAssumption DEF RefreshInv, RefreshTypeOK
    <3> QED
      BY <3>3, <3>4
  <2> QED
    BY <2>1, <2>2, <2>3 DEF RegisteredInv
<1>4. JobInv'
  BY <1>a, <1>b DEF RefreshInv, JobInv
<1>5. ReportInv'
  BY <1>1, <1>a, <1>b, <1>c DEF RefreshInv, ReportInv, JobInv
<1>6. FetchedInv'
  BY <1>1, <1>b DEF RefreshInv, FetchedInv, JobInv
<1>7. NoFabricatedFailure' /\ FetchedIsDelivered'
  BY <1>1 DEF RefreshInv, RefreshTypeOK, NoFabricatedFailure, FetchedIsDelivered
<1>8. CancelledByOwnSource'
  <2> SUFFICES ASSUME NEW c \in cancelled'
               PROVE  /\ current'[SourceOf[c]] # c
                      /\ current'[SourceOf[c]] \in Blocks
                      /\ SourceOf[current'[SourceOf[c]]] = SourceOf[c]
    BY DEF CancelledByOwnSource
  <2>1. c \in Blocks /\ c # b
    BY <1>1, <1>2, <1>c, RegistryRefreshAssumption DEF RefreshTypeOK
  <2>2. CASE SourceOf[c] = SourceOf[b]
    BY <1>d, <2>1, <2>2, RegistryRefreshAssumption
  <2>3. CASE SourceOf[c] # SourceOf[b]
    <3>1. c \in cancelled
      BY <1>1, <2>1, <2>3, RegistryRefreshAssumption DEF RefreshInv, RegisteredInv
    <3> QED
      BY <1>1, <1>d, <2>1, <2>3, <3>1, RegistryRefreshAssumption DEF RefreshInv, CancelledByOwnSource
  <2> QED
    BY <2>2, <2>3
<1> QED
  BY <1>2, <1>3, <1>4, <1>5, <1>6, <1>7, <1>8 DEF RefreshInv

\* What a job does leaves the lifecycle and the responses alone.
LEMMA JobKeeps ==
  ASSUME RefreshInv, NEW b \in Blocks, NEW t \in Targets, JobStep(b, t)
  PROVE  RefreshInv'
<1>1. UNCHANGED <<open, current, cancelled, ordered, final, blockState>>
  BY DEF JobStep, Skip, Fetch, Report, client
<1>2. RegisteredInv' /\ CancelledByOwnSource' /\ NoFabricatedFailure'
  BY <1>1 DEF RefreshInv, RegisteredInv, CancelledByOwnSource, NoFabricatedFailure
<1>3. CASE Skip(b, t)
  <2>1. /\ job[b][t] = "queued" /\ b \in cancelled
        /\ job' = [job EXCEPT ![b][t] = "over"]
        /\ UNCHANGED <<chan, fetched>>
    BY <1>3 DEF Skip
  <2>2. RefreshTypeOK'
    BY <1>1, <2>1 DEF RefreshInv, RefreshTypeOK
  <2>a. \A c \in Blocks, u \in Targets :
           job'[c][u] = IF c = b /\ u = t THEN "over" ELSE job[c][u]
    BY <2>1 DEF RefreshInv, RefreshTypeOK
  <2>3. JobInv'
    BY <1>1, <2>1, <2>a DEF RefreshInv, JobInv
  <2>4. ReportInv' /\ FetchedInv'
    BY <1>1, <2>1, <2>a DEF RefreshInv, ReportInv, FetchedInv
  <2>5. FetchedIsDelivered'
    BY <1>1, <2>1 DEF RefreshInv, FetchedIsDelivered
  <2> QED
    BY <1>2, <2>2, <2>3, <2>4, <2>5 DEF RefreshInv
<1>4. CASE Fetch(b, t)
  <2>1. /\ job[b][t] = "queued"
        /\ job' = [job EXCEPT ![b][t] = "fetch"]
        /\ fetched' = fetched \cup {<<b, t>>}
        /\ UNCHANGED chan
    BY <1>4 DEF Fetch
  <2>2. RefreshTypeOK'
    <3>1. job' \in [Blocks -> [Targets -> {"none", "queued", "fetch", "over"}]]
      BY <2>1 DEF RefreshInv, RefreshTypeOK
    <3>4. fetched' \subseteq Blocks \X Targets
      <4>1. fetched \subseteq Blocks \X Targets /\ <<b, t>> \in Blocks \X Targets
        BY DEF RefreshInv, RefreshTypeOK
      <4> QED
        BY <2>1, <4>1
    <3>2. RefreshTypeOK
      BY DEF RefreshInv
    <3>3. UNCHANGED <<open, current, cancelled, chan, ordered, blockState, final>>
      BY <1>1, <2>1
    <3> QED
      BY <3>1, <3>2, <3>3, <3>4, Zenon DEF RefreshTypeOK
  <2>a. \A c \in Blocks, u \in Targets :
           job'[c][u] = IF c = b /\ u = t THEN "fetch" ELSE job[c][u]
    BY <2>1 DEF RefreshInv, RefreshTypeOK
  <2>3. JobInv'
    BY <1>1, <2>1, <2>a DEF RefreshInv, JobInv
  <2>4. ReportInv' /\ FetchedInv'
    BY <1>1, <2>1, <2>a DEF RefreshInv, ReportInv, FetchedInv
  <2>5. FetchedIsDelivered'
    BY <1>1, <2>1 DEF RefreshInv, FetchedIsDelivered, JobInv
  <2> QED
    BY <1>2, <2>2, <2>3, <2>4, <2>5 DEF RefreshInv
<1>5. CASE Report(b, t)
  <2>1. /\ job[b][t] = "fetch"
        /\ job' = [job EXCEPT ![b][t] = "over"]
        /\ chan' = [chan EXCEPT ![b] = chan[b] \cup {t}]
        /\ UNCHANGED fetched
    BY <1>5 DEF Report
  <2>2. RefreshTypeOK'
    BY <1>1, <2>1 DEF RefreshInv, RefreshTypeOK
  <2>b. \A c \in Blocks : chan'[c] = IF c = b THEN chan[b] \cup {t} ELSE chan[c]
    BY <2>1 DEF RefreshInv, RefreshTypeOK
  <2>a. \A c \in Blocks, u \in Targets :
           job'[c][u] = IF c = b /\ u = t THEN "over" ELSE job[c][u]
    BY <2>1 DEF RefreshInv, RefreshTypeOK
  <2>3. JobInv'
    BY <1>1, <2>1, <2>a, <2>b DEF RefreshInv, JobInv
  <2>4. ReportInv' /\ FetchedInv'
    BY <1>1, <2>1, <2>a, <2>b DEF RefreshInv, ReportInv, FetchedInv
  <2>5. FetchedIsDelivered'
    BY <1>1, <2>1 DEF RefreshInv, FetchedIsDelivered
  <2> QED
    BY <1>2, <2>2, <2>3, <2>4, <2>5 DEF RefreshInv
<1> QED
  BY <1>3, <1>4, <1>5 DEF JobStep

\* The forwarder moves results and, at the end, reads the flag: an empty slot
\* means a skipped job, whose flag is still set.
LEMMA ForwarderKeeps ==
  ASSUME RefreshInv, NEW b \in Blocks, Forwarder(b)
  PROVE  RefreshInv'
<1>1. UNCHANGED <<open, current, cancelled, job, fetched>>
  BY DEF Forwarder, Forward, Drained, SaveHints, Finish, jobs
<1>2. CASE Forward(b)
  <2>1. /\ blockState[b] = "forward"
        /\ ordered' = [ordered EXCEPT ![b] = ordered[b] \cup chan[b]]
        /\ chan' = [chan EXCEPT ![b] = {}]
        /\ UNCHANGED <<final, blockState>>
    BY <1>2 DEF Forward
  <2>2. RefreshTypeOK'
    BY <1>1, <2>1 DEF RefreshInv, RefreshTypeOK
  <2>3. RegisteredInv' /\ CancelledByOwnSource'
    BY <1>1, <2>1 DEF RefreshInv, RegisteredInv, CancelledByOwnSource
  <2>a. \A c \in Blocks :
           /\ chan'[c] = IF c = b THEN {} ELSE chan[c]
           /\ ordered'[c] = IF c = b THEN ordered[b] \cup chan[b] ELSE ordered[c]
    BY <2>1 DEF RefreshInv, RefreshTypeOK
  <2>4. JobInv' /\ ReportInv' /\ FetchedInv'
    BY <1>1, <2>1, <2>a DEF RefreshInv, JobInv, ReportInv, FetchedInv
  <2>5. NoFabricatedFailure' /\ FetchedIsDelivered'
    BY <1>1, <2>1 DEF RefreshInv, NoFabricatedFailure, FetchedIsDelivered
  <2> QED
    BY <2>2, <2>3, <2>4, <2>5 DEF RefreshInv
<1>3. ASSUME NEW next \in {"save", "final"},
             blockState[b] \in {"forward", "save"},
             chan[b] = {}, \A t \in Targets : job[b][t] = "over",
             blockState' = [blockState EXCEPT ![b] = next],
             UNCHANGED <<chan, ordered, final>>
      PROVE  RefreshInv'
  <2>1. RefreshTypeOK'
    BY <1>1, <1>3 DEF RefreshInv, RefreshTypeOK
  <2>a. \A c \in Blocks : blockState'[c] = IF c = b THEN next ELSE blockState[c]
    BY <1>3 DEF RefreshInv, RefreshTypeOK
  <2>b. cancelled \subseteq Blocks /\ \A s \in Sources : current[s] # NoBlock => current[s] \in Blocks
    BY DEF RefreshInv, RefreshTypeOK
  <2>2. RegisteredInv' /\ CancelledByOwnSource'
    <3>1. CancelledByOwnSource'
      BY <1>1 DEF RefreshInv, CancelledByOwnSource
    <3>2. RegisteredInv'
      BY <1>1, <1>3, <2>a, <2>b DEF RefreshInv, RegisteredInv
    <3> QED
      BY <3>1, <3>2
  <2>3. JobInv' /\ ReportInv' /\ FetchedInv'
    <3>1. JobInv'
      BY <1>1, <1>3, <2>a DEF RefreshInv, JobInv
    <3>2. ReportInv' /\ FetchedInv'
      BY <1>1, <1>3 DEF RefreshInv, ReportInv, FetchedInv
    <3> QED
      BY <3>1, <3>2
  <2>4. NoFabricatedFailure' /\ FetchedIsDelivered'
    BY <1>1, <1>3 DEF RefreshInv, RefreshTypeOK, NoFabricatedFailure, FetchedIsDelivered
  <2> QED
    BY <2>1, <2>2, <2>3, <2>4 DEF RefreshInv
<1>4. CASE Drained(b)
  <2>1. /\ blockState[b] = "forward" /\ chan[b] = {}
        /\ \A t \in Targets : job[b][t] = "over"
        /\ blockState' = [blockState EXCEPT ![b] = "save"]
        /\ UNCHANGED <<chan, ordered, final>>
    BY <1>4 DEF Drained, jobs, client
  <2> QED
    BY <2>1, <1>3
<1>5. CASE SaveHints(b)
  <2>1. /\ blockState[b] = "save"
        /\ blockState' = [blockState EXCEPT ![b] = "final"]
        /\ UNCHANGED <<chan, ordered, final>>
    BY <1>5 DEF SaveHints, jobs, client
  <2>2. CASE Targets = {}
    <3>1. chan[b] = {}
      BY <2>2 DEF RefreshInv, RefreshTypeOK
    <3> QED
      BY <2>1, <2>2, <3>1, <1>3
  <2>3. CASE Targets # {}
    <3>1. chan[b] = {} /\ \A t \in Targets : job[b][t] = "over"
      BY <2>1, <2>3 DEF RefreshInv, JobInv
    <3> QED
      BY <2>1, <3>1, <1>3
  <2> QED
    BY <2>2, <2>3
<1>6. CASE Finish(b)
  <2>1. /\ blockState[b] = "final"
        /\ final' = [final EXCEPT ![b] = [t \in Targets |-> FinalSlot(b, t)]]
        /\ blockState' = [blockState EXCEPT ![b] = "over"]
        /\ UNCHANGED <<chan, ordered>>
    BY <1>6 DEF Finish, jobs
  <2>2. \A t \in Targets :
           /\ FinalSlot(b, t) \in {"result", "left out"}
           /\ <<b, t>> \in fetched => FinalSlot(b, t) = "result"
    <3> SUFFICES ASSUME NEW t \in Targets
                 PROVE  /\ FinalSlot(b, t) \in {"result", "left out"}
                        /\ <<b, t>> \in fetched => FinalSlot(b, t) = "result"
      OBVIOUS
    <3>1. t \in ordered[b] \/ (b \in cancelled /\ <<b, t>> \notin fetched)
      BY <2>1 DEF RefreshInv, JobInv, ReportInv
    <3>2. CASE t \in ordered[b]
      BY <3>2 DEF FinalSlot
    <3>3. CASE t \notin ordered[b]
      BY <3>1, <3>3 DEF FinalSlot
    <3> QED
      BY <3>2, <3>3
  <2> HIDE DEF FinalSlot
  <2>3. \A c \in Blocks, t \in Targets :
           final'[c][t] = IF c = b THEN FinalSlot(b, t) ELSE final[c][t]
    BY <2>1 DEF RefreshInv, RefreshTypeOK
  <2>4. RefreshTypeOK'
    <3>1. final' \in [Blocks -> [Targets -> {"unsent", "result", "left out", "no result"}]]
      BY <2>1, <2>2 DEF RefreshInv, RefreshTypeOK
    <3> QED
      BY <1>1, <2>1, <3>1 DEF RefreshInv, RefreshTypeOK
  <2>a. \A c \in Blocks : blockState'[c] = IF c = b THEN "over" ELSE blockState[c]
    BY <2>1 DEF RefreshInv, RefreshTypeOK
  <2>b. cancelled \subseteq Blocks /\ \A s \in Sources : current[s] # NoBlock => current[s] \in Blocks
    BY DEF RefreshInv, RefreshTypeOK
  <2>5. RegisteredInv' /\ CancelledByOwnSource'
    <3>1. CancelledByOwnSource'
      BY <1>1 DEF RefreshInv, CancelledByOwnSource
    <3>2. RegisteredInv'
      BY <1>1, <2>1, <2>a, <2>b DEF RefreshInv, RegisteredInv
    <3> QED
      BY <3>1, <3>2
  <2>6. JobInv' /\ ReportInv' /\ FetchedInv'
    <3>1. JobInv'
      BY <1>1, <2>1, <2>a DEF RefreshInv, JobInv
    <3>2. ReportInv' /\ FetchedInv'
      BY <1>1, <2>1 DEF RefreshInv, ReportInv, FetchedInv
    <3> QED
      BY <3>1, <3>2
  <2>7. NoFabricatedFailure'
    BY <2>2, <2>3 DEF RefreshInv, NoFabricatedFailure
  <2>8. FetchedIsDelivered'
    <3> SUFFICES ASSUME NEW c \in Blocks, NEW t \in Targets,
                        blockState'[c] = "over", <<c, t>> \in fetched
                 PROVE  final'[c][t] = "result"
      BY <1>1 DEF FetchedIsDelivered
    <3>1. CASE c = b
      BY <2>2, <2>3, <3>1
    <3>2. CASE c # b
      BY <2>3, <2>a, <3>2 DEF RefreshInv, FetchedIsDelivered
    <3> QED
      BY <3>1, <3>2
  <2> QED
    BY <2>4, <2>5, <2>6, <2>7, <2>8 DEF RefreshInv
<1> QED
  BY <1>2, <1>4, <1>5, <1>6 DEF Forwarder

LEMMA CloseKeeps ==
  ASSUME RefreshInv, Close
  PROVE  RefreshInv'
<1>1. /\ open' = FALSE
      /\ cancelled' = cancelled \cup ({current[s] : s \in Sources} \ {NoBlock})
      /\ UNCHANGED <<current, job, chan, fetched, ordered, final, blockState>>
  BY DEF Close, jobs, client
<1>2. RefreshTypeOK' /\ RegisteredInv'
  <2>1. RefreshTypeOK'
    <3>1. open' \in BOOLEAN
      BY <1>1
    <3>3. cancelled' \subseteq Blocks
      <4>1. cancelled \subseteq Blocks /\ \A s \in Sources : current[s] \in Blocks \cup {NoBlock}
        BY DEF RefreshInv, RefreshTypeOK
      <4> QED
        BY <1>1, <4>1
    <3>2. RefreshTypeOK
      BY DEF RefreshInv
    <3> QED
      BY <1>1, <3>1, <3>2, <3>3, Zenon DEF RefreshTypeOK
  <2>2. \A b \in cancelled' : blockState[b] # "unread"
    BY <1>1 DEF RefreshInv, RegisteredInv
  <2> QED
    BY <1>1, <2>1, <2>2 DEF RefreshInv, RegisteredInv
<1>3. JobInv' /\ ReportInv' /\ FetchedInv'
  BY <1>1 DEF RefreshInv, JobInv, ReportInv, FetchedInv
<1>4. NoFabricatedFailure' /\ FetchedIsDelivered' /\ CancelledByOwnSource'
  BY <1>1 DEF RefreshInv, NoFabricatedFailure, FetchedIsDelivered, CancelledByOwnSource
<1> QED
  BY <1>2, <1>3, <1>4 DEF RefreshInv

LEMMA NextRefreshInv == RefreshInv /\ [RefreshNext]_refreshVars => RefreshInv'
<1> SUFFICES ASSUME RefreshInv, [RefreshNext]_refreshVars PROVE RefreshInv'
  OBVIOUS
<1>1. ASSUME NEW b \in Blocks, Refresh(b) PROVE RefreshInv'
  BY <1>1, RefreshKeeps
<1>2. ASSUME NEW b \in Blocks, Forwarder(b) PROVE RefreshInv'
  BY <1>2, ForwarderKeeps
<1>3. ASSUME NEW b \in Blocks, NEW t \in Targets, JobStep(b, t) PROVE RefreshInv'
  BY <1>3, JobKeeps
<1>4. CASE Close
  BY <1>4, CloseKeeps
<1>5. CASE UNCHANGED refreshVars
  <2>1. UNCHANGED <<open, current, cancelled, job, chan, fetched, ordered, final, blockState>>
    BY <1>5 DEF refreshVars, jobs, client
  <2>2. RefreshTypeOK' /\ RegisteredInv' /\ CancelledByOwnSource'
    BY <2>1 DEF RefreshInv, RefreshTypeOK, RegisteredInv, CancelledByOwnSource
  <2>3. JobInv' /\ ReportInv' /\ FetchedInv'
    BY <2>1 DEF RefreshInv, JobInv, ReportInv, FetchedInv
  <2>4. NoFabricatedFailure' /\ FetchedIsDelivered'
    BY <2>1 DEF RefreshInv, NoFabricatedFailure, FetchedIsDelivered
  <2> QED
    BY <2>2, <2>3, <2>4 DEF RefreshInv
<1> QED
  BY <1>1, <1>2, <1>3, <1>4, <1>5 DEF RefreshNext

\* The inductive invariant holds throughout.
LEMMA RefreshInvariant == RefreshSpec => []RefreshInv
  BY InitRefreshInv, NextRefreshInv, PTL DEF RefreshSpec

\* For any blocks and targets, no final response reports a skipped fetch as a
\* failure (server.rs:114-137).
THEOREM SkippedIsNotFailed == RefreshSpec => []NoFabricatedFailure
<1>1. RefreshInv => NoFabricatedFailure
  BY DEF RefreshInv
<1> QED
  BY <1>1, RefreshInvariant, PTL

\* For any blocks and targets, what a job fetched is in the final response,
\* whenever its block was cancelled (service.rs:368-370).
THEOREM FetchedReachesClient == RefreshSpec => []FetchedIsDelivered
<1>1. RefreshInv => FetchedIsDelivered
  BY DEF RefreshInv
<1> QED
  BY <1>1, RefreshInvariant, PTL

\* For any manifests, only a newer refresh of the same manifest or the end of
\* the connection cancels a refresh (server.rs:67-74).
THEOREM SourcesIndependent == RefreshSpec => []CancelledByOwnSource
<1>1. RefreshInv => CancelledByOwnSource
  BY DEF RefreshInv
<1> QED
  BY <1>1, RefreshInvariant, PTL

(***************************************************************************)
(* The shared cache.                                                       *)
(***************************************************************************)

(* What the helpers return. *)

LEMMA EmptyType == Empty \in Map /\ NoFile \in Snapshot /\ IdsOf(Empty) = {}
BY RegistryCacheAssumption DEF Empty, Map, NoFile, Snapshot, Times, IdsOf

LEMMA AdoptClearType ==
    ASSUME NEW d, NEW map \in Map, NEW time
    PROVE  /\ AdoptClear(d, map, time) \in Map
           /\ \A k \in Keys : AdoptClear(d, map, time)[k] # None =>
                                  AdoptClear(d, map, time)[k] = map[k]
BY DEF AdoptClear, Map

LEMMA MergeNewestType ==
    ASSUME NEW ours \in Map, NEW theirs \in Map
    PROVE  /\ MergeNewest(ours, theirs) \in Map
           /\ \A k \in Keys : MergeNewest(ours, theirs)[k] \in {ours[k], theirs[k]}
BY DEF MergeNewest, Map

\* A package the file has is kept, and never made older.
LEMMA MergeNewestKeeps ==
    ASSUME NEW ours \in Map, NEW theirs \in Map, NEW k \in Keys, theirs[k] # None
    PROVE  /\ MergeNewest(ours, theirs)[k] # None
           /\ MergeNewest(ours, theirs)[k].at >= theirs[k].at
<1>1. theirs[k] \in Entry
  BY DEF Map
<1>2. theirs[k].at \in Nat
  BY <1>1, RegistryCacheAssumption DEF Entry, Times
<1>3. CASE ours[k] # None /\ ours[k].at >= theirs[k].at
  BY <1>3 DEF MergeNewest
<1>4. CASE ~(ours[k] # None /\ ours[k].at >= theirs[k].at)
  BY <1>2, <1>4 DEF MergeNewest
<1> QED BY <1>3, <1>4

LEMMA IdsOfType == ASSUME NEW map \in Map PROVE IdsOf(map) \subseteq Ids
BY DEF IdsOf, Map, Entry

LEMMA IdsOfMember ==
    ASSUME NEW map, NEW k \in Keys, map[k] # None
    PROVE  map[k].id \in IdsOf(map)
BY DEF IdsOf

LEMMA LoadedType ==
    ASSUME TypeOK, NEW readable \in BOOLEAN
    PROVE  /\ Loaded(readable) \in Snapshot
           /\ Loaded(readable).entries \in Map
           /\ Loaded(readable).clearedAt \in Times
           /\ IdsOf(Loaded(readable).entries) \subseteq IdsOf(file.entries)
<1>1. CASE readable
  BY <1>1 DEF Loaded, TypeOK, Snapshot
<1>2. CASE ~readable
  <2>1. Loaded(readable) = NoFile
    BY <1>2 DEF Loaded
  <2>2. NoFile.entries = Empty
    BY DEF NoFile
  <2> QED BY <2>1, <2>2, EmptyType DEF Snapshot
<1> QED BY <1>1, <1>2

LEMMA AdoptedAtType ==
    ASSUME TypeOK, NEW d \in Daemons, NEW time \in Times
    PROVE  AdoptedAt(d, time) \in Times
BY DEF AdoptedAt, TypeOK
-----------------------------------------------------------------------------
(* Type correctness. *)

LEMMA TypeInit == Init => TypeOK
<1> SUFFICES ASSUME Init PROVE TypeOK
  OBVIOUS
<1>1. 0 \in Times /\ 0 \in 0..MaxWrites
  BY RegistryCacheAssumption DEF Times
<1>2. mem \in [Daemons -> Map] /\ file \in Snapshot
  BY EmptyType DEF Init
<1>3. clearedAt \in [Daemons -> Times] /\ dirty \in [Daemons -> Nat]
  BY <1>1 DEF Init
<1>4. lock \in [Daemons -> Threads \cup {None}]
  BY DEF Init
<1>5. /\ pc \in [Threads -> {"idle", "count", "flush", "lock", "merge", "save", "wipe", "compact"}]
      /\ had \in [Threads -> Nat]
      /\ doomed \in [Threads -> SUBSET Ids]
  BY DEF Init
<1>6. disk \in [Threads -> Snapshot] /\ base \in [Threads -> Map] /\ snap \in [Threads -> Map]
  BY EmptyType DEF Init
<1> QED BY <1>1, <1>2, <1>3, <1>4, <1>5, <1>6 DEF Init, TypeOK

LEMMA ReturnType ==
    ASSUME TypeOK, NEW t \in Threads, Return(t)
    PROVE  /\ lock' \in [Daemons -> Threads \cup {None}]
           /\ pc' \in [Threads -> {"idle", "count", "flush", "lock", "merge", "save", "wipe", "compact"}]
           /\ had' \in [Threads -> Nat]
           /\ disk' \in [Threads -> Snapshot]
           /\ base' \in [Threads -> Map]
           /\ snap' \in [Threads -> Map]
           /\ doomed' \in [Threads -> SUBSET Ids]
           /\ blind' \subseteq Threads
BY EmptyType DEF Return, Goto, TypeOK

LEMMA ReplaceType ==
    ASSUME TypeOK, NEW t \in Threads, NEW map \in Map, Replace(t, map)
    PROVE  /\ file' \in Snapshot
           /\ saved' \subseteq Ids
           /\ outdated' \subseteq Threads
           /\ raced' \in BOOLEAN
<1>1. DaemonOf[t] \in Daemons
  BY RegistryCacheAssumption
<1>2. base[t] \in Map
  BY DEF TypeOK
<1>3. file' \in Snapshot
  BY <1>1 DEF Replace, TypeOK, Snapshot
<1>4. saved' \subseteq Ids
  BY <1>2, IdsOfType DEF Replace, TypeOK
<1>5. outdated' \subseteq Threads
  BY DEF Replace, TypeOK
<1>6. raced' \in BOOLEAN
  BY DEF Replace, TypeOK
<1> QED BY <1>3, <1>4, <1>5, <1>6

LEMMA KeepFileType ==
    ASSUME TypeOK, NEW t \in Threads, KeepFile(t)
    PROVE  /\ file' \in Snapshot
           /\ saved' \subseteq Ids
           /\ outdated' \subseteq Threads
           /\ raced' \in BOOLEAN
BY DEF KeepFile, TypeOK

LEMMA TypeStep == TypeOK /\ [Next]_vars => TypeOK'
<1> SUFFICES ASSUME TypeOK, [Next]_vars PROVE TypeOK'
  OBVIOUS
<1>s. \A t \in Threads : DaemonOf[t] \in Daemons
  BY RegistryCacheAssumption
<1>1. ASSUME NEW t \in Threads, NEW k \in Keys, NEW at \in Times, Insert(t, k, at)
      PROVE  TypeOK'
  <2>1. writes' \in 0..MaxWrites /\ writes + 1 \in Ids
    BY <1>1, RegistryCacheAssumption DEF Insert, TypeOK, Ids
  <2>2. [id |-> writes + 1, at |-> at] \in Entry
    BY <2>1 DEF Entry
  <2>3. [mem[DaemonOf[t]] EXCEPT ![k] = [id |-> writes + 1, at |-> at]] \in Map
    BY <1>s, <2>2 DEF TypeOK, Map
  <2>4. mem' = [mem EXCEPT ![DaemonOf[t]] = [mem[DaemonOf[t]] EXCEPT ![k] = [id |-> writes + 1, at |-> at]]]
    BY <1>1, <1>s DEF Insert, TypeOK
  <2>5. mem' \in [Daemons -> Map]
    BY <1>s, <2>3, <2>4 DEF TypeOK
  <2>6. pc' \in [Threads -> {"idle", "count", "flush", "lock", "merge", "save", "wipe", "compact"}]
    BY <1>1 DEF Insert, Goto, TypeOK
  <2> QED BY <1>1, <2>1, <2>5, <2>6 DEF Insert, TypeOK, history
<1>2. ASSUME NEW t \in Threads, Count(t) PROVE TypeOK'
  <2>1. dirty' \in [Daemons -> Nat]
    BY <1>2, <1>s DEF Count, TypeOK
  <2>2. pc' \in [Threads -> {"idle", "count", "flush", "lock", "merge", "save", "wipe", "compact"}]
    BY <1>2 DEF Count, Goto, TypeOK
  <2> QED BY <1>2, <2>1, <2>2 DEF Count, TypeOK, history
<1>3. ASSUME NEW t \in Threads, TakeCount(t) PROVE TypeOK'
  <2>1. dirty' \in [Daemons -> Nat]
    BY <1>3, <1>s DEF TakeCount, TypeOK
  <2>2. had' \in [Threads -> Nat]
    BY <1>3, <1>s DEF TakeCount, TypeOK
  <2>3. pc' \in [Threads -> {"idle", "count", "flush", "lock", "merge", "save", "wipe", "compact"}]
    BY <1>3 DEF TakeCount, Goto, TypeOK
  <2> QED BY <1>3, <2>1, <2>2, <2>3 DEF TakeCount, TypeOK, history
<1>4. ASSUME NEW t \in Threads, NEW readable \in BOOLEAN, Load(t, readable) PROVE TypeOK'
  <2>1. disk' \in [Threads -> Snapshot]
    BY <1>4, LoadedType DEF Load, TypeOK
  <2>2. blind' \subseteq Threads
    BY <1>4 DEF Load, TypeOK
  <2>3. pc' \in [Threads -> {"idle", "count", "flush", "lock", "merge", "save", "wipe", "compact"}]
    BY <1>4 DEF Load, Goto, TypeOK
  <2>4. lock' \in [Daemons -> Threads \cup {None}]
    BY <1>4 DEF Load, TypeOK
  <2> QED BY <1>4, <2>1, <2>2, <2>3, <2>4 DEF Load, TypeOK
<1>5. ASSUME NEW t \in Threads, Clone(t) PROVE TypeOK'
  <2> DEFINE d == DaemonOf[t]
             kept == AdoptClear(d, mem[d], disk[t].clearedAt)
  <2>1. d \in Daemons /\ mem[d] \in Map /\ disk[t].clearedAt \in Times /\ disk[t].entries \in Map
    BY <1>s DEF TypeOK, Snapshot
  <2>2. kept \in Map
    BY <2>1, AdoptClearType
  <2>3. MergeNewest(kept, disk[t].entries) \in Map
    BY <2>1, <2>2, MergeNewestType
  <2>4. mem' \in [Daemons -> Map]
    BY <1>5, <2>1, <2>2 DEF Clone, TypeOK
  <2>5. clearedAt' \in [Daemons -> Times]
    BY <1>5, <2>1, AdoptedAtType DEF Clone, TypeOK
  <2>6. base' \in [Threads -> Map]
    BY <1>5, <2>2 DEF Clone, TypeOK
  <2>7. snap' \in [Threads -> Map]
    BY <1>5, <2>3 DEF Clone, TypeOK
  <2>8. pc' \in [Threads -> {"idle", "count", "flush", "lock", "merge", "save", "wipe", "compact"}]
    BY <1>5 DEF Clone, Goto, TypeOK
  <2> QED BY <1>5, <2>4, <2>5, <2>6, <2>7, <2>8 DEF Clone, TypeOK, history
<1>6. ASSUME NEW t \in Threads, Save(t) PROVE TypeOK'
  <2>1. snap[t] \in Map
    BY DEF TypeOK
  <2> QED BY <1>6, <2>1, ReturnType, ReplaceType DEF Save, TypeOK
<1>7. ASSUME NEW t \in Threads, SaveFails(t) PROVE TypeOK'
  <2>1. dirty' \in [Daemons -> Nat]
    BY <1>7, <1>s DEF SaveFails, TypeOK
  <2> QED BY <1>7, <2>1, ReturnType, KeepFileType DEF SaveFails, TypeOK
<1>8. ASSUME NEW t \in Threads, Clear(t) PROVE TypeOK'
  <2>1. AllIds \subseteq Ids
    <3>1. IdsOf(file.entries) \subseteq Ids
      BY IdsOfType DEF TypeOK, Snapshot
    <3>2. \A d \in Daemons : IdsOf(mem[d]) \subseteq Ids
      BY IdsOfType DEF TypeOK
    <3> QED BY <3>1, <3>2 DEF AllIds
  <2>2. mem' \in [Daemons -> Map]
    BY <1>8, <1>s, EmptyType DEF Clear, TypeOK
  <2>3. clearedAt' \in [Daemons -> Times]
    BY <1>8, <1>s DEF Clear, TypeOK
  <2>4. dirty' \in [Daemons -> Nat]
    BY <1>8, <1>s DEF Clear, TypeOK
  <2>5. doomed' \in [Threads -> SUBSET Ids]
    BY <1>8, <2>1 DEF Clear, TypeOK
  <2>6. pc' \in [Threads -> {"idle", "count", "flush", "lock", "merge", "save", "wipe", "compact"}]
    BY <1>8 DEF Clear, Goto, TypeOK
  <2>7. lock' \in [Daemons -> Threads \cup {None}]
    BY <1>8 DEF Clear, TypeOK
  <2>8. raced' \in BOOLEAN
    BY <1>8, Zenon DEF Clear, TypeOK
  <2> QED BY <1>8, <2>2, <2>3, <2>4, <2>5, <2>6, <2>7, <2>8 DEF Clear, TypeOK
<1>9. ASSUME NEW t \in Threads, Wipe(t) PROVE TypeOK'
  <2>1. gone' \subseteq Ids
    BY <1>9 DEF Wipe, TypeOK
  <2> QED BY <1>9, <2>1, EmptyType, ReturnType, ReplaceType DEF Wipe, TypeOK
<1>10. ASSUME NEW t \in Threads, WipeFails(t) PROVE TypeOK'
  BY <1>10, ReturnType, KeepFileType DEF WipeFails, TypeOK
<1>11. ASSUME NEW t \in Threads, NEW readable \in BOOLEAN, NEW dropped \in SUBSET Keys,
              Compact(t, readable, dropped)
       PROVE  TypeOK'
  <2> DEFINE d == DaemonOf[t]
             old == Loaded(readable)
             merged == MergeNewest(AdoptClear(d, mem[d], old.clearedAt), old.entries)
             kept == [k \in Keys |-> IF k \in dropped THEN None ELSE merged[k]]
  <2>1. d \in Daemons /\ mem[d] \in Map /\ old.clearedAt \in Times /\ old.entries \in Map
    BY <1>s, LoadedType DEF TypeOK
  <2>2. merged \in Map
    BY <2>1, AdoptClearType, MergeNewestType
  <2>3. kept \in Map
    BY <2>2 DEF Map
  <2> HIDE DEF merged, kept, old
  <2>a. /\ mem' = [mem EXCEPT ![d] = kept]
        /\ clearedAt' = [clearedAt EXCEPT ![d] = AdoptedAt(d, old.clearedAt)]
        /\ base' = [base EXCEPT ![t] = kept]
        /\ snap' = [snap EXCEPT ![t] = kept]
    BY <1>11 DEF Compact, merged, kept, old
  <2>4. mem' \in [Daemons -> Map]
    BY <2>a, <2>1, <2>3 DEF TypeOK
  <2>5. clearedAt' \in [Daemons -> Times]
    BY <2>a, <2>1, AdoptedAtType DEF TypeOK
  <2>6. base' \in [Threads -> Map] /\ snap' \in [Threads -> Map]
    BY <2>a, <2>3 DEF TypeOK
  <2>7. pc' \in [Threads -> {"idle", "count", "flush", "lock", "merge", "save", "wipe", "compact"}]
    BY <1>11 DEF Compact, Goto, TypeOK
  <2>8. lock' \in [Daemons -> Threads \cup {None}]
    BY <1>11 DEF Compact, TypeOK
  <2>9. dirty' \in [Daemons -> Nat]
    BY <1>11 DEF Compact, TypeOK
  <2>10. blind' \subseteq Threads
    BY <1>11 DEF Compact, TypeOK
  <2> QED BY <1>11, <2>4, <2>5, <2>6, <2>7, <2>8, <2>9, <2>10 DEF Compact, TypeOK
<1>12. ASSUME NEW t \in Threads, SaveCompacted(t) PROVE TypeOK'
  <2>1. snap[t] \in Map
    BY DEF TypeOK
  <2> QED BY <1>12, <2>1, ReturnType, ReplaceType DEF SaveCompacted, TypeOK
<1>13. ASSUME NEW t \in Threads, SaveCompactedFails(t) PROVE TypeOK'
  <2>1. forgotten' \subseteq Ids
    BY <1>13, IdsOfType DEF SaveCompactedFails, TypeOK
  <2> QED BY <1>13, <2>1, ReturnType, KeepFileType DEF SaveCompactedFails, TypeOK
<1>14. ASSUME NEW d \in Daemons, NEW readable \in BOOLEAN, Restart(d, readable) PROVE TypeOK'
  <2>1. mem' \in [Daemons -> Map]
    BY <1>14, LoadedType DEF Restart, TypeOK
  <2>2. clearedAt' \in [Daemons -> Times]
    BY <1>14, LoadedType DEF Restart, TypeOK
  <2>3. dirty' \in [Daemons -> Nat] /\ lock' \in [Daemons -> Threads \cup {None}]
    BY <1>14 DEF Restart, TypeOK
  <2>4. pc' \in [Threads -> {"idle", "count", "flush", "lock", "merge", "save", "wipe", "compact"}]
    BY <1>14 DEF Restart, TypeOK
  <2>5. had' \in [Threads -> Nat] /\ doomed' \in [Threads -> SUBSET Ids]
    BY <1>14 DEF Restart, TypeOK
  <2>6. disk' \in [Threads -> Snapshot]
    BY <1>14, EmptyType DEF Restart, TypeOK
  <2>7. base' \in [Threads -> Map]
    BY <1>14, EmptyType DEF Restart, TypeOK
  <2>8. snap' \in [Threads -> Map]
    BY <1>14, EmptyType DEF Restart, TypeOK
  <2> QED BY <1>14, <2>1, <2>2, <2>3, <2>4, <2>5, <2>6, <2>7, <2>8 DEF Restart, TypeOK
<1>15. ASSUME Tick PROVE TypeOK'
  BY <1>15, RegistryCacheAssumption DEF Tick, TypeOK, state, local, history, Times
<1>16. ASSUME UNCHANGED vars PROVE TypeOK'
  BY <1>16 DEF TypeOK, vars, state, local, history
<1> QED
  BY <1>1, <1>2, <1>3, <1>4, <1>5, <1>6, <1>7, <1>8, <1>9, <1>10, <1>11, <1>12,
     <1>13, <1>14, <1>15, <1>16 DEF Next

\* Every reachable state is well typed, the history variables included.
THEOREM TypeCorrect == Spec => []TypeOK
BY TypeInit, TypeStep, PTL DEF Spec
-----------------------------------------------------------------------------
(* No write is forgotten. *)

\* A flush that is under way has taken a positive count, which it gives back
\* when it fails; whatever the file holds, or a save took from it, has been
\* saved.
HadPositive == \A t \in Threads : pc[t] \in {"lock", "merge", "save"} => had[t] > 0
FileSaved == IdsOf(file.entries) \subseteq saved
DiskSaved == \A t \in Threads : IdsOf(disk[t].entries) \subseteq saved
SnapSaved == \A t \in Threads : IdsOf(snap[t]) \subseteq IdsOf(base[t]) \cup saved

Accounted == TypeOK /\ HadPositive /\ FileSaved /\ DiskSaved /\ SnapSaved /\ NoWriteForgotten

LEMMA AccountedInit == Init => Accounted
<1> SUFFICES ASSUME Init PROVE Accounted
  OBVIOUS
<1>1. TypeOK
  BY TypeInit
<1>2. HadPositive
  BY DEF Init, HadPositive
<1>3. FileSaved /\ DiskSaved
  <2>1. NoFile.entries = Empty
    BY DEF NoFile
  <2> QED BY <2>1, EmptyType DEF Init, FileSaved, DiskSaved
<1>4. SnapSaved
  BY EmptyType DEF Init, SnapSaved
<1>5. NoWriteForgotten
  BY DEF Init, NoWriteForgotten, Empty
<1> QED BY <1>1, <1>2, <1>3, <1>4, <1>5 DEF Accounted

LEMMA IdsOfMerge ==
    ASSUME NEW ours \in Map, NEW theirs \in Map
    PROVE  IdsOf(MergeNewest(ours, theirs)) \subseteq IdsOf(ours) \cup IdsOf(theirs)
BY MergeNewestType DEF IdsOf

\* The saves' own parts of the invariant.
LEMMA SavedStep ==
    ASSUME TypeOK, HadPositive, FileSaved, DiskSaved, SnapSaved, [Next]_vars
    PROVE  HadPositive' /\ FileSaved' /\ DiskSaved' /\ SnapSaved' /\ saved \subseteq saved'
<1> DEFINE Goal == HadPositive' /\ FileSaved' /\ DiskSaved' /\ SnapSaved' /\ saved \subseteq saved'
<1>s. \A t \in Threads : DaemonOf[t] \in Daemons
  BY RegistryCacheAssumption
<1>f. NoFile.entries = Empty /\ IdsOf(Empty) = {}
  BY EmptyType DEF NoFile
\* A thread that returns is at rest.
<1>r. ASSUME NEW t \in Threads, Return(t), saved \subseteq saved'
      PROVE  HadPositive' /\ DiskSaved' /\ SnapSaved'
  <2>1. HadPositive'
    BY <1>r DEF Return, Goto, HadPositive, TypeOK
  <2>2. ASSUME NEW u \in Threads PROVE IdsOf(disk'[u].entries) \subseteq saved'
    <3>1. CASE u = t
      BY <1>r, <1>f, <3>1 DEF Return, TypeOK
    <3>2. CASE u # t
      BY <1>r, <3>2 DEF Return, DiskSaved, TypeOK
    <3> QED BY <3>1, <3>2
  <2>3. ASSUME NEW u \in Threads PROVE IdsOf(snap'[u]) \subseteq IdsOf(base'[u]) \cup saved'
    <3>1. CASE u = t
      BY <1>r, <1>f, <3>1 DEF Return, TypeOK
    <3>2. CASE u # t
      <4>1. snap'[u] = snap[u] /\ base'[u] = base[u]
        BY <1>r, <3>2 DEF Return, TypeOK
      <4> QED BY <1>r, <4>1 DEF SnapSaved
    <3> QED BY <3>1, <3>2
  <2>4. DiskSaved'
    BY <2>2 DEF DiskSaved, IdsOf
  <2>5. SnapSaved'
    BY <2>3 DEF SnapSaved, IdsOf
  <2> QED BY <2>1, <2>4, <2>5
\* What is renamed into place is based on memory or was there before.
<1>p. ASSUME NEW t \in Threads, NEW map \in Map, IdsOf(map) \subseteq IdsOf(base[t]) \cup saved,
             Replace(t, map)
      PROVE  FileSaved' /\ saved \subseteq saved'
  <2>1. file'.entries = map /\ saved' = saved \cup IdsOf(base[t])
    BY <1>p DEF Replace
  <2> QED BY <1>p, <2>1 DEF FileSaved, IdsOf
<1>k. ASSUME NEW t \in Threads, KeepFile(t)
      PROVE  FileSaved' /\ saved \subseteq saved'
  BY <1>k DEF KeepFile, FileSaved, IdsOf
<1>1. ASSUME NEW t \in Threads, NEW k \in Keys, NEW at \in Times, Insert(t, k, at)
      PROVE  Goal
  BY <1>1 DEF Insert, Goto, HadPositive, FileSaved, DiskSaved, SnapSaved, IdsOf, TypeOK, history
<1>2. ASSUME NEW t \in Threads, Count(t) PROVE Goal
  BY <1>2 DEF Count, Goto, HadPositive, FileSaved, DiskSaved, SnapSaved, IdsOf, TypeOK, history
<1>3. ASSUME NEW t \in Threads, TakeCount(t) PROVE Goal
  <2>1. HadPositive'
    BY <1>3, <1>s DEF TakeCount, Goto, HadPositive, TypeOK
  <2> QED BY <1>3, <2>1 DEF TakeCount, FileSaved, DiskSaved, SnapSaved, IdsOf, history
<1>4. ASSUME NEW t \in Threads, NEW readable \in BOOLEAN, Load(t, readable) PROVE Goal
  <2>1. HadPositive'
    BY <1>4 DEF Load, Goto, HadPositive, TypeOK
  <2>2. ASSUME NEW u \in Threads PROVE IdsOf(disk'[u].entries) \subseteq saved
    <3>1. CASE u = t
      <4>1. disk'[u] = Loaded(readable)
        BY <1>4, <3>1 DEF Load, TypeOK
      <4> QED BY <4>1, LoadedType DEF FileSaved
    <3>2. CASE u # t
      BY <1>4, <3>2 DEF Load, DiskSaved, TypeOK
    <3> QED BY <3>1, <3>2
  <2>3. DiskSaved'
    BY <1>4, <2>2 DEF Load, DiskSaved, IdsOf
  <2> QED BY <1>4, <2>1, <2>3 DEF Load, FileSaved, SnapSaved, IdsOf
<1>5. ASSUME NEW t \in Threads, Clone(t) PROVE Goal
  <2> DEFINE d == DaemonOf[t]
             kept == AdoptClear(d, mem[d], disk[t].clearedAt)
  <2>1. mem[d] \in Map /\ disk[t].entries \in Map
    BY <1>s DEF TypeOK, Snapshot
  <2>2. kept \in Map
    BY <2>1, AdoptClearType
  <2>3. base'[t] = kept /\ snap'[t] = MergeNewest(kept, disk[t].entries) /\ UNCHANGED saved
    BY <1>5 DEF Clone, TypeOK, history
  <2> HIDE DEF kept
  <2>4. IdsOf(snap'[t]) \subseteq IdsOf(base'[t]) \cup saved'
    BY <2>1, <2>2, <2>3, IdsOfMerge DEF DiskSaved
  <2>5. ASSUME NEW u \in Threads, u # t PROVE IdsOf(snap'[u]) \subseteq IdsOf(base'[u]) \cup saved'
    <3>1. snap'[u] = snap[u] /\ base'[u] = base[u]
      BY <1>5, <2>5 DEF Clone, TypeOK
    <3> QED BY <2>3, <3>1 DEF SnapSaved
  <2>6. SnapSaved'
    BY <2>4, <2>5 DEF SnapSaved, IdsOf
  <2>7. HadPositive'
    BY <1>5 DEF Clone, Goto, HadPositive, TypeOK
  <2> QED BY <1>5, <2>6, <2>7 DEF Clone, FileSaved, DiskSaved, IdsOf, history
<1>6. ASSUME NEW t \in Threads, Save(t) PROVE Goal
  <2>1. FileSaved' /\ saved \subseteq saved'
    BY <1>6, <1>p DEF Save, SnapSaved, TypeOK
  <2> QED BY <1>6, <1>r, <2>1 DEF Save
<1>7. ASSUME NEW t \in Threads, SaveFails(t) PROVE Goal
  BY <1>7, <1>r, <1>k DEF SaveFails
<1>8. ASSUME NEW t \in Threads, Clear(t) PROVE Goal
  <2>1. HadPositive'
    BY <1>8 DEF Clear, Goto, HadPositive, TypeOK
  <2> QED BY <1>8, <2>1 DEF Clear, FileSaved, DiskSaved, SnapSaved, IdsOf
<1>9. ASSUME NEW t \in Threads, Wipe(t) PROVE Goal
  <2>1. FileSaved' /\ saved \subseteq saved'
    BY <1>9, <1>p, EmptyType DEF Wipe
  <2> QED BY <1>9, <1>r, <2>1 DEF Wipe
<1>10. ASSUME NEW t \in Threads, WipeFails(t) PROVE Goal
  BY <1>10, <1>r, <1>k DEF WipeFails
<1>11. ASSUME NEW t \in Threads, NEW readable \in BOOLEAN, NEW dropped \in SUBSET Keys,
              Compact(t, readable, dropped)
       PROVE  Goal
  <2>1. HadPositive'
    BY <1>11 DEF Compact, Goto, HadPositive, TypeOK
  <2>2. snap'[t] = base'[t] /\ UNCHANGED saved
    BY <1>11 DEF Compact, TypeOK
  <2>3. ASSUME NEW u \in Threads, u # t PROVE snap'[u] = snap[u] /\ base'[u] = base[u]
    BY <1>11, <2>3 DEF Compact, TypeOK
  <2>4. SnapSaved'
    BY <2>2, <2>3 DEF SnapSaved, IdsOf
  <2> QED BY <1>11, <2>1, <2>4 DEF Compact, FileSaved, DiskSaved, IdsOf
<1>12. ASSUME NEW t \in Threads, SaveCompacted(t) PROVE Goal
  <2>1. FileSaved' /\ saved \subseteq saved'
    BY <1>12, <1>p DEF SaveCompacted, SnapSaved, TypeOK
  <2> QED BY <1>12, <1>r, <2>1 DEF SaveCompacted
<1>13. ASSUME NEW t \in Threads, SaveCompactedFails(t) PROVE Goal
  BY <1>13, <1>r, <1>k DEF SaveCompactedFails
<1>14. ASSUME NEW d \in Daemons, NEW readable \in BOOLEAN, Restart(d, readable) PROVE Goal
  <2>1. HadPositive'
    BY <1>14 DEF Restart, HadPositive
  <2>2. ASSUME NEW u \in Threads PROVE IdsOf(disk'[u].entries) \subseteq saved
    <3>1. disk'[u] \in {NoFile, disk[u]}
      BY <1>14 DEF Restart
    <3> QED BY <3>1, <1>f DEF DiskSaved
  <2>3. ASSUME NEW u \in Threads PROVE IdsOf(snap'[u]) \subseteq IdsOf(base'[u]) \cup saved
    <3>1. CASE DaemonOf[u] = d
      BY <1>14, <1>f, <3>1 DEF Restart
    <3>2. CASE DaemonOf[u] # d
      BY <1>14, <3>2 DEF Restart, SnapSaved
    <3> QED BY <3>1, <3>2
  <2>4. DiskSaved' /\ SnapSaved'
    BY <1>14, <2>2, <2>3 DEF Restart, DiskSaved, SnapSaved, IdsOf
  <2> QED BY <1>14, <2>1, <2>4 DEF Restart, FileSaved, IdsOf
<1>15. ASSUME Tick PROVE Goal
  BY <1>15 DEF Tick, HadPositive, FileSaved, DiskSaved, SnapSaved, IdsOf, state, local, history
<1>16. ASSUME UNCHANGED vars PROVE Goal
  BY <1>16 DEF vars, HadPositive, FileSaved, DiskSaved, SnapSaved, IdsOf, state, local, history
<1> QED
  BY <1>1, <1>2, <1>3, <1>4, <1>5, <1>6, <1>7, <1>8, <1>9, <1>10, <1>11, <1>12,
     <1>13, <1>14, <1>15, <1>16 DEF Next

Good(d, k) == dirty[d] > 0 \/ \E t \in Threads : Covers(t, d, k)

\* A step of thread t, or of nobody, that leaves an entry where it is: the
\* entry stays accounted for if the count does not vanish and t, in case t
\* was the one to save it, leaves it accounted for.
LEMMA Carried ==
    ASSUME NoWriteForgotten, NEW t,
           \A u \in Threads \ {t} : pc'[u] = pc[u] /\ base'[u] = base[u],
           NEW d \in Daemons, NEW k \in Keys,
           mem'[d][k] = mem[d][k], mem[d][k] # None,
           mem[d][k].id \notin saved' \cup forgotten',
           saved \subseteq saved', forgotten \subseteq forgotten',
           dirty[d] > 0 => Good(d, k)',
           t \in Threads /\ Covers(t, d, k) => Good(d, k)'
    PROVE  Good(d, k)'
<1>1. dirty[d] > 0 \/ \E u \in Threads : Covers(u, d, k)
  BY DEF NoWriteForgotten
<1>2. ASSUME NEW u \in Threads, Covers(u, d, k), u # t PROVE Good(d, k)'
  BY <1>2 DEF Covers, Good
<1> QED BY <1>1, <1>2

LEMMA ForgottenStep ==
    ASSUME Accounted, [Next]_vars, FileSaved'
    PROVE  NoWriteForgotten'
<1> SUFFICES ASSUME NEW d \in Daemons, NEW k \in Keys,
                    mem'[d][k] # None, mem'[d][k].id \notin saved' \cup forgotten'
             PROVE  Good(d, k)'
  BY DEF NoWriteForgotten, Good, Covers
<1> USE DEF Accounted
<1>s. saved \subseteq saved'
  BY SavedStep
<1>d. \A t \in Threads : DaemonOf[t] \in Daemons
  BY RegistryCacheAssumption
<1>r. ASSUME NEW t \in Threads, Return(t)
      PROVE  \A u \in Threads \ {t} : pc'[u] = pc[u] /\ base'[u] = base[u]
  BY <1>r DEF Return, Goto, TypeOK
<1>1. ASSUME NEW t \in Threads, NEW j \in Keys, NEW at \in Times, Insert(t, j, at)
      PROVE  Good(d, k)'
  <2>1. CASE d = DaemonOf[t]
    <3>1. pc'[t] = "count"
      BY <1>1 DEF Insert, Goto, TypeOK
    <3> QED BY <2>1, <3>1 DEF Good, Covers
  <2>2. CASE d # DaemonOf[t]
    <3>1. mem'[d][k] = mem[d][k] /\ dirty' = dirty /\ forgotten' = forgotten
      BY <1>1, <2>2 DEF Insert, TypeOK, history
    <3>2. \A u \in Threads \ {t} : pc'[u] = pc[u] /\ base'[u] = base[u]
      BY <1>1 DEF Insert, Goto, TypeOK
    <3>3. ~Covers(t, d, k)
      BY <2>2 DEF Covers
    <3>4. dirty[d] > 0 => Good(d, k)'
      BY <3>1 DEF Good
    <3> QED BY <1>s, <3>1, <3>2, <3>3, <3>4, Carried
  <2> QED BY <2>1, <2>2
<1>2. ASSUME NEW t \in Threads, Count(t) PROVE Good(d, k)'
  <2>1. CASE d = DaemonOf[t]
    BY <1>2, <1>d, <2>1 DEF Count, Good, TypeOK
  <2>2. CASE d # DaemonOf[t]
    <3>1. mem' = mem /\ dirty'[d] = dirty[d] /\ forgotten' = forgotten
      BY <1>2, <2>2 DEF Count, TypeOK, history
    <3>2. \A u \in Threads \ {t} : pc'[u] = pc[u] /\ base'[u] = base[u]
      BY <1>2 DEF Count, Goto, TypeOK
    <3>3. ~Covers(t, d, k)
      BY <2>2 DEF Covers
    <3>4. dirty[d] > 0 => Good(d, k)'
      BY <3>1 DEF Good
    <3> QED BY <1>s, <3>1, <3>2, <3>3, <3>4, Carried
  <2> QED BY <2>1, <2>2
<1>3. ASSUME NEW t \in Threads, TakeCount(t) PROVE Good(d, k)'
  <2>1. mem' = mem /\ forgotten' = forgotten
    BY <1>3 DEF TakeCount, history
  <2>2. \A u \in Threads \ {t} : pc'[u] = pc[u] /\ base'[u] = base[u]
    BY <1>3 DEF TakeCount, Goto, TypeOK
  <2>3. ~Covers(t, d, k)
    BY <1>3 DEF TakeCount, Covers
  <2>4. ASSUME dirty[d] > 0 PROVE Good(d, k)'
    <3>1. CASE d = DaemonOf[t]
      <4>1. pc'[t] = "lock"
        BY <1>3, <2>4, <3>1 DEF TakeCount, Goto, TypeOK
      <4> QED BY <3>1, <4>1 DEF Good, Covers
    <3>2. CASE d # DaemonOf[t]
      BY <1>3, <2>4, <3>2 DEF TakeCount, Good, TypeOK
    <3> QED BY <3>1, <3>2
  <2> QED BY <1>s, <2>1, <2>2, <2>3, <2>4, Carried
<1>4. ASSUME NEW t \in Threads, NEW readable \in BOOLEAN, Load(t, readable) PROVE Good(d, k)'
  <2>1. mem' = mem /\ dirty' = dirty /\ forgotten' = forgotten
    BY <1>4 DEF Load
  <2>2. \A u \in Threads \ {t} : pc'[u] = pc[u] /\ base'[u] = base[u]
    BY <1>4 DEF Load, Goto, TypeOK
  <2>3. Covers(t, d, k) => Good(d, k)'
    BY <1>4 DEF Load, Goto, Covers, Good, TypeOK
  <2>4. dirty[d] > 0 => Good(d, k)'
    BY <2>1 DEF Good
  <2> QED BY <1>s, <2>1, <2>2, <2>3, <2>4, Carried
<1>5. ASSUME NEW t \in Threads, Clone(t) PROVE Good(d, k)'
  <2>1. CASE d = DaemonOf[t]
    <3>1. pc'[t] = "save" /\ base'[t][k] = mem'[d][k]
      BY <1>5, <2>1 DEF Clone, Goto, TypeOK
    <3> QED BY <2>1, <3>1 DEF Good, Covers
  <2>2. CASE d # DaemonOf[t]
    <3>1. mem'[d][k] = mem[d][k] /\ dirty' = dirty /\ forgotten' = forgotten
      BY <1>5, <2>2 DEF Clone, TypeOK, history
    <3>2. \A u \in Threads \ {t} : pc'[u] = pc[u] /\ base'[u] = base[u]
      BY <1>5 DEF Clone, Goto, TypeOK
    <3>3. ~Covers(t, d, k)
      BY <2>2 DEF Covers
    <3>4. dirty[d] > 0 => Good(d, k)'
      BY <3>1 DEF Good
    <3> QED BY <1>s, <3>1, <3>2, <3>3, <3>4, Carried
  <2> QED BY <2>1, <2>2
\* A completed save has taken account of the entries it is based on.
<1>p. ASSUME NEW t \in Threads, NEW map, Replace(t, map), Return(t),
             mem' = mem, dirty' = dirty, forgotten' = forgotten,
             pc[t] \in {"save", "compact", "wipe"}
      PROVE  Good(d, k)'
  <2>1. ~Covers(t, d, k)
    <3> SUFFICES ASSUME Covers(t, d, k) PROVE FALSE
      OBVIOUS
    <3>1. base[t][k] = mem[d][k]
      BY <1>p DEF Covers
    <3>2. mem[d][k].id \in IdsOf(base[t])
      BY <1>p, <3>1, IdsOfMember
    <3> QED BY <1>p, <3>2 DEF Replace
  <2>2. dirty[d] > 0 => Good(d, k)'
    BY <1>p DEF Good
  <2> QED BY <1>p, <1>r, <1>s, <2>1, <2>2, Carried
<1>6. ASSUME NEW t \in Threads, Save(t) PROVE Good(d, k)'
  BY <1>6, <1>p DEF Save
<1>7. ASSUME NEW t \in Threads, SaveFails(t) PROVE Good(d, k)'
  <2>1. CASE d = DaemonOf[t]
    <3>1. had[t] > 0 /\ had[t] \in Nat /\ dirty[d] \in Nat
      BY <1>7 DEF SaveFails, HadPositive, TypeOK
    <3>2. dirty'[d] = dirty[d] + had[t]
      BY <1>7, <2>1 DEF SaveFails, TypeOK
    <3> QED BY <3>1, <3>2 DEF Good
  <2>2. CASE d # DaemonOf[t]
    <3>1. mem' = mem /\ dirty'[d] = dirty[d] /\ forgotten' = forgotten
      BY <1>7, <2>2 DEF SaveFails, TypeOK
    <3>2. ~Covers(t, d, k)
      BY <2>2 DEF Covers
    <3>3. dirty[d] > 0 => Good(d, k)'
      BY <3>1 DEF Good
    <3>4. Return(t)
      BY <1>7 DEF SaveFails
    <3> QED BY <1>r, <1>s, <3>1, <3>2, <3>3, <3>4, Carried
  <2> QED BY <2>1, <2>2
<1>8. ASSUME NEW t \in Threads, Clear(t) PROVE Good(d, k)'
  <2>1. d # DaemonOf[t]
    BY <1>8 DEF Clear, Empty, TypeOK
  <2>2. mem'[d][k] = mem[d][k] /\ dirty'[d] = dirty[d] /\ forgotten' = forgotten
    BY <1>8, <2>1 DEF Clear, TypeOK
  <2>3. \A u \in Threads \ {t} : pc'[u] = pc[u] /\ base'[u] = base[u]
    BY <1>8 DEF Clear, Goto, TypeOK
  <2>4. ~Covers(t, d, k)
    BY <2>1 DEF Covers
  <2>5. dirty[d] > 0 => Good(d, k)'
    BY <2>2 DEF Good
  <2> QED BY <1>s, <2>2, <2>3, <2>4, <2>5, Carried
<1>9. ASSUME NEW t \in Threads, Wipe(t) PROVE Good(d, k)'
  BY <1>9, <1>p DEF Wipe
<1>10. ASSUME NEW t \in Threads, WipeFails(t) PROVE Good(d, k)'
  <2>1. Return(t) /\ mem' = mem /\ dirty' = dirty /\ forgotten' = forgotten
    BY <1>10 DEF WipeFails
  <2>2. ~Covers(t, d, k)
    BY <1>10 DEF WipeFails, Covers
  <2>3. dirty[d] > 0 => Good(d, k)'
    BY <2>1 DEF Good
  <2> QED BY <1>r, <1>s, <2>1, <2>2, <2>3, Carried
<1>11. ASSUME NEW t \in Threads, NEW readable \in BOOLEAN, NEW dropped \in SUBSET Keys,
              Compact(t, readable, dropped)
       PROVE  Good(d, k)'
  <2>1. CASE d = DaemonOf[t]
    <3>1. pc'[t] = "compact" /\ base'[t][k] = mem'[d][k]
      BY <1>11, <2>1 DEF Compact, Goto, TypeOK
    <3> QED BY <2>1, <3>1 DEF Good, Covers
  <2>2. CASE d # DaemonOf[t]
    <3>1. mem'[d][k] = mem[d][k] /\ dirty'[d] = dirty[d] /\ forgotten' = forgotten
      BY <1>11, <2>2 DEF Compact, TypeOK
    <3>2. \A u \in Threads \ {t} : pc'[u] = pc[u] /\ base'[u] = base[u]
      BY <1>11 DEF Compact, Goto, TypeOK
    <3>3. ~Covers(t, d, k)
      BY <2>2 DEF Covers
    <3>4. dirty[d] > 0 => Good(d, k)'
      BY <3>1 DEF Good
    <3> QED BY <1>s, <3>1, <3>2, <3>3, <3>4, Carried
  <2> QED BY <2>1, <2>2
<1>12. ASSUME NEW t \in Threads, SaveCompacted(t) PROVE Good(d, k)'
  BY <1>12, <1>p DEF SaveCompacted
<1>13. ASSUME NEW t \in Threads, SaveCompactedFails(t) PROVE Good(d, k)'
  <2>1. /\ Return(t) /\ mem' = mem /\ dirty' = dirty /\ saved' = saved
        /\ forgotten' = forgotten \cup (IdsOf(base[t]) \ saved)
    BY <1>13 DEF SaveCompactedFails, KeepFile
  <2>2. ~Covers(t, d, k)
    <3> SUFFICES ASSUME Covers(t, d, k) PROVE FALSE
      OBVIOUS
    <3>1. base[t][k] = mem[d][k]
      BY <1>13 DEF Covers, SaveCompactedFails
    <3>2. mem[d][k].id \in IdsOf(base[t])
      BY <2>1, <3>1, IdsOfMember
    <3> QED BY <2>1, <3>2
  <2>3. dirty[d] > 0 => Good(d, k)'
    BY <2>1 DEF Good
  <2>4. forgotten \subseteq forgotten'
    BY <2>1
  <2> QED BY <1>r, <1>s, <2>1, <2>2, <2>3, <2>4, Carried
<1>14. ASSUME NEW e \in Daemons, NEW readable \in BOOLEAN, Restart(e, readable) PROVE Good(d, k)'
  <2>1. d # e
    <3> SUFFICES ASSUME d = e PROVE FALSE
      OBVIOUS
    <3>1. mem'[d] = Loaded(readable).entries /\ saved' = saved
      BY <1>14 DEF Restart, TypeOK
    <3>2. mem'[d][k].id \in IdsOf(Loaded(readable).entries)
      BY <3>1, IdsOfMember
    <3> QED BY <3>1, <3>2, LoadedType DEF FileSaved
  <2>2. mem'[d][k] = mem[d][k] /\ dirty'[d] = dirty[d] /\ forgotten' = forgotten /\ saved' = saved
    BY <1>14, <2>1 DEF Restart, TypeOK
  <2>3. ASSUME NEW u \in Threads, Covers(u, d, k) PROVE Good(d, k)'
    <3>1. pc'[u] = pc[u] /\ base'[u] = base[u]
      BY <1>14, <2>1, <2>3 DEF Restart, Covers
    <3> QED BY <2>2, <2>3, <3>1 DEF Covers, Good
  <2> QED BY <2>2, <2>3 DEF NoWriteForgotten, Good
<1>15. ASSUME Tick PROVE Good(d, k)'
  BY <1>15 DEF Tick, NoWriteForgotten, Good, Covers, state, local, history
<1>16. ASSUME UNCHANGED vars PROVE Good(d, k)'
  BY <1>16 DEF vars, NoWriteForgotten, Good, Covers, state, local, history
<1> QED
  BY <1>1, <1>2, <1>3, <1>4, <1>5, <1>6, <1>7, <1>8, <1>9, <1>10, <1>11, <1>12,
     <1>13, <1>14, <1>15, <1>16 DEF Next

LEMMA AccountedStep == Accounted /\ [Next]_vars => Accounted'
BY TypeStep, SavedStep, ForgottenStep DEF Accounted

\* However flushes, failures, clears, compactions and restarts interleave, a
\* write that is in memory and not in the file will be saved by the next flush
\* or is being saved (cache.rs:16-17, 135-147).
THEOREM WritesAccounted == Spec => []NoWriteForgotten
<1>1. Accounted => NoWriteForgotten
  BY DEF Accounted
<1> QED BY AccountedInit, AccountedStep, <1>1, PTL DEF Spec
-----------------------------------------------------------------------------
(* Saves merge. *)

\* Whoever is between loading and renaming holds its daemon's persist_lock; what
\* it loaded is what the file still holds, unless it is known not to be; and
\* what it will write is the merge of that with memory.
LockHeld ==
    \A t \in Threads : pc[t] \in {"merge", "save", "wipe", "compact"} => lock[DaemonOf[t]] = t
LoadedIsCurrent ==
    \A t \in Threads : pc[t] \in {"merge", "save"} /\ t \notin outdated \cup blind => disk[t] = file
SnapMerged ==
    \A t \in Threads : pc[t] = "save" => snap[t] = MergeNewest(base[t], disk[t].entries)

Orderly == TypeOK /\ LockHeld /\ LoadedIsCurrent /\ SnapMerged

LEMMA OrderlyInit == Init => Orderly
BY TypeInit DEF Init, Orderly, LockHeld, LoadedIsCurrent, SnapMerged

LEMMA LockHeldStep == ASSUME TypeOK, LockHeld, [Next]_vars PROVE LockHeld'
<1>d. \A t \in Threads : DaemonOf[t] \in Daemons
  BY RegistryCacheAssumption
<1>r. ASSUME NEW t \in Threads, pc[t] \in {"merge", "save", "wipe", "compact"}, Return(t)
      PROVE  LockHeld'
  <2> SUFFICES ASSUME NEW u \in Threads, pc'[u] \in {"merge", "save", "wipe", "compact"}
               PROVE  lock'[DaemonOf[u]] = u
    BY DEF LockHeld
  <2>1. u # t /\ pc'[u] = pc[u]
    BY <1>r DEF Return, Goto, TypeOK
  <2>2. DaemonOf[u] # DaemonOf[t]
    BY <1>r, <2>1 DEF LockHeld
  <2> QED BY <1>r, <1>d, <2>1, <2>2 DEF Return, LockHeld, TypeOK
\* Taking the mutex, which nobody holds.
<1>t. ASSUME NEW t \in Threads, lock[DaemonOf[t]] = None,
             lock' = [lock EXCEPT ![DaemonOf[t]] = t],
             \A u \in Threads \ {t} : pc'[u] = pc[u]
      PROVE  LockHeld'
  <2>1. \A u \in Threads \ {t} : pc[u] \in {"merge", "save", "wipe", "compact"} => DaemonOf[u] # DaemonOf[t]
    BY <1>t, RegistryCacheAssumption DEF LockHeld
  <2> QED BY <1>t, <1>d, <2>1 DEF LockHeld, TypeOK
<1>1. ASSUME NEW t \in Threads, NEW k \in Keys, NEW at \in Times, Insert(t, k, at) PROVE LockHeld'
  BY <1>1 DEF Insert, Goto, LockHeld, TypeOK
<1>2. ASSUME NEW t \in Threads, Count(t) PROVE LockHeld'
  BY <1>2 DEF Count, Goto, LockHeld, TypeOK
<1>3. ASSUME NEW t \in Threads, TakeCount(t) PROVE LockHeld'
  BY <1>3 DEF TakeCount, Goto, LockHeld, TypeOK
<1>4. ASSUME NEW t \in Threads, NEW readable \in BOOLEAN, Load(t, readable) PROVE LockHeld'
  BY <1>4, <1>t DEF Load, Goto, TypeOK
<1>5. ASSUME NEW t \in Threads, Clone(t) PROVE LockHeld'
  BY <1>5 DEF Clone, Goto, LockHeld, TypeOK
<1>6. ASSUME NEW t \in Threads,
             Save(t) \/ SaveFails(t) \/ Wipe(t) \/ WipeFails(t) \/ SaveCompacted(t) \/ SaveCompactedFails(t)
      PROVE  LockHeld'
  BY <1>6, <1>r DEF Save, SaveFails, Wipe, WipeFails, SaveCompacted, SaveCompactedFails
<1>7. ASSUME NEW t \in Threads, Clear(t) PROVE LockHeld'
  BY <1>7, <1>t DEF Clear, Goto, TypeOK
<1>8. ASSUME NEW t \in Threads, NEW readable \in BOOLEAN, NEW dropped \in SUBSET Keys,
             Compact(t, readable, dropped)
      PROVE  LockHeld'
  BY <1>8, <1>t DEF Compact, Goto, TypeOK
<1>9. ASSUME NEW d \in Daemons, NEW readable \in BOOLEAN, Restart(d, readable) PROVE LockHeld'
  BY <1>9, <1>d DEF Restart, LockHeld, TypeOK
<1>10. ASSUME Tick PROVE LockHeld'
  BY <1>10 DEF Tick, LockHeld, state, local
<1>11. ASSUME UNCHANGED vars PROVE LockHeld'
  BY <1>11 DEF vars, LockHeld, state, local
<1> QED BY <1>1, <1>2, <1>3, <1>4, <1>5, <1>6, <1>7, <1>8, <1>9, <1>10, <1>11 DEF Next

LEMMA CurrentStep ==
    ASSUME TypeOK, LockHeld, LoadedIsCurrent, SnapMerged, [Next]_vars
    PROVE  LoadedIsCurrent' /\ SnapMerged'
<1> DEFINE Goal == LoadedIsCurrent' /\ SnapMerged'
<1>d. \A t \in Threads : DaemonOf[t] \in Daemons
  BY RegistryCacheAssumption
\* A step of t that touches neither the file nor what other threads loaded.
<1>o. ASSUME NEW t \in Threads,
             file' = file, pc'[t] \notin {"merge", "save"},
             \A u \in Threads \ {t} : /\ pc'[u] = pc[u] /\ disk'[u] = disk[u]
                                      /\ base'[u] = base[u] /\ snap'[u] = snap[u]
                                      /\ u \notin outdated' \cup blind' => u \notin outdated \cup blind
      PROVE  Goal
  <2>1. LoadedIsCurrent'
    BY <1>o DEF LoadedIsCurrent
  <2>2. SnapMerged'
    BY <1>o DEF SnapMerged
  <2> QED BY <2>1, <2>2
<1>k. ASSUME NEW t \in Threads, KeepFile(t), Return(t) PROVE Goal
  BY <1>k, <1>o DEF KeepFile, Return, Goto, TypeOK
\* A rename outdates the other daemons; of its own daemon nobody else is in.
<1>p. ASSUME NEW t \in Threads, NEW map, Replace(t, map), Return(t),
             pc[t] \in {"merge", "save", "wipe", "compact"}
      PROVE  Goal
  <2>1. ASSUME NEW u \in Threads, pc'[u] \in {"merge", "save"}
        PROVE  u \in outdated' /\ snap'[u] = snap[u] /\ base'[u] = base[u] /\ disk'[u] = disk[u]
               /\ pc'[u] = pc[u]
    <3>1. u # t /\ pc'[u] = pc[u]
      BY <1>p, <2>1 DEF Return, Goto, TypeOK
    <3>2. DaemonOf[u] # DaemonOf[t]
      BY <1>p, <2>1, <3>1 DEF LockHeld
    <3> QED BY <1>p, <2>1, <3>1, <3>2 DEF Replace, Return, TypeOK
  <2>2. LoadedIsCurrent'
    BY <2>1 DEF LoadedIsCurrent
  <2>3. SnapMerged'
    <3> SUFFICES ASSUME NEW u \in Threads, pc'[u] = "save"
                 PROVE  snap'[u] = MergeNewest(base'[u], disk'[u].entries)
      BY DEF SnapMerged, MergeNewest
    <3> QED BY <2>1 DEF SnapMerged
  <2> QED BY <2>2, <2>3
<1>1. ASSUME NEW t \in Threads, NEW k \in Keys, NEW at \in Times, Insert(t, k, at) PROVE Goal
  BY <1>1, <1>o DEF Insert, Goto, TypeOK, history
<1>2. ASSUME NEW t \in Threads, Count(t) PROVE Goal
  BY <1>2, <1>o DEF Count, Goto, TypeOK, history
<1>3. ASSUME NEW t \in Threads, TakeCount(t) PROVE Goal
  BY <1>3, <1>o DEF TakeCount, Goto, TypeOK, history
<1>4. ASSUME NEW t \in Threads, NEW readable \in BOOLEAN, Load(t, readable) PROVE Goal
  <2>1. ASSUME NEW u \in Threads, pc'[u] \in {"merge", "save"}, u \notin outdated' \cup blind'
        PROVE  disk'[u] = file'
    <3>1. CASE u = t
      <4>1. readable
        BY <1>4, <2>1, <3>1 DEF Load
      <4> QED BY <1>4, <3>1, <4>1 DEF Load, Loaded, TypeOK
    <3>2. CASE u # t
      <4>1. pc'[u] = pc[u] /\ disk'[u] = disk[u] /\ file' = file /\ u \notin outdated \cup blind
        BY <1>4, <2>1, <3>2 DEF Load, Goto, TypeOK
      <4> QED BY <2>1, <4>1 DEF LoadedIsCurrent
    <3> QED BY <3>1, <3>2
  <2>2. ASSUME NEW u \in Threads, pc'[u] = "save"
        PROVE  snap'[u] = MergeNewest(base'[u], disk'[u].entries)
    <3>1. u # t
      BY <1>4, <2>2 DEF Load, Goto, TypeOK
    <3>2. pc[u] = "save" /\ snap'[u] = snap[u] /\ base'[u] = base[u] /\ disk'[u] = disk[u]
      BY <1>4, <2>2, <3>1 DEF Load, Goto, TypeOK
    <3> QED BY <3>2 DEF SnapMerged
  <2> QED BY <2>1, <2>2 DEF LoadedIsCurrent, SnapMerged, MergeNewest
<1>5. ASSUME NEW t \in Threads, Clone(t) PROVE Goal
  <2>1. LoadedIsCurrent'
    BY <1>5 DEF Clone, Goto, LoadedIsCurrent, TypeOK, history
  <2>2. ASSUME NEW u \in Threads, pc'[u] = "save"
        PROVE  snap'[u] = MergeNewest(base'[u], disk'[u].entries)
    <3>1. CASE u = t
      BY <1>5, <3>1 DEF Clone, TypeOK
    <3>2. CASE u # t
      <4>1. pc[u] = "save" /\ snap'[u] = snap[u] /\ base'[u] = base[u] /\ disk'[u] = disk[u]
        BY <1>5, <2>2, <3>2 DEF Clone, Goto, TypeOK
      <4> QED BY <4>1 DEF SnapMerged
    <3> QED BY <3>1, <3>2
  <2> QED BY <2>1, <2>2 DEF SnapMerged, MergeNewest
<1>6. ASSUME NEW t \in Threads, Save(t) PROVE Goal
  BY <1>6, <1>p DEF Save
<1>7. ASSUME NEW t \in Threads, Wipe(t) PROVE Goal
  BY <1>7, <1>p DEF Wipe
<1>8. ASSUME NEW t \in Threads, SaveCompacted(t) PROVE Goal
  BY <1>8, <1>p DEF SaveCompacted
<1>9. ASSUME NEW t \in Threads, SaveFails(t) \/ WipeFails(t) \/ SaveCompactedFails(t) PROVE Goal
  BY <1>9, <1>k DEF SaveFails, WipeFails, SaveCompactedFails
<1>10. ASSUME NEW t \in Threads, Clear(t) PROVE Goal
  BY <1>10, <1>o DEF Clear, Goto, TypeOK
<1>11. ASSUME NEW t \in Threads, NEW readable \in BOOLEAN, NEW dropped \in SUBSET Keys,
              Compact(t, readable, dropped)
       PROVE  Goal
  <2>1. file' = file /\ pc'[t] \notin {"merge", "save"}
    BY <1>11 DEF Compact, Goto, TypeOK
  <2>2. ASSUME NEW u \in Threads \ {t}
        PROVE  /\ pc'[u] = pc[u] /\ disk'[u] = disk[u]
               /\ base'[u] = base[u] /\ snap'[u] = snap[u]
               /\ u \notin outdated' \cup blind' => u \notin outdated \cup blind
    BY <1>11 DEF Compact, Goto, TypeOK
  <2> QED BY <1>o, <2>1, <2>2
<1>12. ASSUME NEW d \in Daemons, NEW readable \in BOOLEAN, Restart(d, readable) PROVE Goal
  <2>1. ASSUME NEW u \in Threads, pc'[u] \in {"merge", "save"}
        PROVE  /\ pc'[u] = pc[u] /\ disk'[u] = disk[u]
               /\ base'[u] = base[u] /\ snap'[u] = snap[u]
               /\ u \notin outdated' \cup blind' => u \notin outdated \cup blind
    BY <1>12, <2>1 DEF Restart
  <2>2. file' = file
    BY <1>12 DEF Restart
  <2>3. LoadedIsCurrent'
    BY <2>1, <2>2 DEF LoadedIsCurrent
  <2>4. SnapMerged'
    <3> SUFFICES ASSUME NEW u \in Threads, pc'[u] = "save"
                 PROVE  snap'[u] = MergeNewest(base'[u], disk'[u].entries)
      BY DEF SnapMerged, MergeNewest
    <3> QED BY <2>1 DEF SnapMerged
  <2> QED BY <2>3, <2>4
<1>13. ASSUME Tick PROVE Goal
  BY <1>13 DEF Tick, LoadedIsCurrent, SnapMerged, MergeNewest, state, local, history
<1>14. ASSUME UNCHANGED vars PROVE Goal
  BY <1>14 DEF vars, LoadedIsCurrent, SnapMerged, MergeNewest, state, local, history
<1> QED
  BY <1>1, <1>2, <1>3, <1>4, <1>5, <1>6, <1>7, <1>8, <1>9, <1>10, <1>11, <1>12, <1>13, <1>14 DEF Next

LEMMA OrderlyStep == Orderly /\ [Next]_vars => Orderly'
BY TypeStep, LockHeldStep, CurrentStep DEF Orderly

LEMMA MergeStep ==
    ASSUME Orderly, [Next]_vars, NEW t \in Threads,
           pc[t] = "save", t \notin outdated \cup blind, file' # file, pc'[t] = "idle",
           NEW k \in Keys, file.entries[k] # None
    PROVE  /\ file'.entries[k] # None
           /\ file'.entries[k].at >= file.entries[k].at
<1> USE DEF Orderly
<1>1. ASSUME NEW u \in Threads, Save(u) \/ Wipe(u) \/ SaveCompacted(u) PROVE Save(t)
  <2>1. \A v \in Threads \ {u} : pc'[v] = pc[v]
    BY <1>1 DEF Save, Wipe, SaveCompacted, Return, Goto, TypeOK
  <2>2. u = t
    BY <2>1
  <2> QED BY <1>1, <2>2 DEF Wipe, SaveCompacted
<1>2. ASSUME NEW u \in Threads, NEW j \in Keys, NEW at \in Times, Insert(u, j, at) PROVE FALSE
  BY <1>2 DEF Insert
<1>3. ASSUME NEW u \in Threads, Count(u) \/ TakeCount(u) \/ Clone(u) \/ Clear(u) PROVE FALSE
  BY <1>3 DEF Count, TakeCount, Clone, Clear
<1>4. ASSUME NEW u \in Threads, SaveFails(u) \/ WipeFails(u) \/ SaveCompactedFails(u) PROVE FALSE
  BY <1>4 DEF SaveFails, WipeFails, SaveCompactedFails, KeepFile
<1>5. ASSUME NEW u \in Threads, NEW readable \in BOOLEAN, Load(u, readable) PROVE FALSE
  BY <1>5 DEF Load
<1>6. ASSUME NEW u \in Threads, NEW readable \in BOOLEAN, NEW dropped \in SUBSET Keys,
             Compact(u, readable, dropped)
      PROVE  FALSE
  BY <1>6 DEF Compact
<1>7. ASSUME NEW d \in Daemons, NEW readable \in BOOLEAN, Restart(d, readable) PROVE FALSE
  BY <1>7 DEF Restart
<1>8. ASSUME Tick \/ UNCHANGED vars PROVE FALSE
  BY <1>8 DEF Tick, vars, state
<1>9. Save(t)
  BY <1>1, <1>2, <1>3, <1>4, <1>5, <1>6, <1>7, <1>8 DEF Next
<1>10. file'.entries = MergeNewest(base[t], file.entries)
  <2>1. file'.entries = snap[t]
    BY <1>9 DEF Save, Replace
  <2> QED BY <2>1 DEF SnapMerged, LoadedIsCurrent
<1>11. base[t] \in Map /\ file.entries \in Map
  BY DEF TypeOK, Snapshot
<1> QED BY <1>10, <1>11, MergeNewestKeeps

\* A save that read the file as it still is loses none of the entries other
\* daemons have put there and makes none of them older (cache.rs:275-302).
THEOREM SavesMerge == Spec => SavesMergeNewest
<1>1. Orderly /\ [Next]_vars =>
        [\A t \in Threads :
            pc[t] = "save" /\ t \notin outdated \cup blind /\ file' # file /\ pc'[t] = "idle" =>
                \A k \in Keys :
                    file.entries[k] # None =>
                        /\ file'.entries[k] # None
                        /\ file'.entries[k].at >= file.entries[k].at]_vars
  BY MergeStep
<1> QED BY OrderlyInit, OrderlyStep, <1>1, PTL DEF Spec, SavesMergeNewest
-----------------------------------------------------------------------------
(* Clears stick. *)

\* The entries anybody may still write to the file or take into memory.
Copies ==
    {x \in Entry : \E k \in Keys :
        \/ x = file.entries[k]
        \/ \E d \in Daemons : x = mem[d][k]
        \/ \E t \in Threads : x = disk[t].entries[k] \/ x = snap[t][k]}

\* Clocks, entries and writes up to now.
Dated ==
    /\ file.clearedAt <= now /\ \A d \in Daemons : clearedAt[d] <= now
    /\ \A t \in Threads : disk[t].clearedAt <= now
    /\ \A x \in Copies : x.at <= now /\ x.id <= writes
    /\ \A i \in gone : i <= writes
    /\ \A t \in Threads : \A i \in doomed[t] : i <= writes

\* About to write what it read, which the file still holds.
Sound(t) == pc[t] \in {"save", "compact"} /\ t \notin outdated \cup blind

NoneIn(map, ids) == \A k \in Keys : map[k] # None => map[k].id \notin ids

\* The clears of different daemons are ordered by their times: what was loaded
\* is no later than the file, a clear about to be written is later than all
\* others, and a sound save has adopted the last one that was.
DisksBehind == \A t \in Threads : disk[t].clearedAt <= file.clearedAt
WipeLatest ==
    \A t \in Threads : pc[t] = "wipe" =>
        /\ file.clearedAt < clearedAt[DaemonOf[t]]
        /\ \A e \in Daemons \ {DaemonOf[t]} : clearedAt[e] < clearedAt[DaemonOf[t]]
SavesAdopted == \A t \in Threads : Sound(t) => file.clearedAt <= clearedAt[DaemonOf[t]]

\* Every copy of an entry that is to be removed, or has been, dates from before
\* the clear that removes it; the clearing daemon itself has none.
DoomedDated ==
    \A t \in Threads : pc[t] = "wipe" =>
        /\ \A x \in Copies : x.id \in doomed[t] => x.at <= clearedAt[DaemonOf[t]]
        /\ NoneIn(mem[DaemonOf[t]], doomed[t])
GoneDated == \A x \in Copies : x.id \in gone => x.at <= file.clearedAt

\* A daemon that still holds a removed entry has not adopted the last clear, so
\* it will drop the entry before it can save it.
HoldersBehind ==
    \A e \in Daemons : NoneIn(mem[e], gone) \/ clearedAt[e] < file.clearedAt
SavesClean == \A t \in Threads : Sound(t) => NoneIn(snap[t], gone)
FileClean == NoneIn(file.entries, gone)

ClearsOrdered == DisksBehind /\ WipeLatest /\ SavesAdopted
RemovedStaysOut == DoomedDated /\ GoneDated /\ HoldersBehind /\ SavesClean /\ FileClean

Clearing == Orderly /\ Dated /\ (~raced => ClearsOrdered /\ RemovedStaysOut)

\* Times and numbers of writes are naturals.
LEMMA Numbers ==
    ASSUME TypeOK
    PROVE  /\ file.clearedAt \in Nat /\ now \in Nat /\ writes \in Nat
           /\ \A d \in Daemons : clearedAt[d] \in Nat /\ mem[d] \in Map
           /\ \A t \in Threads : /\ disk[t].clearedAt \in Nat /\ disk[t].entries \in Map
                                 /\ snap[t] \in Map /\ DaemonOf[t] \in Daemons
           /\ file.entries \in Map
           /\ \A x \in Entry : x.at \in Nat /\ x.id \in Nat /\ x # None
           /\ Times \subseteq Nat
<1>1. Times \subseteq Nat /\ Ids \subseteq Nat
  BY RegistryCacheAssumption DEF Times, Ids
<1>2. file \in Snapshot /\ \A t \in Threads : disk[t] \in Snapshot
  BY DEF TypeOK
<1>3. \A s \in Snapshot : s.clearedAt \in Times /\ s.entries \in Map
  BY DEF Snapshot
<1>4. \A x \in Entry : x.at \in Nat /\ x.id \in Nat /\ x # None
  BY <1>1, RegistryCacheAssumption DEF Entry, Ids, Times
<1>5. writes \in Nat
  BY RegistryCacheAssumption DEF TypeOK
<1>6. \A d \in Daemons : clearedAt[d] \in Nat /\ mem[d] \in Map
  BY <1>1 DEF TypeOK
<1>7. \A t \in Threads : snap[t] \in Map /\ DaemonOf[t] \in Daemons
  BY RegistryCacheAssumption DEF TypeOK
<1> QED BY <1>1, <1>2, <1>3, <1>4, <1>5, <1>6, <1>7 DEF TypeOK

\* What is in a map that somebody holds is a copy.
LEMMA Held ==
    ASSUME TypeOK, NEW k \in Keys
    PROVE  /\ file.entries[k] # None => file.entries[k] \in Copies
           /\ \A d \in Daemons : mem[d][k] # None => mem[d][k] \in Copies
           /\ \A t \in Threads : disk[t].entries[k] # None => disk[t].entries[k] \in Copies
           /\ \A t \in Threads : snap[t][k] # None => snap[t][k] \in Copies
<1>1. \A m \in Map : m[k] # None => m[k] \in Entry
  BY DEF Map
<1> QED BY <1>1, Numbers DEF Copies

\* Where a map is a copy of another, it holds none of what that held none of.
LEMMA NoneInPart ==
    ASSUME NEW map, NEW from, NEW ids, NoneIn(from, ids),
           \A k \in Keys : map[k] # None => map[k] = from[k]
    PROVE  NoneIn(map, ids)
BY DEF NoneIn

\* Steps that touch neither the file nor memory: counting, loading, failed
\* writes, the passing of time.
LEMMA QuietKeeps ==
    ASSUME Clearing, TypeOK',
           UNCHANGED <<file, mem, clearedAt, gone, raced, writes>>,
           now <= now',
           \A u \in Threads :
              /\ disk'[u] \in {disk[u], file, NoFile}
              /\ snap'[u] \in {snap[u], Empty}
              /\ doomed'[u] \subseteq doomed[u]
              /\ pc'[u] \in {"save", "compact", "wipe"} => pc'[u] = pc[u]
              /\ Sound(u)' => Sound(u) /\ snap'[u] = snap[u]
    PROVE  Dated' /\ (~raced' => (ClearsOrdered /\ RemovedStaysOut)')
<1>0. TypeOK
  BY DEF Clearing, Orderly
<1>n. NoFile.clearedAt = 0 /\ NoFile.entries = Empty /\ \A k \in Keys : Empty[k] = None
  BY DEF NoFile, Empty
<1>e. \A x \in Entry : x # None
  BY <1>0, Numbers
<1>1. Copies' \subseteq Copies
  BY <1>n, <1>e DEF Copies
<1>2. now' \in Nat
  BY RegistryCacheAssumption DEF TypeOK, Times
<1>3. Dated'
  <2>1. file.clearedAt <= now' /\ \A d \in Daemons : clearedAt[d] <= now'
    BY <1>0, <1>2, Numbers DEF Clearing, Dated
  <2>2. \A x \in Copies : x.at <= now' /\ x.id <= writes
    <3> SUFFICES ASSUME NEW x \in Copies PROVE x.at <= now' /\ x.id <= writes
      OBVIOUS
    <3>1. x \in Entry
      BY DEF Copies
    <3> QED BY <1>0, <1>2, <3>1, Numbers DEF Clearing, Dated
  <2>3. \A u \in Threads : disk'[u].clearedAt <= now'
    BY <1>0, <1>2, <1>n, <2>1, Numbers DEF Clearing, Dated
  <2> QED BY <1>1, <2>1, <2>2, <2>3 DEF Clearing, Dated
<1>4. ASSUME ~raced' PROVE (ClearsOrdered /\ RemovedStaysOut)'
  <2>0. ClearsOrdered /\ RemovedStaysOut
    BY <1>4 DEF Clearing
  <2>1. DisksBehind'
    <3> SUFFICES ASSUME NEW u \in Threads PROVE disk'[u].clearedAt <= file.clearedAt
      BY DEF DisksBehind
    <3> QED BY <1>0, <1>n, <2>0, Numbers DEF ClearsOrdered, DisksBehind
  <2>2. WipeLatest' /\ SavesAdopted'
    BY <2>0 DEF ClearsOrdered, WipeLatest, SavesAdopted
  <2>3. DoomedDated' /\ GoneDated'
    BY <1>1, <2>0 DEF RemovedStaysOut, DoomedDated, GoneDated, NoneIn
  <2>4. HoldersBehind' /\ FileClean'
    BY <2>0 DEF RemovedStaysOut, HoldersBehind, FileClean, NoneIn
  <2>5. SavesClean'
    BY <2>0 DEF RemovedStaysOut, SavesClean, NoneIn
  <2> QED BY <2>1, <2>2, <2>3, <2>4, <2>5 DEF ClearsOrdered, RemovedStaysOut
<1> QED BY <1>3, <1>4

\* A new entry has a number no clear has seen, and is not from the future.
LEMMA InsertClears ==
    ASSUME Clearing, TypeOK', NEW t \in Threads, NEW k \in Keys, NEW at \in Times, Insert(t, k, at)
    PROVE  Dated' /\ (~raced' => (ClearsOrdered /\ RemovedStaysOut)')
<1> DEFINE d == DaemonOf[t]
           new == [id |-> writes + 1, at |-> at]
<1>0. TypeOK /\ Dated
  BY DEF Clearing, Orderly
<1>1. /\ UNCHANGED <<file, clearedAt, gone, raced, now, disk, snap, doomed, outdated, blind>>
      /\ writes' = writes + 1 /\ at <= now
      /\ d \in Daemons /\ at \in Nat /\ new.id = writes + 1 /\ new.at = at
  BY <1>0, Numbers DEF Insert, history
<1>2. \A u \in Threads : pc'[u] \in {"save", "compact", "wipe"} => pc'[u] = pc[u]
  BY <1>0 DEF Insert, Goto, TypeOK
<1>3. /\ mem'[d][k] = new
      /\ \A j \in Keys \ {k} : mem'[d][j] = mem[d][j]
      /\ \A e \in Daemons \ {d} : mem'[e] = mem[e]
  <2>1. mem[d] \in Map
    BY <1>0, <1>1, Numbers
  <2> QED BY <1>0, <1>1, <2>1 DEF Insert, TypeOK, Map
<1> HIDE DEF new
<1>4. \A x \in Copies' : x \in Copies \/ x = new
  <2> SUFFICES ASSUME NEW x \in Copies', x # new PROVE x \in Copies
    OBVIOUS
  <2>1. PICK j \in Keys :
           \/ x = file'.entries[j]
           \/ \E e \in Daemons : x = mem'[e][j]
           \/ \E u \in Threads : x = disk'[u].entries[j] \/ x = snap'[u][j]
    BY DEF Copies
  <2>2. ASSUME NEW e \in Daemons, x = mem'[e][j] PROVE x = mem[e][j]
    BY <1>3, <2>2
  <2> QED BY <1>1, <2>1, <2>2 DEF Copies
<1>5. \A x \in Copies : x.at \in Nat /\ x.id \in Nat /\ x.at <= now /\ x.id <= writes
  BY <1>0, Numbers DEF Copies, Dated
<1>6. writes \in Nat /\ now \in Nat /\ \A i \in gone : i <= writes
  BY <1>0, Numbers DEF Dated
<1>7. \A u \in Threads : \A i \in doomed[u] : i <= writes
  BY <1>0 DEF Dated
<1>8. new.id \notin gone /\ \A u \in Threads : new.id \notin doomed[u]
  BY <1>1, <1>6, <1>7
<1>9. Dated'
  <2>1. \A x \in Copies' : x.at <= now /\ x.id <= writes + 1
    BY <1>1, <1>4, <1>5, <1>6
  <2>2. gone \subseteq Nat /\ \A u \in Threads : doomed[u] \subseteq Nat
    BY <1>0, RegistryCacheAssumption DEF TypeOK, Ids
  <2>3. (\A i \in gone : i <= writes + 1) /\ (\A u \in Threads : \A i \in doomed[u] : i <= writes + 1)
    BY <1>6, <1>7, <2>2
  <2> QED BY <1>0, <1>1, <2>1, <2>3 DEF Dated
<1>10. ASSUME ~raced' PROVE (ClearsOrdered /\ RemovedStaysOut)'
  <2>0. ClearsOrdered /\ RemovedStaysOut
    BY <1>1, <1>10 DEF Clearing
  <2>1. \A u \in Threads : Sound(u)' => Sound(u)
    BY <1>1, <1>2 DEF Sound
  <2>2. ClearsOrdered'
    BY <1>1, <1>2, <2>0, <2>1 DEF ClearsOrdered, DisksBehind, WipeLatest, SavesAdopted
  <2>3. \A e \in Daemons : NoneIn(mem[e], gone) => NoneIn(mem'[e], gone)
    BY <1>3, <1>8 DEF NoneIn
  <2>4. \A e \in Daemons, u \in Threads : NoneIn(mem[e], doomed[u]) => NoneIn(mem'[e], doomed[u])
    BY <1>3, <1>8 DEF NoneIn
  <2>5. DoomedDated'
    BY <1>1, <1>2, <1>4, <1>8, <2>0, <2>4, Numbers, <1>0 DEF RemovedStaysOut, DoomedDated
  <2>6. GoneDated' /\ HoldersBehind'
    BY <1>1, <1>4, <1>8, <2>0, <2>3 DEF RemovedStaysOut, GoneDated, HoldersBehind
  <2>7. SavesClean' /\ FileClean'
    BY <1>1, <2>0, <2>1 DEF RemovedStaysOut, SavesClean, FileClean, NoneIn
  <2> QED BY <2>2, <2>5, <2>6, <2>7 DEF RemovedStaysOut
<1> QED BY <1>9, <1>10

\* What is left of memory once the last clear is adopted: nothing removed.
LEMMA AdoptDrops ==
    ASSUME TypeOK, GoneDated, HoldersBehind, NEW d \in Daemons
    PROVE  NoneIn(AdoptClear(d, mem[d], file.clearedAt), gone)
<1> SUFFICES ASSUME NEW k \in Keys, AdoptClear(d, mem[d], file.clearedAt)[k] # None,
                    AdoptClear(d, mem[d], file.clearedAt)[k].id \in gone
             PROVE  FALSE
  BY DEF NoneIn
<1>1. AdoptClear(d, mem[d], file.clearedAt)[k] = mem[d][k] /\ mem[d][k] # None
  BY Numbers, AdoptClearType
<1>2. mem[d][k] \in Copies /\ mem[d][k].id \in gone
  BY <1>1, Held
<1>3. mem[d][k].at <= file.clearedAt /\ mem[d][k].at \in Nat
  BY <1>2, Numbers DEF GoneDated, Copies
<1>4. clearedAt[d] < file.clearedAt
  BY <1>1, <1>2 DEF HoldersBehind, NoneIn
<1>5. file.clearedAt > clearedAt[d]
  BY <1>4, Numbers
<1>6. mem[d][k].at > file.clearedAt
  BY <1>1, <1>5 DEF AdoptClear
<1> QED BY <1>3, <1>6, Numbers

\* A merge of two maps without removed entries has none.
LEMMA MergeDrops ==
    ASSUME NEW ours \in Map, NEW theirs \in Map, NEW ids, NoneIn(ours, ids), NoneIn(theirs, ids)
    PROVE  NoneIn(MergeNewest(ours, theirs), ids)
BY MergeNewestType DEF NoneIn

\* adopt_clear moves cleared_at forward, to the time it was given or not at all.
LEMMA AdoptedAtLater ==
    ASSUME TypeOK, NEW d \in Daemons, NEW time \in Nat
    PROVE  /\ AdoptedAt(d, time) \in {clearedAt[d], time} /\ AdoptedAt(d, time) \in Nat
           /\ clearedAt[d] <= AdoptedAt(d, time) /\ time <= AdoptedAt(d, time)
BY Numbers DEF AdoptedAt

\* A save adopts what it loaded; if that is still the file, nothing removed is
\* left in what it will write.
LEMMA CloneClears ==
    ASSUME Clearing, TypeOK', NEW t \in Threads, Clone(t)
    PROVE  Dated' /\ (~raced' => (ClearsOrdered /\ RemovedStaysOut)')
<1> DEFINE d == DaemonOf[t]
           time == disk[t].clearedAt
           kept == AdoptClear(d, mem[d], time)
           later == AdoptedAt(d, time)
<1>0. TypeOK /\ Dated /\ LockHeld /\ LoadedIsCurrent
  BY DEF Clearing, Orderly
<1>1. /\ d \in Daemons /\ time \in Nat /\ mem[d] \in Map /\ disk[t].entries \in Map
      /\ clearedAt[d] \in Nat /\ file.clearedAt \in Nat /\ now \in Nat
  BY <1>0, Numbers
<1>2. /\ UNCHANGED <<file, gone, raced, now, writes, disk, doomed, outdated, blind>>
      /\ pc[t] = "merge" /\ pc'[t] = "save" /\ \A u \in Threads \ {t} : pc'[u] = pc[u]
      /\ mem'[d] = kept /\ \A e \in Daemons \ {d} : mem'[e] = mem[e]
      /\ clearedAt'[d] = later /\ \A e \in Daemons \ {d} : clearedAt'[e] = clearedAt[e]
      /\ snap'[t] = MergeNewest(kept, disk[t].entries)
      /\ \A u \in Threads \ {t} : snap'[u] = snap[u]
  BY <1>0, <1>1 DEF Clone, Goto, TypeOK, history
<1>3. kept \in Map /\ \A k \in Keys : kept[k] # None => kept[k] = mem[d][k]
  BY <1>1, AdoptClearType
<1>4. /\ later \in {clearedAt[d], time} /\ later \in Nat
      /\ clearedAt[d] <= later /\ time <= later
  BY <1>0, <1>1, AdoptedAtLater
<1>5. \A k \in Keys : snap'[t][k] \in {kept[k], disk[t].entries[k]}
  BY <1>1, <1>2, <1>3, MergeNewestType
<1>k. ASSUME NEW k \in Keys, time > clearedAt[d], kept[k] # None PROVE kept[k].at > time
  BY <1>k DEF AdoptClear
<1>l. time <= clearedAt[d] => later = clearedAt[d]
  BY <1>1 DEF AdoptedAt
<1>a. time = file.clearedAt => kept = AdoptClear(d, mem[d], file.clearedAt)
  OBVIOUS
<1> HIDE DEF kept, later
<1>6. Copies' \subseteq Copies
  <2> SUFFICES ASSUME NEW x \in Copies' PROVE x \in Copies
    OBVIOUS
  <2>e. x \in Entry /\ x # None
    BY <1>0, Numbers DEF Copies
  <2>1. PICK k \in Keys :
           \/ x = file'.entries[k]
           \/ \E e \in Daemons : x = mem'[e][k]
           \/ \E u \in Threads : x = disk'[u].entries[k] \/ x = snap'[u][k]
    BY DEF Copies
  <2>2. ASSUME NEW e \in Daemons, x = mem'[e][k] PROVE x = mem[e][k]
    BY <1>2, <1>3, <2>e, <2>2
  <2>3. ASSUME NEW u \in Threads, x = snap'[u][k] PROVE x \in Copies
    <3>1. CASE u # t
      BY <1>2, <2>e, <2>3, <3>1 DEF Copies
    <3>2. CASE u = t
      BY <1>1, <1>3, <1>5, <2>e, <2>3, <3>2 DEF Copies
    <3> QED BY <3>1, <3>2
  <2> QED BY <1>2, <2>e, <2>1, <2>2, <2>3 DEF Copies
<1>7. Dated'
  <2>1. later <= now
    BY <1>0, <1>1, <1>4 DEF Dated
  <2> QED BY <1>0, <1>2, <1>6, <2>1 DEF Dated
<1>8. ASSUME ~raced' PROVE (ClearsOrdered /\ RemovedStaysOut)'
  <2>0. ClearsOrdered /\ RemovedStaysOut
    BY <1>2, <1>8 DEF Clearing
  <2>1. time <= file.clearedAt
    BY <2>0 DEF ClearsOrdered, DisksBehind
  <2>2. \A u \in Threads : pc'[u] = "wipe" => pc[u] = "wipe" /\ DaemonOf[u] # d /\ DaemonOf[u] \in Daemons
    BY <1>0, <1>2, Numbers DEF LockHeld
  <2>3. t \notin outdated \cup blind => disk[t] = file
    BY <1>0, <1>2 DEF LoadedIsCurrent
  <2>4. \A u \in Threads : u # t /\ Sound(u)' => Sound(u)
    BY <1>2 DEF Sound
  <2>5. DisksBehind'
    BY <1>2, <2>0 DEF ClearsOrdered, DisksBehind
  <2>6. WipeLatest'
    <3> SUFFICES ASSUME NEW u \in Threads, pc'[u] = "wipe", NEW e \in Daemons \ {DaemonOf[u]}
                 PROVE  /\ file.clearedAt < clearedAt[DaemonOf[u]]
                        /\ clearedAt'[e] < clearedAt[DaemonOf[u]]
                        /\ clearedAt'[DaemonOf[u]] = clearedAt[DaemonOf[u]]
      BY <1>2, <2>0, <2>2 DEF WipeLatest, ClearsOrdered
    <3>1. pc[u] = "wipe" /\ DaemonOf[u] # d /\ clearedAt'[DaemonOf[u]] = clearedAt[DaemonOf[u]]
      BY <1>2, <2>2
    <3>2. /\ file.clearedAt < clearedAt[DaemonOf[u]] /\ clearedAt[e] < clearedAt[DaemonOf[u]]
          /\ clearedAt[d] < clearedAt[DaemonOf[u]]
      BY <1>1, <2>0, <3>1 DEF ClearsOrdered, WipeLatest
    <3>3. clearedAt[DaemonOf[u]] \in Nat
      BY <1>0, Numbers
    <3>4. later < clearedAt[DaemonOf[u]]
      BY <1>1, <1>4, <2>1, <3>2, <3>3
    <3> QED BY <1>2, <3>1, <3>2, <3>4
  <2>7. SavesAdopted'
    <3> SUFFICES ASSUME NEW u \in Threads, Sound(u)' PROVE file.clearedAt <= clearedAt'[DaemonOf[u]]
      BY <1>2 DEF SavesAdopted
    <3>1. CASE u = t
      BY <1>2, <1>4, <2>3, <3>1 DEF Sound
    <3>2. CASE u # t
      <4>1. file.clearedAt <= clearedAt[DaemonOf[u]] /\ clearedAt[DaemonOf[u]] \in Nat /\ DaemonOf[u] \in Daemons
        BY <1>0, <2>0, <2>4, <3>2, Numbers DEF ClearsOrdered, SavesAdopted
      <4> QED BY <1>1, <1>2, <1>4, <4>1
    <3> QED BY <3>1, <3>2
  <2>8. DoomedDated'
    BY <1>2, <1>6, <2>0, <2>2 DEF RemovedStaysOut, DoomedDated
  <2>9. GoneDated'
    BY <1>2, <1>6, <2>0 DEF RemovedStaysOut, GoneDated
  <2>10. HoldersBehind'
    <3>1. NoneIn(kept, gone) \/ later < file.clearedAt
      <4> SUFFICES ASSUME NEW k \in Keys, kept[k] # None, kept[k].id \in gone PROVE later < file.clearedAt
        BY DEF NoneIn
      <4>1. kept[k] = mem[d][k] /\ mem[d][k] \in Copies
        BY <1>0, <1>1, <1>3, Held
      <4>2. kept[k].at <= file.clearedAt /\ kept[k].at \in Nat
        BY <1>0, <2>0, <4>1, Numbers DEF RemovedStaysOut, GoneDated, Copies
      <4>3. clearedAt[d] < file.clearedAt
        BY <1>1, <2>0, <4>1 DEF RemovedStaysOut, HoldersBehind, NoneIn
      <4>4. CASE time > clearedAt[d]
        BY <1>1, <1>4, <1>k, <4>2, <4>3, <4>4
      <4>5. CASE ~(time > clearedAt[d])
        BY <1>1, <1>l, <4>3, <4>5
      <4> QED BY <4>4, <4>5
    <3> QED BY <1>2, <2>0, <3>1 DEF RemovedStaysOut, HoldersBehind
  <2>11. SavesClean'
    <3> SUFFICES ASSUME NEW u \in Threads, Sound(u)' PROVE NoneIn(snap'[u], gone)
      BY <1>2 DEF SavesClean
    <3>1. CASE u = t
      <4>1. disk[t] = file
        BY <1>2, <2>3, <3>1 DEF Sound
      <4>2. NoneIn(kept, gone)
        BY <1>0, <1>1, <1>a, <2>0, <4>1, AdoptDrops DEF RemovedStaysOut
      <4>3. NoneIn(disk[t].entries, gone)
        BY <2>0, <4>1 DEF RemovedStaysOut, FileClean
      <4> QED BY <1>1, <1>2, <1>3, <3>1, <4>2, <4>3, MergeDrops
    <3>2. CASE u # t
      BY <1>2, <2>0, <2>4, <3>2 DEF RemovedStaysOut, SavesClean
    <3> QED BY <3>1, <3>2
  <2>12. FileClean'
    BY <1>2, <2>0 DEF RemovedStaysOut, FileClean, NoneIn
  <2> QED BY <2>5, <2>6, <2>7, <2>8, <2>9, <2>10, <2>11, <2>12 DEF ClearsOrdered, RemovedStaysOut
<1> QED BY <1>7, <1>8

\* After a rename nobody else is about to write what the file still holds, and
\* another daemon's clear may be waiting.
LEMMA AfterReplace ==
    ASSUME Orderly, NEW t \in Threads, pc[t] \in {"save", "compact", "wipe"},
           NEW map, Replace(t, map), Return(t)
    PROVE  \A u \in Threads :
              /\ ~Sound(u)'
              /\ pc'[u] = "wipe" => /\ pc[u] = "wipe" /\ u # t
                                    /\ DaemonOf[u] # DaemonOf[t] /\ doomed'[u] = doomed[u]
<1> SUFFICES ASSUME NEW u \in Threads, pc'[u] \in {"save", "compact", "wipe"}
             PROVE  /\ u \in outdated' \/ pc'[u] = "wipe"
                    /\ pc[u] = pc'[u] /\ u # t /\ DaemonOf[u] # DaemonOf[t] /\ doomed'[u] = doomed[u]
  BY DEF Sound
<1>1. u # t /\ pc'[u] = pc[u] /\ doomed'[u] = doomed[u]
  BY DEF Orderly, Return, Goto, TypeOK
<1>2. DaemonOf[u] # DaemonOf[t]
  BY <1>1 DEF Orderly, LockHeld
<1> QED BY <1>1, <1>2 DEF Replace

\* The copies left after a write: fewer, and the file's are those written.
LEMMA CopiesAfterWrite ==
    ASSUME TypeOK, NEW t \in Threads, NEW map, map = snap[t] \/ map = Empty,
           file'.entries = map, mem' = mem, Return(t)
    PROVE  Copies' \subseteq Copies
<1>1. NoFile.entries = Empty /\ \A k \in Keys : Empty[k] = None
  BY DEF NoFile, Empty
<1>2. \A u \in Threads : disk'[u] \in {disk[u], NoFile} /\ snap'[u] \in {snap[u], Empty}
  BY DEF Return, TypeOK
<1>3. \A x \in Entry : x # None
  BY Numbers
<1> QED BY <1>1, <1>2, <1>3 DEF Copies

\* A save whose read still stands writes nothing removed, and no earlier clear.
LEMMA WriteClears ==
    ASSUME Clearing, NEW t \in Threads, Save(t) \/ SaveCompacted(t)
    PROVE  Dated' /\ (~raced' => (ClearsOrdered /\ RemovedStaysOut)')
<1> DEFINE d == DaemonOf[t]
<1>0. TypeOK /\ Dated /\ Orderly
  BY DEF Clearing, Orderly
<1>1. /\ pc[t] \in {"save", "compact"} /\ Replace(t, snap[t]) /\ Return(t)
      /\ UNCHANGED <<mem, clearedAt, now, writes, gone>>
  BY DEF Save, SaveCompacted
<1>2. /\ file'.entries = snap[t] /\ file'.clearedAt = clearedAt[d]
      /\ raced' = (raced \/ t \in outdated \cup blind) /\ d \in Daemons
      /\ clearedAt[d] \in Nat /\ file.clearedAt \in Nat
  BY <1>0, <1>1, Numbers DEF Replace
<1>3. Copies' \subseteq Copies
  BY <1>0, <1>1, <1>2, CopiesAfterWrite
<1>4. /\ \A u \in Threads : ~Sound(u)'
      /\ \A u \in Threads : pc'[u] = "wipe" => /\ pc[u] = "wipe" /\ u # t
                                               /\ DaemonOf[u] # d /\ doomed'[u] = doomed[u]
  BY <1>0, <1>1, AfterReplace
<1>5. NoFile.clearedAt = 0 /\ \A u \in Threads : disk'[u] \in {disk[u], NoFile} /\ doomed'[u] \subseteq doomed[u]
  BY <1>0, <1>1 DEF NoFile, Return, TypeOK
<1>6. Dated'
  <2>1. \A u \in Threads : disk'[u].clearedAt <= now
    BY <1>0, <1>5, Numbers DEF Dated
  <2> QED BY <1>0, <1>1, <1>2, <1>3, <1>5, <2>1 DEF Dated
<1>7. ASSUME ~raced' PROVE (ClearsOrdered /\ RemovedStaysOut)'
  <2>0. ClearsOrdered /\ RemovedStaysOut /\ Sound(t)
    BY <1>0, <1>1, <1>2, <1>7 DEF Clearing, Sound, TypeOK
  <2>1. file.clearedAt <= clearedAt[d]
    BY <2>0 DEF ClearsOrdered, SavesAdopted
  <2>2. DisksBehind'
    <3> SUFFICES ASSUME NEW u \in Threads PROVE disk'[u].clearedAt <= clearedAt[d]
      BY <1>2 DEF DisksBehind
    <3>1. disk[u].clearedAt <= file.clearedAt /\ disk[u].clearedAt \in Nat
      BY <1>0, <2>0, Numbers DEF ClearsOrdered, DisksBehind
    <3> QED BY <1>2, <1>5, <2>1, <3>1
  <2>3. WipeLatest'
    BY <1>1, <1>2, <1>4, <2>0 DEF ClearsOrdered, WipeLatest
  <2>4. SavesAdopted' /\ SavesClean'
    BY <1>4 DEF SavesAdopted, SavesClean
  <2>5. DoomedDated'
    BY <1>1, <1>3, <1>4, <2>0 DEF RemovedStaysOut, DoomedDated
  <2>6. GoneDated'
    <3> SUFFICES ASSUME NEW x \in Copies, x.id \in gone PROVE x.at <= clearedAt[d]
      BY <1>1, <1>2, <1>3 DEF GoneDated
    <3>1. x.at <= file.clearedAt /\ x.at \in Nat
      BY <1>0, <2>0, Numbers DEF RemovedStaysOut, GoneDated, Copies
    <3> QED BY <1>2, <2>1, <3>1
  <2>7. HoldersBehind'
    <3> SUFFICES ASSUME NEW e \in Daemons, clearedAt[e] < file.clearedAt PROVE clearedAt[e] < clearedAt[d]
      BY <1>1, <1>2, <2>0 DEF RemovedStaysOut, HoldersBehind
    <3> QED BY <1>0, <1>2, <2>1, Numbers
  <2>8. FileClean'
    BY <1>1, <1>2, <2>0 DEF RemovedStaysOut, SavesClean, FileClean
  <2> QED BY <2>2, <2>3, <2>4, <2>5, <2>6, <2>7, <2>8 DEF ClearsOrdered, RemovedStaysOut
<1> QED BY <1>6, <1>7

\* A clear that is written: what it doomed is older than it, wherever it is.
LEMMA WipeClears ==
    ASSUME Clearing, NEW t \in Threads, Wipe(t)
    PROVE  Dated' /\ (~raced' => (ClearsOrdered /\ RemovedStaysOut)')
<1> DEFINE d == DaemonOf[t]
<1>0. TypeOK /\ Dated /\ Orderly
  BY DEF Clearing, Orderly
<1>1. /\ pc[t] = "wipe" /\ Replace(t, Empty) /\ Return(t) /\ gone' = gone \cup doomed[t]
      /\ UNCHANGED <<mem, clearedAt, now, writes>>
  BY DEF Wipe
<1>2. /\ file'.entries = Empty /\ file'.clearedAt = clearedAt[d]
      /\ raced' = (raced \/ t \in outdated \cup blind) /\ d \in Daemons
      /\ clearedAt[d] \in Nat /\ file.clearedAt \in Nat
  BY <1>0, <1>1, Numbers DEF Replace
<1>3. Copies' \subseteq Copies
  BY <1>0, <1>1, <1>2, CopiesAfterWrite
<1>4. /\ \A u \in Threads : ~Sound(u)'
      /\ \A u \in Threads : pc'[u] = "wipe" => pc[u] = "wipe" /\ u # t /\ DaemonOf[u] # d
  BY <1>0, <1>1, AfterReplace
<1>5. NoFile.clearedAt = 0 /\ \A u \in Threads : disk'[u] \in {disk[u], NoFile} /\ doomed'[u] \subseteq doomed[u]
  BY <1>0, <1>1 DEF NoFile, Return, TypeOK
<1>6. Dated'
  <2>1. \A u \in Threads : disk'[u].clearedAt <= now
    BY <1>0, <1>5, Numbers DEF Dated
  <2> QED BY <1>0, <1>1, <1>2, <1>3, <1>5, <2>1 DEF Dated
<1>7. ASSUME ~raced' PROVE (ClearsOrdered /\ RemovedStaysOut)'
  <2>0. ClearsOrdered /\ RemovedStaysOut
    BY <1>0, <1>2, <1>7 DEF Clearing, TypeOK
  <2>1. file.clearedAt < clearedAt[d] /\ \A e \in Daemons \ {d} : clearedAt[e] < clearedAt[d]
    BY <1>1, <2>0 DEF ClearsOrdered, WipeLatest
  <2>2. DisksBehind'
    <3> SUFFICES ASSUME NEW u \in Threads PROVE disk'[u].clearedAt <= clearedAt[d]
      BY <1>2 DEF DisksBehind
    <3>1. disk[u].clearedAt <= file.clearedAt /\ disk[u].clearedAt \in Nat
      BY <1>0, <2>0, Numbers DEF ClearsOrdered, DisksBehind
    <3> QED BY <1>2, <1>5, <2>1, <3>1
  <2>3. \A u \in Threads : pc'[u] # "wipe"
    <3> SUFFICES ASSUME NEW u \in Threads, pc'[u] = "wipe" PROVE FALSE
      OBVIOUS
    <3>1. DaemonOf[u] \in Daemons /\ DaemonOf[u] # d /\ clearedAt[DaemonOf[u]] \in Nat
      BY <1>0, <1>4, Numbers
    <3>2. clearedAt[DaemonOf[u]] < clearedAt[d] /\ clearedAt[d] < clearedAt[DaemonOf[u]]
      BY <1>2, <1>4, <2>0, <2>1, <3>1 DEF ClearsOrdered, WipeLatest
    <3> QED BY <1>2, <3>1, <3>2
  <2>4. WipeLatest' /\ SavesAdopted' /\ SavesClean' /\ DoomedDated'
    BY <1>4, <2>3 DEF WipeLatest, SavesAdopted, SavesClean, DoomedDated
  <2>5. GoneDated'
    <3> SUFFICES ASSUME NEW x \in Copies, x.id \in gone \cup doomed[t] PROVE x.at <= clearedAt[d]
      BY <1>1, <1>2, <1>3 DEF GoneDated
    <3>1. x.at \in Nat
      BY <1>0, Numbers DEF Copies
    <3>2. CASE x.id \in gone
      <4>1. x.at <= file.clearedAt
        BY <2>0, <3>2 DEF RemovedStaysOut, GoneDated
      <4> QED BY <1>2, <2>1, <3>1, <4>1
    <3>3. CASE x.id \in doomed[t]
      BY <1>1, <2>0, <3>3 DEF RemovedStaysOut, DoomedDated
    <3> QED BY <3>2, <3>3
  <2>6. HoldersBehind'
    <3>1. NoneIn(mem[d], gone)
      BY <1>2, <2>0, <2>1 DEF RemovedStaysOut, HoldersBehind
    <3>2. NoneIn(mem[d], gone \cup doomed[t])
      BY <1>1, <2>0, <3>1 DEF RemovedStaysOut, DoomedDated, NoneIn
    <3> QED BY <1>1, <1>2, <2>1, <3>2 DEF HoldersBehind
  <2>7. FileClean'
    BY <1>2 DEF FileClean, NoneIn, Empty
  <2> QED BY <2>2, <2>4, <2>5, <2>6, <2>7 DEF ClearsOrdered, RemovedStaysOut
<1> QED BY <1>6, <1>7

\* A clear begins: every copy there is dates from before it.
LEMMA ClearClears ==
    ASSUME Clearing, NEW t \in Threads, Clear(t)
    PROVE  Dated' /\ (~raced' => (ClearsOrdered /\ RemovedStaysOut)')
<1> DEFINE d == DaemonOf[t]
<1>0. TypeOK /\ Dated /\ LockHeld
  BY DEF Clearing, Orderly
<1>1. /\ UNCHANGED <<file, disk, snap, now, writes, gone, outdated, blind>>
      /\ pc'[t] = "wipe" /\ \A u \in Threads \ {t} : pc'[u] = pc[u]
      /\ doomed'[t] = AllIds /\ \A u \in Threads \ {t} : doomed'[u] = doomed[u]
      /\ d \in Daemons /\ now \in Nat /\ file.clearedAt \in Nat /\ clearedAt[d] \in Nat
      /\ mem'[d] = Empty /\ \A e \in Daemons \ {d} : mem'[e] = mem[e]
  BY <1>0, Numbers DEF Clear, Goto, TypeOK
<1>2. /\ \A e \in Daemons \ {d} : clearedAt'[e] = clearedAt[e]
      /\ clearedAt'[d] \in {now, clearedAt[d]} /\ clearedAt[d] <= clearedAt'[d]
      /\ now > clearedAt[d] => clearedAt'[d] = now
  <2>1. clearedAt' = [clearedAt EXCEPT ![d] = IF now > @ THEN now ELSE @]
    BY DEF Clear
  <2> QED BY <1>0, <1>1, <2>1 DEF TypeOK
<1>3. \A k \in Keys : Empty[k] = None
  BY DEF Empty
<1>e. \A x \in Entry : x # None
  BY <1>0, Numbers
<1>4. Copies' \subseteq Copies
  <2>1. \A k \in Keys, e \in Daemons : mem'[e][k] \in {mem[e][k], None}
    BY <1>1, <1>3
  <2> QED BY <1>1, <1>e, <2>1 DEF Copies
<1>5. \A i \in AllIds : i <= writes
  <2> SUFFICES ASSUME NEW i \in AllIds PROVE \E x \in Copies : x.id = i
    BY <1>0 DEF Dated
  <2>1. CASE i \in IdsOf(file.entries)
    BY <1>0, <2>1, Held DEF IdsOf
  <2>2. ASSUME NEW e \in Daemons, i \in IdsOf(mem[e]) PROVE \E x \in Copies : x.id = i
    BY <1>0, <2>2, Held DEF IdsOf
  <2> QED BY <2>1, <2>2 DEF AllIds
<1>6. Dated'
  <2>1. \A e \in Daemons : clearedAt'[e] <= now
    BY <1>0, <1>1, <1>2 DEF Dated
  <2> QED BY <1>0, <1>1, <1>4, <1>5, <2>1 DEF Dated
<1>7. ASSUME ~raced' PROVE (ClearsOrdered /\ RemovedStaysOut)'
  <2>0. /\ ~raced /\ file.clearedAt # now /\ \A e \in Daemons : clearedAt[e] # now
        /\ \A u \in Threads \ {t} : pc[u] # "wipe"
    BY <1>7 DEF Clear
  <2>1. ClearsOrdered /\ RemovedStaysOut
    BY <2>0 DEF Clearing
  <2>2. /\ file.clearedAt < now /\ \A e \in Daemons : clearedAt[e] < now
        /\ clearedAt'[d] = now
    <3>1. file.clearedAt <= now /\ \A e \in Daemons : clearedAt[e] <= now /\ clearedAt[e] \in Nat
      BY <1>0, Numbers DEF Dated
    <3>2. file.clearedAt < now /\ \A e \in Daemons : clearedAt[e] < now
      BY <1>1, <2>0, <3>1
    <3> QED BY <1>1, <1>2, <3>1, <3>2
  <2>3. \A u \in Threads : Sound(u)' => Sound(u) /\ u # t
    BY <1>1 DEF Sound
  <2>4. \A u \in Threads : pc'[u] = "wipe" => u = t
    BY <1>1, <2>0
  <2>5. DisksBehind'
    BY <1>1, <2>1 DEF ClearsOrdered, DisksBehind
  <2>6. WipeLatest'
    BY <1>1, <1>2, <2>2, <2>4 DEF WipeLatest
  <2>7. SavesAdopted'
    <3> SUFFICES ASSUME NEW u \in Threads, Sound(u) PROVE file.clearedAt <= clearedAt'[DaemonOf[u]]
      BY <1>1, <2>3 DEF SavesAdopted
    <3>1. DaemonOf[u] \in Daemons /\ clearedAt[DaemonOf[u]] \in Nat /\ file.clearedAt <= clearedAt[DaemonOf[u]]
      BY <1>0, <2>1, Numbers DEF ClearsOrdered, SavesAdopted
    <3> QED BY <1>1, <1>2, <2>2, <3>1
  <2>8. DoomedDated'
    <3>1. \A x \in Copies : x.at <= now
      BY <1>0 DEF Dated
    <3>2. NoneIn(mem'[d], doomed'[t])
      BY <1>1, <1>3 DEF NoneIn
    <3> QED BY <1>4, <2>2, <2>4, <3>1, <3>2 DEF DoomedDated
  <2>9. GoneDated' /\ FileClean'
    BY <1>1, <1>4, <2>1 DEF RemovedStaysOut, GoneDated, FileClean, NoneIn
  <2>10. HoldersBehind'
    <3>1. NoneIn(mem'[d], gone)
      BY <1>1, <1>3 DEF NoneIn
    <3> QED BY <1>1, <1>2, <2>1, <3>1 DEF RemovedStaysOut, HoldersBehind
  <2>11. SavesClean'
    BY <1>1, <2>1, <2>3 DEF RemovedStaysOut, SavesClean, NoneIn
  <2> QED BY <2>5, <2>6, <2>7, <2>8, <2>9, <2>10, <2>11 DEF ClearsOrdered, RemovedStaysOut
<1> QED BY <1>6, <1>7

\* What load_snapshot returns is the file's, or nothing.
LEMMA LoadedHeld ==
    ASSUME TypeOK, NEW readable \in BOOLEAN
    PROVE  /\ \A k \in Keys : Loaded(readable).entries[k] \in {file.entries[k], None}
           /\ Loaded(readable).clearedAt \in {file.clearedAt, 0}
           /\ Loaded(readable).clearedAt \in Nat /\ Loaded(readable).clearedAt <= file.clearedAt
           /\ Loaded(readable).entries \in Map
           /\ ~readable => /\ Loaded(readable).clearedAt = 0
                           /\ \A k \in Keys : Loaded(readable).entries[k] = None
<1>1. NoFile.clearedAt = 0 /\ NoFile.entries = Empty /\ \A k \in Keys : Empty[k] = None
  BY DEF NoFile, Empty
<1>2. file.clearedAt \in Nat /\ file.entries \in Map
  BY Numbers
<1> QED BY <1>1, <1>2, LoadedType DEF Loaded

\* A compaction reads and adopts under the locks, so all it keeps is clean; one
\* that could not read the file keeps memory as it was.
LEMMA CompactClears ==
    ASSUME Clearing, TypeOK', NEW t \in Threads, NEW readable \in BOOLEAN, NEW dropped \in SUBSET Keys,
           Compact(t, readable, dropped)
    PROVE  Dated' /\ (~raced' => (ClearsOrdered /\ RemovedStaysOut)')
<1> DEFINE d == DaemonOf[t]
           old == Loaded(readable)
           left == AdoptClear(d, mem[d], old.clearedAt)
           merged == MergeNewest(left, old.entries)
           kept == [k \in Keys |-> IF k \in dropped THEN None ELSE merged[k]]
           later == AdoptedAt(d, old.clearedAt)
<1>0. TypeOK /\ Dated /\ LockHeld
  BY DEF Clearing, Orderly
<1>1. /\ d \in Daemons /\ mem[d] \in Map /\ clearedAt[d] \in Nat /\ file.clearedAt \in Nat /\ now \in Nat
      /\ \A x \in Entry : x # None
  BY <1>0, Numbers
<1>2. /\ UNCHANGED <<file, gone, raced, now, writes, disk, doomed, outdated>>
      /\ lock[d] = None /\ pc'[t] = "compact" /\ \A u \in Threads \ {t} : pc'[u] = pc[u]
      /\ mem'[d] = kept /\ \A e \in Daemons \ {d} : mem'[e] = mem[e]
      /\ clearedAt'[d] = later /\ \A e \in Daemons \ {d} : clearedAt'[e] = clearedAt[e]
      /\ snap'[t] = kept /\ \A u \in Threads \ {t} : snap'[u] = snap[u]
      /\ blind \subseteq blind' /\ (~readable => t \in blind')
  BY <1>0, <1>1 DEF Compact, Goto, TypeOK
<1>3. /\ \A k \in Keys : old.entries[k] \in {file.entries[k], None}
      /\ old.clearedAt \in Nat /\ old.clearedAt <= file.clearedAt /\ old.entries \in Map
      /\ (~readable => old.clearedAt = 0 /\ \A k \in Keys : old.entries[k] = None)
  BY <1>0, LoadedHeld
<1>4. left \in Map /\ \A k \in Keys : left[k] # None => left[k] = mem[d][k]
  BY <1>1, AdoptClearType
<1>5. /\ later \in {clearedAt[d], old.clearedAt} /\ later \in Nat
      /\ clearedAt[d] <= later /\ old.clearedAt <= later
  BY <1>0, <1>1, <1>3, AdoptedAtLater
<1>6. merged \in Map /\ \A k \in Keys : merged[k] \in {left[k], old.entries[k]}
  BY <1>3, <1>4, MergeNewestType
<1>7. \A k \in Keys : kept[k] # None => kept[k] = merged[k]
  OBVIOUS
<1>r. readable => old = file
  BY DEF Loaded
<1>b. ~readable => later = clearedAt[d]
  BY <1>1, <1>3 DEF AdoptedAt
<1>a. readable => left = AdoptClear(d, mem[d], file.clearedAt)
  BY <1>r
<1> HIDE DEF old, left, merged, kept, later
<1>8. \A k \in Keys : kept[k] # None => kept[k] = mem[d][k] \/ kept[k] = file.entries[k]
  BY <1>3, <1>4, <1>6, <1>7
<1>9. Copies' \subseteq Copies
  <2> SUFFICES ASSUME NEW x \in Copies' PROVE x \in Copies
    OBVIOUS
  <2>e. x \in Entry /\ x # None
    BY <1>1 DEF Copies
  <2>1. PICK k \in Keys :
           \/ x = file'.entries[k]
           \/ \E e \in Daemons : x = mem'[e][k]
           \/ \E u \in Threads : x = disk'[u].entries[k] \/ x = snap'[u][k]
    BY DEF Copies
  <2>2. CASE x = kept[k]
    BY <1>1, <1>8, <2>e, <2>2 DEF Copies
  <2>3. ASSUME NEW e \in Daemons, x = mem'[e][k] PROVE x = mem[e][k] \/ x = kept[k]
    BY <1>2, <2>3
  <2>4. ASSUME NEW u \in Threads, x = snap'[u][k] PROVE x = snap[u][k] \/ x = kept[k]
    BY <1>2, <2>4
  <2> QED BY <1>2, <2>e, <2>1, <2>2, <2>3, <2>4 DEF Copies
<1>10. Dated'
  <2>1. later <= now
    BY <1>0, <1>1, <1>3, <1>5 DEF Dated
  <2> QED BY <1>0, <1>2, <1>9, <2>1 DEF Dated
<1>11. ASSUME ~raced' PROVE (ClearsOrdered /\ RemovedStaysOut)'
  <2>0. ClearsOrdered /\ RemovedStaysOut
    BY <1>2, <1>11 DEF Clearing
  <2>2. \A u \in Threads : pc'[u] = "wipe" => pc[u] = "wipe" /\ DaemonOf[u] # d
    <3>1. None \notin Threads
      BY RegistryCacheAssumption
    <3> QED BY <1>0, <1>2, <3>1 DEF LockHeld
  <2>4. \A u \in Threads : u # t /\ Sound(u)' => Sound(u)
    BY <1>2 DEF Sound
  <2>r. Sound(t)' => readable
    BY <1>2 DEF Sound
  <2>c. readable => NoneIn(kept, gone)
    <3> SUFFICES ASSUME readable PROVE NoneIn(kept, gone)
      OBVIOUS
    <3>1. NoneIn(left, gone)
      BY <1>0, <1>1, <1>a, <2>0, AdoptDrops DEF RemovedStaysOut
    <3>2. NoneIn(old.entries, gone)
      BY <1>r, <2>0 DEF RemovedStaysOut, FileClean
    <3> QED BY <1>6, <1>7, <3>1, <3>2 DEF NoneIn
  <2>5. DisksBehind'
    BY <1>2, <2>0 DEF ClearsOrdered, DisksBehind
  <2>6. WipeLatest'
    <3> SUFFICES ASSUME NEW u \in Threads, pc'[u] = "wipe", NEW e \in Daemons \ {DaemonOf[u]}
                 PROVE  /\ file.clearedAt < clearedAt[DaemonOf[u]]
                        /\ clearedAt'[e] < clearedAt[DaemonOf[u]]
                        /\ clearedAt'[DaemonOf[u]] = clearedAt[DaemonOf[u]]
      BY <1>0, <1>2, <2>0, <2>2, Numbers DEF WipeLatest, ClearsOrdered
    <3>3. clearedAt[DaemonOf[u]] \in Nat /\ DaemonOf[u] \in Daemons
      BY <1>0, Numbers
    <3>1. pc[u] = "wipe" /\ DaemonOf[u] # d /\ clearedAt'[DaemonOf[u]] = clearedAt[DaemonOf[u]]
      BY <1>2, <2>2, <3>3
    <3>2. /\ file.clearedAt < clearedAt[DaemonOf[u]] /\ clearedAt[e] < clearedAt[DaemonOf[u]]
          /\ clearedAt[d] < clearedAt[DaemonOf[u]]
      BY <1>1, <2>0, <3>1 DEF ClearsOrdered, WipeLatest
    <3>4. later < clearedAt[DaemonOf[u]]
      BY <1>1, <1>3, <1>5, <3>2, <3>3
    <3> QED BY <1>2, <3>1, <3>2, <3>4
  <2>7. SavesAdopted'
    <3> SUFFICES ASSUME NEW u \in Threads, Sound(u)' PROVE file.clearedAt <= clearedAt'[DaemonOf[u]]
      BY <1>2 DEF SavesAdopted
    <3>1. CASE u = t
      BY <1>2, <1>5, <1>r, <2>r, <3>1
    <3>2. CASE u # t
      <4>1. file.clearedAt <= clearedAt[DaemonOf[u]] /\ clearedAt[DaemonOf[u]] \in Nat /\ DaemonOf[u] \in Daemons
        BY <1>0, <2>0, <2>4, <3>2, Numbers DEF ClearsOrdered, SavesAdopted
      <4> QED BY <1>1, <1>2, <1>5, <4>1
    <3> QED BY <3>1, <3>2
  <2>8. DoomedDated'
    BY <1>0, <1>2, <1>9, <2>0, <2>2, Numbers DEF RemovedStaysOut, DoomedDated
  <2>9. GoneDated'
    BY <1>2, <1>9, <2>0 DEF RemovedStaysOut, GoneDated
  <2>10. HoldersBehind'
    <3>1. NoneIn(kept, gone) \/ later < file.clearedAt
      <4>1. CASE readable
        BY <2>c, <4>1
      <4>2. CASE ~readable
        <5>1. \A k \in Keys : kept[k] # None => kept[k] = mem[d][k]
          BY <1>3, <1>4, <1>6, <1>7, <4>2
        <5>2. NoneIn(mem[d], gone) => NoneIn(kept, gone)
          BY <5>1 DEF NoneIn
        <5> QED BY <1>1, <1>b, <2>0, <4>2, <5>2 DEF RemovedStaysOut, HoldersBehind
      <4> QED BY <4>1, <4>2
    <3> QED BY <1>2, <2>0, <3>1 DEF RemovedStaysOut, HoldersBehind
  <2>11. SavesClean'
    <3> SUFFICES ASSUME NEW u \in Threads, Sound(u)' PROVE NoneIn(snap'[u], gone)
      BY <1>2 DEF SavesClean
    <3>1. CASE u = t
      BY <1>2, <2>c, <2>r, <3>1
    <3>2. CASE u # t
      BY <1>2, <2>0, <2>4, <3>2 DEF RemovedStaysOut, SavesClean
    <3> QED BY <3>1, <3>2
  <2>12. FileClean'
    BY <1>2, <2>0 DEF RemovedStaysOut, FileClean, NoneIn
  <2> QED BY <2>5, <2>6, <2>7, <2>8, <2>9, <2>10, <2>11, <2>12 DEF ClearsOrdered, RemovedStaysOut
<1> QED BY <1>10, <1>11

\* A daemon that starts again has what the file has, and its clear.
LEMMA RestartClears ==
    ASSUME Clearing, TypeOK', NEW d \in Daemons, NEW readable \in BOOLEAN, Restart(d, readable)
    PROVE  Dated' /\ (~raced' => (ClearsOrdered /\ RemovedStaysOut)')
<1> DEFINE old == Loaded(readable)
<1>0. TypeOK /\ Dated
  BY DEF Clearing, Orderly
<1>1. /\ UNCHANGED <<file, gone, raced, now, writes>>
      /\ mem'[d] = old.entries /\ \A e \in Daemons \ {d} : mem'[e] = mem[e]
      /\ clearedAt'[d] = old.clearedAt /\ \A e \in Daemons \ {d} : clearedAt'[e] = clearedAt[e]
  BY <1>0 DEF Restart, TypeOK
<1>2. \A u \in Threads :
         /\ disk'[u] \in {disk[u], NoFile} /\ snap'[u] \in {snap[u], Empty} /\ doomed'[u] \subseteq doomed[u]
         /\ pc'[u] \in {"save", "compact", "wipe"} =>
               /\ DaemonOf[u] # d /\ pc'[u] = pc[u] /\ snap'[u] = snap[u] /\ doomed'[u] = doomed[u]
               /\ u \notin outdated' \cup blind' => u \notin outdated \cup blind
  BY DEF Restart
<1>3. /\ \A k \in Keys : old.entries[k] \in {file.entries[k], None}
      /\ old.clearedAt \in Nat /\ old.clearedAt <= file.clearedAt
  BY <1>0, LoadedHeld
<1>4. /\ file.clearedAt \in Nat /\ now \in Nat /\ (\A x \in Entry : x # None)
      /\ \A u \in Threads : DaemonOf[u] \in Daemons
  BY <1>0, Numbers
<1>n. NoFile.clearedAt = 0 /\ NoFile.entries = Empty /\ \A k \in Keys : Empty[k] = None
  BY DEF NoFile, Empty
<1> HIDE DEF old
<1>5. Copies' \subseteq Copies
  <2> SUFFICES ASSUME NEW x \in Copies' PROVE x \in Copies
    OBVIOUS
  <2>e. x \in Entry /\ x # None
    BY <1>4 DEF Copies
  <2>1. PICK k \in Keys :
           \/ x = file'.entries[k]
           \/ \E e \in Daemons : x = mem'[e][k]
           \/ \E u \in Threads : x = disk'[u].entries[k] \/ x = snap'[u][k]
    BY DEF Copies
  <2>3. ASSUME NEW e \in Daemons, x = mem'[e][k] PROVE x = mem[e][k] \/ x = file.entries[k]
    BY <1>1, <1>3, <2>e, <2>3
  <2>4. ASSUME NEW u \in Threads, x = disk'[u].entries[k] \/ x = snap'[u][k]
        PROVE  x = disk[u].entries[k] \/ x = snap[u][k]
    BY <1>2, <1>n, <2>e, <2>4
  <2> QED BY <1>1, <2>e, <2>1, <2>3, <2>4 DEF Copies
<1>6. Dated'
  <2>1. old.clearedAt <= now
    BY <1>0, <1>3, <1>4 DEF Dated
  <2>2. \A u \in Threads : disk'[u].clearedAt <= now
    BY <1>0, <1>2, <1>4, <1>n DEF Dated
  <2> QED BY <1>0, <1>1, <1>2, <1>5, <2>1, <2>2 DEF Dated
<1>7. ASSUME ~raced' PROVE (ClearsOrdered /\ RemovedStaysOut)'
  <2>0. ClearsOrdered /\ RemovedStaysOut
    BY <1>1, <1>7 DEF Clearing
  <2>1. \A u \in Threads : Sound(u)' => Sound(u) /\ DaemonOf[u] # d /\ snap'[u] = snap[u]
    BY <1>2 DEF Sound
  <2>2. DisksBehind'
    <3> SUFFICES ASSUME NEW u \in Threads PROVE disk'[u].clearedAt <= file.clearedAt
      BY <1>1 DEF DisksBehind
    <3> QED BY <1>2, <1>4, <1>n, <2>0 DEF ClearsOrdered, DisksBehind
  <2>3. WipeLatest'
    <3> SUFFICES ASSUME NEW u \in Threads, pc'[u] = "wipe"
                 PROVE  /\ file.clearedAt < clearedAt[DaemonOf[u]]
                        /\ \A e \in Daemons \ {DaemonOf[u]} : clearedAt'[e] < clearedAt[DaemonOf[u]]
                        /\ clearedAt'[DaemonOf[u]] = clearedAt[DaemonOf[u]]
      BY <1>1 DEF WipeLatest
    <3>1. pc[u] = "wipe" /\ DaemonOf[u] # d /\ clearedAt'[DaemonOf[u]] = clearedAt[DaemonOf[u]]
      BY <1>1, <1>2, <1>4
    <3>2. /\ file.clearedAt < clearedAt[DaemonOf[u]] /\ clearedAt[DaemonOf[u]] \in Nat
          /\ \A e \in Daemons \ {DaemonOf[u]} : clearedAt[e] < clearedAt[DaemonOf[u]]
      BY <1>0, <2>0, <3>1, Numbers DEF ClearsOrdered, WipeLatest
    <3>3. old.clearedAt < clearedAt[DaemonOf[u]]
      BY <1>3, <1>4, <3>2
    <3> QED BY <1>1, <3>1, <3>2, <3>3
  <2>4. SavesAdopted' /\ SavesClean'
    BY <1>1, <1>4, <2>0, <2>1 DEF ClearsOrdered, SavesAdopted, RemovedStaysOut, SavesClean
  <2>5. DoomedDated'
    BY <1>1, <1>2, <1>4, <1>5, <2>0 DEF RemovedStaysOut, DoomedDated
  <2>6. GoneDated' /\ FileClean'
    BY <1>1, <1>5, <2>0 DEF RemovedStaysOut, GoneDated, FileClean
  <2>7. HoldersBehind'
    <3>1. NoneIn(old.entries, gone)
      BY <1>3, <2>0 DEF RemovedStaysOut, FileClean, NoneIn
    <3> QED BY <1>1, <2>0, <3>1 DEF RemovedStaysOut, HoldersBehind
  <2> QED BY <2>2, <2>3, <2>4, <2>5, <2>6, <2>7 DEF ClearsOrdered, RemovedStaysOut
<1> QED BY <1>6, <1>7

\* Every step keeps the dates of copies and clears in order.
LEMMA ClearingStep == Clearing /\ [Next]_vars => Clearing'
<1> SUFFICES ASSUME Clearing, [Next]_vars PROVE Clearing'
  OBVIOUS
<1> DEFINE Goal == Dated' /\ (~raced' => (ClearsOrdered /\ RemovedStaysOut)')
<1>0. Orderly' /\ TypeOK' /\ TypeOK
  BY OrderlyStep DEF Clearing, Orderly
<1>n. now \in Nat
  BY <1>0, Numbers
<1>1. ASSUME NEW t \in Threads, NEW k \in Keys, NEW at \in Times, Insert(t, k, at) PROVE Goal
  BY <1>0, <1>1, InsertClears
<1>2. ASSUME NEW t \in Threads, Count(t) \/ TakeCount(t) PROVE Goal
  <2>1. /\ UNCHANGED <<file, mem, clearedAt, gone, raced, writes, now, disk, snap, doomed, outdated, blind>>
        /\ \A u \in Threads : pc'[u] \in {"save", "compact", "wipe"} => pc'[u] = pc[u]
    BY <1>0, <1>2 DEF Count, TakeCount, Goto, TypeOK, history
  <2> QED BY <1>0, <1>n, <2>1, QuietKeeps DEF Sound
<1>3. ASSUME NEW t \in Threads, NEW readable \in BOOLEAN, Load(t, readable) PROVE Goal
  <2>1. /\ UNCHANGED <<file, mem, clearedAt, gone, raced, writes, now, snap, doomed, outdated>>
        /\ \A u \in Threads : pc'[u] \in {"save", "compact", "wipe"} => pc'[u] = pc[u]
        /\ \A u \in Threads : disk'[u] \in {disk[u], file, NoFile}
        /\ blind \subseteq blind'
    BY <1>0, <1>3 DEF Load, Goto, TypeOK, Loaded
  <2> QED BY <1>0, <1>n, <2>1, QuietKeeps DEF Sound
<1>4. ASSUME NEW t \in Threads, Clone(t) PROVE Goal
  BY <1>0, <1>4, CloneClears
<1>5. ASSUME NEW t \in Threads, Save(t) \/ SaveCompacted(t) PROVE Goal
  BY <1>5, WriteClears
<1>6. ASSUME NEW t \in Threads, SaveFails(t) \/ WipeFails(t) \/ SaveCompactedFails(t) PROVE Goal
  <2>1. /\ KeepFile(t) /\ Return(t) /\ UNCHANGED <<mem, clearedAt, now, writes, gone>>
    BY <1>6 DEF SaveFails, WipeFails, SaveCompactedFails
  <2>2. /\ UNCHANGED <<file, raced>> /\ outdated' = outdated \ {t} /\ blind' = blind \ {t}
        /\ pc'[t] = "idle" /\ \A u \in Threads \ {t} : pc'[u] = pc[u] /\ snap'[u] = snap[u]
    BY <1>0, <2>1 DEF KeepFile, Return, Goto, TypeOK
  <2>3. \A u \in Threads :
           disk'[u] \in {disk[u], file, NoFile} /\ snap'[u] \in {snap[u], Empty} /\ doomed'[u] \subseteq doomed[u]
    BY <1>0, <2>1 DEF Return, TypeOK
  <2>4. \A u \in Threads : pc'[u] \in {"save", "compact", "wipe"} => pc'[u] = pc[u]
    BY <2>2
  <2>5. \A u \in Threads : Sound(u)' => Sound(u) /\ snap'[u] = snap[u]
    BY <2>2 DEF Sound
  <2> QED BY <1>0, <1>n, <2>1, <2>2, <2>3, <2>4, <2>5, QuietKeeps
<1>7. ASSUME NEW t \in Threads, Clear(t) PROVE Goal
  BY <1>7, ClearClears
<1>8. ASSUME NEW t \in Threads, Wipe(t) PROVE Goal
  BY <1>8, WipeClears
<1>9. ASSUME NEW t \in Threads, NEW readable \in BOOLEAN, NEW dropped \in SUBSET Keys,
             Compact(t, readable, dropped)
      PROVE  Goal
  BY <1>0, <1>9, CompactClears
<1>10. ASSUME NEW d \in Daemons, NEW readable \in BOOLEAN, Restart(d, readable) PROVE Goal
  BY <1>0, <1>10, RestartClears
<1>11. ASSUME Tick PROVE Goal
  <2>1. /\ UNCHANGED <<file, mem, clearedAt, gone, raced, writes, disk, snap, doomed, outdated, blind, pc>>
        /\ now' = now + 1
    BY <1>11 DEF Tick, state, local, history
  <2> QED BY <1>0, <1>n, <2>1, QuietKeeps DEF Sound
<1>12. ASSUME UNCHANGED vars PROVE Goal
  <2>1. UNCHANGED <<file, mem, clearedAt, gone, raced, writes, disk, snap, doomed, outdated, blind, pc, now>>
    BY <1>12 DEF vars, state, local, history
  <2> QED BY <1>0, <1>n, <2>1, QuietKeeps DEF Sound
<1>13. Goal
  BY <1>1, <1>2, <1>3, <1>4, <1>5, <1>6, <1>7, <1>8, <1>9, <1>10, <1>11, <1>12 DEF Next
<1> QED BY <1>0, <1>13 DEF Clearing

\* Nothing is held and nothing has been cleared at first.
LEMMA ClearingInit == Init => Clearing
<1> SUFFICES ASSUME Init PROVE Clearing
  OBVIOUS
<1>0. Orderly /\ TypeOK
  BY OrderlyInit DEF Orderly
<1>1. NoFile.clearedAt = 0 /\ NoFile.entries = Empty /\ \A k \in Keys : Empty[k] = None
  BY DEF NoFile, Empty
<1>2. /\ file = NoFile /\ now = 0 /\ writes = 0 /\ gone = {}
      /\ \A d \in Daemons : mem[d] = Empty /\ clearedAt[d] = 0
      /\ \A t \in Threads : disk[t] = NoFile /\ snap[t] = Empty /\ pc[t] = "idle" /\ doomed[t] = {}
  BY DEF Init
<1>3. Copies = {}
  <2>1. \A x \in Entry : x # None
    BY <1>0, Numbers
  <2> QED BY <1>1, <1>2, <2>1 DEF Copies
<1>4. Dated
  BY <1>1, <1>2, <1>3 DEF Dated
<1>5. ClearsOrdered
  BY <1>1, <1>2 DEF ClearsOrdered, DisksBehind, WipeLatest, SavesAdopted, Sound
<1>6. RemovedStaysOut
  BY <1>1, <1>2, <1>3 DEF RemovedStaysOut, DoomedDated, GoneDated, HoldersBehind, SavesClean, FileClean, NoneIn
<1> QED BY <1>0, <1>4, <1>5, <1>6 DEF Clearing

\* What existed when a clear began never comes back into the file once the clear
\* is written, however many daemons still held it, unless daemons meet in the
\* window between a read and a rename, clear at once, or cannot read the file
\* (cache.rs:180-207 and 275-302).
THEOREM ClearedStaysCleared == Spec => []ClearSticks
<1>1. Clearing => ClearSticks
  BY DEF Clearing, RemovedStaysOut, FileClean, NoneIn, ClearSticks, IdsOf
<1> QED BY ClearingInit, ClearingStep, <1>1, PTL DEF Spec
=============================================================================
