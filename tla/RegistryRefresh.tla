--------------------------- MODULE RegistryRefresh ---------------------------
(***************************************************************************)
(* Bulk registry refreshes of one connection: RefreshRegistryHints in      *)
(* src/daemon/src/ipc/server.rs and spawn_registry_refresh_block in        *)
(* src/daemon/src/service.rs.                                              *)
(*                                                                         *)
(* A request is a block of targets for one manifest.  The loop answers     *)
(* what the registry cache can and queues a job per remaining target on    *)
(* the registry lane (module Lane); a newer block of the same manifest, or *)
(* the end of the connection, sets the block's flag.  The jobs report over *)
(* a channel to the block's forwarder, which streams what arrives, and     *)
(* when the last job has dropped its sender has the registry cache saved,  *)
(* reads the flag and sends the final response.  What a fetch does (cache, *)
(* single flight, rate limit, retries), what it finds, and the saved file  *)
(* are left out: a result is a result, also when it is an error.           *)
(*                                                                         *)
(* spawn_registry_refresh_block runs on the connection's loop, the only    *)
(* place that sets flags, so the block it starts is never cancelled while  *)
(* it runs: starting a block is one step, and its two early checks of the  *)
(* flag (service.rs:388, 410) find it clear.                               *)
(***************************************************************************)
EXTENDS Naturals, FiniteSets

CONSTANTS
    Blocks,     \* refresh requests, each sent once
    Sources,    \* manifests
    SourceOf,   \* the manifest of a block
    Targets,    \* the indexes of a block's targets
    NoBlock     \* no block

ASSUME RegistryRefreshAssumption ==
    /\ SourceOf \in [Blocks -> Sources]
    /\ NoBlock \notin Blocks

VARIABLES
    open,       \* the connection still serves
    current,    \* active_by_source
    cancelled,  \* blocks whose flag is set
    job,        \* per block and target, see RefreshTypeOK
    chan,       \* per block: targets whose result is sent and not received
    ordered,    \* per block: ordered_results, the targets streamed so far
    fetched,    \* history: <<block, target>> whose fetch has begun
    blockState, \* per block, see RefreshTypeOK
    final       \* per block: the final response, per target

jobs == <<job, chan, fetched>>
client == <<ordered, final>>
refreshVars == <<open, current, cancelled, jobs, client, blockState>>

RefreshInit ==
    /\ open = TRUE
    /\ current = [s \in Sources |-> NoBlock]
    /\ cancelled = {}
    /\ job = [b \in Blocks |-> [t \in Targets |-> "none"]]
    /\ chan = [b \in Blocks |-> {}]
    /\ ordered = [b \in Blocks |-> {}]
    /\ fetched = {}
    /\ blockState = [b \in Blocks |-> "unread"]
    /\ final = [b \in Blocks |-> [t \in Targets |-> "unsent"]]

-----------------------------------------------------------------------------
\* RegistryRefreshLifecycle::start_new_block.
StartNewBlock(b) ==
    /\ cancelled' = cancelled \cup ({current[SourceOf[b]]} \ {NoBlock})
    /\ current' = [current EXCEPT ![SourceOf[b]] = b]

\* The request arm: the cached targets are answered at once, the others queued.
Refresh(b) ==
    /\ open
    /\ blockState[b] = "unread"
    /\ StartNewBlock(b)
    /\ \E cached \in SUBSET Targets :
          /\ job' = [job EXCEPT ![b] =
                        [t \in Targets |-> IF t \in cached THEN "over" ELSE "queued"]]
          /\ chan' = [chan EXCEPT ![b] = cached]
    /\ blockState' = [blockState EXCEPT ![b] = "forward"]
    /\ UNCHANGED <<open, fetched, client>>

\* A lane runner takes the job and reads the flag: skipped, the job reports
\* nothing and drops its sender.
Skip(b, t) ==
    /\ job[b][t] = "queued"
    /\ b \in cancelled
    /\ job' = [job EXCEPT ![b][t] = "over"]
    /\ UNCHANGED <<open, current, cancelled, chan, fetched, client, blockState>>

Fetch(b, t) ==
    /\ job[b][t] = "queued"
    /\ b \notin cancelled
    /\ job' = [job EXCEPT ![b][t] = "fetch"]
    /\ fetched' = fetched \cup {<<b, t>>}
    /\ UNCHANGED <<open, current, cancelled, chan, client, blockState>>

\* Mutant. A fetch that comes back to a cancelled block is thrown away.
ReportUnlessCancelled(b, t) ==
    /\ job[b][t] = "fetch"
    /\ chan' = [chan EXCEPT ![b] = IF b \in cancelled THEN @ ELSE @ \cup {t}]
    /\ job' = [job EXCEPT ![b][t] = "over"]
    /\ UNCHANGED <<open, current, cancelled, fetched, client, blockState>>

\* Mutant. A panicking fetch unwinds past on_result.
ReportUnlessPanic(b, t) ==
    /\ job[b][t] = "fetch"
    /\ chan' \in {chan, [chan EXCEPT ![b] = @ \cup {t}]}
    /\ job' = [job EXCEPT ![b][t] = "over"]
    /\ UNCHANGED <<open, current, cancelled, fetched, client, blockState>>

\* The fetch is over and the job reports: a hint, or the error of the lookup
\* or of a panic.
Report(b, t) ==
    /\ job[b][t] = "fetch"
    /\ chan' = [chan EXCEPT ![b] = @ \cup {t}]
    /\ job' = [job EXCEPT ![b][t] = "over"]
    /\ UNCHANGED <<open, current, cancelled, fetched, client, blockState>>

-----------------------------------------------------------------------------
(* The forwarder. *)

\* recv, and try_recv until the channel is empty: one partial response.
Forward(b) ==
    /\ blockState[b] = "forward"
    /\ chan[b] # {}
    /\ ordered' = [ordered EXCEPT ![b] = @ \cup chan[b]]
    /\ chan' = [chan EXCEPT ![b] = {}]
    /\ UNCHANGED <<open, current, cancelled, job, fetched, final, blockState>>

\* recv ends: no sender is left and nothing is in the channel.
Drained(b) ==
    /\ blockState[b] = "forward"
    /\ chan[b] = {}
    /\ \A t \in Targets : job[b][t] = "over"
    /\ blockState' = [blockState EXCEPT ![b] = "save"]
    /\ UNCHANGED <<open, current, cancelled, jobs, client>>

\* flush_registry_hints, whether it succeeds or not.
SaveHints(b) ==
    /\ blockState[b] = "save"
    /\ blockState' = [blockState EXCEPT ![b] = "final"]
    /\ UNCHANGED <<open, current, cancelled, jobs, client>>

\* final_registry_results: a slot nobody filled is left out of a cancelled
\* block's response and an error in a live one's.
FinalSlot(b, t) ==
    CASE t \in ordered[b] -> "result"
      [] t \notin ordered[b] /\ b \in cancelled -> "left out"
      [] OTHER -> "no result"

Finish(b) ==
    /\ blockState[b] = "final"
    /\ final' = [final EXCEPT ![b] = [t \in Targets |-> FinalSlot(b, t)]]
    /\ blockState' = [blockState EXCEPT ![b] = "over"]
    /\ UNCHANGED <<open, current, cancelled, jobs, ordered>>

-----------------------------------------------------------------------------
\* close_connection: cancel_all.
Close ==
    /\ open
    /\ open' = FALSE
    /\ cancelled' = cancelled \cup ({current[s] : s \in Sources} \ {NoBlock})
    /\ UNCHANGED <<current, jobs, client, blockState>>

JobStep(b, t) == Skip(b, t) \/ Fetch(b, t) \/ Report(b, t)
Forwarder(b) == Forward(b) \/ Drained(b) \/ SaveHints(b) \/ Finish(b)

RefreshNext ==
    \/ \E b \in Blocks : Refresh(b) \/ Forwarder(b)
    \/ \E b \in Blocks, t \in Targets : JobStep(b, t)
    \/ Close

RefreshSpec == RefreshInit /\ [][RefreshNext]_refreshVars

-----------------------------------------------------------------------------
RefreshTypeOK ==
    /\ open \in BOOLEAN
    /\ current \in [Sources -> Blocks \cup {NoBlock}]
    /\ cancelled \subseteq Blocks
    /\ job \in [Blocks -> [Targets -> {"none", "queued", "fetch", "over"}]]
    /\ chan \in [Blocks -> SUBSET Targets]
    /\ ordered \in [Blocks -> SUBSET Targets]
    /\ fetched \subseteq Blocks \X Targets
    /\ blockState \in [Blocks -> {"unread", "forward", "save", "final", "over"}]
    /\ final \in [Blocks -> [Targets -> {"unsent", "result", "left out", "no result"}]]

\* No dependency is reported as failed because its fetch was skipped: no final
\* response holds the fabricated error, although the jobs, the forwarder and the
\* loop that cancels read and set the flag at different times
\* (server.rs:114-119, 72-74).
NoFabricatedFailure ==
    \A b \in Blocks, t \in Targets : final[b][t] # "no result"

\* Refreshing one manifest never cancels the refresh of another: a block is
\* cancelled by a newer block of its own manifest, or the end of the connection
\* (server.rs:72-74).
CancelledByOwnSource ==
    \A b \in cancelled :
        open => LET newer == current[SourceOf[b]]
                IN  newer # b /\ newer \in Blocks /\ SourceOf[newer] = SourceOf[b]

\* Jobs in flight finish (service.rs:370): whatever was fetched for a block,
\* cancelled or not, is streamed to the client and in the final response.
FetchedIsDelivered ==
    \A b \in Blocks, t \in Targets :
        blockState[b] = "over" /\ <<b, t>> \in fetched => final[b][t] = "result"

=============================================================================
