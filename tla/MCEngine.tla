------------------------------ MODULE MCEngine ------------------------------
(***************************************************************************)
(* A pool of three workers, hence a lane of one, two permits, and drains   *)
(* of two threads: a call on its own, a manifest sweep against a call, a   *)
(* report of two pieces against a call, a sweep of recent entries against  *)
(* a streamed document, two manifest sweeps in a row.  Builds give a       *)
(* value, fail, panic and hang; an entry is edited while it is looked at.  *)
(***************************************************************************)
EXTENDS Engine

Item(build) == [hit |-> FALSE, build |-> build]
Hit == [hit |-> TRUE, build |-> "value"]
Dependency(entry, build) ==
    [entry |-> entry, installed |-> TRUE, crash |-> FALSE, hit |-> FALSE, build |-> build]
Missing == [Dependency(1, "value") EXCEPT !.installed = FALSE]
Crashing == [Dependency(2, "value") EXCEPT !.crash = TRUE]

Call(items) == [kind |-> "call", items |-> items]
Stream(items) == [kind |-> "stream", items |-> items]
Recent(items) == [kind |-> "recent", items |-> items]
Manifest(deps) == [kind |-> "manifest", items |-> <<>>, deps |-> deps]
Report == [kind |-> "report", items |-> <<>>]
Piece(items) == [kind |-> "piece", items |-> items, report |-> 1]

MCPlans ==
    {<<Call(<<Item("value"), Hit, Item("hang")>>)>>,
     <<Manifest(<<Dependency(1, "value")>>), Call(<<Hit, Item("hang")>>)>>,
     <<Report, Piece(<<Item("value")>>), Piece(<<Item("fail"), Hit>>), Call(<<Item("value")>>)>>,
     <<Recent(<<Item("fail"), Hit, Item("value"), Item("fail")>>), Stream(<<Item("panic")>>)>>,
     <<Manifest(<<Missing, Dependency(1, "fail"), Crashing>>), Manifest(<<Dependency(2, "fail")>>)>>}
\* The report alone on the pool that the daemon has on a machine of four cores.
MCSmallPlans ==
    {<<Report, Piece(<<Item("value")>>), Piece(<<Item("value")>>), Call(<<Hit>>)>>}
MCExposes == <<<<TRUE, FALSE>>, <<FALSE>>>>
MCJobs == 1..4
MCRunners == 11..13
MCSmallRunners == 11..12
=============================================================================
