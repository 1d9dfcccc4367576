---------------------------- MODULE MCConnection ----------------------------
(* Instances of Connection for TLC: what a client sends in a session. *)
EXTENDS Connection

CONSTANTS d1, d2

Msg(i, k, ds) == [id |-> i, kind |-> k, docs |-> ds]
Greeting == Msg(0, "hello", {})

\* An analysis, a query and an invalidation, and a shutdown.
Edit ==
    {Greeting, Msg(1, "analyze", {d1}), Msg(2, "query", {}),
     Msg(3, "invalidate", {}), Msg(4, "shutdown", {})}

\* Two analyses of one document; one of a document that is hidden meanwhile.
Typing == {Greeting, Msg(1, "analyze", {d1}), Msg(5, "analyze", {d1})}
Hiding == {Greeting, Msg(1, "analyze", {d1}), Msg(6, "visible", {d2})}

\* A client of an unsupported version.
Stranger ==
    {Msg(14, "badhello", {}), Msg(2, "query", {}), Msg(8, "garbled", {}),
     Msg(3, "invalidate", {})}

\* Requests that do not count as activity, and a prewarm.
Quiet == {Greeting, Msg(2, "query", {}), Msg(10, "remove", {}), Msg(11, "prewarm", {})}

\* A streamed manifest, which does.
Manifest == {Greeting, Msg(12, "stream", {}), Msg(2, "query", {}), Msg(4, "shutdown", {})}

\* A request whose handler is parked, and one that returns.
Stuck == {Greeting, Msg(13, "request", {}), Msg(2, "query", {}), Msg(4, "shutdown", {})}

AllSessions == {Edit, Typing, Hiding, Stranger, Quiet, Manifest, Stuck}
ParkedHandlers == {Msg(13, "request", {})}
=============================================================================
