---- MODULE MCFreshness ----
(* Workloads: what one or two threads ask for, and what happens to the disk. *)
EXTENDS Freshness

Plan(first, second, moves, n) == [asks |-> <<first, second>>, moves |-> moves, changes |-> n]
Install == <<"install", Entry>>
Window == <<"elapse", Entry>>

MCPlans == {
  \* one thread, an installed package: touch, update, install, window
  Plan(<<<<"p", "serve">>, <<"p", "fresh">>, <<"p", "serve">> >>, <<>>,
       {<<"edit", 2>>, <<"touch", 2>>, Install, Window}, 2),
  \* a stale entry of the workspace, refreshed behind the answer
  Plan(<<<<"w", "swr">>, <<"w", "swr">>, <<"w", "serve">> >>, <<>>,
       {<<"edit", 1>>, <<"lock", 1>>, <<"delete", 2>>, <<"create", 2>>}, 2),
  \* two readers of one key race an editor
  Plan(<<<<"w", "swr">>, <<"w", "swr">> >>, <<<<"w", "fresh">> >>, {<<"edit", 1>>}, 2),
  Plan(<<<<"p", "swr">> >>, <<<<"p", "fresh">> >>, {<<"edit", 2>>, <<"lock", 2>>}, 1),
  \* a font comes and goes
  Plan(<<<<"p", "serve">>, <<"p", "fresh">> >>, <<>>, {<<"delete", 2>>, <<"create", 2>>}, 3),
  \* the memos and the aggregate
  Plan(<<<<"exports", "serve">>, <<"exports", "serve">>, <<"exports", "serve">> >>, <<>>,
       {<<"edit", 2>>, <<"edit", 1>>, Install, Window}, 2),
  Plan(<<<<"exports", "serve">> >>, <<<<"exports", "serve">> >>, {<<"edit", 4>>, Install}, 1),
  Plan(<<<<"aggregate", "serve">>, <<"aggregate", "serve">> >>, <<>>,
       {<<"edit", 4>>, <<"edit", 2>>, <<"tsconfig", 1>>, Install, Window}, 2),
  \* the process dies, files vanish and cannot be read
  Plan(<<<<"p", "serve">>, <<"p", "serve">>, <<"p", "swr">> >>, <<>>,
       {<<"edit", 2>>, <<"restart", 1>>, <<"lock", 2>>, <<"delete", 1>>}, 3) }

====
