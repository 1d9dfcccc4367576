---------------------------- MODULE MCCacheBudget ----------------------------
EXTENDS CacheBudget

MCShards == {1, 2}
MCKeys == 1..3
row(q, l) == [seq |-> q, len |-> l]
op(do, s, k) == [do |-> do, s |-> s, k |-> k, len |-> 2]

\* Two shards, one of them within its floor or both above it, with sequences
\* that interleave.
MCDisks ==
    {<< <<row(1, 2), row(3, 1), row(5, 2)>>, <<row(2, 2), row(4, 2), None>> >>,
     << <<row(4, 3), row(2, 2), row(3, 1)>>, <<row(1, 3), None, None>> >>}
MCPlans ==
    {<<op("hit", 1, 1), op("insert", 1, 1)>>,
     <<op("hit", 1, 1), op("flush", 1, 1)>>,
     <<op("refuse", 1, 2), op("insert", 2, 3)>>,
     <<op("invalidate", 1, 3), op("insert", 1, 3)>>,
     <<op("clear", 1, 1), op("refuse", 2, 1)>>}
=============================================================================
