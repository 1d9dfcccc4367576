--------------------------- MODULE MCShardRegistry ---------------------------
EXTENDS ShardRegistry

serve(s) == [do |-> "serve", s |-> s]
remove(s) == [do |-> "remove", s |-> s]
all(op) == [do |-> op, s |-> 0]

\* Each workload sets two threads against each other: requests against
\* requests, an invalidation, a listing, a removal, a purge and maintenance.
MCPlans ==
    {[a |-> <<serve(1), serve(1)>>, b |-> <<serve(1), remove(1)>>],
     [a |-> <<serve(1)>>, b |-> <<all("invalidate"), serve(1)>>],
     [a |-> <<serve(1), serve(1)>>, b |-> <<all("status")>>],
     [a |-> <<serve(1)>>, b |-> <<all("maintain")>>],
     [a |-> <<serve(1), serve(1)>>, b |-> <<serve(1), all("flush")>>],
     [a |-> <<remove(1), serve(1)>>, b |-> <<all("status"), serve(1)>>],
     [a |-> <<serve(2), all("clear")>>, b |-> <<serve(1)>>],
     [a |-> <<serve(1)>>, b |-> <<all("orphans")>>],
     [a |-> <<all("maintain")>>, b |-> <<all("maintain")>>]}
MCThreads == {"a", "b"}
\* The first shard's database may be unfit in each of the ways an open knows.
MCLeftovers == <<{"good", "blank", "old", "corrupt"}, {"good"}>>
\* The first project's volume is out of reach, the second's folder is gone.
MCRoots == <<[root |-> "no", above |-> "no"], [root |-> "no", above |-> "yes"]>>
=============================================================================
