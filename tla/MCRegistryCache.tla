-------------------------- MODULE MCRegistryCache --------------------------
(* Two workloads: two threads of one daemon, and two daemons of one thread. *)
EXTENDS RegistryCache, TLC

CONSTANTS d1, d2, t1, t2, u1, k1

VARIABLE workload

OwnDaemon == (t1 :> d1) @@ (t2 :> d1) @@ (u1 :> d2)

MCInit == Init /\ workload \in {{t1, t2}, {t1, u1}}

\* The threads outside the workload stay where they are.
MCNext ==
    /\ Next
    /\ \A t \in Threads \ workload : pc'[t] = "idle"
    /\ \A d \in Daemons : mem'[d] # mem[d] => \E t \in workload : DaemonOf[t] = d
    /\ UNCHANGED workload

MCSpec == MCInit /\ [][MCNext]_<<vars, workload>>
=============================================================================
