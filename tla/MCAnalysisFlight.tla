-------------------------- MODULE MCAnalysisFlight --------------------------
(***************************************************************************)
(* Three callers: a leader, a follower and a late caller, who may find the  *)
(* registry vacant, led, or being vacated by a leader that has published    *)
(* or died.  Flight addresses are interchangeable: the lowest free one is   *)
(* taken, which leaves out only renamings of the same behaviour.            *)
(***************************************************************************)
EXTENDS AnalysisFlight, Naturals

LowestAddress ==
    \A t \in Thread :
        pc[t] = "claim" /\ pc'[t] = "compute" =>
            \A f \in FlightId : f < held'[t] => ~Unreferenced(f)

MCSpec == FlightInit /\ [][FlightNext /\ LowestAddress]_flightVars /\ FlightFairness
=============================================================================
