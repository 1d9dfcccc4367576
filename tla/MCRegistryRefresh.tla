------------------------- MODULE MCRegistryRefresh -------------------------
(***************************************************************************)
(* Two refreshes of one manifest, sent in the order of their numbers, and  *)
(* one of another manifest that the cache answers.                         *)
(***************************************************************************)
EXTENDS RegistryRefresh

CONSTANTS web, backend

ThreeBlocks == [b \in 1..3 |-> IF b = 3 THEN backend ELSE web]

InOrder == blockState'[2] # "unread" => blockState'[1] # "unread"
AllCached == \A t \in Targets : job'[3][t] \in {"none", "over"}

MCSpec == RefreshInit /\ [][RefreshNext /\ InOrder /\ AllCached]_refreshVars
=============================================================================
