---------------------------- MODULE MCSizeReads ----------------------------
(***************************************************************************)
(* Three interactive reads of one document, and a plain read of it that    *)
(* serves nothing stale itself and cancels what the others revalidate.     *)
(* The interactive ones are interchangeable: they are sent in the order of *)
(* their numbers, which leaves out only renamings of the same behaviour.   *)
(***************************************************************************)
EXTENDS SizeReads

CONSTANT d1

FourReads == [r \in 1..4 |-> d1]

InOrder == \A r, s \in Tagged : r < s /\ state'[s] # "unread" => state'[r] # "unread"

PlainIsFresh == \A r \in Reads \ Tagged : stale'[r] = 0

MCSpec == Init /\ [][Next /\ InOrder /\ PlainIsFresh]_vars
=============================================================================
