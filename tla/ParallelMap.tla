---------------------------- MODULE ParallelMap ----------------------------
(***************************************************************************)
(* What engine/scheduling.rs promises its callers: a batch of inputs is    *)
(* mapped by threads nobody sees.  Every input is worked on once, in any   *)
(* order, and the caller gets the outputs back in the order of the inputs. *)
(***************************************************************************)
EXTENDS Naturals, Sequences

CONSTANTS
    Calls,          \* the callers, each with one batch
    Batches,        \* what a caller may hand over: sequences of inputs
    Outputs(_, _),  \* what the work on an input, at its place in the batch, can give
    None            \* nothing yet

VARIABLES
    batch,   \* caller -> the inputs it handed over, or None
    output,  \* caller -> place -> the output there, or None
    answer   \* caller -> what was returned to it, or None

pvars == <<batch, output, answer>>

PInit ==
    /\ batch = [c \in Calls |-> None]
    /\ output = [c \in Calls |-> <<>>]
    /\ answer = [c \in Calls |-> None]

Ask(c) ==
    /\ batch[c] = None
    /\ \E in \in Batches :
           /\ batch' = [batch EXCEPT ![c] = in]
           /\ output' = [output EXCEPT ![c] = [i \in DOMAIN in |-> None]]
    /\ UNCHANGED answer

\* Some inputs are answered, each of them for the first time.
Open(c) == {i \in DOMAIN output[c] : output[c][i] = None}
Work(c) ==
    /\ \E I \in SUBSET Open(c) \ {{}} :
       \E out \in [I -> UNION {Outputs(i, batch[c][i]) : i \in I}] :
           /\ \A i \in I : out[i] \in Outputs(i, batch[c][i])
           /\ output' = [output EXCEPT
                  ![c] = [i \in DOMAIN @ |-> IF i \in I THEN out[i] ELSE @[i]]]
    /\ UNCHANGED <<batch, answer>>

\* The caller has its answer once every input has its output.
Answer(c) ==
    /\ batch[c] # None
    /\ answer[c] = None
    /\ Open(c) = {}
    /\ answer' = [answer EXCEPT ![c] = output[c]]
    /\ UNCHANGED <<batch, output>>

PNext == \E c \in Calls : Ask(c) \/ Work(c) \/ Answer(c)

PSpec ==
    /\ PInit
    /\ [][PNext]_pvars
    /\ \A c \in Calls : WF_pvars(Work(c)) /\ WF_pvars(Answer(c))
=============================================================================
