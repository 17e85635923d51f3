--------------------------- MODULE MCKeyDelivery ---------------------------
(***************************************************************************)
(* KeyDelivery on a small instance for TLC.                                *)
(***************************************************************************)
EXTENDS KeyDelivery, FiniteSets, TLC

CONSTANT MaxBusy  \* bound on the invocations and calls under way at once

\* A helper keeps its slot busy while it is at work, and the Lambda it called
\* after it has given up.
Busy == {i \in Invocations : pc[i] # "idle" \/ hpc[i] # "idle"}
          \cup {a \in Operators : opc[a] # "idle"}

FewBusy == Cardinality(Busy) <= MaxBusy

\* Operators, keys and users are interchangeable; of the slots, some are helpers'.
Symmetric ==
  Permutations(Operators) \cup Permutations(Keys) \cup Permutations(Users)
    \cup Permutations(HelperSlots) \cup Permutations(Invocations \ HelperSlots)
=============================================================================
