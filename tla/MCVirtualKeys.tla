--------------------------- MODULE MCVirtualKeys ---------------------------
(***************************************************************************)
(* VirtualKeys on a small instance for TLC.                                *)
(***************************************************************************)
EXTENDS VirtualKeys, TLC

\* Invocations, operators and keys are interchangeable.
Symmetric ==
  Permutations(Invocations) \cup Permutations(Operators) \cup Permutations(Keys)
    \cup Permutations(Users)
=============================================================================
