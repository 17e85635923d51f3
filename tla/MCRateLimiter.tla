--------------------------- MODULE MCRateLimiter ---------------------------
(***************************************************************************)
(* RateLimiter on a small instance for TLC.                                *)
(***************************************************************************)
EXTENDS RateLimiter, TLC

\* Sessions, tasks and users are interchangeable.
Symmetric == Permutations(Sessions) \cup Permutations(Tasks) \cup Permutations(Users)
=============================================================================
