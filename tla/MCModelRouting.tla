--------------------------- MODULE MCModelRouting ---------------------------
(***************************************************************************)
(* ModelRouting on a small instance for TLC.                               *)
(***************************************************************************)
EXTENDS ModelRouting, TLC

CONSTANTS m1, sonnet, haiku, x1, x2, r1, r2, p1

\* One rule, which may be in force or not.
Rules == {[matches |-> {m1}, logical |-> sonnet, priority |-> 1]}

Route(logical, priority, api, model, profile, active) ==
  [logical |-> logical, provider |-> "bedrock", priority |-> priority, api |-> api,
   model |-> model, profile |-> profile, active |-> active]

\* A route of each kind: preferred, switched off, off the converse API, known by
\* its inference profile, and for another logical model.
Values ==
  {Route(sonnet, 2, "converse", x1, NoId, TRUE),
   Route(sonnet, 2, "converse", x1, NoId, FALSE),
   Route(sonnet, 2, "invoke", x1, NoId, TRUE),
   Route(sonnet, 1, "converse", NoId, x2, TRUE),
   Route(haiku, 2, "converse", x1, NoId, TRUE)}

Seed == [r \in {r1, r2, p1} |->
  IF r = r1 THEN Route(sonnet, 2, "converse", x1, NoId, TRUE)
  ELSE IF r = r2 THEN Route(sonnet, 1, "converse", NoId, x2, TRUE)
  ELSE x1]

Symmetric == Permutations(Calls) \cup Permutations(Requests) \cup Permutations(Tasks)
=============================================================================
