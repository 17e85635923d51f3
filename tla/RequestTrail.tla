---------------------------- MODULE RequestTrail ----------------------------
(***************************************************************************)
(* What the proxy promises about the trail of a request, without handlers, *)
(* tasks or users.  A request is told one thing, once.  Its rows are       *)
(* written in order, each once, and not after it was told, unless it was   *)
(* told that a stream is open.  What it is told is what its rows say: a    *)
(* message that is handed over has all of its rows, and a denied one has   *)
(* its own; whoever finds no row, or the first of two, was told that it    *)
(* failed or was lost.                                                     *)
(***************************************************************************)
EXTENDS Integers

CONSTANT Requests

VARIABLES kind, reply, books

vars == <<kind, reply, books>>

\* How many usage, "allowed" and "denied" rows a request has.
Nothing == <<0, 0, 0>>
Used    == <<1, 0, 0>>
Allowed == <<1, 1, 0>>
Denied  == <<0, 0, 1>>

Init ==
  /\ kind = [r \in Requests |-> "none"]
  /\ reply = [r \in Requests |-> "none"]
  /\ books = [r \in Requests |-> Nothing]

Come(r, k) ==
  /\ kind[r] = "none"
  /\ kind' = [kind EXCEPT ![r] = k]
  /\ UNCHANGED <<reply, books>>

\* A message is still to be told; a stream has been told that it is open.
Recordable(r) ==
  \/ kind[r] = "message" /\ reply[r] = "none"
  \/ kind[r] = "stream" /\ reply[r] = "open"

RecordUsage(r) ==
  /\ Recordable(r) /\ books[r] = Nothing
  /\ books' = [books EXCEPT ![r] = Used]
  /\ UNCHANGED <<kind, reply>>

\* The last row of a message and its answer are one step.
RecordAllowed(r) ==
  /\ Recordable(r) /\ books[r] = Used
  /\ books' = [books EXCEPT ![r] = Allowed]
  /\ reply' = [reply EXCEPT ![r] = IF kind[r] = "message" THEN "ok" ELSE @]
  /\ UNCHANGED kind

\* Also the last step of a request whose authentication failed on an error.
RecordDenied(r, code) ==
  /\ kind[r] \in {"message", "stream"} /\ reply[r] = "none" /\ books[r] = Nothing
  /\ books' = [books EXCEPT ![r] = Denied]
  /\ reply' = [reply EXCEPT ![r] = code]
  /\ UNCHANGED kind

\* What a request may be told on the rows it has; count_tokens has none.
Told(r, code) ==
  /\ books[r] # Nothing => books[r] = Used /\ code = "failed"
  /\ code = "open" => kind[r] = "stream"
  /\ code \in {"ok", "unauthenticated"} => kind[r] = "count"

Tell(r, code) ==
  /\ kind[r] # "none" /\ reply[r] = "none"
  /\ Told(r, code)
  /\ reply' = [reply EXCEPT ![r] = code]
  /\ UNCHANGED <<kind, books>>

\* Some requests that have not been told anything never will be.
Lose(lost) ==
  /\ \A r \in lost : kind[r] # "none" /\ reply[r] = "none"
  /\ reply' = [r \in Requests |-> IF r \in lost THEN "lost" ELSE reply[r]]
  /\ UNCHANGED <<kind, books>>

Next ==
  \/ \E r \in Requests :
       \/ \E k \in {"message", "stream", "count"} : Come(r, k)
       \/ RecordUsage(r) \/ RecordAllowed(r)
       \/ \E code \in {"unauthenticated", "forbidden", "limited", "failed"} : RecordDenied(r, code)
       \/ \E code \in {"invalid", "failed", "open", "ok", "unauthenticated"} : Tell(r, code)
  \/ \E lost \in SUBSET Requests : Lose(lost)

Spec == Init /\ [][Next]_vars
=============================================================================
