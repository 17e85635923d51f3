------------------------ MODULE ProxyRequestsProofs ------------------------
(***************************************************************************)
(* Proofs about module ProxyRequests, for any number of requests, users    *)
(* and tasks.                                                              *)
(*                                                                         *)
(* BarredNeverCalls and BooksAgree compare what a request did with what it *)
(* met on its way, and a handler takes one step at a time: the invariant   *)
(* says, for every step a request can be at, what must be true by then.    *)
(***************************************************************************)
EXTENDS ProxyRequests, TLAPS

USE DEF database, origin, rows, Kinds, Access, Pcs, Denials, Replies, Before,
        Go, Continue, Answer, Deny

\* Nothing has come yet.
LEMMA InitInv == Init => IInv
  BY NullAssumption
  DEF Init, IInv, TypeOK, StoppedInTime, BooksInStep, BarredNeverCalls, BooksAgree

\* A step of the handler or of the stream, one action at a time.
LEMMA StepInv == ASSUME IInv, NEW r \in Requests, Step(r) PROVE IInv'
  <1> USE NullAssumption DEF IInv, TypeOK, StoppedInTime, BooksInStep, BarredNeverCalls, BooksAgree
  <1>1. CASE Enter(r)
    BY <1>1 DEF Enter
  <1>2. CASE ReadKey(r)
    BY <1>2 DEF ReadKey
  <1>3. CASE ReadUser(r)
    BY <1>3 DEF ReadUser
  <1>4. CASE AuthFails(r)
    BY <1>4 DEF AuthFails
  <1>5. CASE Resolve(r)
    BY <1>5 DEF Resolve
  <1>6. CASE Policy(r)
    BY <1>6 DEF Policy
  <1>7. CASE Limit(r)
    BY <1>7 DEF Limit
  <1>8. CASE Build(r)
    BY <1>8 DEF Build
  <1>9. CASE Unusable(r)
    BY <1>9 DEF Unusable
  <1>10. CASE CallBedrock(r)
    BY <1>10 DEF CallBedrock
  <1>11. CASE BedrockReturns(r)
    BY <1>11 DEF BedrockReturns
  <1>12. CASE BedrockFails(r)
    BY <1>12 DEF BedrockFails
  <1>13. CASE StreamEnds(r)
    BY <1>13 DEF StreamEnds
  <1>14. CASE RecordUsage(r)
    BY <1>14 DEF RecordUsage
  <1>15. CASE RecordAllowed(r)
    <2>1. TypeOK'
      BY <1>15 DEF RecordAllowed
    <2>2. StoppedInTime' /\ BarredNeverCalls'
      BY <1>15 DEF RecordAllowed
    <2>3. BooksInStep' /\ BooksAgree'
      BY <1>15 DEF RecordAllowed
    <2> QED
      BY <2>1, <2>2, <2>3
  <1>16. CASE RecordFails(r)
    BY <1>16 DEF RecordFails
  <1>17. CASE RecordDenied(r)
    BY <1>17 DEF RecordDenied
  <1>18. CASE DenialFails(r)
    BY <1>18 DEF DenialFails
  <1>19. CASE QuotaFails(r)
    BY <1>19 DEF QuotaFails
  <1> QED
    BY <1>1, <1>2, <1>3, <1>4, <1>5, <1>6, <1>7, <1>8, <1>9, <1>10, <1>11, <1>12,
       <1>13, <1>14, <1>15, <1>16, <1>17, <1>18, <1>19 DEF Step

\* A request comes: nothing is booked for it, and what is against it now is
\* true now.
LEMMA ArriveInv ==
  ASSUME IInv, NEW r \in Requests, NEW k \in Kinds, NEW u \in Users, NEW t \in Tasks,
         Arrive(r, k, u, t)
  PROVE  IInv'
  BY NullAssumption
  DEF Arrive, IInv, TypeOK, StoppedInTime, BooksInStep, BarredNeverCalls, BooksAgree

\* A crash ends requests wherever they are; nothing is written by it.
LEMMA CrashInv == ASSUME IInv, NEW t \in Tasks, Crash(t) PROVE IInv'
  <1> USE DEF IInv, TypeOK
  <1> DEFINE lost == {r \in Requests : task[r] = t /\ pc[r] # "done"}
  <1>1. \A r \in Requests :
          /\ pc'[r] = IF r \in lost THEN "done" ELSE pc[r]
          /\ reply'[r] = IF r \in lost /\ reply[r] = "none" THEN "lost" ELSE reply[r]
    BY DEF Crash
  <1>2. UNCHANGED <<database, origin, gate, verdict, called, rows, barred>>
    BY DEF Crash
  <1>3. TypeOK'
    <2>1. pc' \in [Requests -> Pcs]
      BY DEF Crash
    <2>2. reply' \in [Requests -> Replies]
      BY DEF Crash
    <2> QED
      BY <1>2, <2>1, <2>2
  <1> HIDE DEF lost
  <1>4. \A r \in Requests : pc[r] = "absent" => r \notin lost
    BY NullAssumption DEF lost, StoppedInTime
  <1>5. StoppedInTime'
    BY <1>1, <1>2, <1>4 DEF StoppedInTime
  <1>6. BooksInStep'
    BY <1>1, <1>2 DEF BooksInStep
  <1>7. BarredNeverCalls'
    BY <1>2 DEF BarredNeverCalls
  <1>8. BooksAgree'
    BY <1>1, <1>2 DEF BooksAgree
  <1> QED
    BY <1>3, <1>5, <1>6, <1>7, <1>8

\* An ended key stays ended, so that it cannot lift what is against a request.
LEMMA EndKeyInv == ASSUME IInv, NEW u \in Users, EndKey(u) PROVE IInv'
  BY DEF EndKey, IInv, TypeOK, StoppedInTime, BooksInStep, BarredNeverCalls, BooksAgree

\* A user who is allowed again takes it back from every request of theirs.
LEMMA SetAccessInv ==
  ASSUME IInv, NEW u \in Users, NEW a \in Access, SetAccess(u, a)
  PROVE  IInv'
  BY DEF SetAccess, IInv, TypeOK, StoppedInTime, BooksInStep, BarredNeverCalls, BooksAgree

LEMMA NextInv == IInv /\ [Next]_vars => IInv'
  <1> SUFFICES ASSUME IInv, [Next]_vars PROVE IInv'
    OBVIOUS
  <1>1. CASE Next
    BY <1>1, StepInv, ArriveInv, CrashInv, EndKeyInv, SetAccessInv DEF Next
  <1>2. CASE UNCHANGED vars
    BY <1>2 DEF vars, IInv, TypeOK, StoppedInTime, BooksInStep, BarredNeverCalls, BooksAgree
  <1> QED
    BY <1>1, <1>2

\* The inductive invariant holds in every reachable state: at every step of a
\* request its rows, its answer and what is against it fit together.
THEOREM InvariantHolds == Spec => []IInv
  BY InitInv, NextInv, PTL DEF Spec

\* Every variable keeps its type (proxy_router.py:22-180).
THEOREM TypesHold == Spec => []TypeOK
  <1>1. IInv => TypeOK
    BY DEF IInv
  <1> QED
    BY <1>1, InvariantHolds, PTL

\* Whoever was not allowed from the start gets no message from Bedrock,
\* although key, user and policy are looked at one after the other
\* (auth.py:37-43, proxy_router.py:46).
THEOREM BarredRequestsStop == Spec => []BarredNeverCalls
  <1>1. IInv => BarredNeverCalls
    BY DEF IInv
  <1> QED
    BY <1>1, InvariantHolds, PTL

\* Answers and books agree, with every write failing and every task crashing
\* between any two steps (proxy_router.py:32-157, audit_logger.py:93-94).
THEOREM BooksKept == Spec => []BooksAgree
  <1>1. IInv => BooksAgree
    BY DEF IInv
  <1> QED
    BY <1>1, InvariantHolds, PTL

-----------------------------------------------------------------------------
(* The refinement.                                                         *)

\* The books of RequestTrail, row by row.
LEMMA TrailInit == Init => Trail!Init
  BY DEF Init, Trail!Init, Trail!Nothing

\* A step that writes no row and answers at most as the trail allows.
LEMMA AnswerOnTrail ==
  ASSUME IInv, NEW r \in Requests, NEW code \in {"invalid", "failed", "open", "ok", "unauthenticated"},
         Trail!Told(r, code),
         pc[r] # "absent", reply[r] = "none",
         reply' = [reply EXCEPT ![r] = code], UNCHANGED <<kind, rows>>
  PROVE  Trail!Next
  <1>1. kind[r] # "none"
    BY DEF IInv, StoppedInTime
  <1>2. Trail!Tell(r, code)
    BY <1>1 DEF Trail!Tell
  <1> QED
    BY <1>2 DEF Trail!Next

\* A step that only moves on within the handler.
LEMMA SilentOnTrail == ASSUME UNCHANGED <<kind, reply, rows>> PROVE UNCHANGED Trail!vars
  BY DEF Trail!vars

\* The books of RequestTrail.
Books == [r \in Requests |-> <<usageRows[r], allowedRows[r], deniedRows[r]>>]

\* A step that writes a row changes the books of its own request.
LEMMA BooksOfStep ==
  ASSUME IInv, NEW r \in Requests, NEW u \in Nat, NEW a \in Nat, NEW d \in Nat,
         usageRows' = [usageRows EXCEPT ![r] = u],
         allowedRows' = [allowedRows EXCEPT ![r] = a],
         deniedRows' = [deniedRows EXCEPT ![r] = d]
  PROVE  Books' = [Books EXCEPT ![r] = <<u, a, d>>]
  BY DEF Books, IInv, TypeOK

\* Before the rows are written there are none.
LEMMA NoRowsYet ==
  ASSUME IInv, NEW r \in Requests, pc[r] \notin {"audit", "done"}
  PROVE  /\ usageRows[r] = 0 /\ allowedRows[r] = 0 /\ deniedRows[r] = 0
         /\ Books[r] = Trail!Nothing
  <1>1. usageRows[r] = 0 /\ allowedRows[r] = 0 /\ deniedRows[r] = 0
    BY DEF IInv, TypeOK, BooksInStep
  <1> QED
    BY <1>1 DEF Books, Trail!Nothing

\* So that a request may be told whatever suits its kind.
LEMMA ToldWithoutRows ==
  ASSUME IInv, NEW r \in Requests, pc[r] \notin {"audit", "done"}, NEW code,
         code = "open" => kind[r] = "stream",
         code \in {"ok", "unauthenticated"} => kind[r] = "count"
  PROVE  Trail!Told(r, code)
  BY NoRowsYet DEF Trail!Told, Books

\* The answers of the handler that write no row are on the trail.
LEMMA AnswersOnTrail ==
  ASSUME IInv, NEW r \in Requests,
         \/ Unusable(r) \/ QuotaFails(r) \/ BedrockFails(r) \/ RecordFails(r)
         \/ BedrockReturns(r) \/ DenialFails(r)
  PROVE  Trail!Next \/ UNCHANGED Trail!vars
  <1> USE DEF IInv, TypeOK, BooksInStep
  <1>1. UNCHANGED <<kind, rows>>
    BY DEF Unusable, QuotaFails, BedrockFails, RecordFails, BedrockReturns, DenialFails
  <1>2. ASSUME pc[r] \notin {"audit", "done", "absent"}, reply[r] = "none",
               NEW code \in {"invalid", "failed"}, Answer(r, code)
        PROVE  Trail!Next
    BY <1>1, <1>2, ToldWithoutRows, AnswerOnTrail
  <1>3. CASE Unusable(r) \/ QuotaFails(r) \/ BedrockFails(r) \/ DenialFails(r)
    BY <1>2, <1>3 DEF Unusable, QuotaFails, BedrockFails, DenialFails
  <1>4. CASE RecordFails(r)
    <2>1. CASE kind[r] = "stream"
      <3>1. UNCHANGED reply
        BY <1>4, <2>1 DEF RecordFails
      <3> QED
        BY <1>1, <3>1, SilentOnTrail
    <2>2. CASE kind[r] # "stream" /\ pc[r] = "usage"
      BY <1>2, <1>4, <2>2 DEF RecordFails
    <2>3. CASE kind[r] # "stream" /\ pc[r] = "audit"
      <3>1. usageRows[r] = 1 /\ allowedRows[r] = 0 /\ deniedRows[r] = 0 /\ reply[r] = "none"
        BY <2>3
      <3>2. Trail!Told(r, "failed")
        BY <3>1 DEF Trail!Told, Trail!Used
      <3> QED
        BY <1>1, <1>4, <2>3, <3>1, <3>2, AnswerOnTrail DEF RecordFails
    <2> QED
      BY <1>4, <2>1, <2>2, <2>3 DEF RecordFails
  <1>5. CASE BedrockReturns(r)
    <2>1. pc[r] = "answer" /\ reply[r] = "none"
      BY <1>5 DEF BedrockReturns
    <2>2. CASE kind[r] = "count" /\ Answer(r, "ok")
      <3>1. Trail!Told(r, "ok")
        BY <2>1, <2>2, ToldWithoutRows
      <3> QED
        BY <1>1, <2>1, <2>2, <3>1, AnswerOnTrail
    <2>3. CASE kind[r] = "stream" /\ reply' = [reply EXCEPT ![r] = "open"]
      <3>1. Trail!Told(r, "open")
        BY <2>1, <2>3, ToldWithoutRows
      <3> QED
        BY <1>1, <2>1, <2>3, <3>1, AnswerOnTrail
    <2>4. CASE UNCHANGED reply
      BY <1>1, <2>4, SilentOnTrail
    <2> QED
      BY <1>5, <2>2, <2>3, <2>4 DEF BedrockReturns
  <1> QED
    BY <1>3, <1>4, <1>5

\* A denial is told at once to a count, and recorded first for the others.
LEMMA DenyOnTrail ==
  ASSUME IInv, NEW r \in Requests, NEW code \in {"unauthenticated", "failed"},
         pc[r] \in {"key", "user"}, Deny(r, code), UNCHANGED <<kind, rows>>
  PROVE  Trail!Next \/ UNCHANGED Trail!vars
  <1> USE DEF IInv, BooksInStep
  <1>1. CASE kind[r] = "count"
    BY <1>1, ToldWithoutRows, AnswerOnTrail
  <1>2. CASE kind[r] # "count"
    BY <1>2, SilentOnTrail
  <1> QED
    BY <1>1, <1>2

\* Every step of a request is one of its trail, or none.
LEMMA StepOnTrail ==
  ASSUME IInv, NEW r \in Requests, Step(r)
  PROVE  Trail!Next \/ UNCHANGED Trail!vars
  <1>1. CASE Enter(r) \/ Resolve(r) \/ Build(r) \/ CallBedrock(r) \/ StreamEnds(r)
    BY <1>1, SilentOnTrail DEF Enter, Resolve, Build, CallBedrock, StreamEnds
  <1>2. CASE ReadKey(r)
    BY <1>2, DenyOnTrail, SilentOnTrail DEF ReadKey
  <1>3. CASE ReadUser(r)
    BY <1>3, DenyOnTrail, SilentOnTrail DEF ReadUser
  <1>4. CASE AuthFails(r)
    BY <1>4, DenyOnTrail DEF AuthFails
  <1>5. CASE Policy(r) \/ Limit(r)
    <2>1. kind[r] # "count" /\ UNCHANGED <<kind, rows>>
      BY <1>5 DEF Policy, Limit, IInv, BooksInStep
    <2> QED
      BY <1>5, <2>1, SilentOnTrail DEF Policy, Limit
  <1>6. CASE \/ Unusable(r) \/ QuotaFails(r) \/ BedrockFails(r) \/ RecordFails(r)
             \/ BedrockReturns(r) \/ DenialFails(r)
    BY <1>6, AnswersOnTrail
  <1>7. CASE RecordUsage(r)
    <2>1. kind[r] \in {"message", "stream"} /\ reply[r] = IF kind[r] = "stream" THEN "open" ELSE "none"
      BY <1>7 DEF RecordUsage, IInv, StoppedInTime, BooksInStep
    <2>2. usageRows[r] = 0 /\ allowedRows[r] = 0 /\ deniedRows[r] = 0
      BY <1>7 DEF RecordUsage, IInv, TypeOK, BooksInStep
    <2>3. usageRows' = [usageRows EXCEPT ![r] = 1] /\ UNCHANGED <<kind, reply, allowedRows, deniedRows>>
      BY <1>7, <2>2 DEF RecordUsage, IInv, BooksInStep
    <2>4. Books' = [Books EXCEPT ![r] = <<1, 0, 0>>] /\ Books[r] = <<0, 0, 0>>
      <3>1. allowedRows' = [allowedRows EXCEPT ![r] = 0] /\ deniedRows' = [deniedRows EXCEPT ![r] = 0]
        BY <2>2, <2>3 DEF IInv, TypeOK
      <3>2. Books' = [Books EXCEPT ![r] = <<1, 0, 0>>]
        BY <2>2, <2>3, <3>1 DEF Books, IInv, TypeOK
      <3> QED
        BY <2>2, <3>2 DEF Books
    <2>5. Trail!RecordUsage(r)
      BY <2>1, <2>3, <2>4 DEF Trail!RecordUsage, Trail!Recordable, Trail!Nothing, Trail!Used, Books
    <2> QED
      BY <2>5 DEF Trail!Next
  <1>8. CASE RecordAllowed(r)
    <2>1. kind[r] \in {"message", "stream"} /\ reply[r] = IF kind[r] = "stream" THEN "open" ELSE "none"
      BY <1>8 DEF RecordAllowed, IInv, StoppedInTime, BooksInStep
    <2>2. usageRows[r] = 1 /\ allowedRows[r] = 0 /\ deniedRows[r] = 0
      BY <1>8 DEF RecordAllowed, IInv, TypeOK, BooksInStep
    <2>3. /\ allowedRows' = [allowedRows EXCEPT ![r] = 1]
          /\ reply' = [reply EXCEPT ![r] = IF kind[r] = "message" THEN "ok" ELSE reply[r]]
          /\ UNCHANGED <<kind, usageRows, deniedRows>>
      BY <1>8, <2>1, <2>2 DEF RecordAllowed, IInv, TypeOK
    <2>4. Books' = [Books EXCEPT ![r] = <<1, 1, 0>>] /\ Books[r] = <<1, 0, 0>>
      <3>1. usageRows' = [usageRows EXCEPT ![r] = 1] /\ deniedRows' = [deniedRows EXCEPT ![r] = 0]
        BY <2>2, <2>3 DEF IInv, TypeOK
      <3>2. Books' = [Books EXCEPT ![r] = <<1, 1, 0>>]
        BY <2>2, <2>3, <3>1 DEF Books, IInv, TypeOK
      <3> QED
        BY <2>2, <3>2 DEF Books
    <2>5. Trail!RecordAllowed(r)
      BY <2>1, <2>3, <2>4 DEF Trail!RecordAllowed, Trail!Recordable, Trail!Used, Trail!Allowed, Books
    <2> QED
      BY <2>5 DEF Trail!Next
  <1>9. CASE RecordDenied(r)
    <2>1. kind[r] \in {"message", "stream"} /\ reply[r] = "none"
      BY <1>9 DEF RecordDenied, IInv, StoppedInTime, BooksInStep
    <2>2. usageRows[r] = 0 /\ allowedRows[r] = 0 /\ deniedRows[r] = 0
      BY <1>9 DEF RecordDenied, IInv, TypeOK, BooksInStep
    <2>3. /\ deniedRows' = [deniedRows EXCEPT ![r] = 1]
          /\ reply' = [reply EXCEPT ![r] = verdict[r]]
          /\ UNCHANGED <<kind, usageRows, allowedRows>>
          /\ verdict[r] \in {"unauthenticated", "forbidden", "limited", "failed"}
      BY <1>9, <2>2 DEF RecordDenied, IInv, BooksInStep
    <2>4. Books' = [Books EXCEPT ![r] = <<0, 0, 1>>] /\ Books[r] = <<0, 0, 0>>
      <3>1. usageRows' = [usageRows EXCEPT ![r] = 0] /\ allowedRows' = [allowedRows EXCEPT ![r] = 0]
        BY <2>2, <2>3 DEF IInv, TypeOK
      <3>2. Books' = [Books EXCEPT ![r] = <<0, 0, 1>>]
        BY <2>2, <2>3, <3>1 DEF Books, IInv, TypeOK
      <3> QED
        BY <2>2, <3>2 DEF Books
    <2>5. \E code \in {"unauthenticated", "forbidden", "limited", "failed"} : Trail!RecordDenied(r, code)
      BY <2>1, <2>3, <2>4 DEF Trail!RecordDenied, Trail!Nothing, Trail!Denied, Books
    <2> QED
      BY <2>5 DEF Trail!Next
  <1> QED
    BY <1>1, <1>2, <1>3, <1>4, <1>5, <1>6, <1>7, <1>8, <1>9 DEF Step

\* A crash loses the requests that had not been told anything.
LEMMA CrashOnTrail ==
  ASSUME IInv, NEW t \in Tasks, Crash(t)
  PROVE  Trail!Next
  <1> DEFINE lost == {r \in Requests : task[r] = t /\ pc[r] # "done" /\ reply[r] = "none"}
  <1>1. \A r \in lost : kind[r] # "none" /\ reply[r] = "none"
    BY NullAssumption DEF IInv, StoppedInTime
  <1>2. reply' = [r \in Requests |-> IF r \in lost THEN "lost" ELSE reply[r]]
    BY DEF Crash
  <1>3. UNCHANGED <<kind, rows>>
    BY DEF Crash
  <1>4. Trail!Lose(lost)
    BY <1>1, <1>2, <1>3 DEF Trail!Lose
  <1> QED
    BY <1>4 DEF Trail!Next

LEMMA NextOnTrail == ASSUME IInv, [Next]_vars PROVE [Trail!Next]_(Trail!vars)
  <1>1. ASSUME NEW r \in Requests, NEW k \in Kinds, NEW u \in Users, NEW t \in Tasks,
               Arrive(r, k, u, t)
        PROVE  Trail!Next
    <2>1. kind[r] = "none"
        BY <1>1 DEF Arrive, IInv, StoppedInTime
    <2>2. kind' = [kind EXCEPT ![r] = k] /\ UNCHANGED <<reply, rows>>
      BY <1>1 DEF Arrive
    <2>3. Trail!Come(r, k)
      BY <2>1, <2>2 DEF Trail!Come
    <2> QED
      BY <2>3 DEF Trail!Next
  <1>2. CASE \E u \in Users : EndKey(u) \/ \E a \in Access : SetAccess(u, a)
    BY <1>2, SilentOnTrail DEF EndKey, SetAccess
  <1>3. CASE UNCHANGED vars
    BY <1>3, SilentOnTrail DEF vars
  <1> QED
    BY <1>1, <1>2, <1>3, StepOnTrail, CrashOnTrail DEF Next

\* The proxy implements RequestTrail, whatever fails and whichever task dies
\* (proxy_router.py:32-157, audit_logger.py:93-94).
THEOREM TrailImplemented == Spec => ImplementsTrail
  <1>1. IInv /\ [Next]_vars => [Trail!Next]_(Trail!vars)
    BY NextOnTrail
  <1> QED
    BY TrailInit, <1>1, InvariantHolds, PTL DEF Spec, ImplementsTrail, Trail!Spec
-----------------------------------------------------------------------------
(* What the audit log leaves out.                                          *)

\* A request that was answered 400 was not passed on, and a stream alone is open.
RefusedUncalled ==
  \A r \in Requests :
    /\ reply[r] = "invalid" => pc[r] = "done" /\ ~called[r]
    /\ reply[r] = "open" => kind[r] = "stream"

\* Of the messages that were answered by the proxy as it should, those without
\* an audit row are the 400s, and Bedrock has not seen them.
OnlyRefusedUnaudited ==
  \A r \in Requests :
    kind[r] = "message" /\ reply[r] \notin {"none", "failed", "lost"}
    /\ allowedRows[r] + deniedRows[r] = 0
      => reply[r] = "invalid" /\ ~called[r]

LEMMA RefusedUncalledStep == ASSUME IInv, RefusedUncalled, [Next]_vars PROVE RefusedUncalled'
<1> USE DEF IInv, TypeOK, BooksInStep, RefusedUncalled
<1>1. ASSUME NEW r \in Requests, Step(r) PROVE RefusedUncalled'
  <2>1. CASE \/ Enter(r) \/ Resolve(r) \/ Build(r) \/ CallBedrock(r) \/ StreamEnds(r)
             \/ RecordUsage(r) \/ RecordAllowed(r)
    BY <2>1 DEF Enter, Resolve, Build, CallBedrock, StreamEnds, RecordUsage, RecordAllowed
  <2>2. CASE ReadKey(r) \/ ReadUser(r) \/ AuthFails(r) \/ Policy(r) \/ Limit(r)
    BY <2>2 DEF ReadKey, ReadUser, AuthFails, Policy, Limit
  <2>3. CASE QuotaFails(r) \/ Unusable(r) \/ BedrockReturns(r) \/ BedrockFails(r)
    BY <2>3 DEF QuotaFails, Unusable, BedrockReturns, BedrockFails
  <2>4. CASE RecordFails(r) \/ RecordDenied(r) \/ DenialFails(r)
    BY <2>4 DEF RecordFails, RecordDenied, DenialFails
  <2> QED
    BY <1>1, <2>1, <2>2, <2>3, <2>4 DEF Step
<1>2. ASSUME NEW r \in Requests, NEW k \in Kinds, NEW u \in Users, NEW t \in Tasks, Arrive(r, k, u, t)
      PROVE  RefusedUncalled'
  BY <1>2 DEF Arrive
<1>3. ASSUME NEW t \in Tasks, Crash(t) PROVE RefusedUncalled'
  BY <1>3 DEF Crash
<1>4. ASSUME NEW u \in Users, EndKey(u) \/ \E a \in Access : SetAccess(u, a)
      PROVE  RefusedUncalled'
  BY <1>4 DEF EndKey, SetAccess
<1>5. CASE UNCHANGED vars
  BY <1>5 DEF vars
<1> QED
  BY <1>1, <1>2, <1>3, <1>4, <1>5 DEF Next

\* requirements.md:175 has every request in the audit log.  Every message that
\* was answered 200 or denied is there; what is missing are refusals of the
\* resolver and the builder (proxy_router.py:156), before Bedrock was called.
THEOREM UnauditedWereRefused == Spec => []OnlyRefusedUnaudited
<1>1. Init => RefusedUncalled
  BY DEF Init, RefusedUncalled
<1>2. IInv /\ RefusedUncalled /\ [Next]_vars => RefusedUncalled'
  BY RefusedUncalledStep
<1>3. IInv /\ RefusedUncalled => OnlyRefusedUnaudited
  BY DEF IInv, TypeOK, BooksAgree, RefusedUncalled, OnlyRefusedUnaudited
<1> QED
  BY <1>1, <1>2, <1>3, InvariantHolds, PTL DEF Spec
=============================================================================
