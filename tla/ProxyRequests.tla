--------------------------- MODULE ProxyRequests ---------------------------
(***************************************************************************)
(* Requests on their way through the proxy (api/proxy_router.py,           *)
(* proxy/auth.py, proxy/audit_logger.py): authentication, model, policy,   *)
(* rate limit, Bedrock, and the usage and audit rows.                      *)
(*                                                                         *)
(* A handler has no await after the body is read, so that the event loop   *)
(* of a task runs one at a time; but other tasks, administrators and the   *)
(* threads that drive streams go on between any two of its calls.  Keys    *)
(* end and users are blocked in the database as module VirtualKeys says.   *)
(* When the limiter has room is module RateLimiter's, what a stream sends  *)
(* StreamDecoder's.  The router passes the quota engine no policies, and   *)
(* without policies it never refuses (quota_engine.py:75), but it looks up *)
(* a price, which can fail.                                                *)
(***************************************************************************)
EXTENDS Integers

CONSTANTS Requests, Users, Tasks, NoUser, NoTask

ASSUME NullAssumption == NoUser \notin Users /\ NoTask \notin Tasks

VARIABLES
  keyActive,   \* database: is the key of the user ACTIVE
  access,      \* database: the user row, as the policy engine judges it
  pc,          \* requests: the next step
  kind,        \* POST /v1/messages, the same with stream, or count_tokens
  who,         \* whose key the request carries
  task,        \* the task that serves it
  gate,        \* the user record that authentication restored
  verdict,     \* the answer of a denial that is being recorded
  reply,       \* what the client was answered
  called,      \* has Bedrock been called
  usageRows,   \* usage_events rows with its request_id
  allowedRows, \* audit_events rows, decision "allowed"
  deniedRows,  \* audit_events rows, decision "denied"
  barred       \* history: what has been against it ever since it came

database == <<keyActive, access>>
origin   == <<kind, who, task>>
rows     == <<usageRows, allowedRows, deniedRows>>
vars     == <<database, pc, origin, gate, verdict, reply, called, rows, barred>>

Kinds  == {"message", "stream", "count"}
Access == {"allowed", "blocked", "missing"}
Pcs    == {"absent", "queued", "key", "user", "resolve", "policy", "limit", "build",
           "call", "answer", "streaming", "usage", "audit", "denial", "done"}
Denials == {"unauthenticated", "forbidden", "limited"}
Replies == Denials \cup {"none", "ok", "open", "invalid", "failed", "lost"}

\* Mutant: a handler that has returned still counts.
BusyForEver(t) ==
  \E r \in Requests : task[r] = t /\ pc[r] \notin {"absent", "queued", "streaming"}

\* The event loop of t is in a handler.
Busy(t) ==
  \E r \in Requests :
    /\ task[r] = t
    /\ pc[r] \notin {"absent", "queued", "streaming", "done"}
    /\ pc[r] \in {"usage", "audit"} => kind[r] # "stream"

Init ==
  /\ keyActive \in [Users -> BOOLEAN]
  /\ access \in [Users -> Access]
  /\ pc = [r \in Requests |-> "absent"]
  /\ kind = [r \in Requests |-> "none"]
  /\ who = [r \in Requests |-> NoUser]
  /\ task = [r \in Requests |-> NoTask]
  /\ gate = [r \in Requests |-> "missing"]
  /\ verdict = [r \in Requests |-> "none"]
  /\ reply = [r \in Requests |-> "none"]
  /\ called = [r \in Requests |-> FALSE]
  /\ usageRows = [r \in Requests |-> 0]
  /\ allowedRows = [r \in Requests |-> 0]
  /\ deniedRows = [r \in Requests |-> 0]
  /\ barred = [r \in Requests |-> {}]

-----------------------------------------------------------------------------

Go(r, next) == pc' = [pc EXCEPT ![r] = next]

\* The handler moves on without answering.
Continue(r, next) == Go(r, next) /\ UNCHANGED <<verdict, reply>>

\* The handler answers and is done.
Answer(r, code) ==
  /\ Go(r, "done")
  /\ reply' = [reply EXCEPT ![r] = code]
  /\ UNCHANGED verdict

\* A denial is recorded before it is answered, except by count_tokens.
Deny(r, code) ==
  IF kind[r] = "count" THEN Answer(r, code)
  ELSE /\ Go(r, "denial")
       /\ verdict' = [verdict EXCEPT ![r] = code]
       /\ UNCHANGED reply

\* The load balancer passes a request on to a task.
Arrive(r, k, u, t) ==
  /\ pc[r] = "absent"
  /\ kind' = [kind EXCEPT ![r] = k]
  /\ who' = [who EXCEPT ![r] = u]
  /\ task' = [task EXCEPT ![r] = t]
  /\ barred' = [barred EXCEPT ![r] = {b \in {"key", "user"} :
       IF b = "key" THEN ~keyActive[u] ELSE access[u] # "allowed"}]
  /\ Continue(r, "queued")
  /\ UNCHANGED <<database, gate, called, rows>>

\* The event loop enters the handler.
Enter(r) ==
  /\ pc[r] = "queued" /\ ~Busy(task[r])
  /\ Continue(r, "key")
  /\ UNCHANGED <<database, origin, gate, called, rows, barred>>

\* get_key_by_hash; a header without a usable key fares like an unknown one.
ReadKey(r) ==
  /\ pc[r] = "key"
  /\ IF keyActive[who[r]] THEN Continue(r, "user") ELSE Deny(r, "unauthenticated")
  /\ UNCHANGED <<database, origin, gate, called, rows, barred>>

\* get_user, and restore_trusted_request_context.
ReadUser(r) ==
  /\ pc[r] = "user"
  /\ gate' = [gate EXCEPT ![r] = access[who[r]]]
  /\ IF access[who[r]] = "missing" THEN Deny(r, "unauthenticated") ELSE Continue(r, "resolve")
  /\ UNCHANGED <<database, origin, called, rows, barred>>

\* A read of the database raises: treated as a failed authentication, and
\* answered 502.
AuthFails(r) ==
  /\ pc[r] \in {"key", "user"}
  /\ Deny(r, "failed")
  /\ UNCHANGED <<database, origin, gate, called, rows, barred>>

Resolve(r) ==
  /\ pc[r] = "resolve"
  /\ Continue(r, IF kind[r] = "count" THEN "build" ELSE "policy")
  /\ UNCHANGED <<database, origin, gate, called, rows, barred>>

\* Mutant: the user's flags are not looked at.
PolicyOfModelOnly(r) ==
  /\ pc[r] = "policy"
  /\ Continue(r, "limit")
  /\ UNCHANGED <<database, origin, gate, called, rows, barred>>

\* PolicyEngine.evaluate of the restored record, without model policies.
Policy(r) ==
  /\ pc[r] = "policy"
  /\ IF gate[r] = "allowed" THEN Continue(r, "limit") ELSE Deny(r, "forbidden")
  /\ UNCHANGED <<database, origin, gate, called, rows, barred>>

Limit(r) ==
  /\ pc[r] = "limit"
  /\ Continue(r, "build") \/ Deny(r, "limited")
  /\ UNCHANGED <<database, origin, gate, called, rows, barred>>

\* The quota engine's price lookup, before the limiter, raises: 502, not
\* recorded.
QuotaFails(r) ==
  /\ pc[r] = "limit"
  /\ Answer(r, "failed")
  /\ UNCHANGED <<database, origin, gate, called, rows, barred>>

Build(r) ==
  /\ pc[r] = "build"
  /\ Continue(r, "call")
  /\ UNCHANGED <<database, origin, gate, called, rows, barred>>

\* An unknown model or an unsupported request: 400, or 502 when a field is
\* missing.  Neither is recorded.
Unusable(r) ==
  /\ pc[r] \in {"resolve", "build"}
  /\ Answer(r, "invalid") \/ Answer(r, "failed")
  /\ UNCHANGED <<database, origin, gate, called, rows, barred>>

CallBedrock(r) ==
  /\ pc[r] = "call"
  /\ called' = [called EXCEPT ![r] = TRUE]
  /\ Continue(r, "answer")
  /\ UNCHANGED <<database, origin, gate, rows, barred>>

\* Mutant: a message is answered first, and recorded in the background.
BedrockReturnsAtOnce(r) ==
  /\ pc[r] = "answer"
  /\ \/ kind[r] = "count" /\ Answer(r, "ok")
     \/ /\ kind[r] # "count"
        /\ Go(r, IF kind[r] = "message" THEN "usage" ELSE "streaming")
        /\ reply' = [reply EXCEPT ![r] = IF kind[r] = "message" THEN "ok" ELSE "open"]
        /\ UNCHANGED verdict
  /\ UNCHANGED <<database, origin, gate, called, rows, barred>>

\* Bedrock returns: a count is answered, a message is recorded first, a stream
\* is handed to the threads of the web server.
BedrockReturns(r) ==
  /\ pc[r] = "answer"
  /\ \/ kind[r] = "count" /\ Answer(r, "ok")
     \/ kind[r] = "message" /\ Continue(r, "usage")
     \/ /\ kind[r] = "stream"
        /\ Go(r, "streaming")
        /\ reply' = [reply EXCEPT ![r] = "open"]
        /\ UNCHANGED verdict
  /\ UNCHANGED <<database, origin, gate, called, rows, barred>>

\* Bedrock raises, or its answer cannot be parsed: 502, not recorded.
BedrockFails(r) ==
  /\ pc[r] = "answer"
  /\ Answer(r, "failed")
  /\ UNCHANGED <<database, origin, gate, called, rows, barred>>

\* The generator ends and comes to its finally clause, or, when the client was
\* gone before the first frame, was never begun and has none.
StreamEnds(r) ==
  /\ pc[r] = "streaming"
  /\ Continue(r, "usage") \/ Continue(r, "done")
  /\ UNCHANGED <<database, origin, gate, called, rows, barred>>

\* record_success, its two writes.
RecordUsage(r) ==
  /\ pc[r] = "usage"
  /\ usageRows' = [usageRows EXCEPT ![r] = @ + 1]
  /\ Continue(r, "audit")
  /\ UNCHANGED <<database, origin, gate, called, allowedRows, deniedRows, barred>>

RecordAllowed(r) ==
  /\ pc[r] = "audit"
  /\ allowedRows' = [allowedRows EXCEPT ![r] = @ + 1]
  /\ IF kind[r] = "stream" THEN Continue(r, "done") ELSE Answer(r, "ok")
  /\ UNCHANGED <<database, origin, gate, called, usageRows, deniedRows, barred>>

\* Mutant: the answer of Bedrock is sent although it could not be recorded.
RecordFailsQuietly(r) ==
  /\ pc[r] \in {"usage", "audit"}
  /\ IF kind[r] = "stream" THEN Continue(r, "done") ELSE Answer(r, "ok")
  /\ UNCHANGED <<database, origin, gate, called, rows, barred>>

\* A write raises: the answer of Bedrock is withheld, a stream just ends.
RecordFails(r) ==
  /\ pc[r] \in {"usage", "audit"}
  /\ IF kind[r] = "stream" THEN Continue(r, "done") ELSE Answer(r, "failed")
  /\ UNCHANGED <<database, origin, gate, called, rows, barred>>

\* record_denial
RecordDenied(r) ==
  /\ pc[r] = "denial"
  /\ deniedRows' = [deniedRows EXCEPT ![r] = @ + 1]
  /\ Answer(r, verdict[r])
  /\ UNCHANGED <<database, origin, gate, called, usageRows, allowedRows, barred>>

DenialFails(r) ==
  /\ pc[r] = "denial"
  /\ Answer(r, "failed")
  /\ UNCHANGED <<database, origin, gate, called, rows, barred>>

Step(r) ==
  \/ Enter(r) \/ ReadKey(r) \/ ReadUser(r) \/ AuthFails(r) \/ Resolve(r) \/ Policy(r)
  \/ QuotaFails(r) \/ Limit(r) \/ Build(r) \/ Unusable(r) \/ CallBedrock(r) \/ BedrockReturns(r)
  \/ BedrockFails(r) \/ StreamEnds(r) \/ RecordUsage(r) \/ RecordAllowed(r)
  \/ RecordFails(r) \/ RecordDenied(r) \/ DenialFails(r)

\* The task dies with every request it serves.
Crash(t) ==
  LET lost == {r \in Requests : task[r] = t /\ pc[r] # "done"}
  IN /\ lost # {}
     /\ pc' = [r \in Requests |-> IF r \in lost THEN "done" ELSE pc[r]]
     /\ reply' = [r \in Requests |-> IF r \in lost /\ reply[r] = "none" THEN "lost" ELSE reply[r]]
     /\ UNCHANGED <<database, origin, gate, verdict, called, rows, barred>>

EndKey(u) ==
  /\ keyActive[u]
  /\ keyActive' = [keyActive EXCEPT ![u] = FALSE]
  /\ UNCHANGED <<access, pc, origin, gate, verdict, reply, called, rows, barred>>

\* Provisioning; a user who is allowed again is nothing against a request.
SetAccess(u, a) ==
  /\ access[u] # a /\ a # "missing"
  /\ access' = [access EXCEPT ![u] = a]
  /\ barred' = [r \in Requests |->
       IF who[r] = u /\ a = "allowed" THEN barred[r] \ {"user"} ELSE barred[r]]
  /\ UNCHANGED <<keyActive, pc, origin, gate, verdict, reply, called, rows>>

Next ==
  \/ \E r \in Requests :
       Step(r) \/ \E k \in Kinds, u \in Users, t \in Tasks : Arrive(r, k, u, t)
  \/ \E t \in Tasks : Crash(t)
  \/ \E u \in Users : EndKey(u) \/ \E a \in Access : SetAccess(u, a)

Spec == Init /\ [][Next]_vars

\* Calls return or time out, and an event loop takes up what waits.
Fairness == \A r \in Requests : WF_vars(Step(r))

FairSpec == Spec /\ Fairness

-----------------------------------------------------------------------------
(* Properties.                                                             *)

\* Every variable keeps its type.
TypeOK ==
  /\ keyActive \in [Users -> BOOLEAN]
  /\ access \in [Users -> Access]
  /\ pc \in [Requests -> Pcs]
  /\ kind \in [Requests -> Kinds \cup {"none"}]
  /\ who \in [Requests -> Users \cup {NoUser}]
  /\ task \in [Requests -> Tasks \cup {NoTask}]
  /\ gate \in [Requests -> Access]
  /\ verdict \in [Requests -> Replies]
  /\ reply \in [Requests -> Replies]
  /\ called \in [Requests -> BOOLEAN]
  /\ usageRows \in [Requests -> Nat]
  /\ allowedRows \in [Requests -> Nat]
  /\ deniedRows \in [Requests -> Nat]
  /\ barred \in [Requests -> SUBSET {"key", "user"}]

\* A request whose key had ended before it came, or whose user was not allowed
\* at any time since, never gets a message from Bedrock, although key, user
\* and policy are looked at one after the other (auth.py:37-43,
\* proxy_router.py:46).
BarredNeverCalls ==
  \A r \in Requests : barred[r] # {} /\ kind[r] # "count" => ~called[r]

\* Answers and books agree: what was answered 200 has its usage row and its
\* audit row, what was denied has an audit row, nothing has two, and nothing is
\* booked as denied that called Bedrock (proxy_router.py:32-157,
\* audit_logger.py:93-94).
BooksAgree ==
  \A r \in Requests :
    /\ reply[r] = "ok" /\ kind[r] = "message" => usageRows[r] = 1 /\ allowedRows[r] = 1
    /\ reply[r] \in Denials /\ kind[r] # "count" => deniedRows[r] = 1
    /\ deniedRows[r] > 0 => ~called[r] /\ usageRows[r] = 0 /\ allowedRows[r] = 0
    /\ usageRows[r] > 0 => called[r]
    /\ usageRows[r] <= 1 /\ allowedRows[r] <= usageRows[r] /\ deniedRows[r] <= 1

\* Every request is answered in the end, or lost with its task: no handler
\* blocks the event loop for ever.
EveryRequestAnswered == \A r \in Requests : pc[r] = "queued" ~> reply[r] # "none"

\* What a client was told and what was written for it, over time: once each, in
\* order, nothing after the answer of a message (proxy_router.py:32-157,
\* audit_logger.py:93-94).
Trail == INSTANCE RequestTrail WITH
  books <- [r \in Requests |-> <<usageRows[r], allowedRows[r], deniedRows[r]>>]

ImplementsTrail == Trail!Spec

-----------------------------------------------------------------------------
(* Why they hold: the invariant that is inductive.                         *)

Before == {"absent", "queued"}

\* What has been against a request ever since it came still is, and has
\* stopped it or is about to.
StoppedInTime ==
  \A r \in Requests :
    /\ pc[r] = "absent" => barred[r] = {} /\ task[r] = NoTask /\ kind[r] = "none"
    /\ pc[r] # "absent" => who[r] \in Users /\ kind[r] \in Kinds
    /\ "key" \in barred[r] =>
         ~keyActive[who[r]] /\ pc[r] \in Before \cup {"key", "denial", "done"}
    /\ "user" \in barred[r] =>
         /\ access[who[r]] # "allowed"
         /\ kind[r] # "count" =>
              /\ pc[r] \in Before \cup {"key", "user", "resolve", "policy", "denial", "done"}
              /\ pc[r] \in {"resolve", "policy"} => gate[r] # "allowed"

\* What has been written and answered by the time a request is at a step.
BooksInStep ==
  \A r \in Requests :
    /\ called[r] => pc[r] \in {"answer", "streaming", "usage", "audit", "done"}
    /\ pc[r] \in {"answer", "streaming", "usage", "audit"} => called[r]
    /\ pc[r] \in {"policy", "limit", "denial", "streaming", "usage", "audit"} => kind[r] # "count"
    /\ pc[r] = "streaming" => kind[r] = "stream" /\ reply[r] = "open"
    /\ pc[r] = "denial" => verdict[r] \in Denials \cup {"failed"}
    /\ pc[r] \notin {"streaming", "usage", "audit", "done"} => reply[r] = "none"
    /\ pc[r] \in {"usage", "audit"} => reply[r] = IF kind[r] = "stream" THEN "open" ELSE "none"
    /\ usageRows[r] > 0 => pc[r] \in {"audit", "done"}
    /\ pc[r] = "audit" => usageRows[r] = 1
    /\ allowedRows[r] > 0 => pc[r] = "done"
    /\ deniedRows[r] > 0 => pc[r] = "done"

IInv == TypeOK /\ StoppedInTime /\ BooksInStep /\ BarredNeverCalls /\ BooksAgree

-----------------------------------------------------------------------------
(* What the documents say and the router does not do.                      *)

\* requirements.md:175: the audit logger records every request.  A request
\* that Bedrock or the request builder refuses leaves no row.
EveryAnswerAudited ==
  \A r \in Requests :
    reply[r] \in {"ok", "invalid"} /\ kind[r] = "message"
      => allowedRows[r] + deniedRows[r] > 0

\* tasks.md:12: whatever authorisation refuses ends before Bedrock is called.
\* count_tokens has no policy step.
NoRouteSkipsPolicy == \A r \in Requests : barred[r] # {} => ~called[r]
=============================================================================
